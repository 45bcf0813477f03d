--------------------------- MODULE Organization ---------------------------
(***************************************************************************)
(* Organizations: the reconciler                                           *)
(* (internal/controller/organization_controller.go), the webhook that      *)
(* admits them, and Uyuni's organizations as the client sees them.         *)
(*                                                                         *)
(* All custom resources modelled carry one spec.name on one Uyuni server,  *)
(* which is the case the code guards against.  The controller has one      *)
(* worker, so passes do not overlap; the informer's copy they read lags.   *)
(* A copy is always a whole earlier state: one watch delivers the changes  *)
(* of one kind in order.  The thirteen Lists of organizationDependent are  *)
(* one read of that copy, and with the first write of a deletion one step. *)
(***************************************************************************)
EXTENDS Naturals, FiniteSets

CONSTANTS
    Org,        \* Organization resources, all of one spec.name
    Dependent,  \* kinds of the resources users create in an Organization
    MaxOrgID,   \* bound: organizations Uyuni ever makes
    MaxEvents   \* bound: failures, crashes, stale reads, outside changes

\* Thirteen kinds are listed by organizationDependent; custom info keys, image
\* stores, maintenance calendars and schedules and package cleanups, which have
\* an organizationRef as well, are not.
ASSUME OrgAssumption == Org # {}
ASSUME DependentAssumption == Dependent \subseteq {"listed", "unlisted"}
ASSUME IDAssumption == MaxOrgID \in Nat \ {0}
ASSUME BoundAssumption == MaxEvents \in Nat

VARIABLES
    obj,       \* the Organizations in the API server
    objCache,  \* the informer's copy of them
    provider,  \* per Organization: its UyuniProvider exists
    secret,    \* the Secret their providers name exists
    deps,      \* per Organization: the kinds of the resources that name it
    depCache,  \* the informers' copy of deps
    wk,        \* the controller's worker
    uy,        \* Uyuni: per id, the organization's name, or "none"
    used,      \* Uyuni: ids given out
    made,      \* history: ids made by the operator
    lost,      \* history: ids not saved, or replaced through spec.import
    blind,     \* history: Organizations whose deletion read a stale copy
    outside,   \* history: ids deleted by someone else
    events     \* disturbances so far

kube == <<obj, provider, secret, deps>>
copies == <<objCache, depCache>>
history == <<made, lost, blind, outside>>
vars == <<kube, copies, wk, uy, used, history, events>>

----------------------------------------------------------------------------
(* Objects.                                                                *)

ID == 1..MaxOrgID

\* "dropped": deleted before it had a finalizer; "gone": released by the
\* operator.  import: spec.import names organization 1.  uid 0: not realised;
\* snap: the provider's connection details are stored.
OrganizationObject ==
    [life : {"absent", "live", "deleting", "dropped", "gone"}, finalizer : BOOLEAN,
     import : BOOLEAN, force : BOOLEAN, uid : ID \cup {0}, snap : BOOLEAN]

NewOrganization == [life |-> "live", finalizer |-> FALSE, import |-> FALSE,
                    force |-> FALSE, uid |-> 0, snap |-> FALSE]
Absent == [NewOrganization EXCEPT !.life = "absent"]

Worker == [pc : {"idle", "finalizer", "lookup", "save", "note", "delete",
                 "release"},
           o : Org, t : OrganizationObject, base : OrganizationObject]

First == CHOOSE o \in Org : TRUE

Exists(t) == t.life \in {"live", "deleting"}
Named(name) == {i \in ID : uy[i] = name}

Event == events < MaxEvents /\ events' = events + 1

----------------------------------------------------------------------------
(* The user, the webhook, and what happens in Uyuni behind the operator.   *)

\* checkDuplicate: only against Organizations whose provider resolves, and
\* not at all while the new one's own provider does not.
checkDuplicate(o) ==
    /\ provider[o]
    /\ \E other \in Org \ {o} :
          Exists(objCache[other]) /\ ~objCache[other].import /\ provider[other]

Create(o, import) ==
    /\ obj[o].life = "absent"
    /\ import \/ ~checkDuplicate(o)
    /\ obj' = [obj EXCEPT ![o] = [NewOrganization EXCEPT !.import = import]]
    /\ UNCHANGED <<provider, secret, deps, copies, wk, uy, used, history, events>>

\* ValidateUpdate: spec.import is immutable only once it is set.
AddImport(o) ==
    /\ obj[o].life = "live" /\ ~obj[o].import
    /\ Event
    /\ obj' = [obj EXCEPT ![o].import = TRUE]
    /\ UNCHANGED <<provider, secret, deps, copies, wk, uy, used, history>>

AskDelete(o) ==
    /\ obj[o].life = "live"
    /\ obj' = [obj EXCEPT ![o].life =
                   IF obj[o].finalizer THEN "deleting" ELSE "dropped"]
    /\ UNCHANGED <<provider, secret, deps, copies, wk, uy, used, history, events>>

AskForceDelete(o) ==
    /\ obj[o].life = "deleting" /\ ~obj[o].force
    /\ Event
    /\ obj' = [obj EXCEPT ![o].force = TRUE]
    /\ UNCHANGED <<provider, secret, deps, copies, wk, uy, used, history>>

ChangeProvider(o) ==
    /\ Event
    /\ provider' = [provider EXCEPT ![o] = ~@]
    /\ UNCHANGED <<obj, secret, deps, copies, wk, uy, used, history>>

ChangeSecret ==
    /\ Event
    /\ secret' = ~secret
    /\ UNCHANGED <<obj, provider, deps, copies, wk, uy, used, history>>

CreateDependent(o, d) ==
    /\ Exists(obj[o]) /\ deps[o] = {}
    /\ Event
    /\ deps' = [deps EXCEPT ![o] = {d}]
    /\ UNCHANGED <<obj, provider, secret, copies, wk, uy, used, history>>

DeleteDependent(o) ==
    /\ deps[o] # {}
    /\ deps' = [deps EXCEPT ![o] = {}]
    /\ UNCHANGED <<obj, provider, secret, copies, wk, uy, used, history, events>>

RenameInUyuni(i) ==
    /\ uy[i] = "spec"
    /\ Event
    /\ uy' = [uy EXCEPT ![i] = "other"]
    /\ UNCHANGED <<kube, copies, wk, used, history>>

DeleteInUyuni(i) ==
    /\ uy[i] # "none"
    /\ Event
    /\ uy' = [uy EXCEPT ![i] = "none"]
    /\ outside' = outside \cup {i}
    /\ UNCHANGED <<kube, copies, wk, used, made, lost, blind>>

----------------------------------------------------------------------------
(* OrganizationReconciler.Reconcile.                                       *)

Idle == [pc |-> "idle", o |-> First, t |-> Absent, base |-> Absent]

CacheSync ==
    /\ objCache # obj \/ depCache # deps
    /\ objCache' = obj /\ depCache' = deps
    /\ UNCHANGED <<kube, wk, uy, used, history, events>>

organizationDependent(o) == "listed" \in depCache[o]

\* Another Organization, not being deleted, has the same id in its status.
NeverShared(o) == FALSE
sharedByOther(o) ==
    \E other \in Org \ {o} : /\ objCache[other].life = "live"
                             /\ objCache[other].uid = objCache[o].uid

\* handleDeletion, up to its first write: InUse ends the pass.
InUse(o) == ~objCache[o].force /\ organizationDependent(o)

DeletesOrg(o) ==
    /\ ~objCache[o].force
    /\ ~objCache[o].import /\ objCache[o].uid # 0
    /\ ~sharedByOther(o)

handleDeletion(o) == IF DeletesOrg(o) THEN "delete" ELSE "release"

FirstStep(o) ==
    IF objCache[o].life = "deleting" THEN handleDeletion(o)
    ELSE IF objCache[o].finalizer THEN "lookup" ELSE "finalizer"

Begin(o) ==
    LET stale == objCache # obj \/ depCache # deps
    IN  /\ wk.pc = "idle"
        /\ \/ objCache[o].life = "live"
           \/ objCache[o].life = "deleting" /\ objCache[o].finalizer /\ ~InUse(o)
        /\ IF stale THEN Event ELSE UNCHANGED events
        /\ wk' = [pc |-> FirstStep(o), o |-> o, t |-> objCache[o],
                  base |-> objCache[o]]
        /\ blind' = IF stale /\ objCache[o].life = "deleting"
                    THEN blind \cup {o} ELSE blind
        /\ UNCHANGED <<kube, copies, uy, used, made, lost, outside>>

Stays(pc) == wk.pc = pc /\ obj[wk.o] = wk.base
Save(t) == obj' = [obj EXCEPT ![wk.o] = t]

\* The next write of the pass finds another version: the pass ends.
Conflict ==
    /\ wk.pc \in {"finalizer", "save", "note", "release"}
    /\ obj[wk.o] # wk.base
    /\ wk' = Idle
    /\ lost' = lost \cup ({wk.t.uid} \ {0, wk.base.uid})
    /\ UNCHANGED <<kube, copies, uy, used, made, blind, outside, events>>

AddFinalizer ==
    /\ Stays("finalizer")
    /\ Save([wk.t EXCEPT !.finalizer = TRUE])
    /\ wk' = Idle
    /\ UNCHANGED <<provider, secret, deps, copies, uy, used, history, events>>

\* For and snapshotProvider: without the UyuniProvider the pass fails, and
\* so it does when the server cannot be reached or, unless the pool still has
\* the client, the Secret is missing.
ProviderError ==
    /\ wk.pc = "lookup"
    /\ IF provider[wk.o] /\ secret THEN Event ELSE UNCHANGED events
    /\ wk' = Idle
    /\ UNCHANGED <<kube, copies, uy, used, history>>

\* A lookup ends in a write: "save" with the id bound, "note" with nothing
\* more than the snapshot (a condition tells why).
FoundRaw(i) == wk' = [wk EXCEPT !.pc = "save", !.t.uid = MaxOrgID + i]
Found(i) == wk' = [wk EXCEPT !.pc = "save", !.t.uid = i, !.t.snap = TRUE]
NoteSnapshot == wk' = [wk EXCEPT !.pc = "note", !.t.snap = TRUE]

Looking == wk.pc = "lookup" /\ provider[wk.o]
AlwaysByName == Looking /\ ~wk.t.import
Unrealised == Looking /\ ~wk.t.import /\ wk.t.uid = 0

\* spec.import: GetOrganizationByID.
ImportByID ==
    /\ Looking /\ wk.t.import
    /\ IF uy[1] = "none" THEN NoteSnapshot ELSE Found(1)
    /\ UNCHANGED <<kube, copies, uy, used, history, events>>

\* Realised: looked up by id, its name healed unless it is taken.
HealByID ==
    /\ Looking /\ ~wk.t.import /\ wk.t.uid # 0
    /\ IF uy[wk.t.uid] = "none" \/ Named("spec") \ {wk.t.uid} # {}
       THEN NoteSnapshot /\ UNCHANGED uy
       ELSE Found(wk.t.uid) /\ uy' = [uy EXCEPT ![wk.t.uid] = "spec"]
    /\ UNCHANGED <<kube, copies, used, history, events>>

findRealizedDuplicate(o) ==
    \E other \in Org \ {o} :
       /\ Exists(objCache[other]) /\ ~objCache[other].import
       /\ objCache[other].uid # 0 /\ provider[other]

DuplicateOrganization ==
    /\ Unrealised /\ findRealizedDuplicate(wk.o)
    /\ NoteSnapshot
    /\ UNCHANGED <<kube, copies, uy, used, history, events>>

AdoptByName ==
    /\ Unrealised /\ ~findRealizedDuplicate(wk.o)
    /\ \E i \in Named("spec") : Found(i)
    /\ UNCHANGED <<kube, copies, uy, used, history, events>>

\* createOrg: the credentials may be missing, and the reply may be lost.
CreatesOrg(i) ==
    /\ Unrealised /\ ~findRealizedDuplicate(wk.o)
    /\ Named("spec") = {}
    /\ i \in ID \ used /\ \A j \in ID : j < i => j \in used
    /\ uy' = [uy EXCEPT ![i] = "spec"]
    /\ used' = used \cup {i}
    /\ made' = made \cup {i}

createOrg(i) ==
    /\ CreatesOrg(i)
    /\ Found(i)
    /\ UNCHANGED <<kube, copies, lost, blind, outside, events>>

CreateReplyLost(i) ==
    /\ CreatesOrg(i)
    /\ Event
    /\ NoteSnapshot
    /\ lost' = lost \cup {i}
    /\ UNCHANGED <<kube, copies, blind, outside>>

\* Out of ids (the bound MaxOrgID), every creation fails.
CreateFailed ==
    /\ Unrealised /\ ~findRealizedDuplicate(wk.o) /\ Named("spec") = {}
    /\ IF used = ID THEN UNCHANGED events ELSE Event
    /\ NoteSnapshot
    /\ UNCHANGED <<kube, copies, uy, used, history>>

SaveStatus ==
    /\ Stays("save")
    /\ Save(wk.t)
    /\ lost' = IF wk.t.import THEN lost \cup ({wk.base.uid} \ {0})
               ELSE lost \ {wk.t.uid}
    /\ wk' = Idle
    /\ UNCHANGED <<provider, secret, deps, copies, uy, used, made, blind, outside,
                   events>>

SaveNote ==
    /\ Stays("note")
    /\ Save(wk.t)
    /\ wk' = Idle
    /\ UNCHANGED <<provider, secret, deps, copies, uy, used, history, events>>

\* clientFromSnapshot: the snapshot names the Secret and does not hold what is
\* in it; without a snapshot the client comes from the UyuniProvider.
ReadsProvider == secret /\ provider[wk.o]
clientFromSnapshot == secret /\ (wk.t.snap \/ provider[wk.o])

\* DeleteOrganization: an organization that is not there any more counts as
\* deleted.

DeleteOrganization ==
    /\ wk.pc = "delete" /\ clientFromSnapshot
    /\ uy' = [uy EXCEPT ![wk.t.uid] = "none"]
    /\ wk' = [wk EXCEPT !.pc = "release"]
    /\ UNCHANGED <<kube, copies, used, history, events>>

DeleteFailed ==
    /\ wk.pc = "delete"
    /\ IF clientFromSnapshot THEN Event ELSE UNCHANGED events
    /\ wk' = Idle
    /\ UNCHANGED <<kube, copies, uy, used, history>>

\* removeFinalizer and the write that lets the API server drop the object.
Release ==
    /\ Stays("release")
    /\ Save([wk.t EXCEPT !.finalizer = FALSE, !.life = "gone"])
    /\ wk' = Idle
    /\ UNCHANGED <<provider, secret, deps, copies, uy, used, history, events>>

Crash ==
    /\ wk.pc # "idle"
    /\ Event
    /\ lost' = lost \cup ({wk.t.uid} \ {0, wk.base.uid})
    /\ wk' = Idle
    /\ UNCHANGED <<kube, copies, uy, used, made, blind, outside>>

----------------------------------------------------------------------------

\* The first Organization has been created; organization 1 may have been in
\* Uyuni before the operator.
Init ==
    /\ \E import \in BOOLEAN :
          obj = [o \in Org |->
                   IF o = First THEN [NewOrganization EXCEPT !.import = import]
                   ELSE Absent]
    /\ objCache = obj
    /\ provider = [o \in Org |-> TRUE]
    /\ secret = TRUE
    /\ deps = [o \in Org |-> {}]
    /\ depCache = deps
    /\ wk = Idle
    /\ \E old \in SUBSET {1} :
          /\ uy = [i \in ID |-> IF i \in old THEN "spec" ELSE "none"]
          /\ used = old
    /\ made = {} /\ lost = {} /\ blind = {} /\ outside = {}
    /\ events = 0

Pass ==
    \/ AddFinalizer \/ ProviderError \/ ImportByID \/ HealByID
    \/ DuplicateOrganization \/ AdoptByName \/ CreateFailed
    \/ SaveStatus \/ SaveNote \/ DeleteOrganization \/ DeleteFailed
    \/ Release \/ Conflict
    \/ \E i \in ID : createOrg(i) \/ CreateReplyLost(i)

User(o) ==
    \/ \E import \in BOOLEAN : Create(o, import)
    \/ AddImport(o) \/ AskDelete(o) \/ AskForceDelete(o)
    \/ ChangeProvider(o)
    \/ \E d \in Dependent : CreateDependent(o, d)
    \/ DeleteDependent(o)

Next ==
    \/ Pass \/ CacheSync \/ Crash \/ ChangeSecret
    \/ \E o \in Org : Begin(o) \/ User(o)
    \/ \E i \in ID : RenameInUyuni(i) \/ DeleteInUyuni(i)

Spec == Init /\ [][Next]_vars

\* A pass that has begun goes on; the work queue hands out every key that
\* keeps being requeued; the watch delivers.
FairSpec ==
    /\ Spec
    /\ WF_vars(Pass) /\ WF_vars(CacheSync)
    /\ \A o \in Org : SF_vars(Begin(o))

----------------------------------------------------------------------------
(* Properties.                                                             *)

\* Every variable has its type.
TypeOK ==
    /\ obj \in [Org -> OrganizationObject]
    /\ objCache \in [Org -> OrganizationObject]
    /\ provider \in [Org -> BOOLEAN] /\ secret \in BOOLEAN
    /\ deps \in [Org -> SUBSET Dependent]
    /\ depCache \in [Org -> SUBSET Dependent]
    /\ wk \in Worker
    /\ uy \in [ID -> {"none", "spec", "other"}]
    /\ used \subseteq ID /\ made \subseteq ID /\ lost \subseteq ID
    /\ blind \subseteq Org /\ outside \subseteq ID
    /\ events \in 0..MaxEvents

\* The uyuni organization a live Organization manages was not deleted by
\* the deletion of a sibling that shares it (sharedByOther), unless that
\* deletion acted on a copy that lagged behind the sibling's binding.
SiblingsKeepTheirOrg ==
    \A o \in Org :
       obj[o].life = "live" /\ obj[o].uid # 0 =>
          \/ uy[obj[o].uid] # "none"
          \/ obj[o].uid \in outside
          \/ \E other \in blind : obj[other].uid = obj[o].uid

\* An organization the operator made is known to a resource, or to the pass
\* that has just made it, until it is deleted: what leaks one is a lost
\* write of the id, a deletion that was forced or read a stale copy, or
\* spec.import (a resource with it never deletes an organization, and
\* forgets the one it made before).
NothingLeftBehind ==
    \A i \in made :
       \/ uy[i] = "none"
       \/ \E o \in Org : Exists(obj[o]) /\ obj[o].uid = i
       \/ wk.pc = "save" /\ wk.t.uid = i
       \/ i \in lost
       \/ \E o \in Org : /\ obj[o].uid = i
                         /\ obj[o].force \/ o \in blind \/ obj[o].import

\* A deletion that no resource of a listed kind blocks is carried through,
\* also when the UyuniProvider has been deleted first: the status holds the
\* snapshot the client is made from.  The Secret it names must be there.
DeletionCompletes ==
    \A o \in Org : ~<>[](/\ obj[o].life = "deleting" /\ "listed" \notin deps[o]
                        /\ secret)

\* The comment in handleDeletion: "Block deletion while org-scoped resources
\* still exist.  They need this Organization's credentials".
OrgScopedResourcesBlock ==
    [][\A o \in Org : /\ wk.pc = "idle" /\ wk'.pc \in {"delete", "release"}
                      /\ wk'.o = o /\ ~obj[o].force /\ o \notin blind'
                      => deps[o] = {}]_vars

=============================================================================
