------------------------------ MODULE Netboot ------------------------------
(***************************************************************************)
(* The netboot round trip of a pre-created system: the user annotates the  *)
(* System, the System reconciler (internal/controller/system_controller.go *)
(* up to reconcileNetbootAnnotation) forwards the value to the owned       *)
(* CobblerSystem, and the CobblerSystem reconciler                         *)
(* (internal/controller/cobbler_controller.go) applies it to the Cobbler   *)
(* record, notes it in both statuses and strips both annotations.          *)
(*                                                                         *)
(* The two controllers run concurrently and read one informer cache, which *)
(* lags.  Every API write checks the resource version (rv) it is based on. *)
(* The record's other fields are left out: only netboot is told apart.     *)
(* A CobblerSystem owned by a System is always in create mode; conditions  *)
(* and the references of the System pass before the annotation are left    *)
(* out: a pass that fails on one of them is SystemPassFails.               *)
(***************************************************************************)
EXTENDS Naturals

CONSTANTS
    MaxEvents   \* bound: user requests, crashes, failed calls, stale reads; by
                \* savesBareRecord

ASSUME BoundAssumption == MaxEvents \in [BOOLEAN -> Nat]

VARIABLES
    sys,        \* the System in the API server
    cs,         \* the CobblerSystem it owns
    sysCache,   \* the informer's copies
    csCache,
    cobbler,    \* Cobbler: netboot of the record, "none" if there is no record
    savesBareRecord,  \* Cobbler saves a record with a name and netboot only, or
                      \* refuses it; one or the other from the start
    swk,        \* the System controller's worker
    cwk,        \* the CobblerSystem controller's worker
    wanted,     \* history: the value asked for and not applied since, or ""
    crossed,    \* history: another value was on its way, or it was withdrawn
    recreated,  \* history: the CobblerSystem has been removed
    events      \* disturbances so far

k8s == <<sys, cs>>
caches == <<sysCache, csCache>>
history == <<wanted, crossed, recreated>>
rest == <<history, savesBareRecord>>
vars == <<k8s, caches, cobbler, swk, cwk, rest, events>>

Value == {"true", "false"}
Option == Value \cup {""}

\* ann is the netboot annotation, status is status.netbootEnabled, found is
\* status.found.
SystemObject == [ann : Option, status : Option, rv : Nat]
CobblerSystemObject ==
    [life : {"none", "live", "deleting"}, finalizer : BOOLEAN,
     found : BOOLEAN, ann : Option, status : Option, rv : Nat]

SystemWorker == [pc : {"idle", "create", "read", "forward"}, ann : Option,
                 cs : CobblerSystemObject]

CobblerWorker ==
    [pc : {"idle", "finalizer", "upsert", "ready", "apply", "status",
           "strip", "parent", "parentStatus", "parentStrip", "remove",
           "release"},
     cs : CobblerSystemObject, val : Option, sys : SystemObject]

NewSystem == [ann |-> "", status |-> "", rv |-> 0]
NoCobblerSystem == [life |-> "none", finalizer |-> FALSE, found |-> FALSE,
                    ann |-> "", status |-> "", rv |-> 0]

SysIdle == [pc |-> "idle", ann |-> "", cs |-> NoCobblerSystem]
CsIdle == [pc |-> "idle", cs |-> NoCobblerSystem, val |-> "",
           sys |-> NewSystem]

Event == events < MaxEvents[savesBareRecord] /\ events' = events + 1

\* The API server gives every version that differs a number of its own.
Stored(old, new) == IF new = old THEN old ELSE [new EXCEPT !.rv = old.rv + 1]

----------------------------------------------------------------------------
(* The user.                                                               *)

\* A value is on its way to Cobbler, or the pass that applies one has not yet
\* read the System whose annotation it will strip.
InFlight == \/ cs.ann # "" \/ swk.ann # ""
            \/ cwk.pc \in {"apply", "status", "strip", "parent"}

\* The webhook admits "true" and "false" only.
Annotate(v) ==
    /\ v # sys.ann
    /\ Event
    /\ sys' = Stored(sys, [sys EXCEPT !.ann = v])
    /\ wanted' = v
    /\ crossed' = InFlight
    /\ UNCHANGED <<cs, caches, cobbler, swk, cwk, recreated, savesBareRecord>>

Withdraw ==
    /\ sys.ann # ""
    /\ Event
    /\ sys' = Stored(sys, [sys EXCEPT !.ann = ""])
    /\ wanted' = ""
    /\ crossed' = TRUE
    /\ UNCHANGED <<cs, caches, cobbler, swk, cwk, recreated, savesBareRecord>>

DeleteCobblerSystem ==
    /\ cs.life = "live"
    /\ Event
    /\ cs' = IF cs.finalizer THEN Stored(cs, [cs EXCEPT !.life = "deleting"])
             ELSE [NoCobblerSystem EXCEPT !.rv = cs.rv + 1]
    /\ recreated' = TRUE
    /\ UNCHANGED <<sys, caches, cobbler, swk, cwk, wanted, crossed, savesBareRecord>>

----------------------------------------------------------------------------
(* Informer and operator process.                                          *)

SyncSystem ==
    /\ sysCache # sys
    /\ sysCache' = sys
    /\ UNCHANGED <<k8s, csCache, cobbler, swk, cwk, rest, events>>

SyncCobblerSystem ==
    /\ csCache # cs
    /\ csCache' = cs
    /\ UNCHANGED <<k8s, sysCache, cobbler, swk, cwk, rest, events>>

\* A call of the System pass fails, or of the CobblerSystem pass.
SystemPassFails ==
    /\ swk.pc # "idle"
    /\ Event
    /\ swk' = SysIdle
    /\ UNCHANGED <<k8s, caches, cobbler, cwk, rest>>

CobblerPassFails ==
    /\ cwk.pc # "idle"
    /\ Event
    /\ cwk' = CsIdle
    /\ UNCHANGED <<k8s, caches, cobbler, swk, rest>>

\* The operator dies; the restarted one lists everything afresh.
Crash ==
    /\ swk.pc # "idle" \/ cwk.pc # "idle"
    /\ Event
    /\ swk' = SysIdle /\ cwk' = CsIdle
    /\ sysCache' = sys /\ csCache' = cs
    /\ UNCHANGED <<k8s, cobbler, rest>>

----------------------------------------------------------------------------
(* SystemReconciler.Reconcile, reconcileCobblerSystem and                  *)
(* reconcileNetbootAnnotation.                                             *)

\* A pass on a stale copy may carry a value that is no longer asked for.
BeginSystem ==
    /\ swk.pc = "idle"
    /\ IF sysCache = sys THEN UNCHANGED events ELSE Event
    /\ swk' = [SysIdle EXCEPT !.pc = "create", !.ann = sysCache.ann]
    /\ crossed' = (crossed \/ sysCache.ann \notin {"", sys.ann})
    /\ UNCHANGED <<k8s, caches, cobbler, cwk, wanted, recreated, savesBareRecord>>

\* CreateOrUpdate: creating fails if the cache missed the existing object.
CreateCobblerSystem ==
    /\ swk.pc = "create"
    /\ IF csCache.life = "none"
       THEN IF cs.life = "none"
            THEN /\ cs' = Stored(cs, [cs EXCEPT !.life = "live"])
                 /\ swk' = [swk EXCEPT !.pc = "read"]
            ELSE UNCHANGED cs /\ swk' = SysIdle
       ELSE UNCHANGED cs /\ swk' = [swk EXCEPT !.pc = "read"]
    /\ UNCHANGED <<sys, caches, cobbler, cwk, rest, events>>

ForwardNeededIfOn(c) == c.life # "none" /\ c.ann = "" /\ swk.ann = "true"

\* Without a CobblerSystem in the cache the value waits for the next pass.
ForwardNeeded(c) == c.life # "none" /\ c.ann # swk.ann

ReadCobblerSystem ==
    /\ swk.pc = "read"
    /\ swk' = IF swk.ann # "" /\ ForwardNeeded(csCache)
              THEN [swk EXCEPT !.pc = "forward", !.cs = csCache] ELSE SysIdle
    /\ UNCHANGED <<k8s, caches, cobbler, cwk, rest, events>>

Forward ==
    /\ swk.pc = "forward"
    /\ cs' = IF cs.rv = swk.cs.rv THEN Stored(cs, [cs EXCEPT !.ann = swk.ann])
             ELSE cs
    /\ swk' = SysIdle
    /\ UNCHANGED <<sys, caches, cobbler, cwk, rest, events>>

----------------------------------------------------------------------------
(* CobblerSystemReconciler.Reconcile.                                      *)

CobblerStepRaw(c) == IF c.ann # "" THEN "netboot" ELSE "upsert"

CobblerStep(c) ==
    CASE c.life = "deleting"               -> "remove"
      [] c.life = "live" /\ ~c.finalizer   -> "finalizer"
      [] c.life = "live" /\ c.finalizer /\ c.ann # "" -> "apply"
      [] OTHER                             -> "upsert"

BeginCobbler ==
    /\ cwk.pc = "idle" /\ csCache.life # "none"
    /\ IF csCache = cs THEN UNCHANGED events ELSE Event
    /\ cwk' = [CsIdle EXCEPT !.pc = CobblerStep(csCache), !.cs = csCache,
                             !.val = IF CobblerStep(csCache) = "apply"
                                     THEN csCache.ann ELSE ""]
    /\ UNCHANGED <<k8s, caches, cobbler, swk, rest>>

\* r.Update and r.Status().Update on the CobblerSystem.
Conflict == cs.rv # cwk.cs.rv

SaveCs(new, next) ==
    IF Conflict THEN UNCHANGED cs /\ cwk' = CsIdle
    ELSE /\ cs' = Stored(cs, new)
         /\ cwk' = IF next = "idle" THEN CsIdle
                   ELSE [cwk EXCEPT !.pc = next, !.cs = Stored(cs, new)]

AddFinalizer ==
    /\ cwk.pc = "finalizer"
    /\ SaveCs([cwk.cs EXCEPT !.finalizer = TRUE], "idle")
    /\ UNCHANGED <<sys, caches, cobbler, swk, rest, events>>

\* UpsertSystem leaves netboot alone; a new record has it on.
UpsertSystem ==
    /\ cwk.pc = "upsert"
    /\ cobbler' = IF cobbler = "none" THEN "true" ELSE cobbler
    /\ cwk' = [cwk EXCEPT !.pc = "ready"]
    /\ UNCHANGED <<k8s, caches, swk, rest, events>>

NoteReady ==
    /\ cwk.pc = "ready"
    /\ SaveCs([cwk.cs EXCEPT !.found = TRUE], "idle")
    /\ UNCHANGED <<sys, caches, cobbler, swk, rest, events>>

SetNetbootOnlyOn ==
    /\ cwk.pc = "apply"
    /\ cobbler' = "true"
    /\ cwk' = [cwk EXCEPT !.pc = "status"]
    /\ wanted' = IF wanted = cwk.val THEN "" ELSE wanted
    /\ UNCHANGED <<k8s, caches, swk, crossed, recreated, savesBareRecord, events>>

\* SetNetboot; a value that is applied is no longer wanted.
SetNetboot ==
    /\ cwk.pc = "apply"
    /\ IF cobbler = "none" /\ ~savesBareRecord
       THEN cwk' = CsIdle /\ UNCHANGED <<cobbler, wanted>>
       ELSE /\ cobbler' = cwk.val
            /\ cwk' = [cwk EXCEPT !.pc = "status"]
            /\ wanted' = IF wanted = cwk.val THEN "" ELSE wanted
    /\ UNCHANGED <<k8s, caches, swk, crossed, recreated, savesBareRecord, events>>

NoteApplied ==
    /\ cwk.pc = "status"
    /\ SaveCs([cwk.cs EXCEPT !.status = cwk.val], "strip")
    /\ UNCHANGED <<sys, caches, cobbler, swk, rest, events>>

StripCobblerSystem ==
    /\ cwk.pc = "strip"
    /\ SaveCs([cwk.cs EXCEPT !.ann = ""], "parent")
    /\ UNCHANGED <<sys, caches, cobbler, swk, rest, events>>

\* clearParentSystemNetboot: read the System, write its status, strip it.
ReadParent ==
    /\ cwk.pc = "parent"
    /\ cwk' = [cwk EXCEPT !.pc = "parentStatus", !.sys = sysCache]
    /\ UNCHANGED <<k8s, caches, cobbler, swk, rest, events>>

NoteParent ==
    LET new == Stored(sys, [sys EXCEPT !.status = cwk.val])
    IN /\ cwk.pc = "parentStatus"
       /\ IF sys.rv # cwk.sys.rv THEN UNCHANGED sys /\ cwk' = CsIdle
          ELSE /\ sys' = new
               /\ cwk' = IF new.ann = "" THEN CsIdle
                         ELSE [cwk EXCEPT !.pc = "parentStrip", !.sys = new]
       /\ UNCHANGED <<cs, caches, cobbler, swk, rest, events>>

StripParentBlind ==
    /\ cwk.pc = "parentStrip"
    /\ sys' = Stored(sys, [sys EXCEPT !.ann = ""])
    /\ cwk' = CsIdle
    /\ UNCHANGED <<cs, caches, cobbler, swk, rest, events>>

StripParent ==
    /\ cwk.pc = "parentStrip"
    /\ sys' = IF sys.rv = cwk.sys.rv THEN Stored(sys, [sys EXCEPT !.ann = ""])
              ELSE sys
    /\ cwk' = CsIdle
    /\ UNCHANGED <<cs, caches, cobbler, swk, rest, events>>

RemoveSystem ==
    /\ cwk.pc = "remove"
    /\ cobbler' = "none"
    /\ cwk' = [cwk EXCEPT !.pc = "release"]
    /\ UNCHANGED <<k8s, caches, swk, rest, events>>

ReleaseCobblerSystem ==
    /\ cwk.pc = "release"
    /\ SaveCs(NoCobblerSystem, "idle")
    /\ UNCHANGED <<sys, caches, cobbler, swk, rest, events>>

----------------------------------------------------------------------------

Init ==
    /\ sys = NewSystem /\ sysCache = NewSystem
    /\ cs = NoCobblerSystem /\ csCache = NoCobblerSystem
    /\ cobbler = "none" /\ savesBareRecord \in BOOLEAN
    /\ swk = SysIdle /\ cwk = CsIdle
    /\ wanted = "" /\ crossed = FALSE /\ recreated = FALSE
    /\ events = 0

SystemPass == CreateCobblerSystem \/ ReadCobblerSystem \/ Forward

CobblerPass == \/ AddFinalizer \/ UpsertSystem \/ NoteReady \/ SetNetboot
               \/ NoteApplied \/ StripCobblerSystem \/ ReadParent \/ NoteParent \/ StripParent
               \/ RemoveSystem \/ ReleaseCobblerSystem

Next == \/ \E v \in Value : Annotate(v)
        \/ Withdraw \/ DeleteCobblerSystem \/ SyncSystem \/ SyncCobblerSystem
        \/ SystemPassFails \/ CobblerPassFails \/ Crash
        \/ BeginSystem \/ SystemPass \/ BeginCobbler \/ CobblerPass

Spec == Init /\ [][Next]_vars

\* Both controllers requeue their objects after every pass and the informers
\* catch up.
Fairness ==
    /\ WF_vars(BeginSystem) /\ WF_vars(SystemPass)
    /\ WF_vars(BeginCobbler) /\ WF_vars(CobblerPass)
    /\ WF_vars(SyncSystem) /\ WF_vars(SyncCobblerSystem)

FairSpec == Spec /\ Fairness
----------------------------------------------------------------------------
(* Properties.                                                             *)

\* Type correctness of the two objects, their cached copies and both workers.
TypeOK ==
    /\ sys \in SystemObject /\ sysCache \in SystemObject
    /\ cs \in CobblerSystemObject /\ csCache \in CobblerSystemObject
    /\ cobbler \in Value \cup {"none"} /\ savesBareRecord \in BOOLEAN
    /\ swk \in SystemWorker /\ cwk \in CobblerWorker
    /\ wanted \in Option /\ crossed \in BOOLEAN /\ recreated \in BOOLEAN
    /\ events \in Nat

\* A value the user asks for stays on the System until it has been applied to
\* the Cobbler record, across crashes, conflicts and removals of the
\* CobblerSystem, unless an earlier value was still on its way.
IntentKept == (wanted # "" /\ ~crossed) => sys.ann = wanted

\* Once both annotations are gone and both controllers rest, both statuses
\* report what the Cobbler record has, although five separate writes to two
\* objects and to Cobbler bring them there.
Settled == /\ sys.ann = "" /\ cs.ann = "" /\ swk.pc = "idle" /\ cwk.pc = "idle"
           /\ csCache = cs /\ ~recreated /\ ~crossed
StatusAgrees ==
    Settled => /\ sys.status = cs.status
               /\ cs.status # "" => cobbler = cs.status

\* A value that was asked for is eventually applied, or was crossed by another;
\* where Cobbler refuses a record that has only a name, this holds for values that
\* find a record, since SetNetboot comes before UpsertSystem in every pass.
Refused == ~savesBareRecord /\ cobbler = "none"
IntentApplied == wanted # "" ~> (wanted = "" \/ crossed \/ Refused)

\* The comment on reconcileNetbootAnnotation: "a crash between forwarding and
\* applying can never lose the customer's intent".
IntentNeverLost == wanted # "" => sys.ann = wanted

\* The comment on the netboot branch of Reconcile: "apply it to the Cobbler record
\* via the API, then strip the annotation", whatever Cobbler does with a record
\* that is not there yet.
EveryIntentApplied == wanted # "" ~> (wanted = "" \/ crossed)
============================================================================
