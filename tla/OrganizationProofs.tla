------------------------ MODULE OrganizationProofs ------------------------
(***************************************************************************)
(* Organization, for every set of resources and every bound: an            *)
(* organization that is still in use is not deleted, none that the         *)
(* operator made is left behind.                                           *)
(*                                                                         *)
(* Neither is inductive: a pass decides on a copy and writes several steps *)
(* later.  IInv adds what the pass still knows when it writes (Holds,      *)
(* Deletes), how far a resource and the ids have come (Lives, Numbered),   *)
(* and where the id of a made organization is kept (AllKnown).  The steps  *)
(* are proved by the form of what they change.                             *)
(*                                                                         *)
(* At the end, the client pool: what is cached for rotated credentials is  *)
(* evicted with them.                                                      *)
(***************************************************************************)
EXTENDS Organization, ClientPool, TLAPS

----------------------------------------------------------------------------
(* Types.                                                                  *)

LEMMA InitType == Init => TypeOK
<1> SUFFICES ASSUME Init PROVE TypeOK
  OBVIOUS
<1>1. First \in Org
  BY OrgAssumption DEF First
<1>2. NewOrganization \in OrganizationObject /\ Absent \in OrganizationObject
  BY DEF NewOrganization, Absent, OrganizationObject
<1>3. \A b \in BOOLEAN : [NewOrganization EXCEPT !.import = b] \in OrganizationObject
  BY <1>2 DEF OrganizationObject
<1>4. obj \in [Org -> OrganizationObject]
  BY <1>2, <1>3 DEF Init
<1>5. Idle \in Worker
  BY <1>1, <1>2 DEF Idle, Worker
<1>6. 1 \in ID
  BY IDAssumption DEF ID
<1>7. uy \in [ID -> {"none", "spec", "other"}] /\ used \subseteq ID
  BY <1>6 DEF Init
<1>8. 0 \in 0..MaxEvents
  BY BoundAssumption
<1> QED BY <1>4, <1>5, <1>7, <1>8 DEF Init, TypeOK

LEMMA IdleType == Idle \in Worker
<1>1. First \in Org
  BY OrgAssumption DEF First
<1>2. Absent \in OrganizationObject
  BY DEF NewOrganization, Absent, OrganizationObject
<1> QED BY <1>1, <1>2 DEF Idle, Worker

LEMMA EventType ==
    ASSUME TypeOK, Event \/ UNCHANGED events
    PROVE  events' \in 0..MaxEvents
BY BoundAssumption DEF TypeOK, Event

\* A pass that has looked something up is still a pass.
LEMMA WorkerMoves ==
    ASSUME NEW w \in Worker, NEW p \in {"save", "note", "release"}
    PROVE  /\ [w EXCEPT !.pc = p] \in Worker
           /\ [w EXCEPT !.pc = p, !.t.snap = TRUE] \in Worker
           /\ \A i \in ID :
                 [w EXCEPT !.pc = p, !.t.uid = i, !.t.snap = TRUE] \in Worker
<1>1. w.t \in OrganizationObject
  BY DEF Worker
<1>2. [w.t EXCEPT !.snap = TRUE] \in OrganizationObject
  BY <1>1 DEF OrganizationObject
<1>3. \A i \in ID : [w.t EXCEPT !.uid = i, !.snap = TRUE] \in OrganizationObject
  BY <1>1 DEF OrganizationObject
<1> QED BY <1>1, <1>2, <1>3 DEF Worker

\* Both ways a lookup ends.
LEMMA LookupType ==
    ASSUME TypeOK
    PROVE  /\ NoteSnapshot => wk' \in Worker
           /\ \A i \in ID : Found(i) => wk' \in Worker
<1>1. wk \in Worker
  BY DEF TypeOK
<1>2. CASE NoteSnapshot
  <2>1. [wk EXCEPT !.pc = "note", !.t.snap = TRUE] \in Worker
    BY <1>1, WorkerMoves
  <2> QED BY <1>2, <2>1 DEF NoteSnapshot
<1>3. ASSUME NEW i \in ID, Found(i) PROVE wk' \in Worker
  <2>1. [wk EXCEPT !.pc = "save", !.t.uid = i, !.t.snap = TRUE] \in Worker
    BY <1>1, WorkerMoves
  <2> QED BY <1>3, <2>1 DEF Found
<1> QED BY <1>2, <1>3

LEMMA TypeStep == TypeOK /\ [Next]_vars => TypeOK'
<1> SUFFICES ASSUME TypeOK, [Next]_vars PROVE TypeOK'
  OBVIOUS
<1> USE DEF vars, kube, copies, history
<1>t. wk \in Worker /\ wk.o \in Org /\ wk.t \in OrganizationObject
      /\ wk.base \in OrganizationObject
  BY DEF TypeOK, Worker
<1>n. \A b \in BOOLEAN : [NewOrganization EXCEPT !.import = b] \in OrganizationObject
  BY DEF NewOrganization, OrganizationObject
<1>i. Idle \in Worker
  BY IdleType
<1>1. ASSUME NEW o \in Org, User(o) PROVE TypeOK'
  <2>o. obj[o] \in OrganizationObject
    BY DEF TypeOK
  <2>1. ASSUME NEW import \in BOOLEAN, Create(o, import) PROVE TypeOK'
    BY <1>n, <2>1 DEF Create, TypeOK
  <2>2. CASE AddImport(o)
    <3>1. [obj[o] EXCEPT !.import = TRUE] \in OrganizationObject
      BY <2>o DEF OrganizationObject
    <3>2. obj' \in [Org -> OrganizationObject]
      BY <2>2, <3>1 DEF AddImport, TypeOK
    <3> QED BY <2>2, <3>2, EventType DEF AddImport, TypeOK
  <2>3. CASE AskDelete(o)
    <3>1. \A l \in {"deleting", "dropped"} :
             [obj[o] EXCEPT !.life = l] \in OrganizationObject
      BY <2>o DEF OrganizationObject
    <3>2. obj' \in [Org -> OrganizationObject]
      BY <2>3, <3>1 DEF AskDelete, TypeOK
    <3> QED BY <2>3, <3>2 DEF AskDelete, TypeOK
  <2>4. CASE AskForceDelete(o)
    <3>1. [obj[o] EXCEPT !.force = TRUE] \in OrganizationObject
      BY <2>o DEF OrganizationObject
    <3>2. obj' \in [Org -> OrganizationObject]
      BY <2>4, <3>1 DEF AskForceDelete, TypeOK
    <3> QED BY <2>4, <3>2, EventType DEF AskForceDelete, TypeOK
  <2>5. CASE ChangeProvider(o)
    BY <2>5, EventType DEF ChangeProvider, TypeOK
  <2>6. ASSUME NEW d \in Dependent, CreateDependent(o, d) PROVE TypeOK'
    BY <2>6, EventType DEF CreateDependent, TypeOK
  <2>7. CASE DeleteDependent(o)
    BY <2>7 DEF DeleteDependent, TypeOK
  <2> QED BY <1>1, <2>1, <2>2, <2>3, <2>4, <2>5, <2>6, <2>7 DEF User
<1>2. ASSUME NEW i \in ID, RenameInUyuni(i) \/ DeleteInUyuni(i) PROVE TypeOK'
  <2>1. CASE RenameInUyuni(i)
    BY <2>1, EventType DEF RenameInUyuni, TypeOK
  <2>2. CASE DeleteInUyuni(i)
    BY <2>2, EventType DEF DeleteInUyuni, TypeOK
  <2> QED BY <1>2, <2>1, <2>2
<1>3. CASE CacheSync
  BY <1>3 DEF CacheSync, TypeOK
<1>4. CASE Crash \/ ChangeSecret
  BY <1>4, <1>i, <1>t, EventType DEF Crash, ChangeSecret, TypeOK, OrganizationObject
<1>5. ASSUME NEW o \in Org, Begin(o) PROVE TypeOK'
  <2>1. objCache[o] \in OrganizationObject
    BY DEF TypeOK
  <2>2. FirstStep(o) \in {"finalizer", "lookup", "delete", "release"}
    BY DEF FirstStep, handleDeletion
  <2>3. wk' \in Worker
    BY <1>5, <2>1, <2>2 DEF Begin, Worker
  <2>4. Event \/ UNCHANGED events
    BY <1>5 DEF Begin
  <2> QED BY <1>5, <2>3, <2>4, EventType DEF Begin, TypeOK
<1>6. CASE Pass
  <2>1. ASSUME NEW i \in ID, createOrg(i) \/ CreateReplyLost(i) PROVE TypeOK'
    <3>1. /\ uy' \in [ID -> {"none", "spec", "other"}]
          /\ used' \subseteq ID /\ made' \subseteq ID
      BY <2>1 DEF createOrg, CreateReplyLost, CreatesOrg, TypeOK
    <3>2. wk' \in Worker
      BY <2>1, LookupType DEF createOrg, CreateReplyLost
    <3>3. Event \/ UNCHANGED events
      BY <2>1 DEF createOrg, CreateReplyLost
    <3> QED BY <2>1, <3>1, <3>2, <3>3, EventType
            DEF createOrg, CreateReplyLost, TypeOK
  <2>2. CASE AddFinalizer
    <3>1. [wk.t EXCEPT !.finalizer = TRUE] \in OrganizationObject
      BY <1>t DEF OrganizationObject
    <3> QED BY <1>t, <1>i, <2>2, <3>1 DEF AddFinalizer, Save, TypeOK
  <2>3. CASE ProviderError
    BY <2>3, <1>i, EventType DEF ProviderError, TypeOK
  <2>4. CASE ImportByID
    <3>1. 1 \in ID
      BY IDAssumption DEF ID
    <3>2. wk' \in Worker
      BY <2>4, <3>1, LookupType DEF ImportByID
    <3> QED BY <2>4, <3>2 DEF ImportByID, TypeOK
  <2>5. CASE HealByID
    <3>1. wk.t.uid \in ID
      BY <1>t, <2>5 DEF HealByID, OrganizationObject
    <3>2. wk' \in Worker
      BY <2>5, <3>1, LookupType DEF HealByID
    <3> QED BY <2>5, <3>1, <3>2 DEF HealByID, TypeOK
  <2>6. CASE DuplicateOrganization
    BY <2>6, LookupType DEF DuplicateOrganization, TypeOK
  <2>7. CASE AdoptByName
    <3>1. wk' \in Worker
      BY <2>7, LookupType DEF AdoptByName, Named
    <3> QED BY <2>7, <3>1 DEF AdoptByName, TypeOK
  <2>8. CASE CreateFailed
    <3>1. Event \/ UNCHANGED events
      BY <2>8 DEF CreateFailed
    <3> QED BY <2>8, <3>1, LookupType, EventType DEF CreateFailed, TypeOK
  <2>9. CASE SaveStatus
    <3>1. lost' \subseteq ID
      BY <1>t, <2>9 DEF SaveStatus, TypeOK, OrganizationObject
    <3> QED BY <1>t, <1>i, <2>9, <3>1 DEF SaveStatus, Save, TypeOK
  <2>10. CASE SaveNote
    BY <1>t, <1>i, <2>10 DEF SaveNote, Save, TypeOK
  <2>11. CASE DeleteOrganization
    <3>1. wk' \in Worker
      BY <1>t, <2>11, WorkerMoves DEF DeleteOrganization
    <3>2. uy' \in [ID -> {"none", "spec", "other"}]
      BY <2>11 DEF DeleteOrganization, TypeOK
    <3> QED BY <2>11, <3>1, <3>2 DEF DeleteOrganization, TypeOK
  <2>12. CASE DeleteFailed
    <3>1. Event \/ UNCHANGED events
      BY <2>12 DEF DeleteFailed
    <3> QED BY <1>i, <2>12, <3>1, EventType DEF DeleteFailed, TypeOK
  <2>13. CASE Release
    <3>1. [wk.t EXCEPT !.finalizer = FALSE, !.life = "gone"] \in OrganizationObject
      BY <1>t DEF OrganizationObject
    <3> QED BY <1>t, <1>i, <2>13, <3>1 DEF Release, Save, TypeOK
  <2>14. CASE Conflict
    BY <1>i, <1>t, <2>14 DEF Conflict, TypeOK, OrganizationObject
  <2> QED BY <1>6, <2>1, <2>2, <2>3, <2>4, <2>5, <2>6, <2>7, <2>8, <2>9,
             <2>10, <2>11, <2>12, <2>13, <2>14 DEF Pass
<1>7. CASE UNCHANGED vars
  BY <1>7 DEF TypeOK
<1> QED BY <1>1, <1>2, <1>3, <1>4, <1>5, <1>6, <1>7 DEF Next

\* Every variable keeps its type, whatever the webhook, the user and the
\* reconciler of organization_controller.go do.
THEOREM OrganizationTypeOK == Spec => []TypeOK
<1>1. Init => TypeOK
  BY InitType
<1>2. TypeOK /\ [Next]_vars => TypeOK'
  BY TypeStep
<1> QED BY <1>1, <1>2, PTL DEF Spec

----------------------------------------------------------------------------
(* The inductive invariant.                                                *)

Gone == {"deleting", "gone"}

\* An id is in the status of a resource that has its finalizer, and was
\* given out; what the informer calls deleting has not been given another.
Lives ==
    \A o \in Org :
        /\ obj[o].uid # 0 => /\ obj[o].uid \in used
                             /\ obj[o].life \in {"live", "deleting", "gone"}
                             /\ obj[o].life = "live" => obj[o].finalizer
        /\ o \in blind => obj[o].life \in Gone
        /\ objCache[o].life = "deleting" =>
             obj[o].life \in Gone /\ objCache[o].uid = obj[o].uid

\* Uyuni gives an id out once.
Numbered == (\A i \in ID : uy[i] # "none" => i \in used) /\ made \subseteq used

\* A pass that reconciles holds what it has read, with a new id at most.
Reconciling == {"lookup", "save", "note"}
Holds ==
    /\ wk.pc \in Reconciling =>
         /\ wk.base.life = "live" /\ wk.base.finalizer
         /\ wk.t.life = "live" /\ wk.t.finalizer
         /\ wk.t.import = wk.base.import /\ wk.t.force = wk.base.force
    /\ wk.pc \in {"lookup", "note"} => wk.t.uid = wk.base.uid
    /\ wk.pc = "finalizer" => wk.t = wk.base /\ wk.t.life = "live"
    /\ wk.pc = "save" =>
         /\ wk.t.uid \in used
         /\ uy[wk.t.uid] # "none" \/ wk.t.uid \in outside
         /\ ~wk.t.import => wk.base.uid \in {0, wk.t.uid}

\* A pass that deletes has seen the deletion, and, unless it read a stale
\* copy, no live sibling.
Deleting == {"delete", "release"}
Deletes ==
    /\ wk.pc \in Deleting =>
         /\ wk.t = wk.base /\ obj[wk.o].life \in Gone
         /\ obj[wk.o].uid = wk.t.uid
    /\ wk.pc = "delete" =>
         /\ wk.t.uid # 0
         /\ wk.o \in blind \/ \A other \in Org :
               obj[other].life = "live" => obj[other].uid # wk.t.uid
    /\ wk.pc = "release" =>
         \/ wk.o \in blind \/ wk.t.uid = 0 \/ uy[wk.t.uid] = "none"
         \/ obj[wk.o].force \/ obj[wk.o].import
         \/ \E other \in Org \ {wk.o} :
               Exists(obj[other]) /\ obj[other].uid = wk.t.uid

\* NothingLeftBehind, with the id in the pass only as long as it is new.
Excused(o) == obj[o].force \/ o \in blind \/ obj[o].import
Known(i) ==
    \/ uy[i] = "none"
    \/ \E o \in Org : Exists(obj[o]) /\ obj[o].uid = i
    \/ wk.pc = "save" /\ wk.t.uid = i /\ wk.base.uid # i
    \/ i \in lost
    \/ \E o \in Org : obj[o].uid = i /\ Excused(o)
AllKnown == \A i \in made : Known(i)

IInv ==
    /\ TypeOK /\ Lives /\ Numbered /\ Holds /\ Deletes /\ AllKnown
    /\ SiblingsKeepTheirOrg

----------------------------------------------------------------------------
(* The forms of a step.                                                    *)

\* All a resource goes through, but for the binding of its id and its
\* release: it keeps its id, and no deletion is taken back.
Aged(old, new) ==
    /\ new.uid = old.uid
    /\ old.life # "absent" => /\ old.force => new.force
                              /\ old.import => new.import
    /\ old.life \in Gone => new.life = old.life
    /\ new.life = "gone" => old.life = "gone"
    /\ new.life = "live" /\ old.uid # 0 => old.life = "live" /\ new.finalizer
    /\ Exists(old) /\ old.uid # 0 => Exists(new)
    /\ old.uid # 0 => new.life \in {"live", "deleting", "gone"}

\* A resource moves; a pass that wrote it is over.
ObjectMoved ==
    /\ \A o \in Org : Aged(obj[o], obj'[o])
    /\ wk' = wk \/ (wk'.pc = "idle" /\ wk.pc # "save")
    /\ UNCHANGED <<copies, uy, used, history>>

\* The provider or the dependents of a resource change.
SurroundingsMoved ==
    UNCHANGED <<obj, copies, wk, uy, used, history>>

\* Somebody else changes an organization that is in Uyuni.
UyuniMoved ==
    /\ \A i \in ID : uy'[i] # "none" => uy[i] # "none"
    /\ \A i \in ID : uy[i] # "none" => uy'[i] # "none" \/ i \in outside'
    /\ outside \subseteq outside'
    /\ UNCHANGED <<obj, copies, wk, used, made, lost, blind>>

\* The pass is over without a write; an id it had found anew is lost.
PassDropped ==
    /\ wk'.pc = "idle"
    /\ lost \subseteq lost'
    /\ wk.pc = "save" => wk.t.uid \in lost' \cup {0, wk.base.uid}
    /\ UNCHANGED <<obj, copies, uy, used, made, blind, outside>>

\* The pass has looked the organization up, and perhaps made it.
LookedUp ==
    /\ wk.pc = "lookup" /\ wk'.pc \in {"save", "note"}
    /\ wk'.base = wk.base
    /\ wk'.t.life = wk.t.life /\ wk'.t.finalizer = wk.t.finalizer
    /\ wk'.t.import = wk.t.import /\ wk'.t.force = wk.t.force
    /\ wk'.pc = "note" => wk'.t.uid = wk.t.uid
    /\ wk'.pc = "save" =>
         /\ wk'.t.uid \in ID /\ uy'[wk'.t.uid] # "none"
         /\ ~wk.t.import => wk.t.uid \in {0, wk'.t.uid}
    /\ \A i \in ID : uy[i] # "none" => uy'[i] # "none"
    /\ \A i \in ID : uy'[i] # "none" => uy[i] # "none" \/ i \in made' \ used
    /\ used' = used \cup (made' \ made)
    /\ made \subseteq made' /\ lost \subseteq lost'
    /\ \A i \in made' \ made :
          \/ i \in lost'
          \/ wk'.pc = "save" /\ wk'.t.uid = i /\ wk.t.uid = 0
    /\ UNCHANGED <<obj, copies, blind, outside>>

----------------------------------------------------------------------------
(* Every form keeps the invariant.                                         *)

\* What the types say of the parts the invariant reads.
LEMMA FieldTypes ==
    ASSUME TypeOK
    PROVE  /\ \A o \in Org : obj[o] \in OrganizationObject
           /\ \A o \in Org : obj[o].uid \in ID \cup {0}
           /\ wk.o \in Org
           /\ wk.t.uid \in ID \cup {0} /\ wk.base.uid \in ID \cup {0}
           /\ 0 \notin ID /\ made \subseteq ID /\ used \subseteq ID
BY DEF TypeOK, Worker, OrganizationObject, ID

LEMMA ObjectForm ==
    ASSUME IInv, TypeOK', ObjectMoved
    PROVE  IInv'
<1> USE DEF copies, history
<1>t. /\ \A o \in Org : obj[o].uid \in ID \cup {0}
      /\ wk.o \in Org /\ 0 \notin ID /\ made \subseteq ID
  BY FieldTypes DEF IInv
<1>a. \A o \in Org : Aged(obj[o], obj'[o])
  BY DEF ObjectMoved
<1>w. wk' = wk \/ (wk'.pc = "idle" /\ wk.pc # "save")
  BY DEF ObjectMoved
<1>u. UNCHANGED <<objCache, depCache, uy, used, made, lost, blind, outside>>
  BY DEF ObjectMoved
<1>1. Lives'
  BY <1>a, <1>u DEF IInv, Lives, Aged, Gone
<1>2. Numbered'
  BY <1>u DEF IInv, Numbered
<1>3. Holds'
  BY <1>u, <1>w DEF IInv, Holds, Reconciling
<1>4. Deletes'
  <2>1. CASE wk'.pc = "idle"
    BY <2>1 DEF Deletes, Deleting
  <2>2. CASE wk' = wk
    <3>1. /\ wk.pc \in Deleting =>
             /\ wk.t = wk.base /\ obj'[wk.o].life \in Gone
             /\ obj'[wk.o].uid = wk.t.uid
      BY <1>a, <1>t DEF IInv, Deletes, Aged, Gone
    <3>2. ASSUME wk.pc = "delete"
          PROVE  /\ wk.t.uid # 0
                 /\ wk.o \in blind \/ \A other \in Org :
                       obj'[other].life = "live" => obj'[other].uid # wk.t.uid
      BY <1>a, <3>2 DEF IInv, Deletes, Aged
    <3>3. ASSUME wk.pc = "release"
          PROVE  \/ wk.o \in blind \/ wk.t.uid = 0 \/ uy[wk.t.uid] = "none"
                 \/ obj'[wk.o].force \/ obj'[wk.o].import
                 \/ \E other \in Org \ {wk.o} :
                       Exists(obj'[other]) /\ obj'[other].uid = wk.t.uid
      <4>1. obj[wk.o].life # "absent"
        BY <3>3 DEF IInv, Deletes, Deleting, Gone
      <4>2. /\ obj[wk.o].force => obj'[wk.o].force
            /\ obj[wk.o].import => obj'[wk.o].import
        BY <1>a, <1>t, <4>1 DEF Aged
      <4>3. \A o \in Org : /\ Exists(obj[o]) /\ obj[o].uid # 0 => Exists(obj'[o])
                           /\ obj'[o].uid = obj[o].uid
        BY <1>a DEF Aged
      <4> QED BY <1>t, <3>3, <4>2, <4>3 DEF IInv, Deletes
    <3> QED BY <1>u, <2>2, <3>1, <3>2, <3>3 DEF Deletes
  <2> QED BY <1>w, <2>1, <2>2
<1>5. AllKnown'
  <2> SUFFICES ASSUME NEW i \in made PROVE Known(i)'
    BY <1>u DEF AllKnown
  <2>2. i # 0
    BY <1>t
  <2>1. \A o \in Org :
           obj[o].uid = i =>
              /\ obj[o].force => obj'[o].force
              /\ obj[o].import => obj'[o].import
              /\ Exists(obj[o]) => Exists(obj'[o])
              /\ obj'[o].uid = i
    BY <1>a, <2>2 DEF Aged, IInv, Lives
  <2>3. Known(i)
    BY DEF IInv, AllKnown
  <2> QED BY <1>u, <1>w, <2>1, <2>2, <2>3 DEF Known, Excused
<1>6. SiblingsKeepTheirOrg'
  <2>1. \A o \in Org : /\ obj'[o].uid = obj[o].uid
                       /\ obj'[o].life = "live" /\ obj[o].uid # 0
                            => obj[o].life = "live"
    BY <1>a DEF Aged
  <2>2. blind \subseteq Org
    BY DEF IInv, TypeOK
  <2> QED BY <1>u, <2>1, <2>2 DEF IInv, SiblingsKeepTheirOrg
<1> QED BY <1>1, <1>2, <1>3, <1>4, <1>5, <1>6 DEF IInv

LEMMA SurroundingsForm ==
    ASSUME IInv, TypeOK', SurroundingsMoved
    PROVE  IInv'
<1> USE DEF copies, history, SurroundingsMoved
<1>t. wk.o \in Org
  BY FieldTypes DEF IInv
<1>1. Lives' /\ Numbered' /\ Holds' /\ SiblingsKeepTheirOrg'
  BY DEF IInv, Lives, Numbered, Holds, SiblingsKeepTheirOrg
<1>2. Deletes'
  BY DEF IInv, Deletes
<1>3. AllKnown'
  BY DEF IInv, AllKnown, Known, Excused
<1> QED BY <1>1, <1>2, <1>3 DEF IInv

LEMMA UyuniForm ==
    ASSUME IInv, TypeOK', UyuniMoved
    PROVE  IInv'
<1> USE DEF copies, history, UyuniMoved
<1>t. /\ \A o \in Org : obj[o].uid \in ID \cup {0}
      /\ wk.t.uid \in ID \cup {0} /\ made \subseteq ID /\ used \subseteq ID
  BY FieldTypes DEF IInv
<1>1. Lives' /\ Numbered'
  BY DEF IInv, Lives, Numbered
<1>2. Holds'
  <2>1. wk.pc = "save" => uy'[wk.t.uid] # "none" \/ wk.t.uid \in outside'
    BY <1>t DEF IInv, Holds
  <2> QED BY <2>1 DEF IInv, Holds
<1>3. Deletes'
  <2>1. wk.t.uid # 0 /\ uy[wk.t.uid] = "none" => uy'[wk.t.uid] = "none"
    BY <1>t
  <2> QED BY <2>1 DEF IInv, Deletes
<1>4. AllKnown'
  BY <1>t DEF IInv, AllKnown, Known, Excused
<1>5. SiblingsKeepTheirOrg'
  BY <1>t DEF IInv, SiblingsKeepTheirOrg
<1> QED BY <1>1, <1>2, <1>3, <1>4, <1>5 DEF IInv

LEMMA DropForm ==
    ASSUME IInv, TypeOK', PassDropped
    PROVE  IInv'
<1> USE DEF copies, history, PassDropped
<1>1. Lives' /\ Numbered' /\ SiblingsKeepTheirOrg'
  BY DEF IInv, Lives, Numbered, SiblingsKeepTheirOrg
<1>2. Holds' /\ Deletes'
  BY DEF Holds, Deletes, Reconciling, Deleting
<1>3. AllKnown'
  <2> SUFFICES ASSUME NEW i \in made PROVE Known(i)'
    BY DEF AllKnown
  <2>1. Known(i) /\ i # 0
    BY FieldTypes DEF IInv, AllKnown
  <2>2. (wk.pc = "save" /\ wk.t.uid = i /\ wk.base.uid # i) => i \in lost'
    BY <2>1
  <2> QED BY <2>1, <2>2 DEF Known, Excused
<1> QED BY <1>1, <1>2, <1>3 DEF IInv

LEMMA LookForm ==
    ASSUME IInv, TypeOK', LookedUp
    PROVE  IInv'
<1> USE DEF copies, history, LookedUp
<1>t. /\ \A o \in Org : obj[o].uid \in ID \cup {0}
      /\ made \subseteq ID /\ used \subseteq ID
  BY FieldTypes DEF IInv
<1>m. made' \subseteq ID
  BY DEF TypeOK
<1>1. Lives'
  BY DEF IInv, Lives
<1>2. Numbered'
  BY <1>m DEF IInv, Numbered
<1>3. Holds'
  <2>1. wk'.t.uid \in ID /\ uy'[wk'.t.uid] # "none" => wk'.t.uid \in used'
    BY <1>2 DEF Numbered
  <2> QED BY <2>1 DEF IInv, Holds, Reconciling
<1>4. Deletes'
  BY DEF Deletes, Deleting
<1>5. AllKnown'
  <2> SUFFICES ASSUME NEW i \in made' PROVE Known(i)'
    BY DEF AllKnown
  <2>1. CASE i \in made
    <3>1. Known(i) /\ i \in used /\ i \in ID
      BY <1>t, <2>1 DEF IInv, AllKnown, Numbered
    <3>2. uy[i] = "none" => uy'[i] = "none"
      BY <3>1
    <3> QED BY <3>1, <3>2 DEF Known, Excused
  <2>2. CASE i \in made' \ made
    <3>1. i # 0 /\ (wk'.pc = "save" /\ wk.t.uid = 0 => wk'.base.uid = 0)
      BY <1>m, FieldTypes DEF IInv, Holds
    <3> QED BY <2>2, <3>1 DEF Known
  <2> QED BY <2>1, <2>2
<1>6. SiblingsKeepTheirOrg'
  <2>1. \A o \in Org : obj[o].uid # 0 /\ uy[obj[o].uid] # "none"
                          => uy'[obj[o].uid] # "none"
    BY <1>t
  <2> QED BY <2>1 DEF IInv, SiblingsKeepTheirOrg
<1> QED BY <1>1, <1>2, <1>3, <1>4, <1>5, <1>6 DEF IInv

----------------------------------------------------------------------------
(* The steps that decide on a copy, and those that act on the decision.    *)

LEMMA SyncKeeps ==
    ASSUME IInv, TypeOK', CacheSync
    PROVE  IInv'
<1> USE DEF kube, history, CacheSync
<1>1. Lives'
  BY DEF IInv, Lives, Gone
<1>2. Numbered' /\ Holds' /\ Deletes' /\ AllKnown'
  BY DEF IInv, Numbered, Holds, Deletes, AllKnown, Known, Excused
<1>3. SiblingsKeepTheirOrg'
  BY DEF IInv, SiblingsKeepTheirOrg
<1> QED BY <1>1, <1>2, <1>3 DEF IInv

\* A deletion that does not read a stale copy has seen every live sibling
\* and every dependent that was there before it.
LEMMA BeginKeeps ==
    ASSUME IInv, TypeOK', NEW o \in Org, Begin(o)
    PROVE  IInv'
<1> USE DEF kube, copies
<1>t. objCache[o] \in OrganizationObject /\ objCache[o].uid \in ID \cup {0}
  BY DEF IInv, TypeOK, OrganizationObject
<1>w. wk' = [pc |-> FirstStep(o), o |-> o, t |-> objCache[o], base |-> objCache[o]]
  BY DEF Begin
<1>i. wk.pc = "idle"
  BY DEF Begin
<1>u. /\ UNCHANGED <<obj, objCache, depCache, uy, used, made, lost, outside>>
      /\ blind \subseteq blind'
  BY DEF Begin
<1>b. objCache[o].life = "deleting" =>
         o \in blind' \/ objCache = obj
  BY DEF Begin
<1>n. blind' \subseteq blind \cup {o} /\ (objCache[o].life # "deleting" => blind' = blind)
  BY DEF Begin
<1>g. objCache[o].life = "deleting" => obj[o].life \in Gone /\ objCache[o].uid = obj[o].uid
  BY DEF IInv, Lives
<1>1. Lives'
  BY <1>u, <1>n, <1>g DEF IInv, Lives
<1>2. Numbered' /\ SiblingsKeepTheirOrg'
  BY <1>u DEF IInv, Numbered, SiblingsKeepTheirOrg
<1>3. AllKnown'
  BY <1>u, <1>i DEF IInv, AllKnown, Known, Excused
<1>4. CASE objCache[o].life = "live"
  <2>1. wk'.pc \in {"lookup", "finalizer"} /\ wk'.t = objCache[o] /\ wk'.base = objCache[o]
        /\ (wk'.pc = "lookup" => objCache[o].finalizer)
    BY <1>w, <1>4 DEF FirstStep
  <2>2. Holds' /\ Deletes'
    BY <1>4, <2>1 DEF Holds, Deletes, Reconciling, Deleting
  <2> QED BY <1>1, <1>2, <1>3, <2>2 DEF IInv
<1>5. CASE objCache[o].life = "deleting"
  <2>1. /\ wk'.o = o /\ wk'.t = objCache[o] /\ wk'.base = objCache[o]
        /\ wk'.pc \in Deleting
        /\ wk'.pc = "delete" => DeletesOrg(o)
        /\ wk'.pc = "release" => ~DeletesOrg(o)
    BY <1>w, <1>5 DEF FirstStep, handleDeletion, Deleting
  <2>2. Holds'
    BY <2>1 DEF Holds, Reconciling, Deleting
  <2>3. ASSUME o \in blind' PROVE Deletes'
    <3>1. DeletesOrg(o) => objCache[o].uid # 0
      BY DEF DeletesOrg
    <3>2. obj'[o].life \in Gone /\ obj'[o].uid = objCache[o].uid
      BY <1>u, <1>g, <1>5
    <3> QED BY <2>1, <2>3, <3>1, <3>2 DEF Deletes
  <2>4. ASSUME objCache = obj PROVE Deletes'
    <3>2. DeletesOrg(o) =>
             /\ obj[o].uid # 0
             /\ \A other \in Org : obj[other].life = "live"
                                      => obj[other].uid # obj[o].uid
      BY <1>5, <2>4 DEF DeletesOrg, sharedByOther
    <3>3. ~DeletesOrg(o) =>
             \/ obj[o].force \/ obj[o].import \/ obj[o].uid = 0
             \/ \E other \in Org \ {o} :
                   Exists(obj[other]) /\ obj[other].uid = obj[o].uid
      BY <2>4 DEF DeletesOrg, sharedByOther, Exists
    <3>4. obj' = obj /\ uy' = uy /\ objCache[o] = obj[o]
      BY <1>u, <2>4
    <3>5. obj[o].life \in Gone
      BY <1>g, <1>5
    <3> QED BY <2>1, <3>2, <3>3, <3>4, <3>5 DEF Deletes
  <2>5. Deletes'
    BY <1>5, <1>b, <2>3, <2>4
  <2> QED BY <1>1, <1>2, <1>3, <2>2, <2>5 DEF IInv
<1> QED BY <1>4, <1>5 DEF Begin

\* The status is saved: the new id is in a resource, the old one, if
\* spec.import took it away, is lost.
LEMMA StatusKeeps ==
    ASSUME IInv, TypeOK', SaveStatus
    PROVE  IInv'
<1> USE DEF copies, history
<1>t. /\ \A o \in Org : obj[o].uid \in ID \cup {0}
      /\ wk.o \in Org /\ wk.t.uid \in ID \cup {0} /\ 0 \notin ID
      /\ made \subseteq ID
  BY FieldTypes DEF IInv
<1>s. wk.pc = "save" /\ obj[wk.o] = wk.base /\ wk'.pc = "idle"
  BY DEF SaveStatus, Stays, Idle
<1>o. \A q \in Org : obj'[q] = IF q = wk.o THEN wk.t ELSE obj[q]
  BY DEF SaveStatus, Save, IInv, TypeOK
<1>u. UNCHANGED <<objCache, depCache, uy, used, made, blind, outside>>
  BY DEF SaveStatus
<1>h. /\ wk.base.life = "live" /\ wk.t.life = "live" /\ wk.t.finalizer
      /\ wk.t.import = wk.base.import /\ wk.t.force = wk.base.force
      /\ wk.t.uid \in used
      /\ uy[wk.t.uid] # "none" \/ wk.t.uid \in outside
      /\ ~wk.t.import => wk.base.uid \in {0, wk.t.uid}
  BY <1>s DEF IInv, Holds, Reconciling
<1>b. wk.o \notin blind
  BY <1>t, <1>s, <1>h DEF IInv, Lives, Gone
<1>1. Lives'
  BY <1>t, <1>s, <1>o, <1>u, <1>h, <1>b DEF IInv, Lives, Gone
<1>2. Numbered'
  BY <1>u DEF IInv, Numbered
<1>3. Holds' /\ Deletes'
  BY <1>s DEF Holds, Deletes, Reconciling, Deleting
<1>4. AllKnown'
  <2> SUFFICES ASSUME NEW i \in made PROVE Known(i)'
    BY <1>u DEF AllKnown
  <2>1. Known(i) /\ i # 0
    BY <1>t DEF IInv, AllKnown
  <2>2. i = wk.t.uid => Known(i)'
    BY <1>t, <1>h, <1>o DEF Known, Exists
  <2>3. i = wk.base.uid /\ i # wk.t.uid => Known(i)'
    <3>1. i = wk.base.uid /\ i # wk.t.uid => i \in lost'
      BY <1>h, <2>1 DEF SaveStatus
    <3> QED BY <3>1 DEF Known
  <2>4. ASSUME i # wk.t.uid, i # wk.base.uid PROVE Known(i)'
    <3>1. i \in lost => i \in lost'
      BY <2>4 DEF SaveStatus
    <3>2. \A q \in Org : obj[q].uid = i => obj'[q] = obj[q]
      BY <1>s, <1>o, <2>4
    <3> QED BY <1>u, <2>1, <2>4, <3>1, <3>2 DEF Known, Excused
  <2> QED BY <2>2, <2>3, <2>4
<1>5. SiblingsKeepTheirOrg'
  <2>1. \A q \in blind : q \in Org => obj'[q].uid = obj[q].uid
    BY <1>o, <1>b
  <2>2. blind \subseteq Org
    BY DEF IInv, TypeOK
  <2> QED BY <1>o, <1>u, <1>h, <2>1, <2>2 DEF IInv, SiblingsKeepTheirOrg
<1> QED BY <1>1, <1>2, <1>3, <1>4, <1>5 DEF IInv

\* The object goes, with what the deletion had seen.
LEMMA ReleaseKeeps ==
    ASSUME IInv, TypeOK', Release
    PROVE  IInv'
<1> USE DEF copies, history
<1> DEFINE new == [wk.t EXCEPT !.finalizer = FALSE, !.life = "gone"]
<1>t. /\ \A o \in Org : obj[o].uid \in ID \cup {0}
      /\ wk.o \in Org /\ wk.t.uid \in ID \cup {0} /\ 0 \notin ID
      /\ made \subseteq ID
  BY FieldTypes DEF IInv
<1>s. wk.pc = "release" /\ obj[wk.o] = wk.base /\ wk'.pc = "idle"
  BY DEF Release, Stays, Idle
<1>d. wk.t = wk.base /\ obj[wk.o].life \in Gone
  BY <1>s DEF IInv, Deletes, Deleting
<1>n. /\ new.life = "gone" /\ new.uid = obj[wk.o].uid
      /\ new.force = obj[wk.o].force /\ new.import = obj[wk.o].import
  <2>1. wk.t \in OrganizationObject
    BY DEF IInv, TypeOK, Worker
  <2> QED BY <1>s, <1>d, <2>1 DEF OrganizationObject
<1>o. \A q \in Org : obj'[q] = IF q = wk.o THEN new ELSE obj[q]
  BY DEF Release, Save, IInv, TypeOK
<1> HIDE DEF new
<1>u. UNCHANGED <<objCache, depCache, uy, used, made, lost, blind, outside>>
  BY DEF Release
<1>1. Lives'
  BY <1>d, <1>n, <1>o, <1>u DEF IInv, Lives, Gone
<1>2. Numbered'
  BY <1>u DEF IInv, Numbered
<1>3. Holds' /\ Deletes'
  BY <1>s DEF Holds, Deletes, Reconciling, Deleting
<1>4. AllKnown'
  <2> SUFFICES ASSUME NEW i \in made PROVE Known(i)'
    BY <1>u DEF AllKnown
  <2>1. Known(i) /\ i # 0
    BY <1>t DEF IInv, AllKnown
  <2>2. \A q \in Org : obj'[q].uid = obj[q].uid
                       /\ (Excused(q) => Excused(q)')
    BY <1>n, <1>o, <1>u DEF Excused
  <2>3. CASE i = obj[wk.o].uid
    <3>1. \/ Excused(wk.o) \/ uy[i] = "none"
          \/ \E other \in Org \ {wk.o} : Exists(obj[other]) /\ obj[other].uid = i
      BY <1>s, <1>d, <2>1, <2>3 DEF IInv, Deletes, Excused
    <3> QED BY <1>t, <1>u, <1>o, <2>2, <2>3, <3>1 DEF Known
  <2>4. CASE i # obj[wk.o].uid
    BY <1>s, <1>u, <1>o, <2>1, <2>2, <2>4 DEF Known
  <2> QED BY <2>3, <2>4
<1>5. SiblingsKeepTheirOrg'
  <2>1. \A q \in Org : obj'[q].uid = obj[q].uid
    BY <1>n, <1>o
  <2>2. blind \subseteq Org
    BY DEF IInv, TypeOK
  <2>3. \A q \in Org : obj'[q].life = "live" => obj[q].life = "live"
    BY <1>n, <1>o
  <2> QED BY <1>u, <2>1, <2>2, <2>3 DEF IInv, SiblingsKeepTheirOrg
<1> QED BY <1>1, <1>2, <1>3, <1>4, <1>5 DEF IInv

\* The organization goes: no live resource has its id, or the deletion had
\* read a stale copy.
LEMMA DeletionKeeps ==
    ASSUME IInv, TypeOK', DeleteOrganization
    PROVE  IInv'
<1> USE DEF kube, copies, history
<1>t. /\ \A o \in Org : obj[o].uid \in ID \cup {0}
      /\ wk.o \in Org /\ wk.t.uid \in ID \cup {0}
  BY FieldTypes DEF IInv
<1>d. /\ wk.pc = "delete" /\ wk.t.uid \in ID
      /\ obj[wk.o].uid = wk.t.uid
      /\ wk.o \in blind \/ \A other \in Org :
            obj[other].life = "live" => obj[other].uid # wk.t.uid
  BY <1>t DEF DeleteOrganization, IInv, Deletes, Deleting
<1>w. wk'.pc = "release" /\ wk'.o = wk.o /\ wk'.t = wk.t /\ wk'.base = wk.base
  BY DEF DeleteOrganization, IInv, TypeOK, Worker
<1>y. \A i \in ID : uy'[i] = IF i = wk.t.uid THEN "none" ELSE uy[i]
  BY DEF DeleteOrganization, IInv, TypeOK
<1>u. UNCHANGED <<obj, objCache, depCache, used, made, lost, blind, outside>>
  BY DEF DeleteOrganization
<1>1. Lives'
  BY <1>u DEF IInv, Lives
<1>2. Numbered'
  BY <1>u, <1>y DEF IInv, Numbered
<1>3. Holds'
  BY <1>w DEF Holds, Reconciling
<1>4. Deletes'
  BY <1>u, <1>d, <1>w, <1>y DEF IInv, Deletes, Deleting
<1>5. AllKnown'
  <2>1. \A i \in made : i \in ID /\ Known(i)
    BY DEF IInv, AllKnown, TypeOK
  <2> QED BY <1>u, <1>d, <1>y, <2>1 DEF AllKnown, Known, Excused
<1>6. SiblingsKeepTheirOrg'
  <2> SUFFICES ASSUME NEW q \in Org, obj[q].life = "live", obj[q].uid # 0
               PROVE  \/ uy'[obj[q].uid] # "none"
                      \/ obj[q].uid \in outside
                      \/ \E other \in blind : obj[other].uid = obj[q].uid
    BY <1>u DEF SiblingsKeepTheirOrg
  <2>1. CASE obj[q].uid = wk.t.uid
    BY <1>d, <2>1
  <2>2. CASE obj[q].uid # wk.t.uid
    <3>1. uy'[obj[q].uid] = uy[obj[q].uid]
      BY <1>t, <1>y, <2>2
    <3> QED BY <3>1 DEF IInv, SiblingsKeepTheirOrg
  <2> QED BY <2>1, <2>2
<1> QED BY <1>1, <1>2, <1>3, <1>4, <1>5, <1>6 DEF IInv

----------------------------------------------------------------------------
(* Every action has one of the forms.                                      *)

\* One resource ages, the rest stay as they are.
LEMMA OneAges ==
    ASSUME TypeOK, Lives, NEW o \in Org, NEW new, Aged(obj[o], new),
           obj' = [obj EXCEPT ![o] = new]
    PROVE  \A q \in Org : Aged(obj[q], obj'[q])
<1>1. \A q \in Org : obj'[q] = IF q = o THEN new ELSE obj[q]
  BY DEF TypeOK
<1>2. \A q \in Org : Aged(obj[q], obj[q])
  BY DEF Lives, Aged
<1> QED BY <1>1, <1>2

LEMMA UserForm ==
    ASSUME IInv, NEW o \in Org, User(o)
    PROVE  ObjectMoved \/ SurroundingsMoved
<1> USE DEF copies, history, kube
<1>t. TypeOK /\ Lives /\ obj[o] \in OrganizationObject
  BY DEF IInv, TypeOK
<1>l. obj[o].uid # 0 => obj[o].life \in {"live", "deleting", "gone"}
                        /\ (obj[o].life = "live" => obj[o].finalizer)
  BY <1>t DEF Lives
<1>o. ASSUME NEW new, obj' = [obj EXCEPT ![o] = new], Aged(obj[o], new),
             UNCHANGED <<copies, wk, uy, used, history>>
      PROVE  ObjectMoved
  BY <1>t, <1>o, OneAges DEF ObjectMoved
<1>1. ASSUME NEW import \in BOOLEAN, Create(o, import) PROVE ObjectMoved
  <2> DEFINE new == [NewOrganization EXCEPT !.import = import]
  <2>1. new.life = "live" /\ new.uid = 0 /\ obj[o].life = "absent"
    BY <1>1 DEF NewOrganization, Create
  <2>2. obj' = [obj EXCEPT ![o] = new]
    BY <1>1 DEF Create
  <2> HIDE DEF new
  <2>3. obj[o].uid = 0
    BY <1>l, <2>1
  <2>4. Aged(obj[o], new)
    BY <2>1, <2>3 DEF Aged, Gone
  <2> QED BY <1>o, <1>1, <2>2, <2>4 DEF Create
<1>2. CASE AddImport(o)
  <2> DEFINE new == [obj[o] EXCEPT !.import = TRUE]
  <2>1. /\ new.uid = obj[o].uid /\ new.life = obj[o].life /\ new.import
        /\ new.finalizer = obj[o].finalizer /\ new.force = obj[o].force
    BY <1>t DEF OrganizationObject
  <2>2. obj' = [obj EXCEPT ![o] = new]
    BY <1>2 DEF AddImport
  <2> HIDE DEF new
  <2>3. Aged(obj[o], new)
    BY <1>l, <2>1 DEF Aged, Exists
  <2> QED BY <1>o, <1>2, <2>2, <2>3 DEF AddImport
<1>3. CASE AskDelete(o)
  <2> DEFINE new == [obj[o] EXCEPT !.life = IF obj[o].finalizer
                                            THEN "deleting" ELSE "dropped"]
  <2>1. /\ new.uid = obj[o].uid /\ new.import = obj[o].import
        /\ new.force = obj[o].force
        /\ new.life = IF obj[o].finalizer THEN "deleting" ELSE "dropped"
    BY <1>t DEF OrganizationObject
  <2>2. obj' = [obj EXCEPT ![o] = new]
    BY <1>3 DEF AskDelete
  <2> HIDE DEF new
  <2>3. Aged(obj[o], new)
    BY <1>l, <1>3, <2>1 DEF Aged, Exists, Gone, AskDelete
  <2> QED BY <1>o, <1>3, <2>2, <2>3 DEF AskDelete
<1>4. CASE AskForceDelete(o)
  <2> DEFINE new == [obj[o] EXCEPT !.force = TRUE]
  <2>1. /\ new.uid = obj[o].uid /\ new.life = obj[o].life /\ new.force
        /\ new.finalizer = obj[o].finalizer /\ new.import = obj[o].import
    BY <1>t DEF OrganizationObject
  <2>2. obj' = [obj EXCEPT ![o] = new]
    BY <1>4 DEF AskForceDelete
  <2> HIDE DEF new
  <2>3. Aged(obj[o], new)
    BY <1>l, <2>1 DEF Aged, Exists
  <2> QED BY <1>o, <1>4, <2>2, <2>3 DEF AskForceDelete
<1>5. CASE ChangeProvider(o)
  BY <1>5 DEF ChangeProvider, SurroundingsMoved
<1>6. ASSUME NEW d \in Dependent, CreateDependent(o, d) PROVE SurroundingsMoved
  BY <1>6 DEF CreateDependent, SurroundingsMoved
<1>7. CASE DeleteDependent(o)
  BY <1>7 DEF DeleteDependent, SurroundingsMoved
<1> QED BY <1>1, <1>2, <1>3, <1>4, <1>5, <1>6, <1>7 DEF User

\* The two writes of a pass that bind nothing.
LEMMA WriteForm ==
    ASSUME IInv, AddFinalizer \/ SaveNote
    PROVE  ObjectMoved
<1> USE DEF copies, history
<1>t. /\ TypeOK /\ Lives /\ wk.o \in Org
      /\ wk.t \in OrganizationObject /\ wk.base \in OrganizationObject
  BY DEF IInv, TypeOK, Worker
<1>s. obj[wk.o] = wk.base /\ wk'.pc = "idle" /\ wk.pc \in {"finalizer", "note"}
  BY DEF AddFinalizer, SaveNote, Stays, Idle
<1>u. UNCHANGED <<copies, uy, used, history>>
  BY DEF AddFinalizer, SaveNote
<1>1. CASE AddFinalizer
  <2> DEFINE new == [wk.t EXCEPT !.finalizer = TRUE]
  <2>1. /\ new.uid = wk.t.uid /\ new.life = wk.t.life /\ new.finalizer
        /\ new.force = wk.t.force /\ new.import = wk.t.import
    BY <1>t DEF OrganizationObject
  <2>2. wk.t = wk.base /\ wk.t.life = "live"
    BY <1>1 DEF AddFinalizer, Stays, IInv, Holds
  <2>3. obj' = [obj EXCEPT ![wk.o] = new]
    BY <1>1 DEF AddFinalizer, Save
  <2> HIDE DEF new
  <2>4. Aged(obj[wk.o], new)
    BY <1>s, <2>1, <2>2 DEF Aged, Exists
  <2> QED BY <1>t, <1>s, <1>u, <2>3, <2>4, OneAges DEF ObjectMoved
<1>2. CASE SaveNote
  <2>1. /\ wk.base.life = "live" /\ wk.t.life = "live" /\ wk.t.finalizer
        /\ wk.t.import = wk.base.import /\ wk.t.force = wk.base.force
        /\ wk.t.uid = wk.base.uid
    BY <1>2 DEF SaveNote, Stays, IInv, Holds, Reconciling
  <2>2. obj' = [obj EXCEPT ![wk.o] = wk.t]
    BY <1>2 DEF SaveNote, Save
  <2>3. Aged(obj[wk.o], wk.t)
    BY <1>s, <2>1 DEF Aged, Exists
  <2> QED BY <1>t, <1>s, <1>u, <2>2, <2>3, OneAges DEF ObjectMoved
<1> QED BY <1>1, <1>2

LEMMA OutsideForm ==
    ASSUME IInv, NEW i \in ID, RenameInUyuni(i) \/ DeleteInUyuni(i)
    PROVE  UyuniMoved
<1> USE DEF kube, copies, history
<1>1. CASE RenameInUyuni(i)
  <2>1. \A j \in ID : uy'[j] = IF j = i THEN "other" ELSE uy[j]
    BY <1>1 DEF RenameInUyuni, IInv, TypeOK
  <2> QED BY <1>1, <2>1 DEF RenameInUyuni, UyuniMoved
<1>2. CASE DeleteInUyuni(i)
  <2>1. \A j \in ID : uy'[j] = IF j = i THEN "none" ELSE uy[j]
    BY <1>2 DEF DeleteInUyuni, IInv, TypeOK
  <2> QED BY <1>2, <2>1 DEF DeleteInUyuni, UyuniMoved
<1> QED BY <1>1, <1>2

LEMMA EndForm ==
    ASSUME IInv, Conflict \/ ProviderError \/ DeleteFailed \/ Crash
    PROVE  PassDropped
BY DEF Conflict, ProviderError, DeleteFailed, Crash, Idle, PassDropped,
       kube, copies, history

\* What the two ends of a lookup make of the pass.
LEMMA LookupEnds ==
    ASSUME TypeOK
    PROVE  /\ NoteSnapshot =>
                /\ wk'.pc = "note" /\ wk'.base = wk.base
                /\ wk'.t.life = wk.t.life /\ wk'.t.finalizer = wk.t.finalizer
                /\ wk'.t.import = wk.t.import /\ wk'.t.force = wk.t.force
                /\ wk'.t.uid = wk.t.uid
           /\ \A i \in ID : Found(i) =>
                /\ wk'.pc = "save" /\ wk'.base = wk.base
                /\ wk'.t.life = wk.t.life /\ wk'.t.finalizer = wk.t.finalizer
                /\ wk'.t.import = wk.t.import /\ wk'.t.force = wk.t.force
                /\ wk'.t.uid = i
<1>1. wk \in Worker /\ wk.t \in OrganizationObject
  BY DEF TypeOK, Worker
<1>2. ASSUME NoteSnapshot
      PROVE  /\ wk'.pc = "note" /\ wk'.base = wk.base
             /\ wk'.t.life = wk.t.life /\ wk'.t.finalizer = wk.t.finalizer
             /\ wk'.t.import = wk.t.import /\ wk'.t.force = wk.t.force
             /\ wk'.t.uid = wk.t.uid
  BY <1>1, <1>2 DEF Worker, OrganizationObject, NoteSnapshot
<1>3. ASSUME NEW i \in ID, Found(i)
      PROVE  /\ wk'.pc = "save" /\ wk'.base = wk.base
             /\ wk'.t.life = wk.t.life /\ wk'.t.finalizer = wk.t.finalizer
             /\ wk'.t.import = wk.t.import /\ wk'.t.force = wk.t.force
             /\ wk'.t.uid = i
  BY <1>1, <1>3 DEF Worker, OrganizationObject, Found
<1> QED BY <1>2, <1>3

LEMMA LookupForm ==
    ASSUME IInv,
           \/ ImportByID \/ HealByID \/ DuplicateOrganization \/ AdoptByName
           \/ CreateFailed
           \/ \E i \in ID : createOrg(i) \/ CreateReplyLost(i)
    PROVE  LookedUp
<1> USE DEF kube, copies, history
<1>t. TypeOK /\ wk.t.uid \in ID \cup {0}
  BY FieldTypes DEF IInv
<1>1. CASE ImportByID
  <2>1. 1 \in ID
    BY IDAssumption DEF ID
  <2>2. NoteSnapshot \/ (Found(1) /\ uy[1] # "none")
    BY <1>1 DEF ImportByID
  <2>3. wk.pc = "lookup" /\ wk.t.import
        /\ UNCHANGED <<obj, copies, uy, used, made, lost, blind, outside>>
    BY <1>1 DEF ImportByID, Looking
  <2>4. CASE NoteSnapshot
    BY <1>t, <2>3, <2>4, LookupEnds DEF LookedUp
  <2>5. CASE Found(1) /\ uy[1] # "none"
    <3>1. wk'.pc = "save" /\ wk'.base = wk.base /\ wk'.t.uid = 1
          /\ wk'.t.life = wk.t.life /\ wk'.t.finalizer = wk.t.finalizer
          /\ wk'.t.import = wk.t.import /\ wk'.t.force = wk.t.force
      BY <1>t, <2>1, <2>5, LookupEnds
    <3> QED BY <2>1, <2>3, <2>5, <3>1 DEF LookedUp
  <2> QED BY <2>2, <2>4, <2>5
<1>2. CASE HealByID
  <2>1. wk.t.uid \in ID
    BY <1>t, <1>2 DEF HealByID
  <2>2. CASE NoteSnapshot /\ UNCHANGED uy
    BY <1>t, <1>2, <2>2, LookupEnds DEF HealByID, Looking, LookedUp
  <2>3. CASE Found(wk.t.uid) /\ uy' = [uy EXCEPT ![wk.t.uid] = "spec"]
             /\ uy[wk.t.uid] # "none"
    <3>1. \A j \in ID : uy'[j] = IF j = wk.t.uid THEN "spec" ELSE uy[j]
      BY <1>t, <2>3 DEF TypeOK
    <3> QED BY <1>t, <1>2, <2>1, <2>3, <3>1, LookupEnds
            DEF HealByID, Looking, LookedUp
  <2> QED BY <1>2, <2>2, <2>3 DEF HealByID
<1>3. CASE DuplicateOrganization
  BY <1>t, <1>3, LookupEnds DEF DuplicateOrganization, Unrealised, Looking, LookedUp
<1>4. CASE AdoptByName
  <2>1. PICK i \in ID : uy[i] = "spec" /\ Found(i)
    BY <1>4 DEF AdoptByName, Named
  <2> QED BY <1>t, <1>4, <2>1, LookupEnds
          DEF AdoptByName, Unrealised, Looking, LookedUp
<1>5. CASE CreateFailed
  BY <1>t, <1>5, LookupEnds DEF CreateFailed, Unrealised, Looking, LookedUp
<1>6. ASSUME NEW i \in ID, createOrg(i) \/ CreateReplyLost(i)
      PROVE  LookedUp
  <2>1. /\ wk.pc = "lookup" /\ wk.t.uid = 0
        /\ i \notin used /\ used' = used \cup {i} /\ made' = made \cup {i}
        /\ uy' = [uy EXCEPT ![i] = "spec"]
    BY <1>6 DEF createOrg, CreateReplyLost, CreatesOrg, Unrealised, Looking
  <2>2. \A j \in ID : uy'[j] = IF j = i THEN "spec" ELSE uy[j]
    BY <1>t, <2>1 DEF TypeOK
  <2>3. i \notin made
    BY <2>1 DEF IInv, Numbered
  <2>4. CASE createOrg(i)
    BY <1>t, <2>1, <2>2, <2>3, <2>4, LookupEnds DEF createOrg, LookedUp
  <2>5. CASE CreateReplyLost(i)
    BY <1>t, <2>1, <2>2, <2>3, <2>5, LookupEnds DEF CreateReplyLost, LookedUp
  <2> QED BY <1>6, <2>4, <2>5
<1> QED BY <1>1, <1>2, <1>3, <1>4, <1>5, <1>6

----------------------------------------------------------------------------
(* The theorems.                                                           *)

LEMMA InvariantInit == Init => IInv
<1> SUFFICES ASSUME Init PROVE IInv
  OBVIOUS
<1>1. TypeOK
  BY InitType
<1>2. \A o \in Org : obj[o].uid = 0 /\ obj[o].life \in {"live", "absent"}
                     /\ objCache[o] = obj[o]
  BY DEF Init, NewOrganization, Absent
<1>3. wk.pc = "idle" /\ made = {} /\ blind = {}
  BY DEF Init, Idle
<1>4. \A i \in ID : uy[i] # "none" => i \in used
  BY DEF Init
<1>5. Lives /\ Numbered
  BY <1>2, <1>3, <1>4 DEF Lives, Numbered
<1>6. Holds /\ Deletes /\ AllKnown
  BY <1>3 DEF Holds, Deletes, AllKnown, Reconciling, Deleting
<1>7. SiblingsKeepTheirOrg
  BY <1>2 DEF SiblingsKeepTheirOrg
<1> QED BY <1>1, <1>5, <1>6, <1>7 DEF IInv

LEMMA InvariantStep == IInv /\ [Next]_vars => IInv'
<1> SUFFICES ASSUME IInv, [Next]_vars PROVE IInv'
  OBVIOUS
<1>t. TypeOK'
  BY TypeStep DEF IInv
<1>1. ASSUME NEW o \in Org, Begin(o) \/ User(o) PROVE IInv'
  BY <1>t, <1>1, BeginKeeps, UserForm, ObjectForm, SurroundingsForm
<1>2. ASSUME NEW i \in ID, RenameInUyuni(i) \/ DeleteInUyuni(i) PROVE IInv'
  BY <1>t, <1>2, OutsideForm, UyuniForm
<1>3. CASE CacheSync
  BY <1>t, <1>3, SyncKeeps
<1>4. CASE Crash
  BY <1>t, <1>4, EndForm, DropForm
<1>5. CASE Pass
  <2>1. CASE AddFinalizer \/ SaveNote
    BY <1>t, <2>1, WriteForm, ObjectForm
  <2>2. CASE ProviderError \/ DeleteFailed \/ Conflict
    BY <1>t, <2>2, EndForm, DropForm
  <2>3. CASE \/ ImportByID \/ HealByID \/ DuplicateOrganization \/ AdoptByName
             \/ CreateFailed
             \/ \E i \in ID : createOrg(i) \/ CreateReplyLost(i)
    BY <1>t, <2>3, LookupForm, LookForm
  <2>4. CASE SaveStatus
    BY <1>t, <2>4, StatusKeeps
  <2>5. CASE DeleteOrganization
    BY <1>t, <2>5, DeletionKeeps
  <2>6. CASE Release
    BY <1>t, <2>6, ReleaseKeeps
  <2> QED BY <1>5, <2>1, <2>2, <2>3, <2>4, <2>5, <2>6 DEF Pass
<1>6. CASE UNCHANGED vars \/ ChangeSecret
  <2>1. SurroundingsMoved
    BY <1>6 DEF vars, kube, copies, history, ChangeSecret, SurroundingsMoved
  <2> QED BY <1>t, <2>1, SurroundingsForm
<1> QED BY <1>1, <1>2, <1>3, <1>4, <1>5, <1>6 DEF Next

\* The invariant holds throughout.
THEOREM OrganizationInvariant == Spec => []IInv
<1>1. Init => IInv
  BY InvariantInit
<1>2. IInv /\ [Next]_vars => IInv'
  BY InvariantStep
<1> QED BY <1>1, <1>2, PTL DEF Spec

\* The deletion of an Organization never takes the uyuni organization from
\* a live sibling (sharedByOther, organization_controller.go), unless that
\* deletion read a copy older than the sibling's binding.
THEOREM OrganizationSiblings == Spec => []SiblingsKeepTheirOrg
<1>1. IInv => SiblingsKeepTheirOrg
  BY DEF IInv
<1> QED BY <1>1, OrganizationInvariant, PTL

\* An organization that createOrg made is in a status, in the pass that is
\* about to save it, or deleted; what leaks one is one of the listed cases.
THEOREM OrganizationNothingLeftBehind == Spec => []NothingLeftBehind
<1>1. IInv => NothingLeftBehind
  BY DEF IInv, AllKnown, Known, Excused, NothingLeftBehind
<1> QED BY <1>1, OrganizationInvariant, PTL

----------------------------------------------------------------------------
(***************************************************************************)
(* The client pool, which the Organization's reconciler tells of changed   *)
(* credentials, for any number of callers, providers, Organizations and    *)
(* changes.  The invariant adds the clients on their way into a map.       *)
(***************************************************************************)

\* The values the calls build are of the declared types.
LEMMA Typed ==
    ASSUME PoolTypeOK
    PROVE  /\ \A p \in Provider : ProviderClient(p) \in Client
           /\ \A o \in Orgs : OrgClient(o) \in Client
           /\ \A k \in Key : k[1] \in Orgs
           /\ NoEntry \in OrgEntry /\ IdleJob \in Job /\ IdlePass \in OrgPass
  BY DEF PoolTypeOK, IdlePass, OrgPass, ProviderClient, OrgClient, ProviderObject, OrgObject, Client, Key,
         NoEntry, OrgEntry, MaybeClient, IdleJob, Job

\* A call that has just begun is well typed.
LEMMA CallType ==
    ASSUME NEW pc \in {"org", "resolve"}, NEW kind \in {"provider", "cobbler", "org"},
           NEW p \in Provider, NEW key \in Key \cup {None}
    PROVE  Call(pc, kind, p, key) \in Job
  BY DEF Call, IdleJob, Job, MaybeClient

\* The empty pool is well typed.
LEMMA PoolInitType == PoolInit => PoolTypeOK
  <1> SUFFICES ASSUME PoolInit PROVE PoolTypeOK
    OBVIOUS
  <1>1. NoEntry \in OrgEntry /\ IdleJob \in Job /\ IdlePass \in OrgPass
    BY DEF NoEntry, OrgEntry, MaybeClient, IdleJob, Job, IdlePass, OrgPass
  <1>2. prov \in [Provider -> ProviderObject] /\ org \in [Orgs -> OrgObject]
    <2>1. prov \in [Provider -> ProviderObject]
      BY DEF PoolInit, ProviderObject
    <2>2. org \in [Orgs -> OrgObject]
      BY DEF PoolInit, OrgObject
    <2> QED BY <2>1, <2>2
  <1> QED BY <1>1, <1>2 DEF PoolInit, PoolTypeOK, MaybeClient

\* No call is in progress at the start.
LEMMA InitJobs == PoolInit => JobOK
  <1> SUFFICES ASSUME PoolInit, NEW w \in Caller
               PROVE  /\ job[w].pc # "idle" => job[w].p \in Provider
                      /\ job[w].kind = "org" => job[w].key \in Key
                      /\ job[w].pc \in {"org", "insertOrg"} => job[w].kind = "org"
                      /\ job[w].pc = "insert" => job[w].shares = job[w].p
    BY DEF JobOK
  <1>1. job[w] = IdleJob
    BY DEF PoolInit
  <1>2. IdleJob.pc = "idle" /\ IdleJob.kind = "provider"
    BY DEF IdleJob
  <1> QED BY <1>1, <1>2

\* Every action keeps the types and the shape of the calls in progress.
LEMMA PoolTypeStep == PoolTypeOK /\ JobOK /\ [PoolNext]_poolVars => PoolTypeOK' /\ JobOK'
  <1> SUFFICES ASSUME PoolTypeOK, JobOK, [PoolNext]_poolVars PROVE PoolTypeOK' /\ JobOK'
    OBVIOUS
  <1>t. /\ \A p \in Provider : ProviderClient(p) \in Client
        /\ \A o \in Orgs : OrgClient(o) \in Client
        /\ \A k \in Key : k[1] \in Orgs
        /\ NoEntry \in OrgEntry /\ IdleJob \in Job /\ IdlePass \in OrgPass
    BY Typed
  <1>j. \* a step that only changes the job of w
        ASSUME NEW w \in Caller, NEW j \in Job, job' = [job EXCEPT ![w] = j],
               UNCHANGED <<objects, caches, pass, queue, raced>>,
               j.pc # "idle" => j.p \in Provider, j.kind = "org" => j.key \in Key,
               j.pc \in {"org", "insertOrg"} => j.kind = "org",
               j.pc = "insert" => j.shares = j.p
        PROVE  PoolTypeOK' /\ JobOK'
    <2>1. job' \in [Caller -> Job]
      BY <1>j DEF PoolTypeOK
    <2>2. PoolTypeOK'
      BY <1>j, <2>1 DEF PoolTypeOK, objects, caches
    <2>3. JobOK'
      BY <1>j DEF JobOK, PoolTypeOK
    <2> QED BY <2>2, <2>3
  <1>c. \* a step that leaves the jobs alone
        ASSUME job' = job PROVE JobOK'
    BY <1>c DEF JobOK
  <1>1. ASSUME NEW w \in Caller, NEW p \in Provider, For(w, p) \/ Cobbler(w, p)
        PROVE  PoolTypeOK' /\ JobOK'
    <2>1. PICK kind \in {"provider", "cobbler"} :
            job' = [job EXCEPT ![w] = Call("resolve", kind, p, None)]
      BY <1>1 DEF For, Cobbler
    <2>2. Call("resolve", kind, p, None) \in Job
      BY CallType
    <2> QED BY <1>1, <1>j, <2>1, <2>2 DEF For, Cobbler, Call, IdleJob
  <1>2. ASSUME NEW w \in Caller, NEW k \in Key, ForOrganization(w, k)
        PROVE  PoolTypeOK' /\ JobOK'
    <2>1. providerRef[k[1]] \in Provider
      BY <1>t, ProviderRefAssumption
    <2>2. Call("org", "org", providerRef[k[1]], k) \in Job
      BY <2>1, CallType
    <2> QED BY <1>2, <1>j, <2>1, <2>2 DEF ForOrganization, Call, IdleJob
  <1>3. ASSUME NEW w \in Caller, Step(w) PROVE PoolTypeOK' /\ JobOK'
    <2>w. job[w] \in Job /\ (job[w].pc # "idle" => job[w].p \in Provider)
          /\ (job[w].kind = "org" => job[w].key \in Key)
          /\ (job[w].pc \in {"org", "insertOrg"} => job[w].kind = "org")
      BY DEF PoolTypeOK, JobOK
    <2>1. CASE BuildOwn(w)
      <3> DEFINE j == [job[w] EXCEPT !.pc = "insertOrg", !.api = OrgClient(job[w].key[1]),
                                     !.shares = None]
      <3>1. OrgClient(job[w].key[1]) \in Client
        BY <1>t, <2>1, <2>w DEF BuildOwn
      <3>2. job' = [job EXCEPT ![w] = j]
        BY <2>1 DEF BuildOwn, PoolTypeOK
      <3>3. j \in Job /\ j.p = job[w].p /\ j.key = job[w].key /\ j.kind = job[w].kind
            /\ j.pc = "insertOrg"
        BY <2>w, <3>1 DEF Job, MaybeClient
      <3> HIDE DEF j
      <3> QED BY <1>j, <2>1, <2>w, <3>2, <3>3 DEF BuildOwn
    <2>2. CASE ShareCached(w)
      <3> DEFINE j == [job[w] EXCEPT !.pc = "insertOrg", !.api = cache[job[w].p],
                                     !.shares = job[w].p]
      <3>1. cache[job[w].p] \in MaybeClient
        BY <2>2, <2>w DEF ShareCached, PoolTypeOK
      <3>2. job' = [job EXCEPT ![w] = j]
        BY <2>2 DEF ShareCached, PoolTypeOK
      <3>3. j \in Job /\ j.p = job[w].p /\ j.key = job[w].key /\ j.kind = job[w].kind
            /\ j.pc = "insertOrg"
        BY <2>w, <3>1 DEF Job
      <3> HIDE DEF j
      <3> QED BY <1>j, <2>2, <2>w, <3>2, <3>3 DEF ShareCached
    <2>3. CASE ShareMiss(w)
      <3> DEFINE j == [job[w] EXCEPT !.pc = "resolve"]
      <3>1. job' = [job EXCEPT ![w] = j]
        BY <2>3 DEF ShareMiss, PoolTypeOK
      <3>2. j \in Job /\ j.p = job[w].p /\ j.key = job[w].key /\ j.kind = job[w].kind
            /\ j.pc = "resolve"
        BY <2>w DEF Job
      <3> HIDE DEF j
      <3> QED BY <1>j, <2>3, <2>w, <3>1, <3>2 DEF ShareMiss
    <2>4. CASE Resolve(w)
      <3> DEFINE j == [job[w] EXCEPT !.pc = "insert", !.api = ProviderClient(job[w].p),
                                     !.shares = job[w].p]
      <3>1. ProviderClient(job[w].p) \in Client
        BY <1>t, <2>4, <2>w DEF Resolve
      <3>2. job' = [job EXCEPT ![w] = j]
        BY <2>4 DEF Resolve, PoolTypeOK
      <3>3. j \in Job /\ j.p = job[w].p /\ j.key = job[w].key /\ j.kind = job[w].kind
            /\ j.pc = "insert" /\ j.shares = j.p
        BY <2>w, <3>1 DEF Job, MaybeClient
      <3> HIDE DEF j
      <3> QED BY <1>j, <2>4, <2>w, <3>2, <3>3 DEF Resolve
    <2>5. CASE ResolveFromSnapshot(w)
      <3> DEFINE j == [job[w] EXCEPT !.pc = "insertOrg", !.api = ProviderClient(job[w].p),
                                     !.shares = None]
      <3>1. ProviderClient(job[w].p) \in Client
        BY <1>t, <2>5, <2>w DEF ResolveFromSnapshot
      <3>2. job' = [job EXCEPT ![w] = j]
        BY <2>5 DEF ResolveFromSnapshot, PoolTypeOK
      <3>3. j \in Job /\ j.p = job[w].p /\ j.key = job[w].key /\ j.kind = job[w].kind
            /\ j.pc = "insertOrg"
        BY <2>w, <3>1 DEF Job, MaybeClient
      <3> HIDE DEF j
      <3> QED BY <1>j, <2>5, <2>w, <3>2, <3>3 DEF ResolveFromSnapshot
    <2>6. CASE CallFails(w)
      BY <1>j, <1>t, <2>6 DEF CallFails, IdleJob
    <2>7. CASE Insert(w)
      <3>1. job[w].p \in Provider /\ job[w].api \in MaybeClient
        BY <2>7, <2>w DEF Insert, Job
      <3>2. cache' \in [Provider -> MaybeClient] /\ cobblerCache' \in [Provider -> MaybeClient]
        BY <2>7, <3>1 DEF Insert, PoolTypeOK
      <3>3. job' \in [Caller -> Job]
        BY <2>7, <2>w, <1>t DEF Insert, PoolTypeOK, Job
      <3>4. PoolTypeOK'
        BY <2>7, <3>2, <3>3 DEF Insert, PoolTypeOK, objects
      <3>5. JobOK'
        BY <2>7, <2>w DEF Insert, JobOK, PoolTypeOK, IdleJob, Job
      <3> QED BY <3>4, <3>5
    <2>8. CASE InsertOrg(w)
      <3>1. [api |-> job[w].api, shares |-> job[w].shares] \in OrgEntry /\ job[w].key \in Key
        BY <2>8, <2>w DEF InsertOrg, Job, OrgEntry
      <3>2. orgCache' \in [Key -> OrgEntry]
        BY <2>8, <3>1 DEF InsertOrg, PoolTypeOK
      <3>3. job' \in [Caller -> Job]
        BY <2>8, <1>t DEF InsertOrg, PoolTypeOK
      <3>4. PoolTypeOK'
        BY <2>8, <3>2, <3>3 DEF InsertOrg, PoolTypeOK, objects
      <3>5. JobOK'
        BY <2>8 DEF InsertOrg, JobOK, PoolTypeOK, IdleJob
      <3> QED BY <3>4, <3>5
    <2> QED BY <1>3, <2>1, <2>2, <2>3, <2>4, <2>5, <2>6, <2>7, <2>8 DEF Step
  <1>i. ASSUME NEW p \in Provider, Invalidate(p)
        PROVE  /\ cache' \in [Provider -> MaybeClient]
               /\ cobblerCache' \in [Provider -> MaybeClient]
               /\ orgCache' \in [Key -> OrgEntry] /\ raced' \in [Provider -> BOOLEAN]
    <2>1. cache' \in [Provider -> MaybeClient] /\ cobblerCache' \in [Provider -> MaybeClient]
      BY <1>i DEF Invalidate, PoolTypeOK, MaybeClient
    <2>2. orgCache' \in [Key -> OrgEntry]
      BY <1>i, <1>t DEF Invalidate, SharedEvicted, PoolTypeOK
    <2>3. raced' \in [Provider -> BOOLEAN]
      BY <1>i DEF Invalidate, PoolTypeOK
    <2> QED BY <2>1, <2>2, <2>3
  <1>4. ASSUME NEW p \in Provider, HandleSecretEvent(p) PROVE PoolTypeOK' /\ JobOK'
    BY <1>4, <1>i, <1>c DEF HandleSecretEvent, PoolTypeOK, objects
  <1>miss. ASSUME NEW p \in Provider, MissSecretEvent(p) PROVE PoolTypeOK' /\ JobOK'
    BY <1>miss DEF MissSecretEvent, PoolTypeOK, JobOK, objects, caches
  <1>5. ASSUME NEW p \in Provider, ReconcileProviderGone(p) PROVE PoolTypeOK' /\ JobOK'
    BY <1>5, <1>i, <1>c DEF ReconcileProviderGone, PoolTypeOK, objects
  <1>6. ASSUME NEW p \in Provider, RotateSecret(p) PROVE PoolTypeOK' /\ JobOK'
    <2>1. prov' \in [Provider -> ProviderObject]
      BY <1>6 DEF RotateSecret, PoolTypeOK, ProviderObject
    <2>2. queue' \subseteq Provider /\ changes' \in Nat
      BY <1>6 DEF RotateSecret, Change, PoolTypeOK
    <2> QED BY <1>6, <2>1, <2>2, <1>c DEF RotateSecret, PoolTypeOK, caches
  <1>7. ASSUME NEW p \in Provider, DeleteProvider(p) PROVE PoolTypeOK' /\ JobOK'
    <2>1. prov' \in [Provider -> ProviderObject]
      BY <1>7 DEF DeleteProvider, PoolTypeOK, ProviderObject
    <2>2. changes' \in Nat
      BY <1>7 DEF DeleteProvider, Change, PoolTypeOK
    <2> QED BY <1>7, <2>1, <2>2, <1>c DEF DeleteProvider, PoolTypeOK, caches
  <1>8. ASSUME NEW p \in Provider, CreateProvider(p) PROVE PoolTypeOK' /\ JobOK'
    <2>1. prov' \in [Provider -> ProviderObject]
      BY <1>8 DEF CreateProvider, PoolTypeOK, ProviderObject
    <2> QED BY <1>8, <2>1, <1>c DEF CreateProvider, PoolTypeOK, caches
  <1>9. ASSUME NEW o \in Orgs, OrgStep(o) \/ OrgPassFails(o) \/ OrgFound(o)
        PROVE  PoolTypeOK' /\ JobOK'
    <2>0. /\ providerRef[o] \in Provider /\ pass[o] \in OrgPass
          /\ ProviderClient(providerRef[o]) \in Client
      BY <1>t, ProviderRefAssumption DEF PoolTypeOK
    <2>1. PICK next \in OrgPass : pass' = [pass EXCEPT ![o] = next]
      <3>1. /\ [IdlePass EXCEPT !.pc = "lookup"] \in OrgPass
            /\ [IdlePass EXCEPT !.pc = "save"] \in OrgPass
            /\ [pc |-> "insert", api |-> ProviderClient(providerRef[o])] \in OrgPass
        BY <1>t, <2>0 DEF OrgPass, MaybeClient
      <3> QED BY <1>9, <1>t, <3>1 DEF OrgStep, OrgForHit, OrgForMiss, OrgForInsert,
              OrgPassFails, OrgFound, OrgSave, OrgMoves
    <2>2. pass' \in [Orgs -> OrgPass]
      BY <2>1 DEF PoolTypeOK
    <2>3. /\ cache' = cache \/ cache' = [cache EXCEPT ![providerRef[o]] = pass[o].api]
          /\ orgCache' = orgCache \/ orgCache' = InvalidateOrg(o)
          /\ org' = org \/ org' = [org EXCEPT ![o].snapshot = TRUE]
          /\ UNCHANGED <<prov, stuck, changes, cobblerCache, job, queue, raced>>
      BY <1>9 DEF OrgStep, OrgForHit, OrgForMiss, OrgForInsert, OrgPassFails, OrgFound,
                  OrgSave, WriteSnapshot, objects, caches
    <2>4. cache' \in [Provider -> MaybeClient]
      BY <2>0, <2>3 DEF PoolTypeOK, OrgPass
    <2>5. orgCache' \in [Key -> OrgEntry]
      BY <1>t, <2>3 DEF InvalidateOrg, PoolTypeOK
    <2>6. org' \in [Orgs -> OrgObject]
      <3>1. org[o] \in OrgObject
        BY DEF PoolTypeOK
      <3>2. [org[o] EXCEPT !.snapshot = TRUE] \in OrgObject
        BY <3>1 DEF OrgObject
      <3> QED BY <2>3, <3>2 DEF PoolTypeOK
    <2> QED BY <2>2, <2>3, <2>4, <2>5, <2>6, <1>c DEF PoolTypeOK
  <1>10. ASSUME NEW o \in Orgs, RotateOrgSecret(o) PROVE PoolTypeOK' /\ JobOK'
    <2>1. org' \in [Orgs -> OrgObject]
      BY <1>10 DEF RotateOrgSecret, PoolTypeOK, OrgObject
    <2>2. changes' \in Nat
      BY <1>10 DEF RotateOrgSecret, Change, PoolTypeOK
    <2> QED BY <1>10, <2>1, <2>2, <1>c DEF RotateOrgSecret, PoolTypeOK, caches
  <1>11. ASSUME NEW o \in Orgs, ChangeOrgCredentials(o) PROVE PoolTypeOK' /\ JobOK'
    <2>1. org' \in [Orgs -> OrgObject]
      BY <1>11 DEF ChangeOrgCredentials, PoolTypeOK, OrgObject
    <2>2. changes' \in Nat
      BY <1>11 DEF ChangeOrgCredentials, Change, PoolTypeOK
    <2> QED BY <1>11, <2>1, <2>2, <1>c DEF ChangeOrgCredentials, PoolTypeOK, caches
  <1>broken. ASSUME NEW o \in Orgs, BreakOrg(o) \/ RepairOrg(o)
         PROVE  PoolTypeOK' /\ JobOK'
    <2>1. stuck' \in [Orgs -> BOOLEAN]
      BY <1>broken DEF BreakOrg, RepairOrg, PoolTypeOK
    <2>2. changes' \in Nat
      BY <1>broken DEF BreakOrg, RepairOrg, Change, PoolTypeOK
    <2> QED BY <1>broken, <2>1, <2>2, <1>c DEF BreakOrg, RepairOrg, PoolTypeOK, caches
  <1>12. CASE UNCHANGED poolVars
    BY <1>12, <1>c DEF poolVars, objects, caches, PoolTypeOK
  <1> QED BY <1>1, <1>2, <1>3, <1>4, <1>miss, <1>5, <1>6, <1>7, <1>8, <1>9, <1>10, <1>11,
             <1>broken, <1>12 DEF PoolNext

\* Every state the pool and its callers reach is well typed.
THEOREM PoolTypes == PoolSpec => []PoolTypeOK
  <1>1. PoolInit => PoolTypeOK /\ JobOK
    BY PoolInitType, InitJobs
  <1> QED BY <1>1, PoolTypeStep, PTL DEF PoolSpec

----------------------------------------------------------------------------
(* Freshness.  Only Invalidate touches raced, and only rotations and their *)
(* events touch queue; a provider with neither pending is looked at alone. *)

\* What a provider needs to stay fresh across a step other than Invalidate.
Kept(p) ==
    /\ prov'[p].secret = prov[p].secret
    /\ cache'[p] = cache[p] \/ Current(p, cache'[p])
    /\ cobblerCache'[p] = cobblerCache[p] \/ Current(p, cobblerCache'[p])
    /\ \A k \in Key : \/ orgCache'[k] = orgCache[k]
                      \/ orgCache'[k].shares = p => Current(p, orgCache'[k].api)
    /\ \A w \in Caller : \/ job'[w] = job[w]
                         \/ Holding(w, p)' => Current(p, job'[w].api)
    /\ \A o \in Orgs : \/ pass'[o] = pass[o]
                       \/ PassHolding(o, p)' => Current(p, pass'[o].api)

\* Fresh entries and fresh calls stay fresh across such a step.
LEMMA KeptFresh ==
    ASSUME NEW p, Kept(p), Stored(p), Held(p)
    PROVE  Stored(p)' /\ Held(p)'
  <1>1. ASSUME NEW c, Current(p, c) PROVE c = None \/ c = ProviderClient(p)'
    BY <1>1 DEF Kept, Current, ProviderClient
  <1>2. Stored(p)'
    BY <1>1 DEF Kept, Stored, Current
  <1>3. Held(p)'
    BY <1>1 DEF Kept, Held, Holding, PassHolding, Current
  <1> QED BY <1>2, <1>3

\* One step keeps the clients of a provider current while its last event is
\* handled and nothing raced.
LEMMA FreshStep ==
    ASSUME PoolTypeOK, PoolTypeOK', JobOK, [PoolNext]_poolVars, NEW p \in Watched,
           p \notin queue', ~raced'[p],
           (p \notin queue /\ ~raced[p]) => Stored(p) /\ Held(p)
    PROVE  Stored(p)' /\ Held(p)'
  <1>p. p \in Provider
    BY WatchedAssumption
  <1>k. ASSUME UNCHANGED <<queue, raced>>, Kept(p) PROVE Stored(p)' /\ Held(p)'
    BY <1>k, KeptFresh
  <1>1. ASSUME NEW w \in Caller, NEW q \in Provider, For(w, q) \/ Cobbler(w, q)
        PROVE  Stored(p)' /\ Held(p)'
    <2>1. \A v \in Caller : v # w => job'[v] = job[v]
      BY <1>1 DEF For, Cobbler, PoolTypeOK
    <2>2. job'[w].pc = "resolve"
      BY <1>1, ZenonT(60) DEF For, Cobbler, PoolTypeOK, Call, IdleJob
    <2> QED BY <1>1, <1>k, <2>1, <2>2 DEF For, Cobbler, Kept, Holding, objects, caches
  <1>2. ASSUME NEW w \in Caller, NEW k \in Key, ForOrganization(w, k)
        PROVE  Stored(p)' /\ Held(p)'
    <2>1. \A v \in Caller : v # w => job'[v] = job[v]
      BY <1>2 DEF ForOrganization, PoolTypeOK
    <2>2. job'[w].pc = "org"
      BY <1>2 DEF ForOrganization, PoolTypeOK, Call, IdleJob
    <2> QED BY <1>2, <1>k, <2>1, <2>2 DEF ForOrganization, Kept, Holding, objects, caches
  <1>3. ASSUME NEW w \in Caller, Step(w) PROVE Stored(p)' /\ Held(p)'
    <2>q. UNCHANGED <<queue, raced, prov, pass>>
      BY <1>3 DEF Step, BuildOwn, ShareCached, ShareMiss, Resolve, ResolveFromSnapshot,
                  CallFails, Insert, InsertOrg, objects
    <2>h. Stored(p) /\ Held(p)
      BY <2>q
    <2>v. \A v \in Caller : v # w => job'[v] = job[v]
      BY <1>3 DEF Step, BuildOwn, ShareCached, ShareMiss, Resolve, ResolveFromSnapshot,
                  CallFails, Insert, InsertOrg, PoolTypeOK
    <2>j. \* only the job of w changes
          ASSUME UNCHANGED caches, Holding(w, p)' => Current(p, job'[w].api)
          PROVE  Kept(p)
      BY <2>j, <2>q, <2>v DEF Kept, caches
    <2>1. CASE BuildOwn(w)
      <3>1. job'[w].shares = None
        BY <2>1 DEF BuildOwn, PoolTypeOK, Job
      <3> QED BY <1>k, <1>p, <2>1, <2>j, <2>q, <3>1, NoneAssumption DEF BuildOwn, Holding
    <2>2. CASE ShareCached(w)
      <3>1. job'[w].shares = job[w].p /\ job'[w].api = cache[job[w].p]
        BY <2>2 DEF ShareCached, PoolTypeOK, Job
      <3>2. Holding(w, p)' => Current(p, job'[w].api)
        BY <2>h, <3>1 DEF Holding, Stored
      <3> QED BY <1>k, <2>2, <2>j, <2>q, <3>2 DEF ShareCached
    <2>3. CASE ShareMiss(w)
      <3>1. job'[w].pc = "resolve"
        BY <2>3 DEF ShareMiss, PoolTypeOK, Job
      <3> QED BY <1>k, <2>3, <2>j, <2>q, <3>1 DEF ShareMiss, Holding
    <2>4. CASE Resolve(w)
      <3>1. job'[w].shares = job[w].p /\ job'[w].api = ProviderClient(job[w].p)
        BY <2>4 DEF Resolve, PoolTypeOK, Job
      <3>2. Holding(w, p)' => Current(p, job'[w].api)
        BY <3>1 DEF Holding, Current
      <3> QED BY <1>k, <2>4, <2>j, <2>q, <3>2 DEF Resolve
    <2>5. CASE ResolveFromSnapshot(w)
      <3>1. job'[w].shares = None
        BY <2>5 DEF ResolveFromSnapshot, PoolTypeOK, Job
      <3> QED BY <1>k, <1>p, <2>5, <2>j, <2>q, <3>1, NoneAssumption
              DEF ResolveFromSnapshot, Holding
    <2>6. CASE CallFails(w)
      <3>1. job'[w].pc = "idle"
        BY <2>6 DEF CallFails, PoolTypeOK, IdleJob
      <3> QED BY <1>k, <2>6, <2>j, <2>q, <3>1 DEF CallFails, Holding
    <2>7. CASE Insert(w)
      <3>1. job[w].pc = "insert" /\ job[w].shares = job[w].p /\ job[w].p \in Provider
        BY <2>7 DEF Insert, JobOK
      <3>2. job[w].p = p => Current(p, job[w].api)
        BY <2>h, <3>1 DEF Held, Holding
      <3>3. cache'[p] = cache[p] \/ Current(p, cache'[p])
        BY <1>p, <2>7, <3>1, <3>2 DEF Insert, PoolTypeOK
      <3>4. cobblerCache'[p] = cobblerCache[p] \/ Current(p, cobblerCache'[p])
        BY <1>p, <2>7, <3>1, <3>2 DEF Insert, PoolTypeOK
      <3>5. CASE job[w].kind = "org"
        <4>1. job'[w].api = job[w].api /\ job'[w].shares = job[w].shares
          BY <2>7, <3>5 DEF Insert, PoolTypeOK, Job
        <4>2. Holding(w, p)' => Current(p, job'[w].api)
          BY <3>1, <3>2, <4>1 DEF Holding
        <4>3. Kept(p)
          BY <2>7, <2>q, <2>v, <3>3, <3>4, <4>2 DEF Insert, Kept
        <4> QED BY <1>k, <2>q, <4>3
      <3>6. CASE job[w].kind # "org"
        <4>1. job'[w].pc = "idle"
          BY <2>7, <3>6 DEF Insert, PoolTypeOK, IdleJob
        <4>2. Kept(p)
          BY <2>7, <2>q, <2>v, <3>3, <3>4, <4>1 DEF Insert, Kept, Holding
        <4> QED BY <1>k, <2>q, <4>2
      <3> QED BY <3>5, <3>6
    <2>8. CASE InsertOrg(w)
      <3>1. job'[w].pc = "idle"
        BY <2>8 DEF InsertOrg, PoolTypeOK, IdleJob
      <3>2. job[w].pc = "insertOrg" /\ job[w].key \in Key
        BY <2>8 DEF InsertOrg, JobOK
      <3>3. job[w].shares = p => Current(p, job[w].api)
        BY <2>h, <3>2 DEF Held, Holding
      <3>4. \A k \in Key : k # job[w].key => orgCache'[k] = orgCache[k]
        BY <2>8 DEF InsertOrg, PoolTypeOK
      <3>5. orgCache'[job[w].key].shares = p => Current(p, orgCache'[job[w].key].api)
        BY <2>8, <3>2, <3>3 DEF InsertOrg, PoolTypeOK
      <3>6. Kept(p)
        BY <2>8, <2>q, <2>v, <3>1, <3>4, <3>5 DEF InsertOrg, Kept, Holding
      <3> QED BY <1>k, <2>q, <3>6
    <2> QED BY <1>3, <2>1, <2>2, <2>3, <2>4, <2>5, <2>6, <2>7, <2>8 DEF Step
  <1>i. ASSUME NEW q \in Provider, Invalidate(q), UNCHANGED <<objects, job, pass>>,
               q # p => (p \in queue' <=> p \in queue)
        PROVE  Stored(p)' /\ Held(p)'
    <2>0. prov' = prov
      BY <1>i DEF objects
    <2>1. CASE q = p
      <3>1. cache'[p] = None /\ cobblerCache'[p] = None
        BY <1>i, <1>p, <2>1 DEF Invalidate, PoolTypeOK
      <3>2. \A k \in Key : orgCache'[k].shares = p => orgCache'[k].api = None
        BY <1>i, <2>1 DEF Invalidate, SharedEvicted, NoEntry
      <3>3. /\ ~ \E w \in Caller : Holding(w, p)
            /\ ~ \E o \in Orgs : PassHolding(o, p)
        BY <1>i, <1>p, <2>1 DEF Invalidate, PoolTypeOK
      <3>4. Stored(p)'
        BY <3>1, <3>2 DEF Stored, Current
      <3>5. Held(p)'
        BY <1>i, <3>3 DEF Held, Holding, PassHolding
      <3> QED BY <3>4, <3>5
    <2>2. CASE q # p
      <3>1. cache'[p] = cache[p] /\ cobblerCache'[p] = cobblerCache[p] /\ raced'[p] = raced[p]
        BY <1>i, <1>p, <2>2 DEF Invalidate, PoolTypeOK
      <3>2. \A k \in Key : orgCache'[k] = orgCache[k]
                           \/ (orgCache'[k].shares = None /\ orgCache'[k].api = None)
        BY <1>i DEF Invalidate, SharedEvicted, NoEntry
      <3>3. Kept(p)
        BY <1>i, <2>0, <3>1, <3>2 DEF Kept, Current
      <3> QED BY <1>i, <2>2, <3>1, <3>3, KeptFresh
    <2> QED BY <2>1, <2>2
  <1>4. ASSUME NEW q \in Provider, HandleSecretEvent(q) \/ ReconcileProviderGone(q)
        PROVE  Stored(p)' /\ Held(p)'
    BY <1>4, <1>i DEF HandleSecretEvent, ReconcileProviderGone
  <1>5. ASSUME NEW q \in Provider, MissSecretEvent(q) PROVE Stored(p)' /\ Held(p)'
    <2>1. q # p
      BY <1>5, <1>p DEF MissSecretEvent, PoolTypeOK
    <2>2. p \notin queue /\ raced'[p] = raced[p] /\ Kept(p)
      BY <1>5, <1>p, <2>1 DEF MissSecretEvent, PoolTypeOK, Kept, objects, caches
    <2> QED BY <2>2, KeptFresh
  <1>6. ASSUME NEW q \in Provider, RotateSecret(q) PROVE Stored(p)' /\ Held(p)'
    <2>1. q # p /\ p \notin queue /\ raced' = raced
      BY <1>6 DEF RotateSecret
    <2>2. prov'[p] = prov[p]
      BY <1>6, <1>p, <2>1 DEF RotateSecret, PoolTypeOK
    <2>3. Kept(p)
      BY <1>6, <2>2 DEF RotateSecret, Kept, caches
    <2> QED BY <2>1, <2>3, KeptFresh
  <1>7. ASSUME NEW q \in Provider, DeleteProvider(q) \/ CreateProvider(q)
        PROVE  Stored(p)' /\ Held(p)'
    <2>1. prov'[p].secret = prov[p].secret
      BY <1>7, <1>p DEF DeleteProvider, CreateProvider, PoolTypeOK, ProviderObject
    <2>2. Kept(p)
      BY <1>7, <2>1 DEF DeleteProvider, CreateProvider, Kept, caches
    <2> QED BY <1>7, <1>k, <2>2 DEF DeleteProvider, CreateProvider
  <1>9. ASSUME NEW o \in Orgs, OrgStep(o) \/ OrgPassFails(o) \/ OrgFound(o)
        PROVE  Stored(p)' /\ Held(p)'
    <2>1. UNCHANGED <<prov, cobblerCache, job, queue, raced>>
      BY <1>9 DEF OrgStep, OrgForHit, OrgForMiss, OrgForInsert, OrgPassFails, OrgFound,
                  OrgSave, WriteSnapshot, objects, caches
    <2>h. Held(p)
      BY <2>1
    <2>2. cache'[p] = cache[p] \/ Current(p, cache'[p])
      <3>1. CASE OrgForInsert(o)
        <4>1. PassHolding(o, p) => Current(p, pass[o].api)
          BY <2>h DEF Held
        <4> QED BY <1>p, <3>1, <4>1
                DEF OrgForInsert, OrgMoves, PassHolding, PoolTypeOK
      <3> QED BY <1>9, <3>1 DEF OrgStep, OrgForHit, OrgForMiss, OrgPassFails, OrgFound,
                  OrgSave, caches
    <2>3. \A k \in Key : orgCache'[k] = orgCache[k] \/ orgCache'[k] = NoEntry
      BY <1>9 DEF OrgStep, OrgForHit, OrgForMiss, OrgForInsert, OrgPassFails, OrgFound,
                  OrgSave, InvalidateOrg, PoolTypeOK, caches
    <2>4. \A q \in Orgs : q # o => pass'[q] = pass[q]
      BY <1>9 DEF OrgStep, OrgForHit, OrgForMiss, OrgForInsert, OrgPassFails, OrgFound,
                  OrgSave, OrgMoves, PoolTypeOK
    <2>5. PassHolding(o, p)' => Current(p, pass'[o].api)
      <3>1. \/ pass'[o].pc # "insert"
            \/ pass'[o].api = ProviderClient(providerRef[o])
        BY <1>9 DEF OrgStep, OrgForHit, OrgForMiss, OrgForInsert, OrgPassFails, OrgFound,
                    OrgSave, OrgMoves, IdlePass, PoolTypeOK
      <3> QED BY <3>1 DEF PassHolding, Current
    <2>6. NoEntry.api = None
      BY DEF NoEntry
    <2>7. Kept(p)
      BY <2>1, <2>2, <2>3, <2>4, <2>5, <2>6 DEF Kept, Current
    <2> QED BY <1>k, <2>1, <2>7
  <1>10. ASSUME NEW o \in Orgs, RotateOrgSecret(o) \/ ChangeOrgCredentials(o)
         PROVE  Stored(p)' /\ Held(p)'
    BY <1>10, <1>k DEF RotateOrgSecret, ChangeOrgCredentials, Kept, caches
  <1>11. ASSUME NEW o \in Orgs, BreakOrg(o) \/ RepairOrg(o)
         PROVE  Stored(p)' /\ Held(p)'
    BY <1>11, <1>k DEF BreakOrg, RepairOrg, Kept, caches
  <1>12. CASE UNCHANGED poolVars
    BY <1>12, <1>k DEF poolVars, objects, caches, Kept
  <1> QED BY <1>1, <1>2, <1>3, <1>4, <1>5, <1>6, <1>7, <1>9, <1>10, <1>11, <1>12
      DEF PoolNext

\* A client with replaced credentials survives in the pool only if a call held
\* a client of that provider while Invalidate ran, or if the provider object
\* was deleted when the event of the changed Secret came.
THEOREM PoolFreshUnlessRaced == PoolSpec => []FreshUnlessRaced
  <1>1. PoolInit => PoolInv
    <2> SUFFICES ASSUME PoolInit PROVE PoolInv
      OBVIOUS
    <2>1. ASSUME NEW p \in Watched PROVE Stored(p) /\ Held(p)
      <3>1. p \in Provider
        BY WatchedAssumption
      <3>2. NoEntry.api = None /\ IdleJob.pc = "idle" /\ IdlePass.pc = "idle"
        BY DEF NoEntry, IdleJob, IdlePass
      <3> QED BY <3>1, <3>2 DEF PoolInit, Stored, Held, Holding, PassHolding, Current
    <2> QED BY <2>1, PoolInitType, InitJobs DEF PoolInv, FreshUnlessRaced
  <1>2. PoolInv /\ [PoolNext]_poolVars => PoolInv'
    <2> SUFFICES ASSUME PoolInv, [PoolNext]_poolVars PROVE PoolInv'
      OBVIOUS
    <2>1. PoolTypeOK' /\ JobOK'
      BY PoolTypeStep DEF PoolInv
    <2>2. ASSUME NEW p \in Watched, p \notin queue', ~raced'[p]
          PROVE  Stored(p)' /\ Held(p)'
      BY <2>1, <2>2, FreshStep DEF PoolInv, FreshUnlessRaced
    <2> QED BY <2>1, <2>2 DEF PoolInv, FreshUnlessRaced
  <1>3. PoolInv => FreshUnlessRaced
    BY DEF PoolInv
  <1> QED BY <1>1, <1>2, <1>3, PTL DEF PoolSpec
============================================================================
