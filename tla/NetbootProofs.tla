--------------------------- MODULE NetbootProofs ---------------------------
(***************************************************************************)
(* TLAPS proofs about Netboot: the types, that a value the user asks for   *)
(* stays on the System until it has been applied, and that the statuses    *)
(* agree with the record once both controllers rest.                       *)
(*                                                                         *)
(* IntentKept is not inductive: what protects the annotation is that the   *)
(* pass that strips it holds the version of the System it read after the   *)
(* value had been applied, and that a CobblerSystem copy which is still    *)
(* current carries the wanted value or none.                               *)
(***************************************************************************)
EXTENDS Netboot, TLAPS

\* A copy of an object that has the stored version is the stored object.
CopyOf(copy, obj) == copy.rv <= obj.rv /\ (copy.rv = obj.rv => copy = obj)

Copies == /\ CopyOf(sysCache, sys) /\ CopyOf(csCache, cs)
          /\ cwk.pc # "idle" => CopyOf(cwk.cs, cs)
          /\ cwk.pc \in {"parentStatus", "parentStrip"} => CopyOf(cwk.sys, sys)
          /\ swk.pc = "forward" => CopyOf(swk.cs, cs)

\* Nothing else is on its way while an uncrossed value waits.
Pending == wanted # "" /\ ~crossed
Uncrossed == Pending => cs.ann \in {"", wanted} /\ swk.ann \in {"", wanted}

\* The pass that carries a value on a current copy either carries the wanted
\* one or has nothing to wipe.
Carries ==
    /\ cwk.pc = "apply" => cwk.val \in Value
    /\ Pending =>
         /\ (cwk.pc = "apply" /\ cwk.cs.rv = cs.rv) => cwk.val = wanted
         /\ cwk.pc \in {"status", "strip"} => cwk.cs.rv # cs.rv
         /\ cwk.pc # "parent"
         /\ cwk.pc \in {"parentStatus", "parentStrip"} => cwk.sys.rv # sys.rv

IInv == TypeOK /\ Copies /\ Uncrossed /\ Carries /\ IntentKept

----------------------------------------------------------------------------
(* What the API server stores.                                             *)

\* A stored System is the new value under a number no earlier copy has.
LEMMA StoredSystem ==
    ASSUME NEW old \in SystemObject, NEW new \in SystemObject
    PROVE  /\ Stored(old, new) \in SystemObject
           /\ Stored(old, new).ann = new.ann
           /\ \A c \in SystemObject : CopyOf(c, old) =>
                /\ CopyOf(c, Stored(old, new))
                /\ c.rv # old.rv => c.rv # Stored(old, new).rv
                /\ new # old => c.rv # Stored(old, new).rv
                /\ Stored(old, new) # old => c.rv # Stored(old, new).rv
           /\ CopyOf(Stored(old, new), Stored(old, new))
BY DEF Stored, CopyOf, SystemObject

\* The same for a CobblerSystem.
LEMMA StoredCobblerSystem ==
    ASSUME NEW old \in CobblerSystemObject, NEW new \in CobblerSystemObject
    PROVE  /\ Stored(old, new) \in CobblerSystemObject
           /\ Stored(old, new).ann = new.ann
           /\ \A c \in CobblerSystemObject : CopyOf(c, old) =>
                /\ CopyOf(c, Stored(old, new))
                /\ c.rv # old.rv => c.rv # Stored(old, new).rv
                /\ new # old => c.rv # Stored(old, new).rv
                /\ Stored(old, new) # old => c.rv # Stored(old, new).rv
           /\ CopyOf(Stored(old, new), Stored(old, new))
BY DEF Stored, CopyOf, CobblerSystemObject

\* Every object is a copy of itself.
LEMMA CopyOfItself ==
    /\ \A o \in SystemObject : CopyOf(o, o)
    /\ \A o \in CobblerSystemObject : CopyOf(o, o)
BY DEF CopyOf, SystemObject, CobblerSystemObject

\* The initial values of the records are well typed.
LEMMA Constants ==
    /\ NewSystem \in SystemObject /\ NoCobblerSystem \in CobblerSystemObject
    /\ SysIdle \in SystemWorker /\ CsIdle \in CobblerWorker
    /\ SysIdle.pc = "idle" /\ SysIdle.ann = "" /\ CsIdle.pc = "idle"
    /\ NoCobblerSystem.ann = ""
BY DEF NewSystem, NoCobblerSystem, SysIdle, CsIdle, SystemObject,
       CobblerSystemObject, SystemWorker, CobblerWorker, Option, Value

----------------------------------------------------------------------------
(* The invariant.                                                          *)

\* Everything is empty at the start.
LEMMA InvariantInit == Init => IInv
<1> SUFFICES ASSUME Init PROVE IInv
  OBVIOUS
<1>1. TypeOK
  BY Constants DEF Init, TypeOK, Option, Value
<1>2. Copies
  BY Constants, CopyOfItself DEF Init, Copies
<1>3. Uncrossed /\ Carries /\ IntentKept
  BY Constants DEF Init, Uncrossed, Carries, IntentKept, Pending
<1> QED BY <1>1, <1>2, <1>3 DEF IInv

\* A step that leaves both objects and the CobblerSystem pass alone.
LEMMA QuietStep ==
    ASSUME IInv, UNCHANGED <<sys, cs, cwk, wanted>>, TypeOK',
           crossed => crossed', CopyOf(sysCache', sys), CopyOf(csCache', cs),
           swk'.pc = "forward" => CopyOf(swk'.cs, cs),
           Pending' => swk'.ann \in {"", wanted}
    PROVE  IInv'
<1>1. Copies' BY DEF IInv, Copies
<1>2. Uncrossed' /\ Carries' /\ IntentKept'
  BY DEF IInv, TypeOK, Uncrossed, Carries, IntentKept, Pending
<1> QED BY <1>1, <1>2 DEF IInv

\* A write of the CobblerSystem pass that sets no annotation, and the step it
\* goes on with.
LEMMA SavedStep ==
    ASSUME IInv, NEW new \in CobblerSystemObject, NEW next, SaveCs(new, next),
           new.ann \in {"", cwk.cs.ann}, cwk.pc # "idle",
           next \in {"idle", "strip", "parent"},
           next # "idle" => cwk.pc \in {"status", "strip"},
           UNCHANGED <<sys, caches, cobbler, swk, rest, events>>
    PROVE  IInv'
<1> USE DEF IInv, caches, rest, history
<1>t. /\ cs \in CobblerSystemObject /\ cwk \in CobblerWorker
      /\ cwk.cs \in CobblerSystemObject /\ swk.cs \in CobblerSystemObject
      /\ csCache \in CobblerSystemObject
  BY DEF TypeOK, CobblerWorker, SystemWorker
<1>1. CASE Conflict
  <2>1. UNCHANGED cs /\ cwk' = CsIdle
    BY <1>1 DEF SaveCs
  <2>2. TypeOK'
    BY <2>1, Constants DEF TypeOK
  <2> QED BY <2>1, <2>2, Constants
          DEF Copies, Uncrossed, Carries, IntentKept, Pending
<1>2. CASE ~Conflict
  <2>1. cs = cwk.cs
    BY <1>2 DEF Conflict, Copies, CopyOf
  <2>2. cs' = Stored(cs, new)
    BY <1>2 DEF SaveCs
  <2>3. /\ cs' \in CobblerSystemObject /\ cs'.ann \in {"", cs.ann}
        /\ CopyOf(cs', cs')
        /\ \A c \in CobblerSystemObject : CopyOf(c, cs) => CopyOf(c, cs')
    <3>0. /\ Stored(cs, new) \in CobblerSystemObject
          /\ Stored(cs, new).ann = new.ann
      <4>1. cs \in CobblerSystemObject /\ new \in CobblerSystemObject
        BY <1>t
      <4> QED BY ONLY <4>1, StoredCobblerSystem
    <3>1. cs' \in CobblerSystemObject /\ cs'.ann = new.ann /\ CopyOf(cs', cs')
      BY <2>2, <3>0, CopyOfItself
    <3>2. \A c \in CobblerSystemObject : CopyOf(c, cs) => CopyOf(c, cs')
      BY <1>t, <2>2, StoredCobblerSystem
    <3> QED BY <2>1, <3>1, <3>2
  <2>4. /\ cwk' \in CobblerWorker
        /\ cwk'.pc \in {"idle", "strip", "parent"}
        /\ cwk'.pc # "idle" => cwk.pc \in {"status", "strip"} /\ cwk'.cs = cs'
    <3>1. CASE next = "idle"
      BY <1>2, <3>1, Constants DEF SaveCs
    <3>2. CASE next # "idle"
      <4>1. cwk' = [cwk EXCEPT !.pc = next, !.cs = cs']
        BY <1>2, <2>2, <3>2 DEF SaveCs
      <4> QED BY <1>t, <2>3, <3>2, <4>1 DEF CobblerWorker
    <3> QED BY <3>1, <3>2
  <2>5. TypeOK'
    BY <2>3, <2>4 DEF TypeOK
  <2>6. Copies'
    BY <1>t, <2>3, <2>4 DEF Copies
  <2>7. Uncrossed' /\ IntentKept'
    BY <2>3 DEF Uncrossed, IntentKept, Pending
  <2>8. Carries'
    BY <2>1, <2>4 DEF Carries, Pending
  <2> QED BY <2>5, <2>6, <2>7, <2>8
<1> QED BY <1>1, <1>2

\* A step of the CobblerSystem pass that leaves both objects alone.
LEMMA PassStep ==
    ASSUME IInv, UNCHANGED <<sys, cs, caches, swk, crossed>>, TypeOK',
           wanted' \in {"", wanted}, cwk'.cs = cwk.cs, cwk.pc # "idle",
           cwk'.pc \in {"parentStatus", "parentStrip"} => CopyOf(cwk'.sys, sys),
           Carries'
    PROVE  IInv'
BY DEF IInv, Copies, Uncrossed, IntentKept, Pending, caches

\* Every step of a pass of the CobblerSystem reconciler.
LEMMA CobblerPassKeeps == IInv /\ CobblerPass => IInv'
<1> SUFFICES ASSUME IInv, CobblerPass PROVE IInv'
  OBVIOUS
<1>i. TypeOK /\ Copies /\ Uncrossed /\ Carries /\ IntentKept
  BY DEF IInv
<1>t. /\ sys \in SystemObject /\ cs \in CobblerSystemObject
      /\ sysCache \in SystemObject /\ cwk \in CobblerWorker
      /\ cwk.cs \in CobblerSystemObject /\ cwk.sys \in SystemObject
      /\ cwk.val \in Option /\ cwk.cs.ann \in Option
  BY <1>i DEF TypeOK, CobblerWorker, CobblerSystemObject
<1>1. CASE AddFinalizer
  <2> DEFINE new == [cwk.cs EXCEPT !.finalizer = TRUE]
  <2>1. new \in CobblerSystemObject /\ new.ann = cwk.cs.ann
    BY <1>t DEF CobblerSystemObject
  <2>2. /\ SaveCs(new, "idle") /\ cwk.pc # "idle"
        /\ UNCHANGED <<sys, caches, cobbler, swk, rest, events>>
    BY <1>1 DEF AddFinalizer
  <2> HIDE DEF new
  <2> QED BY <2>1, <2>2, SavedStep
<1>2. CASE NoteReady
  <2> DEFINE new == [cwk.cs EXCEPT !.found = TRUE]
  <2>1. new \in CobblerSystemObject /\ new.ann = cwk.cs.ann
    BY <1>t DEF CobblerSystemObject
  <2>2. /\ SaveCs(new, "idle") /\ cwk.pc # "idle"
        /\ UNCHANGED <<sys, caches, cobbler, swk, rest, events>>
    BY <1>2 DEF NoteReady
  <2> HIDE DEF new
  <2> QED BY <2>1, <2>2, SavedStep
<1>3. CASE NoteApplied
  <2> DEFINE new == [cwk.cs EXCEPT !.status = cwk.val]
  <2>1. new \in CobblerSystemObject /\ new.ann = cwk.cs.ann
    BY <1>t DEF CobblerSystemObject
  <2>2. /\ SaveCs(new, "strip") /\ cwk.pc = "status"
        /\ UNCHANGED <<sys, caches, cobbler, swk, rest, events>>
    BY <1>3 DEF NoteApplied
  <2> HIDE DEF new
  <2> QED BY <2>1, <2>2, SavedStep
<1>4. CASE StripCobblerSystem
  <2> DEFINE new == [cwk.cs EXCEPT !.ann = ""]
  <2>1. new \in CobblerSystemObject /\ new.ann = ""
    BY <1>t DEF CobblerSystemObject, Option
  <2>2. /\ SaveCs(new, "parent") /\ cwk.pc = "strip"
        /\ UNCHANGED <<sys, caches, cobbler, swk, rest, events>>
    BY <1>4 DEF StripCobblerSystem
  <2> HIDE DEF new
  <2> QED BY <2>1, <2>2, SavedStep
<1>5. CASE ReleaseCobblerSystem
  <2>1. /\ SaveCs(NoCobblerSystem, "idle") /\ cwk.pc # "idle"
        /\ UNCHANGED <<sys, caches, cobbler, swk, rest, events>>
    BY <1>5 DEF ReleaseCobblerSystem
  <2> QED BY <2>1, Constants, SavedStep
<1>6. CASE UpsertSystem \/ RemoveSystem
  <2>1. /\ cwk' \in CobblerWorker /\ cwk'.cs = cwk.cs /\ cwk.pc # "idle"
        /\ cwk'.pc \in {"ready", "release"}
        /\ cobbler' \in Value \cup {"none"}
        /\ UNCHANGED <<sys, cs, caches, swk, rest, events>>
    BY <1>i, <1>t, <1>6 DEF UpsertSystem, RemoveSystem, CobblerWorker, k8s,
                            TypeOK, Value
  <2>2. TypeOK'
    BY <1>i, <2>1 DEF TypeOK, caches, rest, history
  <2>3. Carries'
    BY <2>1 DEF Carries
  <2> QED BY <2>1, <2>2, <2>3, PassStep DEF rest, history
<1>7. CASE SetNetboot
  <2>1. /\ cwk.pc = "apply" /\ wanted' \in {"", wanted}
        /\ UNCHANGED <<sys, cs, caches, swk, crossed, recreated, savesBareRecord, events>>
    BY <1>i, <1>7 DEF SetNetboot, k8s, TypeOK
  <2>2. CASE cobbler = "none" /\ ~savesBareRecord
    <3>1. cwk' = CsIdle /\ UNCHANGED <<cobbler, wanted>>
      BY <1>7, <2>2 DEF SetNetboot
    <3>2. TypeOK'
      BY <1>i, <2>1, <3>1, Constants DEF TypeOK, caches
    <3> QED BY <1>i, <2>1, <3>1, <3>2, Constants
            DEF IInv, Copies, Uncrossed, Carries, IntentKept, Pending, caches
  <2>3. CASE ~(cobbler = "none" /\ ~savesBareRecord)
    <3>1. /\ cobbler' = cwk.val /\ cwk' = [cwk EXCEPT !.pc = "status"]
          /\ wanted = cwk.val => wanted' = ""
      BY <1>7, <2>3 DEF SetNetboot
    <3>2. cwk' \in CobblerWorker /\ cwk'.pc = "status" /\ cwk'.cs = cwk.cs
      BY <1>t, <3>1 DEF CobblerWorker
    <3>3. TypeOK'
      <4>1. cobbler' \in Value \cup {"none"} /\ wanted' \in Option
        BY <1>i, <2>1, <3>1 DEF TypeOK, Carries, Option
      <4> QED BY <1>i, <2>1, <3>2, <4>1 DEF TypeOK, caches
    <3>4. Carries'
      BY <1>i, <2>1, <3>1, <3>2 DEF Carries, Pending
    <3> QED BY <2>1, <3>2, <3>3, <3>4, PassStep
  <2> QED BY <2>2, <2>3
<1>8. CASE ReadParent
  <2>1. /\ cwk' \in CobblerWorker /\ cwk'.cs = cwk.cs /\ cwk.pc = "parent"
        /\ cwk'.pc = "parentStatus" /\ cwk'.sys = sysCache
        /\ UNCHANGED <<sys, cs, caches, cobbler, swk, rest, events>>
    BY <1>t, <1>8 DEF ReadParent, CobblerWorker, k8s
  <2>2. TypeOK'
    BY <1>i, <2>1 DEF TypeOK, caches, rest, history
  <2>3. Carries'
    BY <1>i, <2>1 DEF Carries, Pending, rest, history
  <2>4. CopyOf(cwk'.sys, sys)
    BY <1>i, <2>1 DEF Copies
  <2> QED BY <2>1, <2>2, <2>3, <2>4, PassStep DEF rest, history
<1>9. CASE NoteParent
  <2> DEFINE new == [sys EXCEPT !.status = cwk.val]
  <2>1. new \in SystemObject /\ new.ann = sys.ann
    BY <1>t DEF SystemObject
  <2>2. /\ cwk.pc = "parentStatus"
        /\ UNCHANGED <<cs, caches, cobbler, swk, rest, events>>
        /\ sys' \in {sys, Stored(sys, new)}
        /\ \/ cwk' = CsIdle
           \/ /\ cwk' = [cwk EXCEPT !.pc = "parentStrip", !.sys = sys']
              /\ sys.rv = cwk.sys.rv
    BY <1>9 DEF NoteParent
  <2> HIDE DEF new
  <2>3. sys' \in SystemObject /\ sys'.ann = sys.ann /\ CopyOf(sys', sys')
    BY <1>t, <2>1, <2>2, StoredSystem, CopyOfItself
  <2>4. \A c \in SystemObject : CopyOf(c, sys) => CopyOf(c, sys')
    BY <1>t, <2>1, <2>2, StoredSystem
  <2>5. /\ cwk' \in CobblerWorker /\ cwk'.pc \in {"idle", "parentStrip"}
        /\ cwk'.pc # "idle" =>
             cwk'.cs = cwk.cs /\ cwk'.sys = sys' /\ sys.rv = cwk.sys.rv
    BY <1>t, <2>2, <2>3, Constants DEF CobblerWorker
  <2>6. TypeOK'
    BY <1>i, <2>2, <2>3, <2>5 DEF TypeOK, caches, rest, history
  <2>7. Copies'
    BY <1>i, <1>t, <2>2, <2>3, <2>4, <2>5 DEF Copies, caches
  <2>8. Uncrossed' /\ Carries' /\ IntentKept'
    BY <1>i, <2>2, <2>3, <2>5
    DEF Uncrossed, Carries, IntentKept, Pending, rest, history
  <2> QED BY <2>6, <2>7, <2>8 DEF IInv
<1>10. CASE StripParent
  <2> DEFINE new == [sys EXCEPT !.ann = ""]
  <2>1. new \in SystemObject
    BY <1>t DEF SystemObject, Option
  <2>2. /\ cwk.pc = "parentStrip" /\ cwk' = CsIdle
        /\ UNCHANGED <<cs, caches, cobbler, swk, rest, events>>
        /\ sys' \in {sys, Stored(sys, new)}
        /\ sys' # sys => sys.rv = cwk.sys.rv
    BY <1>10 DEF StripParent
  <2> HIDE DEF new
  <2>3. /\ sys' \in SystemObject
        /\ \A c \in SystemObject : CopyOf(c, sys) => CopyOf(c, sys')
    BY <1>t, <2>1, <2>2, StoredSystem
  <2>4. TypeOK'
    BY <1>i, <2>2, <2>3, Constants DEF TypeOK, caches, rest, history
  <2>5. Copies'
    BY <1>i, <1>t, <2>2, <2>3, Constants DEF Copies, caches
  <2>6. Uncrossed' /\ Carries' /\ IntentKept'
    BY <1>i, <2>2, Constants
    DEF Uncrossed, Carries, IntentKept, Pending, rest, history
  <2> QED BY <2>4, <2>5, <2>6 DEF IInv
<1> QED BY <1>1, <1>2, <1>3, <1>4, <1>5, <1>6, <1>7, <1>8, <1>9, <1>10
        DEF CobblerPass

\* Every step of the two controllers, the informers and the user keeps it.
LEMMA InvariantStep == IInv /\ [Next]_vars => IInv'
<1> SUFFICES ASSUME IInv, [Next]_vars PROVE IInv'
  OBVIOUS
<1> USE DEF IInv, k8s, caches, rest, history
<1>t. /\ sys \in SystemObject /\ cs \in CobblerSystemObject
      /\ sysCache \in SystemObject /\ csCache \in CobblerSystemObject
      /\ swk \in SystemWorker /\ cwk \in CobblerWorker
      /\ swk.cs \in CobblerSystemObject /\ cwk.cs \in CobblerSystemObject
      /\ cwk.sys \in SystemObject /\ cwk.val \in Option
      /\ sys.ann \in Option /\ cs.ann \in Option
      /\ sysCache.ann \in Option /\ csCache.ann \in Option
      /\ swk.ann \in Option
  BY DEF TypeOK, SystemWorker, CobblerWorker, SystemObject, CobblerSystemObject
<1>e. Event => events' \in Nat
  BY DEF TypeOK, Event
<1>1. ASSUME NEW v \in Value, Annotate(v) PROVE IInv'
  <2> DEFINE new == [sys EXCEPT !.ann = v]
  <2>1. new \in SystemObject /\ new.ann = v /\ new # sys
    BY <1>t, <1>1 DEF Annotate, SystemObject, Option
  <2>2. /\ sys' \in SystemObject /\ sys'.ann = v
        /\ \A c \in SystemObject : CopyOf(c, sys) =>
              CopyOf(c, sys') /\ c.rv # sys'.rv
    <3>1. sys' = Stored(sys, new)
      BY <1>1 DEF Annotate
    <3> HIDE DEF new
    <3> QED BY <1>t, <2>1, <3>1, StoredSystem
  <2>3. TypeOK'
    <3>1. v \in Option /\ InFlight \in BOOLEAN
      BY DEF Option, InFlight
    <3> QED BY <1>1, <1>e, <2>2, <3>1 DEF Annotate, TypeOK
  <2>4. Copies'
    BY <1>t, <1>1, <2>2 DEF Annotate, Copies
  <2>5. Uncrossed' /\ Carries' /\ IntentKept'
    BY <1>t, <1>1, <2>2 DEF Annotate, Uncrossed, Carries, IntentKept, Pending,
                            InFlight, Copies
  <2> QED BY <2>3, <2>4, <2>5
<1>2. CASE Withdraw
  <2> DEFINE new == [sys EXCEPT !.ann = ""]
  <2>1. new \in SystemObject
    BY <1>t DEF SystemObject, Option
  <2>2. /\ sys' \in SystemObject
        /\ \A c \in SystemObject : CopyOf(c, sys) => CopyOf(c, sys')
    BY <1>t, <1>2, <2>1, StoredSystem DEF Withdraw
  <2>3. TypeOK'
    BY <1>2, <1>e, <2>2 DEF Withdraw, TypeOK, Option
  <2>4. Copies'
    BY <1>t, <1>2, <2>2 DEF Withdraw, Copies
  <2> QED BY <1>2, <2>3, <2>4 DEF Withdraw, Uncrossed, Carries, IntentKept,
                                  Pending
<1>3. CASE DeleteCobblerSystem
  <2>1. /\ cs' \in CobblerSystemObject /\ cs'.ann \in {"", cs.ann}
        /\ \A c \in CobblerSystemObject : CopyOf(c, cs) =>
              CopyOf(c, cs') /\ c.rv # cs'.rv
    <3>1. CASE cs.finalizer
      <4> DEFINE new == [cs EXCEPT !.life = "deleting"]
      <4>1. new \in CobblerSystemObject /\ new # cs /\ new.ann = cs.ann
        BY <1>t, <1>3 DEF DeleteCobblerSystem, CobblerSystemObject
      <4>2. cs' = Stored(cs, new)
        BY <1>3, <3>1 DEF DeleteCobblerSystem
      <4> HIDE DEF new
      <4>3. cs'.ann = cs.ann /\ cs' \in CobblerSystemObject
        BY <1>t, <4>1, <4>2, StoredCobblerSystem
      <4>4. \A c \in CobblerSystemObject : CopyOf(c, cs) =>
              CopyOf(c, cs') /\ c.rv # cs'.rv
        BY <1>t, <4>1, <4>2, StoredCobblerSystem
      <4> QED BY <4>3, <4>4
    <3>2. CASE ~cs.finalizer
      <4>1. cs' = [NoCobblerSystem EXCEPT !.rv = cs.rv + 1] /\ cs.rv \in Nat
        BY <1>t, <1>3, <3>2 DEF DeleteCobblerSystem, CobblerSystemObject
      <4>2. cs' \in CobblerSystemObject /\ cs'.ann = "" /\ cs'.rv = cs.rv + 1
        <5>1. cs' = [life |-> "none", finalizer |-> FALSE, found |-> FALSE,
                     ann |-> "", status |-> "", rv |-> cs.rv + 1]
          BY <4>1 DEF NoCobblerSystem
        <5>2. cs.rv + 1 \in Nat
          BY <4>1
        <5> QED BY <5>1, <5>2 DEF CobblerSystemObject, Option
      <4>3. \A c \in CobblerSystemObject : CopyOf(c, cs) =>
              CopyOf(c, cs') /\ c.rv # cs'.rv
        <5> SUFFICES ASSUME NEW c \in CobblerSystemObject, CopyOf(c, cs)
                     PROVE  CopyOf(c, cs') /\ c.rv # cs'.rv
          OBVIOUS
        <5>1. c.rv \in Nat /\ c.rv <= cs.rv
          BY DEF CobblerSystemObject, CopyOf
        <5>2. cs.rv \in Nat /\ cs'.rv = cs.rv + 1
          BY <4>1, <4>2
        <5> QED BY <5>1, <5>2 DEF CopyOf
      <4> QED BY <4>2, <4>3
    <3> QED BY <3>1, <3>2
  <2>2. TypeOK'
    BY <1>3, <1>e, <2>1 DEF DeleteCobblerSystem, TypeOK
  <2>3. Copies'
    BY <1>t, <1>3, <2>1 DEF DeleteCobblerSystem, Copies
  <2> QED BY <1>t, <1>3, <2>1, <2>2, <2>3
          DEF DeleteCobblerSystem, Uncrossed, Carries, IntentKept, Pending,
              Copies
<1>4. CASE SyncSystem \/ SyncCobblerSystem
  <2>1. TypeOK' /\ CopyOf(sysCache', sys) /\ CopyOf(csCache', cs)
    BY <1>t, <1>4, CopyOfItself DEF SyncSystem, SyncCobblerSystem, TypeOK, Copies
  <2>2. UNCHANGED <<sys, cs, cwk, swk, wanted, crossed>>
    BY <1>4 DEF SyncSystem, SyncCobblerSystem
  <2>3. Pending' => swk'.ann \in {"", wanted}
    BY <2>2 DEF Uncrossed, Pending
  <2>4. swk'.pc = "forward" => CopyOf(swk'.cs, cs)
    BY <2>2 DEF Copies
  <2> QED BY <2>1, <2>2, <2>3, <2>4, QuietStep
<1>5. CASE SystemPassFails
  <2>1. TypeOK'
    BY <1>5, <1>e, Constants DEF SystemPassFails, TypeOK
  <2> QED BY <1>t, <1>5, <2>1, Constants, QuietStep
          DEF SystemPassFails, Copies
<1>6. CASE CobblerPassFails
  <2>1. TypeOK'
    BY <1>6, <1>e, Constants DEF CobblerPassFails, TypeOK
  <2> QED BY <1>6, <2>1, Constants
          DEF CobblerPassFails, Copies, Uncrossed,
              Carries, IntentKept, Pending
<1>7. CASE Crash
  <2>1. TypeOK'
    BY <1>7, <1>e, Constants DEF Crash, TypeOK
  <2>2. Copies'
    BY <1>t, <1>7, Constants, CopyOfItself DEF Crash, Copies
  <2> QED BY <1>7, <2>1, <2>2, Constants
          DEF Crash, Uncrossed, Carries, IntentKept, Pending
<1>8. CASE BeginSystem
  <2>1. swk' \in SystemWorker /\ swk'.ann = sysCache.ann /\ swk'.pc = "create"
    BY <1>t, <1>8 DEF BeginSystem, SysIdle, SystemWorker, CobblerSystemObject,
                      NoCobblerSystem, Option
  <2>2. TypeOK'
    BY <1>8, <1>e, <2>1 DEF BeginSystem, TypeOK
  <2> QED BY <1>t, <1>8, <2>1, <2>2, QuietStep
          DEF BeginSystem, Copies, IntentKept, Pending, TypeOK
<1>9. CASE SystemPass
  <2>1. CASE CreateCobblerSystem
    <3>1. /\ cs' \in CobblerSystemObject /\ cs'.ann = cs.ann
          /\ \A c \in CobblerSystemObject : CopyOf(c, cs) =>
                CopyOf(c, cs') /\ (c.rv # cs.rv => c.rv # cs'.rv)
      BY <1>t, <2>1, StoredCobblerSystem
      DEF CreateCobblerSystem, CobblerSystemObject
    <3>2. /\ swk' \in SystemWorker /\ swk'.ann \in {"", swk.ann}
          /\ swk'.pc # "forward"
      BY <1>t, <2>1, Constants DEF CreateCobblerSystem, SystemWorker
    <3>3. TypeOK'
      BY <2>1, <3>1, <3>2 DEF CreateCobblerSystem, TypeOK
    <3>4. Copies'
      BY <1>t, <2>1, <3>1, <3>2 DEF CreateCobblerSystem, Copies
    <3>5. cs' # cs => \A c \in CobblerSystemObject : CopyOf(c, cs) => c.rv # cs'.rv
      <4> DEFINE new == [cs EXCEPT !.life = "live"]
      <4>1. new \in CobblerSystemObject /\ cs' \in {cs, Stored(cs, new)}
        BY <1>t, <2>1 DEF CreateCobblerSystem, CobblerSystemObject
      <4> HIDE DEF new
      <4> QED BY <1>t, <4>1, StoredCobblerSystem
    <3> QED BY <1>t, <2>1, <3>1, <3>2, <3>3, <3>4, <3>5
            DEF CreateCobblerSystem, Uncrossed, Carries, IntentKept,
                Pending, Copies
  <2>2. CASE ReadCobblerSystem
    <3>1. /\ swk' \in SystemWorker /\ swk'.ann \in {"", swk.ann}
          /\ swk'.pc = "forward" => swk'.cs = csCache
      BY <1>t, <2>2, Constants DEF ReadCobblerSystem, SystemWorker
    <3>2. TypeOK'
      BY <2>2, <3>1 DEF ReadCobblerSystem, TypeOK
    <3> QED BY <1>t, <2>2, <3>1, <3>2, QuietStep
            DEF ReadCobblerSystem, Copies, Uncrossed,
                Pending
  <2>3. CASE Forward
    <3>1. /\ cs' \in CobblerSystemObject /\ cs'.ann \in {cs.ann, swk.ann}
          /\ \A c \in CobblerSystemObject : CopyOf(c, cs) =>
                CopyOf(c, cs') /\ (c.rv # cs.rv => c.rv # cs'.rv)
          /\ cs' # cs =>
               \A c \in CobblerSystemObject : CopyOf(c, cs) => c.rv # cs'.rv
      <4> DEFINE new == [cs EXCEPT !.ann = swk.ann]
      <4>1. /\ new \in CobblerSystemObject /\ new.ann = swk.ann
            /\ cs' \in {cs, Stored(cs, new)}
        BY <1>t, <2>3 DEF Forward, CobblerSystemObject
      <4> HIDE DEF new
      <4> QED BY <1>t, <4>1, StoredCobblerSystem
    <3>2. TypeOK'
      BY <2>3, <3>1, Constants DEF Forward, TypeOK
    <3>3. Copies'
      BY <1>t, <2>3, <3>1, Constants DEF Forward, Copies
    <3> QED BY <1>t, <2>3, <3>1, <3>2, <3>3, Constants
            DEF Forward, Uncrossed, Carries, IntentKept, Pending,
                Copies
  <2> QED BY <1>9, <2>1, <2>2, <2>3 DEF SystemPass
<1>10. CASE BeginCobbler
  <2>1. /\ cwk' \in CobblerWorker /\ cwk'.cs = csCache
        /\ cwk'.pc \in {"remove", "finalizer", "apply", "upsert"}
        /\ cwk'.pc = "apply" => cwk'.val = csCache.ann /\ csCache.ann # ""
    BY <1>t, <1>10, Constants DEF BeginCobbler, CobblerStep, CsIdle,
                                  CobblerWorker, Option
  <2>2. TypeOK'
    BY <1>10, <1>e, <2>1 DEF BeginCobbler, TypeOK
  <2>3. Copies'
    BY <1>10, <2>1 DEF BeginCobbler, Copies
  <2>4. UNCHANGED <<sys, cs, swk, wanted, crossed>>
    BY <1>10 DEF BeginCobbler
  <2>5. cwk'.pc = "apply" => cwk'.val \in Value
    BY <1>t, <2>1 DEF Option
  <2>6. Pending /\ cwk'.pc = "apply" /\ csCache.rv = cs.rv => cwk'.val = wanted
    BY <2>1 DEF Copies, CopyOf, Uncrossed
  <2>7. Carries'
    BY <2>1, <2>4, <2>5, <2>6 DEF Carries, Pending
  <2> QED BY <2>2, <2>3, <2>4, <2>7 DEF Uncrossed, IntentKept, Pending
<1>11. CASE CobblerPass
  BY <1>11, CobblerPassKeeps
<1>12. CASE UNCHANGED vars
  BY <1>12, ZenonT(60) DEF vars, TypeOK, Copies, Uncrossed, Carries, IntentKept, Pending
<1> QED BY <1>1, <1>2, <1>3, <1>4, <1>5, <1>6, <1>7, <1>8, <1>9, <1>10, <1>11,
           <1>12 DEF Next

\* The invariant holds in every reachable state.
LEMMA InvariantHolds == Spec => []IInv
BY InvariantInit, InvariantStep, PTL DEF Spec

----------------------------------------------------------------------------
(* Theorems.                                                               *)

\* The objects, their cached copies and both workers keep their types, however
\* the two controllers, the informers, crashes and the user interleave.
THEOREM NetbootTypeOK == Spec => []TypeOK
<1>1. IInv => TypeOK
  BY DEF IInv
<1> QED BY <1>1, InvariantHolds, PTL

\* For every number of disturbances, and whether or not Cobbler saves a bare
\* record: the annotation leaves the System only after its value was applied,
\* unless another value was on its way.
THEOREM NetbootIntentKept == Spec => []IntentKept
<1>1. IInv => IntentKept
  BY DEF IInv
<1> QED BY <1>1, InvariantHolds, PTL

----------------------------------------------------------------------------
(* StatusAgrees.  Between two requests of the user one value is current: the *)
(* annotation of the System, or, once that is stripped, its status.  Every   *)
(* copy, carried value and status that can still win names that value.       *)

Current == IF sys.ann # "" THEN sys.ann ELSE sys.status

\* The steps of the pass that carries a value, by what they still have to do.
Applying == {"apply", "status"}
Noting == {"strip", "parent"}
Telling == {"parentStatus", "parentStrip"}

\* A CobblerSystem that is being deleted was asked to go.
Removed == (\/ cs.life = "deleting" \/ csCache.life = "deleting"
            \/ cwk.cs.life = "deleting" \/ cwk.pc \in {"remove", "release"})
           => recreated

\* What the pass has behind it: the record, the CobblerSystem's status and
\* the System's status have the value it carries.
Noted ==
    /\ cwk.pc \in {"status"} \cup Noting \cup Telling => cobbler = cwk.val
    /\ cwk.pc \in Noting \cup Telling => cs.status = cwk.val \/ recreated
    /\ (cwk.pc = "parentStrip" /\ cwk.sys.rv = sys.rv) => sys.status = cwk.val
    /\ cwk.pc = "apply" => cwk.val = cwk.cs.ann

\* The pass carries its value on versions that are still stored.
OnCurrent == \/ cwk.pc \in Applying /\ cwk.cs.rv = cs.rv
             \/ cwk.pc \in Noting
             \/ cwk.pc \in Telling /\ cwk.sys.rv = sys.rv

\* Once the System's annotation is gone, only its value is left.
Told == /\ sys.status = cs.status
        /\ cs.status # "" => cobbler = cs.status
        /\ csCache.ann \in {"", Current}
        /\ cwk.pc \in Applying \cup Noting \cup Telling => cwk.val = Current

OneValue == ~crossed /\ ~recreated =>
    /\ cs.ann \in {"", Current} /\ swk.ann \in {"", Current}
    /\ OnCurrent => cwk.val = Current /\ csCache.ann \in {"", Current}
    /\ sys.ann = "" => Told

SInv == Removed /\ Noted /\ OneValue

\* Storing an object changes its number only.
LEMMA StoredFields ==
    /\ \A old \in SystemObject, new \in SystemObject :
         /\ Stored(old, new).ann = new.ann
         /\ Stored(old, new).status = new.status
         /\ Stored(old, new) # old => Stored(old, new).rv > old.rv
         /\ new # old => Stored(old, new) # old
    /\ \A old \in CobblerSystemObject, new \in CobblerSystemObject :
         /\ Stored(old, new).ann = new.ann
         /\ Stored(old, new).status = new.status
         /\ Stored(old, new).life = new.life
         /\ Stored(old, new) # old => Stored(old, new).rv > old.rv
BY DEF Stored, SystemObject, CobblerSystemObject

\* Nothing is wanted and nothing carried at the start.
LEMMA StatusInit == Init => SInv
<1> SUFFICES ASSUME Init PROVE SInv
  OBVIOUS
<1> USE DEF Init, NewSystem, NoCobblerSystem, SysIdle, CsIdle
<1>1. Removed
  BY DEF Removed
<1>2. Noted
  BY DEF Noted, Noting, Telling
<1>3. Current = "" /\ ~OnCurrent
  BY DEF Current, OnCurrent, Applying, Noting, Telling
<1>4. Told
  BY <1>3 DEF Told, Applying, Noting, Telling
<1>5. OneValue
  BY <1>3, <1>4 DEF OneValue
<1> QED BY <1>1, <1>2, <1>5 DEF SInv

\* A new request makes its value current and finds nothing else on its way.
LEMMA AnnotateKeepsStatus ==
    ASSUME IInv, SInv, NEW v \in Value, Annotate(v) PROVE SInv'
<1> DEFINE new == [sys EXCEPT !.ann = v]
<1>t. sys \in SystemObject /\ cwk.sys \in SystemObject
  BY DEF IInv, TypeOK, CobblerWorker
<1>1. new \in SystemObject /\ new.ann = v /\ new # sys /\ v # ""
  BY <1>t DEF Annotate, SystemObject, Option, Value
<1>2. sys' = Stored(sys, new)
  BY DEF Annotate
<1> HIDE DEF new
<1>3. sys'.ann = v /\ sys'.rv > sys.rv
  BY <1>t, <1>1, <1>2, StoredFields
<1>4. cwk.pc \in Telling => cwk.sys.rv # sys'.rv
  BY <1>t, <1>3 DEF IInv, Copies, CopyOf, Telling, SystemObject
<1>5. UNCHANGED <<cs, csCache, cobbler, swk, cwk, recreated>> /\ crossed' = InFlight
  BY DEF Annotate, caches
<1>6. Removed' /\ Noted'
  BY <1>4, <1>5 DEF SInv, Removed, Noted, Telling
<1>7. OneValue'
  BY <1>1, <1>3, <1>4, <1>5 DEF OneValue, InFlight, OnCurrent, Current,
                                Applying, Noting
<1> QED BY <1>6, <1>7 DEF SInv

\* A request withdrawn, or a CobblerSystem deleted, sets its mark.
LEMMA DisturbanceKeepsStatus ==
    ASSUME IInv, SInv, Withdraw \/ DeleteCobblerSystem PROVE SInv'
<1>t. sys \in SystemObject /\ cwk.sys \in SystemObject
  BY DEF IInv, TypeOK, CobblerWorker
<1>1. CASE Withdraw
  <2> DEFINE new == [sys EXCEPT !.ann = ""]
  <2>1. new \in SystemObject /\ new # sys
    BY <1>t, <1>1 DEF Withdraw, SystemObject, Option
  <2>2. sys' = Stored(sys, new)
    BY <1>1 DEF Withdraw
  <2> HIDE DEF new
  <2>3. sys'.rv > sys.rv
    BY <1>t, <2>1, <2>2, StoredFields
  <2>4. cwk.pc \in Telling => cwk.sys.rv # sys'.rv
    BY <1>t, <2>3 DEF IInv, Copies, CopyOf, Telling, SystemObject
  <2> QED BY <1>1, <2>4 DEF Withdraw, SInv, Removed, Noted, OneValue, caches,
                            Telling
<1>2. CASE DeleteCobblerSystem
  BY <1>2 DEF DeleteCobblerSystem, SInv, Removed, Noted, OneValue, caches
<1> QED BY <1>1, <1>2

\* A step of neither pass: informers, failures, a restart.
LEMMA InfrastructureKeepsStatus ==
    ASSUME IInv, SInv,
           \/ SyncSystem \/ SyncCobblerSystem \/ SystemPassFails
           \/ CobblerPassFails \/ Crash
    PROVE  SInv'
<1> USE DEF k8s, caches, rest, history
<1>1. /\ UNCHANGED <<sys, cs, cobbler, crossed, recreated>>
      /\ csCache' \in {csCache, cs}
      /\ swk' = swk \/ swk' = SysIdle
      /\ cwk' = cwk \/ cwk' = CsIdle
  BY DEF SyncSystem, SyncCobblerSystem, SystemPassFails, CobblerPassFails, Crash
<1>2. SysIdle.ann = "" /\ CsIdle.pc = "idle" /\ CsIdle.cs.life = "none"
  BY DEF SysIdle, CsIdle, NoCobblerSystem
<1>3. Removed' /\ Noted'
  BY <1>1, <1>2 DEF SInv, Removed, Noted, Noting, Telling
<1>4. OnCurrent' => OnCurrent
  BY <1>1, <1>2 DEF OnCurrent, Applying, Noting, Telling
<1>5. Current' = Current
  BY <1>1 DEF Current
<1>6. OneValue'
  <2> SUFFICES ASSUME ~crossed', ~recreated'
               PROVE  /\ cs'.ann \in {"", Current'} /\ swk'.ann \in {"", Current'}
                      /\ OnCurrent' => /\ cwk'.val = Current'
                                       /\ csCache'.ann \in {"", Current'}
                      /\ sys'.ann = "" => Told'
    BY DEF OneValue
  <2>1. /\ cs.ann \in {"", Current} /\ swk.ann \in {"", Current}
        /\ OnCurrent => cwk.val = Current /\ csCache.ann \in {"", Current}
        /\ sys.ann = "" => Told
    BY <1>1 DEF SInv, OneValue
  <2>2. cwk'.pc \in Applying \cup Noting \cup Telling => cwk' = cwk
    BY <1>1, <1>2 DEF Applying, Noting, Telling
  <2>3. OnCurrent' => cwk' = cwk
    BY <2>2 DEF OnCurrent
  <2>4. sys.ann = "" => Told'
    BY <1>1, <1>5, <2>1, <2>2 DEF Told
  <2> QED BY <1>1, <1>2, <1>4, <1>5, <2>1, <2>3, <2>4
<1> QED BY <1>3, <1>6 DEF SInv

\* A System pass on a copy that lags is crossed unless it carries the current
\* value; the two writes it makes keep the CobblerSystem's status.
LEMMA SystemPassKeepsStatus ==
    ASSUME IInv, SInv, BeginSystem \/ SystemPass PROVE SInv'
<1> USE DEF k8s, caches, rest, history
<1>t. /\ cs \in CobblerSystemObject /\ cwk.cs \in CobblerSystemObject
      /\ swk \in SystemWorker /\ cs.rv \in Nat /\ cwk.cs.rv \in Nat
      /\ swk.ann \in Option
  BY DEF IInv, TypeOK, CobblerWorker, SystemWorker, CobblerSystemObject
<1>1. CASE BeginSystem
  <2>1. /\ UNCHANGED <<sys, cs, csCache, cobbler, cwk, recreated>>
        /\ crossed' = (crossed \/ sysCache.ann \notin {"", sys.ann})
        /\ swk'.ann = sysCache.ann
    BY <1>1 DEF BeginSystem, SysIdle
  <2>2. Removed' /\ Noted'
    BY <2>1 DEF SInv, Removed, Noted
  <2>3. Current' = Current /\ OnCurrent' = OnCurrent
    BY <2>1 DEF Current, OnCurrent
  <2>4. ~crossed' => swk'.ann \in {"", Current'}
    BY <2>1, <2>3 DEF Current
  <2>5. OneValue'
    BY <2>1, <2>3, <2>4 DEF SInv, OneValue, Told
  <2> QED BY <2>2, <2>5 DEF SInv
<1>2. CASE SystemPass
  <2>1. UNCHANGED <<sys, csCache, cobbler, cwk, crossed, recreated>>
    BY <1>2 DEF SystemPass, CreateCobblerSystem, ReadCobblerSystem, Forward
  <2>2. swk'.ann \in {"", swk.ann}
    <3>1. SysIdle.ann = ""
      BY DEF SysIdle
    <3>2. \/ swk' \in {swk, SysIdle} \/ swk' = [swk EXCEPT !.pc = "read"]
          \/ swk' = [swk EXCEPT !.pc = "forward", !.cs = csCache]
      BY <1>2 DEF SystemPass, CreateCobblerSystem, ReadCobblerSystem, Forward
    <3> QED BY <1>t, <3>1, <3>2 DEF SystemWorker
  <2>3. /\ cs'.ann \in {"", cs.ann, swk.ann} /\ cs'.status = cs.status
        /\ cs'.life = "deleting" => cs.life = "deleting"
        /\ cs' # cs => cs'.rv > cs.rv
    <3>1. CASE CreateCobblerSystem
      <4> DEFINE new == [cs EXCEPT !.life = "live"]
      <4>1. /\ new \in CobblerSystemObject /\ new.ann = cs.ann
            /\ new.status = cs.status /\ new.life = "live"
            /\ cs' \in {cs, Stored(cs, new)}
        BY <1>t, <3>1 DEF CreateCobblerSystem, CobblerSystemObject
      <4> HIDE DEF new
      <4>2. /\ Stored(cs, new).ann = new.ann
            /\ Stored(cs, new).status = new.status
            /\ Stored(cs, new).life = new.life
            /\ Stored(cs, new) # cs => Stored(cs, new).rv > cs.rv
        BY <1>t, <4>1, StoredFields
      <4> QED BY <4>1, <4>2
    <3>2. CASE ReadCobblerSystem
      BY <3>2 DEF ReadCobblerSystem
    <3>3. CASE Forward
      <4> DEFINE new == [cs EXCEPT !.ann = swk.ann]
      <4>1. /\ new \in CobblerSystemObject /\ new.ann = swk.ann
            /\ new.status = cs.status /\ new.life = cs.life
            /\ cs' \in {cs, Stored(cs, new)}
        BY <1>t, <3>3 DEF Forward, CobblerSystemObject
      <4> HIDE DEF new
      <4>2. /\ Stored(cs, new).ann = new.ann
            /\ Stored(cs, new).status = new.status
            /\ Stored(cs, new).life = new.life
            /\ Stored(cs, new) # cs => Stored(cs, new).rv > cs.rv
        BY <1>t, <4>1, StoredFields
      <4> QED BY <4>1, <4>2
    <3> QED BY <1>2, <3>1, <3>2, <3>3 DEF SystemPass
  <2>4. Current' = Current
    BY <2>1 DEF Current
  <2>5. OnCurrent' => OnCurrent
    <3>1. cwk.pc \in Applying /\ cwk.cs.rv = cs'.rv => cwk.cs.rv = cs.rv
      <4>1. cwk.pc \in Applying => cwk.cs.rv <= cs.rv
        BY DEF IInv, Copies, CopyOf, Applying
      <4>2. cwk.pc \in Applying /\ cwk.cs.rv = cs'.rv => ~(cs'.rv > cs.rv)
        BY <1>t, <4>1
      <4> QED BY <2>3, <4>2
    <3> QED BY <2>1, <3>1 DEF OnCurrent
  <2>6. Removed' /\ Noted'
    BY <2>1, <2>3 DEF SInv, Removed, Noted
  <2>7. OneValue'
    BY <2>1, <2>2, <2>3, <2>4, <2>5 DEF SInv, OneValue, Told
  <2> QED BY <2>6, <2>7 DEF SInv
<1> QED BY <1>1, <1>2

\* A CobblerSystem pass carries the annotation of the copy it starts from.
LEMMA BeginCobblerKeepsStatus ==
    ASSUME IInv, SInv, BeginCobbler PROVE SInv'
<1>1. UNCHANGED <<sys, cs, csCache, cobbler, swk, crossed, recreated>>
  BY DEF BeginCobbler, k8s, caches, rest, history
<1>2. /\ cwk'.cs = csCache
      /\ cwk'.pc \in {"remove", "finalizer", "apply", "upsert"}
      /\ cwk'.pc = "remove" => csCache.life = "deleting"
      /\ cwk'.pc = "apply" => cwk'.val = csCache.ann /\ csCache.ann # ""
  BY DEF BeginCobbler, CobblerStep, CsIdle
<1>3. Removed' /\ Noted'
  BY <1>1, <1>2 DEF SInv, Removed, Noted, Noting, Telling
<1>4. Current' = Current
  BY <1>1 DEF Current
<1>5. OnCurrent' => cwk'.pc = "apply" /\ csCache = cs
  BY <1>1, <1>2 DEF OnCurrent, Applying, Noting, Telling, IInv, Copies, CopyOf
<1>6. ~crossed' /\ ~recreated' /\ OnCurrent' =>
        cwk'.val = Current' /\ csCache'.ann \in {"", Current'}
  BY <1>1, <1>2, <1>4, <1>5 DEF SInv, OneValue
<1>7. ~crossed' /\ ~recreated' /\ sys'.ann = "" => Told'
  <2> SUFFICES ASSUME ~crossed', ~recreated', sys'.ann = "" PROVE Told'
    OBVIOUS
  <2>1. Told
    BY <1>1 DEF SInv, OneValue
  <2>2. cwk'.pc \in Applying \cup Noting \cup Telling => cwk'.pc = "apply"
    BY <1>2 DEF Applying, Noting, Telling
  <2>3. cwk'.pc = "apply" => cwk'.val = Current'
    BY <1>2, <1>4, <2>1 DEF Told
  <2> QED BY <1>1, <1>4, <2>1, <2>2, <2>3 DEF Told
<1>8. OneValue'
  BY <1>1, <1>4, <1>6, <1>7 DEF SInv, OneValue
<1> QED BY <1>3, <1>8 DEF SInv

\* A pass that ends without writing, because of a conflict or a missing record.
LEMMA PassEndsKeepsStatus ==
    ASSUME IInv, SInv, cwk' = CsIdle,
           UNCHANGED <<sys, cs, csCache, cobbler, swk, crossed, recreated>>
    PROVE  SInv'
<1>1. CsIdle.pc = "idle" /\ CsIdle.cs.life = "none"
  BY DEF CsIdle, NoCobblerSystem
<1>2. Removed' /\ Noted'
  BY <1>1 DEF SInv, Removed, Noted, Noting, Telling
<1>3. Current' = Current
  BY DEF Current
<1>4. OnCurrent' = FALSE
  BY <1>1 DEF OnCurrent, Applying, Noting, Telling
<1>5. cwk'.pc \notin Applying \cup Noting \cup Telling
  BY <1>1 DEF Applying, Noting, Telling
<1>6. OneValue'
  BY <1>3, <1>4, <1>5 DEF SInv, OneValue, Told
<1> QED BY <1>2, <1>6 DEF SInv

\* A write of the CobblerSystem pass to its own object.
LEMMA SavedForm ==
    ASSUME IInv, NEW new \in CobblerSystemObject, NEW next, SaveCs(new, next),
           cwk.pc # "idle", ~Conflict
    PROVE  /\ cs = cwk.cs
           /\ cs'.ann = new.ann /\ cs'.status = new.status /\ cs'.life = new.life
           /\ next = "idle" => cwk' = CsIdle
           /\ next # "idle" => cwk'.pc = next /\ cwk'.cs = cs' /\ cwk'.val = cwk.val
<1>1. cs = cwk.cs
  BY DEF Conflict, IInv, Copies, CopyOf
<1>2. cs' = Stored(cs, new)
  BY DEF SaveCs
<1>3. cs \in CobblerSystemObject /\ cwk \in CobblerWorker
  BY DEF IInv, TypeOK
<1>4. cs'.ann = new.ann /\ cs'.status = new.status /\ cs'.life = new.life
  BY <1>2, <1>3, StoredFields
<1>5. next = "idle" => cwk' = CsIdle
  BY DEF SaveCs
<1>6. next # "idle" => cwk'.pc = next /\ cwk'.cs = cs' /\ cwk'.val = cwk.val
  <2>1. next # "idle" => cwk' = [cwk EXCEPT !.pc = next, !.cs = cs']
    BY <1>2 DEF SaveCs
  <2> QED BY <1>3, <2>1 DEF CobblerWorker
<1> QED BY <1>1, <1>4, <1>5, <1>6

\* The steps of a CobblerSystem pass up to the record.
LEMMA RecordStepsKeepStatus ==
    ASSUME IInv, SInv,
           \/ AddFinalizer \/ NoteReady \/ UpsertSystem \/ SetNetboot
           \/ RemoveSystem \/ ReleaseCobblerSystem
    PROVE  SInv'
<1> USE DEF k8s, caches, rest, history
<1>t. /\ cs \in CobblerSystemObject /\ cwk \in CobblerWorker
      /\ cwk.cs \in CobblerSystemObject /\ cs.status \in Option
      /\ "none" \notin Option
  BY DEF IInv, TypeOK, CobblerWorker, CobblerSystemObject, Option, Value
<1>c. CsIdle.pc = "idle" /\ CsIdle.cs.life = "none"
  BY DEF CsIdle, NoCobblerSystem
<1>1. CASE AddFinalizer \/ NoteReady
  <2> DEFINE new == IF cwk.pc = "finalizer" THEN [cwk.cs EXCEPT !.finalizer = TRUE]
                    ELSE [cwk.cs EXCEPT !.found = TRUE]
  <2>0. /\ new \in CobblerSystemObject /\ new.ann = cwk.cs.ann
        /\ new.status = cwk.cs.status /\ new.life = cwk.cs.life
    BY <1>t DEF CobblerSystemObject
  <2>s. SaveCs(new, "idle")
    BY <1>1 DEF AddFinalizer, NoteReady
  <2> HIDE DEF new
  <2>1. UNCHANGED <<sys, csCache, cobbler, swk, crossed, recreated>> /\ cwk.pc # "idle"
    BY <1>1 DEF AddFinalizer, NoteReady
  <2>2. CASE Conflict
    BY <2>1, <2>2, <2>s, PassEndsKeepsStatus DEF SaveCs
  <2>3. CASE ~Conflict
    <3>1. /\ cs'.ann = cs.ann /\ cs'.status = cs.status /\ cs'.life = cs.life
          /\ cwk' = CsIdle
      BY <2>0, <2>1, <2>3, <2>s, SavedForm
    <3>2. Current' = Current /\ cwk'.pc \notin Applying \cup Noting \cup Telling
      BY <1>c, <2>1, <3>1 DEF Current, Applying, Noting, Telling
    <3>3. OnCurrent' = FALSE
      BY <3>2 DEF OnCurrent
    <3>4. Removed' /\ Noted'
      BY <1>c, <2>1, <3>1 DEF SInv, Removed, Noted, Noting, Telling
    <3>5. OneValue'
      BY <2>1, <3>1, <3>2, <3>3 DEF SInv, OneValue, Told
    <3> QED BY <3>4, <3>5 DEF SInv
  <2> QED BY <2>2, <2>3
<1>2. CASE UpsertSystem
  <2>1. /\ UNCHANGED <<sys, cs, csCache, swk, crossed, recreated>>
        /\ cobbler # "none" => cobbler' = cobbler
        /\ cwk'.pc = "ready" /\ cwk'.cs = cwk.cs
    BY <1>t, <1>2 DEF UpsertSystem, CobblerWorker
  <2>2. Removed' /\ Noted'
    BY <2>1 DEF SInv, Removed, Noted, Noting, Telling
  <2>3. /\ Current' = Current /\ OnCurrent' = FALSE
        /\ cwk'.pc \notin Applying \cup Noting \cup Telling
    BY <2>1 DEF Current, OnCurrent, Applying, Noting, Telling
  <2>4. Told => Told'
    BY <1>t, <2>1, <2>3 DEF Told
  <2>5. OneValue'
    BY <2>1, <2>3, <2>4 DEF SInv, OneValue
  <2> QED BY <2>2, <2>5 DEF SInv
<1>3. CASE SetNetboot
  <2>0. UNCHANGED <<sys, cs, csCache, swk, crossed, recreated>> /\ cwk.pc = "apply"
    BY <1>3 DEF SetNetboot
  <2>1. CASE cobbler = "none" /\ ~savesBareRecord
    BY <1>3, <2>0, <2>1, PassEndsKeepsStatus DEF SetNetboot
  <2>2. CASE ~(cobbler = "none" /\ ~savesBareRecord)
    <3>1. cobbler' = cwk.val /\ cwk' = [cwk EXCEPT !.pc = "status"]
      BY <1>3, <2>2 DEF SetNetboot
    <3>2. cwk'.pc = "status" /\ cwk'.val = cwk.val /\ cwk'.cs = cwk.cs
      BY <1>t, <3>1 DEF CobblerWorker
    <3>3. Removed' /\ Noted'
      BY <2>0, <3>1, <3>2 DEF SInv, Removed, Noted, Noting, Telling
    <3>4. Current' = Current /\ (OnCurrent' => OnCurrent)
      BY <2>0, <3>2 DEF Current, OnCurrent, Applying, Noting, Telling
    <3>5. sys.ann = "" /\ Told => Told'
      BY <2>0, <3>1, <3>2, <3>4 DEF Told, Applying, Current
    <3>6. OneValue'
      BY <2>0, <3>2, <3>4, <3>5 DEF SInv, OneValue
    <3> QED BY <3>3, <3>6 DEF SInv
  <2> QED BY <2>1, <2>2
<1>4. CASE RemoveSystem
  <2>1. /\ UNCHANGED <<sys, cs, csCache, swk, crossed, recreated>>
        /\ recreated /\ cwk'.pc = "release"
    BY <1>t, <1>4 DEF RemoveSystem, CobblerWorker, SInv, Removed
  <2> QED BY <2>1 DEF SInv, Removed, Noted, OneValue, Noting, Telling
<1>5. CASE ReleaseCobblerSystem
  <2>1. /\ UNCHANGED <<sys, csCache, cobbler, swk, crossed, recreated>>
        /\ recreated /\ cwk' = CsIdle
    BY <1>5 DEF ReleaseCobblerSystem, SInv, Removed, SaveCs
  <2> QED BY <1>c, <2>1 DEF SInv, Removed, Noted, OneValue, Noting, Telling
<1> QED BY <1>1, <1>2, <1>3, <1>4, <1>5

\* The pass notes the value it has applied on its own object and strips it.
LEMMA NotingKeepsStatus ==
    ASSUME IInv, SInv, NoteApplied \/ StripCobblerSystem PROVE SInv'
<1> USE DEF k8s, caches, rest, history
<1>t. cwk.cs \in CobblerSystemObject /\ cwk.val \in Option
  BY DEF IInv, TypeOK, CobblerWorker
<1>0. UNCHANGED <<sys, csCache, cobbler, swk, crossed, recreated>> /\ cwk.pc # "idle"
  BY DEF NoteApplied, StripCobblerSystem
<1>1. CASE Conflict
  BY <1>0, <1>1, PassEndsKeepsStatus DEF NoteApplied, StripCobblerSystem, SaveCs
<1>2. CASE ~Conflict /\ NoteApplied
  <2> DEFINE new == [cwk.cs EXCEPT !.status = cwk.val]
  <2>1. /\ new \in CobblerSystemObject /\ new.status = cwk.val
        /\ new.ann = cwk.cs.ann /\ new.life = cwk.cs.life
    BY <1>t DEF CobblerSystemObject
  <2>2. SaveCs(new, "strip") /\ cwk.pc = "status"
    BY <1>2 DEF NoteApplied
  <2> HIDE DEF new
  <2>3. /\ cs = cwk.cs
        /\ cs'.ann = cs.ann /\ cs'.status = cwk.val /\ cs'.life = cs.life
        /\ cwk'.pc = "strip" /\ cwk'.cs = cs' /\ cwk'.val = cwk.val
    BY <1>0, <1>2, <2>1, <2>2, SavedForm
  <2>4. OnCurrent /\ Current' = Current
    BY <1>0, <2>2, <2>3 DEF OnCurrent, Applying, Current
  <2>5. Removed' /\ Noted'
    BY <1>0, <2>2, <2>3 DEF SInv, Removed, Noted, Noting, Telling
  <2>6. OneValue /\ cobbler = cwk.val
    BY <2>2 DEF SInv, Noted
  <2>7. cwk.val = Current /\ sys.ann = "" /\ Told => Told'
    BY <1>0, <2>3, <2>4, <2>6 DEF Told, Current
  <2>8. OneValue'
    BY <1>0, <2>3, <2>4, <2>6, <2>7 DEF OneValue
  <2> QED BY <2>5, <2>8 DEF SInv
<1>3. CASE ~Conflict /\ StripCobblerSystem
  <2> DEFINE new == [cwk.cs EXCEPT !.ann = ""]
  <2>1. /\ new \in CobblerSystemObject /\ new.status = cwk.cs.status
        /\ new.ann = "" /\ new.life = cwk.cs.life
    BY <1>t DEF CobblerSystemObject, Option
  <2>2. SaveCs(new, "parent") /\ cwk.pc = "strip"
    BY <1>3 DEF StripCobblerSystem
  <2> HIDE DEF new
  <2>3. /\ cs = cwk.cs
        /\ cs'.ann = "" /\ cs'.status = cs.status /\ cs'.life = cs.life
        /\ cwk'.pc = "parent" /\ cwk'.cs = cs' /\ cwk'.val = cwk.val
    <3>1. /\ cs = cwk.cs
          /\ cs'.ann = new.ann /\ cs'.status = new.status /\ cs'.life = new.life
          /\ "parent" # "idle" => /\ cwk'.pc = "parent" /\ cwk'.cs = cs'
                                 /\ cwk'.val = cwk.val
      BY <1>0, <1>3, <2>1, <2>2, SavedForm
    <3> QED BY <2>1, <3>1
  <2>4. OnCurrent /\ Current' = Current
    BY <1>0, <2>2, <2>3 DEF OnCurrent, Noting, Current
  <2>5. Removed' /\ Noted'
    BY <1>0, <2>2, <2>3 DEF SInv, Removed, Noted, Noting, Telling
  <2>6. cwk.val = Current /\ Told => Told'
    BY <1>0, <2>3, <2>4 DEF Told
  <2>7. OneValue'
    BY <1>0, <2>3, <2>4, <2>6 DEF SInv, OneValue
  <2> QED BY <2>5, <2>7 DEF SInv
<1> QED BY <1>1, <1>2, <1>3

\* The pass tells the System: its status first, then its annotation goes.
LEMMA TellingKeepsStatus ==
    ASSUME IInv, SInv, ReadParent \/ NoteParent \/ StripParent PROVE SInv'
<1> USE DEF k8s, caches, rest, history
<1>t. sys \in SystemObject /\ cwk \in CobblerWorker /\ cwk.val \in Option
  BY DEF IInv, TypeOK, CobblerWorker
<1>c. CsIdle.pc = "idle" /\ CsIdle.cs.life = "none"
  BY DEF CsIdle, NoCobblerSystem
<1>0. UNCHANGED <<cs, csCache, cobbler, swk, crossed, recreated>>
  BY DEF ReadParent, NoteParent, StripParent
<1>1. CASE ReadParent
  <2>1. /\ sys' = sys /\ cwk.pc = "parent" /\ cwk'.pc = "parentStatus"
        /\ cwk'.cs = cwk.cs /\ cwk'.val = cwk.val
    BY <1>t, <1>1 DEF ReadParent, CobblerWorker
  <2>2. OnCurrent /\ Current' = Current
    BY <2>1 DEF OnCurrent, Noting, Current
  <2>3. Removed' /\ Noted'
    BY <1>0, <2>1 DEF SInv, Removed, Noted, Noting, Telling
  <2>4. cwk.val = Current /\ Told => Told'
    BY <1>0, <2>1, <2>2 DEF Told
  <2>5. OneValue'
    BY <1>0, <2>1, <2>2, <2>4 DEF SInv, OneValue
  <2> QED BY <2>3, <2>5 DEF SInv
<1>2. CASE NoteParent
  <2>1. CASE sys.rv # cwk.sys.rv
    BY <1>0, <1>2, <2>1, PassEndsKeepsStatus DEF NoteParent
  <2>2. CASE sys.rv = cwk.sys.rv
    <3> DEFINE new == [sys EXCEPT !.status = cwk.val]
    <3>1. new \in SystemObject /\ new.ann = sys.ann /\ new.status = cwk.val
      BY <1>t DEF SystemObject
    <3>2. /\ cwk.pc = "parentStatus" /\ sys' = Stored(sys, new)
          /\ cwk' = IF sys'.ann = "" THEN CsIdle
                    ELSE [cwk EXCEPT !.pc = "parentStrip", !.sys = sys']
      BY <1>2, <2>2 DEF NoteParent
    <3> HIDE DEF new
    <3>3. sys'.ann = sys.ann /\ sys'.status = cwk.val
      BY <1>t, <3>1, <3>2, StoredFields
    <3>4. /\ sys.ann = "" => cwk' = CsIdle
          /\ sys.ann # "" => /\ cwk'.pc = "parentStrip" /\ cwk'.cs = cwk.cs
                             /\ cwk'.val = cwk.val /\ cwk'.sys = sys'
      BY <1>t, <3>2, <3>3 DEF CobblerWorker
    <3>5. OnCurrent
      BY <2>2, <3>2 DEF OnCurrent, Telling
    <3>6. cwk.val = Current => Current' = Current
      BY <3>3 DEF Current
    <3>7. Removed'
      BY <1>0, <1>c, <3>2, <3>4 DEF SInv, Removed
    <3>8. Noted'
      BY <1>0, <1>c, <3>2, <3>3, <3>4 DEF SInv, Noted, Noting, Telling
    <3>9. /\ cobbler = cwk.val
          /\ ~recreated => cs.status = cwk.val
      BY <3>2 DEF SInv, Noted, Telling
    <3>10. cwk.val = Current /\ sys.ann = "" /\ Told /\ ~recreated => Told'
      BY <1>0, <1>c, <3>3, <3>4, <3>6, <3>9
      DEF Told, Applying, Noting, Telling
    <3>11. OnCurrent' => sys.ann # ""
      BY <1>c, <3>4 DEF OnCurrent, Applying, Noting, Telling
    <3>12. OneValue'
      BY <1>0, <3>3, <3>4, <3>5, <3>6, <3>10, <3>11 DEF SInv, OneValue
    <3> QED BY <3>7, <3>8, <3>12 DEF SInv
  <2> QED BY <2>1, <2>2
<1>3. CASE StripParent
  <2>1. CASE sys.rv # cwk.sys.rv
    BY <1>0, <1>3, <2>1, PassEndsKeepsStatus DEF StripParent
  <2>2. CASE sys.rv = cwk.sys.rv
    <3> DEFINE new == [sys EXCEPT !.ann = ""]
    <3>1. new \in SystemObject /\ new.ann = "" /\ new.status = sys.status
      BY <1>t DEF SystemObject, Option
    <3>2. cwk.pc = "parentStrip" /\ sys' = Stored(sys, new) /\ cwk' = CsIdle
      BY <1>3, <2>2 DEF StripParent
    <3> HIDE DEF new
    <3>3. sys'.ann = "" /\ sys'.status = sys.status
      BY <1>t, <3>1, <3>2, StoredFields
    <3>4. /\ OnCurrent /\ sys.status = cwk.val /\ cobbler = cwk.val
          /\ ~recreated => cs.status = cwk.val
      BY <2>2, <3>2 DEF OnCurrent, Telling, SInv, Noted
    <3>5. cwk.val = Current => Current' = Current
      BY <3>3, <3>4 DEF Current
    <3>6. Removed' /\ Noted'
      BY <1>0, <1>c, <3>2 DEF SInv, Removed, Noted, Noting, Telling
    <3>7. OnCurrent' = FALSE /\ cwk'.pc \notin Applying \cup Noting \cup Telling
      BY <1>c, <3>2 DEF OnCurrent, Applying, Noting, Telling
    <3>8. cwk.val = Current /\ csCache.ann \in {"", Current} /\ ~recreated => Told'
      BY <1>0, <3>3, <3>4, <3>5, <3>7 DEF Told
    <3>9. OneValue'
      BY <1>0, <3>4, <3>5, <3>7, <3>8 DEF SInv, OneValue
    <3> QED BY <3>6, <3>9 DEF SInv
  <2> QED BY <2>1, <2>2
<1> QED BY <1>1, <1>2, <1>3

\* Every step keeps the one value the copies agree on.
LEMMA StatusStep == IInv /\ SInv /\ [Next]_vars => SInv'
<1> SUFFICES ASSUME IInv, SInv, [Next]_vars PROVE SInv'
  OBVIOUS
<1>1. CASE UNCHANGED vars
  BY <1>1 DEF vars, k8s, caches, rest, history, SInv, Removed, Noted, OneValue, Told,
              OnCurrent, Current
<1>2. CASE Next
  BY <1>2, AnnotateKeepsStatus, DisturbanceKeepsStatus,
     InfrastructureKeepsStatus, SystemPassKeepsStatus, BeginCobblerKeepsStatus,
     RecordStepsKeepStatus, NotingKeepsStatus, TellingKeepsStatus
  DEF Next, CobblerPass
<1> QED BY <1>1, <1>2

\* For every number of requests, removals, failed calls, stale reads and
\* restarts: when both annotations are gone and both controllers rest, the two
\* statuses and the Cobbler record agree, unless values crossed or the
\* CobblerSystem was removed.
THEOREM NetbootStatusAgrees == Spec => []StatusAgrees
<1>1. SInv => StatusAgrees
  BY DEF SInv, OneValue, Told, StatusAgrees, Settled
<1> QED BY <1>1, StatusInit, StatusStep, InvariantHolds, PTL DEF Spec
============================================================================
