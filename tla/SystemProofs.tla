---------------------------- MODULE SystemProofs ----------------------------
(***************************************************************************)
(* System, for every set of aspects and references and every bound.  The   *)
(* proof is laid in four layers, each inductive relative to the ones below *)
(* it:                                                                     *)
(*                                                                         *)
(*   Typed         types, and that a pass that configures has a system;    *)
(*   ReinstallInv  what a copy that is current has in common with the      *)
(*                 resource, and that a request not yet served is carried  *)
(*                 by the resource and not dropped by a pass;              *)
(*   DeletionInv   the systems the operator made are known by the status,  *)
(*                 by the pass that is about to record them, or abandoned; *)
(*   ConfigInv     what a pass has done so far: the aspects it has been    *)
(*                 through are in Uyuni as the spec has them, unless a     *)
(*                 write of somebody else keeps it from saying so.         *)
(*                                                                         *)
(* Steps are sorted by what they change, and each layer is proved for the  *)
(* sorts and not for the actions.  That reinstall-now implements Trigger   *)
(* needs the first two layers.                                             *)
(***************************************************************************)
EXTENDS System, TLAPS

----------------------------------------------------------------------------
(* Types.                                                                  *)

\* What a pass, or the user, makes of a resource is a resource.
LEMMA ObjectTypes ==
    ASSUME NEW t \in SystemObject
    PROVE  /\ \A v \in Value : [t EXCEPT !.val = v] \in SystemObject
           /\ \A v \in Value : t.gen < MaxGen =>
                 [t EXCEPT !.val = v, !.gen = @ + 1] \in SystemObject
           /\ \A h \in Hostname : t.gen < MaxGen =>
                 [t EXCEPT !.hostname = h, !.gen = @ + 1] \in SystemObject
           /\ \A b \in BOOLEAN : /\ [t EXCEPT !.reinstall = b] \in SystemObject
                                 /\ [t EXCEPT !.applyFormulas = b] \in SystemObject
           /\ [t EXCEPT !.finalizer = TRUE] \in SystemObject
           /\ [t EXCEPT !.life = "gone"] \in SystemObject
           /\ [t EXCEPT !.phase = "PreProvisioned", !.ptt = TRUE] \in SystemObject
           /\ [t EXCEPT !.phase = "Reprovisioning", !.ptt = TRUE] \in SystemObject
           /\ [t EXCEPT !.phase = "Reconciled", !.observed = t.gen] \in SystemObject
           /\ \A i \in SystemID \cup {0} : [t EXCEPT !.srv = i] \in SystemObject
           /\ \A n \in Nat : [t EXCEPT !.act = n] \in SystemObject
           /\ [t EXCEPT !.fgen = t.gen] \in SystemObject
           /\ \A a \in Aspect \cap Told :
                 [t EXCEPT !.told[a] = t.val] \in SystemObject
<1>g. MaxGen \in Nat /\ t.gen \in 1..MaxGen /\ t.val \in Value
  BY ConstantsAssumption DEF SystemObject
<1>1. t.gen \in 0..MaxGen /\ (t.gen < MaxGen => t.gen + 1 \in 1..MaxGen)
  BY <1>g
<1>2. \A a \in Aspect \cap Told :
         [t.told EXCEPT ![a] = t.val] \in [Aspect \cap Told -> Value \cup {0}]
  BY <1>g DEF SystemObject
<1>3. \A a \in Aspect \cap Told : [t EXCEPT !.told[a] = t.val] \in SystemObject
  BY <1>2 DEF SystemObject
<1>4. /\ \A v \in Value : [t EXCEPT !.val = v] \in SystemObject
      /\ \A b \in BOOLEAN : /\ [t EXCEPT !.reinstall = b] \in SystemObject
                            /\ [t EXCEPT !.applyFormulas = b] \in SystemObject
      /\ [t EXCEPT !.finalizer = TRUE] \in SystemObject
      /\ [t EXCEPT !.life = "gone"] \in SystemObject
  BY DEF SystemObject
<1>5. /\ [t EXCEPT !.phase = "PreProvisioned", !.ptt = TRUE] \in SystemObject
      /\ [t EXCEPT !.phase = "Reprovisioning", !.ptt = TRUE] \in SystemObject
      /\ \A i \in SystemID \cup {0} : [t EXCEPT !.srv = i] \in SystemObject
      /\ \A n \in Nat : [t EXCEPT !.act = n] \in SystemObject
  BY DEF SystemObject
<1>6. /\ [t EXCEPT !.phase = "Reconciled", !.observed = t.gen] \in SystemObject
      /\ [t EXCEPT !.fgen = t.gen] \in SystemObject
  BY <1>1 DEF SystemObject
<1>7. \A v \in Value : t.gen < MaxGen =>
         [t EXCEPT !.val = v, !.gen = @ + 1] \in SystemObject
  BY <1>1 DEF SystemObject
<1>8. \A h \in Hostname : t.gen < MaxGen =>
         [t EXCEPT !.hostname = h, !.gen = @ + 1] \in SystemObject
  BY <1>1 DEF SystemObject
<1> QED BY <1>3, <1>4, <1>5, <1>6, <1>7, <1>8

Busy == wk.pc # "idle"

\* What the types say of the parts of a state.
LEMMA Parts ==
    ASSUME TypeOK
    PROVE  /\ obj \in SystemObject /\ cache \in SystemObject
           /\ Busy <=> wk \in Worker
           /\ ~Busy <=> wk = Idle
           /\ Busy => /\ wk.t \in SystemObject /\ wk.boot \in BOOLEAN
                      /\ wk.todo \subseteq Aspect /\ wk.t.act <= Len(acts)
           /\ Idle.pc = "idle"
           /\ Len(acts) \in Nat
<1>1. Idle.pc = "idle"
  BY DEF Idle
<1>2. \A w \in Worker : /\ w.pc # "idle" /\ w.t \in SystemObject
                        /\ w.boot \in BOOLEAN /\ w.todo \subseteq Aspect
  BY DEF Worker
<1>3. Len(acts) \in Nat
  BY DEF TypeOK
<1> QED BY <1>1, <1>2, <1>3 DEF TypeOK, Busy

LEMMA EventType ==
    ASSUME TypeOK, Event \/ UNCHANGED events
    PROVE  events' \in 0..MaxEvents
BY ConstantsAssumption DEF TypeOK, Event

\* The types of what a write, or the loss of a pass, changes.
Stores ==
    /\ obj' \in SystemObject /\ obj'.act <= Len(acts)
    /\ cacheOld' \in BOOLEAN /\ passOld' \in BOOLEAN
    /\ untold' \subseteq Aspect /\ abandoned' \subseteq SystemID
    /\ owed' = owed /\ extra' = extra

LEMMA LostType ==
    ASSUME TypeOK, Busy, Lost
    PROVE  Stores /\ wk' = Idle
<1>1. wk.t.srv \in SystemID \cup {0} /\ obj.act <= Len(acts)
  BY Parts DEF SystemObject, TypeOK
<1>2. Unrecorded \subseteq Aspect
  BY DEF Unrecorded
<1> QED BY <1>1, <1>2 DEF Lost, Stores, TypeOK

LEMMA WrittenType ==
    ASSUME TypeOK, NEW t \in SystemObject, t.act <= Len(acts), Written(t),
           \/ untold' = untold \/ untold' = NewSystem(t)
           \/ untold' \subseteq Aspect
    PROVE  Stores
<1>1. obj.srv \in SystemID \cup {0}
  BY DEF TypeOK, SystemObject
<1>2. NewSystem(t) \subseteq Aspect
  BY DEF NewSystem, TypeOK
<1> QED BY <1>1, <1>2 DEF Written, Stores, TypeOK

LEMMA SaveType ==
    ASSUME TypeOK, Busy, NEW t \in SystemObject, t.act <= Len(acts), SaveAndEnd(t)
    PROVE  Stores /\ wk' = Idle
BY LostType, WrittenType DEF SaveAndEnd

\* The rest of the state, as most steps of a pass leave it.
Surrounds ==
    /\ ready' \subseteq Refs /\ late' \in BOOLEAN /\ armed' \in BOOLEAN
    /\ cache' = cache
    /\ sys' \in [SystemID -> Machine] /\ acts' \in Seq(ChannelAction)
    /\ Len(acts) <= Len(acts')
    /\ events' \in 0..MaxEvents

LEMMA StoresType ==
    ASSUME TypeOK, Stores, Surrounds,
           wk' = Idle \/ (wk' \in Worker /\ wk'.t.act <= Len(acts'))
    PROVE  TypeOK'
<1>1. Len(acts) \in Nat /\ Len(acts') \in Nat /\ obj'.act \in Nat
      /\ cache.act \in Nat /\ cache.act <= Len(acts)
  <2>1. acts' \in Seq(ChannelAction) /\ obj' \in SystemObject
    BY DEF Surrounds, Stores
  <2>2. Len(acts') \in Nat
    BY <2>1
  <2> QED BY <2>1, <2>2, Parts DEF SystemObject, TypeOK
<1>2. obj'.act <= Len(acts') /\ cache.act <= Len(acts')
  BY <1>1 DEF Surrounds, Stores
<1> QED BY <1>2 DEF Stores, Surrounds, TypeOK

\* A system as it is after one field has changed.
LEMMA MachineTypes ==
    ASSUME NEW m \in Machine
    PROVE  /\ \A s \in {"boot", "salt"}, h \in Hostname, b \in BOOLEAN :
                 [m EXCEPT !.st = s, !.host = h, !.mac = b] \in Machine
           /\ \A v \in Value : /\ [m EXCEPT !.repo = v] \in Machine
                               /\ [m EXCEPT !.sub = v] \in Machine
           /\ \A a \in Aspect, v \in Value \cup {0} : [m EXCEPT !.cfg[a] = v] \in Machine
           /\ [m EXCEPT !.cfg = [a \in DOMAIN @ |-> IF a = "groups" THEN 0 ELSE @[a]]]
                 \in Machine
           /\ Absent \in Machine /\ Removed \in Machine
<1>1. /\ \A s \in {"boot", "salt"}, h \in Hostname, b \in BOOLEAN :
            [m EXCEPT !.st = s, !.host = h, !.mac = b] \in Machine
      /\ \A v \in Value : /\ [m EXCEPT !.repo = v] \in Machine
                          /\ [m EXCEPT !.sub = v] \in Machine
  BY DEF Machine
<1>2. \A a \in Aspect, v \in Value \cup {0} : [m EXCEPT !.cfg[a] = v] \in Machine
  <2>1. \A a \in Aspect, v \in Value \cup {0} :
           [m.cfg EXCEPT ![a] = v] \in [Aspect -> Value \cup {0}]
    BY DEF Machine
  <2> QED BY <2>1 DEF Machine
<1>3. [m EXCEPT !.cfg = [a \in DOMAIN @ |-> IF a = "groups" THEN 0 ELSE @[a]]]
         \in Machine
  <2>1. [a \in DOMAIN m.cfg |-> IF a = "groups" THEN 0 ELSE m.cfg[a]]
           \in [Aspect -> Value \cup {0}]
    BY DEF Machine
  <2> QED BY <2>1 DEF Machine
<1>4. Absent \in Machine
  BY DEF Absent, Machine
<1>5. Removed \in Machine
  BY <1>4 DEF Removed, Machine
<1> QED BY <1>1, <1>2, <1>3, <1>4, <1>5

LEMMA InitType == Init => TypeOK
<1> SUFFICES ASSUME Init PROVE TypeOK
  OBVIOUS
<1>1. 1 \in 1..MaxGen /\ 0 \in 0..MaxGen /\ 0 \in 0..MaxEvents
  BY ConstantsAssumption
<1>2. [a \in Aspect \cap Told |-> 0] \in [Aspect \cap Told -> Value \cup {0}]
  OBVIOUS
<1>3. obj \in SystemObject /\ obj.act = 0
  <2>1. /\ {"live"} \subseteq {"live", "deleting", "gone"}
        /\ {FALSE} \subseteq BOOLEAN /\ {"Delete"} \subseteq {"Delete", "Orphan"}
        /\ {"h1"} \subseteq Hostname /\ {1} \subseteq Value
        /\ {1} \subseteq 1..MaxGen /\ {0} \subseteq SystemID \cup {0}
        /\ {0} \subseteq 0..MaxGen /\ {0} \subseteq Nat
        /\ {""} \subseteq {"", "PreProvisioned", "Reprovisioning", "Reconciled"}
        /\ {[a \in Aspect \cap Told |-> 0]}
              \subseteq [Aspect \cap Told -> Value \cup {0}]
    BY <1>1, <1>2 DEF Hostname, Value
  <2> QED BY <2>1 DEF Init, SystemObject
<1>4. Absent \in Machine
  BY DEF Absent, Machine
<1>5. acts = << >> /\ Len(acts) = 0 /\ acts \in Seq(ChannelAction)
  <2>1. acts = << >>
    BY DEF Init
  <2> QED BY <2>1
<1>6. sys \in [SystemID -> Machine]
  BY <1>4 DEF Init
<1>7. cache \in SystemObject /\ cache.act = 0
  BY <1>3 DEF Init
<1>8. /\ ready \subseteq Refs /\ untold \subseteq Aspect
      /\ abandoned \subseteq SystemID /\ events \in 0..MaxEvents /\ wk = Idle
  BY <1>1 DEF Init
<1>9. /\ cacheOld \in BOOLEAN /\ passOld \in BOOLEAN /\ late \in BOOLEAN
      /\ armed \in BOOLEAN /\ owed \in BOOLEAN /\ extra \in BOOLEAN
  BY Zenon DEF Init
<1> QED BY <1>3, <1>5, <1>6, <1>7, <1>8, <1>9 DEF TypeOK

\* The steps of the user, the cluster and Uyuni.
LEMMA OutsideTypes ==
    ASSUME TypeOK, User \/ CacheSync \/ Realise \/ Vanish \/ DeadlinePasses \/ Uyuni
    PROVE  TypeOK'
<1> USE DEF kube, apiObject, uyuni, history
<1>p. obj \in SystemObject /\ cache \in SystemObject /\ obj.gen \in 1..MaxGen
  BY Parts DEF SystemObject
<1>w. ASSUME NEW new, new \in SystemObject, new.act = obj.act, UserWrites(new),
             owed' \in BOOLEAN
      PROVE  TypeOK'
  <2>1. events' \in 0..MaxEvents
    BY <1>w, EventType DEF UserWrites
  <2>2. passOld' \in BOOLEAN /\ cacheOld' \in BOOLEAN
    BY <1>w DEF UserWrites, Overtaken
  <2> QED BY <1>w, <2>1, <2>2 DEF UserWrites, TypeOK
<1>1. CASE Edit
  <2>1. PICK v \in Value : UserWrites([obj EXCEPT !.val = v, !.gen = @ + 1])
    BY <1>1 DEF Edit
  <2>2. [obj EXCEPT !.val = v, !.gen = @ + 1] \in SystemObject
    BY <1>1, <1>p, ObjectTypes DEF Edit
  <2>3. [obj EXCEPT !.val = v, !.gen = @ + 1].act = obj.act
    BY <1>p DEF SystemObject
  <2> QED BY <1>1, <1>w, <2>1, <2>2, <2>3 DEF Edit, TypeOK
<1>2. CASE Rename
  <2>1. PICK h \in Hostname : UserWrites([obj EXCEPT !.hostname = h, !.gen = @ + 1])
    BY <1>2 DEF Rename
  <2>2. [obj EXCEPT !.hostname = h, !.gen = @ + 1] \in SystemObject
    BY <1>2, <1>p, ObjectTypes DEF Rename
  <2>3. [obj EXCEPT !.hostname = h, !.gen = @ + 1].act = obj.act
    BY <1>p DEF SystemObject
  <2> QED BY <1>2, <1>w, <2>1, <2>2, <2>3 DEF Rename, TypeOK
<1>3. CASE AskReinstall
  <2>1. [obj EXCEPT !.reinstall = TRUE] \in SystemObject
    BY <1>p, ObjectTypes
  <2>2. [obj EXCEPT !.reinstall = TRUE].act = obj.act
    BY <1>p DEF SystemObject
  <2> QED BY <1>3, <1>w, <2>1, <2>2 DEF AskReinstall
<1>4. CASE AskFormulas
  <2>1. [obj EXCEPT !.applyFormulas = TRUE] \in SystemObject
    BY <1>p, ObjectTypes
  <2>2. [obj EXCEPT !.applyFormulas = TRUE].act = obj.act
    BY <1>p DEF SystemObject
  <2> QED BY <1>4, <1>w, <2>1, <2>2 DEF AskFormulas, TypeOK
<1>5. ASSUME NEW f \in BOOLEAN, NEW p \in {"Delete", "Orphan"}, Delete(f, p)
      PROVE  TypeOK'
  <2>1. obj' \in SystemObject /\ obj'.act = obj.act
    <3>1. \A l \in {"deleting", "gone"} :
             LET new == [obj EXCEPT !.force = f, !.policy = p, !.life = l]
             IN new \in SystemObject /\ new.act = obj.act
      BY <1>p DEF SystemObject
    <3> QED BY <1>5, <3>1 DEF Delete
  <2>2. events' \in 0..MaxEvents
    <3>1. Event \/ UNCHANGED events
      BY <1>5 DEF Delete
    <3> QED BY <3>1, EventType
  <2>3. passOld' \in BOOLEAN /\ cacheOld' \in BOOLEAN
    BY <1>5 DEF Delete, Overtaken
  <2> QED BY <1>5, <2>1, <2>2, <2>3 DEF Delete, TypeOK
<1>6. CASE CacheSync
  BY <1>6 DEF CacheSync, TypeOK
<1>7. CASE Realise
  BY <1>7 DEF Realise, TypeOK
<1>8. CASE Vanish
  BY <1>8, EventType DEF Vanish, TypeOK
<1>9. CASE DeadlinePasses
  BY <1>9, EventType DEF DeadlinePasses, TypeOK
<1>10. CASE Uyuni
  <2>m. \A i \in SystemID : sys[i] \in Machine
    BY DEF TypeOK
  <2>s. ASSUME sys' \in [SystemID -> Machine], acts' \in Seq(ChannelAction),
               Len(acts') = Len(acts), Event \/ UNCHANGED events,
               UNCHANGED <<kube, cache, armed, wk, history>>
        PROVE  TypeOK'
    BY <2>s, EventType DEF TypeOK
  <2>1. CASE Register
    <3>1. PICK i \in SystemID :
             sys' = [sys EXCEPT ![i].st = "salt", ![i].host = "h1", ![i].mac = TRUE]
      BY <2>1 DEF Register, Fresh
    <3>2. [sys[i] EXCEPT !.st = "salt", !.host = "h1", !.mac = TRUE] \in Machine
      BY <2>m, MachineTypes DEF Hostname
    <3>3. sys' \in [SystemID -> Machine]
      BY <3>1, <3>2 DEF TypeOK
    <3> QED BY <2>1, <2>s, <3>3 DEF Register, TypeOK
  <2>2. CASE AdminDeletes
    <3>1. Removed \in Machine
      BY <2>2, <2>m, MachineTypes DEF AdminDeletes, Registered
    <3>2. sys' \in [SystemID -> Machine]
      BY <2>2, <3>1 DEF AdminDeletes, TypeOK
    <3> QED BY <2>2, <2>s, <3>2 DEF AdminDeletes, TypeOK
  <2>3. CASE CheckIn
    <3>1. PICK n \in DOMAIN acts : acts' = [acts EXCEPT ![n].seen = TRUE]
      BY <2>3 DEF CheckIn
    <3>2. acts \in [1..Len(acts) -> ChannelAction] /\ Len(acts) \in Nat
      BY DEF TypeOK
    <3>3. [acts[n] EXCEPT !.seen = TRUE] \in ChannelAction
      BY <3>1, <3>2 DEF ChannelAction
    <3>4. acts' \in [1..Len(acts) -> ChannelAction]
      BY <3>1, <3>2, <3>3
    <3>5. acts' \in Seq(ChannelAction) /\ Len(acts') = Len(acts)
      BY <3>2, <3>4
    <3> QED BY <2>3, <2>s, <3>5 DEF CheckIn, TypeOK
  <2>4. ASSUME NEW ok \in BOOLEAN, RunAction(ok) PROVE TypeOK'
    <3>1. PICK n \in DOMAIN acts :
             /\ acts' = [acts EXCEPT ![n].st = IF ok THEN "Completed" ELSE "Failed"]
             /\ sys' = IF ok /\ Alive(acts[n].srv)
                       THEN [sys EXCEPT ![acts[n].srv].repo = acts[n].ch] ELSE sys
             /\ IF ok THEN UNCHANGED events ELSE Event
      BY <2>4 DEF RunAction
    <3>2. acts \in [1..Len(acts) -> ChannelAction] /\ Len(acts) \in Nat
      BY DEF TypeOK
    <3>3. /\ acts[n].srv \in SystemID /\ acts[n].ch \in Value
          /\ \A s \in {"Completed", "Failed"} :
                [acts[n] EXCEPT !.st = s] \in ChannelAction
      BY <3>1, <3>2 DEF ChannelAction
    <3>4. acts' \in [1..Len(acts) -> ChannelAction]
      BY <3>1, <3>2, <3>3
    <3>5. acts' \in Seq(ChannelAction) /\ Len(acts') = Len(acts)
      BY <3>2, <3>4
    <3>6. [sys[acts[n].srv] EXCEPT !.repo = acts[n].ch] \in Machine
      BY <2>m, <3>3, MachineTypes
    <3>7. sys' \in [SystemID -> Machine]
      BY <3>1, <3>3, <3>6 DEF TypeOK
    <3>8. Event \/ UNCHANGED events
      BY <3>1
    <3> QED BY <2>4, <2>s, <3>5, <3>7, <3>8 DEF RunAction
  <2> QED BY <1>10, <2>1, <2>2, <2>3, <2>4 DEF Uyuni
<1> QED BY <1>1, <1>2, <1>3, <1>4, <1>5, <1>6, <1>7, <1>8, <1>9, <1>10 DEF User

\* The steps of a pass that write nothing.
PassesOn ==
    /\ wk' \in Worker /\ wk'.t.act <= Len(acts')
    /\ UNCHANGED <<apiObject, untold, abandoned>>
    /\ owed' \in BOOLEAN /\ extra' \in BOOLEAN

LEMMA PassesOnType ==
    ASSUME TypeOK, PassesOn, Surrounds
    PROVE  TypeOK'
<1>1. Len(acts) \in Nat /\ Len(acts') \in Nat /\ obj.act \in Nat /\ cache.act \in Nat
  <2>1. acts' \in Seq(ChannelAction)
    BY DEF Surrounds
  <2>2. Len(acts') \in Nat
    BY <2>1
  <2> QED BY <2>2, Parts DEF SystemObject
<1>2. obj.act <= Len(acts') /\ cache.act <= Len(acts')
  BY <1>1 DEF Surrounds, TypeOK
<1> QED BY <1>2 DEF PassesOn, Surrounds, TypeOK, apiObject

LEMMA EventSurrounds ==
    ASSUME TypeOK, UNCHANGED <<ready, cache, sys, acts>>, events' \in 0..MaxEvents,
           late' \in BOOLEAN, armed' \in BOOLEAN
    PROVE  Surrounds
<1>1. Len(acts) \in Nat /\ Len(acts') = Len(acts)
  BY Parts
<1> QED BY <1>1 DEF Surrounds, TypeOK

LEMMA QuietSurrounds ==
    ASSUME TypeOK, UNCHANGED <<ready, cache, sys, acts, events>>,
           late' \in BOOLEAN, armed' \in BOOLEAN
    PROVE  Surrounds
BY EventSurrounds DEF TypeOK

\* A pass that goes on to another step, with another copy.
LEMMA StepTypes ==
    ASSUME TypeOK, wk \in Worker, NEW t \in SystemObject,
           NEW p \in {"notRegistered", "recordProfile", "recordReinstall", "strip",
                      "channels", "aspects", "release"}
    PROVE  /\ [wk EXCEPT !.pc = p, !.t = t] \in Worker
           /\ [wk EXCEPT !.pc = p, !.t = t].t = t
BY DEF Worker

LEMMA FirstTypes ==
    ASSUME TypeOK, Begin
    PROVE  TypeOK'
<1> USE DEF kube, apiObject, uyuni, history
<1>1. wk' \in Worker /\ wk'.t = cache
  BY DEF Begin, Worker, TypeOK
<1>2. events' \in 0..MaxEvents
  <2>1. Event \/ UNCHANGED events
    BY DEF Begin
  <2> QED BY <2>1, EventType
<1>3. passOld' \in BOOLEAN
  BY DEF Begin, TypeOK
<1> QED BY <1>1, <1>2, <1>3 DEF Begin, TypeOK

LEMMA FindTypes ==
    ASSUME TypeOK, Find \/ EnsureFinalizer \/ AwaitRegistration
    PROVE  TypeOK'
<1> USE DEF kube, apiObject, uyuni, history
<1>w. Busy /\ wk \in Worker /\ wk.t \in SystemObject /\ wk.t.act <= Len(acts)
  BY Parts DEF Busy, Find, EnsureFinalizer, AwaitRegistration, At
<1>s. Surrounds
  <2>1. /\ UNCHANGED <<ready, cache, late, uyuni, events>>
        /\ armed' = armed \/ armed' = ~TimedOut(wk.t)
    BY DEF Find, EnsureFinalizer, AwaitRegistration, Quiet
  <2>2. late' \in BOOLEAN /\ armed' \in BOOLEAN
    BY Zenon, <2>1 DEF TypeOK
  <2> QED BY <2>1, <2>2, QuietSurrounds
<1>1. CASE EnsureFinalizer
  <2>1. [wk.t EXCEPT !.finalizer = TRUE] \in SystemObject
    BY <1>w, ObjectTypes
  <2>2. [wk.t EXCEPT !.finalizer = TRUE].act <= Len(acts)
    BY <1>w DEF SystemObject
  <2> QED BY <1>1, <1>w, <1>s, <2>1, <2>2, SaveType, StoresType DEF EnsureFinalizer
<1>2. CASE AwaitRegistration
  BY <1>2, <1>w, <1>s, SaveType, StoresType DEF AwaitRegistration
<1>3. CASE Find
  <2>1. PICK i \in findOrAdopt(wk.t) :
           LET t == [wk.t EXCEPT !.srv = i]
               found == [wk EXCEPT !.pc = NextStep(t), !.t = t,
                                   !.boot = sys[i].st = "boot",
                                   !.todo = Aspect \ {"details"}]
           IN \/ /\ i = 0
                 /\ Step("notRegistered", IF Alive(wk.t.srv) THEN t ELSE wk.t)
                 /\ UNCHANGED <<apiObject, history>>
              \/ /\ i # 0 /\ i = wk.t.srv
                 /\ wk' = found
                 /\ UNCHANGED <<apiObject, history>>
              \/ /\ i # 0 /\ i # wk.t.srv
                 /\ Written(t)
                 /\ wk' = found
                 /\ untold' = NewSystem(t)
              \/ /\ i # 0 /\ i # wk.t.srv
                 /\ passOld /\ Lost
    BY <1>3 DEF Find
  <2>2. i \in SystemID \cup {0}
    <3>1. wk.t.srv \in SystemID \cup {0}
      BY <1>w DEF SystemObject
    <3> QED BY <2>1, <3>1 DEF findOrAdopt, ByMinionID, Registered, ByMAC
  <2> DEFINE t == [wk.t EXCEPT !.srv = i]
             found == [wk EXCEPT !.pc = NextStep(t), !.t = t,
                                 !.boot = sys[i].st = "boot",
                                 !.todo = Aspect \ {"details"}]
  <2>3. t \in SystemObject /\ t.act = wk.t.act
    <3>1. t \in SystemObject
      BY <1>w, <2>2, ObjectTypes
    <3>2. t.act = wk.t.act
      BY <1>w DEF SystemObject
    <3> QED BY <3>1, <3>2
  <2>4. found \in Worker /\ found.t = t
    <3>1. (sys[i].st = "boot") \in BOOLEAN
      OBVIOUS
    <3>2. NextStep(t) \in {"reinstall", "details"}
      BY DEF NextStep
    <3> HIDE DEF t
    <3>3. found \in Worker /\ found.t = t
      BY <1>w, <2>3, <3>1, <3>2 DEF Worker
    <3> QED BY <3>3
  <2>5. CASE i = 0
    <3> DEFINE u == IF Alive(wk.t.srv) THEN t ELSE wk.t
    <3>1. u \in SystemObject /\ u.act <= Len(acts)
      BY <1>w, <2>3
    <3>2. Step("notRegistered", u) /\ UNCHANGED <<apiObject, history>>
      BY <2>1, <2>5
    <3>3. wk' \in Worker /\ wk'.t = u
      <4> HIDE DEF u
      <4> QED BY <1>w, <3>1, <3>2, StepTypes DEF Step
    <3>4. PassesOn
      <4> HIDE DEF u
      <4> QED BY <1>3, <3>1, <3>2, <3>3 DEF PassesOn, TypeOK, Find, Quiet
    <3> QED BY <1>s, <3>4, PassesOnType
  <2>6. CASE i # 0 /\ i = wk.t.srv
    <3>1. wk' = found /\ UNCHANGED <<apiObject, history>>
      BY <2>1, <2>6
    <3>2. PassesOn
      <4> HIDE DEF found, t
      <4> QED BY <1>3, <1>w, <2>3, <2>4, <3>1 DEF PassesOn, TypeOK, Find, Quiet
    <3> QED BY <1>s, <3>2, PassesOnType
  <2>7. CASE i # 0 /\ i # wk.t.srv
    <3>1. \/ Written(t) /\ wk' = found /\ untold' = NewSystem(t)
          \/ Lost
      BY <2>1, <2>7
    <3> HIDE DEF found, t
    <3>2. CASE Lost
      BY <1>w, <1>s, <3>2, LostType, StoresType
    <3>3. CASE Written(t) /\ wk' = found /\ untold' = NewSystem(t)
      <4>1. Stores
        BY <1>w, <2>3, <3>3, WrittenType
      <4>2. wk' \in Worker /\ wk'.t.act <= Len(acts')
        BY <1>3, <1>w, <2>3, <2>4, <3>3 DEF Find, Quiet
      <4> QED BY <1>s, <4>1, <4>2, StoresType
    <3> QED BY <3>1, <3>2, <3>3
  <2> QED BY <2>5, <2>6, <2>7
<1> QED BY <1>1, <1>2, <1>3

LEMMA RegistrationTypes ==
    ASSUME TypeOK, CreateSystemProfile \/ RecordProfile
    PROVE  TypeOK'
<1> USE DEF kube, apiObject, uyuni, history
<1>w. Busy /\ wk \in Worker /\ wk.t \in SystemObject /\ wk.t.act <= Len(acts)
  BY Parts DEF Busy, CreateSystemProfile, RecordProfile, At
<1>q. late' \in BOOLEAN /\ armed' \in BOOLEAN
  BY DEF CreateSystemProfile, RecordProfile, TypeOK
<1>1. CASE CreateSystemProfile
  <2>1. CASE SaveAndEnd(wk.t) /\ UNCHANGED sys
    <3>1. Surrounds
      BY <1>1, <1>q, <2>1, QuietSurrounds DEF CreateSystemProfile
    <3> QED BY <1>w, <2>1, <3>1, SaveType, StoresType
  <2>2. ASSUME NEW i \in Fresh,
               sys' = [sys EXCEPT ![i].st = "boot", ![i].host = wk.t.hostname,
                                  ![i].mac = wk.t.mac],
               Step("recordProfile", [wk.t EXCEPT !.srv = i]),
               UNCHANGED <<apiObject, history>>
        PROVE  TypeOK'
    <3>1. i \in SystemID /\ sys[i] \in Machine
      BY DEF Fresh, TypeOK
    <3>2. wk.t.hostname \in Hostname /\ wk.t.mac \in BOOLEAN
      BY <1>w DEF SystemObject
    <3>3. [sys[i] EXCEPT !.st = "boot", !.host = wk.t.hostname, !.mac = wk.t.mac]
             \in Machine
      BY <3>1, <3>2, MachineTypes
    <3>4. sys' \in [SystemID -> Machine]
      BY <2>2, <3>1, <3>3 DEF TypeOK
    <3>5. [wk.t EXCEPT !.srv = i] \in SystemObject
      BY <1>w, <3>1, ObjectTypes
    <3>6. [wk.t EXCEPT !.srv = i].act = wk.t.act
      BY <1>w DEF SystemObject
    <3>7. wk' \in Worker /\ wk'.t = [wk.t EXCEPT !.srv = i]
      BY <1>w, <2>2, <3>5, StepTypes DEF Step
    <3>8. Surrounds
      <4>1. UNCHANGED <<ready, cache, acts, events>>
        BY <1>1 DEF CreateSystemProfile
      <4>2. Len(acts) \in Nat /\ Len(acts') = Len(acts)
        BY <4>1, Parts
      <4> QED BY <1>q, <3>4, <4>1, <4>2 DEF Surrounds, TypeOK
    <3>9. PassesOn
      BY <1>1, <1>w, <2>2, <3>6, <3>7 DEF PassesOn, CreateSystemProfile, TypeOK
    <3> QED BY <3>8, <3>9, PassesOnType
  <2> QED BY <1>1, <2>1, <2>2 DEF CreateSystemProfile, Fail
<1>2. CASE RecordProfile
  <2> DEFINE t == [wk.t EXCEPT !.phase = "PreProvisioned", !.ptt = TRUE]
  <2>1. t \in SystemObject /\ t.act <= Len(acts)
    <3>1. t.act = wk.t.act
      BY <1>w DEF SystemObject
    <3> QED BY <1>w, <3>1, ObjectTypes
  <2>2. \/ Written(t) /\ wk' = Idle /\ untold' = NewSystem(t)
        \/ Lost
    BY <1>2 DEF RecordProfile
  <2> HIDE DEF t
  <2>3. late' \in BOOLEAN
    BY <1>2 DEF RecordProfile, TypeOK
  <2>4. Surrounds
    BY <1>2, <1>q, <2>3, QuietSurrounds DEF RecordProfile
  <2>5. Stores /\ wk' = Idle
    BY <1>w, <2>1, <2>2, LostType, WrittenType
  <2> QED BY <2>4, <2>5, StoresType
<1> QED BY <1>1, <1>2

LEMMA ReinstallTypes ==
    ASSUME TypeOK, ProvisionSystem \/ RecordReinstall \/ StripReinstall
    PROVE  TypeOK'
<1> USE DEF kube, apiObject, uyuni, history
<1>w. Busy /\ wk \in Worker /\ wk.t \in SystemObject /\ wk.t.act <= Len(acts)
  BY Parts DEF Busy, ProvisionSystem, RecordReinstall, StripReinstall, At
<1>q. late' \in BOOLEAN /\ armed' \in BOOLEAN
  BY DEF ProvisionSystem, RecordReinstall, StripReinstall, Quiet, Lost, TypeOK
<1>s. Surrounds
  BY <1>q, QuietSurrounds DEF ProvisionSystem, RecordReinstall, StripReinstall, Quiet
<1>1. CASE ProvisionSystem
  <2>1. CASE SaveAndEnd(wk.t)
    BY <1>w, <1>s, <2>1, SaveType, StoresType
  <2>2. CASE /\ Step("recordReinstall",
                     [wk.t EXCEPT !.phase = "Reprovisioning", !.ptt = TRUE])
             /\ owed' = FALSE
             /\ extra' = (extra \/ ~(owed \/ obj.reinstall))
             /\ UNCHANGED <<apiObject, untold, abandoned>>
    <3> DEFINE t == [wk.t EXCEPT !.phase = "Reprovisioning", !.ptt = TRUE]
    <3>1. t \in SystemObject /\ t.act <= Len(acts)
      <4>1. t.act = wk.t.act
        BY <1>w DEF SystemObject
      <4> QED BY <1>w, <4>1, ObjectTypes
    <3>2. Step("recordReinstall", t)
      BY <2>2
    <3> HIDE DEF t
    <3>3. wk' \in Worker /\ wk'.t = t
      BY <1>w, <3>1, <3>2, StepTypes DEF Step
    <3>4. owed' \in BOOLEAN /\ extra' \in BOOLEAN
      BY Zenon, <2>2
    <3>5. PassesOn
      BY <1>1, <2>2, <3>1, <3>3, <3>4 DEF PassesOn, ProvisionSystem, Quiet
    <3> QED BY <1>s, <3>5, PassesOnType
  <2> QED BY <1>1, <2>1, <2>2 DEF ProvisionSystem, Fail
<1>2. CASE RecordReinstall
  <2>1. CASE Lost
    BY <1>w, <1>s, <2>1, LostType, StoresType
  <2>2. CASE Written(wk.t) /\ Step("strip", wk.t) /\ UNCHANGED untold
    <3>1. Stores
      BY <1>w, <2>2, WrittenType
    <3>2. wk' \in Worker /\ wk'.t = wk.t /\ acts' = acts
      BY <1>2, <1>w, <2>2, StepTypes DEF Step, RecordReinstall
    <3> QED BY <1>w, <1>s, <3>1, <3>2, StoresType
  <2> QED BY <1>2, <2>1, <2>2 DEF RecordReinstall
<1>3. CASE StripReinstall
  <2>1. [wk.t EXCEPT !.reinstall = FALSE] \in SystemObject
    BY <1>w, ObjectTypes
  <2>2. [wk.t EXCEPT !.reinstall = FALSE].act <= Len(acts)
    BY <1>w DEF SystemObject
  <2> QED BY <1>3, <1>w, <1>s, <2>1, <2>2, SaveType, StoresType DEF StripReinstall
<1> QED BY <1>1, <1>2, <1>3

\* Setting an aspect keeps the systems' types.
LEMMA SetTypes ==
    ASSUME TypeOK, Busy, NEW a \in Aspect, Set(a) \/ UNCHANGED sys
    PROVE  sys' \in [SystemID -> Machine]
<1>1. CASE UNCHANGED sys
  BY <1>1 DEF TypeOK
<1>2. CASE Set(a)
  <2>1. wk.t.val \in Value \cup {0} /\ \A i \in SystemID : sys[i] \in Machine
    BY Parts DEF TypeOK, SystemObject
  <2>2. \A i \in SystemID : [sys[i] EXCEPT !.cfg[a] = wk.t.val] \in Machine
    BY <2>1, MachineTypes
  <2>3. sys' = [sys EXCEPT ![wk.t.srv].cfg[a] = wk.t.val]
    BY <1>2 DEF Set
  <2>4. sys' = [sys EXCEPT ![wk.t.srv] = [sys[wk.t.srv] EXCEPT !.cfg[a] = wk.t.val]]
    BY <2>3
  <2> QED BY <2>2, <2>4 DEF TypeOK
<1> QED BY <1>1, <1>2

LEMMA DetailTypes ==
    ASSUME TypeOK, SetSystemDetails
    PROVE  TypeOK'
<1> USE DEF kube, apiObject, uyuni, history
<1>w. Busy /\ wk \in Worker /\ wk.t \in SystemObject /\ wk.t.act <= Len(acts)
  BY Parts DEF Busy, SetSystemDetails, At
<1>q. late' \in BOOLEAN /\ armed' \in BOOLEAN
  BY DEF SetSystemDetails, TypeOK
<1>u. UNCHANGED <<ready, cache, acts, events>>
  BY DEF SetSystemDetails
<1>1. CASE SaveAndEnd(wk.t) /\ UNCHANGED sys
  BY <1>w, <1>q, <1>u, <1>1, QuietSurrounds, SaveType, StoresType
<1>2. CASE /\ IF Differs("details") THEN Set("details") ELSE UNCHANGED sys
           /\ Step("channels", wk.t)
           /\ UNCHANGED <<apiObject, history>>
  <2>1. sys' \in [SystemID -> Machine]
    BY <1>w, <1>2, SetTypes DEF Differs, TypeOK
  <2>2. Surrounds
    <3>1. Len(acts) \in Nat /\ Len(acts') = Len(acts)
      BY <1>u, Parts
    <3> QED BY <1>q, <1>u, <2>1, <3>1 DEF Surrounds, TypeOK
  <2>3. wk' \in Worker /\ wk'.t = wk.t
    BY <1>w, <1>2, StepTypes DEF Step
  <2>4. PassesOn
    BY <1>w, <1>u, <1>2, <2>3 DEF PassesOn, TypeOK
  <2> QED BY <2>2, <2>4, PassesOnType
<1> QED BY <1>1, <1>2 DEF SetSystemDetails, Fail

\* A pass that applies something has found the system.
Applying == {"reinstall", "recordReinstall", "strip", "details", "channels",
             "aspects", "stripFormulas"}
HasSystem == wk.pc \in Applying => wk.t.srv # 0

LEMMA ChannelTypes ==
    ASSUME TypeOK, HasSystem, SubscribeChannels
    PROVE  TypeOK'
<1> USE DEF kube, apiObject, uyuni, history
<1>w. Busy /\ wk \in Worker /\ wk.t \in SystemObject /\ wk.t.act <= Len(acts)
  BY Parts DEF Busy, SubscribeChannels, At
<1>q. late' \in BOOLEAN /\ armed' \in BOOLEAN
  BY DEF SubscribeChannels, TypeOK
<1>u. UNCHANGED <<ready, cache>> /\ events' \in 0..MaxEvents
  BY EventType DEF SubscribeChannels
<1>n. Len(acts) \in Nat /\ wk.t.act \in Nat
  BY <1>w, Parts DEF SystemObject
<1>1. CASE SaveAndEnd(wk.t) /\ UNCHANGED uyuni
  BY <1>w, <1>q, <1>u, <1>1, EventSurrounds, SaveType, StoresType
<1>2. CASE /\ wk' = [wk EXCEPT !.pc = "aspects", !.todo = @ \cap {"groups", "formulas"}]
           /\ UNCHANGED <<apiObject, uyuni, history>>
  <2>1. wk' \in Worker /\ wk'.t = wk.t
    BY <1>w, <1>2 DEF Worker
  <2>2. PassesOn
    BY <1>w, <1>2, <2>1 DEF PassesOn, TypeOK
  <2>3. Surrounds
    BY <1>q, <1>u, <1>2, EventSurrounds
  <2> QED BY <2>2, <2>3, PassesOnType
<1>3. ASSUME NEW u \in SystemObject, u.act <= Len(acts'),
             wk' = [wk EXCEPT !.pc = "aspects", !.t = u, !.boot = FALSE],
             UNCHANGED <<apiObject, history>>, Subscribe(wk.t) \/ UNCHANGED uyuni
      PROVE  TypeOK'
  <2>1. wk' \in Worker /\ wk'.t = u
    BY <1>w, <1>3 DEF Worker
  <2>2. PassesOn
    BY <1>3, <2>1 DEF PassesOn, TypeOK
  <2>3. CASE UNCHANGED uyuni
    BY <1>q, <1>u, <2>2, <2>3, EventSurrounds, PassesOnType
  <2>4. CASE Subscribe(wk.t)
    <3>1. wk.t.val \in Value /\ wk.t.srv \in SystemID \cup {0}
          /\ \A i \in SystemID : sys[i] \in Machine
      BY <1>w DEF SystemObject, TypeOK
    <3>2. \A i \in SystemID : [sys[i] EXCEPT !.sub = wk.t.val] \in Machine
      BY <3>1, MachineTypes
    <3>3. sys' = [sys EXCEPT ![wk.t.srv] = [sys[wk.t.srv] EXCEPT !.sub = wk.t.val]]
      BY <2>4 DEF Subscribe
    <3>4. sys' \in [SystemID -> Machine]
      BY <3>2, <3>3 DEF TypeOK
    <3>5. wk.t.srv \in SystemID
      BY <3>1 DEF HasSystem, SubscribeChannels, At, Applying
    <3>6. acts' \in Seq(ChannelAction) /\ Len(acts') = Len(acts) + 1
      <4> DEFINE a == [srv |-> wk.t.srv, ch |-> wk.t.val, st |-> "Queued", seen |-> FALSE]
      <4>1. a \in ChannelAction
        BY <3>1, <3>5 DEF ChannelAction
      <4>2. acts' = Append(acts, a)
        BY <2>4 DEF Subscribe
      <4> HIDE DEF a
      <4>3. acts \in Seq(ChannelAction)
        BY DEF TypeOK
      <4> QED BY <4>1, <4>2, <4>3
    <3>7. Surrounds
      <4>1. Len(acts) <= Len(acts')
        BY <1>n, <3>6
      <4> QED BY <1>q, <1>u, <3>4, <3>6, <4>1 DEF Surrounds, TypeOK
    <3> QED BY <2>2, <3>7, PassesOnType
  <2> QED BY <1>3, <2>3, <2>4
<1>4. CASE UNCHANGED uyuni /\ wk' = [wk EXCEPT !.pc = "aspects", !.t = Untrack(wk.t),
                                               !.boot = FALSE]
           /\ UNCHANGED <<apiObject, history>>
  <2>1. [wk.t EXCEPT !.act = 0] \in SystemObject
    BY <1>w, ObjectTypes
  <2>2. [wk.t EXCEPT !.act = 0].act = 0
    BY <1>w DEF SystemObject
  <2>3. Untrack(wk.t) \in SystemObject /\ Untrack(wk.t).act <= Len(acts')
    BY <1>w, <1>n, <1>4, <2>1, <2>2 DEF Untrack
  <2> QED BY <1>3, <1>4, <2>3
<1>5. ASSUME Subscribe(wk.t), UNCHANGED <<apiObject, history>>,
             NEW u, wk' = [wk EXCEPT !.pc = "aspects", !.t = u, !.boot = FALSE],
             u = wk.t \/ u = [wk.t EXCEPT !.act = Len(acts) + 1]
      PROVE  TypeOK'
  <2>1. Len(acts') = Len(acts) + 1
    <3> DEFINE a == [srv |-> wk.t.srv, ch |-> wk.t.val, st |-> "Queued", seen |-> FALSE]
    <3>1. acts' = Append(acts, a)
      BY <1>5 DEF Subscribe
    <3> HIDE DEF a
    <3>2. acts \in Seq(ChannelAction)
      BY DEF TypeOK
    <3>3. acts \in Seq(ChannelAction \cup {a})
      BY <3>2
    <3> QED BY <3>1, <3>3
  <2>2. [wk.t EXCEPT !.act = Len(acts) + 1] \in SystemObject
    <3>1. Len(acts) + 1 \in Nat
      BY <1>n
    <3> QED BY <1>w, <3>1, ObjectTypes
  <2>3. [wk.t EXCEPT !.act = Len(acts) + 1].act = Len(acts) + 1
    BY <1>w DEF SystemObject
  <2>4. u \in SystemObject /\ u.act <= Len(acts')
    <3>1. CASE u = wk.t
      <4>1. wk.t.act <= Len(acts) + 1
        BY <1>w, <1>n
      <4> QED BY <1>w, <2>1, <3>1, <4>1
    <3>2. CASE u = [wk.t EXCEPT !.act = Len(acts) + 1]
      <4>1. Len(acts) + 1 <= Len(acts) + 1
        BY <1>n
      <4> QED BY <2>1, <2>2, <2>3, <3>2, <4>1
    <3> QED BY <1>5, <3>1, <3>2
  <2> QED BY <1>3, <1>5, <2>4
<1>6. \/ SaveAndEnd(wk.t) /\ UNCHANGED uyuni
      \/ /\ wk' = [wk EXCEPT !.pc = "aspects", !.todo = @ \cap {"groups", "formulas"}]
         /\ UNCHANGED <<apiObject, uyuni, history>>
      \/ /\ UNCHANGED <<apiObject, history>> /\ Subscribe(wk.t)
         /\ \E u : /\ wk' = [wk EXCEPT !.pc = "aspects", !.t = u, !.boot = FALSE]
                   /\ u = wk.t \/ u = [wk.t EXCEPT !.act = Len(acts) + 1]
      \/ /\ UNCHANGED <<apiObject, uyuni, history>>
         /\ wk' = [wk EXCEPT !.pc = "aspects", !.t = Untrack(wk.t), !.boot = FALSE]
  BY DEF SubscribeChannels
<1> QED BY <1>1, <1>2, <1>4, <1>5, <1>6

\* What an aspect's record makes of the copy.
LEMMA RecordedType ==
    ASSUME NEW t \in SystemObject, NEW a \in Aspect
    PROVE  /\ Recorded(a, t) \in SystemObject
           /\ Recorded(a, t).act = t.act /\ Recorded(a, t).srv = t.srv
<1>1. CASE a \in Told
  <2>1. Recorded(a, t) = [t EXCEPT !.told[a] = t.val]
    BY <1>1 DEF Recorded, Told
  <2>2. [t EXCEPT !.told[a] = t.val] \in SystemObject
    BY <1>1, ObjectTypes
  <2>3. [t EXCEPT !.told[a] = t.val].act = t.act
        /\ [t EXCEPT !.told[a] = t.val].srv = t.srv
    BY DEF SystemObject
  <2> QED BY <2>1, <2>2, <2>3
<1>2. CASE a \notin Told
  <2>1. Recorded(a, t) = [t EXCEPT !.fgen = t.gen] \/ Recorded(a, t) = t
    BY <1>2 DEF Recorded
  <2>2. [t EXCEPT !.fgen = t.gen] \in SystemObject
    BY ObjectTypes
  <2>3. [t EXCEPT !.fgen = t.gen].act = t.act /\ [t EXCEPT !.fgen = t.gen].srv = t.srv
    BY DEF SystemObject
  <2> QED BY <2>1, <2>2, <2>3
<1> QED BY <1>1, <1>2

\* Order names aspects; those in todo are the spec's.
LEMMA OrderTypes == \A n \in DOMAIN Order : Order[n] \in Told \cup Live \cup {"formulas"}
BY DEF Order, Told, Live

LEMMA AspectTypes ==
    ASSUME TypeOK, ApplyAspect
    PROVE  TypeOK'
<1> USE DEF kube, apiObject, uyuni, history
<1>w. Busy /\ wk \in Worker /\ wk.t \in SystemObject /\ wk.t.act <= Len(acts)
  BY Parts DEF Busy, ApplyAspect, At
<1>u. /\ UNCHANGED <<ready, late, cache, armed, acts, events>>
      /\ late' \in BOOLEAN /\ armed' \in BOOLEAN
  BY DEF ApplyAspect, TypeOK
<1>1. CASE SaveAndEnd(wk.t) /\ UNCHANGED sys
  BY <1>w, <1>u, <1>1, QuietSurrounds, SaveType, StoresType
<1>2. ASSUME NEW a \in Aspect, wk' = [wk EXCEPT !.todo = @ \ {a}],
             UNCHANGED <<apiObject, sys, history>>
      PROVE  TypeOK'
  <2>1. wk' \in Worker /\ wk'.t = wk.t
    BY <1>w, <1>2 DEF Worker
  <2>2. PassesOn
    BY <1>w, <1>u, <1>2, <2>1 DEF PassesOn, TypeOK
  <2> QED BY <1>u, <1>2, <2>2, QuietSurrounds, PassesOnType
<1>3. ASSUME NEW a \in Aspect, NEW strip \in BOOLEAN,
             Set(a) \/ UNCHANGED sys,
             wk' = [wk EXCEPT !.todo = @ \ {a}, !.t = Recorded(a, wk.t),
                              !.pc = IF strip THEN "stripFormulas" ELSE @],
             UNCHANGED <<apiObject, history>>
      PROVE  TypeOK'
  <2>1. Recorded(a, wk.t) \in SystemObject /\ Recorded(a, wk.t).act = wk.t.act
    BY <1>w, RecordedType
  <2>2. wk' \in Worker /\ wk'.t = Recorded(a, wk.t)
    BY <1>w, <1>3, <2>1 DEF Worker
  <2>3. PassesOn
    BY <1>w, <1>u, <1>3, <2>1, <2>2 DEF PassesOn, TypeOK
  <2>4. Surrounds
    <3>1. sys' \in [SystemID -> Machine]
      BY <1>w, <1>3, SetTypes
    <3>2. Len(acts) \in Nat /\ Len(acts') = Len(acts)
      BY <1>u, Parts
    <3> QED BY <1>u, <3>1, <3>2 DEF Surrounds, TypeOK
  <2> QED BY <2>3, <2>4, PassesOnType
<1>4. \/ SaveAndEnd(wk.t) /\ UNCHANGED sys
      \/ \E a \in Aspect : /\ wk' = [wk EXCEPT !.todo = @ \ {a}]
                           /\ UNCHANGED <<apiObject, sys, history>>
      \/ \E a \in Aspect, strip \in BOOLEAN :
            /\ Set(a) \/ UNCHANGED sys
            /\ wk' = [wk EXCEPT !.todo = @ \ {a}, !.t = Recorded(a, wk.t),
                                !.pc = IF strip THEN "stripFormulas" ELSE @]
            /\ UNCHANGED <<apiObject, history>>
  <2>1. PICK n \in DOMAIN Order :
           LET a == Order[n]
               t == wk.t
               strip == a = "formulas" /\ t.applyFormulas
           IN /\ a \in wk.todo
              /\ \/ SaveAndEnd(wk.t) /\ UNCHANGED sys
                 \/ /\ wk' = [wk EXCEPT !.todo = @ \ {a}]
                    /\ UNCHANGED <<apiObject, sys, history>>
                 \/ /\ IF MustSet(a, t) THEN Set(a) ELSE UNCHANGED sys
                    /\ wk' = [wk EXCEPT !.todo = @ \ {a}, !.t = Recorded(a, t),
                                        !.pc = IF strip THEN "stripFormulas" ELSE @]
                    /\ UNCHANGED <<apiObject, history>>
    BY DEF ApplyAspect, Foremost, Fail
  <2> DEFINE a == Order[n]
             strip == a = "formulas" /\ wk.t.applyFormulas
  <2>2. a \in Aspect
    BY <1>w, <2>1, Parts
  <2>3. strip \in BOOLEAN
    BY Zenon
  <2> QED BY <2>1, <2>2, <2>3
<1> QED BY <1>1, <1>2, <1>3, <1>4

\* The copy that comes back from the Update that strips the annotation.
LEMMA ReloadType ==
    ASSUME NEW t \in SystemObject, NEW stored \in SystemObject
    PROVE  /\ Reload(t, stored) \in SystemObject
           /\ Reload(t, stored).act \in {t.act, stored.act}
           /\ Reload(t, stored).srv = t.srv
<1>1. [a \in DOMAIN t.told |-> IF stored.told[a] = 0 THEN t.told[a] ELSE stored.told[a]]
         \in [Aspect \cap Told -> Value \cup {0}]
  BY DEF SystemObject
<1> QED BY <1>1, ZenonT(60) DEF Reload, SystemObject

LEMMA LastTypes ==
    ASSUME TypeOK, StripFormulas \/ SaveReconciled
    PROVE  TypeOK'
<1> USE DEF kube, apiObject, uyuni, history
<1>w. Busy /\ wk \in Worker /\ wk.t \in SystemObject /\ wk.t.act <= Len(acts)
  BY Parts DEF Busy, StripFormulas, SaveReconciled, At
<1>u. Quiet
  BY DEF StripFormulas, SaveReconciled
<1>s. Surrounds
  <2>1. late' \in BOOLEAN /\ armed' \in BOOLEAN
    BY <1>u DEF Quiet, TypeOK
  <2> QED BY <1>u, <2>1, QuietSurrounds DEF Quiet
<1>1. CASE StripFormulas
  <2> DEFINE stored == [obj EXCEPT !.applyFormulas = FALSE]
             t == Reload(wk.t, stored)
  <2>1. stored \in SystemObject /\ stored.act = obj.act
    <3>1. stored.act = obj.act
      BY Parts DEF SystemObject
    <3> QED BY <3>1, Parts, ObjectTypes
  <2>2. t \in SystemObject /\ t.act <= Len(acts) /\ stored.act <= Len(acts)
    <3>1. obj.act <= Len(acts)
      BY DEF TypeOK
    <3> HIDE DEF stored
    <3> QED BY <1>w, <2>1, <3>1, ReloadType
  <2>3. \/ /\ Written(stored)
           /\ Step("aspects", t)
           /\ untold' = untold \cup {a \in DOMAIN t.told : t.told[a] # wk.t.told[a]}
        \/ Lost
    BY <1>1 DEF StripFormulas
  <2>4. {a \in DOMAIN t.told : t.told[a] # wk.t.told[a]} \subseteq Aspect
    <3> HIDE DEF t
    <3> QED BY <2>2 DEF SystemObject
  <2> HIDE DEF t, stored
  <2>5. CASE Lost
    BY <1>w, <1>s, <2>5, LostType, StoresType
  <2>6. CASE /\ Written(stored)
             /\ Step("aspects", t)
             /\ untold' = untold \cup {a \in DOMAIN t.told : t.told[a] # wk.t.told[a]}
    <3>1. untold' \subseteq Aspect
      BY <2>4, <2>6 DEF TypeOK
    <3>2. Stores
      BY <2>1, <2>2, <2>6, <3>1, WrittenType
    <3>3. wk' \in Worker /\ wk'.t = t
      BY <1>w, <2>2, <2>6, StepTypes DEF Step
    <3>4. acts' = acts
      BY <1>u DEF Quiet
    <3> QED BY <1>s, <2>2, <3>2, <3>3, <3>4, StoresType
  <2> QED BY <2>3, <2>5, <2>6
<1>2. CASE SaveReconciled
  <2> DEFINE t == IF wk.boot THEN wk.t
                  ELSE [wk.t EXCEPT !.phase = "Reconciled", !.observed = wk.t.gen]
  <2>1. t \in SystemObject /\ t.act <= Len(acts)
    <3>1. [wk.t EXCEPT !.phase = "Reconciled", !.observed = wk.t.gen].act = wk.t.act
      BY <1>w DEF SystemObject
    <3> QED BY <1>w, <3>1, ObjectTypes
  <2>2. \/ Written(t) /\ wk' = Idle /\ untold' \subseteq untold
        \/ Lost
    BY <1>2 DEF SaveReconciled
  <2> HIDE DEF t
  <2>3. untold \subseteq Aspect
    BY DEF TypeOK
  <2>4. Stores /\ wk' = Idle
    BY <1>w, <2>1, <2>2, <2>3, LostType, WrittenType
  <2> QED BY <1>s, <2>4, StoresType
<1> QED BY <1>1, <1>2

LEMMA EndTypes ==
    ASSUME TypeOK,
           DeleteSystem \/ ReleaseFinalizer \/ CallFails \/ DeleteFails \/ Crash
    PROVE  TypeOK'
<1> USE DEF kube, apiObject, uyuni, history
<1>w. Busy /\ wk \in Worker /\ wk.t \in SystemObject /\ wk.t.act <= Len(acts)
  BY Parts DEF Busy, DeleteSystem, ReleaseFinalizer, CallFails, DeleteFails,
               Crash, At, Calls
<1>1. CASE DeleteSystem
  <2>m. \A i \in SystemID : sys[i] \in Machine
    BY DEF TypeOK
  <2>1. sys' \in [SystemID -> Machine]
    <3>1. \A i \in SystemID :
             /\ Removed \in Machine
             /\ [sys[i] EXCEPT !.cfg = [a \in DOMAIN @ |-> IF a = "groups" THEN 0
                                                           ELSE @[a]]] \in Machine
      BY <2>m, MachineTypes
    <3>2. \/ sys' = sys
          \/ sys' = [sys EXCEPT ![wk.t.srv] = Removed]
          \/ sys' = [sys EXCEPT ![wk.t.srv] =
                       [sys[wk.t.srv] EXCEPT !.cfg =
                          [a \in DOMAIN @ |-> IF a = "groups" THEN 0 ELSE @[a]]]]
      BY <1>1 DEF DeleteSystem
    <3> DEFINE freed == [sys[wk.t.srv] EXCEPT !.cfg =
                           [a \in DOMAIN @ |-> IF a = "groups" THEN 0 ELSE @[a]]]
    <3>3. wk.t.srv \in SystemID => freed \in Machine
      BY <3>1
    <3> HIDE DEF freed
    <3>4. \/ sys' = sys
          \/ sys' = [sys EXCEPT ![wk.t.srv] = Removed]
          \/ sys' = [sys EXCEPT ![wk.t.srv] = freed]
      BY <3>2 DEF freed
    <3> QED BY <3>1, <3>3, <3>4 DEF TypeOK
  <2>2. UNCHANGED <<kube, cache, armed, acts, history, events>>
    BY <1>1 DEF DeleteSystem
  <2>3. wk' \in Worker /\ wk'.t = wk.t
    BY <1>1, <1>w, StepTypes DEF DeleteSystem, Step
  <2> QED BY <1>w, <2>1, <2>2, <2>3 DEF TypeOK
<1>2. CASE ReleaseFinalizer
  <2>1. [wk.t EXCEPT !.life = "gone"] \in SystemObject
    BY <1>w, ObjectTypes
  <2>2. [wk.t EXCEPT !.life = "gone"].act <= Len(acts)
    BY <1>w DEF SystemObject
  <2>3. Surrounds
    <3>1. UNCHANGED <<ready, cache, sys, acts, events, late, armed>>
      BY <1>2 DEF ReleaseFinalizer, Quiet
    <3>2. late' \in BOOLEAN /\ armed' \in BOOLEAN
      BY <3>1 DEF TypeOK
    <3> QED BY <3>1, <3>2, QuietSurrounds
  <2> QED BY <1>2, <1>w, <2>1, <2>2, <2>3, SaveType, StoresType DEF ReleaseFinalizer
<1>3. CASE CallFails \/ Crash
  <2>1. Stores /\ wk' = Idle
    BY <1>3, <1>w, SaveType, LostType DEF CallFails, Crash, Fail
  <2>2. events' \in 0..MaxEvents
    BY <1>3, EventType DEF CallFails, Crash
  <2>3. UNCHANGED <<ready, late, cache, uyuni>> /\ armed' \in BOOLEAN
    BY <1>3 DEF CallFails, Crash, TypeOK
  <2>4. Len(acts) \in Nat /\ Len(acts') = Len(acts)
    BY <2>3, Parts
  <2>5. Surrounds
    BY <2>2, <2>3, <2>4 DEF Surrounds, TypeOK
  <2> QED BY <2>1, <2>5, StoresType
<1>4. CASE DeleteFails
  <2>1. events' \in 0..MaxEvents
    BY <1>4, EventType DEF DeleteFails
  <2> QED BY <1>4, <2>1 DEF DeleteFails, TypeOK
<1> QED BY <1>1, <1>2, <1>3, <1>4

\* A pass that goes on to apply something keeps the system it has found.
LEMMA SystemKept ==
    ASSUME TypeOK, HasSystem, Next
    PROVE  HasSystem'
<1> USE DEF kube, apiObject, uyuni, history
<1>i. Idle.pc \notin Applying
  BY DEF Idle, Applying
<1>1. CASE wk' = wk
  BY <1>1 DEF HasSystem
<1>2. CASE wk' = Idle
  BY <1>i, <1>2 DEF HasSystem
<1>3. ASSUME wk \in Worker, NEW p, NEW t,
             wk' = [wk EXCEPT !.pc = p, !.t = t],
             t.srv # 0
      PROVE  HasSystem'
  BY <1>3 DEF HasSystem, Worker
<1>w. ASSUME Pass PROVE Busy /\ wk \in Worker /\ wk.t \in SystemObject
  BY <1>w, Parts DEF Busy, Pass, EnsureFinalizer, Find, CreateSystemProfile,
     RecordProfile, AwaitRegistration, ProvisionSystem, RecordReinstall,
     StripReinstall, SetSystemDetails, SubscribeChannels, ApplyAspect,
     StripFormulas, SaveReconciled, DeleteSystem, ReleaseFinalizer, At
<1>4. CASE User \/ CacheSync \/ Realise \/ Vanish \/ DeadlinePasses \/ Uyuni
  BY <1>4, <1>1 DEF User, Edit, Rename, AskReinstall, AskFormulas, UserWrites, Delete,
     CacheSync, Realise, Vanish, DeadlinePasses, Uyuni, Register, AdminDeletes,
     CheckIn, RunAction
<1>5. CASE Begin
  <2>1. wk'.pc \in {"delete", "find", "finalizer"}
    BY <1>5 DEF Begin
  <2> QED BY <2>1 DEF HasSystem, Applying
<1>6. CASE \/ EnsureFinalizer \/ RecordProfile \/ AwaitRegistration \/ StripReinstall
           \/ SaveReconciled \/ ReleaseFinalizer \/ CallFails \/ DeleteFails \/ Crash
  BY <1>6, <1>2 DEF EnsureFinalizer, RecordProfile, AwaitRegistration, StripReinstall,
     SaveReconciled, ReleaseFinalizer, CallFails, DeleteFails, Crash, SaveAndEnd,
     Fail, Lost
<1>7. CASE Find
  <2>1. PICK i \in findOrAdopt(wk.t) :
           LET t == [wk.t EXCEPT !.srv = i]
               found == [wk EXCEPT !.pc = NextStep(t), !.t = t,
                                   !.boot = sys[i].st = "boot",
                                   !.todo = Aspect \ {"details"}]
           IN \/ Step("notRegistered", IF Alive(wk.t.srv) THEN t ELSE wk.t)
              \/ i # 0 /\ wk' = found
              \/ Lost
    BY <1>7 DEF Find
  <2> DEFINE t == [wk.t EXCEPT !.srv = i]
             found == [wk EXCEPT !.pc = NextStep(t), !.t = t,
                                 !.boot = sys[i].st = "boot",
                                 !.todo = Aspect \ {"details"}]
  <2>2. CASE Lost
    BY <1>2, <2>2 DEF Lost
  <2>3. ASSUME NEW u, Step("notRegistered", u) PROVE HasSystem'
    BY <1>7, <1>w, <2>3 DEF Pass, Step, HasSystem, Worker, Applying
  <2>4. CASE i # 0 /\ wk' = found
    <3>1. t.srv = i
      BY <1>7, <1>w DEF Pass, SystemObject
    <3> HIDE DEF t
    <3>2. found.t = t
      BY <1>7, <1>w DEF Pass, Worker
    <3> HIDE DEF found
    <3> QED BY <2>4, <3>1, <3>2 DEF HasSystem
  <2> QED BY <2>1, <2>2, <2>3, <2>4
<1>8. CASE CreateSystemProfile
  <2>1. CASE SaveAndEnd(wk.t)
    BY <1>2, <2>1 DEF SaveAndEnd, Lost
  <2>2. ASSUME NEW t, Step("recordProfile", t) PROVE HasSystem'
    BY <1>8, <1>w, <2>2 DEF Pass, Step, HasSystem, Worker, Applying
  <2> QED BY <1>8, <2>1, <2>2 DEF CreateSystemProfile, Fail
<1>9. CASE DeleteSystem
  BY <1>9, <1>w DEF Pass, DeleteSystem, Step, HasSystem, Worker, Applying
<1>10. CASE ProvisionSystem
  <2>1. CASE SaveAndEnd(wk.t)
    BY <1>2, <2>1 DEF SaveAndEnd, Lost
  <2>2. CASE Step("recordReinstall",
                  [wk.t EXCEPT !.phase = "Reprovisioning", !.ptt = TRUE])
    <3> DEFINE t == [wk.t EXCEPT !.phase = "Reprovisioning", !.ptt = TRUE]
    <3>1. t \in SystemObject
      BY <1>10, <1>w, ObjectTypes DEF Pass
    <3>2. t.srv = wk.t.srv /\ wk.t.srv # 0
      BY <1>10, <1>w DEF Pass, ProvisionSystem, SystemObject, HasSystem, At, Applying
    <3>3. Step("recordReinstall", t)
      BY <2>2
    <3> HIDE DEF t
    <3> QED BY <1>10, <1>w, <1>3, <3>1, <3>2, <3>3 DEF Pass, Step
  <2> QED BY <1>10, <2>1, <2>2 DEF ProvisionSystem, Fail
<1>11. CASE RecordReinstall \/ SetSystemDetails
  <2>1. wk.t.srv # 0
    BY <1>11 DEF RecordReinstall, SetSystemDetails, HasSystem, At, Applying
  <2>2. \/ wk' = Idle
        \/ wk' = [wk EXCEPT !.pc = "strip", !.t = wk.t]
        \/ wk' = [wk EXCEPT !.pc = "channels", !.t = wk.t]
    BY <1>11 DEF RecordReinstall, SetSystemDetails, Step, Lost, Fail, SaveAndEnd
  <2> QED BY <1>11, <1>w, <1>2, <1>3, <2>1, <2>2 DEF Pass
<1>12. CASE SubscribeChannels
  <2>1. wk.t.srv # 0 /\ wk \in Worker /\ wk.t \in SystemObject
    BY <1>12, <1>w DEF Pass, SubscribeChannels, HasSystem, At, Applying
  <2>2. \/ wk' = Idle
        \/ wk' = [wk EXCEPT !.pc = "aspects", !.todo = @ \cap {"groups", "formulas"}]
        \/ \E u : /\ wk' = [wk EXCEPT !.pc = "aspects", !.t = u, !.boot = FALSE]
                  /\ \/ u = wk.t \/ u = [wk.t EXCEPT !.act = Len(acts) + 1]
                     \/ u = [wk.t EXCEPT !.act = 0]
    BY <1>12 DEF SubscribeChannels, Lost, SaveAndEnd, Untrack
  <2>3. \A n : [wk.t EXCEPT !.act = n].srv = wk.t.srv
    BY <2>1 DEF SystemObject
  <2>4. ASSUME NEW n, NEW u, u = wk.t \/ u = [wk.t EXCEPT !.act = n],
               wk' = [wk EXCEPT !.pc = "aspects", !.t = u, !.boot = FALSE]
        PROVE  HasSystem'
    <3>1. wk'.t.srv # 0
      BY <2>1, <2>3, <2>4 DEF Worker
    <3> QED BY <3>1 DEF HasSystem
  <2>5. ASSUME wk' = [wk EXCEPT !.pc = "aspects", !.todo = @ \cap {"groups", "formulas"}]
        PROVE  HasSystem'
    BY <2>1, <2>5 DEF HasSystem, Worker
  <2> QED BY <1>2, <2>2, <2>4, <2>5
<1>13. CASE ApplyAspect
  <2>1. wk.t.srv # 0 /\ wk \in Worker /\ wk.t \in SystemObject
    BY <1>13, <1>w DEF Pass, ApplyAspect, HasSystem, At, Applying
  <2>2. PICK n \in DOMAIN Order :
           LET a == Order[n]
           IN /\ a \in wk.todo
              /\ \/ wk' = Idle
                 \/ wk' = [wk EXCEPT !.todo = @ \ {a}]
                 \/ wk' = [wk EXCEPT !.todo = @ \ {a}, !.t = Recorded(a, wk.t),
                             !.pc = IF a = "formulas" /\ wk.t.applyFormulas
                                    THEN "stripFormulas" ELSE @]
    BY <1>13 DEF ApplyAspect, Foremost, Fail, SaveAndEnd, Lost
  <2>3. Order[n] \in Aspect
    BY <2>1, <2>2 DEF Worker
  <2>4. Recorded(Order[n], wk.t).srv = wk.t.srv
    BY <2>1, <2>3, RecordedType
  <2> QED BY <1>2, <2>1, <2>2, <2>4 DEF HasSystem, Worker
<1>14. CASE StripFormulas
  <2> DEFINE stored == [obj EXCEPT !.applyFormulas = FALSE]
             t == Reload(wk.t, stored)
  <2>1. wk.t.srv # 0 /\ wk \in Worker /\ wk.t \in SystemObject
    BY <1>14, <1>w DEF Pass, StripFormulas, HasSystem, At, Applying
  <2>2. stored \in SystemObject
    BY Parts, ObjectTypes
  <2>3. wk' = Idle \/ Step("aspects", t)
    BY <1>14 DEF StripFormulas, Lost
  <2> HIDE DEF stored
  <2>4. t \in SystemObject /\ t.srv = wk.t.srv
    BY <2>1, <2>2, ReloadType
  <2> HIDE DEF t
  <2> QED BY <1>2, <1>3, <2>1, <2>3, <2>4 DEF Step
<1> QED BY <1>4, <1>5, <1>6, <1>7, <1>8, <1>9, <1>10, <1>11, <1>12, <1>13, <1>14
        DEF Next, Pass

LEMMA TypeStep == TypeOK /\ HasSystem /\ [Next]_vars => TypeOK' /\ HasSystem'
<1> SUFFICES ASSUME TypeOK, HasSystem, [Next]_vars
             PROVE  TypeOK' /\ HasSystem'
  OBVIOUS
<1>1. CASE UNCHANGED vars
  BY <1>1 DEF TypeOK, HasSystem, vars, kube, apiObject, uyuni, history
<1>2. CASE Next
  <2>1. TypeOK'
    BY <1>2, OutsideTypes, FirstTypes, FindTypes, RegistrationTypes, ReinstallTypes,
       DetailTypes, ChannelTypes, AspectTypes, LastTypes, EndTypes DEF Next, Pass
  <2> QED BY <1>2, <2>1, SystemKept
<1> QED BY <1>1, <1>2

Typed == TypeOK /\ HasSystem

LEMMA InitTyped == Init => Typed
<1>1. Init => HasSystem
  <2>1. Init => wk = Idle
    BY DEF Init
  <2>2. Idle.pc \notin Applying
    BY DEF Idle, Applying
  <2> QED BY <2>1, <2>2 DEF HasSystem
<1> QED BY <1>1, InitType DEF Typed

\* Every reachable state is typed, and a pass that applies something has found
\* its system.
LEMMA AlwaysTyped == Spec => []Typed
<1>1. Typed /\ [Next]_vars => Typed'
  BY TypeStep DEF Typed
<1> QED BY InitTyped, <1>1, PTL DEF Spec

\* Every state of System is typed: the copies of the resource, the systems of
\* Uyuni and the channel changes the status names (Reconcile,
\* handleNotRegistered, applyConfig and handleDeletion).
THEOREM SystemTypeOK == Spec => []TypeOK
BY AlwaysTyped, PTL DEF Typed

----------------------------------------------------------------------------
(* The reinstall request: what the copies of the resource have in common.  *)

\* The pass has the current version of the resource.
Current == Busy /\ ~passOld

\* What a pass never changes on the way.
SameSpec(a, b) ==
    /\ a.life = b.life /\ a.finalizer = b.finalizer /\ a.force = b.force
    /\ a.policy = b.policy /\ a.hostname = b.hostname /\ a.val = b.val
    /\ a.gen = b.gen /\ a.reinstall = b.reinstall /\ a.observed = b.observed

\* A copy that is current tells of the resource what it is.
Copies ==
    /\ ~cacheOld => cache = obj
    /\ Current =>
         /\ SameSpec(wk.t, obj)
         /\ wk.pc # "recordProfile" => wk.t.srv \in {0, obj.srv}
         /\ wk.pc \notin {"notRegistered", "recordProfile"} => wk.t.srv = obj.srv
         /\ wk.t.phase = "Reconciled" => obj.phase = "Reconciled"

\* A resource ages from live to gone, its copies behind it, and the passes
\* that delete are those that saw it go.
Ages ==
    /\ obj.life = "deleting" => obj.finalizer
    /\ cache.life = "deleting" => cache.finalizer
    /\ cache.life # "live" => obj.life # "live"
    /\ wk.pc = "finalizer" => wk.t.life = "live" /\ ~wk.t.finalizer
    /\ wk.pc \in {"delete", "release"} =>
          wk.t.life = "deleting" /\ wk.t.finalizer /\ cache.life # "live"
    /\ Busy /\ wk.pc \notin {"finalizer", "delete", "release"} =>
          wk.t.life = "live" /\ wk.t.finalizer
    /\ obj.life = "gone" /\ obj.finalizer =>
          cache.life # "live" /\ (Busy => wk.pc \in {"delete", "release"})

\* Without the finalizer nothing has been looked up or made.
Unfinal == ~obj.finalizer =>
    /\ ~cache.finalizer /\ obj.srv = 0
    /\ Busy => wk.pc = "finalizer"
    /\ \A i \in SystemID : sys[i].st # "boot"

\* A pass about to strip the annotation owes nothing it knows of.
ReinstallHeld == wk.pc \in {"recordReinstall", "strip"} /\ ~passOld => ~owed

ReinstallInv == Copies /\ Ages /\ Unfinal /\ ReinstallHeld /\ ReinstallNotForgotten

\* What nobody but the user changes.
SameKind(a, b) == /\ a.force = b.force /\ a.policy = b.policy
                  /\ a.gen = b.gen /\ a.val = b.val

\* The forms of a step.  Somebody else than the pass writes.
Foreign(new) ==
    /\ obj.life = "live" /\ obj' = new /\ Overtaken
    /\ new.finalizer = obj.finalizer /\ new.srv = obj.srv
    /\ new.life \in {"live", IF obj.finalizer THEN "deleting" ELSE "gone"}
    /\ owed' => new.reinstall
    /\ UNCHANGED <<cache, wk, sys>>

\* The pass writes t, which is what it or the API server held but for what
\* its step is there to change.
Stored(t) ==
    /\ Busy /\ Written(t) /\ UNCHANGED <<cache, sys>>
    /\ t.srv = wk.t.srv \/ (wk.pc = "find" /\ Alive(t.srv))
    /\ SameKind(t, obj)
    /\ t.finalizer
    /\ t.life = obj.life \/ (t.life = "gone" /\ wk.pc = "release")
    /\ t.reinstall = obj.reinstall \/ (wk.pc = "strip" /\ ~t.reinstall)
    /\ \/ wk' = Idle
       \/ /\ wk'.pc \in Applying /\ wk.pc \notin {"finalizer", "delete", "release"}
          /\ SameSpec(wk'.t, t) /\ SameSpec(t, obj) /\ SameSpec(wk.t, wk'.t)
          /\ wk'.t.srv = t.srv
          /\ wk'.t.phase = "Reconciled" => t.phase = "Reconciled"
          /\ wk'.pc \in {"recordReinstall", "strip"} => wk.pc = "recordReinstall"

\* The pass ends and writes nothing.
Ends == /\ Busy /\ UNCHANGED <<cache, sys>>
        /\ Lost \/ (DeleteFails /\ wk' = Idle /\ UNCHANGED <<obj, cacheOld, history>>)

\* The pass goes on and writes nothing.
GoesOn ==
    /\ Busy /\ wk'.pc # "idle" /\ UNCHANGED <<apiObject, cache>>
    /\ owed' \in BOOLEAN /\ (owed' => owed) /\ UNCHANGED <<untold, abandoned>>
    /\ SameSpec(wk'.t, wk.t)
    /\ wk'.t.phase = "Reconciled" => wk.t.phase = "Reconciled"
    /\ \/ /\ wk.pc = "delete" /\ wk'.pc = "release" /\ wk'.t.srv = wk.t.srv
          /\ DeleteSystem
       \/ /\ wk.pc \in {"find"} \cup Applying /\ wk'.pc \in Applying
          /\ wk'.t.srv = wk.t.srv
          /\ wk'.pc = "recordReinstall" => ~owed' \/ wk.pc = "recordReinstall"
          /\ wk'.pc = "strip" => wk.pc = "strip"
          /\ \A i \in SystemID : sys'[i].st = sys[i].st
       \/ /\ wk.pc = "find" /\ wk'.pc = "notRegistered" /\ wk'.t.srv \in {0, wk.t.srv}
          /\ UNCHANGED sys
       \/ /\ wk.pc = "notRegistered" /\ wk'.pc = "recordProfile"
          /\ wk'.t.srv \in SystemID /\ sys'[wk'.t.srv].st = "boot"
          /\ \A i \in SystemID \ {wk'.t.srv} : sys'[i] = sys[i]

\* Everything but the systems stays.
Elsewhere == /\ UNCHANGED <<apiObject, cache, wk, owed>>
             /\ \A i \in SystemID : sys'[i].st = "boot" => sys[i].st = "boot"

LEMMA ForeignKeeps ==
    ASSUME TypeOK, ReinstallInv, NEW new, Foreign(new)
    PROVE  ReinstallInv'
<1>1. Copies'
  BY DEF Foreign, Overtaken, Copies, Current, Busy
<1>2. Ages'
  BY DEF ReinstallInv, Foreign, Ages, Busy, Unfinal
<1>3. Unfinal'
  BY DEF ReinstallInv, Foreign, Unfinal, Busy
<1>4. ReinstallHeld'
  BY DEF Foreign, Overtaken, ReinstallHeld
<1>5. ReinstallNotForgotten'
  BY DEF Foreign, ReinstallNotForgotten
<1> QED BY <1>1, <1>2, <1>3, <1>4, <1>5 DEF ReinstallInv

LEMMA StoredKeeps ==
    ASSUME TypeOK, ReinstallInv, NEW t, Stored(t)
    PROVE  ReinstallInv'
<1>c. Current /\ SameSpec(wk.t, obj) /\ obj' = t /\ owed' = owed /\ passOld' = passOld
  BY DEF Stored, Written, Current, ReinstallInv, Copies
<1>i. Idle.pc = "idle" /\ "idle" \notin Applying
  BY DEF Idle, Applying
<1>1. Copies'
  <2>1. ~cacheOld' => cache' = obj'
    BY DEF Stored, Written, ReinstallInv, Copies
  <2>2. wk' = Idle \/ (/\ SameSpec(wk'.t, t) /\ wk'.t.srv = t.srv
                       /\ wk'.t.phase = "Reconciled" => t.phase = "Reconciled")
    BY DEF Stored
  <2> QED BY <1>c, <1>i, <2>1, <2>2 DEF Copies, Current, Busy, SameSpec
<1>2. Ages'
  <2>1. t.finalizer /\ cache' = cache
    BY DEF Stored
  <2>2. cache.life # "live" => t.life # "live"
    BY DEF Stored, ReinstallInv, Ages
  <2>3. t.life = "gone" => wk.pc \in {"delete", "release"} /\ cache.life # "live"
    BY <1>c DEF Stored, ReinstallInv, Ages, SameSpec, Busy
  <2>4. wk'.pc # "idle" => /\ wk'.pc \in Applying
                           /\ wk.pc \notin {"finalizer", "delete", "release"}
                           /\ wk'.t.life = wk.t.life /\ wk'.t.finalizer = wk.t.finalizer
    BY <1>i DEF Stored, SameSpec, SameKind
  <2>5. Busy /\ wk.pc \notin {"finalizer", "delete", "release"} =>
           wk.t.life = "live" /\ wk.t.finalizer
    BY DEF ReinstallInv, Ages
  <2>6. Applying \cap {"finalizer", "delete", "release"} = {}
    BY DEF Applying
  <2>7. cache.life = "deleting" => cache.finalizer
    BY DEF ReinstallInv, Ages
  <2> QED BY <1>c, <1>i, <2>1, <2>2, <2>3, <2>4, <2>5, <2>6, <2>7
          DEF Ages, Busy, Stored
<1>3. Unfinal'
  BY <1>c DEF Unfinal, Stored
<1>4. ReinstallHeld'
  BY <1>c, <1>i DEF Stored, ReinstallInv, ReinstallHeld, Current
<1>5. ReinstallNotForgotten'
  BY <1>c DEF Stored, ReinstallInv, ReinstallHeld, ReinstallNotForgotten, Current
<1> QED BY <1>1, <1>2, <1>3, <1>4, <1>5 DEF ReinstallInv

LEMMA EndsKeeps ==
    ASSUME TypeOK, ReinstallInv, Ends
    PROVE  ReinstallInv'
<1>i. Idle.pc = "idle"
  BY DEF Idle
<1>e. wk' = Idle /\ UNCHANGED <<obj, cacheOld, cache, owed, sys>>
  BY DEF Ends, Lost, history
<1> QED BY <1>i, <1>e DEF ReinstallInv, Copies, Current, Busy, Ages, Unfinal,
                    ReinstallHeld, ReinstallNotForgotten

LEMMA GoesOnKeeps ==
    ASSUME TypeOK, ReinstallInv, GoesOn
    PROVE  ReinstallInv'
<1> USE DEF apiObject
<1>a. Applying \cap {"finalizer", "delete", "release", "idle", "notRegistered",
                     "recordProfile", "find"} = {}
  BY DEF Applying
<1>o. obj' = obj /\ cache' = cache /\ cacheOld' = cacheOld /\ passOld' = passOld
      /\ Busy /\ Busy'
  BY DEF GoesOn, Busy
<1>1. Copies'
  BY <1>a, <1>o DEF ReinstallInv, GoesOn, Copies, Current, SameSpec
<1>2. Ages'
  <2>1. wk'.t.life = wk.t.life /\ wk'.t.finalizer = wk.t.finalizer
    BY DEF GoesOn, SameSpec
  <2>2. /\ wk'.pc # "finalizer" /\ wk.pc # "finalizer"
        /\ wk'.pc \in {"delete", "release"} <=> wk.pc \in {"delete", "release"}
    BY <1>a DEF GoesOn
  <2> QED BY <1>o, <2>1, <2>2 DEF ReinstallInv, Ages
<1>3. obj.finalizer
  BY <1>a, <1>o DEF ReinstallInv, GoesOn, Unfinal
<1>4. Unfinal'
  BY <1>o, <1>3 DEF Unfinal
<1>5. ReinstallHeld'
  BY <1>a, <1>o DEF ReinstallInv, GoesOn, ReinstallHeld
<1>6. ReinstallNotForgotten'
  BY <1>o DEF ReinstallInv, GoesOn, ReinstallNotForgotten
<1> QED BY <1>1, <1>2, <1>4, <1>5, <1>6 DEF ReinstallInv

LEMMA ElsewhereKeeps ==
    ASSUME ReinstallInv, Elsewhere
    PROVE  ReinstallInv'
<1> USE DEF apiObject
<1>1. Copies' /\ Ages'
  BY DEF ReinstallInv, Elsewhere, Copies, Ages, Current, Busy
<1>2. Unfinal' /\ ReinstallHeld' /\ ReinstallNotForgotten'
  BY DEF ReinstallInv, Elsewhere, Unfinal, Busy, ReinstallHeld, ReinstallNotForgotten
<1> QED BY <1>1, <1>2 DEF ReinstallInv

\* What a pass makes of its copy on the way.
LEMMA Copied ==
    ASSUME NEW t \in SystemObject
    PROVE  /\ SameSpec(t, t)
           /\ \A i \in SystemID \cup {0} : LET u == [t EXCEPT !.srv = i]
                                IN SameSpec(u, t) /\ u.srv = i /\ u.phase = t.phase
           /\ \A n \in Nat : LET u == [t EXCEPT !.act = n]
                     IN SameSpec(u, t) /\ u.srv = t.srv /\ u.phase = t.phase
           /\ \A p \in {"PreProvisioned", "Reprovisioning"} :
                 LET u == [t EXCEPT !.phase = p, !.ptt = TRUE]
                 IN SameSpec(u, t) /\ u.srv = t.srv /\ u.phase = p
           /\ LET u == [t EXCEPT !.applyFormulas = FALSE]
              IN SameSpec(u, t) /\ u.srv = t.srv /\ u.phase = t.phase
           /\ \A a \in Aspect : LET u == Recorded(a, t)
                       IN SameSpec(u, t) /\ u.srv = t.srv /\ u.phase = t.phase
           /\ \A s \in SystemObject : LET u == Reload(t, s)
                       IN SameSpec(u, t) /\ u.srv = t.srv /\ u.phase = t.phase
<1>1. SameSpec(t, t)
  BY DEF SameSpec
<1>2. /\ \A i \in SystemID \cup {0} : LET u == [t EXCEPT !.srv = i]
                           IN SameSpec(u, t) /\ u.srv = i /\ u.phase = t.phase
      /\ \A n \in Nat : LET u == [t EXCEPT !.act = n]
                IN SameSpec(u, t) /\ u.srv = t.srv /\ u.phase = t.phase
      /\ \A p \in {"PreProvisioned", "Reprovisioning"} :
            LET u == [t EXCEPT !.phase = p, !.ptt = TRUE]
            IN SameSpec(u, t) /\ u.srv = t.srv /\ u.phase = p
      /\ LET u == [t EXCEPT !.applyFormulas = FALSE]
         IN SameSpec(u, t) /\ u.srv = t.srv /\ u.phase = t.phase
  BY DEF SystemObject, SameSpec
<1>3. \A s \in SystemObject : LET u == Reload(t, s)
                  IN SameSpec(u, t) /\ u.srv = t.srv /\ u.phase = t.phase
  BY DEF SystemObject, SameSpec, Reload
<1>4. ASSUME NEW a \in Aspect
      PROVE  LET u == Recorded(a, t)
             IN SameSpec(u, t) /\ u.srv = t.srv /\ u.phase = t.phase
  <2>1. \/ Recorded(a, t) = [t EXCEPT !.told[a] = t.val]
        \/ Recorded(a, t) = [t EXCEPT !.fgen = t.gen]
        \/ Recorded(a, t) = t
    BY DEF Recorded
  <2>2. LET u == [t EXCEPT !.told[a] = t.val]
        IN SameSpec(u, t) /\ u.srv = t.srv /\ u.phase = t.phase
    BY DEF SystemObject, SameSpec
  <2>3. LET u == [t EXCEPT !.fgen = t.gen]
        IN SameSpec(u, t) /\ u.srv = t.srv /\ u.phase = t.phase
    BY DEF SystemObject, SameSpec
  <2> QED BY <1>1, <2>1, <2>2, <2>3
<1> QED BY <1>1, <1>2, <1>3, <1>4

\* The pass's copy when its step is taken, and a current one's likeness to obj.
LEMMA PassCopy ==
    ASSUME Typed, Pass \/ CallFails \/ DeleteFails \/ Crash
    PROVE  Busy /\ wk \in Worker /\ wk.t \in SystemObject /\ wk.pc # "idle"
<1>1. Busy
  BY DEF Busy, Pass, EnsureFinalizer, Find, CreateSystemProfile,
     RecordProfile, AwaitRegistration, ProvisionSystem, RecordReinstall,
     StripReinstall, SetSystemDetails, SubscribeChannels, ApplyAspect,
     StripFormulas, SaveReconciled, DeleteSystem, ReleaseFinalizer, At,
     CallFails, Calls, DeleteFails, Crash
<1> QED BY <1>1, Parts DEF Typed, Busy

LEMMA WrittenCopy ==
    ASSUME Typed, ReinstallInv, Busy, NEW t, Written(t)
    PROVE  /\ Current /\ SameSpec(wk.t, obj)
           /\ wk.pc # "finalizer" => wk.t.finalizer
BY DEF Written, Current, ReinstallInv, Copies, Ages, Busy

\* A write of the pass's own copy, but for another status, ends the pass.
LEMMA SavesOrLoses ==
    ASSUME Typed, ReinstallInv, Busy, NEW t,
           SameSpec(t, wk.t), t.srv = wk.t.srv, wk.pc # "finalizer",
           UNCHANGED <<cache, sys>>,
           Lost \/ (Written(t) /\ wk' = Idle)
    PROVE  Ends \/ Stored(t)
<1>1. CASE Lost
  BY <1>1 DEF Lost, Ends
<1>2. CASE Written(t) /\ wk' = Idle
  BY <1>2, WrittenCopy DEF Stored, SameSpec, SameKind
<1> QED BY <1>1, <1>2

\* Setting an aspect, or a channel, leaves a system what it is.
LEMMA SetKeeps ==
    ASSUME Typed, UNCHANGED sys \/ Subscribe(wk.t) \/ \E a : Set(a)
    PROVE  \A i \in SystemID : sys'[i].st = sys[i].st
<1>1. sys \in [SystemID -> Machine]
  BY DEF Typed, TypeOK
<1>2. CASE UNCHANGED sys
  BY <1>2
<1>3. CASE Subscribe(wk.t)
  BY <1>1, <1>3 DEF Subscribe, Machine
<1>4. ASSUME NEW a, Set(a) PROVE \A i \in SystemID : sys'[i].st = sys[i].st
  BY <1>1, <1>4 DEF Set, Machine
<1> QED BY <1>2, <1>3, <1>4

LEMMA WorkerSteps ==
    ASSUME wk \in Worker, NEW p, NEW t, wk' = [wk EXCEPT !.pc = p, !.t = t]
    PROVE  wk'.pc = p /\ wk'.t = t
BY DEF Worker

\* Every step of a pass, and its faults, have one of the forms.
LEMMA PassForms ==
    ASSUME Typed, ReinstallInv, Pass \/ CallFails \/ DeleteFails \/ Crash
    PROVE  \/ Ends
           \/ \E t : Stored(t)
           \/ GoesOn
<1> USE DEF kube, apiObject, uyuni, history
<1>w. Busy /\ wk \in Worker /\ wk.t \in SystemObject /\ wk.pc # "idle"
  BY PassCopy
<1>s. ASSUME wk.pc # "finalizer", UNCHANGED <<cache, sys>>, SaveAndEnd(wk.t) \/ Lost
      PROVE  Ends \/ \E t : Stored(t)
  <2>1. Lost \/ (Written(wk.t) /\ wk' = Idle)
    BY <1>s DEF SaveAndEnd
  <2>2. SameSpec(wk.t, wk.t)
    BY DEF SameSpec
  <2>3. Ends \/ Stored(wk.t)
    BY <1>s, <1>w, <2>1, <2>2, SavesOrLoses
  <2> QED BY <1>s, <2>3
<1>1. CASE EnsureFinalizer
  <2> DEFINE t == [wk.t EXCEPT !.finalizer = TRUE]
  <2>1. t.finalizer /\ t.life = wk.t.life /\ t.reinstall = wk.t.reinstall
        /\ t.srv = wk.t.srv
        /\ SameKind(t, wk.t)
    BY <1>w DEF SystemObject, SameKind
  <2>2. UNCHANGED <<cache, sys>> /\ (Lost \/ (Written(t) /\ wk' = Idle))
    BY <1>1 DEF EnsureFinalizer, Quiet, SaveAndEnd
  <2> HIDE DEF t
  <2>3. CASE Lost
    BY <1>w, <2>2, <2>3 DEF Lost, Ends
  <2>4. CASE Written(t) /\ wk' = Idle
    <3>1. SameSpec(wk.t, obj)
      BY <1>w, <2>4, WrittenCopy
    <3>2. Stored(t)
      BY <1>w, <2>1, <2>2, <2>4, <3>1 DEF Stored, SameSpec, SameKind
    <3> QED BY <3>2
  <2> QED BY <2>2, <2>3, <2>4
<1>2. CASE Find
  <2>1. PICK i \in findOrAdopt(wk.t) :
           LET t == [wk.t EXCEPT !.srv = i]
               found == [wk EXCEPT !.pc = NextStep(t), !.t = t,
                                   !.boot = sys[i].st = "boot",
                                   !.todo = Aspect \ {"details"}]
           IN \/ /\ i = 0
                 /\ Step("notRegistered", IF Alive(wk.t.srv) THEN t ELSE wk.t)
                 /\ UNCHANGED <<apiObject, history>>
              \/ /\ i # 0 /\ i = wk.t.srv
                 /\ wk' = found
                 /\ UNCHANGED <<apiObject, history>>
              \/ /\ i # 0 /\ i # wk.t.srv /\ Written(t) /\ wk' = found
              \/ Lost
    BY <1>2 DEF Find
  <2>0. i \in SystemID \cup {0}
    <3>1. wk.t.srv \in SystemID \cup {0}
      BY <1>w DEF SystemObject
    <3> QED BY <2>1, <3>1 DEF findOrAdopt, ByMinionID, Registered, ByMAC
  <2>f. i # 0 => Alive(i)
    BY <2>1 DEF findOrAdopt, ByMinionID, Registered, ByMAC, Alive
  <2> DEFINE t == [wk.t EXCEPT !.srv = i]
             found == [wk EXCEPT !.pc = NextStep(t), !.t = t,
                                 !.boot = sys[i].st = "boot",
                                 !.todo = Aspect \ {"details"}]
  <2>2. SameSpec(t, wk.t) /\ t.srv = i /\ t.phase = wk.t.phase /\ SameSpec(wk.t, wk.t)
    BY <1>w, <2>0, Copied
  <2>3. wk.pc = "find" /\ UNCHANGED <<cache, sys>>
    BY <1>2 DEF Find, At, Quiet
  <2>4. found.pc \in {"reinstall", "details"} /\ found.t = t
    <3>1. NextStep(t) \in {"reinstall", "details"}
      BY DEF NextStep
    <3> HIDE DEF t
    <3> QED BY <1>w, <3>1 DEF Worker
  <2>a. {"reinstall", "details"} \subseteq Applying /\ "idle" \notin Applying
    BY DEF Applying
  <2>5. CASE Lost
    BY <1>w, <2>3, <2>5 DEF Lost, Ends
  <2>6. CASE i # 0 /\ i = wk.t.srv /\ wk' = found /\ UNCHANGED <<apiObject, history>>
    <3> HIDE DEF t, found
    <3>1. GoesOn
      BY <1>w, <2>2, <2>3, <2>4, <2>6, <2>a DEF GoesOn, Typed, TypeOK
    <3> QED BY <3>1
  <2>7. CASE /\ i = 0 /\ Step("notRegistered", IF Alive(wk.t.srv) THEN t ELSE wk.t)
             /\ UNCHANGED <<apiObject, history>>
    <3> HIDE DEF t
    <3> DEFINE u == IF Alive(wk.t.srv) THEN t ELSE wk.t
    <3>1. SameSpec(u, wk.t) /\ u.srv \in {0, wk.t.srv} /\ u.phase = wk.t.phase
      BY <2>2, <2>7
    <3>2. Step("notRegistered", u)
      BY <2>7
    <3> HIDE DEF u
    <3>3. wk'.pc = "notRegistered" /\ wk'.t = u
      BY <1>w, <3>2, WorkerSteps DEF Step
    <3>4. GoesOn
      BY <1>w, <2>3, <2>7, <3>1, <3>3 DEF GoesOn, Typed, TypeOK
    <3> QED BY <3>4
  <2>8. CASE i # 0 /\ Written(t) /\ wk' = found
    <3> HIDE DEF t, found
    <3>1. SameSpec(wk.t, obj) /\ wk.t.finalizer
      BY <1>w, <2>3, <2>8, WrittenCopy
    <3>2. Stored(t)
      BY <1>w, <2>2, <2>3, <2>4, <2>8, <2>a, <2>f, <3>1 DEF Stored, SameSpec, SameKind
    <3> QED BY <3>2
  <2> HIDE DEF t, found
  <2> QED BY <2>1, <2>5, <2>6, <2>7, <2>8 DEF t, found
<1>3. CASE CreateSystemProfile
  <2>0. wk.pc = "notRegistered" /\ UNCHANGED cache
    BY <1>3 DEF CreateSystemProfile, At
  <2>1. CASE SaveAndEnd(wk.t) /\ UNCHANGED sys
    BY <1>s, <2>0, <2>1
  <2>2. ASSUME NEW i \in Fresh, Step("recordProfile", [wk.t EXCEPT !.srv = i]),
               sys' = [sys EXCEPT ![i].st = "boot", ![i].host = wk.t.hostname,
                                  ![i].mac = wk.t.mac],
               UNCHANGED <<apiObject, history>>
        PROVE  GoesOn
    <3> DEFINE t == [wk.t EXCEPT !.srv = i]
    <3>0. i \in SystemID \cup {0}
      BY DEF Fresh
    <3>1. SameSpec(t, wk.t) /\ t.phase = wk.t.phase /\ t.srv = i
      BY <1>w, <3>0, Copied
    <3>3. i \in SystemID /\ sys'[i].st = "boot" /\ \A k \in SystemID \ {i} : sys'[k] = sys[k]
      <4>1. i \in SystemID /\ sys \in [SystemID -> Machine] /\ sys[i] \in Machine
        BY DEF Fresh, Typed, TypeOK
      <4> QED BY <2>2, <4>1 DEF Machine
    <3>2. wk'.pc = "recordProfile" /\ wk'.t = t
      BY <1>w, <2>2, WorkerSteps DEF Step
    <3> HIDE DEF t
    <3> QED BY <1>w, <2>0, <2>2, <3>1, <3>2, <3>3 DEF GoesOn, Typed, TypeOK
  <2> QED BY <1>3, <2>1, <2>2 DEF CreateSystemProfile, Fail
<1>4. CASE RecordProfile
  <2> DEFINE t == [wk.t EXCEPT !.phase = "PreProvisioned", !.ptt = TRUE]
  <2>1. SameSpec(t, wk.t) /\ t.srv = wk.t.srv
    BY <1>w, Copied
  <2>2. /\ wk.pc # "finalizer" /\ UNCHANGED <<cache, sys>>
        /\ Lost \/ (Written(t) /\ wk' = Idle)
    BY <1>4 DEF RecordProfile, At
  <2> HIDE DEF t
  <2>3. Ends \/ Stored(t)
    BY <1>w, <2>1, <2>2, SavesOrLoses
  <2> QED BY <2>2, <2>3
<1>5. CASE AwaitRegistration \/ CallFails \/ Crash
  <2>1. CASE SaveAndEnd(wk.t) /\ wk.pc # "finalizer"
    BY <1>5, <1>s, <2>1 DEF AwaitRegistration, CallFails, Crash
  <2>2. CASE Lost
    BY <1>5, <1>w, <2>2 DEF AwaitRegistration, CallFails, Crash, Lost, Ends
  <2> QED BY <1>5, <2>1, <2>2 DEF AwaitRegistration, CallFails, Crash, At, Calls, Fail
<1>6. CASE ProvisionSystem
  <2>0. wk.pc = "reinstall" /\ UNCHANGED <<cache, sys>>
    BY <1>6 DEF ProvisionSystem, At, Quiet
  <2>1. CASE SaveAndEnd(wk.t)
    BY <1>s, <2>0, <2>1
  <2>2. CASE /\ Step("recordReinstall",
                     [wk.t EXCEPT !.phase = "Reprovisioning", !.ptt = TRUE])
             /\ owed' = FALSE
             /\ UNCHANGED <<apiObject, untold, abandoned>>
    <3> DEFINE t == [wk.t EXCEPT !.phase = "Reprovisioning", !.ptt = TRUE]
    <3>1. SameSpec(t, wk.t) /\ t.srv = wk.t.srv /\ t.phase = "Reprovisioning"
      BY <1>w, Copied
    <3>2. wk'.pc = "recordReinstall" /\ wk'.t = t
      BY <1>w, <2>2, WorkerSteps DEF Step
    <3> HIDE DEF t
    <3> QED BY <1>w, <2>0, <2>2, <3>1, <3>2 DEF GoesOn, Applying
  <2> QED BY <1>6, <2>1, <2>2 DEF ProvisionSystem, Fail
<1>7. CASE RecordReinstall
  <2>0. wk.pc = "recordReinstall" /\ UNCHANGED <<cache, sys>>
    BY <1>7 DEF RecordReinstall, At
  <2>1. CASE Lost
    BY <1>s, <2>0, <2>1
  <2>2. CASE Written(wk.t) /\ Step("strip", wk.t)
    <3>1. wk'.pc = "strip" /\ wk'.t = wk.t
      BY <1>w, <2>2, WorkerSteps DEF Step
    <3>2. SameSpec(wk.t, obj) /\ wk.t.finalizer /\ SameSpec(wk.t, wk.t)
      BY <1>w, <2>0, <2>2, WrittenCopy, Copied
    <3>3. Stored(wk.t)
      BY <1>w, <2>0, <2>2, <3>1, <3>2 DEF Stored, SameSpec, SameKind, Applying
    <3> QED BY <3>3
  <2> QED BY <1>7, <2>1, <2>2 DEF RecordReinstall
<1>8. CASE StripReinstall
  <2> DEFINE t == [wk.t EXCEPT !.reinstall = FALSE]
  <2>1. t.finalizer = wk.t.finalizer /\ t.life = wk.t.life /\ t.srv = wk.t.srv
        /\ ~t.reinstall /\ SameKind(t, wk.t)
    BY <1>w DEF SystemObject, SameKind
  <2>2. /\ wk.pc = "strip" /\ UNCHANGED <<cache, sys>>
        /\ Lost \/ (Written(t) /\ wk' = Idle)
    BY <1>8 DEF StripReinstall, Quiet, SaveAndEnd, At
  <2> HIDE DEF t
  <2>3. CASE Lost
    BY <1>w, <2>2, <2>3 DEF Lost, Ends
  <2>4. CASE Written(t) /\ wk' = Idle
    <3>1. SameSpec(wk.t, obj) /\ wk.t.finalizer
      BY <1>w, <2>2, <2>4, WrittenCopy
    <3>2. Stored(t)
      BY <1>w, <2>1, <2>2, <2>4, <3>1 DEF Stored, SameSpec, SameKind
    <3> QED BY <3>2
  <2> QED BY <2>2, <2>3, <2>4
<1>9. CASE SetSystemDetails
  <2>0. wk.pc = "details" /\ UNCHANGED cache
    BY <1>9 DEF SetSystemDetails, At
  <2>1. CASE SaveAndEnd(wk.t) /\ UNCHANGED sys
    BY <1>s, <2>0, <2>1
  <2>2. CASE /\ Step("channels", wk.t) /\ UNCHANGED <<apiObject, history>>
             /\ IF Differs("details") THEN Set("details") ELSE UNCHANGED sys
    <3>1. wk'.pc = "channels" /\ wk'.t = wk.t /\ SameSpec(wk.t, wk.t)
      BY <1>w, <2>2, WorkerSteps DEF Step, SameSpec
    <3>2. \A i \in SystemID : sys'[i].st = sys[i].st
      BY <2>2, SetKeeps
    <3> QED BY <1>w, <2>0, <2>2, <3>1, <3>2 DEF GoesOn, Applying, Typed, TypeOK
  <2> QED BY <1>9, <2>1, <2>2 DEF SetSystemDetails, Fail
<1>10. CASE SubscribeChannels
  <2>0. wk.pc = "channels" /\ UNCHANGED cache
    BY <1>10 DEF SubscribeChannels, At
  <2>1. CASE SaveAndEnd(wk.t) /\ UNCHANGED sys
    BY <1>s, <2>0, <2>1
  <2>2. ASSUME NEW u, SameSpec(u, wk.t), u.srv = wk.t.srv, u.phase = wk.t.phase,
               \/ wk' = [wk EXCEPT !.pc = "aspects", !.t = u, !.boot = FALSE]
               \/ /\ wk' = [wk EXCEPT !.pc = "aspects",
                                      !.todo = @ \cap {"groups", "formulas"}]
                  /\ u = wk.t,
               UNCHANGED <<apiObject, history>>, Subscribe(wk.t) \/ UNCHANGED sys
        PROVE  GoesOn
    <3>1. wk'.pc = "aspects" /\ wk'.t = u
      BY <1>w, <2>2 DEF Worker
    <3>2. \A i \in SystemID : sys'[i].st = sys[i].st
      BY <2>2, SetKeeps
    <3> QED BY <1>w, <2>0, <2>2, <3>1, <3>2 DEF GoesOn, Applying, Typed, TypeOK
  <2>3. \/ SaveAndEnd(wk.t) /\ UNCHANGED sys
        \/ /\ UNCHANGED <<apiObject, sys, history>>
           /\ wk' = [wk EXCEPT !.pc = "aspects", !.todo = @ \cap {"groups", "formulas"}]
        \/ /\ UNCHANGED <<apiObject, history>> /\ (Subscribe(wk.t) \/ UNCHANGED sys)
           /\ \E u : /\ wk' = [wk EXCEPT !.pc = "aspects", !.t = u, !.boot = FALSE]
                     /\ \/ u = wk.t \/ u = [wk.t EXCEPT !.act = Len(acts) + 1]
                        \/ u = [wk.t EXCEPT !.act = 0]
    BY <1>10 DEF SubscribeChannels, Untrack
  <2>4. ASSUME NEW u, \/ u = wk.t \/ u = [wk.t EXCEPT !.act = Len(acts) + 1]
                      \/ u = [wk.t EXCEPT !.act = 0]
        PROVE  SameSpec(u, wk.t) /\ u.srv = wk.t.srv /\ u.phase = wk.t.phase
    <3>1. Len(acts) + 1 \in Nat /\ 0 \in Nat
      BY Parts DEF Typed
    <3>2. \A n \in Nat : LET v == [wk.t EXCEPT !.act = n]
                         IN SameSpec(v, wk.t) /\ v.srv = wk.t.srv /\ v.phase = wk.t.phase
      BY <1>w, Copied
    <3>3. SameSpec(wk.t, wk.t)
      BY DEF SameSpec
    <3> QED BY <2>4, <3>1, <3>2, <3>3
  <2> QED BY <2>1, <2>2, <2>3, <2>4
<1>11. CASE ApplyAspect
  <2>0. wk.pc = "aspects" /\ UNCHANGED cache
    BY <1>11 DEF ApplyAspect, At
  <2>1. PICK n \in DOMAIN Order :
           LET a == Order[n]
           IN /\ a \in wk.todo
              /\ \/ SaveAndEnd(wk.t) /\ UNCHANGED sys
                 \/ /\ wk' = [wk EXCEPT !.todo = @ \ {a}]
                    /\ UNCHANGED <<apiObject, sys, history>>
                 \/ /\ IF MustSet(a, wk.t) THEN Set(a) ELSE UNCHANGED sys
                    /\ wk' = [wk EXCEPT !.todo = @ \ {a}, !.t = Recorded(a, wk.t),
                                !.pc = IF a = "formulas" /\ wk.t.applyFormulas
                                       THEN "stripFormulas" ELSE @]
                    /\ UNCHANGED <<apiObject, history>>
    BY <1>11 DEF ApplyAspect, Foremost, Fail
  <2>2. Order[n] \in Aspect
    BY <1>w, <2>1 DEF Worker
  <2>3. ASSUME NEW u, SameSpec(u, wk.t), u.srv = wk.t.srv, u.phase = wk.t.phase,
               wk'.pc \in {"aspects", "stripFormulas"}, wk'.t = u,
               UNCHANGED <<apiObject, history>>, Set(Order[n]) \/ UNCHANGED sys
        PROVE  GoesOn
    <3>1. \A i \in SystemID : sys'[i].st = sys[i].st
      BY <2>3, SetKeeps
    <3> QED BY <1>w, <2>0, <2>3, <3>1 DEF GoesOn, Applying, Typed, TypeOK
  <2>4. CASE SaveAndEnd(wk.t) /\ UNCHANGED sys
    BY <1>s, <2>0, <2>4
  <2>5. ASSUME wk' = [wk EXCEPT !.todo = @ \ {Order[n]}],
               UNCHANGED <<apiObject, sys, history>>
        PROVE  GoesOn
    <3>1. wk'.pc = "aspects" /\ wk'.t = wk.t /\ SameSpec(wk.t, wk.t)
      BY <1>w, <2>0, <2>5, Copied DEF Worker
    <3> QED BY <2>3, <2>5, <3>1
  <2>6. ASSUME wk' = [wk EXCEPT !.todo = @ \ {Order[n]}, !.t = Recorded(Order[n], wk.t),
                        !.pc = IF Order[n] = "formulas" /\ wk.t.applyFormulas
                               THEN "stripFormulas" ELSE @],
               UNCHANGED <<apiObject, history>>,
               IF MustSet(Order[n], wk.t) THEN Set(Order[n]) ELSE UNCHANGED sys
        PROVE  GoesOn
    <3> DEFINE u == Recorded(Order[n], wk.t)
    <3>1. SameSpec(u, wk.t) /\ u.srv = wk.t.srv /\ u.phase = wk.t.phase
      BY <1>w, <2>2, Copied
    <3> HIDE DEF u
    <3>2. wk'.pc \in {"aspects", "stripFormulas"} /\ wk'.t = u
      BY <1>w, <2>0, <2>6 DEF Worker, u
    <3> QED BY <2>3, <2>6, <3>1, <3>2
  <2> QED BY <2>1, <2>4, <2>5, <2>6
<1>12. CASE StripFormulas
  <2> DEFINE stored == [obj EXCEPT !.applyFormulas = FALSE]
             t == Reload(wk.t, stored)
  <2>0. wk.pc = "stripFormulas" /\ UNCHANGED <<cache, sys>>
    BY <1>12 DEF StripFormulas, At, Quiet
  <2>1. stored \in SystemObject /\ SameSpec(stored, obj) /\ stored.srv = obj.srv
        /\ stored.phase = obj.phase
    BY Parts, ObjectTypes, Copied DEF Typed
  <2>2. Lost \/ (Written(stored) /\ Step("aspects", t))
    BY <1>12 DEF StripFormulas
  <2> HIDE DEF stored
  <2>3. SameSpec(t, wk.t) /\ t.srv = wk.t.srv /\ t.phase = wk.t.phase
    BY <1>w, <2>1, Copied
  <2> HIDE DEF t
  <2>4. CASE Lost
    BY <1>s, <2>0, <2>4
  <2>5. CASE Written(stored) /\ Step("aspects", t)
    <3>1. wk'.pc = "aspects" /\ wk'.t = t
      BY <1>w, <2>5, WorkerSteps DEF Step
    <3>2. Current /\ SameSpec(wk.t, obj) /\ wk.t.finalizer
      BY <1>w, <2>0, <2>5, WrittenCopy
    <3>3. wk.t.srv = obj.srv /\ (wk.t.phase = "Reconciled" => obj.phase = "Reconciled")
      BY <2>0, <3>2 DEF ReinstallInv, Copies
    <3>4. Stored(stored)
      BY <1>w, <2>0, <2>1, <2>3, <2>5, <3>1, <3>2, <3>3 DEF Stored, SameSpec, SameKind, Applying
    <3> QED BY <3>4
  <2> QED BY <2>2, <2>4, <2>5
<1>13. CASE SaveReconciled
  <2> DEFINE t == IF wk.boot THEN wk.t
                  ELSE [wk.t EXCEPT !.phase = "Reconciled", !.observed = wk.t.gen]
  <2>1. t.finalizer = wk.t.finalizer /\ t.life = wk.t.life
        /\ t.reinstall = wk.t.reinstall /\ t.srv = wk.t.srv
        /\ SameKind(t, wk.t)
    BY <1>w DEF SystemObject, SameKind
  <2>2. /\ wk.pc = "aspects" /\ UNCHANGED <<cache, sys>>
        /\ Lost \/ (Written(t) /\ wk' = Idle)
    BY <1>13 DEF SaveReconciled, Quiet, At
  <2> HIDE DEF t
  <2>3. CASE Lost
    BY <1>w, <2>2, <2>3 DEF Lost, Ends
  <2>4. CASE Written(t) /\ wk' = Idle
    <3>1. SameSpec(wk.t, obj) /\ wk.t.finalizer
      BY <1>w, <2>2, <2>4, WrittenCopy
    <3>2. Stored(t)
      BY <1>w, <2>1, <2>2, <2>4, <3>1 DEF Stored, SameSpec, SameKind
    <3> QED BY <3>2
  <2> QED BY <2>2, <2>3, <2>4
<1>14. CASE DeleteSystem
  <2>1. wk.pc = "delete" /\ Step("release", wk.t) /\ UNCHANGED <<kube, cache, history>>
    BY <1>14 DEF DeleteSystem, At
  <2>2. wk'.pc = "release" /\ wk'.t = wk.t /\ SameSpec(wk.t, wk.t)
    BY <1>w, <2>1, WorkerSteps DEF Step, SameSpec
  <2>3. GoesOn
    BY <1>w, <1>14, <2>1, <2>2 DEF GoesOn, Typed, TypeOK
  <2> QED BY <2>3
<1>15. CASE ReleaseFinalizer
  <2> DEFINE t == [wk.t EXCEPT !.life = "gone"]
  <2>1. t.finalizer = wk.t.finalizer /\ t.life = "gone"
        /\ t.reinstall = wk.t.reinstall /\ t.srv = wk.t.srv
        /\ SameKind(t, wk.t)
    BY <1>w DEF SystemObject, SameKind
  <2>2. /\ wk.pc = "release" /\ UNCHANGED <<cache, sys>>
        /\ Lost \/ (Written(t) /\ wk' = Idle)
    BY <1>15 DEF ReleaseFinalizer, Quiet, At, SaveAndEnd
  <2> HIDE DEF t
  <2>3. CASE Lost
    BY <1>w, <2>2, <2>3 DEF Lost, Ends
  <2>4. CASE Written(t) /\ wk' = Idle
    <3>1. SameSpec(wk.t, obj) /\ wk.t.finalizer
      BY <1>w, <2>2, <2>4, WrittenCopy
    <3>2. Stored(t)
      BY <1>w, <2>1, <2>2, <2>4, <3>1 DEF Stored, SameSpec, SameKind
    <3> QED BY <3>2
  <2> QED BY <2>2, <2>3, <2>4
<1>16. CASE DeleteFails
  BY <1>16, <1>w DEF DeleteFails, Ends
<1> QED BY <1>1, <1>2, <1>3, <1>4, <1>5, <1>6, <1>7, <1>8, <1>9, <1>10, <1>11, <1>12,
           <1>13, <1>14, <1>15, <1>16 DEF Pass

LEMMA InitReinstall == Init => ReinstallInv
<1> SUFFICES ASSUME Init PROVE ReinstallInv
  OBVIOUS
<1>1. obj.life = "live" /\ ~obj.finalizer /\ obj.srv = 0
  BY DEF Init
<1>2. wk = Idle /\ wk.pc = "idle" /\ cache = obj /\ owed = FALSE
  BY DEF Init, Idle
<1>3. \A i \in SystemID : sys[i].st # "boot"
  BY DEF Init, Absent
<1> QED BY <1>1, <1>2, <1>3 DEF ReinstallInv, Copies, Current, Busy, Ages, Unfinal,
                                ReinstallHeld, ReinstallNotForgotten

LEMMA BeginKeeps ==
    ASSUME Typed, ReinstallInv, Begin
    PROVE  ReinstallInv'
<1> USE DEF history
<1>1. /\ wk'.pc = IF cache.life = "deleting" THEN "delete"
                  ELSE IF cache.finalizer THEN "find" ELSE "finalizer"
      /\ wk'.t = cache /\ passOld' = cacheOld
      /\ UNCHANGED <<obj, cacheOld, cache, owed, sys>>
  BY DEF Begin, uyuni
<1>2. cache.life \in {"live", "deleting"}
  BY Parts DEF Begin, Exists, SystemObject, Typed
<1>3. Copies'
  BY <1>1 DEF ReinstallInv, Copies, Current, SameSpec
<1>4. Ages'
  BY <1>1, <1>2 DEF ReinstallInv, Ages
<1>5. Unfinal'
  BY <1>1, <1>2 DEF ReinstallInv, Unfinal, Ages
<1>6. ReinstallHeld' /\ ReinstallNotForgotten'
  BY <1>1 DEF ReinstallInv, ReinstallHeld, ReinstallNotForgotten
<1> QED BY <1>3, <1>4, <1>5, <1>6 DEF ReinstallInv

LEMMA SyncKeeps ==
    ASSUME Typed, ReinstallInv, CacheSync
    PROVE  ReinstallInv'
<1> USE DEF history, uyuni
<1>1. Copies'
  BY DEF CacheSync, ReinstallInv, Copies, Current, Busy
<1>2. Ages'
  BY DEF CacheSync, ReinstallInv, Ages, Busy
<1>3. Unfinal' /\ ReinstallHeld' /\ ReinstallNotForgotten'
  BY DEF CacheSync, ReinstallInv, Unfinal, Busy, ReinstallHeld, ReinstallNotForgotten
<1> QED BY <1>1, <1>2, <1>3 DEF ReinstallInv

\* The steps of the user, the cluster and Uyuni have a form too.
LEMMA OutsideForms ==
    ASSUME Typed, ReinstallInv, User \/ Realise \/ Vanish \/ DeadlinePasses \/ Uyuni
    PROVE  (\E new : Foreign(new)) \/ Elsewhere
<1> USE DEF kube, apiObject, uyuni, history
<1>o. obj \in SystemObject /\ (owed => obj.reinstall)
  BY Parts DEF Typed, ReinstallInv, ReinstallNotForgotten
<1>1. CASE User
  <2>1. ASSUME NEW new, UserWrites(new), new.finalizer = obj.finalizer,
               new.srv = obj.srv, new.life = obj.life, owed' => new.reinstall
        PROVE  Foreign(new)
    BY <2>1 DEF UserWrites, Foreign
  <2>2. CASE Edit
    <3>1. PICK v \in Value : UserWrites([obj EXCEPT !.val = v, !.gen = @ + 1])
      BY <2>2 DEF Edit
    <3> DEFINE new == [obj EXCEPT !.val = v, !.gen = @ + 1]
    <3>2. new.finalizer = obj.finalizer /\ new.srv = obj.srv /\ new.life = obj.life
          /\ new.reinstall = obj.reinstall
      BY <1>o DEF SystemObject
    <3>3. UserWrites(new) /\ owed' = owed
      BY <2>2, <3>1 DEF Edit
    <3> HIDE DEF new
    <3> QED BY <1>o, <2>1, <3>2, <3>3
  <2>3. CASE Rename
    <3>1. PICK h \in Hostname : UserWrites([obj EXCEPT !.hostname = h, !.gen = @ + 1])
      BY <2>3 DEF Rename
    <3> DEFINE new == [obj EXCEPT !.hostname = h, !.gen = @ + 1]
    <3>2. new.finalizer = obj.finalizer /\ new.srv = obj.srv /\ new.life = obj.life
          /\ new.reinstall = obj.reinstall
      BY <1>o DEF SystemObject
    <3>3. UserWrites(new) /\ owed' = owed
      BY <2>3, <3>1 DEF Rename
    <3> HIDE DEF new
    <3> QED BY <1>o, <2>1, <3>2, <3>3
  <2>4. CASE AskReinstall
    <3> DEFINE new == [obj EXCEPT !.reinstall = TRUE]
    <3>1. new.finalizer = obj.finalizer /\ new.srv = obj.srv /\ new.life = obj.life
          /\ new.reinstall
      BY <1>o DEF SystemObject
    <3>2. UserWrites(new)
      BY <2>4 DEF AskReinstall
    <3> HIDE DEF new
    <3> QED BY <2>1, <3>1, <3>2
  <2>5. CASE AskFormulas
    <3> DEFINE new == [obj EXCEPT !.applyFormulas = TRUE]
    <3>1. new.finalizer = obj.finalizer /\ new.srv = obj.srv /\ new.life = obj.life
          /\ new.reinstall = obj.reinstall
      BY <1>o DEF SystemObject
    <3>2. UserWrites(new) /\ owed' = owed
      BY <2>5 DEF AskFormulas
    <3> HIDE DEF new
    <3> QED BY <1>o, <2>1, <3>1, <3>2
  <2>6. ASSUME NEW f \in BOOLEAN, NEW p \in {"Delete", "Orphan"}, Delete(f, p)
        PROVE  \E new : Foreign(new)
    <3> DEFINE new == [obj EXCEPT !.force = f, !.policy = p,
                         !.life = IF obj.finalizer THEN "deleting" ELSE "gone"]
    <3>1. /\ new.finalizer = obj.finalizer /\ new.srv = obj.srv
          /\ new.reinstall = obj.reinstall
          /\ new.life = IF obj.finalizer THEN "deleting" ELSE "gone"
      BY <1>o DEF SystemObject
    <3>2. obj' = new /\ obj.life = "live" /\ Overtaken /\ UNCHANGED <<cache, wk, sys, owed>>
      BY <2>6 DEF Delete
    <3> HIDE DEF new
    <3>3. Foreign(new)
      BY <1>o, <3>1, <3>2 DEF Foreign
    <3> QED BY <3>3
  <2> QED BY <1>1, <2>2, <2>3, <2>4, <2>5, <2>6 DEF User
<1>2. CASE Realise \/ Vanish \/ DeadlinePasses
  BY <1>2 DEF Realise, Vanish, DeadlinePasses, Elsewhere
<1>3. CASE Uyuni
  <2>1. UNCHANGED <<apiObject, cache, wk, owed>>
    BY <1>3 DEF Uyuni, Register, AdminDeletes, RunAction, CheckIn
  <2>2. \A i \in SystemID : sys'[i].st = "boot" => sys[i].st = "boot"
    <3>m. \A i \in SystemID : sys[i] \in Machine /\ sys \in [SystemID -> Machine]
      BY DEF Typed, TypeOK
    <3>1. CASE Register
      <4>1. PICK k \in SystemID :
               sys' = [sys EXCEPT ![k].st = "salt", ![k].host = "h1", ![k].mac = TRUE]
        BY <3>1 DEF Register, Fresh
      <4>2. sys'[k].st = "salt" /\ \A i \in SystemID \ {k} : sys'[i] = sys[i]
        BY <3>m, <4>1 DEF Machine
      <4> QED BY <4>2
    <3>2. CASE AdminDeletes
      <4>1. PICK k \in SystemID : sys' = [sys EXCEPT ![k] = Removed]
        BY <3>2 DEF AdminDeletes, Registered
      <4>2. Removed.st = "gone"
        BY DEF Removed, Absent
      <4> QED BY <3>m, <4>1, <4>2
    <3>3. CASE CheckIn
      BY <3>3 DEF CheckIn
    <3>4. ASSUME NEW ok \in BOOLEAN, RunAction(ok)
          PROVE  \A i \in SystemID : sys'[i].st = "boot" => sys[i].st = "boot"
      <4>1. PICK n \in DOMAIN acts :
               \/ sys' = [sys EXCEPT ![acts[n].srv].repo = acts[n].ch]
               \/ sys' = sys
        BY <3>4 DEF RunAction
      <4>2. \A i \in SystemID : sys'[i].st = sys[i].st
        BY <3>m, <4>1 DEF Machine
      <4> QED BY <4>2
    <3> QED BY <1>3, <3>1, <3>2, <3>3, <3>4 DEF Uyuni
  <2> QED BY <2>1, <2>2 DEF Elsewhere
<1> QED BY <1>1, <1>2, <1>3

LEMMA ReinstallStep == Typed /\ ReinstallInv /\ [Next]_vars => ReinstallInv'
<1> SUFFICES ASSUME Typed, ReinstallInv, [Next]_vars PROVE ReinstallInv'
  OBVIOUS
<1> USE DEF Typed
<1>1. CASE UNCHANGED vars
  <2>1. Elsewhere
    BY <1>1 DEF vars, kube, uyuni, history, Elsewhere
  <2> QED BY <2>1, ElsewhereKeeps
<1>2. CASE User \/ Realise \/ Vanish \/ DeadlinePasses \/ Uyuni
  BY <1>2, OutsideForms, ForeignKeeps, ElsewhereKeeps
<1>3. CASE CacheSync \/ Begin
  BY <1>3, SyncKeeps, BeginKeeps
<1>4. CASE Pass \/ CallFails \/ DeleteFails \/ Crash
  <2>1. Ends \/ (\E t : Stored(t)) \/ GoesOn
    BY <1>4, PassForms
  <2>2. CASE Ends
    BY <2>2, EndsKeeps
  <2> QED BY <2>1, <2>2, StoredKeeps, GoesOnKeeps
<1> QED BY <1>1, <1>2, <1>3, <1>4 DEF Next

\* What the copies have in common holds in every reachable state.
LEMMA AlwaysReinstall == Spec => [](Typed /\ ReinstallInv)
<1>1. Init => Typed /\ ReinstallInv
  BY InitTyped, InitReinstall
<1>2. Typed /\ ReinstallInv /\ [Next]_vars => (Typed /\ ReinstallInv)'
  BY TypeStep, ReinstallStep DEF Typed
<1> QED BY <1>1, <1>2, PTL DEF Spec

\* A reinstall that was asked for and not scheduled keeps its annotation, for
\* every bound on edits, failures, crashes and stale reads: applyConfig strips
\* reinstall-now only after ProvisionSystem, and with a resource version that
\* saw every request made before.
THEOREM SystemReinstallNotForgotten == Spec => []ReinstallNotForgotten
BY AlwaysReinstall, PTL DEF ReinstallInv

----------------------------------------------------------------------------
(* Deletion: whose profile a profile is.                                   *)

\* An id somebody holds has been given to a system.
Used(i) == i # 0 => sys[i].st # "none"
SystemsUsed == Used(obj.srv) /\ Used(cache.srv) /\ (Busy => Used(wk.t.srv))

\* A profile is the status's, or about to be, or its id was lost or let go.
Boots == \A i \in SystemID : sys[i].st = "boot" =>
    \/ i \in abandoned \/ i = obj.srv
    \/ wk.pc = "recordProfile" /\ wk.t.srv = i

\* The finalizer goes after the system.
Deleted == wk.pc = "release" /\ ~wk.t.force /\ wk.t.policy = "Delete"
           => ~Alive(wk.t.srv)

DeletionInv == SystemsUsed /\ Boots /\ Deleted /\ DeletionLeavesNoProfile

\* No step brings a system back, or takes back that one was there.
SystemsAge == \A i \in SystemID :
    /\ sys[i].st # "none" => sys'[i].st # "none"
    /\ sys[i].st = "gone" => sys'[i].st = "gone"

Same == Typed /\ ReinstallInv

LEMMA Ids ==
    ASSUME Typed
    PROVE  /\ obj.srv \in SystemID \cup {0} /\ cache.srv \in SystemID \cup {0}
           /\ Busy => wk.t.srv \in SystemID \cup {0}
           /\ 0 \notin SystemID
           /\ \A i \in SystemID : sys[i] \in Machine
<1>1. 0 \notin SystemID
  BY ConstantsAssumption DEF SystemID
<1> QED BY <1>1, Parts DEF Typed, TypeOK, SystemObject

LEMMA InitDeletion == Init => DeletionInv
<1> SUFFICES ASSUME Init PROVE DeletionInv
  OBVIOUS
<1>1. obj.life = "live" /\ obj.srv = 0 /\ cache = obj
  BY DEF Init
<1>2. wk = Idle /\ wk.pc = "idle"
  BY DEF Init, Idle
<1>3. \A i \in SystemID : sys[i].st # "boot"
  BY DEF Init, Absent
<1> QED BY <1>1, <1>2, <1>3 DEF DeletionInv, SystemsUsed, Used, Busy, Boots, Deleted,
                                DeletionLeavesNoProfile

LEMMA ForeignDeletes ==
    ASSUME Same, DeletionInv, NEW new, Foreign(new), UNCHANGED abandoned
    PROVE  DeletionInv'
<1>1. obj' = new /\ new.srv = obj.srv /\ obj.life = "live" /\ UNCHANGED <<cache, wk, sys>>
  BY DEF Foreign
<1>2. SystemsUsed' /\ Boots' /\ Deleted'
  BY <1>1 DEF DeletionInv, SystemsUsed, Used, Busy, Boots, Deleted, Alive
<1>3. DeletionLeavesNoProfile'
  <2> SUFFICES ASSUME new.life = "gone" PROVE DeletionLeavesNoProfile'
    BY <1>1 DEF DeletionLeavesNoProfile
  <2>1. ~obj.finalizer
    BY DEF Foreign
  <2>2. obj.srv = 0 /\ \A i \in SystemID : sys[i].st # "boot"
    BY <2>1 DEF Same, ReinstallInv, Unfinal
  <2> QED BY <1>1, <2>2 DEF DeletionLeavesNoProfile, Alive
<1> QED BY <1>2, <1>3 DEF DeletionInv

LEMMA StoredDeletes ==
    ASSUME Same, DeletionInv, NEW t, t \in SystemObject, Stored(t)
    PROVE  DeletionInv'
<1>i. Idle.pc = "idle" /\ "idle" \notin Applying /\ "recordProfile" \notin Applying
      /\ "release" \notin Applying
  BY DEF Idle, Applying
<1>c. /\ Current /\ SameSpec(wk.t, obj) /\ obj' = t /\ UNCHANGED <<cache, sys>>
      /\ abandoned' = (abandoned \cup ({obj.srv} \ {0})) \ {t.srv}
      /\ t.srv \in SystemID \cup {0}
  BY WrittenCopy DEF Stored, Written, Current, Same, ReinstallInv, Copies, SystemObject
<1>w. wk' = Idle \/ (wk'.pc \in Applying /\ wk'.t.srv = t.srv)
  BY DEF Stored
<1>1. SystemsUsed'
  <2>1. Used(t.srv)
    BY DEF Stored, DeletionInv, SystemsUsed, Used, Alive
  <2> QED BY <1>c, <1>i, <1>w, <2>1 DEF DeletionInv, SystemsUsed, Used, Busy
<1>2. Boots'
  <2> SUFFICES ASSUME NEW i \in SystemID, sys[i].st = "boot"
               PROVE  i \in abandoned' \/ i = t.srv
    BY <1>c DEF Boots
  <2>1. i \in abandoned \/ i = obj.srv \/ (wk.pc = "recordProfile" /\ wk.t.srv = i)
    BY DEF DeletionInv, Boots
  <2>2. wk.pc = "recordProfile" => t.srv = wk.t.srv
    BY DEF Stored
  <2> QED BY <1>c, <2>1, <2>2, Ids DEF Same
<1>3. Deleted'
  BY <1>i, <1>w DEF Deleted
<1>4. DeletionLeavesNoProfile'
  <2> SUFFICES ASSUME t.life = "gone", t.policy = "Delete", ~t.force
               PROVE  /\ ~Alive(t.srv)
                      /\ \A i \in SystemID : sys[i].st = "boot" => i \in abandoned'
    BY <1>c DEF DeletionLeavesNoProfile, Alive
  <2>1. wk.t.life # "gone"
    BY DEF Same, ReinstallInv, Ages, Stored
  <2>2. wk.pc = "release"
    BY <1>c, <2>1 DEF Stored, SameSpec
  <2>3. t.srv = wk.t.srv /\ wk.t.srv = obj.srv
    BY <1>c, <2>2 DEF Stored, Same, ReinstallInv, Copies
  <2>4. ~wk.t.force /\ wk.t.policy = "Delete"
    BY <1>c DEF Stored, SameKind, SameSpec
  <2>5. ~Alive(t.srv)
    BY <2>2, <2>3, <2>4 DEF DeletionInv, Deleted
  <2>6. ASSUME NEW i \in SystemID, sys[i].st = "boot" PROVE i \in abandoned'
    <3>1. i # t.srv
      BY <2>5, <2>6, Ids DEF Alive, Same
    <3>2. i \in abandoned
      BY <2>2, <2>3, <2>6, <3>1 DEF DeletionInv, Boots
    <3> QED BY <1>c, <3>1, <3>2
  <2> QED BY <2>5, <2>6
<1> QED BY <1>1, <1>2, <1>3, <1>4 DEF DeletionInv

LEMMA EndsDeletes ==
    ASSUME Same, DeletionInv, Ends
    PROVE  DeletionInv'
<1>i. Idle.pc = "idle"
  BY DEF Idle
<1>c. wk' = Idle /\ UNCHANGED <<obj, cache, sys>>
  BY DEF Ends, Lost, history
<1>a. /\ abandoned \subseteq abandoned'
      /\ wk.pc = "recordProfile" /\ wk.t.srv # 0 => wk.t.srv \in abandoned'
  BY DEF Ends, Lost, DeleteFails, At, history
<1>1. SystemsUsed'
  BY <1>c, <1>i DEF DeletionInv, SystemsUsed, Used, Busy
<1>2. Boots'
  BY <1>c, <1>a, Ids DEF DeletionInv, Boots, Same
<1>3. Deleted'
  BY <1>c, <1>i DEF Deleted
<1>4. DeletionLeavesNoProfile'
  BY <1>c, <1>a DEF DeletionInv, DeletionLeavesNoProfile, Alive
<1> QED BY <1>1, <1>2, <1>3, <1>4 DEF DeletionInv

LEMMA GoesOnDeletes ==
    ASSUME Same, DeletionInv, GoesOn
    PROVE  DeletionInv'
<1> USE DEF apiObject
<1>t. sys \in [SystemID -> Machine]
  BY DEF Same, Typed, TypeOK
<1>i. Applying \cap {"idle", "recordProfile", "release", "delete", "finalizer", "find",
                     "notRegistered"} = {}
  BY DEF Applying
<1>c. UNCHANGED <<obj, cache, abandoned>> /\ Busy /\ wk'.pc # "idle"
  BY DEF GoesOn
<1>r. Removed.st = "gone"
  BY DEF Removed, Absent
<1>l. wk.pc # "delete" => obj.life # "gone"
  <2>1. obj.finalizer \/ wk.pc = "finalizer"
    BY <1>c DEF Same, ReinstallInv, Unfinal
  <2> QED BY <1>c, <1>i, <2>1 DEF GoesOn, Same, ReinstallInv, Ages
<1>1. CASE wk.pc = "delete"
  <2>1. wk'.pc = "release" /\ wk'.t.srv = wk.t.srv /\ DeleteSystem /\ SameSpec(wk'.t, wk.t)
    BY <1>1, <1>i DEF GoesOn
  <2>2. /\ \/ sys' = sys
           \/ sys' = [sys EXCEPT ![wk.t.srv] = Removed]
           \/ \E f : sys' = [sys EXCEPT ![wk.t.srv].cfg = f]
        /\ ~wk.t.force /\ wk.t.policy = "Delete" /\ Alive(wk.t.srv)
             => sys' = [sys EXCEPT ![wk.t.srv] = Removed]
    BY <2>1 DEF DeleteSystem
  <2>3. \A i \in SystemID : sys'[i].st = sys[i].st \/ sys'[i].st = "gone"
    <3>1. \A f : \A i \in SystemID : [sys EXCEPT ![wk.t.srv].cfg = f][i].st = sys[i].st
      BY <1>t DEF Machine
    <3>2. CASE \E f : sys' = [sys EXCEPT ![wk.t.srv].cfg = f]
      BY <3>1, <3>2
    <3>3. CASE sys' = sys \/ sys' = [sys EXCEPT ![wk.t.srv] = Removed]
      BY <1>t, <1>r, <3>3
    <3> QED BY <2>2, <3>2, <3>3
  <2>4. SystemsUsed'
    BY <1>c, <2>1, <2>3, Ids DEF DeletionInv, SystemsUsed, Used, Busy, Same
  <2>5. Boots'
    BY <1>1, <1>c, <2>3 DEF DeletionInv, Boots
  <2>6. Deleted'
    <3> SUFFICES ASSUME ~wk.t.force, wk.t.policy = "Delete" PROVE ~Alive(wk.t.srv)'
      BY <2>1 DEF Deleted, SameSpec, Alive
    <3>1. CASE Alive(wk.t.srv)
      <4>1. wk.t.srv \in SystemID
        BY <1>c, <3>1, Ids DEF Alive, Same
      <4> QED BY <1>t, <1>r, <2>1, <2>2, <3>1, <4>1 DEF Alive
    <3>2. CASE ~Alive(wk.t.srv)
      BY <1>c, <2>1, <2>3, <3>2, Ids DEF Alive, Same
    <3> QED BY <3>1, <3>2
  <2>7. DeletionLeavesNoProfile'
    BY <1>c, <2>3, Ids DEF DeletionInv, DeletionLeavesNoProfile, Alive, Same
  <2> QED BY <2>4, <2>5, <2>6, <2>7 DEF DeletionInv
<1>2. CASE wk.pc = "notRegistered"
  <2>1. /\ wk'.pc = "recordProfile"
        /\ wk'.t.srv \in SystemID /\ sys'[wk'.t.srv].st = "boot"
        /\ \A i \in SystemID \ {wk'.t.srv} : sys'[i] = sys[i]
    BY <1>2, <1>i DEF GoesOn
  <2>2. SystemsUsed'
    BY <1>c, <2>1, Ids DEF DeletionInv, SystemsUsed, Used, Busy, Same
  <2>3. Boots'
    BY <1>2, <1>c, <2>1 DEF DeletionInv, Boots
  <2>4. Deleted' /\ DeletionLeavesNoProfile'
    BY <1>2, <1>c, <1>l, <2>1 DEF Deleted, DeletionLeavesNoProfile
  <2> QED BY <2>2, <2>3, <2>4 DEF DeletionInv
<1>3. CASE wk.pc \notin {"delete", "notRegistered"}
  <2>1. /\ \A i \in SystemID : sys'[i].st = sys[i].st
        /\ wk'.pc \notin {"release", "recordProfile"} /\ wk.pc # "recordProfile"
        /\ wk'.t.srv \in {0, wk.t.srv}
    BY <1>3, <1>i DEF GoesOn
  <2>2. SystemsUsed'
    BY <1>c, <2>1, Ids DEF DeletionInv, SystemsUsed, Used, Busy, Same
  <2>3. Boots'
    BY <1>c, <2>1 DEF DeletionInv, Boots
  <2>4. Deleted' /\ DeletionLeavesNoProfile'
    BY <1>3, <1>c, <1>l, <2>1 DEF Deleted, DeletionLeavesNoProfile
  <2> QED BY <2>2, <2>3, <2>4 DEF DeletionInv
<1> QED BY <1>1, <1>2, <1>3

LEMMA ElsewhereDeletes ==
    ASSUME Same, DeletionInv, Elsewhere, UNCHANGED abandoned,
           UNCHANGED sys \/ (Exists(obj) /\ SystemsAge)
    PROVE  DeletionInv'
<1>c. UNCHANGED <<obj, cache, wk, abandoned>>
  BY DEF Elsewhere, apiObject
<1>1. CASE UNCHANGED sys
  BY <1>1, <1>c DEF DeletionInv, SystemsUsed, Used, Busy, Boots, Deleted, Alive,
                    DeletionLeavesNoProfile
<1>2. CASE Exists(obj) /\ SystemsAge
  <2>1. SystemsUsed'
    BY <1>2, <1>c, Ids DEF DeletionInv, SystemsUsed, Used, Busy, Same, SystemsAge
  <2>2. Boots'
    BY <1>c DEF DeletionInv, Boots, Elsewhere
  <2>3. Deleted'
    <3> SUFFICES ASSUME wk.pc = "release", ~wk.t.force, wk.t.policy = "Delete"
                 PROVE  ~Alive(wk.t.srv)'
      BY <1>c DEF Deleted, Alive
    <3>1. Busy
      BY DEF Busy
    <3>2. wk.t.srv # 0 => wk.t.srv \in SystemID /\ sys[wk.t.srv].st = "gone"
      <4>1. ~Alive(wk.t.srv) /\ Used(wk.t.srv)
        BY <3>1 DEF DeletionInv, Deleted, SystemsUsed
      <4> QED BY <3>1, <4>1, Ids DEF Alive, Used, Machine, Same
    <3> QED BY <1>2, <1>c, <3>2 DEF Alive, SystemsAge
  <2>4. DeletionLeavesNoProfile'
    BY <1>2, <1>c DEF DeletionLeavesNoProfile, Exists
  <2> QED BY <2>1, <2>2, <2>3, <2>4 DEF DeletionInv
<1> QED BY <1>1, <1>2

\* What happens to the systems behind the operator's back.
LEMMA UyuniAges ==
    ASSUME Typed, Uyuni
    PROVE  Exists(obj) /\ SystemsAge
<1>m. \A i \in SystemID : sys[i] \in Machine /\ sys \in [SystemID -> Machine]
  BY DEF Typed, TypeOK
<1>1. CASE Register
  <2>1. PICK k \in SystemID :
           /\ sys' = [sys EXCEPT ![k].st = "salt", ![k].host = "h1", ![k].mac = TRUE]
           /\ sys[k].st \in {"boot", "none"}
    BY <1>1 DEF Register, Fresh
  <2>2. sys'[k].st = "salt" /\ \A i \in SystemID \ {k} : sys'[i] = sys[i]
    BY <1>m, <2>1 DEF Machine
  <2> QED BY <2>1, <2>2 DEF SystemsAge, Uyuni
<1>2. CASE AdminDeletes
  <2>1. PICK k \in SystemID : sys' = [sys EXCEPT ![k] = Removed]
    BY <1>2 DEF AdminDeletes, Registered
  <2>2. Removed.st = "gone"
    BY DEF Removed, Absent
  <2> QED BY <1>m, <2>1, <2>2 DEF SystemsAge, Uyuni
<1>3. CASE CheckIn
  BY <1>3 DEF CheckIn, SystemsAge, Uyuni
<1>4. ASSUME NEW ok \in BOOLEAN, RunAction(ok) PROVE SystemsAge
  <2>1. PICK n \in DOMAIN acts :
           \/ sys' = [sys EXCEPT ![acts[n].srv].repo = acts[n].ch]
           \/ sys' = sys
    BY <1>4 DEF RunAction
  <2>2. \A i \in SystemID : sys'[i].st = sys[i].st
    BY <1>m, <2>1 DEF Machine
  <2> QED BY <2>2 DEF SystemsAge
<1> QED BY <1>1, <1>2, <1>3, <1>4 DEF Uyuni

LEMMA DeletionStep == Same /\ DeletionInv /\ [Next]_vars => DeletionInv'
<1> SUFFICES ASSUME Same, DeletionInv, [Next]_vars PROVE DeletionInv'
  OBVIOUS
<1> USE DEF history, uyuni, kube, apiObject
<1>1. CASE UNCHANGED vars
  <2>1. Elsewhere /\ UNCHANGED <<abandoned, sys>>
    BY <1>1 DEF vars, Elsewhere
  <2> QED BY <2>1, ElsewhereDeletes
<1>2. CASE User \/ Realise \/ Vanish \/ DeadlinePasses \/ Uyuni
  <2>1. (\E new : Foreign(new)) \/ Elsewhere
    BY <1>2, OutsideForms DEF Same
  <2>2. UNCHANGED abandoned
    BY <1>2 DEF User, Edit, Rename, AskReinstall, AskFormulas, UserWrites, Delete, Realise,
       Vanish, DeadlinePasses, Uyuni, Register, AdminDeletes, CheckIn, RunAction
  <2>3. (UNCHANGED sys) \/ (Exists(obj) /\ SystemsAge)
    <3>1. CASE Uyuni
      BY <3>1, UyuniAges DEF Same
    <3>2. CASE User \/ Realise \/ Vanish \/ DeadlinePasses
      BY <3>2 DEF User, Edit, Rename, AskReinstall, AskFormulas, UserWrites, Delete,
                  Realise, Vanish, DeadlinePasses
    <3> QED BY <1>2, <3>1, <3>2
  <2> QED BY <2>1, <2>2, <2>3, ForeignDeletes, ElsewhereDeletes
<1>3. CASE CacheSync
  <2>1. cache' = obj /\ UNCHANGED <<obj, wk, sys, abandoned>>
    BY <1>3 DEF CacheSync
  <2> QED BY <2>1 DEF DeletionInv, SystemsUsed, Used, Busy, Boots, Deleted, Alive,
                      DeletionLeavesNoProfile
<1>4. CASE Begin
  <2>1. /\ wk'.t = cache /\ wk'.pc \in {"delete", "find", "finalizer"}
        /\ UNCHANGED <<obj, cache, sys, abandoned>> /\ wk.pc = "idle"
    BY <1>4 DEF Begin, At
  <2> QED BY <2>1 DEF DeletionInv, SystemsUsed, Used, Busy, Boots, Deleted, Alive,
                      DeletionLeavesNoProfile
<1>5. CASE Pass \/ CallFails \/ DeleteFails \/ Crash
  <2>1. Ends \/ (\E t : Stored(t)) \/ GoesOn
    BY <1>5, PassForms DEF Same
  <2>2. ASSUME NEW t, Stored(t) PROVE DeletionInv'
    <3>1. t \in SystemObject
      <4>1. TypeOK'
        BY TypeStep DEF Same, Typed
      <4>2. obj' = t
        BY <2>2 DEF Stored, Written
      <4> QED BY <4>1, <4>2 DEF TypeOK
    <3> QED BY <2>2, <3>1, StoredDeletes
  <2> QED BY <2>1, <2>2, EndsDeletes, GoesOnDeletes
<1> QED BY <1>1, <1>2, <1>3, <1>4, <1>5 DEF Next

LEMMA AlwaysDeletion == Spec => [](Same /\ DeletionInv)
<1>1. Init => Same /\ DeletionInv
  BY InitTyped, InitReinstall, InitDeletion DEF Same
<1>2. Same /\ DeletionInv /\ [Next]_vars => (Same /\ DeletionInv)'
  BY TypeStep, ReinstallStep, DeletionStep DEF Same, Typed
<1> QED BY <1>1, <1>2, PTL DEF Spec

\* handleDeletion releases the finalizer only after DeleteSystem, and every
\* profile handleNotRegistered creates is the status's until a write moves the
\* status on: with deletionPolicy Delete nothing the operator knows of stays.
THEOREM SystemDeletion == Spec => []DeletionLeavesNoProfile
BY AlwaysDeletion, PTL DEF DeletionInv

----------------------------------------------------------------------------
(* The configuration: what the status and the passes know of it.           *)

\* The informer is behind the resource and the pass behind the informer; what
\* has been observed or pushed is no newer than either.
Gens ==
    /\ obj.observed <= cache.gen /\ obj.fgen <= cache.gen /\ cache.gen <= obj.gen
    /\ cache.observed <= cache.gen /\ cache.fgen <= cache.gen
    /\ cache.gen = obj.gen => cache.val = obj.val
    /\ Busy => /\ wk.t.gen <= cache.gen
               /\ obj.observed <= wk.t.gen /\ obj.fgen <= wk.t.gen
               /\ wk.t.observed <= wk.t.gen /\ wk.t.fgen <= wk.t.gen
               /\ wk.t.gen = obj.gen => wk.t.val = obj.val

Sure == Aspect \ untold
Cfg(i, a) == sys[i].cfg[a]
Settled == obj.life = "live" /\ Alive(obj.srv)
Setting == {"aspects", "stripFormulas"}

\* ReconciledMeansConfigured, at every step of a pass: one of an older
\* generation no longer gets past obj.observed.
Configured ==
    Settled /\ obj.phase = "Reconciled" /\ obj.observed = obj.gen
    => \A a \in Sure : Cfg(obj.srv, a) = obj.val

\* What the status tells is so, or the pass has set another value and tells it.
ToldTrue == Settled =>
    \A a \in Sure \cap Told : obj.told[a] # 0 =>
       \/ Cfg(obj.srv, a) = obj.told[a]
       \/ wk.pc \in Setting /\ wk.t.srv = obj.srv /\ wk.t.told[a] # obj.told[a]

Untouched == Current /\ wk.pc \notin Setting =>
                wk.t.told = obj.told /\ wk.t.fgen = obj.fgen

PassToldTrue == Settled /\ Current /\ wk.t.srv = obj.srv =>
    \A a \in Sure \cap Told : wk.t.told[a] # 0 => Cfg(obj.srv, a) = wk.t.told[a]

\* Formula data pushed for the current generation is that generation's.
FormulasTrue == Settled /\ "formulas" \in Sure =>
    /\ obj.fgen = obj.gen => Cfg(obj.srv, "formulas") = obj.val
    /\ Current /\ wk.t.srv = obj.srv /\ wk.t.fgen = wk.t.gen
         => Cfg(obj.srv, "formulas") = obj.val

\* What a pass no longer has to do is done.
Applied == Settled /\ Current =>
    /\ wk.pc \in {"channels"} \cup Setting /\ "details" \in Aspect
         => Cfg(obj.srv, "details") = obj.val
    /\ wk.pc \in Setting /\ ~wk.boot
         => \A a \in Sure \ wk.todo : Cfg(obj.srv, a) = obj.val
    /\ wk.pc \in {"reinstall", "recordReinstall", "strip", "details", "channels"}
         => wk.todo = Aspect \ {"details"}

ConfigInv == /\ Gens /\ Configured /\ ToldTrue /\ Untouched /\ PassToldTrue
             /\ FormulasTrue /\ Applied

Deep == Same /\ DeletionInv

Numbers ==
    /\ obj.gen \in Nat \ {0} /\ obj.observed \in Nat /\ obj.fgen \in Nat
    /\ cache.gen \in Nat \ {0} /\ cache.observed \in Nat /\ cache.fgen \in Nat
    /\ Busy => /\ wk.t.gen \in Nat \ {0} /\ wk.t.observed \in Nat
               /\ wk.t.fgen \in Nat /\ wk.t.val \in Value
    /\ obj.val \in Value /\ 0 \notin Value

LEMMA AreNumbers == ASSUME Typed PROVE Numbers
<1>1. \A t \in SystemObject : /\ t.gen \in 1..MaxGen /\ t.observed \in 0..MaxGen
                              /\ t.fgen \in 0..MaxGen /\ t.val \in Value
  BY DEF SystemObject
<1>2. \A g \in 1..MaxGen : g \in Nat \ {0}
  BY ConstantsAssumption
<1>3. \A g \in 0..MaxGen : g \in Nat
  BY ConstantsAssumption
<1>4. 0 \notin Value
  BY DEF Value
<1> QED BY <1>1, <1>2, <1>3, <1>4, Parts DEF Typed, Numbers

LEMMA InitConfig == Init => ConfigInv
<1> SUFFICES ASSUME Init PROVE ConfigInv
  OBVIOUS
<1>1. /\ obj.gen = 1 /\ obj.observed = 0 /\ obj.fgen = 0 /\ obj.srv = 0 /\ cache = obj
  BY DEF Init
<1>2. wk = Idle /\ wk.pc = "idle"
  BY DEF Init, Idle
<1>3. ~Settled /\ ~Busy
  BY <1>1, <1>2 DEF Settled, Alive, Busy
<1> QED BY <1>1, <1>3 DEF ConfigInv, Gens, Configured, ToldTrue, Untouched, Current,
                          PassToldTrue, FormulasTrue, Applied

LEMMA ForeignTells ==
    ASSUME Deep, ConfigInv, NEW new, Foreign(new), UNCHANGED untold,
           new.told = obj.told, new.fgen = obj.fgen, new.observed = obj.observed,
           new.phase = obj.phase,
           \/ new.gen = obj.gen /\ new.val = obj.val
           \/ new.gen = obj.gen + 1
    PROVE  ConfigInv'
<1>c. /\ obj' = new /\ UNCHANGED <<cache, wk, sys>> /\ new.srv = obj.srv
      /\ obj.life = "live" /\ ~Current' /\ Busy' = Busy
  BY DEF Foreign, Overtaken, Current, Busy
<1>g. Numbers
  BY AreNumbers DEF Deep, Same
<1>1. Gens'
  BY <1>c, <1>g DEF ConfigInv, Gens, Numbers
<1>s. Settled' => Settled
  BY <1>c DEF Settled, Alive
<1>n. new.gen = new.observed \/ new.gen = new.fgen => new.gen = obj.gen /\ new.val = obj.val
  BY <1>c, <1>g DEF ConfigInv, Gens, Numbers
<1>2. Configured'
  BY <1>c, <1>s, <1>n DEF ConfigInv, Configured, Sure, Cfg
<1>3. ToldTrue'
  BY <1>c, <1>s DEF ConfigInv, ToldTrue, Sure, Cfg
<1>4. FormulasTrue'
  BY <1>c, <1>s, <1>n DEF ConfigInv, FormulasTrue, Sure, Cfg
<1>5. Untouched' /\ PassToldTrue' /\ Applied'
  BY <1>c DEF Untouched, PassToldTrue, Applied
<1> QED BY <1>1, <1>2, <1>3, <1>4, <1>5 DEF ConfigInv

LEMMA ElsewhereTells ==
    ASSUME Deep, ConfigInv, UNCHANGED <<apiObject, cache, wk, untold>>,
           Settled' => Settled /\ sys'[obj.srv].cfg = sys[obj.srv].cfg
    PROVE  ConfigInv'
<1> USE DEF apiObject
<1>1. Gens' /\ Untouched'
  BY DEF ConfigInv, Gens, Untouched, Current, Busy
<1>2. Configured'
  BY DEF ConfigInv, Configured, Sure, Cfg
<1>3. ToldTrue'
  BY DEF ConfigInv, ToldTrue, Sure, Cfg
<1>4. PassToldTrue'
  BY DEF ConfigInv, PassToldTrue, Sure, Cfg, Current, Busy
<1>5. FormulasTrue'
  BY DEF ConfigInv, FormulasTrue, Sure, Cfg, Current, Busy
<1>6. Applied'
  BY DEF ConfigInv, Applied, Sure, Cfg, Current, Busy
<1> QED BY <1>1, <1>2, <1>3, <1>4, <1>5, <1>6 DEF ConfigInv

LEMMA EndsTells ==
    ASSUME Deep, ConfigInv, Ends
    PROVE  ConfigInv'
<1>i. Idle.pc = "idle" /\ "idle" \notin Setting
  BY DEF Idle, Setting
<1>c. wk' = Idle /\ UNCHANGED <<obj, cache, sys>> /\ ~Busy' /\ ~Current'
  BY <1>i DEF Ends, Lost, history, Busy, Current
<1>u. /\ untold \subseteq untold'
      /\ obj.life = "live" => Unrecorded \subseteq untold'
  <2>1. CASE Lost
    BY <2>1 DEF Lost
  <2>2. CASE DeleteFails /\ UNCHANGED untold
    BY <2>2 DEF DeleteFails, At, Deep, Same, ReinstallInv, Ages
  <2> QED BY <2>1, <2>2 DEF Ends, history
<1>1. Gens' /\ Untouched' /\ PassToldTrue' /\ Applied'
  BY <1>c DEF ConfigInv, Gens, Untouched, PassToldTrue, Applied
<1>2. Configured'
  BY <1>c, <1>u DEF ConfigInv, Configured, Settled, Alive, Sure, Cfg
<1>3. ToldTrue'
  BY <1>c, <1>u DEF ConfigInv, ToldTrue, Settled, Alive, Sure, Cfg, Unrecorded
<1>4. FormulasTrue'
  BY <1>c, <1>u DEF ConfigInv, FormulasTrue, Settled, Alive, Sure, Cfg
<1> QED BY <1>1, <1>2, <1>3, <1>4 DEF ConfigInv

\* What a write of the pass's copy tells when its step has set nothing.
Tells(t) ==
    /\ t.told = wk.t.told /\ t.fgen = wk.t.fgen /\ t.observed = wk.t.observed
    /\ SameKind(t, wk.t) /\ t.srv = wk.t.srv
    /\ t.phase = "Reconciled" => wk.t.phase = "Reconciled"
    /\ t.life = "live" => wk.t.life = "live"

\* What a current pass knows.
Knows ==
    /\ wk.t.life = obj.life /\ wk.t.gen = obj.gen /\ wk.t.val = obj.val
    /\ wk.t.observed = obj.observed
    /\ wk.t.phase = "Reconciled" => obj.phase = "Reconciled"
    /\ wk.pc # "recordProfile" /\ wk.t.srv # 0 => wk.t.srv = obj.srv
    /\ obj.fgen <= obj.gen /\ wk.t.fgen <= wk.t.gen
    /\ wk.t.gen <= cache.gen /\ obj.observed <= obj.gen

LEMMA CurrentKnows == ASSUME Deep, ConfigInv, Current PROVE Knows
BY DEF Deep, Same, ReinstallInv, Copies, SameSpec, Current, ConfigInv, Gens, Knows

LEMMA SaveTells ==
    ASSUME Deep, ConfigInv, Busy, NEW t, Written(t), Tells(t),
           UNCHANGED <<cache, sys, untold>>, wk.pc # "recordProfile",
           \/ wk' = Idle
           \/ /\ wk.pc = "recordReinstall" /\ wk'.pc = "strip"
              /\ wk'.t = t /\ wk'.todo = wk.todo
    PROVE  ConfigInv'
<1>i. Idle.pc = "idle" /\ {"idle", "strip", "recordReinstall"} \cap Setting = {}
  BY DEF Idle, Setting
<1>c. Current /\ obj' = t
  BY DEF Written, Current
<1>k. Knows
  BY <1>c, CurrentKnows
<1>g. Numbers
  BY AreNumbers DEF Deep, Same
<1>w. wk'.pc = "idle" \/ (wk'.pc = "strip" /\ wk'.t = t /\ wk'.todo = wk.todo)
  BY <1>i
<1>1. Gens'
  BY <1>c, <1>k, <1>g, <1>w DEF ConfigInv, Gens, Tells, SameKind, Busy, Current, Knows, Numbers
<1>s. Settled' => Settled /\ t.srv = obj.srv /\ wk.t.srv = obj.srv
  BY <1>c, <1>k DEF Settled, Alive, Tells, Knows
<1>2. Configured'
  BY <1>c, <1>k, <1>s DEF ConfigInv, Configured, Sure, Cfg, Tells, SameKind, Knows
<1>3. ToldTrue'
  BY <1>c, <1>k, <1>s DEF ConfigInv, PassToldTrue, ToldTrue, Sure, Cfg, Tells, Knows
<1>4. FormulasTrue'
  <2> SUFFICES ASSUME Settled', "formulas" \in Sure,
                      t.fgen = t.gen
               PROVE  Cfg(obj.srv, "formulas") = t.val
    BY <1>c, <1>s, <1>w DEF FormulasTrue, Sure, Cfg, Current, Busy
  <2> QED BY <1>c, <1>k, <1>s DEF ConfigInv, FormulasTrue, Tells, SameKind, Knows
<1>5. PassToldTrue'
  BY <1>c, <1>k, <1>s, <1>w DEF ConfigInv, PassToldTrue, Sure, Cfg, Tells, Current, Busy, Knows
<1>6. Untouched'
  BY <1>c, <1>w DEF Untouched, Current, Busy
<1>7. Applied'
  BY <1>c, <1>i, <1>s, <1>w DEF ConfigInv, Applied, Current, Busy
<1> QED BY <1>1, <1>2, <1>3, <1>4, <1>5, <1>6, <1>7 DEF ConfigInv

\* A write that gives the status another system, whose configuration nobody
\* has a record of.
LEMMA NewTells ==
    ASSUME Deep, ConfigInv, Busy, NEW t, Written(t), wk.pc \notin Setting,
           t.told = wk.t.told, t.fgen = wk.t.fgen, t.observed = wk.t.observed,
           SameKind(t, wk.t), t.life = wk.t.life,
           t.srv = obj.srv => wk.t.srv = obj.srv /\ t.phase # "Reconciled",
           UNCHANGED <<cache, sys>>, untold' = NewSystem(t),
           \/ wk' = Idle
           \/ /\ wk'.pc \in {"reinstall", "details"} /\ wk'.t = t
              /\ wk'.todo = Aspect \ {"details"}
    PROVE  ConfigInv'
<1>i. Idle.pc = "idle" /\ {"idle", "reinstall", "details"} \cap ({"channels"} \cup Setting) = {}
  BY DEF Idle, Setting
<1>c. Current /\ obj' = t
  BY DEF Written, Current
<1>k. Knows
  BY <1>c, CurrentKnows
<1>g. Numbers
  BY AreNumbers DEF Deep, Same
<1>t. wk.t.told = obj.told /\ wk.t.fgen = obj.fgen
  BY <1>c DEF ConfigInv, Untouched
<1>w. \/ wk'.pc = "idle"
      \/ /\ wk'.pc \in {"reinstall", "details"} /\ wk'.t = t
         /\ wk'.todo = Aspect \ {"details"}
  BY <1>i
<1>n. \/ t.srv = obj.srv /\ untold' = untold
      \/ Sure' = {}
      \/ /\ untold' = untold /\ t.observed = 0 /\ t.fgen = 0
         /\ \A a \in DOMAIN t.told : t.told[a] = 0
  BY <1>k, <1>t DEF NewSystem, Sure, Knows
<1>d. DOMAIN t.told = Aspect \cap Told
  BY <1>t, Parts DEF Deep, Same, Typed, SystemObject
<1>s. Settled' /\ t.srv = obj.srv => Settled
  BY <1>c, <1>k DEF Settled, Alive, Knows
<1>z. t.gen = obj.gen /\ t.val = obj.val /\ t.gen \in Nat \ {0}
  BY <1>k, <1>g DEF Knows, Numbers, SameKind
<1>1. Gens'
  BY <1>c, <1>k, <1>g, <1>w DEF ConfigInv, Gens, SameKind, Busy, Current, Knows, Numbers
<1>2. Configured'
  BY <1>c, <1>n, <1>z DEF Configured
<1>3. ToldTrue'
  <2> SUFFICES ASSUME Settled', NEW a \in Sure' \cap Told, t.told[a] # 0
               PROVE  Cfg(t.srv, a) = t.told[a]
    BY <1>c DEF ToldTrue, Cfg
  <2>1. t.srv = obj.srv /\ a \in Sure
    BY <1>n, <1>d DEF Sure
  <2> QED BY <1>c, <1>s, <2>1 DEF ConfigInv, PassToldTrue
<1>4. FormulasTrue'
  <2> SUFFICES ASSUME Settled', "formulas" \in Sure', t.fgen = t.gen
               PROVE  Cfg(t.srv, "formulas") = t.val
    BY <1>c, <1>w DEF FormulasTrue, Cfg, Current, Busy
  <2>1. t.srv = obj.srv /\ "formulas" \in Sure
    BY <1>n, <1>z DEF Sure
  <2> QED BY <1>c, <1>s, <1>z, <1>t, <2>1 DEF ConfigInv, FormulasTrue
<1>5. PassToldTrue'
  <2> SUFFICES ASSUME Settled', NEW a \in Sure' \cap Told, t.told[a] # 0
               PROVE  Cfg(t.srv, a) = t.told[a]
    BY <1>c, <1>w DEF PassToldTrue, Cfg, Current, Busy
  <2>1. t.srv = obj.srv /\ a \in Sure
    BY <1>n, <1>d DEF Sure
  <2> QED BY <1>c, <1>s, <2>1 DEF ConfigInv, PassToldTrue
<1>6. Untouched'
  BY <1>c, <1>w DEF Untouched, Current, Busy
<1>7. Applied'
  BY <1>i, <1>w DEF Applied, Current, Busy
<1> QED BY <1>1, <1>2, <1>3, <1>4, <1>5, <1>6, <1>7 DEF ConfigInv

\* The write that says Reconciled, and clears the record of what was not told.
LEMMA ReconciledTells ==
    ASSUME Deep, ConfigInv, SaveReconciled
    PROVE  ConfigInv'
<1>b. Busy /\ wk \in Worker /\ wk.t \in SystemObject /\ wk.pc = "aspects" /\ wk.todo = {}
  BY PassCopy DEF Deep, Same, Pass, SaveReconciled, At
<1>i. Idle.pc = "idle"
  BY DEF Idle
<1> DEFINE t == IF wk.boot THEN wk.t
                ELSE [wk.t EXCEPT !.phase = "Reconciled", !.observed = wk.t.gen]
<1>1. /\ t.told = wk.t.told /\ t.fgen = wk.t.fgen /\ t.gen = wk.t.gen /\ t.val = wk.t.val
      /\ t.life = wk.t.life /\ t.srv = wk.t.srv
      /\ IF wk.boot THEN t = wk.t ELSE t.observed = wk.t.gen
  BY <1>b DEF SystemObject
<1>2. /\ UNCHANGED <<cache, sys>>
      /\ \/ /\ Written(t) /\ wk' = Idle
            /\ untold' = {a \in untold : sys[t.srv].cfg[a] # t.val
                                         \/ (a \in Told /\ t.told[a] # t.val)}
         \/ Lost
  BY DEF SaveReconciled, Quiet, uyuni
<1> HIDE DEF t
<1>3. CASE Lost
  <2>1. Ends
    BY <1>b, <1>2, <1>3 DEF Ends
  <2> QED BY <2>1, EndsTells
<1>4. CASE /\ Written(t) /\ wk' = Idle
           /\ untold' = {a \in untold : sys[t.srv].cfg[a] # t.val
                                        \/ (a \in Told /\ t.told[a] # t.val)}
  <2>c. Current /\ obj' = t
    BY <1>b, <1>4 DEF Written, Current
  <2>k. Knows
    BY <2>c, CurrentKnows
  <2>g. Numbers
    BY AreNumbers DEF Deep, Same
  <2>u. ~Busy' /\ ~Current'
    BY <1>i, <1>4 DEF Busy, Current
  <2>n. \A a \in Sure' : \/ a \in Sure
                         \/ /\ Cfg(t.srv, a) = t.val
                            /\ a \in Told => t.told[a] = t.val
    BY <1>4 DEF Sure, Cfg
  <2>v. obj'.val = obj.val /\ t.val = obj.val /\ wk.t.val = obj.val
    BY <1>1, <2>c, <2>k DEF Knows
  <2>s. Settled' => Settled /\ t.srv = obj.srv /\ wk.t.srv = obj.srv
    BY <1>1, <1>2, <1>b, <2>c, <2>k DEF Settled, Alive, Knows
  <2>1. Gens'
    BY <1>1, <1>2, <2>c, <2>k, <2>g, <2>u DEF ConfigInv, Gens, Busy, Current, Knows, Numbers
  <2>2. Configured'
    <3> SUFFICES ASSUME Settled', t.phase = "Reconciled", t.observed = t.gen,
                        NEW a \in Sure
                 PROVE  Cfg(t.srv, a) = t.val
      BY <1>2, <2>c, <2>n DEF Configured, Cfg
    <3>1. CASE wk.boot
      BY <1>1, <2>k, <2>s, <2>v, <3>1 DEF ConfigInv, Configured, Knows
    <3>2. CASE ~wk.boot
      BY <1>b, <2>c, <2>s, <2>v, <3>2 DEF ConfigInv, Applied, Setting
    <3> QED BY <3>1, <3>2
  <2>3. ToldTrue'
    <3> SUFFICES ASSUME Settled', NEW a \in Sure' \cap Told, t.told[a] # 0
                 PROVE  Cfg(t.srv, a) = t.told[a]
      BY <1>2, <2>c DEF ToldTrue, Cfg
    <3> QED BY <1>1, <2>c, <2>n, <2>s DEF ConfigInv, PassToldTrue
  <2>4. FormulasTrue'
    <3> SUFFICES ASSUME Settled', "formulas" \in Sure', t.fgen = t.gen
                 PROVE  Cfg(t.srv, "formulas") = t.val
      BY <1>2, <2>c, <2>u DEF FormulasTrue, Cfg
    <3> QED BY <1>1, <2>c, <2>n, <2>s, <2>v DEF ConfigInv, FormulasTrue
  <2>5. Untouched' /\ PassToldTrue' /\ Applied'
    BY <2>u DEF Untouched, PassToldTrue, Applied
  <2> QED BY <2>1, <2>2, <2>3, <2>4, <2>5 DEF ConfigInv
<1> QED BY <1>2, <1>3, <1>4

\* The Update that strips apply-formula-values: what it takes from the copy is
\* no longer told.
LEMMA StripTells ==
    ASSUME Deep, ConfigInv, StripFormulas
    PROVE  ConfigInv'
<1>b. Busy /\ wk \in Worker /\ wk.t \in SystemObject /\ wk.pc = "stripFormulas"
  BY PassCopy DEF Deep, Same, Pass, StripFormulas, At
<1>o. obj \in SystemObject
  BY Parts DEF Deep, Same, Typed
<1> DEFINE stored == [obj EXCEPT !.applyFormulas = FALSE]
           t == Reload(wk.t, stored)
<1>1. /\ stored.told = obj.told /\ stored.fgen = obj.fgen /\ stored.gen = obj.gen
      /\ stored.val = obj.val /\ stored.life = obj.life /\ stored.srv = obj.srv
      /\ stored.phase = obj.phase /\ stored.observed = obj.observed
      /\ stored \in SystemObject
  BY <1>o DEF SystemObject
<1>2. /\ UNCHANGED <<cache, sys>>
      /\ \/ /\ Written(stored) /\ Step("aspects", t)
            /\ untold' = untold \cup {a \in DOMAIN t.told : t.told[a] # wk.t.told[a]}
         \/ Lost
  BY DEF StripFormulas, Quiet, uyuni
<1> HIDE DEF stored
<1>3. /\ t.gen = wk.t.gen /\ t.val = wk.t.val /\ t.srv = wk.t.srv
      /\ t.observed = wk.t.observed
      /\ t.fgen = obj.fgen \/ t.fgen = wk.t.fgen
      /\ \A a \in Aspect \cap Told : t.told[a] = IF obj.told[a] = 0 THEN wk.t.told[a]
                                                 ELSE obj.told[a]
      /\ DOMAIN t.told = Aspect \cap Told
  BY <1>b, <1>o, <1>1 DEF SystemObject, Reload
<1> HIDE DEF t
<1>4. CASE Lost
  <2>1. Ends
    BY <1>b, <1>2, <1>4 DEF Ends
  <2> QED BY <2>1, EndsTells
<1>5. CASE /\ Written(stored) /\ Step("aspects", t)
           /\ untold' = untold \cup {a \in DOMAIN t.told : t.told[a] # wk.t.told[a]}
  <2>c. Current /\ obj' = stored /\ Current'
    BY <1>b, <1>5 DEF Written, Current, Busy, Step, Worker
  <2>k. Knows
    BY <2>c, CurrentKnows
  <2>g. Numbers
    BY AreNumbers DEF Deep, Same
  <2>w. wk'.pc = "aspects" /\ wk'.t = t /\ wk'.todo = wk.todo /\ wk'.boot = wk.boot
    BY <1>b, <1>5 DEF Step, Worker
  <2>n. Sure' \subseteq Sure /\ \A a \in Sure' \cap Told : t.told[a] = wk.t.told[a]
    BY <1>3, <1>5 DEF Sure
  <2>s. Settled' <=> Settled
    BY <1>1, <1>2, <2>c DEF Settled, Alive
  <2>r. wk.t.srv = obj.srv
    BY <1>b, <2>c DEF Deep, Same, ReinstallInv, Copies
  <2>1. Gens'
    BY <1>1, <1>2, <1>3, <2>c, <2>k, <2>g, <2>w
       DEF ConfigInv, Gens, Busy, Current, Knows, Numbers
  <2>2. Configured'
    BY <1>1, <1>2, <2>c, <2>n, <2>s DEF ConfigInv, Configured, Cfg
  <2>3. ToldTrue'
    <3> SUFFICES ASSUME Settled, NEW a \in Sure' \cap Told, obj.told[a] # 0
                 PROVE  Cfg(obj.srv, a) = obj.told[a]
      BY <1>1, <1>2, <2>c, <2>s DEF ToldTrue, Cfg
    <3>1. wk.t.told[a] = obj.told[a]
      BY <1>3, <2>n DEF Sure
    <3> QED BY <2>n, <3>1 DEF ConfigInv, ToldTrue
  <2>4. FormulasTrue'
    <3> SUFFICES ASSUME Settled, "formulas" \in Sure, obj.fgen = obj.gen \/ t.fgen = t.gen
                 PROVE  Cfg(obj.srv, "formulas") = obj.val
      BY <1>1, <1>2, <2>c, <2>n, <2>s, <2>w DEF FormulasTrue, Cfg
    <3> QED BY <1>3, <2>c, <2>k, <2>r DEF ConfigInv, FormulasTrue, Knows
  <2>5. PassToldTrue'
    <3> SUFFICES ASSUME Settled, NEW a \in Sure' \cap Told, t.told[a] # 0
                 PROVE  Cfg(obj.srv, a) = t.told[a]
      BY <1>1, <1>2, <2>c, <2>s, <2>w DEF PassToldTrue, Cfg
    <3> QED BY <2>c, <2>n, <2>r DEF ConfigInv, PassToldTrue
  <2>6. Untouched'
    BY <2>w DEF Untouched, Setting
  <2>7. Applied'
    BY <1>1, <1>2, <1>b, <2>c, <2>n, <2>s, <2>w DEF ConfigInv, Applied, Setting, Cfg
  <2> QED BY <2>1, <2>2, <2>3, <2>4, <2>5, <2>6, <2>7 DEF ConfigInv
<1> QED BY <1>2, <1>4, <1>5

\* The pass goes on and has set nothing, nor had before.
LEMMA MoveTells ==
    ASSUME Deep, ConfigInv, Busy, UNCHANGED <<apiObject, cache, untold>>,
           wk.pc \notin Setting, wk'.pc # "idle",
           wk'.t.told = wk.t.told, wk'.t.fgen = wk.t.fgen, wk'.t.gen = wk.t.gen,
           wk'.t.val = wk.t.val, wk'.t.observed = wk.t.observed,
           wk'.t.srv = obj.srv => wk.t.srv = obj.srv,
           Settled' => Settled /\ sys'[obj.srv].cfg = sys[obj.srv].cfg
    PROVE  Gens' /\ Configured' /\ ToldTrue' /\ Untouched' /\ PassToldTrue' /\ FormulasTrue'
<1> USE DEF apiObject
<1>b. Busy' /\ (Current' <=> Current)
  BY DEF Busy, Current
<1>1. Gens'
  BY <1>b DEF ConfigInv, Gens
<1>2. Configured'
  BY DEF ConfigInv, Configured, Sure, Cfg
<1>3. ToldTrue'
  BY DEF ConfigInv, ToldTrue, Sure, Cfg
<1>4. Untouched'
  BY <1>b DEF ConfigInv, Untouched
<1>5. PassToldTrue'
  BY <1>b DEF ConfigInv, PassToldTrue, Sure, Cfg
<1>6. FormulasTrue'
  <2> SUFFICES ASSUME Settled', "formulas" \in Sure
               PROVE  /\ obj.fgen = obj.gen => Cfg(obj.srv, "formulas") = obj.val
                      /\ Current /\ wk.t.srv = obj.srv /\ wk.t.fgen = wk.t.gen
                           => Cfg(obj.srv, "formulas") = obj.val
    BY <1>b DEF FormulasTrue, Sure, Cfg
  <2> QED BY DEF ConfigInv, FormulasTrue
<1> QED BY <1>1, <1>2, <1>3, <1>4, <1>5, <1>6

\* What a set aspect is.
LEMMA SetCfg ==
    ASSUME Typed, NEW a, Set(a) \/ UNCHANGED sys
    PROVE  /\ \A i \in SystemID : sys'[i].st = sys[i].st
           /\ \A i \in SystemID, b \in Aspect : b # a \/ i # wk.t.srv => Cfg(i, b)' = Cfg(i, b)
           /\ \A i \in SystemID : Set(a) /\ a \in Aspect /\ i = wk.t.srv
                                  => Cfg(i, a)' = wk.t.val
<1>1. sys \in [SystemID -> Machine]
  BY DEF Typed, TypeOK
<1>2. \A i \in SystemID : DOMAIN sys[i].cfg = Aspect
  BY <1>1 DEF Machine
<1>3. CASE UNCHANGED sys /\ ~Set(a)
  BY <1>3 DEF Cfg
<1>4. CASE Set(a)
  <2>1. \A i \in SystemID : sys'[i] = IF i = wk.t.srv
                                      THEN [sys[i] EXCEPT !.cfg[a] = wk.t.val] ELSE sys[i]
    BY <1>1, <1>4 DEF Set
  <2>2. \A i \in SystemID : LET m == [sys[i] EXCEPT !.cfg[a] = wk.t.val]
                            IN m.st = sys[i].st /\ m.cfg = [sys[i].cfg EXCEPT ![a] = wk.t.val]
    BY <1>1 DEF Machine
  <2>3. \A i \in SystemID : /\ sys'[i].st = sys[i].st
                            /\ sys'[i].cfg = IF i = wk.t.srv
                                  THEN [sys[i].cfg EXCEPT ![a] = wk.t.val] ELSE sys[i].cfg
    BY <2>1, <2>2
  <2> QED BY <1>2, <2>3 DEF Cfg
<1> QED BY <1>3, <1>4

\* The pass sets an aspect, unless what it knows says that it is set.
LEMMA SetTells ==
    ASSUME Deep, ConfigInv, Busy, UNCHANGED <<apiObject, cache, untold>>,
           NEW a \in Aspect, wk.pc \in Applying, wk'.pc # "idle",
           wk'.t = Recorded(a, wk.t),
           IF MustSet(a, wk.t) THEN Set(a) ELSE UNCHANGED sys,
           \/ wk.pc \in Setting /\ wk'.pc \in Setting
           \/ wk.pc \notin Setting /\ a \notin Told
    PROVE  /\ Gens' /\ Configured' /\ ToldTrue' /\ PassToldTrue' /\ FormulasTrue'
           /\ Settled' <=> Settled
           /\ Settled /\ Current =>
                 /\ a \in Sure => Cfg(obj.srv, a)' = obj.val
                 /\ \A b \in Aspect \ {a} : Cfg(obj.srv, b)' = Cfg(obj.srv, b)
<1> USE DEF apiObject
<1>b. Busy' /\ (Current' <=> Current) /\ wk.t \in SystemObject /\ wk.t.val \in Value
  BY Parts DEF Busy, Current, Deep, Same, Typed, SystemObject
<1>g. Numbers
  BY AreNumbers DEF Deep, Same
<1>r. /\ wk'.t.gen = wk.t.gen /\ wk'.t.val = wk.t.val /\ wk'.t.srv = wk.t.srv
      /\ wk'.t.observed = wk.t.observed
      /\ wk'.t.fgen = wk.t.fgen \/ (a = "formulas" /\ wk'.t.fgen = wk.t.gen)
      /\ \A b \in Aspect \cap Told : b # a => wk'.t.told[b] = wk.t.told[b]
      /\ a \in Told => wk'.t.told[a] = wk.t.val
      /\ a = "formulas" => wk'.t.fgen = wk.t.gen
  <2>1. CASE a \in Told
    <3>1. Recorded(a, wk.t) = [wk.t EXCEPT !.told[a] = wk.t.val]
      BY <2>1 DEF Recorded, Told
    <3>2. a # "formulas"
      BY <2>1 DEF Told
    <3>3. wk'.t = [wk.t EXCEPT !.told[a] = wk.t.val]
      BY <3>1
    <3>4. /\ wk'.t.gen = wk.t.gen /\ wk'.t.val = wk.t.val /\ wk'.t.srv = wk.t.srv
          /\ wk'.t.observed = wk.t.observed /\ wk'.t.fgen = wk.t.fgen
          /\ wk'.t.told = [wk.t.told EXCEPT ![a] = wk.t.val]
      BY <1>b, <3>3 DEF SystemObject
    <3>5. wk.t.told \in [Aspect \cap Told -> Value \cup {0}]
      BY <1>b DEF SystemObject
    <3> QED BY <2>1, <3>2, <3>4, <3>5
  <2>2. CASE a = "formulas"
    <3>1. Recorded(a, wk.t) = IF applyData(wk.t) THEN [wk.t EXCEPT !.fgen = wk.t.gen]
                              ELSE wk.t
      BY <2>2 DEF Recorded, Told
    <3>2. a \notin Told
      BY <2>2 DEF Told
    <3>3. CASE applyData(wk.t)
      <4>1. wk'.t = [wk.t EXCEPT !.fgen = wk.t.gen]
        BY <3>1, <3>3
      <4>2. /\ wk'.t.gen = wk.t.gen /\ wk'.t.val = wk.t.val /\ wk'.t.srv = wk.t.srv
            /\ wk'.t.observed = wk.t.observed /\ wk'.t.fgen = wk.t.gen
            /\ wk'.t.told = wk.t.told
        BY <1>b, <4>1 DEF SystemObject
      <4> QED BY <2>2, <3>2, <4>2
    <3>4. CASE ~applyData(wk.t)
      <4>1. wk'.t = wk.t
        BY <3>1, <3>4
      <4> QED BY <2>2, <3>2, <3>4, <4>1 DEF applyData
    <3> QED BY <3>3, <3>4
  <2>3. CASE a \notin Told /\ a # "formulas"
    <3>1. Recorded(a, wk.t) = wk.t
      BY <2>3 DEF Recorded
    <3> QED BY <2>3, <3>1
  <2> QED BY <2>1, <2>2, <2>3
<1>s. Settled' <=> Settled
  BY SetCfg, Ids DEF Settled, Alive, Deep, Same
<1>i. Settled => obj.srv \in SystemID
  BY Ids DEF Settled, Alive, Deep, Same
<1>c. Settled => /\ \A b \in Aspect : b # a \/ obj.srv # wk.t.srv
                                         => Cfg(obj.srv, b)' = Cfg(obj.srv, b)
                 /\ MustSet(a, wk.t) /\ obj.srv = wk.t.srv => Cfg(obj.srv, a)' = wk.t.val
                 /\ ~MustSet(a, wk.t) => Cfg(obj.srv, a)' = Cfg(obj.srv, a)
  <2>1. /\ \A i \in SystemID, b \in Aspect : b # a \/ i # wk.t.srv => Cfg(i, b)' = Cfg(i, b)
        /\ \A i \in SystemID : Set(a) /\ i = wk.t.srv => Cfg(i, a)' = wk.t.val
    BY SetCfg DEF Deep, Same
  <2>2. obj' = obj /\ (~MustSet(a, wk.t) => sys' = sys) /\ (MustSet(a, wk.t) => Set(a))
    OBVIOUS
  <2> QED BY <1>i, <2>1, <2>2 DEF Cfg
<1>v. obj.observed = obj.gen \/ obj.fgen = obj.gen => wk.t.val = obj.val
  BY <1>g DEF ConfigInv, Gens, Numbers
<1>1. Gens'
  BY <1>b, <1>g, <1>r DEF ConfigInv, Gens, Numbers
<1>2. Configured'
  BY <1>s, <1>c, <1>v DEF ConfigInv, Configured, Sure, Cfg
<1>3. ToldTrue'
  <2> SUFFICES ASSUME Settled, NEW b \in Sure \cap Told, obj.told[b] # 0
               PROVE  \/ Cfg(obj.srv, b)' = obj.told[b]
                      \/ /\ wk'.pc \in Setting /\ wk.t.srv = obj.srv
                         /\ wk'.t.told[b] # obj.told[b]
    BY <1>s, <1>r DEF ToldTrue, Sure, Cfg
  <2>0. \/ Cfg(obj.srv, b) = obj.told[b]
        \/ wk.pc \in Setting /\ wk.t.srv = obj.srv /\ wk.t.told[b] # obj.told[b]
    BY DEF ConfigInv, ToldTrue
  <2>1. CASE b # a \/ wk.t.srv # obj.srv
    BY <1>c, <1>r, <2>0, <2>1 DEF Sure
  <2>2. CASE b = a /\ wk.t.srv = obj.srv /\ MustSet(a, wk.t)
    BY <1>c, <1>r, <2>2
  <2>3. CASE b = a /\ wk.t.srv = obj.srv /\ ~MustSet(a, wk.t)
    <3>1. wk.t.told[a] = wk.t.val
      BY <2>3 DEF MustSet, Told
    <3> QED BY <1>c, <1>r, <2>0, <2>3, <3>1
  <2> QED BY <2>1, <2>2, <2>3
<1>4. PassToldTrue'
  <2> SUFFICES ASSUME Settled, Current, wk.t.srv = obj.srv, NEW b \in Sure \cap Told,
                      wk'.t.told[b] # 0
               PROVE  Cfg(obj.srv, b)' = wk'.t.told[b]
    BY <1>s, <1>b, <1>r DEF PassToldTrue, Sure, Cfg
  <2>1. CASE b # a
    BY <1>c, <1>r, <2>1 DEF ConfigInv, PassToldTrue, Sure
  <2>2. CASE b = a /\ MustSet(a, wk.t)
    BY <1>c, <1>r, <2>2
  <2>3. CASE b = a /\ ~MustSet(a, wk.t)
    <3>1. wk.t.told[a] = wk.t.val
      BY <2>3 DEF MustSet, Told
    <3> QED BY <1>c, <1>r, <2>3, <3>1 DEF ConfigInv, PassToldTrue
  <2> QED BY <2>1, <2>2, <2>3
<1>f. a = "formulas" /\ ~MustSet(a, wk.t) => wk.t.fgen = wk.t.gen
  BY DEF MustSet, applyData, Told
<1>k. Current => Knows
  BY CurrentKnows
<1>5. FormulasTrue'
  <2> SUFFICES ASSUME Settled, "formulas" \in Sure
               PROVE  /\ obj.fgen = obj.gen => Cfg(obj.srv, "formulas")' = obj.val
                      /\ Current /\ wk.t.srv = obj.srv /\ wk'.t.fgen = wk.t.gen
                           => Cfg(obj.srv, "formulas")' = obj.val
    BY <1>s, <1>b, <1>r DEF FormulasTrue, Sure, Cfg
  <2>f. /\ obj.fgen = obj.gen => Cfg(obj.srv, "formulas") = obj.val
        /\ Current /\ wk.t.srv = obj.srv /\ wk.t.fgen = wk.t.gen
             => Cfg(obj.srv, "formulas") = obj.val
    BY DEF ConfigInv, FormulasTrue
  <2>1. CASE a # "formulas"
    BY <1>c, <1>r, <2>f, <2>1 DEF Sure
  <2>2. CASE a = "formulas"
    BY <1>c, <1>v, <1>k, <1>f, <2>f, <2>2 DEF Sure, Knows
  <2> QED BY <2>1, <2>2
<1>6. ASSUME Settled, Current
      PROVE  /\ a \in Sure => Cfg(obj.srv, a)' = obj.val
             /\ \A b \in Aspect \ {a} : Cfg(obj.srv, b)' = Cfg(obj.srv, b)
  <2>0. Knows /\ wk.t.srv = obj.srv
    <3>1. wk.pc \notin {"notRegistered", "recordProfile"}
      BY DEF Applying
    <3> QED BY <1>6, <1>k, <3>1 DEF Deep, Same, ReinstallInv, Copies
  <2>1. \A b \in Aspect \ {a} : Cfg(obj.srv, b)' = Cfg(obj.srv, b)
    BY <1>6, <1>c
  <2>2. ASSUME a \in Sure PROVE Cfg(obj.srv, a)' = obj.val
    <3>1. CASE MustSet(a, wk.t)
      BY <1>6, <1>c, <2>0, <3>1 DEF Knows
    <3>2. CASE ~MustSet(a, wk.t)
      <4>1. CASE a \in Told
        <5>1. wk.t.told[a] = wk.t.val /\ wk.t.val # 0
          BY <1>g, <1>b, <3>2, <4>1 DEF MustSet, Numbers, Told
        <5> QED BY <1>6, <1>c, <2>0, <2>2, <3>2, <4>1, <5>1 DEF ConfigInv, PassToldTrue, Knows
      <4>2. CASE a = "formulas"
        BY <1>6, <1>c, <1>f, <2>0, <2>2, <3>2, <4>2 DEF ConfigInv, FormulasTrue, Knows
      <4>3. CASE a \notin Told /\ a # "formulas"
        <5>1. Cfg(wk.t.srv, a) = wk.t.val
          BY <3>2, <4>3 DEF MustSet, Cfg
        <5> QED BY <1>6, <1>c, <2>0, <3>2, <5>1 DEF Knows
      <4> QED BY <4>1, <4>2, <4>3
    <3> QED BY <3>1, <3>2
  <2> QED BY <2>1, <2>2
<1> QED BY <1>s, <1>1, <1>2, <1>3, <1>4, <1>5, <1>6

\* Saving the pass's own copy, or losing it, is the end of a pass that keeps
\* what is known.
LEMMA CopyTells ==
    ASSUME Deep, ConfigInv, Busy, NEW t, UNCHANGED <<cache, sys>>,
           Tells(t), wk.pc # "recordProfile", SaveAndEnd(t) \/ Lost
    PROVE  ConfigInv'
<1>1. CASE Lost
  <2>1. Ends
    BY <1>1 DEF Ends
  <2> QED BY <2>1, EndsTells
<1>2. CASE Written(t) /\ wk' = Idle /\ UNCHANGED untold
  BY <1>2, SaveTells
<1> QED BY <1>1, <1>2 DEF SaveAndEnd

LEMMA FindTells ==
    ASSUME Deep, ConfigInv, Find
    PROVE  ConfigInv'
<1> USE DEF apiObject, history
<1>b. Busy /\ wk \in Worker /\ wk.t \in SystemObject /\ wk.pc = "find"
  BY PassCopy DEF Deep, Same, Pass, Find, At
<1>q. UNCHANGED <<cache, sys>>
  BY DEF Find, Quiet, uyuni
<1>p. "find" \notin Setting /\ "reinstall" \notin Setting /\ "details" \notin Setting
  BY DEF Setting
<1>1. PICK i \in findOrAdopt(wk.t) :
         LET t == [wk.t EXCEPT !.srv = i]
             found == [wk EXCEPT !.pc = NextStep(t), !.t = t,
                                 !.boot = sys[i].st = "boot",
                                 !.todo = Aspect \ {"details"}]
         IN \/ /\ i = 0
               /\ Step("notRegistered", IF Alive(wk.t.srv) THEN t ELSE wk.t)
               /\ UNCHANGED <<apiObject, history>>
            \/ /\ i # 0 /\ i = wk.t.srv
               /\ wk' = found
               /\ UNCHANGED <<apiObject, history>>
            \/ /\ i # wk.t.srv /\ Written(t) /\ wk' = found /\ untold' = NewSystem(t)
            \/ Lost
  BY DEF Find
<1> DEFINE t == [wk.t EXCEPT !.srv = i]
           found == [wk EXCEPT !.pc = NextStep(t), !.t = t,
                               !.boot = sys[i].st = "boot",
                               !.todo = Aspect \ {"details"}]
<1>2. /\ t.told = wk.t.told /\ t.fgen = wk.t.fgen /\ t.observed = wk.t.observed
      /\ SameKind(t, wk.t) /\ t.life = wk.t.life /\ t.srv = i
  BY <1>b DEF SystemObject, SameKind
<1>3. /\ found.pc \in {"reinstall", "details"} /\ found.t = t
      /\ found.todo = Aspect \ {"details"}
  <2>1. NextStep(t) \in {"reinstall", "details"}
    BY DEF NextStep
  <2> HIDE DEF t
  <2> QED BY <1>b, <2>1 DEF Worker
<1>4. CASE Lost
  <2>1. Ends
    BY <1>b, <1>q, <1>4 DEF Ends
  <2> QED BY <2>1, EndsTells
<1>5. CASE i # wk.t.srv /\ Written(t) /\ wk' = found /\ untold' = NewSystem(t)
  <2> HIDE DEF t, found
  <2>1. wk.t.srv = obj.srv
    BY <1>b, <1>5 DEF Written, Deep, Same, ReinstallInv, Copies, Current
  <2> QED BY <1>b, <1>q, <1>p, <1>2, <1>3, <1>5, <2>1, NewTells
<1>6. ASSUME wk'.pc # "idle", wk'.t.srv \in {0, wk.t.srv}, wk'.t.told = wk.t.told,
             wk'.t.fgen = wk.t.fgen, wk'.t.observed = wk.t.observed,
             SameKind(wk'.t, wk.t), UNCHANGED <<apiObject, history>>,
             \/ wk'.pc = "notRegistered"
             \/ wk'.pc \in {"reinstall", "details"} /\ wk'.todo = Aspect \ {"details"}
      PROVE  ConfigInv'
  <2>1. Settled' => Settled /\ obj.srv # 0 /\ sys'[obj.srv].cfg = sys[obj.srv].cfg
    BY <1>6, <1>q DEF Settled, Alive
  <2>2. CASE Settled'
    <3>1. Gens' /\ Configured' /\ ToldTrue' /\ Untouched' /\ PassToldTrue' /\ FormulasTrue'
      BY <1>b, <1>q, <1>p, <1>6, <2>1, <2>2, MoveTells DEF SameKind
    <3>2. Applied'
      BY <1>6 DEF Applied, Setting
    <3> QED BY <3>1, <3>2 DEF ConfigInv
  <2>3. CASE ~Settled'
    <3>1. Gens'
      BY <1>b, <1>q, <1>6 DEF ConfigInv, Gens, SameKind, Busy
    <3>2. Untouched'
      BY <1>b, <1>p, <1>6 DEF ConfigInv, Untouched, Current, Busy
    <3> QED BY <2>3, <3>1, <3>2 DEF ConfigInv, Configured, ToldTrue, PassToldTrue,
                                    FormulasTrue, Applied
  <2> QED BY <2>2, <2>3
<1>7. CASE i # 0 /\ i = wk.t.srv /\ wk' = found /\ UNCHANGED <<apiObject, history>>
  <2> HIDE DEF t, found
  <2> QED BY <1>2, <1>3, <1>6, <1>7
<1>8. CASE /\ i = 0 /\ Step("notRegistered", IF Alive(wk.t.srv) THEN t ELSE wk.t)
           /\ UNCHANGED <<apiObject, history>>
  <2> DEFINE u == IF Alive(wk.t.srv) THEN t ELSE wk.t
  <2> HIDE DEF t
  <2>1. /\ u.told = wk.t.told /\ u.fgen = wk.t.fgen /\ u.observed = wk.t.observed
        /\ SameKind(u, wk.t) /\ u.srv \in {0, wk.t.srv}
    BY <1>2, <1>8 DEF SameKind
  <2>2. Step("notRegistered", u)
    BY <1>8
  <2> HIDE DEF u
  <2>3. wk'.pc = "notRegistered" /\ wk'.t = u
    BY <1>b, <2>2, WorkerSteps DEF Step
  <2> QED BY <1>6, <1>8, <2>1, <2>3
<1> HIDE DEF t, found
<1> QED BY <1>1, <1>4, <1>5, <1>7, <1>8 DEF t, found

LEMMA RegistrationTells ==
    ASSUME Deep, ConfigInv,
           CreateSystemProfile \/ RecordProfile \/ DeleteSystem
    PROVE  ConfigInv'
<1> USE DEF apiObject, history
<1>b. Busy /\ wk \in Worker /\ wk.t \in SystemObject
  BY PassCopy DEF Deep, Same, Pass
<1>p. {"recordProfile", "notRegistered", "release", "delete"} \cap ({"channels"} \cup Setting) = {}
  BY DEF Setting
<1>s. sys \in [SystemID -> Machine]
  BY DEF Deep, Same, Typed, TypeOK
<1>1. CASE CreateSystemProfile
  <2>0. wk.pc = "notRegistered" /\ UNCHANGED cache
    BY <1>1 DEF CreateSystemProfile, At
  <2>1. CASE SaveAndEnd(wk.t) /\ UNCHANGED sys
    <3>1. Tells(wk.t)
      BY DEF Tells, SameKind
    <3> QED BY <1>b, <2>0, <2>1, <3>1, CopyTells
  <2>2. ASSUME NEW i \in Fresh,
               sys' = [sys EXCEPT ![i].st = "boot", ![i].host = wk.t.hostname,
                                  ![i].mac = wk.t.mac],
               Step("recordProfile", [wk.t EXCEPT !.srv = i]),
               UNCHANGED <<apiObject, history>>
        PROVE  ConfigInv'
    <3> DEFINE t == [wk.t EXCEPT !.srv = i]
    <3>1. /\ t.told = wk.t.told /\ t.fgen = wk.t.fgen /\ t.observed = wk.t.observed
          /\ t.gen = wk.t.gen /\ t.val = wk.t.val /\ t.srv = i
      BY <1>b DEF SystemObject
    <3>2. wk'.pc = "recordProfile" /\ wk'.t = t
      BY <1>b, <2>2, WorkerSteps DEF Step
    <3> HIDE DEF t
    <3>3. i \in SystemID /\ i # obj.srv
      BY ConstantsAssumption DEF Fresh, Deep, DeletionInv, SystemsUsed, Used, SystemID
    <3>4. Settled' => Settled /\ sys'[obj.srv].cfg = sys[obj.srv].cfg
      <4>1. \A k \in SystemID \ {i} : sys'[k] = sys[k]
        BY <1>s, <2>2
      <4> QED BY <2>2, <3>3, <4>1, Ids DEF Settled, Alive, Deep, Same
    <3>5. Gens' /\ Configured' /\ ToldTrue' /\ Untouched' /\ PassToldTrue' /\ FormulasTrue'
      BY <1>b, <1>p, <2>0, <2>2, <3>1, <3>2, <3>3, <3>4, MoveTells
    <3>6. Applied'
      BY <1>p, <3>2 DEF Applied
    <3> QED BY <3>5, <3>6 DEF ConfigInv
  <2> QED BY <1>1, <2>1, <2>2 DEF CreateSystemProfile, Fail
<1>2. CASE RecordProfile
  <2> DEFINE t == [wk.t EXCEPT !.phase = "PreProvisioned", !.ptt = TRUE]
  <2>1. /\ t.told = wk.t.told /\ t.fgen = wk.t.fgen /\ t.observed = wk.t.observed
        /\ SameKind(t, wk.t) /\ t.life = wk.t.life /\ t.srv = wk.t.srv
        /\ t.phase = "PreProvisioned"
    BY <1>b DEF SystemObject, SameKind
  <2>2. /\ wk.pc = "recordProfile" /\ UNCHANGED <<cache, sys>>
        /\ \/ Written(t) /\ wk' = Idle /\ untold' = NewSystem(t)
           \/ Lost
    BY <1>2 DEF RecordProfile, At, uyuni
  <2> HIDE DEF t
  <2>3. CASE Lost
    <3>1. Ends
      BY <1>b, <2>2, <2>3 DEF Ends
    <3> QED BY <3>1, EndsTells
  <2> QED BY <1>b, <1>p, <2>1, <2>2, <2>3, NewTells
<1>3. CASE DeleteSystem
  <2>1. /\ wk.pc = "delete" /\ Step("release", wk.t)
        /\ UNCHANGED <<apiObject, cache, history>>
    BY <1>3 DEF DeleteSystem, At, kube
  <2>2. wk'.pc = "release" /\ wk'.t = wk.t
    BY <1>b, <2>1, WorkerSteps DEF Step
  <2>3. obj.life # "live"
    BY <2>1 DEF Deep, Same, ReinstallInv, Ages
  <2>4. ~Settled'
    BY <2>1, <2>3 DEF Settled
  <2>5. Gens' /\ Configured' /\ ToldTrue' /\ Untouched' /\ PassToldTrue' /\ FormulasTrue'
    BY <1>b, <1>p, <2>1, <2>2, <2>4, MoveTells
  <2> QED BY <2>4, <2>5 DEF ConfigInv, Applied
<1> QED BY <1>1, <1>2, <1>3

LEMMA ReinstallTells ==
    ASSUME Deep, ConfigInv,
           \/ EnsureFinalizer \/ AwaitRegistration \/ ProvisionSystem \/ RecordReinstall
           \/ StripReinstall \/ ReleaseFinalizer \/ CallFails \/ Crash
    PROVE  ConfigInv'
<1> USE DEF apiObject, history, uyuni
<1>b. Busy /\ wk \in Worker /\ wk.t \in SystemObject
  BY PassCopy DEF Deep, Same, Pass
<1>t. Tells(wk.t)
  BY DEF Tells, SameKind
<1>p. {"reinstall", "recordReinstall", "strip"} \cap ({"channels"} \cup Setting) = {}
  BY DEF Setting
<1>1. CASE EnsureFinalizer
  <2>1. Tells([wk.t EXCEPT !.finalizer = TRUE])
    BY <1>b DEF Tells, SystemObject, SameKind
  <2> QED BY <1>1, <1>b, <2>1, CopyTells DEF EnsureFinalizer, Quiet, At
<1>2. CASE AwaitRegistration
  BY <1>2, <1>b, <1>t, CopyTells DEF AwaitRegistration, At
<1>3. CASE CallFails
  BY <1>3, <1>b, <1>t, CopyTells DEF CallFails, Calls, Fail
<1>4. CASE Crash
  <2>1. Ends
    BY <1>4, <1>b DEF Crash, Ends
  <2> QED BY <2>1, EndsTells
<1>5. CASE StripReinstall
  <2>1. Tells([wk.t EXCEPT !.reinstall = FALSE])
    BY <1>b DEF Tells, SystemObject, SameKind
  <2> QED BY <1>5, <1>b, <2>1, CopyTells DEF StripReinstall, Quiet, At
<1>6. CASE ReleaseFinalizer
  <2>1. Tells([wk.t EXCEPT !.life = "gone"])
    BY <1>b DEF Tells, SystemObject, SameKind
  <2> QED BY <1>6, <1>b, <2>1, CopyTells DEF ReleaseFinalizer, Quiet, At
<1>7. CASE ProvisionSystem
  <2>0. wk.pc = "reinstall" /\ UNCHANGED <<cache, sys>>
    BY <1>7 DEF ProvisionSystem, At, Quiet
  <2>1. CASE SaveAndEnd(wk.t)
    BY <1>b, <1>t, <2>0, <2>1, CopyTells
  <2>2. CASE /\ Step("recordReinstall",
                     [wk.t EXCEPT !.phase = "Reprovisioning", !.ptt = TRUE])
             /\ UNCHANGED <<apiObject, untold>>
    <3> DEFINE t == [wk.t EXCEPT !.phase = "Reprovisioning", !.ptt = TRUE]
    <3>1. /\ t.told = wk.t.told /\ t.fgen = wk.t.fgen /\ t.observed = wk.t.observed
          /\ t.gen = wk.t.gen /\ t.val = wk.t.val /\ t.srv = wk.t.srv
      BY <1>b DEF SystemObject
    <3>2. wk'.pc = "recordReinstall" /\ wk'.t = t /\ wk'.todo = wk.todo
      BY <1>b, <2>2 DEF Step, Worker
    <3> HIDE DEF t
    <3>3. Settled' <=> Settled
      BY <2>0, <2>2 DEF Settled, Alive
    <3>4. Gens' /\ Configured' /\ ToldTrue' /\ Untouched' /\ PassToldTrue' /\ FormulasTrue'
      BY <1>b, <1>p, <2>0, <2>2, <3>1, <3>2, <3>3, MoveTells
    <3>5. Applied'
      BY <1>b, <1>p, <2>0, <2>2, <3>2, <3>3 DEF ConfigInv, Applied, Current
    <3> QED BY <3>4, <3>5 DEF ConfigInv
  <2> QED BY <1>7, <2>1, <2>2 DEF ProvisionSystem, Fail
<1>8. CASE RecordReinstall
  <2>0. wk.pc = "recordReinstall" /\ UNCHANGED <<cache, sys>>
    BY <1>8 DEF RecordReinstall, At
  <2>1. CASE Lost
    BY <1>b, <1>t, <2>0, <2>1, CopyTells
  <2>2. CASE Written(wk.t) /\ Step("strip", wk.t) /\ UNCHANGED untold
    <3>1. wk'.pc = "strip" /\ wk'.t = wk.t /\ wk'.todo = wk.todo
      BY <1>b, <2>2 DEF Step, Worker
    <3> QED BY <1>b, <1>t, <2>0, <2>2, <3>1, SaveTells
  <2> QED BY <1>8, <2>1, <2>2 DEF RecordReinstall
<1> QED BY <1>1, <1>2, <1>3, <1>4, <1>5, <1>6, <1>7, <1>8

LEMMA DetailTells ==
    ASSUME Deep, ConfigInv, SetSystemDetails
    PROVE  ConfigInv'
<1> USE DEF apiObject, history, uyuni
<1>b. Busy /\ wk \in Worker /\ wk.t \in SystemObject /\ wk.pc = "details"
  BY PassCopy DEF Deep, Same, Pass, SetSystemDetails, At
<1>c. UNCHANGED cache
  BY DEF SetSystemDetails
<1>p. "details" \notin Setting /\ "channels" \notin Setting /\ "details" \in Applying
      /\ "details" \notin Told
  BY DEF Setting, Applying, Told
<1>1. CASE SaveAndEnd(wk.t) /\ UNCHANGED sys
  <2>1. Tells(wk.t)
    BY DEF Tells, SameKind
  <2> QED BY <1>b, <1>c, <1>1, <2>1, CopyTells
<1>2. CASE /\ IF Differs("details") THEN Set("details") ELSE UNCHANGED sys
           /\ Step("channels", wk.t)
           /\ UNCHANGED <<apiObject, history>>
  <2>1. wk'.pc = "channels" /\ wk'.t = wk.t /\ wk'.todo = wk.todo
    BY <1>b, <1>2 DEF Step, Worker
  <2>2. Busy' /\ (Current' <=> Current) /\ (Current => Knows)
    BY <1>b, <1>2, <2>1, CurrentKnows DEF Busy, Current
  <2>3. Untouched'
    BY <1>b, <1>p, <1>2, <2>1, <2>2 DEF ConfigInv, Untouched
  <2>4. CASE "details" \in Aspect
    <3>1. Recorded("details", wk.t) = wk.t
          /\ (MustSet("details", wk.t) <=> Differs("details"))
      BY <2>4 DEF Recorded, MustSet, Differs, Told
    <3>2. /\ Gens' /\ Configured' /\ ToldTrue' /\ PassToldTrue' /\ FormulasTrue'
          /\ Settled' <=> Settled
      BY <1>b, <1>c, <1>p, <1>2, <2>1, <2>4, <3>1, SetTells
    <3>3. Settled /\ Current => Cfg(obj.srv, "details")' = obj.val
      <4> SUFFICES ASSUME Settled, Current PROVE Cfg(obj.srv, "details")' = obj.val
        OBVIOUS
      <4>1. wk.t.srv = obj.srv /\ wk.t.val = obj.val /\ obj.srv \in SystemID
        BY <1>b, <2>2, Ids DEF Knows, Deep, Same, ReinstallInv, Copies, Settled, Alive
      <4>2. CASE Differs("details")
        <5>1. Set("details")
          BY <1>2, <4>2
        <5>2. \A i \in SystemID : i = wk.t.srv => Cfg(i, "details")' = wk.t.val
          BY <2>4, <5>1, SetCfg DEF Deep, Same
        <5>3. obj' = obj
          BY <1>2
        <5> QED BY <4>1, <5>2, <5>3 DEF Cfg
      <4>3. CASE ~Differs("details")
        BY <1>2, <2>4, <4>1, <4>3 DEF Differs, Cfg
      <4> QED BY <4>2, <4>3
    <3>4. Applied'
      <4>1. obj' = obj
        BY <1>2
      <4> QED BY <1>b, <1>p, <2>1, <2>2, <3>2, <3>3, <4>1 DEF ConfigInv, Applied, Cfg
    <3> QED BY <2>3, <3>2, <3>4 DEF ConfigInv
  <2>5. CASE "details" \notin Aspect
    <3>1. UNCHANGED sys
      BY <1>2, <2>5 DEF Differs
    <3>2. Settled' <=> Settled
      BY <1>2, <3>1 DEF Settled, Alive
    <3>3. Gens' /\ Configured' /\ ToldTrue' /\ PassToldTrue' /\ FormulasTrue'
      BY <1>b, <1>c, <1>p, <1>2, <2>1, <3>1, <3>2, MoveTells
    <3>4. Applied'
      BY <1>b, <1>p, <2>1, <2>2, <2>5, <3>2 DEF ConfigInv, Applied
    <3> QED BY <2>3, <3>3, <3>4 DEF ConfigInv
  <2> QED BY <2>4, <2>5
<1> QED BY <1>1, <1>2 DEF SetSystemDetails, Fail

LEMMA ChannelTells ==
    ASSUME Deep, ConfigInv, SubscribeChannels
    PROVE  ConfigInv'
<1> USE DEF apiObject, history, uyuni
<1>b. Busy /\ wk \in Worker /\ wk.t \in SystemObject /\ wk.pc = "channels"
  BY PassCopy DEF Deep, Same, Pass, SubscribeChannels, At
<1>c. UNCHANGED cache
  BY DEF SubscribeChannels
<1>p. "channels" \notin Setting
  BY DEF Setting
<1>1. CASE SaveAndEnd(wk.t) /\ UNCHANGED sys
  <2>1. Tells(wk.t)
    BY DEF Tells, SameKind
  <2> QED BY <1>b, <1>c, <1>1, <2>1, CopyTells
<1>2. ASSUME NEW u, u = wk.t \/ \E n : u = [wk.t EXCEPT !.act = n],
             wk'.pc = "aspects", wk'.t = u,
             wk'.boot \/ wk'.todo = wk.todo,
             UNCHANGED <<apiObject, history>>, Subscribe(wk.t) \/ UNCHANGED sys
      PROVE  ConfigInv'
  <2>1. /\ u.told = wk.t.told /\ u.fgen = wk.t.fgen /\ u.observed = wk.t.observed
        /\ u.gen = wk.t.gen /\ u.val = wk.t.val /\ u.srv = wk.t.srv
    BY <1>b, <1>2 DEF SystemObject
  <2>2. \A i \in SystemID : sys'[i].st = sys[i].st /\ sys'[i].cfg = sys[i].cfg
    <3>1. sys \in [SystemID -> Machine]
      BY DEF Deep, Same, Typed, TypeOK
    <3> QED BY <1>2, <3>1 DEF Subscribe, Machine
  <2>3. Settled => obj.srv \in SystemID
    BY Ids DEF Settled, Alive, Deep, Same
  <2>4. /\ Settled' <=> Settled
        /\ Settled => sys'[obj.srv].cfg = sys[obj.srv].cfg
    <3>1. obj.srv \in SystemID \cup {0} /\ obj' = obj
      BY <1>2, Ids DEF Deep, Same
    <3> QED BY <2>2, <2>3, <3>1 DEF Settled, Alive
  <2>5. Gens' /\ Configured' /\ ToldTrue' /\ Untouched' /\ PassToldTrue' /\ FormulasTrue'
    BY <1>b, <1>c, <1>p, <1>2, <2>1, <2>4, MoveTells
  <2>6. Applied'
    <3> SUFFICES ASSUME Settled, Current
                 PROVE  /\ "details" \in Aspect => Cfg(obj.srv, "details")' = obj.val
                        /\ ~wk'.boot => \A a \in Sure \ wk'.todo :
                                             Cfg(obj.srv, a)' = obj.val
      BY <1>b, <1>2, <2>4 DEF Applied, Current, Busy, Setting, Sure, Cfg
    <3>1. /\ "details" \in Aspect => Cfg(obj.srv, "details") = obj.val
          /\ wk.todo = Aspect \ {"details"}
      BY <1>b DEF ConfigInv, Applied
    <3>2. obj' = obj
      BY <1>2
    <3> QED BY <1>2, <2>4, <3>1, <3>2 DEF Cfg, Sure
  <2> QED BY <2>5, <2>6 DEF ConfigInv
<1>3. \/ SaveAndEnd(wk.t) /\ UNCHANGED sys
      \/ /\ UNCHANGED <<apiObject, sys, history>> /\ wk.boot
         /\ wk' = [wk EXCEPT !.pc = "aspects", !.todo = @ \cap {"groups", "formulas"}]
      \/ /\ UNCHANGED <<apiObject, history>> /\ (Subscribe(wk.t) \/ UNCHANGED sys)
         /\ \E u : /\ wk' = [wk EXCEPT !.pc = "aspects", !.t = u, !.boot = FALSE]
                   /\ u = wk.t \/ \E n : u = [wk.t EXCEPT !.act = n]
  BY DEF SubscribeChannels, Untrack
<1>4. CASE /\ UNCHANGED <<apiObject, sys, history>> /\ wk.boot
           /\ wk' = [wk EXCEPT !.pc = "aspects", !.todo = @ \cap {"groups", "formulas"}]
  <2>1. wk'.pc = "aspects" /\ wk'.t = wk.t /\ wk'.boot
    BY <1>b, <1>4 DEF Worker
  <2> QED BY <1>2, <1>4, <2>1
<1>5. ASSUME UNCHANGED <<apiObject, history>>, Subscribe(wk.t) \/ UNCHANGED sys,
             NEW u, wk' = [wk EXCEPT !.pc = "aspects", !.t = u, !.boot = FALSE],
             u = wk.t \/ \E n : u = [wk.t EXCEPT !.act = n]
      PROVE  ConfigInv'
  <2>1. wk'.pc = "aspects" /\ wk'.t = u /\ wk'.todo = wk.todo
    BY <1>b, <1>5 DEF Worker
  <2> QED BY <1>2, <1>5, <2>1
<1> QED BY <1>1, <1>3, <1>4, <1>5

LEMMA AspectTells ==
    ASSUME Deep, ConfigInv, ApplyAspect
    PROVE  ConfigInv'
<1> USE DEF apiObject, history, uyuni
<1>b. Busy /\ wk \in Worker /\ wk.t \in SystemObject /\ wk.pc = "aspects"
  BY PassCopy DEF Deep, Same, Pass, ApplyAspect, At
<1>c. UNCHANGED cache
  BY DEF ApplyAspect
<1>p. "aspects" \in Setting /\ "stripFormulas" \in Setting /\ "aspects" \in Applying
      /\ "channels" \notin Setting
  BY DEF Setting, Applying
<1>1. CASE SaveAndEnd(wk.t) /\ UNCHANGED sys
  <2>1. Tells(wk.t)
    BY DEF Tells, SameKind
  <2> QED BY <1>b, <1>c, <1>1, <2>1, CopyTells
<1>2. ASSUME NEW a, wk.boot, wk' = [wk EXCEPT !.todo = @ \ {a}],
             UNCHANGED <<apiObject, sys, history>>
      PROVE  ConfigInv'
  <2>1. wk'.pc = wk.pc /\ wk'.t = wk.t /\ wk'.boot /\ Busy' /\ (Current' <=> Current)
    BY <1>b, <1>2 DEF Worker, Busy, Current
  <2>2. Settled' <=> Settled
    BY <1>2 DEF Settled, Alive
  <2>3. Gens' /\ Configured' /\ ToldTrue' /\ Untouched'
    BY <1>b, <1>c, <1>2, <2>1, <2>2
       DEF ConfigInv, Gens, Configured, ToldTrue, Untouched, Sure, Cfg
  <2>4. PassToldTrue' /\ FormulasTrue'
    BY <1>b, <1>2, <2>1, <2>2 DEF ConfigInv, PassToldTrue, FormulasTrue, Sure, Cfg
  <2>5. Applied'
    BY <1>b, <1>2, <2>1, <2>2 DEF ConfigInv, Applied, Sure, Cfg
  <2> QED BY <2>3, <2>4, <2>5 DEF ConfigInv
<1>3. ASSUME NEW a \in Aspect, NEW p \in Setting, a # "details",
             IF MustSet(a, wk.t) THEN Set(a) ELSE UNCHANGED sys,
             wk' = [wk EXCEPT !.todo = @ \ {a}, !.t = Recorded(a, wk.t), !.pc = p],
             UNCHANGED <<apiObject, history>>
      PROVE  ConfigInv'
  <2>1. wk'.pc = p /\ wk'.t = Recorded(a, wk.t) /\ wk'.boot = wk.boot
        /\ wk'.todo = wk.todo \ {a}
    BY <1>b, <1>3 DEF Worker
  <2>2. p # "idle"
    BY <1>3 DEF Setting
  <2>3. /\ Gens' /\ Configured' /\ ToldTrue' /\ PassToldTrue' /\ FormulasTrue'
        /\ Settled' <=> Settled
        /\ Settled /\ Current =>
              /\ a \in Sure => Cfg(obj.srv, a)' = obj.val
              /\ \A b \in Aspect \ {a} : Cfg(obj.srv, b)' = Cfg(obj.srv, b)
    BY <1>b, <1>c, <1>p, <1>3, <2>1, <2>2, SetTells
  <2>4. Untouched'
    BY <1>3, <2>1 DEF Untouched
  <2>5. Applied'
    <3> SUFFICES ASSUME Settled, Current
                 PROVE  /\ "details" \in Aspect => Cfg(obj.srv, "details")' = obj.val
                        /\ ~wk.boot => \A b \in Sure \ (wk.todo \ {a}) :
                                          Cfg(obj.srv, b)' = obj.val
      <4>1. obj' = obj /\ Sure' = Sure /\ (Current' => Current)
        BY <1>b, <1>3 DEF Sure, Current, Busy
      <4>2. p \notin {"reinstall", "recordReinstall", "strip", "details", "channels"}
        BY <1>3 DEF Setting
      <4> QED BY <2>1, <2>3, <4>1, <4>2 DEF Applied, Cfg
    <3>1. /\ "details" \in Aspect => Cfg(obj.srv, "details") = obj.val
          /\ ~wk.boot => \A b \in Sure \ wk.todo : Cfg(obj.srv, b) = obj.val
      BY <1>b, <1>p DEF ConfigInv, Applied
    <3> QED BY <1>3, <2>3, <3>1 DEF Sure
  <2> QED BY <2>3, <2>4, <2>5 DEF ConfigInv
<1>4. PICK n \in DOMAIN Order :
         LET a == Order[n]
         IN /\ a \in wk.todo
            /\ \/ SaveAndEnd(wk.t) /\ UNCHANGED sys
               \/ /\ wk.boot /\ wk' = [wk EXCEPT !.todo = @ \ {a}]
                  /\ UNCHANGED <<apiObject, sys, history>>
               \/ /\ IF MustSet(a, wk.t) THEN Set(a) ELSE UNCHANGED sys
                  /\ wk' = [wk EXCEPT !.todo = @ \ {a}, !.t = Recorded(a, wk.t),
                              !.pc = IF a = "formulas" /\ wk.t.applyFormulas
                                     THEN "stripFormulas" ELSE @]
                  /\ UNCHANGED <<apiObject, history>>
  BY DEF ApplyAspect, Foremost, Fail
<1>5. Order[n] \in Aspect /\ Order[n] # "details"
  <2>1. Order[n] \in Aspect
    BY <1>b, <1>4 DEF Worker
  <2>2. Order[n] # "details"
    BY DEF Order
  <2> QED BY <2>1, <2>2
<1>6. CASE /\ IF MustSet(Order[n], wk.t) THEN Set(Order[n]) ELSE UNCHANGED sys
           /\ wk' = [wk EXCEPT !.todo = @ \ {Order[n]}, !.t = Recorded(Order[n], wk.t),
                       !.pc = IF Order[n] = "formulas" /\ wk.t.applyFormulas
                              THEN "stripFormulas" ELSE @]
           /\ UNCHANGED <<apiObject, history>>
  <2> DEFINE p == IF Order[n] = "formulas" /\ wk.t.applyFormulas
                  THEN "stripFormulas" ELSE wk.pc
  <2>1. p \in Setting
    BY <1>b, <1>p
  <2>2. wk' = [wk EXCEPT !.todo = @ \ {Order[n]}, !.t = Recorded(Order[n], wk.t), !.pc = p]
    BY <1>6
  <2> HIDE DEF p
  <2> QED BY <1>3, <1>5, <1>6, <2>1, <2>2
<1> QED BY <1>1, <1>2, <1>4, <1>6

\* The steps of the user, the cluster and Uyuni.
LEMMA OutsideTells ==
    ASSUME Deep, ConfigInv, User \/ Realise \/ Vanish \/ DeadlinePasses \/ Uyuni
    PROVE  ConfigInv'
<1> USE DEF kube, apiObject, uyuni, history
<1>o. obj \in SystemObject /\ obj.gen \in Nat
  BY Parts, AreNumbers DEF Deep, Same, Typed, Numbers
<1>f. ReinstallNotForgotten /\ Typed /\ ReinstallInv
  BY DEF Deep, Same, ReinstallInv
<1>w. ASSUME NEW new, new \in SystemObject, UserWrites(new), owed' => new.reinstall,
             new.finalizer = obj.finalizer, new.srv = obj.srv, new.life = obj.life,
             new.told = obj.told, new.fgen = obj.fgen, new.observed = obj.observed,
             new.phase = obj.phase,
             (new.gen = obj.gen /\ new.val = obj.val) \/ new.gen = obj.gen + 1
      PROVE  ConfigInv'
  <2>1. Foreign(new) /\ UNCHANGED untold
    BY <1>w DEF UserWrites, Foreign
  <2> QED BY <1>w, <2>1, ForeignTells
<1>1. CASE User
  <2>1. CASE Edit
    <3>1. PICK v \in Value : UserWrites([obj EXCEPT !.val = v, !.gen = @ + 1])
      BY <2>1 DEF Edit
    <3> DEFINE new == [obj EXCEPT !.val = v, !.gen = @ + 1]
    <3>2. /\ new.finalizer = obj.finalizer /\ new.srv = obj.srv /\ new.life = obj.life
          /\ new.told = obj.told /\ new.fgen = obj.fgen /\ new.observed = obj.observed
          /\ new.phase = obj.phase /\ new.gen = obj.gen + 1
          /\ new.reinstall = obj.reinstall
      BY <1>o DEF SystemObject
    <3>3. UserWrites(new) /\ owed' = owed /\ new \in SystemObject
      BY <1>o, <2>1, <3>1, ObjectTypes DEF Edit
    <3> HIDE DEF new
    <3> QED BY <1>f, <1>w, <3>2, <3>3 DEF ReinstallNotForgotten
  <2>2. CASE Rename
    <3>1. PICK h \in Hostname : UserWrites([obj EXCEPT !.hostname = h, !.gen = @ + 1])
      BY <2>2 DEF Rename
    <3> DEFINE new == [obj EXCEPT !.hostname = h, !.gen = @ + 1]
    <3>2. /\ new.finalizer = obj.finalizer /\ new.srv = obj.srv /\ new.life = obj.life
          /\ new.told = obj.told /\ new.fgen = obj.fgen /\ new.observed = obj.observed
          /\ new.phase = obj.phase /\ new.gen = obj.gen + 1
          /\ new.reinstall = obj.reinstall
      BY <1>o DEF SystemObject
    <3>3. UserWrites(new) /\ owed' = owed /\ new \in SystemObject
      BY <1>o, <2>2, <3>1, ObjectTypes DEF Rename
    <3> HIDE DEF new
    <3> QED BY <1>f, <1>w, <3>2, <3>3 DEF ReinstallNotForgotten
  <2>3. CASE AskReinstall
    <3> DEFINE new == [obj EXCEPT !.reinstall = TRUE]
    <3>2. /\ new.finalizer = obj.finalizer /\ new.srv = obj.srv /\ new.life = obj.life
          /\ new.told = obj.told /\ new.fgen = obj.fgen /\ new.observed = obj.observed
          /\ new.phase = obj.phase /\ new.gen = obj.gen /\ new.val = obj.val
          /\ new.reinstall
      BY <1>o DEF SystemObject
    <3>3. UserWrites(new) /\ new \in SystemObject
      BY <1>o, <2>3, ObjectTypes DEF AskReinstall
    <3> HIDE DEF new
    <3> QED BY <1>w, <3>2, <3>3
  <2>4. CASE AskFormulas
    <3> DEFINE new == [obj EXCEPT !.applyFormulas = TRUE]
    <3>2. /\ new.finalizer = obj.finalizer /\ new.srv = obj.srv /\ new.life = obj.life
          /\ new.told = obj.told /\ new.fgen = obj.fgen /\ new.observed = obj.observed
          /\ new.phase = obj.phase /\ new.gen = obj.gen /\ new.val = obj.val
          /\ new.reinstall = obj.reinstall
      BY <1>o DEF SystemObject
    <3>3. UserWrites(new) /\ owed' = owed /\ new \in SystemObject
      BY <1>o, <2>4, ObjectTypes DEF AskFormulas
    <3> HIDE DEF new
    <3> QED BY <1>f, <1>w, <3>2, <3>3 DEF ReinstallNotForgotten
  <2>5. ASSUME NEW f \in BOOLEAN, NEW p \in {"Delete", "Orphan"}, Delete(f, p)
        PROVE  ConfigInv'
    <3> DEFINE new == [obj EXCEPT !.force = f, !.policy = p,
                         !.life = IF obj.finalizer THEN "deleting" ELSE "gone"]
    <3>1. /\ new.finalizer = obj.finalizer /\ new.srv = obj.srv
          /\ new.told = obj.told /\ new.fgen = obj.fgen /\ new.observed = obj.observed
          /\ new.phase = obj.phase /\ new.gen = obj.gen /\ new.val = obj.val
          /\ new.reinstall = obj.reinstall
          /\ new.life = IF obj.finalizer THEN "deleting" ELSE "gone"
      BY <1>o DEF SystemObject
    <3>2. obj' = new /\ obj.life = "live" /\ Overtaken
          /\ UNCHANGED <<cache, wk, sys, owed, untold>>
      BY <2>5 DEF Delete
    <3> HIDE DEF new
    <3>3. Foreign(new)
      BY <1>f, <3>1, <3>2 DEF Foreign, ReinstallNotForgotten
    <3> QED BY <3>1, <3>2, <3>3, ForeignTells
  <2> QED BY <1>1, <2>1, <2>2, <2>3, <2>4, <2>5 DEF User
<1>2. CASE Realise \/ Vanish \/ DeadlinePasses
  <2>1. UNCHANGED <<apiObject, cache, wk, sys, untold>>
    BY <1>2 DEF Realise, Vanish, DeadlinePasses
  <2>2. Settled' <=> Settled
    BY <2>1 DEF Settled, Alive
  <2> QED BY <2>1, <2>2, ElsewhereTells
<1>3. CASE Uyuni
  <2>1. UNCHANGED <<apiObject, cache, wk, untold>>
    BY <1>3 DEF Uyuni, Register, AdminDeletes, RunAction, CheckIn
  <2>2. \A i \in SystemID : sys'[i].st # "gone" => sys'[i].cfg = sys[i].cfg
    <3>m. sys \in [SystemID -> Machine]
      BY <1>f DEF Typed, TypeOK
    <3>1. CASE Register
      <4>1. PICK k \in SystemID :
               sys' = [sys EXCEPT ![k].st = "salt", ![k].host = "h1", ![k].mac = TRUE]
        BY <3>1 DEF Register, Fresh
      <4> QED BY <3>m, <4>1 DEF Machine
    <3>2. CASE AdminDeletes
      <4>1. PICK k \in SystemID : sys' = [sys EXCEPT ![k] = Removed]
        BY <3>2 DEF AdminDeletes, Registered
      <4>2. Removed.st = "gone"
        BY DEF Removed, Absent
      <4> QED BY <3>m, <4>1, <4>2
    <3>3. CASE CheckIn
      BY <3>3 DEF CheckIn
    <3>4. ASSUME NEW ok \in BOOLEAN, RunAction(ok)
          PROVE  \A i \in SystemID : sys'[i].st # "gone" => sys'[i].cfg = sys[i].cfg
      <4>1. PICK n \in DOMAIN acts :
               \/ sys' = [sys EXCEPT ![acts[n].srv].repo = acts[n].ch]
               \/ sys' = sys
        BY <3>4 DEF RunAction
      <4>2. CASE sys' = [sys EXCEPT ![acts[n].srv].repo = acts[n].ch]
        BY <3>m, <4>2 DEF Machine
      <4> QED BY <4>1, <4>2
    <3> QED BY <1>3, <3>1, <3>2, <3>3, <3>4 DEF Uyuni
  <2>3. SystemsAge
    BY <1>3, <1>f, UyuniAges
  <2>4. Settled' => Settled /\ sys'[obj.srv].cfg = sys[obj.srv].cfg
    <3> SUFFICES ASSUME Settled' PROVE Settled /\ sys'[obj.srv].cfg = sys[obj.srv].cfg
      OBVIOUS
    <3>1. obj.life = "live" /\ obj.srv # 0 /\ sys'[obj.srv].st \in {"boot", "salt"}
      BY <2>1 DEF Settled, Alive
    <3>2. obj.srv \in SystemID /\ sys[obj.srv] \in Machine
      BY <1>f, <3>1, Ids
    <3>3. sys[obj.srv].st # "none"
      BY <3>1 DEF Deep, DeletionInv, SystemsUsed, Used
    <3>4. sys[obj.srv].st # "gone"
      BY <2>3, <3>1, <3>2 DEF SystemsAge
    <3> QED BY <2>2, <3>1, <3>2, <3>3, <3>4 DEF Settled, Alive, Machine
  <2> QED BY <2>1, <2>4, ElsewhereTells
<1> QED BY <1>1, <1>2, <1>3

LEMMA FirstTells ==
    ASSUME Deep, ConfigInv, CacheSync \/ Begin
    PROVE  ConfigInv'
<1> USE DEF apiObject, uyuni, history
<1>g. Numbers
  BY AreNumbers DEF Deep, Same
<1>1. CASE CacheSync
  <2>1. cache' = obj /\ UNCHANGED <<obj, wk, passOld, sys, untold>>
    BY <1>1 DEF CacheSync
  <2>2. Gens'
    BY <1>g, <2>1 DEF ConfigInv, Gens, Busy, Numbers
  <2>3. Configured' /\ ToldTrue' /\ Untouched' /\ PassToldTrue'
    BY <2>1 DEF ConfigInv, Configured, ToldTrue, Untouched, PassToldTrue,
                Settled, Alive, Sure, Cfg, Current, Busy
  <2>4. FormulasTrue' /\ Applied'
    BY <2>1 DEF ConfigInv, FormulasTrue, Applied, Settled, Alive, Sure, Cfg, Current, Busy
  <2> QED BY <2>2, <2>3, <2>4 DEF ConfigInv
<1>2. CASE Begin
  <2>1. /\ wk'.t = cache /\ wk'.pc \in {"delete", "find", "finalizer"}
        /\ UNCHANGED <<obj, cache, sys, untold>> /\ wk.pc = "idle"
        /\ passOld' = cacheOld
    BY <1>2 DEF Begin, At
  <2>2. Current' => cache = obj
    BY <2>1 DEF Current, Deep, Same, ReinstallInv, Copies
  <2>3. wk.pc \notin Setting
    BY <2>1 DEF Setting
  <2>4. Gens'
    BY <1>g, <2>1 DEF ConfigInv, Gens, Numbers
  <2>5. Configured' /\ Untouched'
    BY <2>1, <2>2 DEF ConfigInv, Configured, Untouched, Settled, Alive, Sure, Cfg
  <2>6. ToldTrue'
    BY <2>1, <2>3 DEF ConfigInv, ToldTrue, Settled, Alive, Sure, Cfg
  <2>7. PassToldTrue'
    BY <2>1, <2>2, <2>3 DEF ConfigInv, ToldTrue, PassToldTrue, Settled, Alive, Sure, Cfg
  <2>8. FormulasTrue'
    BY <2>1, <2>2 DEF ConfigInv, FormulasTrue, Settled, Alive, Sure, Cfg
  <2>9. Applied'
    BY <2>1 DEF Applied, Setting
  <2> QED BY <2>4, <2>5, <2>6, <2>7, <2>8, <2>9 DEF ConfigInv
<1> QED BY <1>1, <1>2

LEMMA ConfigStep == Deep /\ ConfigInv /\ [Next]_vars => ConfigInv'
<1> SUFFICES ASSUME Deep, ConfigInv, [Next]_vars PROVE ConfigInv'
  OBVIOUS
<1>1. CASE UNCHANGED vars
  <2>1. UNCHANGED <<apiObject, cache, wk, sys, untold>>
    BY <1>1 DEF vars, kube, apiObject, uyuni, history
  <2>2. Settled' <=> Settled
    BY <2>1 DEF Settled, Alive, apiObject
  <2> QED BY <2>1, <2>2, ElsewhereTells
<1>2. CASE User \/ CacheSync \/ Realise \/ Vanish \/ DeadlinePasses \/ Uyuni \/ Begin
  BY <1>2, OutsideTells, FirstTells
<1>3. CASE DeleteFails
  <2>1. Busy
    BY <1>3 DEF DeleteFails, At, Busy
  <2>2. Ends
    BY <1>3, <2>1 DEF DeleteFails, Ends, uyuni
  <2> QED BY <2>2, EndsTells
<1>4. CASE Pass \/ CallFails \/ Crash
  BY <1>4, FindTells, RegistrationTells, ReinstallTells, DetailTells, ChannelTells,
     AspectTells, StripTells, ReconciledTells DEF Pass
<1> QED BY <1>2, <1>1, <1>3, <1>4 DEF Next

LEMMA AlwaysConfig == Spec => [](Deep /\ ConfigInv)
<1>1. Init => Deep /\ ConfigInv
  BY InitTyped, InitReinstall, InitDeletion, InitConfig DEF Deep, Same
<1>2. Deep /\ ConfigInv /\ [Next]_vars => (Deep /\ ConfigInv)'
  BY TypeStep, ReinstallStep, DeletionStep, ConfigStep DEF Deep, Same, Typed
<1> QED BY <1>1, <1>2, PTL DEF Spec

\* applyConfig applies, records what it has applied, and only then says
\* Reconciled; a pass whose writes no longer get through is of a generation the
\* status has not yet confirmed.  So a System that says Reconciled for its spec
\* is configured as it says, in every aspect but those of untold: what a crash
\* or a conflict kept out of the status, what the Update of StripFormulas took
\* out of it, and everything after the status came to name another system.
THEOREM SystemReconciled == Spec => []ReconciledMeansConfigured
<1>1. ConfigInv => ReconciledMeansConfigured
  BY DEF ConfigInv, Configured, ReconciledMeansConfigured, Settled, Sure, Cfg
<1> QED BY <1>1, AlwaysConfig, PTL


----------------------------------------------------------------------------
(* System implements Trigger.                                              *)

Asking == obj.life = "live" /\ obj.reinstall
Owing == obj.life = "live" /\ owed

OneShotStep ==
    \/ (Asking' <=> Asking) /\ (Owing' <=> Owing)
    \/ ~Asking /\ Asking' /\ Owing'
    \/ Owing /\ ~Owing' /\ (Asking' <=> Asking)
    \/ Asking /\ ~Asking' /\ ~Owing'

\* These are steps of Trigger.
LEMMA OneShotSteps ==
    ASSUME OneShotStep
    PROVE  [OneShot!Next]_OneShot!triggerVars
<1> DEFINE A == IF obj.life = "live" /\ obj.reinstall THEN {"system"} ELSE {}
           O == IF obj.life = "live" /\ owed THEN {"system"} ELSE {}
<1>0. /\ A = (IF Asking THEN {"system"} ELSE {})
      /\ O = (IF Owing THEN {"system"} ELSE {})
      /\ A' = (IF Asking' THEN {"system"} ELSE {})
      /\ O' = (IF Owing' THEN {"system"} ELSE {})
  BY DEF Asking, Owing
<1> HIDE DEF A, O
<1>1. CASE (Asking' <=> Asking) /\ (Owing' <=> Owing)
  <2>1. A' = A /\ O' = O
    BY <1>0, <1>1
  <2> QED BY <2>1 DEF OneShot!triggerVars, A, O
<1>2. CASE ~Asking /\ Asking' /\ Owing'
  <2>1. "system" \notin A /\ A' = A \cup {"system"} /\ O' = O \cup {"system"}
    BY <1>0, <1>2
  <2>2. OneShot!Ask("system")
    BY <2>1 DEF OneShot!Ask, A, O
  <2> QED BY <2>2 DEF OneShot!Next
<1>3. CASE Owing /\ ~Owing' /\ (Asking' <=> Asking)
  <2>1. "system" \in O /\ A' = A /\ O' = O \ {"system"}
    BY <1>0, <1>3
  <2>2. OneShot!Serve("system")
    BY <2>1 DEF OneShot!Serve, A, O
  <2> QED BY <2>2 DEF OneShot!Next
<1>4. CASE Asking /\ ~Asking' /\ ~Owing'
  <2>1. "system" \in A /\ A' = A \ {"system"} /\ O' = O \ {"system"}
    BY <1>0, <1>4
  <2>2. OneShot!Withdraw("system")
    BY <2>1 DEF OneShot!Withdraw, A, O
  <2> QED BY <2>2 DEF OneShot!Next
<1> QED BY <1>1, <1>2, <1>3, <1>4 DEF OneShotStep

\* A System that is not live any more has taken its request with it.
LEMMA EndsRequest ==
    ASSUME ReinstallNotForgotten, obj'.life # "live"
    PROVE  OneShotStep
BY DEF ReinstallNotForgotten, OneShotStep, Asking, Owing

\* A step that keeps life and annotation at most serves the request.
LEMMA KeepsRequest ==
    ASSUME obj'.life = obj.life, obj'.reinstall = obj.reinstall, owed' => owed
    PROVE  OneShotStep
BY DEF OneShotStep, Asking, Owing

\* The user sets the annotation once, and may delete the System.
LEMMA UserOneShot ==
    ASSUME Typed, ReinstallInv, User
    PROVE  OneShotStep
<1>0. obj \in SystemObject /\ ReinstallNotForgotten
  BY Parts DEF Typed, ReinstallInv
<1>1. CASE AskReinstall
  <2>1. /\ obj.life = "live" /\ ~obj.reinstall /\ owed' = TRUE
        /\ obj' = [obj EXCEPT !.reinstall = TRUE]
    BY <1>1 DEF AskReinstall, UserWrites
  <2>2. obj'.life = "live" /\ obj'.reinstall
    BY <1>0, <2>1 DEF SystemObject
  <2> QED BY <2>1, <2>2 DEF OneShotStep, Asking, Owing
<1>2. CASE Edit \/ Rename \/ AskFormulas
  <2>1. owed' = owed
    BY <1>2 DEF Edit, Rename, AskFormulas
  <2>2. obj'.life = obj.life /\ obj'.reinstall = obj.reinstall
    BY <1>0, <1>2 DEF Edit, Rename, AskFormulas, UserWrites, SystemObject
  <2> QED BY <2>1, <2>2, KeepsRequest
<1>3. ASSUME NEW f \in BOOLEAN, NEW p \in {"Delete", "Orphan"}, Delete(f, p)
      PROVE  OneShotStep
  <2>1. obj'.life # "live"
    BY <1>0, <1>3 DEF Delete, SystemObject
  <2> QED BY <1>0, <2>1, EndsRequest
<1> QED BY <1>1, <1>2, <1>3 DEF User

\* Every other step keeps the request, serves it, or strips a served one.
LEMMA OtherOneShot ==
    ASSUME Typed, ReinstallInv,
           \/ UNCHANGED vars \/ CacheSync \/ Begin
           \/ Realise \/ Vanish \/ DeadlinePasses \/ Uyuni
           \/ Pass \/ CallFails \/ DeleteFails \/ Crash
    PROVE  OneShotStep
<1> USE DEF kube, apiObject, uyuni, history
<1>1. CASE \/ UNCHANGED vars \/ CacheSync \/ Begin
           \/ Realise \/ Vanish \/ DeadlinePasses \/ Uyuni
  <2>1. UNCHANGED <<obj, owed>>
    BY <1>1 DEF vars, CacheSync, Begin, Realise, Vanish, DeadlinePasses, Uyuni,
                Register, AdminDeletes, RunAction, CheckIn
  <2> QED BY <2>1, KeepsRequest
<1>2. CASE Ends
  <2>1. UNCHANGED <<obj, owed>>
    BY <1>2 DEF Ends, Lost
  <2> QED BY <2>1, KeepsRequest
<1>3. CASE GoesOn
  BY <1>3, KeepsRequest DEF GoesOn
<1>4. ASSUME NEW t, Stored(t)
      PROVE  OneShotStep
  <2>1. Current /\ obj' = t /\ owed' = owed
    BY <1>4 DEF Stored, Written, Current
  <2>2. CASE t.life # "live"
    BY <2>1, <2>2, EndsRequest DEF ReinstallInv
  <2>3. CASE t.life = "live" /\ t.reinstall = obj.reinstall
    BY <1>4, <2>1, <2>3, KeepsRequest DEF Stored
  <2>4. CASE t.life = "live" /\ wk.pc = "strip" /\ ~t.reinstall
    <3>1. ~owed /\ obj.life = "live"
      BY <1>4, <2>1, <2>4 DEF Stored, Current, ReinstallInv, ReinstallHeld
    <3> QED BY <2>1, <2>4, <3>1 DEF OneShotStep, Asking, Owing
  <2> QED BY <1>4, <2>2, <2>3, <2>4 DEF Stored
<1> QED BY <1>1, <1>2, <1>3, <1>4, PassForms

\* reinstall-now is stripped after ProvisionSystem has answered this request,
\* and only then: applyConfig implements Trigger.
THEOREM SystemReinstallIsOneShot == Spec => ReinstallIsOneShot
<1>1. Init => OneShot!Init
  <2>1. Init => ~Asking /\ ~Owing
    BY DEF Init, Asking, Owing
  <2> QED BY <2>1 DEF OneShot!Init, Asking, Owing
<1>2. Typed /\ ReinstallInv /\ [Next]_vars
         => [OneShot!Next]_OneShot!triggerVars
  <2> SUFFICES ASSUME Typed, ReinstallInv, [Next]_vars PROVE OneShotStep
    BY OneShotSteps
  <2> QED BY UserOneShot, OtherOneShot DEF Next
<1> QED BY <1>1, <1>2, AlwaysReinstall, PTL
        DEF Spec, ReinstallIsOneShot, OneShot!Spec

=============================================================================
