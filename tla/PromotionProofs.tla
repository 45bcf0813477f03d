-------------------------- MODULE PromotionProofs --------------------------
(***************************************************************************)
(* Proofs about Promotion, for every set of promotions and environments,   *)
(* every initial chain and every bound on the disturbances.                *)
(***************************************************************************)
EXTENDS Promotion, TLAPS

\* What the promotion controller's worker holds.
Worker == [pc : PC, p : Promotion, base : PromotionObject, old : BOOLEAN]

\* A pass goes to one of the worker's program counters.
LEMMA VerdictType ==
    ASSUME NEW p, NEW o PROVE Verdict(p, o) \in PC \ {"idle", "ack", "succeed"}
  BY DEF Verdict, PC

\* So does a poll, from the build status of toEnvironment.
LEMMA PollVerdictType ==
    ASSUME NEW s PROVE PollVerdict(s) \in {"fail", "succeed", "idle"}
  BY DEF PollVerdict

\* Init is well typed: PredOf(e) exists exactly for the environments in the
\* initial chain.
LEMMA InitType == Init => TypeOK
  <1> SUFFICES ASSUME Init PROVE TypeOK
    OBVIOUS
  <1>1. NoObject \in PromotionObject
    BY DEF NoObject, PromotionObject, Phase, Label
  <1>2. \A e \in Env : InChain(e) => PredOf(e) \in Label
    BY DEF InChain, PredOf
  <1>3. envCR \in [Env -> EnvObject]
    BY <1>2 DEF Init, EnvObject, Label
  <1>4. wk \in Worker
    <2>1. PICK p \in Promotion :
                 wk = [pc |-> "idle", p |-> p, base |-> NoObject, old |-> FALSE]
      BY DEF Init
    <2> QED BY <1>1, <2>1 DEF PC, Worker
  <1>5. obj \in [Promotion -> PromotionObject] /\ cache \in [Promotion -> PromotionObject]
    BY <1>1 DEF Init
  <1>6. proj \in ContentProjectObject /\ projSeen \in ContentProjectObject
    BY DEF Init, ContentProjectObject
  <1>7. st \in [Env -> EnvStatus] /\ succ \in [Label -> Label] /\ alive \in BOOLEAN
    BY ChainAssumption DEF Init, EnvStatus
  <1>8. /\ calls \in [Promotion -> Nat] /\ lost \in [Promotion -> Nat]
        /\ again \in [Promotion -> Nat] /\ late \in SUBSET Promotion
        /\ del \in Deletion
        /\ goal \in [Promotion -> Label] /\ landed \in [Promotion -> SUBSET Env]
        /\ moved \in [Promotion -> BOOLEAN] /\ events \in Nat
    BY DEF Init, Label, Deletion
  <1> QED BY <1>3, <1>4, <1>5, <1>6, <1>7, <1>8 DEF TypeOK, Worker

\* What a status write does: it touches one object and leaves a typed worker.
LEMMA SaveType ==
    ASSUME TypeOK, NEW new \in PromotionObject, NEW next \in PC,
           Save(new, next)
    PROVE  /\ obj' \in [Promotion -> PromotionObject]
           /\ wk' \in Worker
  <1>1. NoObject \in PromotionObject
    BY DEF NoObject, PromotionObject, Phase, Label
  <1>2. Idle \in Worker
    BY <1>1 DEF Idle, PC, TypeOK, Worker
  <1> QED BY <1>2 DEF Save, TypeOK, Worker

\* Every step keeps the types.
LEMMA TypeStep == TypeOK /\ [Next]_vars => TypeOK'
  <1> SUFFICES ASSUME TypeOK, [Next]_vars PROVE TypeOK'
    OBVIOUS
  <1>n. NoObject \in PromotionObject
    BY DEF NoObject, PromotionObject, Phase, Label
  <1>i. Idle \in Worker
    BY <1>n DEF Idle, PC, TypeOK, Worker
  <1>1. CASE User
    <2>1. ASSUME NEW p \in Promotion, NEW f \in Env, NEW t \in Env, Create(p, f, t)
          PROVE TypeOK'
      BY <2>1, <1>n, ZenonT(60) DEF Create, TypeOK, uyuni, PromotionObject, NoObject, Label, Phase
    <2>2. ASSUME NEW p \in Promotion, NEW f \in Env, NEW t \in Env, EditPair(p, f, t)
          PROVE TypeOK'
      <3>1. obj' \in [Promotion -> PromotionObject]
        BY <2>2, SMTT(60) DEF EditPair, TypeOK, PromotionObject, Label
      <3>2. moved' \in [Promotion -> BOOLEAN]
        BY <2>2 DEF EditPair, TypeOK, PromotionObject
      <3> QED BY <2>2, <3>1, <3>2 DEF EditPair, Event, TypeOK, uyuni
    <2>3. ASSUME NEW p \in Promotion, EditTTL(p) PROVE TypeOK'
      <3>1. obj' \in [Promotion -> PromotionObject]
        <4>1. obj' = [obj EXCEPT ![p].gen = @ + 1]
        BY <2>3 DEF EditTTL
      <4>2. obj \in [Promotion -> PromotionObject]
        BY DEF TypeOK
      <4> QED BY <4>1, <4>2 DEF PromotionObject
      <3> QED BY <2>3, <3>1 DEF EditTTL, Event, TypeOK, uyuni, history
    <2>4. ASSUME NEW p \in Promotion, DeletePromotion(p) PROVE TypeOK'
      <3>1. obj' \in [Promotion -> PromotionObject]
        <4>1. obj' = [obj EXCEPT ![p].life = "gone"]
        BY <2>4 DEF DeletePromotion
      <4>2. obj \in [Promotion -> PromotionObject]
        BY DEF TypeOK
      <4> QED BY <4>1, <4>2 DEF PromotionObject
      <3> QED BY <2>4, <3>1 DEF DeletePromotion, Event, TypeOK, uyuni, history
    <2>5. CASE DeleteProject
      <3>1. proj' \in ContentProjectObject
        BY <2>5 DEF DeleteProject, TypeOK, ContentProjectObject
      <3>2. events' \in Nat
        BY <2>5 DEF DeleteProject, Event, TypeOK
      <3> QED BY <2>5, <3>1, <3>2 DEF DeleteProject, TypeOK, uyuni, history
    <2>6. ASSUME NEW e \in Env, DeleteEnvCR(e) PROVE TypeOK'
      BY <2>6 DEF DeleteEnvCR, Event, TypeOK, uyuni, history, EnvObject
    <2>7. ASSUME NEW e \in Env, NEW q \in Label, CreateEnvCR(e, q) PROVE TypeOK'
      BY <2>7 DEF CreateEnvCR, Event, TypeOK, uyuni, history, EnvObject
    <2> QED BY <1>1, <2>1, <2>2, <2>3, <2>4, <2>5, <2>6, <2>7 DEF User
  <1>2. ASSUME NEW p \in Promotion, CacheSync(p) PROVE TypeOK'
    BY <1>2 DEF CacheSync, TypeOK, uyuni, history
  <1>3. ASSUME NEW p \in Promotion, Begin(p) PROVE TypeOK'
    <2>1. wk' \in Worker
      BY <1>3, VerdictType DEF Begin, Reads, TypeOK, Worker
    <2>2. events' \in Nat
      BY <1>3 DEF Begin, Event, TypeOK
    <2> QED BY <1>3, <2>1, <2>2 DEF Begin, TypeOK, k8s, uyuni, history, Worker
  <1>4. ASSUME NEW p \in Promotion, BeginNoClient(p) PROVE TypeOK'
    BY <1>4 DEF BeginNoClient, Reads, Event, TypeOK, k8s, uyuni, history, PC
  <1>5. ASSUME NEW p \in Promotion, BeginTooEarly(p) PROVE TypeOK'
    BY <1>5 DEF BeginTooEarly, Reads, Event, TypeOK, k8s, uyuni, history, PC
  <1>6. ASSUME NEW p \in Promotion, GarbageCollect(p) PROVE TypeOK'
    BY <1>6, SMTT(60) DEF GarbageCollect, TypeOK, uyuni, history, PromotionObject
  <1>7. CASE Pass
    <2>b. wk.base \in PromotionObject /\ wk.p \in Promotion
      BY DEF TypeOK
    <2>1. CASE SaveFail
      <3>1. [wk.base EXCEPT !.phase = "Failed"] \in PromotionObject
        BY <2>b DEF PromotionObject, Phase
      <3> QED BY <2>1, <3>1, SaveType DEF SaveFail, TypeOK, uyuni, history, PC, Worker
    <2>2. CASE SavePending
      <3>1. [wk.base EXCEPT !.phase = "Pending"] \in PromotionObject
        BY <2>b DEF PromotionObject, Phase
      <3> QED BY <2>2, <3>1, SaveType DEF SavePending, TypeOK, uyuni, history, PC, Worker
    <2>3. CASE SaveStart
      <3>1. [wk.base EXCEPT !.phase = "Running", !.started = TRUE] \in PromotionObject
        BY <2>b DEF PromotionObject, Phase
      <3> QED BY <2>3, <3>1, SaveType DEF SaveStart, TypeOK, uyuni, history, PC, Worker
    <2>4. CASE Promote
      <3>1. succ[wk.base.from] \in Label
        BY <2>b DEF TypeOK, PromotionObject
      <3>2. st' \in [Env -> EnvStatus] /\ goal' \in [Promotion -> Label]
        BY <2>4, <2>b, <3>1 DEF Promote, PromoteAccepted, TypeOK, EnvStatus
      <3>3. calls' \in [Promotion -> Nat] /\ again' \in [Promotion -> Nat]
        BY <2>4, <2>b DEF Promote, PromoteAccepted, TypeOK
      <3>4. wk' \in Worker
        BY <2>4 DEF Promote, PromoteAccepted, TypeOK, PC, Worker
      <3> QED BY <2>4, <3>2, <3>3, <3>4 DEF Promote, PromoteAccepted, TypeOK, k8s, Worker
    <2>5. CASE PromoteBusy
      BY <2>5, <1>i DEF PromoteBusy, TypeOK, Worker, k8s, uyuni, history
    <2>6. CASE PromoteRefused
      BY <2>6 DEF PromoteRefused, Event, TypeOK, k8s, uyuni, history, PC
    <2>7. CASE SaveRequested
      <3>1. [wk.base EXCEPT !.requested = TRUE] \in PromotionObject
        BY <2>b DEF PromotionObject
      <3>2. lost' \in [Promotion -> Nat]
        BY <2>7 DEF SaveRequested, Losing, TypeOK
      <3> QED BY <2>7, <3>1, <3>2, SaveType DEF SaveRequested, TypeOK, uyuni, PC, Worker
    <2>8. CASE Poll
      <3>1. wk' \in Worker
        BY <2>8, <1>i, PollVerdictType DEF Poll, TypeOK, PC, Worker
      <3> QED BY <2>8, <3>1 DEF Poll, TypeOK, k8s, uyuni, history, Worker
    <2>9. CASE SaveSucceeded
      <3>1. [wk.base EXCEPT !.phase = "Succeeded"] \in PromotionObject
        BY <2>b DEF PromotionObject, Phase
      <3> QED BY <2>9, <3>1, SaveType DEF SaveSucceeded, TypeOK, uyuni, history, PC, Worker
    <2> QED BY <1>7, <2>1, <2>2, <2>3, <2>4, <2>5, <2>6, <2>7, <2>8, <2>9 DEF Pass
  <1>8. CASE PromoteReplyLost
    <2>1. wk.base \in PromotionObject /\ wk.p \in Promotion
      BY DEF TypeOK
    <2>2. succ[wk.base.from] \in Label
      BY <2>1 DEF TypeOK, PromotionObject
    <2>3. st' \in [Env -> EnvStatus] /\ goal' \in [Promotion -> Label]
      BY <1>8, <2>1, <2>2 DEF PromoteReplyLost, PromoteAccepted, TypeOK, EnvStatus
    <2>6. /\ calls' \in [Promotion -> Nat] /\ lost' \in [Promotion -> Nat]
          /\ again' \in [Promotion -> Nat]
      BY <1>8, <2>1 DEF PromoteReplyLost, PromoteAccepted, Losing, TypeOK
    <2>4. wk' \in Worker
      BY <1>8 DEF PromoteReplyLost, PromoteAccepted, TypeOK, PC, Worker
    <2>5. events' \in Nat
      BY <1>8 DEF PromoteReplyLost, Event, TypeOK
    <2> QED BY <1>8, <2>3, <2>4, <2>5, <2>6
               DEF PromoteReplyLost, PromoteAccepted, TypeOK, k8s, Worker
  <1>9. CASE Crash
    <2>1. lost' \in [Promotion -> Nat]
      BY <1>9 DEF Crash, Losing, TypeOK
    <2> QED BY <1>9, <1>i, <2>1 DEF Crash, Event, TypeOK, uyuni, Worker, Deletion
  <1>10. ASSUME NEW e \in Env, NEW r \in {"built", "failed"}, FinishBuild(e, r)
         PROVE TypeOK'
    BY <1>10 DEF FinishBuild, TypeOK, k8s, EnvStatus
  <1>11. CASE ProjectRefresh
    BY <1>11 DEF ProjectRefresh, TypeOK, uyuni, history, ContentProjectObject, Known
  <1>12. CASE ProjectBuild
    <2>1. Known \in SUBSET Env /\ succ[NoEnv] \in Label
      BY DEF Known, TypeOK, Label
    <2>2. proj' \in ContentProjectObject
      BY <1>12, <2>1 DEF ProjectBuild, TypeOK, ContentProjectObject
    <2>3. st' \in [Env -> EnvStatus]
      BY <1>12, <2>1 DEF ProjectBuild, TypeOK, EnvStatus
    <2> QED BY <1>12, <2>2, <2>3 DEF ProjectBuild, Event, TypeOK, history
  <1>13. CASE ProjectHandleDeletion
    <2>1. CASE CheckPromotions
      BY <2>1 DEF CheckPromotions, TypeOK, Deletion, k8s, uyuni
    <2>2. CASE RemoveProject
      <3>1. succ' \in [Label -> Label] /\ st' \in [Env -> EnvStatus]
        BY <2>2 DEF RemoveProject, Label, EnvStatus
      <3>2. moved' \in [Promotion -> BOOLEAN] /\ del' \in Deletion /\ alive' \in BOOLEAN
        BY <2>2 DEF RemoveProject, Deletion
      <3> QED BY <2>2, <3>1, <3>2 DEF RemoveProject, TypeOK, k8s
    <2>3. CASE ReleaseProject
      <3>1. proj' \in ContentProjectObject /\ del' \in Deletion
        BY <2>3 DEF ReleaseProject, TypeOK, ContentProjectObject, Deletion
      <3> QED BY <2>3, <3>1 DEF ReleaseProject, TypeOK, uyuni, history
    <2> QED BY <1>13, <2>1, <2>2, <2>3 DEF ProjectHandleDeletion
  <1>18. CASE DeletionFails
    BY <1>18 DEF DeletionFails, Event, TypeOK, Deletion, k8s, uyuni, history
  <1>19. CASE ProjectSync
    BY <1>19 DEF ProjectSync, TypeOK, uyuni, history
  <1>14. CASE ProjectForceDelete
    <2>1. proj' \in ContentProjectObject
      BY <1>14 DEF ProjectForceDelete, TypeOK, ContentProjectObject
    <2>2. events' \in Nat
      BY <1>14 DEF ProjectForceDelete, Event, TypeOK
    <2> QED BY <1>14, <2>1, <2>2 DEF ProjectForceDelete, TypeOK, uyuni, history
  <1>15. ASSUME NEW e \in Env, EnvReconcile(e) PROVE TypeOK'
    <2>1. envCR[e].pred \in Label /\ e \in Label
      BY DEF TypeOK, EnvObject, Label
    <2>2. succ' \in [Label -> Label]
      BY <1>15, <2>1 DEF EnvReconcile, TypeOK
    <2>3. moved' \in [Promotion -> BOOLEAN]
      BY <1>15 DEF EnvReconcile, Realign, TypeOK
    <2>4. st' \in [Env -> EnvStatus]
      BY <1>15 DEF EnvReconcile, TypeOK, EnvStatus
    <2> QED BY <1>15, <2>2, <2>3, <2>4 DEF EnvReconcile, TypeOK, k8s
  <1>16. ASSUME NEW e \in Env, EnvHandleDeletion(e) PROVE TypeOK'
    <2>1. envCR' \in [Env -> EnvObject]
      BY <1>16 DEF EnvHandleDeletion, TypeOK, EnvObject, Label
    <2>2. succ' \in [Label -> Label]
      BY <1>16 DEF EnvHandleDeletion, TypeOK, Label
    <2>3. moved' \in [Promotion -> BOOLEAN]
      BY <1>16 DEF EnvHandleDeletion, Realign, TypeOK
    <2>4. st' \in [Env -> EnvStatus]
      BY <1>16 DEF EnvHandleDeletion, TypeOK, EnvStatus
    <2> QED BY <1>16, <2>1, <2>2, <2>3, <2>4 DEF EnvHandleDeletion, TypeOK
  <1>17. CASE UNCHANGED vars
    BY <1>17 DEF vars, k8s, uyuni, history, TypeOK
  <1> QED BY <1>1, <1>2, <1>3, <1>4, <1>5, <1>6, <1>7, <1>8, <1>9, <1>10, <1>11,
             <1>12, <1>13, <1>14, <1>15, <1>16, <1>17, <1>18, <1>19 DEF Next

\* Every reachable state of the promotion system is well typed.
THEOREM PromotionTypeOK == Spec => []TypeOK
  BY InitType, TypeStep, PTL DEF Spec

----------------------------------------------------------------------------
(* The request protocol.  Seen from the objects, the cache, the worker and *)
(* the call counters, the actions have nine shapes.              *)

\* A user or the garbage collector touches p's object outside a pass.
Edited(p) ==
    /\ UNCHANGED <<cache, wk, calls, lost, again, alive, del, late>>
    /\ \A q \in Promotion \ {p} : obj'[q] = obj[q]
    /\ obj[p].life \in {"none", "live"} /\ obj'[p].life \in {"live", "gone"}
    /\ obj[p].life = "none" => obj'[p].life = "live"
    /\ \/ obj[p].life = "none" /\ obj'[p].phase = "" /\ ~obj'[p].requested
       \/ /\ obj[p].life = "live" /\ obj'[p].phase = obj[p].phase
          /\ obj'[p].started = obj[p].started
          /\ obj'[p].requested = obj[p].requested
          /\ obj[p].gen < obj'[p].gen \/ obj'[p].life = "gone"
          /\ obj[p].gen <= obj'[p].gen
          /\ isTerminal(obj[p].phase) => obj'[p].to = obj[p].to

\* A pass starts on what the cache holds.
Started(p) ==
    /\ UNCHANGED <<obj, cache, calls, lost, again, alive, del, late>>
    /\ Reconcilable(p)
    /\ wk'.p = p /\ wk'.base = cache[p] /\ (wk'.old <=> cache[p] # obj[p])
    /\ wk'.pc \in {"fail", "pending", "start", "promote", "poll"}
    /\ wk'.pc = "start" => ~cache[p].started
    /\ wk'.pc = "promote" => ~cache[p].requested /\ cache[p].started
    /\ wk'.pc = "poll" => cache[p].requested

\* A pass ends, or goes on to a step that writes no request.
Advanced ==
    /\ UNCHANGED <<obj, cache, calls, again, alive, del, late>>
    /\ wk.pc # "idle" /\ wk'.p = wk.p
    /\ \/ wk'.pc = "idle"
       \/ wk'.base = wk.base /\ wk'.pc = "fail"
       \/ wk'.base = wk.base /\ wk.pc = "poll" /\ wk'.pc = "succeed"
    /\ lost' = IF wk.pc = "ack" THEN Losing(wk.p) ELSE lost

\* Uyuni accepts the request.
Requested ==
    /\ UNCHANGED <<obj, cache, alive, del, late>>
    /\ wk.pc = "promote" /\ alive /\ wk'.p = wk.p /\ wk'.base = wk.base
    /\ wk'.old = wk.old
    /\ calls' = [calls EXCEPT ![wk.p] = @ + 1]
    /\ again' = IF wk.old /\ obj[wk.p].requested
                THEN [again EXCEPT ![wk.p] = @ + 1] ELSE again
    /\ \/ wk'.pc = "ack" /\ lost' = lost
       \/ wk'.pc = "fail" /\ lost' = Losing(wk.p)

\* A status write finds the object the pass has read.
Written ==
    /\ UNCHANGED <<cache, calls, lost, again, alive, del, late>>
    /\ wk.pc # "idle" /\ ~Conflict /\ wk'.p = wk.p
    /\ \A q \in Promotion \ {wk.p} : obj'[q] = obj[q]
    /\ obj'[wk.p].life = wk.base.life /\ obj'[wk.p].gen = wk.base.gen
    /\ wk.base.started => obj'[wk.p].started
    /\ obj'[wk.p].requested <=> (wk.base.requested \/ wk.pc = "ack")
    /\ \/ wk.pc \in {"fail", "pending", "succeed"} /\ wk'.pc = "idle"
       \/ /\ wk.pc = "start" /\ wk'.pc = "promote"
          /\ wk'.base = obj'[wk.p] /\ ~isTerminal(obj'[wk.p].phase)
          /\ obj'[wk.p].started
       \/ /\ wk.pc = "ack" /\ wk'.pc = "poll"
          /\ wk'.base = obj'[wk.p] /\ ~isTerminal(obj'[wk.p].phase)

Synced == /\ UNCHANGED <<obj, wk, calls, lost, again, alive, del, late>>
          /\ \E p \in Promotion : cache' = [cache EXCEPT ![p] = obj[p]]

Crashed == /\ wk'.pc = "idle" /\ wk'.p = wk.p /\ cache' = obj
           /\ UNCHANGED <<obj, calls, again, alive, late>> /\ del' = "no"
           /\ lost' = IF wk.pc = "ack" THEN Losing(wk.p) ELSE lost

\* The deletion of the project goes one step on, or starts over.
Deleted ==
    /\ UNCHANGED <<obj, cache, wk, calls, lost, again>>
    /\ \/ /\ activePromotions = {} /\ alive' = alive
          /\ late' = IF alive THEN {p \in Promotion : cache[p].life = "none"}
                     ELSE late
       \/ del = "checked" /\ alive' = FALSE /\ late' = late
       \/ del' = "no" /\ UNCHANGED <<alive, late>>

Quiet == UNCHANGED <<obj, cache, wk, calls, lost, again, alive, del, late>>

\* Which steps of the pass a reconcile enters, by what it has read.
LEMMA VerdictCases ==
    ASSUME NEW p, NEW o
    PROVE  /\ Verdict(p, o) \in {"fail", "pending", "start", "promote", "poll"}
           /\ Verdict(p, o) = "start" => ~o.started
           /\ Verdict(p, o) = "promote" => ~o.requested /\ o.started
           /\ Verdict(p, o) = "poll" => o.requested
  BY DEF Verdict

\* A save either fails on a conflict and ends the pass, or writes.
LEMMA SaveEffect ==
    ASSUME TypeOK, NEW new \in PromotionObject, NEW next \in PC, Save(new, next)
    PROVE  \/ Conflict /\ obj' = obj /\ wk'.pc = "idle" /\ wk'.p = wk.p
           \/ /\ ~Conflict /\ obj' = [obj EXCEPT ![wk.p] = new]
              /\ obj'[wk.p] = new /\ wk'.p = wk.p
              /\ \A q \in Promotion \ {wk.p} : obj'[q] = obj[q]
              /\ next = "idle" => wk'.pc = "idle"
              /\ next # "idle" => wk'.pc = next /\ wk'.base = new
  <1>1. Idle.pc = "idle" /\ Idle.p = wk.p
    BY DEF Idle
  <1>2. CASE Conflict
    BY <1>1, <1>2 DEF Save
  <1>3. CASE ~Conflict
    <2>1. obj' = [obj EXCEPT ![wk.p] = new] /\ obj'[wk.p] = new
          /\ \A q \in Promotion \ {wk.p} : obj'[q] = obj[q]
      BY <1>3 DEF Save, TypeOK
    <2>2. CASE next = "idle"
      BY <1>1, <1>3, <2>1, <2>2 DEF Save
    <2>3. CASE next # "idle"
      <3>1. wk' = [wk EXCEPT !.pc = next, !.base = new]
        BY <1>3, <2>3 DEF Save
      <3>2. wk'.pc = next /\ wk'.base = new /\ wk'.p = wk.p
        BY <3>1 DEF TypeOK
      <3> QED BY <1>3, <2>1, <2>3, <3>2
    <2> QED BY <2>2, <2>3
  <1> QED BY <1>2, <1>3

Shape == \/ \E p \in Promotion : Edited(p) \/ Started(p)
         \/ Advanced \/ Requested \/ Written \/ Synced \/ Crashed
         \/ Deleted \/ Quiet

\* Every step has one of nine shapes, told apart by what it does to the objects,
\* the cache, the worker and the counts; the invariant is shown shape by shape.
LEMMA StepShape ==
    ASSUME TypeOK, WorkerReads, [Next]_vars PROVE Shape
  <1> USE DEF Shape
  <1>i. Idle.pc = "idle" /\ Idle.p = wk.p
    BY DEF Idle
  <1>b. wk.base \in PromotionObject /\ wk.p \in Promotion
    BY DEF TypeOK
  <1>1. ASSUME NEW p \in Promotion, NEW f \in Env, NEW t \in Env, Create(p, f, t)
        PROVE Edited(p)
    <2>1. (\A q \in Promotion \ {p} : obj'[q] = obj[q]) /\ obj'[p].life = "live"
          /\ obj'[p].phase = "" /\ ~obj'[p].requested
      BY <1>1 DEF Create, TypeOK, NoObject
    <2> QED BY <1>1, <2>1 DEF Create, Edited, uyuni
  <1>2. ASSUME NEW p \in Promotion, NEW f \in Env, NEW t \in Env, EditPair(p, f, t)
        PROVE Edited(p)
    <2>1. (\A q \in Promotion \ {p} : obj'[q] = obj[q]) /\ obj'[p].life = "live"
          /\ obj'[p].phase = obj[p].phase /\ obj'[p].started = obj[p].started
          /\ obj'[p].requested = obj[p].requested /\ obj'[p].gen = obj[p].gen + 1
      BY <1>2 DEF EditPair, TypeOK, PromotionObject
    <2>2. obj[p].gen < obj'[p].gen /\ obj[p].gen <= obj'[p].gen
      BY <2>1 DEF TypeOK, PromotionObject
    <2>3. ~isTerminal(obj[p].phase)
      BY <1>2 DEF EditPair, SpecEditable, isTerminal
    <2> QED BY <1>2, <2>1, <2>2, <2>3 DEF EditPair, Edited, uyuni
  <1>3. ASSUME NEW p \in Promotion, EditTTL(p) PROVE Edited(p)
    BY <1>3 DEF EditTTL, Edited, TypeOK, PromotionObject, uyuni, history
  <1>4. ASSUME NEW p \in Promotion, DeletePromotion(p) PROVE Edited(p)
    BY <1>4 DEF DeletePromotion, Edited, TypeOK, PromotionObject, uyuni, history
  <1>5. ASSUME NEW p \in Promotion, GarbageCollect(p) PROVE Edited(p)
    BY <1>5 DEF GarbageCollect, Edited, TypeOK, PromotionObject, uyuni, history
  <1>6. ASSUME NEW p \in Promotion, Begin(p) PROVE Started(p)
    BY <1>6, VerdictCases DEF Begin, Reads, Started, Reconcilable, k8s, uyuni, history
  <1>7. ASSUME NEW p \in Promotion, BeginNoClient(p) PROVE Started(p)
    BY <1>7 DEF BeginNoClient, Reads, Started, Reconcilable, k8s, uyuni, history
  <1>8. ASSUME NEW p \in Promotion, BeginTooEarly(p) PROVE Started(p)
    BY <1>8 DEF BeginTooEarly, Reads, Started, Reconcilable, k8s, uyuni, history
  <1>9. ASSUME NEW p \in Promotion, CacheSync(p) PROVE Synced
    BY <1>9 DEF CacheSync, Synced, uyuni, history
  <1>10. CASE SaveFail
    <2> DEFINE new == [wk.base EXCEPT !.phase = "Failed"]
    <2>1. new \in PromotionObject /\ "idle" \in PC
      BY <1>b DEF PromotionObject, Phase, PC
    <2>2. new.life = wk.base.life /\ new.gen = wk.base.gen
          /\ new.started = wk.base.started /\ new.requested = wk.base.requested
      BY <1>b DEF PromotionObject
    <2>3. Save(new, "idle") /\ wk.pc = "fail"
         /\ UNCHANGED <<cache, calls, lost, again, alive, del, late>>
      BY <1>10 DEF SaveFail, uyuni, history
    <2> HIDE DEF new
    <2> QED BY <2>1, <2>2, <2>3, SaveEffect DEF Advanced, Written
  <1>11. CASE SavePending
    <2> DEFINE new == [wk.base EXCEPT !.phase = "Pending"]
    <2>1. new \in PromotionObject /\ "idle" \in PC
      BY <1>b DEF PromotionObject, Phase, PC
    <2>2. new.life = wk.base.life /\ new.gen = wk.base.gen
          /\ new.started = wk.base.started /\ new.requested = wk.base.requested
      BY <1>b DEF PromotionObject
    <2>3. Save(new, "idle") /\ wk.pc = "pending"
         /\ UNCHANGED <<cache, calls, lost, again, alive, del, late>>
      BY <1>11 DEF SavePending, uyuni, history
    <2> HIDE DEF new
    <2> QED BY <2>1, <2>2, <2>3, SaveEffect DEF Advanced, Written
  <1>12. CASE SaveStart
    <2> DEFINE new == [wk.base EXCEPT !.phase = "Running", !.started = TRUE]
    <2>1. new \in PromotionObject /\ "promote" \in PC
      BY <1>b DEF PromotionObject, Phase, PC
    <2>2. new.life = wk.base.life /\ new.gen = wk.base.gen
          /\ new.started /\ new.requested = wk.base.requested /\ ~isTerminal(new.phase)
      BY <1>b DEF PromotionObject, isTerminal
    <2>3. Save(new, "promote") /\ wk.pc = "start"
         /\ UNCHANGED <<cache, calls, lost, again, alive, del, late>>
      BY <1>12 DEF SaveStart, uyuni, history
    <2> HIDE DEF new
    <2> QED BY <2>1, <2>2, <2>3, SaveEffect DEF Advanced, Written
  <1>13. CASE SaveSucceeded
    <2> DEFINE new == [wk.base EXCEPT !.phase = "Succeeded"]
    <2>1. new \in PromotionObject /\ "idle" \in PC
      BY <1>b DEF PromotionObject, Phase, PC
    <2>2. new.life = wk.base.life /\ new.gen = wk.base.gen
          /\ new.started = wk.base.started /\ new.requested = wk.base.requested
      BY <1>b DEF PromotionObject
    <2>3. Save(new, "idle") /\ wk.pc = "succeed"
         /\ UNCHANGED <<cache, calls, lost, again, alive, del, late>>
      BY <1>13 DEF SaveSucceeded, uyuni, history
    <2> HIDE DEF new
    <2> QED BY <2>1, <2>2, <2>3, SaveEffect DEF Advanced, Written
  <1>14. CASE SaveRequested
    <2> DEFINE new == [wk.base EXCEPT !.requested = TRUE]
    <2>1. new \in PromotionObject /\ "poll" \in PC
      BY <1>b DEF PromotionObject, PC
    <2>2. new.life = wk.base.life /\ new.gen = wk.base.gen
          /\ new.started = wk.base.started /\ new.requested
          /\ new.phase = wk.base.phase
      BY <1>b DEF PromotionObject
    <2>3. Save(new, "poll") /\ wk.pc = "ack"
          /\ UNCHANGED <<cache, calls, again, alive, del, late>>
          /\ lost' = IF Conflict THEN Losing(wk.p) ELSE lost
      BY <1>14 DEF SaveRequested, uyuni
    <2>4. ~isTerminal(new.phase)
      BY <2>2, <2>3 DEF WorkerReads
    <2> HIDE DEF new
    <2>5. CASE Conflict
      BY <2>1, <2>3, <2>5, SaveEffect DEF Advanced
    <2>6. CASE ~Conflict
      BY <2>1, <2>2, <2>3, <2>4, <2>6, SaveEffect DEF Written
    <2> QED BY <2>5, <2>6
  <1>15. CASE Promote
    BY <1>15 DEF Promote, PromoteAccepted, Requested, TypeOK, k8s
  <1>16. CASE PromoteReplyLost
    BY <1>16 DEF PromoteReplyLost, PromoteAccepted, Requested, TypeOK, k8s
  <1>17. CASE PromoteBusy
    BY <1>17, <1>i DEF PromoteBusy, Advanced, k8s, uyuni, history
  <1>18. CASE PromoteRefused
    BY <1>18 DEF PromoteRefused, Advanced, TypeOK, k8s, uyuni, history
  <1>19. CASE Poll
    <2>1. CASE wk' = Idle
      BY <1>19, <2>1, <1>i DEF Poll, Advanced, k8s, uyuni, history
    <2>2. CASE wk' # Idle
      BY <1>19, <2>2, PollVerdictType DEF Poll, Advanced, TypeOK, k8s, uyuni, history
    <2> QED BY <2>1, <2>2
  <1>20. CASE Crash
    BY <1>20, <1>i DEF Crash, Crashed, uyuni
  <1>21. CASE ProjectHandleDeletion
    BY <1>21 DEF ProjectHandleDeletion, CheckPromotions, RemoveProject, ReleaseProject,
                 Deleted, k8s, uyuni, history
  <1>22. CASE DeleteProject \/ ProjectRefresh \/ ProjectForceDelete \/ ProjectSync
    BY <1>22 DEF DeleteProject, ProjectRefresh, ProjectForceDelete, ProjectSync, Quiet,
                 uyuni, history
  <1>26. CASE DeletionFails
    BY <1>26 DEF DeletionFails, Deleted, k8s, uyuni, history
  <1>23. CASE ProjectBuild
    BY <1>23 DEF ProjectBuild, Quiet, history
  <1>24. ASSUME NEW e \in Env, \/ DeleteEnvCR(e) \/ \E q \in Label : CreateEnvCR(e, q)
                               \/ EnvReconcile(e) \/ EnvHandleDeletion(e)
                               \/ \E r \in {"built", "failed"} : FinishBuild(e, r)
         PROVE Quiet
    BY <1>24 DEF DeleteEnvCR, CreateEnvCR, EnvReconcile, EnvHandleDeletion, FinishBuild,
                 Quiet, k8s, uyuni, history
  <1>25. CASE UNCHANGED vars
    BY <1>25 DEF vars, k8s, uyuni, history, Quiet
  <1> QED BY <1>1, <1>2, <1>3, <1>4, <1>5, <1>6, <1>7, <1>8, <1>9, <1>10, <1>11,
             <1>12, <1>13, <1>14, <1>15, <1>16, <1>17, <1>18, <1>19, <1>20, <1>21,
             <1>22, <1>23, <1>24, <1>25, <1>26 DEF Next, User, Pass

\* The fields a protocol step reads and writes, without the rest of the types.
Fields(o) == /\ o.gen \in Nat /\ o.started \in BOOLEAN /\ o.requested \in BOOLEAN
             /\ o.life \in {"none", "live", "gone"}

\* The fields of well-typed records.
LEMMA FieldTypes ==
    ASSUME TypeOK, NEW q \in Promotion
    PROVE  Fields(obj[q]) /\ Fields(cache[q]) /\ Fields(wk.base) /\ wk.p \in Promotion
  BY DEF TypeOK, PromotionObject, Fields

\* The same in the next state.
LEMMA FieldTypesNext ==
    ASSUME TypeOK', NEW q \in Promotion
    PROVE  Fields(obj'[q]) /\ Fields(cache'[q]) /\ Fields(wk'.base) /\ wk'.p \in Promotion
  BY DEF TypeOK, PromotionObject, Fields

\* Objects that were never created stay without a trace.
LEMMA UntouchedStep ==
    ASSUME TypeOK, TypeOK', Shape, NEW q \in Promotion,
           Untouched(q), CacheLags(q), WorkerReads
    PROVE  Untouched(q)'
  <1>p. wk.p \in Promotion /\ wk'.p \in Promotion
    BY DEF TypeOK
  <1>f. Fields(obj[q]) /\ Fields(cache[q]) /\ Fields(wk.base)
        /\ Fields(obj'[q]) /\ Fields(cache'[q]) /\ Fields(wk'.base)
    BY <1>p, FieldTypes, FieldTypesNext
  <1>1. ASSUME NEW p \in Promotion, Edited(p) PROVE Untouched(q)'
    <2>1. CASE q = p
      BY <1>1, <2>1, <1>p, <1>f DEF Edited, Fields, Untouched, CacheLags, WorkerReads, Conflict
    <2>2. CASE q # p
      BY <1>1, <2>2, <1>p, <1>f DEF Edited, Fields, Untouched, CacheLags, WorkerReads, Conflict
    <2> QED BY <2>1, <2>2
  <1>2. ASSUME NEW p \in Promotion, Started(p) PROVE Untouched(q)'
    BY <1>2, <1>p, <1>f DEF Started, Fields, Untouched, CacheLags, WorkerReads, Conflict
  <1>3. CASE Advanced
    BY <1>3, <1>p, <1>f DEF Advanced, Fields, Untouched, CacheLags, WorkerReads, Conflict
  <1>4. CASE Requested
    BY <1>4, <1>p, <1>f DEF Requested, Fields, Untouched, CacheLags, WorkerReads, Conflict
  <1>5. CASE Written
    <2>1. CASE q = wk.p
      BY <1>5, <2>1, <1>p, <1>f DEF Written, Fields, Untouched, CacheLags, WorkerReads, Conflict
    <2>2. CASE q # wk.p
      BY <1>5, <2>2, <1>p, <1>f DEF Written, Fields, Untouched, CacheLags, WorkerReads, Conflict
    <2> QED BY <2>1, <2>2
  <1>6. CASE Synced
    <2>1. cache'[q] \in {cache[q], obj[q]}
      BY <1>6, <1>p DEF Synced, TypeOK
    <2> QED BY <1>6, <2>1, <1>p, <1>f
               DEF Synced, Fields, Untouched, CacheLags, WorkerReads, Conflict
  <1>7. CASE Crashed
    <2>1. cache'[q] = obj[q]
      BY <1>7, <1>p DEF Crashed
    <2> QED BY <1>7, <2>1, <1>p, <1>f
               DEF Crashed, Fields, Untouched, CacheLags, WorkerReads, Conflict
  <1>8. CASE Deleted
    BY <1>8, <1>p, <1>f DEF Deleted, Fields, Untouched, CacheLags, WorkerReads, Conflict
  <1>9. CASE Quiet
    BY <1>9, <1>p, <1>f DEF Quiet, Fields, Untouched, CacheLags, WorkerReads, Conflict
  <1> QED BY <1>1, <1>2, <1>3, <1>4, <1>5, <1>6, <1>7, <1>8, <1>9 DEF Shape

\* The informer's copy stays an earlier version of the object.
LEMMA CacheLagsStep ==
    ASSUME TypeOK, TypeOK', Shape, NEW q \in Promotion,
           Untouched(q), CacheLags(q), WorkerReads
    PROVE  CacheLags(q)'
  <1>p. wk.p \in Promotion /\ wk'.p \in Promotion
    BY DEF TypeOK
  <1>f. Fields(obj[q]) /\ Fields(cache[q]) /\ Fields(wk.base)
        /\ Fields(obj'[q]) /\ Fields(cache'[q]) /\ Fields(wk'.base)
    BY <1>p, FieldTypes, FieldTypesNext
  <1>1. ASSUME NEW p \in Promotion, Edited(p) PROVE CacheLags(q)'
    <2>1. CASE q = p
      <3>1. cache'[q] = cache[q]
        BY <1>1 DEF Edited
      <3>2. CASE obj[p].life = "none"
        <4>1. cache[q].life = "none" /\ cache[q].phase = "" /\ cache[q].gen = 0
              /\ ~cache[q].requested
          BY <2>1, <3>2 DEF CacheLags, Untouched
        <4>2. ~obj'[q].requested /\ obj'[q].life = "live"
          BY <1>1, <2>1, <3>2 DEF Edited
        <4>3. 0 <= obj'[q].gen
          BY <1>f DEF Fields
        <4> QED BY <3>1, <4>1, <4>2, <4>3 DEF CacheLags, isTerminal
      <3>3. CASE obj[p].life # "none"
        <4>1. /\ obj[q].gen <= obj'[q].gen /\ obj'[q].life # "none" /\ obj[q].life = "live"
              /\ obj'[q].phase = obj[q].phase /\ obj'[q].started = obj[q].started
              /\ obj'[q].requested = obj[q].requested
          BY <1>1, <2>1, <3>3 DEF Edited
        <4>2. cache[q].gen <= obj'[q].gen
          BY <4>1, <1>f DEF CacheLags, Fields
        <4> QED BY <3>1, <4>1, <4>2 DEF CacheLags
      <3> QED BY <3>2, <3>3
    <2>2. CASE q # p
      BY <1>1, <2>2, <1>p, <1>f
         DEF Edited, Fields, Untouched, CacheLags, WorkerReads, Conflict, isTerminal
    <2> QED BY <2>1, <2>2
  <1>2. ASSUME NEW p \in Promotion, Started(p) PROVE CacheLags(q)'
    BY <1>2, <1>p, <1>f DEF Started, Fields, Untouched, CacheLags, WorkerReads, Conflict, isTerminal
  <1>3. CASE Advanced
    BY <1>3, <1>p, <1>f
       DEF Advanced, Fields, Untouched, CacheLags, WorkerReads, Conflict, isTerminal
  <1>4. CASE Requested
    BY <1>4, <1>p, <1>f
       DEF Requested, Fields, Untouched, CacheLags, WorkerReads, Conflict, isTerminal
  <1>5. CASE Written
    <2>1. CASE q = wk.p
      BY <1>5, <2>1, <1>p, <1>f
         DEF Written, Fields, Untouched, CacheLags, WorkerReads, Conflict, isTerminal
    <2>2. CASE q # wk.p
      BY <1>5, <2>2, <1>p, <1>f
         DEF Written, Fields, Untouched, CacheLags, WorkerReads, Conflict, isTerminal
    <2> QED BY <2>1, <2>2
  <1>6. CASE Synced
    <2>1. cache'[q] \in {cache[q], obj[q]}
      BY <1>6, <1>p DEF Synced, TypeOK
    <2>2. CASE cache'[q] = obj[q]
      <3>1. obj'[q] = obj[q] /\ obj[q].gen <= obj[q].gen
        BY <1>6, <1>f DEF Synced, Fields
      <3>2. obj[q].requested => obj[q].life # "none"
        BY DEF Untouched
      <3> QED BY <2>2, <3>1, <3>2 DEF CacheLags
    <2>3. CASE cache'[q] = cache[q]
      BY <1>6, <2>3 DEF Synced, CacheLags
    <2> QED BY <2>1, <2>2, <2>3
  <1>7. CASE Crashed
    <2>1. cache'[q] = obj[q]
      BY <1>7, <1>p DEF Crashed
    <2>2. obj'[q] = obj[q] /\ obj[q].gen <= obj[q].gen
      BY <1>7, <1>f DEF Crashed, Fields
    <2>3. obj[q].requested => obj[q].life # "none"
      BY DEF Untouched
    <2> QED BY <2>1, <2>2, <2>3 DEF CacheLags
  <1>8. CASE Deleted
    BY <1>8, <1>p, <1>f DEF Deleted, Fields, Untouched, CacheLags, WorkerReads, Conflict, isTerminal
  <1>9. CASE Quiet
    BY <1>9, <1>p, <1>f DEF Quiet, Fields, Untouched, CacheLags, WorkerReads, Conflict, isTerminal
  <1> QED BY <1>1, <1>2, <1>3, <1>4, <1>5, <1>6, <1>7, <1>8, <1>9 DEF Shape

\* A pass keeps knowing what it has read.
LEMMA WorkerReadsStep ==
    ASSUME TypeOK, TypeOK', Shape,
           \A q \in Promotion : Untouched(q) /\ CacheLags(q), WorkerReads
    PROVE  WorkerReads'
  <1>p. wk.p \in Promotion /\ wk'.p \in Promotion
    BY DEF TypeOK
  <1>f. Fields(obj[wk.p]) /\ Fields(cache[wk.p]) /\ Fields(wk.base)
        /\ Fields(obj'[wk.p]) /\ Fields(cache'[wk.p]) /\ Fields(wk'.base)
    BY <1>p, FieldTypes, FieldTypesNext
  <1>1. ASSUME NEW p \in Promotion, Edited(p) PROVE WorkerReads'
    <2>1. CASE wk.p = p
      <3>1. wk' = wk /\ cache' = cache
        BY <1>1 DEF Edited
      <3>2. CASE wk.pc = "idle"
        BY <3>1, <3>2 DEF WorkerReads
      <3>3. CASE wk.pc # "idle"
        <4>1. obj[p].life # "none"
          BY <2>1, <3>3 DEF WorkerReads, CacheLags
        <4>2. obj[wk.p].gen <= obj'[wk.p].gen
          BY <1>1, <2>1, <4>1 DEF Edited
        <4>3. wk.base.gen <= obj'[wk.p].gen
          BY <1>f, <3>3, <4>2 DEF WorkerReads, Fields
        <4>4. obj'[wk.p].requested = obj[wk.p].requested
          BY <1>1, <2>1, <4>1 DEF Edited
        <4> QED BY <3>1, <3>3, <4>3, <4>4 DEF WorkerReads
      <3> QED BY <3>2, <3>3
    <2>2. CASE wk.p # p
      BY <1>1, <2>2, <1>p, <1>f, ZenonT(60)
         DEF Edited, Fields, CacheLags, Untouched, WorkerReads, Conflict, Reconcilable, Picked
    <2> QED BY <2>1, <2>2
  <1>2. ASSUME NEW p \in Promotion, Started(p) PROVE WorkerReads'
    <2>1. Fields(obj[p]) /\ Fields(cache[p])
      BY FieldTypes
    <2> QED BY <1>2, <2>1
               DEF Started, Fields, CacheLags, Untouched, WorkerReads, Conflict,
                   Reconcilable, Picked
  <1>3. CASE Advanced
    BY <1>3, <1>p, <1>f
       DEF Advanced, Fields, CacheLags, Untouched, WorkerReads, Conflict, Reconcilable, Picked
  <1>4. CASE Requested
    BY <1>4, <1>p, <1>f
       DEF Requested, Fields, CacheLags, Untouched, WorkerReads, Conflict, Reconcilable, Picked
  <1>5. CASE Written
    BY <1>5, <1>p, <1>f, ZenonT(60)
       DEF Written, Fields, CacheLags, Untouched, WorkerReads, Conflict, Reconcilable, Picked
  <1>6. CASE Synced
    <2>1. cache'[wk.p] \in {cache[wk.p], obj[wk.p]}
      BY <1>6, <1>p DEF Synced, TypeOK
    <2> QED BY <1>6, <2>1, <1>p, <1>f
               DEF Synced, Fields, CacheLags, Untouched, WorkerReads, Conflict,
                   Reconcilable, Picked
  <1>7. CASE Crashed
    BY <1>7, <1>p, <1>f
       DEF Crashed, Fields, CacheLags, Untouched, WorkerReads, Conflict, Reconcilable, Picked
  <1>8. CASE Deleted
    BY <1>8, <1>p, <1>f
       DEF Deleted, Fields, CacheLags, Untouched, WorkerReads, Conflict, Reconcilable, Picked
  <1>9. CASE Quiet
    BY <1>9, <1>p, <1>f
       DEF Quiet, Fields, CacheLags, Untouched, WorkerReads, Conflict, Reconcilable, Picked
  <1> QED BY <1>1, <1>2, <1>3, <1>4, <1>5, <1>6, <1>7, <1>8, <1>9 DEF Shape

\* A promotion that is finished, or gone, stays so.
Over(o) == o.life = "gone" \/ (o.life = "live" /\ isTerminal(o.phase))

\* No step brings a finished promotion back, whatever copy of it a pass holds.
LEMMA OverStep ==
    ASSUME TypeOK, Shape, WorkerReads, NEW q \in Promotion, Over(obj[q])
    PROVE  Over(obj'[q])
  <1>1. CASE obj' = obj
    BY <1>1
  <1>2. ASSUME NEW p \in Promotion, Edited(p) PROVE Over(obj'[q])
    <2>1. CASE q # p
      BY <1>2, <2>1 DEF Edited
    <2>2. CASE q = p
      <3>1. obj[p].life = "live" /\ isTerminal(obj[p].phase)
        BY <1>2, <2>2 DEF Edited, Over
      <3>2. obj'[p].life \in {"live", "gone"} /\ obj'[p].phase = obj[p].phase
        BY <1>2, <3>1 DEF Edited
      <3> QED BY <2>2, <3>1, <3>2 DEF Over
    <2> QED BY <2>1, <2>2
  <1>3. CASE Written
    BY <1>3 DEF Written, WorkerReads, Conflict, Over, TypeOK
  <1> QED BY <1>1, <1>2, <1>3 DEF Shape, Started, Advanced, Requested, Synced, Crashed,
                                   Deleted, Quiet

\* What the deletion has counted in the cache holds for the objects, and goes on
\* holding.
LEMMA ClearedStep ==
    ASSUME TypeOK, Shape, WorkerReads, Cleared,
           \A q \in Promotion : Untouched(q) /\ CacheLags(q)
    PROVE  Cleared'
  <1> SUFFICES ASSUME del' = "checked" \/ ~alive', NEW q \in Promotion \ late'
               PROVE  Over(obj'[q])
    BY DEF Cleared, Over
  <1>1. CASE late' = late /\ (del = "checked" \/ ~alive)
    <2>1. Over(obj[q])
      BY <1>1 DEF Cleared, Over
    <2> QED BY <2>1, OverStep
  <1>2. CASE ~(late' = late /\ (del = "checked" \/ ~alive))
    <2>1. Deleted
      <3>1. ASSUME UNCHANGED <<alive, del, late>> PROVE FALSE
        BY <1>2, <3>1
      <3>2. ~Crashed
        BY <1>2 DEF Crashed
      <3> QED BY <3>1, <3>2 DEF Shape, Edited, Started, Advanced, Requested, Written,
                                Synced, Quiet
    <2>2. activePromotions = {} /\ alive /\ late' = {p \in Promotion : cache[p].life = "none"}
      BY <1>2, <2>1 DEF Deleted
    <2>3. cache[q].life # "none"
          /\ ~(cache[q].life = "live" /\ cache[q].phase \in {"", "Pending", "Running"})
      BY <2>2 DEF activePromotions
    <2>4. cache[q].phase \in Phase /\ cache[q].life \in {"none", "live", "gone"}
          /\ obj[q].life \in {"none", "live", "gone"}
      BY DEF TypeOK, PromotionObject
    <2>5. Over(obj[q])
      BY <2>3, <2>4 DEF CacheLags, Over, isTerminal, Phase
    <2> QED BY <2>5, OverStep
  <1> QED BY <1>1, <1>2

\* So no unfinished promotion is left when the project goes.
LEMMA ClearedKeeps == Cleared => InFlightKeepsProject
  BY DEF Cleared, InFlightKeepsProject, KeptBy

\* Every accepted call is the recorded one, the one about to be, lost, or made
\* again by a pass on an outdated copy.
LEMMA AccountingStep ==
    ASSUME TypeOK, TypeOK', Shape, NEW q \in Promotion,
           Untouched(q), WorkerReads, EveryExtraCallHasACause
    PROVE  calls'[q] = lost'[q] + again'[q] + Acknowledged(q)' + InFlight(q)'
  <1> DEFINE Sum == lost'[q] + again'[q] + Acknowledged(q)' + InFlight(q)'
  <1>t. /\ wk.p \in Promotion /\ wk'.p \in Promotion
        /\ calls[q] \in Nat /\ lost[q] \in Nat /\ again[q] \in Nat
        /\ obj[q].requested \in BOOLEAN
        /\ calls \in [Promotion -> Nat] /\ lost \in [Promotion -> Nat]
        /\ again \in [Promotion -> Nat]
    BY DEF TypeOK, PromotionObject
  <1>c. calls[q] = lost[q] + again[q] + Acknowledged(q) + InFlight(q)
    BY DEF EveryExtraCallHasACause
  <1>s. ASSUME calls'[q] = calls[q], lost'[q] = lost[q], again'[q] = again[q],
               obj'[q].requested = obj[q].requested,
               (wk'.pc = "ack" /\ wk'.p = q) <=> (wk.pc = "ack" /\ wk.p = q)
        PROVE  calls'[q] = Sum
    BY <1>c, <1>s DEF Acknowledged, InFlight
  <1>1. ASSUME NEW p \in Promotion, Edited(p) PROVE obj'[q].requested = obj[q].requested
    <2>1. CASE q = p /\ obj[p].life = "none"
      <3>1. ~obj'[q].requested /\ ~obj[q].requested
        BY <1>1, <2>1 DEF Edited, Untouched
      <3>2. obj'[q].requested \in BOOLEAN
        BY DEF TypeOK, PromotionObject
      <3> QED BY <1>t, <3>1, <3>2
    <2>2. CASE q = p /\ obj[p].life # "none"
      BY <1>1, <2>2 DEF Edited
    <2>3. CASE q # p
      BY <1>1, <2>3 DEF Edited
    <2> QED BY <2>1, <2>2, <2>3
  <1>2. ASSUME NEW p \in Promotion, Edited(p) PROVE calls'[q] = Sum
    BY <1>1, <1>2, <1>s DEF Edited
  <1>3. ASSUME NEW p \in Promotion, Started(p) PROVE calls'[q] = Sum
    <2>1. wk.pc = "idle" /\ wk'.pc # "ack"
      BY <1>3 DEF Started, Reconcilable, Picked
    <2> QED BY <1>3, <1>s, <2>1 DEF Started
  <1>4. ASSUME UNCHANGED <<obj, calls, again>>, wk'.pc # "ack",
               lost' = IF wk.pc = "ack" THEN Losing(wk.p) ELSE lost
        PROVE  calls'[q] = Sum
    <2>1. CASE wk.pc = "ack" /\ wk.p = q /\ ~obj[q].requested
      <3>1. lost'[q] = lost[q] + 1 /\ again'[q] = again[q]
        BY <1>4, <1>t, <2>1 DEF Losing
      <3>2. InFlight(q) = 1 /\ InFlight(q)' = 0 /\ Acknowledged(q) = 0
            /\ Acknowledged(q)' = 0
        BY <1>4, <2>1 DEF Acknowledged, InFlight
      <3> QED BY <1>c, <1>t, <1>4, <3>1, <3>2
    <2>2. CASE ~(wk.pc = "ack" /\ wk.p = q /\ ~obj[q].requested)
      <3>1. lost'[q] = lost[q] /\ again'[q] = again[q]
        BY <1>4, <1>t, <2>2 DEF Losing
      <3>2. InFlight(q) = 0 /\ InFlight(q)' = 0 /\ Acknowledged(q)' = Acknowledged(q)
        BY <1>4, <2>2 DEF Acknowledged, InFlight
      <3> QED BY <1>c, <1>t, <1>4, <3>1, <3>2
    <2> QED BY <2>1, <2>2
  <1>5. CASE Advanced
    <2>1. wk'.pc # "ack"
      BY <1>5 DEF Advanced
    <2> QED BY <1>4, <1>5, <2>1 DEF Advanced
  <1>6. CASE Crashed
    BY <1>4, <1>6 DEF Crashed
  <1>7. CASE Requested
    <2>0. obj' = obj
      BY <1>7 DEF Requested
    <2>1. CASE wk.p = q
      <3>1. calls'[q] = calls[q] + 1 /\ wk.pc = "promote" /\ wk'.p = q
        BY <1>7, <1>t, <2>1 DEF Requested
      <3>2. CASE obj[q].requested
        <4>1. wk.old
          BY <2>1, <3>1, <3>2 DEF WorkerReads
        <4>2. again'[q] = again[q] + 1 /\ lost'[q] = lost[q]
          BY <1>7, <1>t, <2>1, <3>2, <4>1 DEF Requested, Losing
        <4>3. InFlight(q) = 0 /\ InFlight(q)' = 0 /\ Acknowledged(q)' = Acknowledged(q)
              /\ Acknowledged(q) = 1
          BY <2>0, <3>2 DEF Acknowledged, InFlight
        <4> QED BY <1>c, <1>t, <3>1, <4>2, <4>3
      <3>3. CASE ~obj[q].requested
        <4>1. again'[q] = again[q]
          BY <1>7, <1>t, <2>1, <3>3 DEF Requested
        <4>2. \/ wk'.pc = "ack" /\ lost'[q] = lost[q]
              \/ wk'.pc = "fail" /\ lost'[q] = lost[q] + 1
          BY <1>7, <1>t, <2>1, <3>3 DEF Requested, Losing
        <4>3. InFlight(q) = 0 /\ Acknowledged(q) = 0 /\ Acknowledged(q)' = 0
              /\ InFlight(q)' = IF wk'.pc = "ack" THEN 1 ELSE 0
          BY <2>0, <3>1, <3>3 DEF Acknowledged, InFlight
        <4> QED BY <1>c, <1>t, <3>1, <4>1, <4>2, <4>3
      <3> QED BY <3>2, <3>3
    <2>2. CASE wk.p # q
      <3>1. calls'[q] = calls[q] /\ lost'[q] = lost[q] /\ again'[q] = again[q]
        BY <1>7, <1>t, <2>2 DEF Requested, Losing
      <3> QED BY <1>7, <1>s, <2>0, <2>2, <3>1 DEF Requested
    <2> QED BY <2>1, <2>2
  <1>8. CASE Written
    <2>0. calls' = calls /\ lost' = lost /\ again' = again
      BY <1>8 DEF Written
    <2>1. CASE wk.p = q /\ wk.pc = "ack"
      <3>1. ~obj[q].requested
        BY <1>8, <2>1 DEF Written, WorkerReads, Conflict
      <3>2. obj'[q].requested /\ wk'.pc # "ack"
        BY <1>8, <2>1 DEF Written
      <3>3. InFlight(q) = 1 /\ InFlight(q)' = 0 /\ Acknowledged(q) = 0
            /\ Acknowledged(q)' = 1
        BY <2>1, <3>1, <3>2 DEF Acknowledged, InFlight
      <3> QED BY <1>c, <1>t, <2>0, <3>3
    <2>2. CASE wk.p = q /\ wk.pc # "ack"
      <3>1. obj'[q].requested <=> obj[q].requested
        BY <1>8, <2>2 DEF Written, Conflict
      <3>2. obj'[q].requested \in BOOLEAN /\ wk'.pc # "ack"
        BY <1>8, <2>2 DEF Written, TypeOK, PromotionObject
      <3> QED BY <1>s, <1>t, <2>0, <2>2, <3>1, <3>2
    <2>3. CASE wk.p # q
      BY <1>8, <1>s, <2>3 DEF Written
    <2> QED BY <2>1, <2>2, <2>3
  <1>9. CASE Synced
    BY <1>9, <1>s DEF Synced
  <1>10. CASE Deleted
    BY <1>10, <1>s DEF Deleted
  <1>11. CASE Quiet
    BY <1>11, <1>s DEF Quiet
  <1> QED BY <1>2, <1>3, <1>5, <1>6, <1>7, <1>8, <1>9, <1>10, <1>11 DEF Shape

\* The invariant holds at the start.
LEMMA InvariantInit == Init => IInv
  <1> SUFFICES ASSUME Init PROVE IInv
    OBVIOUS
  <1>1. TypeOK
    BY InitType
  <1>2. wk.pc = "idle" /\ alive /\ del = "no"
    BY DEF Init
  <1>3. ASSUME NEW p \in Promotion
        PROVE  Untouched(p) /\ CacheLags(p) /\ KeptBy(p)
               /\ calls[p] = lost[p] + again[p] + Acknowledged(p) + InFlight(p)
    <2>1. obj[p] = NoObject /\ cache[p] = NoObject /\ calls[p] = 0 /\ lost[p] = 0
          /\ again[p] = 0
      BY DEF Init
    <2>2. NoObject.life = "none" /\ NoObject.phase = "" /\ NoObject.gen = 0
      BY DEF NoObject
    <2>3. NoObject.requested = FALSE
      BY DEF NoObject
    <2>4. /\ obj[p].life = "none" /\ obj[p].phase = "" /\ obj[p].gen = 0
          /\ cache[p].life = "none" /\ cache[p].phase = "" /\ cache[p].gen = 0
      BY <2>1, <2>2
    <2>5. ~obj[p].requested /\ ~cache[p].requested
      BY <2>1, <2>3
    <2>6. cache[p].gen <= obj[p].gen
      <3>1. 0 <= 0
        OBVIOUS
      <3> QED BY <2>4, <3>1
    <2>7. ~isTerminal(cache[p].phase)
      BY <2>4 DEF isTerminal
    <2>8. Untouched(p) /\ CacheLags(p)
      BY <2>4, <2>5, <2>6, <2>7 DEF Untouched, CacheLags
    <2>9. Acknowledged(p) = 0 /\ InFlight(p) = 0
      BY <1>2, <2>5 DEF Acknowledged, InFlight
    <2> QED BY <1>2, <2>1, <2>8, <2>9 DEF KeptBy
  <1> QED BY <1>1, <1>2, <1>3 DEF IInv, WorkerReads, Cleared,
                                  EveryExtraCallHasACause, InFlightKeepsProject

\* Every shape of step keeps the invariant.
LEMMA InvariantStep == IInv /\ [Next]_vars => IInv'
  <1> SUFFICES ASSUME IInv, [Next]_vars PROVE IInv'
    OBVIOUS
  <1>1. TypeOK'
    BY TypeStep DEF IInv
  <1>2. Shape
    BY StepShape DEF IInv
  <1>3. ASSUME NEW q \in Promotion PROVE Untouched(q)' /\ CacheLags(q)'
    BY <1>1, <1>2, UntouchedStep, CacheLagsStep DEF IInv
  <1>4. WorkerReads' /\ Cleared'
    BY <1>1, <1>2, WorkerReadsStep, ClearedStep DEF IInv
  <1>5. EveryExtraCallHasACause'
    BY <1>1, <1>2, AccountingStep DEF IInv, EveryExtraCallHasACause
  <1>6. InFlightKeepsProject'
    BY <1>4, ClearedKeeps DEF Cleared, InFlightKeepsProject, KeptBy
  <1> QED BY <1>1, <1>3, <1>4, <1>5, <1>6 DEF IInv

\* Every PromoteProject call Uyuni accepted for a promotion is the one recorded
\* in status.promotionRequested, the one whose record is being written, one whose
\* outcome was lost before it was recorded, or one made by a pass that began on
\* an outdated copy: a pass on the current object never requests a recorded
\* promotion again.
THEOREM ExtraCallsHaveACause == Spec => []EveryExtraCallHasACause
  <1>1. IInv => EveryExtraCallHasACause
    BY DEF IInv
  <1> QED BY <1>1, InvariantInit, InvariantStep, PTL DEF Spec

\* handleDeletion never removes the project from Uyuni under an unfinished
\* promotion that the informer had shown when it counted them, however far the
\* cache lagged then and whatever happened between the count and the removal.
THEOREM ProjectKeptInFlight == Spec => []InFlightKeepsProject
  <1>1. IInv => InFlightKeepsProject
    BY DEF IInv
  <1> QED BY <1>1, InvariantInit, InvariantStep, PTL DEF Spec

\* A finished promotion keeps its phase, its target and its record, whatever a
\* pass that started on an older copy of it does.
THEOREM FinishedStaysFinished == Spec => TerminalIsFinal
  <1>1. ASSUME IInv, [Next]_vars, NEW p \in Promotion,
               obj[p].life = "live", isTerminal(obj[p].phase)
        PROVE  /\ obj'[p].phase = obj[p].phase
               /\ obj'[p].to = obj[p].to
               /\ obj'[p].requested = obj[p].requested
    <2>1. Shape /\ WorkerReads
      BY <1>1, StepShape DEF IInv
    <2>2. CASE obj' = obj
      BY <2>2
    <2>3. ASSUME NEW q \in Promotion, Edited(q) PROVE obj'[p].phase = obj[p].phase
            /\ obj'[p].to = obj[p].to /\ obj'[p].requested = obj[p].requested
      BY <1>1, <2>3 DEF Edited
    <2>4. CASE Written
      <3>1. wk.p # p
        BY <1>1, <2>1, <2>4 DEF Written, WorkerReads, Conflict
      <3> QED BY <3>1, <2>4 DEF Written
    <2> QED BY <2>1, <2>2, <2>3, <2>4 DEF Shape, Started, Advanced, Requested, Synced,
                                         Crashed, Deleted, Quiet
  <1>2. IInv /\ [Next]_vars =>
          [\A p \in Promotion :
             (obj[p].life = "live" /\ isTerminal(obj[p].phase)) =>
                /\ obj'[p].phase = obj[p].phase
                /\ obj'[p].to = obj[p].to
                /\ obj'[p].requested = obj[p].requested]_vars
    BY <1>1
  <1> QED BY <1>2, InvariantInit, InvariantStep, PTL DEF Spec, TerminalIsFinal

----------------------------------------------------------------------------
(* Delivery.  Seen from what it speaks of, a step has one of six forms.     *)

\* The user or the garbage collector changes p.  If a pass has read p, its
\* write will conflict; if the new pair is in force, no request was made for it.
PairChanged(p) ==
    /\ UNCHANGED <<cache, wk, succ, st, goal, landed>>
    /\ \A q \in Promotion \ {p} : obj'[q] = obj[q] /\ moved'[q] = moved[q]
    /\ (wk.pc # "idle" /\ wk.p = p) => obj'[p] # wk.base
    /\ \/ /\ moved'[p] = moved[p] /\ obj[p].life # "none"
          /\ obj'[p].from = obj[p].from /\ obj'[p].to = obj[p].to
          /\ obj'[p].phase = obj[p].phase
          /\ obj'[p].requested = obj[p].requested
       \/ ~moved'[p] => /\ succ[obj'[p].from] = obj'[p].to
                        /\ ~obj'[p].requested /\ obj'[p].phase # "Succeeded"

\* A status write keeps the pair.
StatusWritten ==
    /\ UNCHANGED <<cache, succ, st, goal, landed, moved>>
    /\ wk.pc # "idle" /\ ~Conflict /\ wk'.p = wk.p
    /\ \A q \in Promotion \ {wk.p} : obj'[q] = obj[q]
    /\ obj'[wk.p].life = wk.base.life
    /\ obj'[wk.p].from = wk.base.from /\ obj'[wk.p].to = wk.base.to
    /\ obj'[wk.p].requested => wk.base.requested \/ wk.pc = "ack"
    /\ obj'[wk.p].phase = "Succeeded" =>
           wk.base.phase = "Succeeded" \/ wk.pc = "succeed"
    /\ wk'.pc = "idle" \/ (wk'.base = obj'[wk.p] /\ wk'.pc \in {"promote", "poll"})

\* A pass begins, ends or goes on.
PassMoved ==
    /\ UNCHANGED <<obj, cache, succ, st, goal, landed, moved>>
    /\ \/ wk'.pc = "idle"
       \/ wk'.pc \notin {"ack", "succeed"} /\ wk'.base = cache[wk'.p]
       \/ /\ wk.pc # "idle" /\ wk'.p = wk.p /\ wk'.base = wk.base
          /\ wk'.pc # "ack"
          /\ wk'.pc = "succeed" => wk.pc = "poll" /\ st[wk.base.to] = "built"

\* Uyuni starts to build the successor of fromEnvironment.
BuildAsked ==
    LET t == succ[wk.base.from]
    IN /\ UNCHANGED <<obj, cache, succ, landed, moved>>
       /\ wk.pc = "promote" /\ t \in Env
       /\ st' = [st EXCEPT ![t] = "building"]
       /\ goal' = [goal EXCEPT ![wk.p] = t]
       /\ wk'.p = wk.p /\ wk'.base = wk.base /\ wk'.pc \in {"ack", "fail"}

\* The informer catches up, after a crash with all of them.
CacheMoved ==
    /\ UNCHANGED <<obj, succ, st, goal, landed, moved>>
    /\ \A q \in Promotion : cache'[q] \in {cache[q], obj[q]}
    /\ wk' = wk \/ wk'.pc = "idle"

\* Builds end or start and the chain changes.
ChainChanged ==
    /\ UNCHANGED <<obj, cache, wk, goal>>
    /\ \A q \in Promotion :
         /\ landed[q] \subseteq landed'[q]
         /\ ~moved'[q] => /\ ~moved[q]
                          /\ obj[q].life # "none" => succ'[obj[q].from] = obj[q].to
    /\ \A q \in Promotion, e \in Env :
         (goal[q] = e /\ st'[e] = "built") => st[e] = "built" \/ e \in landed'[q]

Form == \/ \E p \in Promotion : PairChanged(p)
        \/ StatusWritten \/ PassMoved \/ BuildAsked \/ CacheMoved \/ ChainChanged

\* A change by the user or the garbage collector has that form.
LEMMA PairForm ==
    ASSUME IInv, NEW p \in Promotion,
           \/ \E f, t \in Env : Create(p, f, t) \/ EditPair(p, f, t)
           \/ EditTTL(p) \/ DeletePromotion(p) \/ GarbageCollect(p)
    PROVE  PairChanged(p)
  <1>0. TypeOK /\ CacheLags(p) /\ Untouched(p) /\ WorkerReads
    BY DEF IInv
  <1>1. Fields(obj[p]) /\ Fields(wk.base)
    BY <1>0, FieldTypes
  <1>2. obj[p].gen < obj'[p].gen \/ obj'[p].life = "gone" \/ obj[p].life = "none"
           => ((wk.pc # "idle" /\ wk.p = p) => obj'[p] # wk.base)
    <2>1. SUFFICES ASSUME obj[p].gen < obj'[p].gen \/ obj'[p].life = "gone"
                             \/ obj[p].life = "none",
                          wk.pc # "idle", wk.p = p, obj'[p] = wk.base
                   PROVE  FALSE
      OBVIOUS
    <2>2. wk.base.life = "live" /\ wk.base.gen <= obj[p].gen /\ cache[p].life # "none"
      BY <1>0, <2>1 DEF WorkerReads
    <2>3. obj[p].life # "none"
      BY <1>0, <2>2 DEF CacheLags
    <2>4. wk.base.gen = obj'[p].gen /\ wk.base.life = obj'[p].life
      BY <2>1
    <2>5. obj[p].gen < obj'[p].gen
      BY <2>1, <2>2, <2>3, <2>4
    <2> QED BY <1>1, <2>2, <2>4, <2>5 DEF Fields
  <1>3. ASSUME NEW f \in Env, NEW t \in Env, Create(p, f, t) PROVE PairChanged(p)
    <2>1. /\ \A q \in Promotion \ {p} : obj'[q] = obj[q] /\ moved'[q] = moved[q]
          /\ obj'[p] = [NoObject EXCEPT !.life = "live", !.from = f, !.to = t]
          /\ moved'[p] = (succ[f] # t)
      BY <1>0, <1>3 DEF Create, TypeOK
    <2>2. obj'[p].from = f /\ obj'[p].to = t /\ ~obj'[p].requested
          /\ obj'[p].phase = ""
      BY <2>1 DEF NoObject
    <2>3. obj[p].life = "none"
      BY <1>3 DEF Create
    <2> QED BY <1>2, <1>3, <2>1, <2>2, <2>3 DEF Create, PairChanged, uyuni
  <1>4. ASSUME NEW f \in Env, NEW t \in Env, EditPair(p, f, t) PROVE PairChanged(p)
    <2>1. /\ \A q \in Promotion \ {p} : obj'[q] = obj[q] /\ moved'[q] = moved[q]
          /\ obj'[p] = [obj[p] EXCEPT !.from = f, !.to = t, !.gen = @ + 1]
          /\ moved'[p] = (obj[p].requested \/ succ[f] # t)
      BY <1>0, <1>4 DEF EditPair, TypeOK
    <2>2. obj'[p].from = f /\ obj'[p].to = t /\ obj'[p].gen = obj[p].gen + 1
          /\ obj'[p].requested = obj[p].requested /\ obj'[p].phase = obj[p].phase
      BY <1>0, <2>1 DEF TypeOK, PromotionObject
    <2>3. obj[p].phase # "Succeeded"
      BY <1>4 DEF EditPair, SpecEditable
    <2>4. obj[p].gen < obj'[p].gen
      BY <1>1, <2>2 DEF Fields
    <2> QED BY <1>2, <1>4, <2>1, <2>2, <2>3, <2>4 DEF EditPair, PairChanged, uyuni
  <1>5. CASE EditTTL(p) \/ DeletePromotion(p) \/ GarbageCollect(p)
    <2>1. /\ \A q \in Promotion \ {p} : obj'[q] = obj[q]
          /\ obj'[p].from = obj[p].from /\ obj'[p].to = obj[p].to
          /\ obj'[p].phase = obj[p].phase /\ obj'[p].requested = obj[p].requested
          /\ obj[p].life # "none"
      BY <1>0, <1>5 DEF EditTTL, DeletePromotion, GarbageCollect, TypeOK, PromotionObject
    <2>2. obj[p].gen < obj'[p].gen \/ obj'[p].life = "gone"
      BY <1>0, <1>5 DEF EditTTL, DeletePromotion, GarbageCollect, TypeOK, PromotionObject
    <2>3. UNCHANGED <<cache, wk, succ, st, goal, landed, moved>>
      BY <1>5 DEF EditTTL, DeletePromotion, GarbageCollect, uyuni, history
    <2> QED BY <1>2, <2>1, <2>2, <2>3 DEF PairChanged
  <1> QED BY <1>3, <1>4, <1>5

\* A status write either conflicts and ends the pass, or keeps the pair.
LEMMA SaveForm ==
    ASSUME IInv, SaveFail \/ SavePending \/ SaveStart \/ SaveRequested \/ SaveSucceeded
    PROVE  PassMoved \/ StatusWritten
  <1>0. TypeOK /\ wk.base \in PromotionObject /\ wk.pc # "idle"
    BY DEF IInv, TypeOK, SaveFail, SavePending, SaveStart, SaveRequested, SaveSucceeded
  <1>1. UNCHANGED <<cache, succ, st, goal, landed, moved>>
    BY DEF SaveFail, SavePending, SaveStart, SaveRequested, SaveSucceeded, uyuni, history
  <1>2. ASSUME NEW new \in PromotionObject, NEW next \in {"idle", "promote", "poll"},
               Save(new, next),
               new.life = wk.base.life, new.from = wk.base.from, new.to = wk.base.to,
               new.requested => wk.base.requested \/ wk.pc = "ack",
               new.phase = "Succeeded" => wk.base.phase = "Succeeded" \/ wk.pc = "succeed"
        PROVE  PassMoved \/ StatusWritten
    <2>1. next \in PC
      BY DEF PC
    <2> QED BY <1>0, <1>1, <1>2, <2>1, SaveEffect DEF PassMoved, StatusWritten
  <1>3. CASE SaveFail
    <2> DEFINE new == [wk.base EXCEPT !.phase = "Failed"]
    <2>1. new \in PromotionObject /\ new.life = wk.base.life /\ new.from = wk.base.from
          /\ new.to = wk.base.to /\ new.requested = wk.base.requested
          /\ new.phase = "Failed"
      BY <1>0 DEF PromotionObject, Phase
    <2>2. Save(new, "idle")
      BY <1>3 DEF SaveFail
    <2> HIDE DEF new
    <2> QED BY <1>2, <2>1, <2>2
  <1>4. CASE SavePending
    <2> DEFINE new == [wk.base EXCEPT !.phase = "Pending"]
    <2>1. new \in PromotionObject /\ new.life = wk.base.life /\ new.from = wk.base.from
          /\ new.to = wk.base.to /\ new.requested = wk.base.requested
          /\ new.phase = "Pending"
      BY <1>0 DEF PromotionObject, Phase
    <2>2. Save(new, "idle")
      BY <1>4 DEF SavePending
    <2> HIDE DEF new
    <2> QED BY <1>2, <2>1, <2>2
  <1>5. CASE SaveStart
    <2> DEFINE new == [wk.base EXCEPT !.phase = "Running", !.started = TRUE]
    <2>1. new \in PromotionObject /\ new.life = wk.base.life /\ new.from = wk.base.from
          /\ new.to = wk.base.to /\ new.requested = wk.base.requested
          /\ new.phase = "Running"
      BY <1>0 DEF PromotionObject, Phase
    <2>2. Save(new, "promote")
      BY <1>5 DEF SaveStart
    <2> HIDE DEF new
    <2> QED BY <1>2, <2>1, <2>2
  <1>6. CASE SaveRequested
    <2> DEFINE new == [wk.base EXCEPT !.requested = TRUE]
    <2>1. new \in PromotionObject /\ new.life = wk.base.life /\ new.from = wk.base.from
          /\ new.to = wk.base.to /\ new.phase = wk.base.phase
      BY <1>0 DEF PromotionObject
    <2>2. Save(new, "poll") /\ wk.pc = "ack"
      BY <1>6 DEF SaveRequested
    <2> HIDE DEF new
    <2> QED BY <1>2, <2>1, <2>2
  <1>7. CASE SaveSucceeded
    <2> DEFINE new == [wk.base EXCEPT !.phase = "Succeeded"]
    <2>1. new \in PromotionObject /\ new.life = wk.base.life /\ new.from = wk.base.from
          /\ new.to = wk.base.to /\ new.requested = wk.base.requested
      BY <1>0 DEF PromotionObject, Phase
    <2>2. Save(new, "idle") /\ wk.pc = "succeed"
      BY <1>7 DEF SaveSucceeded
    <2> HIDE DEF new
    <2> QED BY <1>2, <2>1, <2>2
  <1> QED BY <1>3, <1>4, <1>5, <1>6, <1>7

\* What happens in Uyuni to the chain and to the builds.
LEMMA ChainForm ==
    ASSUME IInv, Aligned,
           \/ \E e \in Env : \/ EnvReconcile(e) \/ EnvHandleDeletion(e)
                             \/ \E r \in {"built", "failed"} : FinishBuild(e, r)
           \/ ProjectBuild \/ ProjectHandleDeletion
    PROVE  ChainChanged
  <1>0. TypeOK
    BY DEF IInv
  <1>1. ASSUME NEW e \in Env, NEW r \in {"built", "failed"}, FinishBuild(e, r)
        PROVE  ChainChanged
    <2>1. UNCHANGED <<obj, cache, wk, goal, succ, moved>>
      BY <1>1 DEF FinishBuild, k8s
    <2>2. \A q \in Promotion : landed[q] \subseteq landed'[q]
      BY <1>0, <1>1 DEF FinishBuild, TypeOK
    <2>3. ASSUME NEW q \in Promotion, NEW d \in Env, goal[q] = d, st'[d] = "built",
                 st[d] # "built"
          PROVE  d \in landed'[q]
      <3>1. d = e /\ r = "built"
        BY <1>0, <1>1, <2>3 DEF FinishBuild, TypeOK
      <3> QED BY <1>1, <2>3, <3>1 DEF FinishBuild
    <2>4. \A q \in Promotion : ~moved[q] /\ obj[q].life # "none"
                                 => succ[obj[q].from] = obj[q].to
      BY DEF Aligned
    <2> QED BY <2>1, <2>2, <2>3, <2>4 DEF ChainChanged
  <1>2. CASE ProjectBuild
    <2>1. UNCHANGED <<obj, cache, wk, goal, succ, moved, landed>>
      BY <1>2 DEF ProjectBuild, history
    <2>2. \A d \in Env : st'[d] = "built" => st[d] = "built"
      BY <1>0, <1>2 DEF ProjectBuild, TypeOK
    <2> QED BY <2>1, <2>2 DEF ChainChanged, Aligned
  <1>3. CASE ProjectHandleDeletion
    <2>1. UNCHANGED <<obj, cache, wk, goal, landed>>
      BY <1>3 DEF ProjectHandleDeletion, CheckPromotions, RemoveProject, ReleaseProject,
                  k8s, history
    <2>2. CASE RemoveProject
      BY <2>1, <2>2 DEF RemoveProject, ChainChanged
    <2>3. CASE CheckPromotions \/ ReleaseProject
      <3>1. UNCHANGED <<succ, st, moved>>
        BY <2>3 DEF CheckPromotions, ReleaseProject, uyuni, history
      <3> QED BY <2>1, <3>1 DEF ChainChanged, Aligned
    <2> QED BY <1>3, <2>2, <2>3 DEF ProjectHandleDeletion
  <1>4. ASSUME NEW next, Realign(next), succ' = next,
               UNCHANGED <<obj, cache, wk, goal, landed>>,
               \A d \in Env : st'[d] = "built" => st[d] = "built"
        PROVE  ChainChanged
    <2>1. \A q \in Promotion : moved'[q] = (moved[q] \/ next[obj[q].from] # obj[q].to)
      BY <1>4 DEF Realign
    <2> QED BY <1>4, <2>1 DEF ChainChanged
  <1>5. ASSUME NEW e \in Env, EnvReconcile(e) PROVE ChainChanged
    <2> DEFINE q == envCR[e].pred
               next == [succ EXCEPT ![q] = e, ![e] = succ[q]]
    <2>1. Realign(next) /\ succ' = next /\ UNCHANGED <<obj, cache, wk, goal, landed>>
      BY <1>5 DEF EnvReconcile, k8s
    <2>2. \A d \in Env : st'[d] = "built" => st[d] = "built"
      BY <1>0, <1>5 DEF EnvReconcile, TypeOK
    <2> HIDE DEF next
    <2> QED BY <1>4, <2>1, <2>2
  <1>6. ASSUME NEW e \in Env, EnvHandleDeletion(e) PROVE ChainChanged
    <2> DEFINE next == [l \in Label |-> IF l = e THEN NoEnv
                                        ELSE IF succ[l] = e THEN succ[e]
                                        ELSE succ[l]]
    <2>1. UNCHANGED <<obj, cache, wk, goal, landed>>
      BY <1>6 DEF EnvHandleDeletion
    <2>2. CASE proj.exists /\ alive /\ st[e] # "absent"
      <3>1. Realign(next) /\ succ' = next /\ st' = [st EXCEPT ![e] = "absent"]
        BY <1>6, <2>2 DEF EnvHandleDeletion
      <3>2. \A d \in Env : st'[d] = "built" => st[d] = "built"
        BY <1>0, <3>1 DEF TypeOK
      <3> HIDE DEF next
      <3> QED BY <1>4, <2>1, <3>1, <3>2
    <2>3. CASE ~(proj.exists /\ alive /\ st[e] # "absent")
      BY <1>6, <2>1, <2>3 DEF EnvHandleDeletion, ChainChanged, Aligned
    <2> QED BY <2>2, <2>3
  <1> QED BY <1>1, <1>2, <1>3, <1>5, <1>6

\* Every step has one of the six forms.
LEMMA StepForm ==
    ASSUME IInv, Aligned, [Next]_vars
    PROVE  Form
  <1>0. TypeOK /\ WorkerReads /\ wk.p \in Promotion
    BY DEF IInv, TypeOK
  <1>i. Idle.pc = "idle"
    BY DEF Idle
  <1>1. CASE User
    <2>1. CASE \/ DeleteProject
               \/ \E e \in Env : DeleteEnvCR(e) \/ \E q \in Label : CreateEnvCR(e, q)
      <3>1. UNCHANGED <<obj, cache, succ, st, goal, landed, moved, wk>>
        BY <2>1 DEF DeleteProject, DeleteEnvCR, CreateEnvCR, uyuni, history
      <3> QED BY <3>1 DEF Form, CacheMoved
    <2> QED BY <1>1, <2>1, PairForm DEF User, Form
  <1>2. ASSUME NEW p \in Promotion, Begin(p) \/ BeginNoClient(p) \/ BeginTooEarly(p)
        PROVE  Form
    <2>1. wk'.pc \in {"fail", "pending", "start", "promote", "poll"}
          /\ wk'.base = cache[p] /\ wk'.p = p
      BY <1>2, VerdictCases DEF Begin, Reads, BeginNoClient, BeginTooEarly
    <2>2. UNCHANGED <<obj, cache, succ, st, goal, landed, moved>>
      BY <1>2 DEF Begin, BeginNoClient, BeginTooEarly, k8s, uyuni, history
    <2> QED BY <2>1, <2>2 DEF Form, PassMoved
  <1>3. ASSUME NEW p \in Promotion, GarbageCollect(p) PROVE Form
    BY <1>3, PairForm DEF Form
  <1>4. ASSUME NEW p \in Promotion, CacheSync(p) PROVE Form
    BY <1>0, <1>4 DEF CacheSync, Form, CacheMoved, TypeOK, uyuni, history
  <1>5. CASE Crash
    BY <1>5, <1>i DEF Crash, Form, CacheMoved, uyuni
  <1>6. CASE SaveFail \/ SavePending \/ SaveStart \/ SaveRequested \/ SaveSucceeded
    BY <1>6, SaveForm DEF Form
  <1>7. CASE Promote \/ PromoteReplyLost
    <2>1. PICK next \in {"ack", "fail"} : PromoteAccepted(next)
      BY <1>7 DEF Promote, PromoteReplyLost
    <2>2. succ[wk.base.from] \in Env
      BY <1>0, <2>1 DEF PromoteAccepted, TypeOK, PromotionObject, Label
    <2>3. wk'.pc = next /\ wk'.p = wk.p /\ wk'.base = wk.base
      BY <1>0, <2>1 DEF PromoteAccepted, TypeOK
    <2> QED BY <2>1, <2>2, <2>3 DEF PromoteAccepted, Form, BuildAsked, k8s
  <1>8. CASE PromoteBusy
    BY <1>8, <1>i DEF PromoteBusy, Form, PassMoved, k8s, uyuni, history
  <1>9. CASE PromoteRefused
    <2>1. wk'.pc = "fail" /\ wk'.p = wk.p /\ wk'.base = wk.base /\ wk.pc # "idle"
      BY <1>0, <1>9 DEF PromoteRefused, TypeOK
    <2> QED BY <1>9, <2>1 DEF PromoteRefused, Form, PassMoved, k8s, uyuni, history
  <1>10. CASE Poll
    <2>1. UNCHANGED <<obj, cache, succ, st, goal, landed, moved>> /\ wk.pc = "poll"
      BY <1>10 DEF Poll, k8s, uyuni, history
    <2>2. CASE wk' = Idle
      BY <1>i, <2>1, <2>2 DEF Form, PassMoved
    <2>3. CASE wk' # Idle
      <3>1. wk' = [wk EXCEPT !.pc = PollVerdict(st[wk.base.to])]
        BY <1>10, <2>3 DEF Poll
      <3>2. wk'.p = wk.p /\ wk'.base = wk.base
            /\ wk'.pc = PollVerdict(st[wk.base.to])
        BY <1>0, <3>1 DEF TypeOK
      <3>3. /\ PollVerdict(st[wk.base.to]) # "ack"
            /\ PollVerdict(st[wk.base.to]) = "succeed" => st[wk.base.to] = "built"
        BY DEF PollVerdict
      <3> QED BY <2>1, <3>2, <3>3 DEF Form, PassMoved
    <2> QED BY <2>2, <2>3
  <1>11. CASE \/ \E e \in Env : \/ EnvReconcile(e) \/ EnvHandleDeletion(e)
                                \/ \E r \in {"built", "failed"} : FinishBuild(e, r)
              \/ ProjectBuild \/ ProjectHandleDeletion
    BY <1>11, ChainForm DEF Form
  <1>12. CASE \/ ProjectRefresh \/ ProjectForceDelete \/ ProjectSync \/ DeletionFails
              \/ UNCHANGED vars
    <2>1. UNCHANGED <<obj, cache, succ, st, goal, landed, moved, wk>>
      BY <1>12 DEF ProjectRefresh, ProjectForceDelete, ProjectSync, DeletionFails, vars,
                   k8s, uyuni, history
    <2> QED BY <2>1 DEF Form, CacheMoved
  <1> QED BY <1>1, <1>2, <1>3, <1>4, <1>5, <1>6, <1>7, <1>8, <1>9, <1>10, <1>11,
             <1>12 DEF Next, Pass

\* Each form keeps Delivery.  What a pass has read is what the informer shows.
LEMMA PairKeepsDelivery ==
    ASSUME IInv, Delivery, NEW p \in Promotion, PairChanged(p)
    PROVE  Delivery'
  <1>0. wk.p \in Promotion
    BY DEF IInv, TypeOK
  <1>1. SameRead'
    BY <1>0 DEF PairChanged, Delivery, SameRead, Conflict
  <1>2. Aligned'
    BY DEF PairChanged, Delivery, Aligned
  <1>3. RequestedTargets'
    <2> SUFFICES ASSUME NEW q \in Promotion, obj'[q].requested, ~moved'[q]
                 PROVE  /\ Targets(q, obj[q].to)'
                        /\ cache'[q].from = obj'[q].from /\ cache'[q].to = obj'[q].to
                        /\ (wk'.pc # "idle" /\ wk'.p = q) =>
                               wk'.base.from = obj'[q].from /\ wk'.base.to = obj'[q].to
      BY DEF RequestedTargets
    <2>1. /\ obj[q].requested /\ ~moved[q]
          /\ obj'[q].from = obj[q].from /\ obj'[q].to = obj[q].to
      BY DEF PairChanged
    <2> QED BY <2>1 DEF PairChanged, Delivery, RequestedTargets, Targets
  <1>4. AckTargets' /\ SucceedLanded'
    BY <1>0 DEF PairChanged, Delivery, AckTargets, SucceedLanded, Conflict, Targets
  <1>5. SucceededMeansDelivered'
    BY DEF PairChanged, Delivery, SucceededMeansDelivered
  <1> QED BY <1>1, <1>2, <1>3, <1>4, <1>5 DEF Delivery

\* A write of the request was accepted for this pair, and one of "Succeeded"
\* follows a poll that found its build.
LEMMA WriteKeepsDelivery ==
    ASSUME IInv, Delivery, StatusWritten
    PROVE  Delivery'
  <1>0. wk.p \in Promotion /\ obj[wk.p] = wk.base /\ WorkerReads
    BY DEF IInv, TypeOK, StatusWritten, Conflict
  <1>1. SameRead'
    BY <1>0 DEF StatusWritten, Delivery, SameRead, Conflict
  <1>2. Aligned'
    BY <1>0 DEF StatusWritten, Delivery, Aligned
  <1>3. RequestedTargets'
    <2> SUFFICES ASSUME NEW q \in Promotion, obj'[q].requested, ~moved'[q]
                 PROVE  /\ Targets(q, obj[q].to)'
                        /\ cache'[q].from = obj'[q].from /\ cache'[q].to = obj'[q].to
                        /\ (wk'.pc # "idle" /\ wk'.p = q) =>
                               wk'.base.from = obj'[q].from /\ wk'.base.to = obj'[q].to
      BY DEF RequestedTargets
    <2>1. CASE q = wk.p
      <3>1. Targets(q, wk.base.to)
        BY <1>0, <2>1 DEF StatusWritten, Delivery, RequestedTargets, AckTargets
      <3>2. cache[q].from = wk.base.from /\ cache[q].to = wk.base.to
        BY <2>1 DEF StatusWritten, Delivery, SameRead
      <3> QED BY <2>1, <3>1, <3>2 DEF StatusWritten, Targets
    <2>2. CASE q # wk.p
      BY <2>2 DEF StatusWritten, Delivery, RequestedTargets, Targets
    <2> QED BY <2>1, <2>2
  <1>4. AckTargets' /\ SucceedLanded'
    BY DEF StatusWritten, AckTargets, SucceedLanded
  <1>5. SucceededMeansDelivered'
    <2> SUFFICES ASSUME NEW q \in Promotion, obj'[q].phase = "Succeeded", ~moved'[q]
                 PROVE  obj'[q].to \in landed'[q]
      BY DEF SucceededMeansDelivered
    <2>1. CASE q = wk.p
      BY <1>0, <2>1 DEF StatusWritten, Delivery, SucceededMeansDelivered, SucceedLanded
    <2>2. CASE q # wk.p
      BY <2>2 DEF StatusWritten, Delivery, SucceededMeansDelivered
    <2> QED BY <2>1, <2>2
  <1> QED BY <1>1, <1>2, <1>3, <1>4, <1>5 DEF Delivery

\* A pass reads the pair the informer shows; a poll that finds "built" finds
\* the build that was asked for.
LEMMA PassKeepsDelivery ==
    ASSUME IInv, Delivery, PassMoved
    PROVE  Delivery'
  <1>0. wk.p \in Promotion /\ WorkerReads
    BY DEF IInv, TypeOK
  <1>1. SameRead'
    BY DEF PassMoved, Delivery, SameRead, Conflict
  <1>2. Aligned' /\ SucceededMeansDelivered'
    BY DEF PassMoved, Delivery, Aligned, SucceededMeansDelivered
  <1>3. RequestedTargets'
    BY DEF PassMoved, Delivery, RequestedTargets, Targets
  <1>4. AckTargets'
    BY DEF PassMoved, AckTargets
  <1>5. SucceedLanded'
    <2> SUFFICES ASSUME wk'.pc = "succeed", obj'[wk'.p] = wk'.base, ~moved'[wk'.p]
                 PROVE  wk'.base.to \in landed'[wk'.p]
      BY DEF SucceedLanded, Conflict
    <2>1. wk.pc = "poll" /\ st[wk.base.to] = "built" /\ wk'.p = wk.p
          /\ wk'.base = wk.base /\ UNCHANGED <<obj, landed, moved>>
      BY DEF PassMoved
    <2>2. obj[wk.p].requested /\ obj[wk.p] = wk.base /\ ~moved[wk.p]
      BY <1>0, <2>1 DEF WorkerReads
    <2>3. Targets(wk.p, wk.base.to)
      BY <1>0, <2>2 DEF Delivery, RequestedTargets
    <2> QED BY <2>1, <2>3 DEF Targets
  <1> QED BY <1>1, <1>2, <1>3, <1>4, <1>5 DEF Delivery

\* Uyuni builds the successor of fromEnvironment, which is toEnvironment while
\* the pair is in force, also for a pass that has missed the recorded request.
LEMMA BuildKeepsDelivery ==
    ASSUME IInv, Delivery, BuildAsked
    PROVE  Delivery'
  <1> DEFINE t == succ[wk.base.from]
  <1>0. TypeOK /\ wk.p \in Promotion /\ WorkerReads
    BY DEF IInv, TypeOK
  <1>1. SameRead'
    BY DEF BuildAsked, Delivery, SameRead, Conflict
  <1>2. Aligned' /\ SucceededMeansDelivered'
    BY DEF BuildAsked, Delivery, Aligned, SucceededMeansDelivered
  <1>3. /\ t \in Env /\ st'[t] = "building"
        /\ \A e \in Env : st'[e] = "built" => st[e] = "built"
        /\ goal'[wk.p] = t /\ \A q \in Promotion \ {wk.p} : goal'[q] = goal[q]
    BY <1>0 DEF BuildAsked, TypeOK
  <1>4. \A q \in Promotion \ {wk.p}, u \in Env : Targets(q, u) =>
            goal'[q] = u /\ (u \in landed'[q] \/ st'[u] # "built")
    BY <1>3 DEF Targets, BuildAsked
  <1>5. RequestedTargets'
    <2> SUFFICES ASSUME NEW q \in Promotion, obj[q].requested, ~moved[q]
                 PROVE  /\ Targets(q, obj[q].to)'
                        /\ cache[q].from = obj[q].from /\ cache[q].to = obj[q].to
                        /\ (wk.pc # "idle" /\ wk.p = q) =>
                               wk.base.from = obj[q].from /\ wk.base.to = obj[q].to
      BY DEF RequestedTargets, BuildAsked, Targets
    <2>1. /\ Targets(q, obj[q].to)
          /\ cache[q].from = obj[q].from /\ cache[q].to = obj[q].to
          /\ (wk.pc # "idle" /\ wk.p = q) =>
                 wk.base.from = obj[q].from /\ wk.base.to = obj[q].to
      BY DEF Delivery, RequestedTargets
    <2>2. CASE q = wk.p
      <3>1. wk.base.from = obj[q].from /\ cache[q].life # "none"
        BY <1>0, <2>1, <2>2 DEF BuildAsked, WorkerReads
      <3>2. obj[q].life # "none"
        BY <3>1 DEF IInv, CacheLags
      <3>3. t = obj[q].to
        BY <3>1, <3>2 DEF Delivery, Aligned
      <3>4. obj'[q].to = t
        BY <3>3 DEF BuildAsked
      <3>5. Targets(q, t)'
        BY <1>3, <2>2 DEF Targets, BuildAsked
      <3> QED BY <2>1, <3>3, <3>4, <3>5 DEF Targets, BuildAsked
    <2>3. CASE q # wk.p
      BY <1>4, <2>1, <2>3 DEF Targets, BuildAsked
    <2> QED BY <2>2, <2>3
  <1>6. AckTargets'
    <2> SUFFICES ASSUME obj[wk.p] = wk.base, ~moved[wk.p]
                 PROVE  Targets(wk.p, wk.base.to)'
      BY DEF AckTargets, Conflict, BuildAsked, Targets
    <2>1. t = wk.base.to
      BY <1>0 DEF Delivery, Aligned, WorkerReads, BuildAsked
    <2> QED BY <1>3, <2>1 DEF Targets, BuildAsked
  <1>7. SucceedLanded'
    BY DEF BuildAsked, SucceedLanded
  <1> QED BY <1>1, <1>2, <1>5, <1>6, <1>7 DEF Delivery

\* The informer shows the stored pair, or the one it showed before.
LEMMA CacheKeepsDelivery ==
    ASSUME IInv, Delivery, CacheMoved
    PROVE  Delivery'
  <1>0. wk.p \in Promotion
    BY DEF IInv, TypeOK
  <1>1. SameRead'
    BY <1>0 DEF CacheMoved, Delivery, SameRead, Conflict
  <1>2. Aligned' /\ SucceededMeansDelivered'
    BY DEF CacheMoved, Delivery, Aligned, SucceededMeansDelivered
  <1>3. RequestedTargets'
    BY DEF CacheMoved, Delivery, RequestedTargets, Targets
  <1>4. AckTargets' /\ SucceedLanded'
    BY DEF CacheMoved, Delivery, AckTargets, SucceedLanded, Conflict, Targets
  <1> QED BY <1>1, <1>2, <1>3, <1>4 DEF Delivery

\* A build that ends lands for the promotions it was started for; a chain that
\* changes takes the pairs it breaks out of force.
LEMMA ChainKeepsDelivery ==
    ASSUME IInv, Delivery, ChainChanged
    PROVE  Delivery'
  <1>0. wk.p \in Promotion /\ TypeOK
    BY DEF IInv, TypeOK
  <1>1. SameRead'
    BY DEF ChainChanged, Delivery, SameRead, Conflict
  <1>2. Aligned' /\ SucceededMeansDelivered'
    BY DEF ChainChanged, Delivery, Aligned, SucceededMeansDelivered
  <1>3. \A q \in Promotion, u \in Env : Targets(q, u) =>
            goal'[q] = u /\ (u \in landed'[q] \/ st'[u] # "built")
    BY DEF Targets, ChainChanged
  <1>4. RequestedTargets'
    <2> SUFFICES ASSUME NEW q \in Promotion, obj[q].requested, ~moved[q]
                 PROVE  /\ Targets(q, obj[q].to)'
                        /\ cache[q].from = obj[q].from /\ cache[q].to = obj[q].to
                        /\ (wk.pc # "idle" /\ wk.p = q) =>
                               wk.base.from = obj[q].from /\ wk.base.to = obj[q].to
      BY DEF RequestedTargets, ChainChanged, Targets
    <2> QED BY <1>3 DEF Delivery, RequestedTargets, Targets, ChainChanged
  <1>5. AckTargets'
    <2> SUFFICES ASSUME wk.pc = "ack", ~Conflict, ~moved[wk.p]
                 PROVE  Targets(wk.p, wk.base.to)'
      BY <1>0 DEF AckTargets, Conflict, ChainChanged, Targets
    <2> QED BY <1>0, <1>3 DEF Delivery, AckTargets, Targets, ChainChanged
  <1>6. SucceedLanded'
    BY <1>0 DEF ChainChanged, Delivery, SucceedLanded, Conflict
  <1> QED BY <1>1, <1>2, <1>4, <1>5, <1>6 DEF Delivery

\* At the start nothing is requested.
LEMMA DeliveryInit == Init => Delivery
  <1> SUFFICES ASSUME Init PROVE Delivery
    OBVIOUS
  <1>1. wk.pc = "idle"
    BY DEF Init
  <1>2. ASSUME NEW p \in Promotion
        PROVE  obj[p].life = "none" /\ ~obj[p].requested /\ obj[p].phase = ""
    BY DEF Init, NoObject
  <1> QED BY <1>1, <1>2 DEF Delivery, SameRead, Aligned, RequestedTargets, AckTargets,
                           SucceedLanded, SucceededMeansDelivered

\* Every step keeps it.
LEMMA DeliveryStep == IInv /\ Delivery /\ [Next]_vars => Delivery'
  <1> SUFFICES ASSUME IInv, Delivery, [Next]_vars PROVE Delivery'
    OBVIOUS
  <1>1. Form
    BY StepForm DEF Delivery
  <1> QED BY <1>1, PairKeepsDelivery, WriteKeepsDelivery, PassKeepsDelivery,
             BuildKeepsDelivery, CacheKeepsDelivery, ChainKeepsDelivery DEF Form

\* From the request on, Uyuni's last accepted target is toEnvironment, and it is
\* "built" only by that build, as long as chain and spec stay as requested.
LEMMA DeliveryHolds == Spec => []Delivery
  <1>1. Init => IInv /\ Delivery
    BY InvariantInit, DeliveryInit
  <1>2. (IInv /\ Delivery) /\ [Next]_vars => (IInv /\ Delivery)'
    BY InvariantStep, DeliveryStep
  <1> QED BY <1>1, <1>2, PTL DEF Spec

\* A promotion reported Succeeded did reach its target: the "built" that the
\* poll saw is a build Uyuni finished after accepting the request.
THEOREM SuccessIsDelivery == Spec => []SucceededMeansDelivered
  <1>1. Delivery => SucceededMeansDelivered
    BY DEF Delivery
  <1> QED BY <1>1, DeliveryHolds, PTL
============================================================================
