----------------------------- MODULE Promotion -----------------------------
(***************************************************************************)
(* Content lifecycle promotions: the ContentProjectPromotion reconciler    *)
(* (internal/controller/contentprojectpromotion_controller.go) together    *)
(* with what it races: the webhook that admits and freezes promotion       *)
(* specs, the ContentProject reconciler that builds and deletes the        *)
(* project, the ClmEnvironment reconciler that changes the chain, and      *)
(* Uyuni's CLM service.                                                    *)
(*                                                                         *)
(* A reconcile pass is several steps, one per API call, because other      *)
(* actors and operator crashes fall between the calls.  Kubernetes objects *)
(* are records; a status write succeeds only if the object is still the    *)
(* one the pass read (optimistic concurrency), and a pass reads the        *)
(* informer cache, which may lag.                                          *)
(***************************************************************************)
EXTENDS Naturals

CONSTANTS
    Promotion,             \* ContentProjectPromotion objects (one per UID)
    Env,                   \* environment labels of the one ContentProject
    NoEnv,                 \* the empty label: predecessor of the root
    InitialSucc,           \* the promotion chain in Uyuni at the start
    RequireSourceVersion,  \* spec.requireSourceVersion, 0 = no version gate
    MaxEvents              \* bound: disturbances (edits, deletions, project
                           \* builds, crashes, stale reads, failed calls)

Label == Env \cup {NoEnv}

ASSUME NoEnvAssumption == NoEnv \notin Env
ASSUME ChainAssumption == InitialSucc \in [Label -> Label]
ASSUME VersionAssumption == RequireSourceVersion \in [Promotion -> Nat]
ASSUME BoundAssumption == MaxEvents \in Nat

VARIABLES
    obj,      \* promotion objects in the API server
    cache,    \* the informer's copy of them
    proj,     \* the ContentProject object
    projSeen, \* the informer's copy of it
    envCR,    \* ClmEnvironment objects: spec.predecessor, or "none"/deleting
    succ,     \* Uyuni: chain of the project's environments
    st,       \* Uyuni: build status of each environment
    alive,    \* Uyuni: the project exists
    wk,       \* the promotion controller's worker
    del,      \* how far the project's deletion pass has come
    calls,    \* history: PromoteProject calls Uyuni accepted, per promotion
    lost,     \* history: accepted calls whose outcome was never recorded
    again,    \* history: accepted calls for a promotion already recorded, made
              \* by a pass that began on an outdated copy of it
    goal,     \* history: environment the last accepted call builds
    landed,   \* history: environments built after a call that targeted them
    moved,    \* history: from/to stopped being the pair that was requested
    late,     \* history: promotions the informer had not shown yet when the
              \* deletion counted them
    events    \* disturbances so far

k8s == <<obj, cache, proj, projSeen, envCR>>
uyuni == <<succ, st, alive>>
history == <<calls, lost, again, goal, landed, moved, late>>
vars == <<k8s, uyuni, wk, del, history, events>>

----------------------------------------------------------------------------
(* Objects.                                                                *)

Phase == {"", "Pending", "Running", "Succeeded", "Failed"}

PromotionObject ==
    [life : {"none", "live", "gone"}, gen : Nat, from : Label, to : Label,
     phase : Phase, started : BOOLEAN, requested : BOOLEAN]

NoObject == [life |-> "none", gen |-> 0, from |-> NoEnv, to |-> NoEnv,
             phase |-> "", started |-> FALSE, requested |-> FALSE]

ContentProjectObject ==
    [exists : BOOLEAN, deleting : BOOLEAN, ready : BOOLEAN,
     building : BOOLEAN, envs : SUBSET Env]

EnvObject == [life : {"none", "live", "deleting"}, pred : Label]

EnvStatus == {"absent", "new", "building", "built", "failed"}

PC == {"idle", "fail", "pending", "start", "promote", "ack", "poll", "succeed"}

isTerminal(phase) == phase \in {"Succeeded", "Failed"}

Known == {e \in Env : envCR[e].life # "none"}
Busy == \E e \in Env : st[e] = "building"

Deletion == {"no", "checked", "removed"}

Idle == [pc |-> "idle", p |-> wk.p, base |-> NoObject, old |-> FALSE]

Event == events < MaxEvents /\ events' = events + 1

----------------------------------------------------------------------------
(* Admission and the user.                                                 *)

\* validation.PromotionPair over the chain the ClmEnvironment objects spell.
PromotionPair(f, t) ==
    /\ f \in Known /\ t \in Known /\ f # t
    /\ envCR[t].pred = f

\* ContentProjectPromotionValidator.validate: a missing project only warns.
Admitted(f, t) == ~proj.exists \/ PromotionPair(f, t)

Create(p, f, t) ==
    /\ obj[p].life = "none"
    /\ Admitted(f, t)
    /\ obj' = [obj EXCEPT ![p] = [NoObject EXCEPT !.life = "live",
                                                  !.from = f, !.to = t]]
    /\ moved' = [moved EXCEPT ![p] = succ[f] # t]
    /\ UNCHANGED <<cache, proj, projSeen, envCR, uyuni, wk, del, calls, lost,
                   again, goal, landed, late, events>>

\* The webhook freezes the spec by the phase it finds in the old object.
SpecEditable(p) == obj[p].phase \in {"", "Pending"}

EditPair(p, f, t) ==
    /\ obj[p].life = "live"
    /\ SpecEditable(p)
    /\ Admitted(f, t)
    /\ <<f, t>> # <<obj[p].from, obj[p].to>>
    /\ Event
    /\ obj' = [obj EXCEPT ![p].from = f, ![p].to = t, ![p].gen = @ + 1]
    /\ moved' = [moved EXCEPT ![p] = obj[p].requested \/ succ[f] # t]
    /\ UNCHANGED <<cache, proj, projSeen, envCR, uyuni, wk, del, calls, lost,
                   again, goal, landed, late>>

\* ttlAfterFinished may change in every phase; it only makes writes conflict.
EditTTL(p) ==
    /\ obj[p].life = "live"
    /\ Event
    /\ obj' = [obj EXCEPT ![p].gen = @ + 1]
    /\ UNCHANGED <<cache, proj, projSeen, envCR, uyuni, wk, del, history>>

\* Promotions carry no finalizer: a delete takes effect at once.
DeletePromotion(p) ==
    /\ obj[p].life = "live"
    /\ Event
    /\ obj' = [obj EXCEPT ![p].life = "gone"]
    /\ UNCHANGED <<cache, proj, projSeen, envCR, uyuni, wk, del, history>>

----------------------------------------------------------------------------
(* Informer and operator process.                                          *)

CacheSync(p) ==
    /\ cache[p] # obj[p]
    /\ cache' = [cache EXCEPT ![p] = obj[p]]
    /\ UNCHANGED <<obj, proj, projSeen, envCR, uyuni, wk, del, history, events>>

\* The project's copy catches up on its own.
ProjectSync ==
    /\ projSeen # proj
    /\ projSeen' = proj
    /\ UNCHANGED <<obj, cache, proj, envCR, uyuni, wk, del, history, events>>

\* The reply or the write that was to record an accepted call is gone.
Losing(p) == IF obj[p].requested THEN lost ELSE [lost EXCEPT ![p] = @ + 1]

\* The operator dies mid-pass; the restarted one lists everything afresh.
Crash ==
    /\ wk.pc # "idle" \/ del # "no"
    /\ Event
    /\ wk' = Idle
    /\ del' = "no"
    /\ cache' = obj /\ projSeen' = proj
    /\ lost' = IF wk.pc = "ack" THEN Losing(wk.p) ELSE lost
    /\ UNCHANGED <<obj, proj, envCR, uyuni, calls, again, goal, landed, moved,
                   late>>

----------------------------------------------------------------------------
(* ContentProjectPromotionReconciler.Reconcile.                            *)

\* EnvironmentState.BuiltVersion as refreshEnvironmentStates fills it in.
BuiltVersion(e) == 0

\* The checks made on every pass, in the order of the code.
SourceMissing(o) == ~projSeen.exists \/ o.from \notin projSeen.envs

SourceNotBuilt(p, o) == RequireSourceVersion[p] > 0 /\ BuiltVersion(o.from) = 0

VersionMismatch(p, o) ==
    /\ RequireSourceVersion[p] > 0
    /\ BuiltVersion(o.from) \notin {0, RequireSourceVersion[p]}

VerdictForgetsRequest(p, o) ==
    IF SourceMissing(o) THEN "fail"
    ELSE IF projSeen.building THEN "pending"
    ELSE IF ~o.started THEN "start" ELSE "promote"

Verdict(p, o) ==
    CASE SourceMissing(o)      -> "fail"
      [] ~SourceMissing(o) /\ SourceNotBuilt(p, o) -> "pending"
      [] ~SourceMissing(o) /\ VersionMismatch(p, o) -> "fail"
      [] OTHER -> IF projSeen.building THEN "pending"
                  ELSE IF ~o.started THEN "start"
                  ELSE IF ~o.requested THEN "promote" ELSE "poll"

Picked(p) ==
    /\ wk.pc = "idle"
    /\ cache[p].life = "live"

PickedAnyPhase(p) == Picked(p)

Reconcilable(p) == Picked(p) /\ ~isTerminal(cache[p].phase)

\* What a pass has read: its copy of p may be outdated, and so may the project's.
Reads(p, pc) == [pc |-> pc, p |-> p, base |-> cache[p], old |-> cache[p] # obj[p]]

\* One pass begins: it reads the promotion and the project from the cache.
Begin(p) ==
    /\ Reconcilable(p)
    /\ IF cache[p] = obj[p] /\ projSeen = proj THEN UNCHANGED events ELSE Event
    /\ wk' = Reads(p, Verdict(p, cache[p]))
    /\ UNCHANGED <<k8s, uyuni, del, history>>

\* The pool cannot produce a client for the organization: a terminal failure.
BeginNoClient(p) ==
    /\ Reconcilable(p)
    /\ Event
    /\ wk' = Reads(p, "fail")
    /\ UNCHANGED <<k8s, uyuni, del, history>>

\* spec.notBefore lies in the future.
BeginTooEarly(p) ==
    /\ Reconcilable(p)
    /\ ~SourceMissing(cache[p])
    /\ Event
    /\ wk' = Reads(p, "pending")
    /\ UNCHANGED <<k8s, uyuni, del, history>>

\* A finished promotion is deleted once ttlAfterFinished has passed.
GarbageCollect(p) ==
    /\ Picked(p)
    /\ isTerminal(cache[p].phase)
    /\ obj[p].life = "live"
    /\ obj' = [obj EXCEPT ![p].life = "gone"]
    /\ UNCHANGED <<cache, proj, projSeen, envCR, uyuni, wk, del, history, events>>

\* r.Status().Update: succeeds only on the object the pass has read.
Conflict == obj[wk.p] # wk.base

Save(new, next) ==
    IF Conflict
    THEN wk' = Idle /\ UNCHANGED obj
    ELSE /\ obj' = [obj EXCEPT ![wk.p] = new]
         /\ wk' = IF next = "idle" THEN Idle
                  ELSE [wk EXCEPT !.pc = next, !.base = new]

SaveFail ==
    /\ wk.pc = "fail"
    /\ Save([wk.base EXCEPT !.phase = "Failed"], "idle")
    /\ UNCHANGED <<cache, proj, projSeen, envCR, uyuni, del, history, events>>

SavePending ==
    /\ wk.pc = "pending"
    /\ Save([wk.base EXCEPT !.phase = "Pending"], "idle")
    /\ UNCHANGED <<cache, proj, projSeen, envCR, uyuni, del, history, events>>

SaveStart ==
    /\ wk.pc = "start"
    /\ Save([wk.base EXCEPT !.phase = "Running", !.started = TRUE], "promote")
    /\ UNCHANGED <<cache, proj, projSeen, envCR, uyuni, del, history, events>>

\* PromoteProject(label, from): Uyuni builds the successor of from, and shows it
\* as being built from the moment it accepts the call.
PromoteAccepted(next) ==
    LET p == wk.p
        t == succ[wk.base.from]
    IN /\ wk.pc = "promote"
       /\ alive /\ ~Busy /\ st[wk.base.from] # "absent" /\ t # NoEnv
       /\ st' = [st EXCEPT ![t] = "building"]
       /\ calls' = [calls EXCEPT ![p] = @ + 1]
       /\ again' = IF wk.old /\ obj[p].requested
                   THEN [again EXCEPT ![p] = @ + 1] ELSE again
       /\ goal' = [goal EXCEPT ![p] = t]
       /\ wk' = [wk EXCEPT !.pc = next]
       /\ UNCHANGED <<k8s, succ, alive, del, landed, moved, late>>

Promote == PromoteAccepted("ack") /\ UNCHANGED <<lost, events>>

\* Uyuni accepted the call but the operator saw an error (timeout, reset).
PromoteReplyLost ==
    /\ PromoteAccepted("fail")
    /\ lost' = Losing(wk.p)
    /\ Event

\* isTransientCLMConflict: only a condition is written, the pass is retried.
PromoteBusy ==
    /\ wk.pc = "promote"
    /\ alive /\ Busy
    /\ wk' = Idle
    /\ UNCHANGED <<k8s, uyuni, del, history, events>>

\* Every other error is terminal.
PromoteRefused ==
    /\ wk.pc = "promote"
    /\ \/ UNCHANGED events /\ (\/ ~alive \/ st[wk.base.from] = "absent"
                               \/ succ[wk.base.from] = NoEnv)
       \/ Event
    /\ wk' = [wk EXCEPT !.pc = "fail"]
    /\ UNCHANGED <<k8s, uyuni, del, history>>

SaveRequested ==
    /\ wk.pc = "ack"
    /\ Save([wk.base EXCEPT !.requested = TRUE], "poll")
    /\ lost' = IF Conflict THEN Losing(wk.p) ELSE lost
    /\ UNCHANGED <<cache, proj, projSeen, envCR, uyuni, del, calls, again, goal,
                   landed, moved, late, events>>

\* What the status of the target environment makes of the promotion.
PollVerdictRaw(s) == IF s = "built" THEN "succeed" ELSE s
PollVerdictFailedRetries(s) == IF s = "built" THEN "succeed" ELSE "idle"
PollVerdictNewIsDone(s) ==
    IF s \in {"absent", "failed"} THEN "fail" ELSE "succeed"

PollVerdict(s) ==
    CASE s = "absent" -> "fail"
      [] s = "failed" -> "fail"
      [] s = "built"  -> "succeed"
      [] OTHER        -> "idle"

Poll ==
    /\ wk.pc = "poll"
    /\ wk' = IF ~alive \/ PollVerdict(st[wk.base.to]) = "idle" THEN Idle
             ELSE [wk EXCEPT !.pc = PollVerdict(st[wk.base.to])]
    /\ UNCHANGED <<k8s, uyuni, del, history, events>>

SaveSucceeded ==
    /\ wk.pc = "succeed"
    /\ Save([wk.base EXCEPT !.phase = "Succeeded"], "idle")
    /\ UNCHANGED <<cache, proj, projSeen, envCR, uyuni, del, history, events>>

----------------------------------------------------------------------------
(* Uyuni: builds end.                                                      *)

FinishBuild(e, result) ==
    /\ st[e] = "building"
    /\ st' = [st EXCEPT ![e] = result]
    /\ landed' = IF result = "built"
                 THEN [p \in Promotion |-> IF goal[p] = e
                                           THEN landed[p] \cup {e}
                                           ELSE landed[p]]
                 ELSE landed
    /\ UNCHANGED <<k8s, succ, alive, wk, del, calls, lost, again, goal, moved,
                   late, events>>

----------------------------------------------------------------------------
(* ContentProjectReconciler, as far as promotions see it.                  *)

\* A pass without a build: refreshEnvironmentStates always reports Idle.
ProjectRefresh ==
    /\ proj.exists /\ ~proj.deleting
    /\ proj' = [proj EXCEPT !.envs = Known, !.building = FALSE, !.ready = TRUE]
    /\ UNCHANGED <<obj, cache, projSeen, envCR, uyuni, wk, del, history, events>>

\* A pass for which shouldBuild gives a reason (filters, sources, cron).
ProjectBuild ==
    /\ proj.exists /\ ~proj.deleting
    /\ Event
    /\ \/ /\ ~Busy /\ succ[NoEnv] # NoEnv
          /\ st' = [st EXCEPT ![succ[NoEnv]] = "building"]
          /\ proj' = [proj EXCEPT !.envs = Known, !.building = TRUE,
                                  !.ready = TRUE]
       \/ /\ Busy
          /\ proj' = [proj EXCEPT !.envs = Known, !.building = FALSE,
                                  !.ready = FALSE]
          /\ UNCHANGED st
       \/ /\ ~Busy /\ succ[NoEnv] = NoEnv
          /\ proj' = [proj EXCEPT !.envs = Known, !.building = FALSE,
                                  !.ready = TRUE]
          /\ UNCHANGED st
    /\ UNCHANGED <<obj, cache, projSeen, envCR, succ, alive, wk, del, history>>

DeleteProject ==
    /\ proj.exists /\ ~proj.deleting
    /\ Event
    /\ proj' = [proj EXCEPT !.deleting = TRUE]
    /\ UNCHANGED <<obj, cache, projSeen, envCR, uyuni, wk, del, history>>

\* activePromotions: what blocks the removal of the project.
activePromotionsOnlyRunning ==
    {p \in Promotion : /\ cache[p].life = "live"
                       /\ cache[p].phase = "Running"}

activePromotions ==
    {p \in Promotion : /\ cache[p].life = "live"
                       /\ cache[p].phase \in {"", "Pending", "Running"}}

\* handleDeletion: the count of active promotions comes first, from the cache,
\* and the removal of the project several calls later.
CheckPromotions ==
    /\ proj.exists /\ proj.deleting /\ del = "no"
    /\ activePromotions = {}
    /\ del' = "checked"
    /\ late' = IF alive THEN {p \in Promotion : cache[p].life = "none"} ELSE late
    /\ UNCHANGED <<k8s, uyuni, wk, calls, lost, again, goal, landed, moved, events>>

\* RemoveProject; a project that is gone already is as good.
RemoveProject ==
    /\ del = "checked"
    /\ alive' = FALSE
    /\ succ' = [l \in Label |-> NoEnv]
    /\ st' = [e \in Env |-> "absent"]
    /\ moved' = [p \in Promotion |-> TRUE]
    /\ del' = "removed"
    /\ UNCHANGED <<k8s, wk, calls, lost, again, goal, landed, late, events>>

\* The finalizer goes last.
ReleaseProject ==
    /\ del = "removed"
    /\ proj' = [proj EXCEPT !.exists = FALSE]
    /\ del' = "no"
    /\ UNCHANGED <<obj, cache, projSeen, envCR, uyuni, wk, history, events>>

\* One of the calls fails, or the object has changed: the pass starts over.
DeletionFails ==
    /\ del # "no"
    /\ Event
    /\ del' = "no"
    /\ UNCHANGED <<k8s, uyuni, wk, history>>

\* The force-delete annotation drops the finalizer and leaves Uyuni alone.
ProjectForceDelete ==
    /\ proj.exists /\ proj.deleting /\ del = "no"
    /\ Event
    /\ proj' = [proj EXCEPT !.exists = FALSE]
    /\ UNCHANGED <<obj, cache, projSeen, envCR, uyuni, wk, del, history>>

----------------------------------------------------------------------------
(* ClmEnvironmentReconciler: the chain changes under a promotion.          *)

CreateEnvCR(e, q) ==
    /\ envCR[e].life = "none" /\ q # e
    /\ Event
    /\ envCR' = [envCR EXCEPT ![e] = [life |-> "live", pred |-> q]]
    /\ UNCHANGED <<obj, cache, proj, projSeen, uyuni, wk, del, history>>

DeleteEnvCR(e) ==
    /\ envCR[e].life = "live"
    /\ Event
    /\ envCR' = [envCR EXCEPT ![e].life = "deleting"]
    /\ UNCHANGED <<obj, cache, proj, projSeen, uyuni, wk, del, history>>

\* The pairs still in force after the chain has become next.
Realign(next) ==
    moved' = [p \in Promotion |-> moved[p] \/ next[obj[p].from] # obj[p].to]

\* CreateEnvironment(label, predecessor) links e behind its predecessor.
EnvReconcile(e) ==
    LET q == envCR[e].pred
        next == [succ EXCEPT ![q] = e, ![e] = succ[q]]
    IN /\ envCR[e].life = "live"
       /\ proj.exists /\ proj.ready /\ alive
       /\ q = NoEnv \/ (q \in Env /\ st[q] # "absent")
       /\ st[e] = "absent"
       /\ succ' = next
       /\ st' = [st EXCEPT ![e] = "new"]
       /\ Realign(next)
       /\ UNCHANGED <<k8s, alive, wk, del, calls, lost, again, goal, landed,
                      late, events>>

\* handleDeletion: RemoveEnvironment only while the project object exists.
EnvHandleDeletion(e) ==
    /\ envCR[e].life = "deleting"
    /\ envCR' = [envCR EXCEPT ![e] = [life |-> "none", pred |-> NoEnv]]
    /\ IF proj.exists /\ alive /\ st[e] # "absent"
       THEN LET next == [l \in Label |-> IF l = e THEN NoEnv
                                         ELSE IF succ[l] = e THEN succ[e]
                                         ELSE succ[l]]
            IN /\ succ' = next
               /\ st' = [st EXCEPT ![e] = "absent"]
               /\ Realign(next)
       ELSE UNCHANGED <<succ, st, moved>>
    /\ UNCHANGED <<obj, cache, proj, projSeen, alive, wk, del, calls, lost,
                   again, goal, landed, late, events>>

----------------------------------------------------------------------------

InChain(e) == \E l \in Label : InitialSucc[l] = e
PredOf(e) == CHOOSE l \in Label : InitialSucc[l] = e

Init ==
    /\ obj = [p \in Promotion |-> NoObject]
    /\ cache = obj
    /\ envCR = [e \in Env |-> IF InChain(e)
                              THEN [life |-> "live", pred |-> PredOf(e)]
                              ELSE [life |-> "none", pred |-> NoEnv]]
    /\ proj = [exists |-> TRUE, deleting |-> FALSE, ready |-> TRUE,
               building |-> FALSE, envs |-> {e \in Env : InChain(e)}]
    /\ succ = InitialSucc
    /\ st = [e \in Env |-> IF InChain(e) THEN "built" ELSE "absent"]
    /\ alive = TRUE
    /\ projSeen = proj
    /\ wk \in {[pc |-> "idle", p |-> p, base |-> NoObject, old |-> FALSE] :
                  p \in Promotion}
    /\ del = "no"
    /\ calls = [p \in Promotion |-> 0]
    /\ lost = [p \in Promotion |-> 0]
    /\ again = [p \in Promotion |-> 0]
    /\ goal = [p \in Promotion |-> NoEnv]
    /\ landed = [p \in Promotion |-> {}]
    /\ moved = [p \in Promotion |-> FALSE]
    /\ late = {}
    /\ events = 0

Pass == \/ SaveFail \/ SavePending \/ SaveStart
        \/ Promote \/ PromoteBusy \/ PromoteRefused
        \/ SaveRequested \/ Poll \/ SaveSucceeded

ProjectHandleDeletion == CheckPromotions \/ RemoveProject \/ ReleaseProject

User == \/ \E p \in Promotion : \/ \E f, t \in Env : Create(p, f, t)
                                \/ \E f, t \in Env : EditPair(p, f, t)
                                \/ EditTTL(p) \/ DeletePromotion(p)
        \/ DeleteProject
        \/ \E e \in Env : DeleteEnvCR(e) \/ \E q \in Label : CreateEnvCR(e, q)

Next == \/ User
        \/ \E p \in Promotion : \/ CacheSync(p) \/ Begin(p) \/ BeginNoClient(p)
                                \/ BeginTooEarly(p) \/ GarbageCollect(p)
        \/ ProjectSync \/ Pass \/ PromoteReplyLost \/ Crash
        \/ \E e \in Env, r \in {"built", "failed"} : FinishBuild(e, r)
        \/ ProjectRefresh \/ ProjectBuild
        \/ ProjectHandleDeletion \/ DeletionFails \/ ProjectForceDelete
        \/ \E e \in Env : EnvReconcile(e) \/ EnvHandleDeletion(e)

Spec == Init /\ [][Next]_vars

\* The work queue hands out every key in turn and controllers keep requeueing;
\* informers catch up; Uyuni finishes what it builds.  Users owe nothing.
Fairness ==
    /\ WF_vars(Pass)
    /\ \A p \in Promotion : SF_vars(Begin(p)) /\ WF_vars(CacheSync(p))
    /\ \A e \in Env : WF_vars(\E r \in {"built", "failed"} : FinishBuild(e, r))
    /\ WF_vars(ProjectSync)
    /\ WF_vars(ProjectRefresh) /\ WF_vars(ProjectHandleDeletion)

FairSpec == Spec /\ Fairness
----------------------------------------------------------------------------
(* Properties.                                                             *)

\* Type correctness of the objects, the informer's copies, Uyuni and the pass.
TypeOK ==
    /\ obj \in [Promotion -> PromotionObject]
    /\ cache \in [Promotion -> PromotionObject]
    /\ proj \in ContentProjectObject
    /\ projSeen \in ContentProjectObject
    /\ envCR \in [Env -> EnvObject]
    /\ succ \in [Label -> Label]
    /\ st \in [Env -> EnvStatus]
    /\ alive \in BOOLEAN
    /\ wk \in [pc : PC, p : Promotion, base : PromotionObject, old : BOOLEAN]
    /\ del \in Deletion
    /\ calls \in [Promotion -> Nat]
    /\ lost \in [Promotion -> Nat]
    /\ again \in [Promotion -> Nat]
    /\ goal \in [Promotion -> Label]
    /\ landed \in [Promotion -> SUBSET Env]
    /\ moved \in [Promotion -> BOOLEAN]
    /\ late \in SUBSET Promotion
    /\ events \in Nat

\* Every PromoteProject call that Uyuni accepted is the one recorded in
\* status.promotionRequested, the one about to be recorded, one whose outcome was
\* lost before anything was recorded (crash, conflicting write, lost reply), or
\* one for a promotion recorded already, and then the pass that made it began on
\* an outdated copy of the promotion: a pass that has read the current object
\* never requests a recorded promotion again.
Acknowledged(p) == IF obj[p].requested THEN 1 ELSE 0
InFlight(p) == IF wk.pc = "ack" /\ wk.p = p /\ ~obj[p].requested THEN 1 ELSE 0
EveryExtraCallHasACause ==
    \A p \in Promotion :
        calls[p] = lost[p] + again[p] + Acknowledged(p) + InFlight(p)

\* A promotion reported Succeeded did reach its target: Uyuni finished a build
\* of toEnvironment after accepting the request, whoever edited the promotion,
\* built the project or changed the chain meanwhile.  It holds as long as the
\* chain and the spec stay as they were requested.
SucceededMeansDelivered ==
    \A p \in Promotion :
        (obj[p].phase = "Succeeded" /\ ~moved[p]) => obj[p].to \in landed[p]

\* The project is removed from Uyuni under no promotion that is not finished,
\* although the promotions are counted in a cache that may lag and are requested,
\* created and edited between that count and the removal.  The exception is a
\* promotion the informer had not shown when they were counted.
KeptBy(p) ==
    (~alive /\ p \notin late /\ obj[p].life = "live") => isTerminal(obj[p].phase)
InFlightKeepsProject == \A p \in Promotion : KeptBy(p)

\* A finished promotion stays what it is: no later pass, whatever it read from
\* a lagging cache, changes its phase, its pair or its record of the request.
TerminalIsFinal ==
    [][\A p \in Promotion :
         (obj[p].life = "live" /\ isTerminal(obj[p].phase)) =>
            /\ obj'[p].phase = obj[p].phase
            /\ obj'[p].to = obj[p].to
            /\ obj'[p].requested = obj[p].requested]_vars

\* Every promotion without a version gate finishes or is deleted, unless its
\* project is being deleted or toEnvironment is no longer what Uyuni builds.
Terminates ==
    \A p \in {q \in Promotion : RequireSourceVersion[q] = 0} :
        obj[p].life = "live" ~> \/ obj[p].life = "gone"
                                \/ isTerminal(obj[p].phase)
                                \/ moved[p] \/ proj.deleting
----------------------------------------------------------------------------
(* The inductive invariant behind the safety properties.                   *)

\* An object not created yet has left no trace in the informer either.
Untouched(p) ==
    /\ obj[p].life = "none" =>
           obj[p].phase = "" /\ ~obj[p].requested /\ obj[p].gen = 0
    /\ cache[p].life = "none" =>
           cache[p].phase = "" /\ ~cache[p].requested /\ cache[p].gen = 0

\* The informer's copy is an earlier version of the object.
CacheLags(p) ==
    /\ cache[p].gen <= obj[p].gen
    /\ cache[p].life # "none" => obj[p].life # "none"
    /\ cache[p].life = "gone" => obj[p].life = "gone"
    /\ isTerminal(cache[p].phase) => isTerminal(obj[p].phase)
    /\ cache[p].requested => cache[p].started
    /\ obj[p].requested => obj[p].started /\ cache[p].life # "none"

\* What a pass in progress knows of the object it has read.
WorkerReads ==
    wk.pc # "idle" =>
        /\ wk.base.life = "live" /\ ~isTerminal(wk.base.phase)
        /\ wk.base.gen <= obj[wk.p].gen
        /\ cache[wk.p].life # "none"
        /\ wk.base.requested => wk.base.started
        /\ wk.pc \in {"start", "promote", "ack"} => ~wk.base.requested
        /\ (wk.pc \in {"start", "promote", "ack"} /\ ~wk.old) =>
               ~obj[wk.p].requested
        /\ wk.pc \in {"promote", "ack"} => wk.base.started
        /\ wk.pc \in {"poll", "succeed"} => wk.base.requested

\* From the count of the promotions on, those the informer has shown are
\* finished for good.
Cleared ==
    (del = "checked" \/ ~alive) =>
        \A p \in Promotion \ late :
            obj[p].life = "gone" \/ (obj[p].life = "live" /\ isTerminal(obj[p].phase))

IInv == /\ TypeOK
        /\ \A p \in Promotion : Untouched(p) /\ CacheLags(p)
        /\ WorkerReads /\ Cleared
        /\ EveryExtraCallHasACause /\ InFlightKeepsProject

\* Delivery: why "built" in the poll is the build the promotion asked for.
SameRead ==
    wk.pc # "idle" /\ ~Conflict => /\ cache[wk.p].from = wk.base.from
                                  /\ cache[wk.p].to = wk.base.to

Aligned ==
    \A p \in Promotion :
        (obj[p].life # "none" /\ ~moved[p]) => succ[obj[p].from] = obj[p].to

\* Uyuni has been told to build t for p, and a "built" t is p's own.
Targets(p, t) ==
    /\ t \in Env /\ goal[p] = t
    /\ t \in landed[p] \/ st[t] # "built"

RequestedTargets ==
    \A p \in Promotion : (obj[p].requested /\ ~moved[p]) =>
        /\ Targets(p, obj[p].to)
        /\ cache[p].from = obj[p].from /\ cache[p].to = obj[p].to
        /\ (wk.pc # "idle" /\ wk.p = p) =>
               wk.base.from = obj[p].from /\ wk.base.to = obj[p].to

AckTargets ==
    (wk.pc = "ack" /\ ~Conflict /\ ~moved[wk.p]) => Targets(wk.p, wk.base.to)

SucceedLanded ==
    (wk.pc = "succeed" /\ ~Conflict /\ ~moved[wk.p]) =>
        wk.base.to \in landed[wk.p]

\* Why a "built" that the poll finds is the build this promotion asked for: from
\* the request on, Uyuni's last accepted target is toEnvironment, and it is
\* "built" only after that build, in every pass that can still write a status.
Delivery == /\ SameRead /\ Aligned /\ RequestedTargets /\ AckTargets
            /\ SucceedLanded /\ SucceededMeansDelivered
----------------------------------------------------------------------------
(* What the comments promise and the code does not keep.                   *)

\* "we wait for owned dependents to finalize, then clean up Uyuni-side state":
\* a project whose deletion was requested while its status said Building is
\* eventually gone.
DeletionCompletes == (proj.deleting /\ proj.building) ~> ~proj.exists

\* "Active promotions block unconditionally because cancelling them mid-flight is
\* dangerous": no promotion that is requested and not finished loses its project.
ActivePromotionsBlock ==
    \A p \in Promotion :
        (~alive /\ obj[p].life = "live" /\ obj[p].requested) =>
            isTerminal(obj[p].phase)

\* "call it at most once [...] never calls PromoteProject again for this CR".
CalledAtMostOnce ==
    [][\A p \in Promotion : obj[p].requested => calls'[p] = calls[p]]_vars

\* "Optional sanity check: fail if source env's current built version differs
\* from this value": with a built source the gate lets the promotion through or
\* fails it, and does not keep it Pending for ever.
GateDecides ==
    \A p \in {q \in Promotion : RequireSourceVersion[q] > 0} :
        obj[p].life = "live" ~> \/ obj[p].life = "gone"
                                \/ isTerminal(obj[p].phase)
                                \/ moved[p] \/ proj.deleting
                                \/ obj[p].from \notin {e \in Env : st[e] = "built"}
============================================================================
