------------------------------- MODULE Task -------------------------------
(***************************************************************************)
(* Scheduled tasks: the Task reconciler                                    *)
(* (internal/controller/task_controller.go), the webhook that freezes the  *)
(* spec of a task that has run, and Uyuni's action scheduler as the client *)
(* (internal/uyuni/client.go) sees it.                                     *)
(*                                                                         *)
(* Tasks share no state, so one is modelled.  A pass is several steps, one *)
(* per API call; wk.t is the task the pass holds in memory, wk.base the    *)
(* stored version a write must still find.  Owner references and           *)
(* conditions are left out: nothing here reads them.                       *)
(***************************************************************************)
EXTENDS Naturals, Sequences

CONSTANTS
    Server,         \* the systems spec.target resolves to
    Reboot,         \* the task reboots: one schedule call per system
    Action,         \* Uyuni action ids (bound: actions ever scheduled)
    maxRunHistory,  \* runs kept in status
    MaxEvents       \* bound: user requests, failures, crashes, stale reads

ASSUME ServerAssumption == Server # {}
ASSUME ActionAssumption == Action \subseteq Nat
ASSUME RebootAssumption == Reboot \in BOOLEAN
ASSUME HistoryAssumption == maxRunHistory \in Nat \ {0}
ASSUME BoundAssumption == MaxEvents \in Nat

VARIABLES
    obj,       \* the Task in the API server
    cache,     \* the informer's copy of it
    wk,        \* the controller's worker
    acts,      \* Uyuni: per action and system, where the action stands
    used,      \* Uyuni: action ids given out
    orphan,    \* history: actions scheduled but never recorded in a run
    kept,      \* history: recorded actions whose cancellation was skipped
    unserved,  \* history: a rerun was asked for and no run recorded since
    asked,     \* history: reruns asked for
    rerun,     \* history: runs recorded with trigger "annotation"
    events     \* disturbances so far

uyuni == <<acts, used>>
history == <<orphan, kept, unserved, asked, rerun>>
vars == <<obj, cache, wk, uyuni, history, events>>

----------------------------------------------------------------------------
(* Objects.                                                                *)

Trigger == {"", "annotation", "initial", "spec-change"}
RunPhase == {"Pending", "Running", "Succeeded", "Failed", "Mixed"}

\* spec is the version of the frozen part of the task's spec that was run.
TaskRun == [seq : Nat, ids : SUBSET Action, phase : RunPhase,
            trigger : Trigger, spec : Nat]

TaskObject ==
    [life : {"live", "deleting", "gone"}, finalizer : BOOLEAN,
     force : BOOLEAN, rerun : BOOLEAN, gen : Nat, spec : Nat,
     runs : Seq(TaskRun), phase : RunPhase \cup {""}, observed : Nat]

NewTask == [life |-> "live", finalizer |-> FALSE, force |-> FALSE,
            rerun |-> FALSE, gen |-> 1, spec |-> 0, runs |-> << >>,
            phase |-> "", observed |-> 0]

Part == IF Reboot THEN {{s} : s \in Server} ELSE {Server}

PC == {"idle", "finalizer", "completed", "failed", "inProgress", "schedule",
       "failTask", "record", "strip", "final", "ttl", "cancel", "release"}

Worker ==
    [pc : PC, t : TaskObject, base : TaskObject, i : Nat,
     cur : SUBSET Action, unread : SUBSET Action,
     seen : SUBSET {"ok", "bad", "open"}, trigger : Trigger,
     todo : SUBSET Part, ids : SUBSET Action]

Active(run) == run.phase \in {"Pending", "Running"}
isTerminalPhase(phase) == phase \in {"Succeeded", "Failed", "Mixed"}

ActiveRuns(t) == {i \in DOMAIN t.runs : Active(t.runs[i])}
hasActiveRun(t) == ActiveRuns(t) # {}

Reports(as, result) == \E a \in as, s \in Server : acts[a][s] = result

Event == events < MaxEvents /\ events' = events + 1

----------------------------------------------------------------------------
(* The user and the webhook.                                               *)

\* ValidateUpdate: the spec may change until the first run is on record.
SpecEditableAlways == TRUE
SpecEditable == obj.runs = << >>

EditSpec ==
    /\ obj.life = "live"
    /\ SpecEditable
    /\ Event
    /\ obj' = [obj EXCEPT !.spec = @ + 1, !.gen = @ + 1]
    /\ UNCHANGED <<cache, wk, uyuni, history>>

\* ttlAfterFinished stays editable; it is part of metadata.generation.
EditTTL ==
    /\ obj.life = "live"
    /\ Event
    /\ obj' = [obj EXCEPT !.gen = @ + 1]
    /\ UNCHANGED <<cache, wk, uyuni, history>>

\* The rerun annotation; setting it again before it is stripped is no change.
AskRerun ==
    /\ obj.life = "live" /\ ~obj.rerun
    /\ Event
    /\ obj' = [obj EXCEPT !.rerun = TRUE]
    /\ unserved' = TRUE
    /\ asked' = asked + 1
    /\ UNCHANGED <<cache, wk, uyuni, orphan, kept, rerun>>

Deleted(t) == [t EXCEPT !.life = IF t.finalizer THEN "deleting" ELSE "gone"]

DeleteTask ==
    /\ obj.life = "live"
    /\ Event
    /\ obj' = Deleted(obj)
    /\ UNCHANGED <<cache, wk, uyuni, history>>

AskForceDelete ==
    /\ obj.life = "deleting" /\ ~obj.force
    /\ Event
    /\ obj' = [obj EXCEPT !.force = TRUE]
    /\ UNCHANGED <<cache, wk, uyuni, history>>

----------------------------------------------------------------------------
(* TaskReconciler.Reconcile: reading, and what Uyuni knows of active runs. *)

\* Between passes the worker remembers nothing.
Idle == [pc |-> "idle", t |-> NewTask, base |-> NewTask, i |-> 0, cur |-> {},
         unread |-> {}, seen |-> {}, trigger |-> "", todo |-> {}, ids |-> {}]

CacheSync ==
    /\ cache # obj
    /\ cache' = obj
    /\ UNCHANGED <<obj, wk, uyuni, history, events>>

decideTriggerGenerationFirst(t) ==
    IF t.runs = << >> THEN "initial"
    ELSE IF t.observed = t.gen THEN ""
    ELSE IF t.rerun THEN "annotation" ELSE "spec-change"

decideTrigger(t) ==
    CASE t.rerun                    -> "annotation"
      [] ~t.rerun /\ t.runs = << >> -> "initial"
      [] ~t.rerun /\ t.runs # << >> /\ t.observed # t.gen -> "spec-change"
      [] OTHER                      -> ""

Schedules(w) ==
    [w EXCEPT !.pc = "schedule", !.todo = Part, !.trigger = decideTrigger(w.t)]

\* The pass w once the active runs are up to date in memory.
DecidedUnguarded(w) ==
    IF decideTrigger(w.t) # "" THEN Schedules(w) ELSE [w EXCEPT !.pc = "final"]

Decided(w) ==
    IF decideTrigger(w.t) # "" /\ ~hasActiveRun(w.t)
    THEN Schedules(w) ELSE [w EXCEPT !.pc = "final"]

\* refreshActiveRuns goes on to the next active run, if there is one.
Refreshing(w) ==
    LET later == {i \in ActiveRuns(w.t) : i > w.i}
        next == CHOOSE i \in later : \A j \in later : i <= j
    IN IF later = {} THEN Decided([w EXCEPT !.unread = {}, !.seen = {}])
       ELSE [w EXCEPT !.pc = "completed", !.i = next,
                      !.unread = w.t.runs[next].ids, !.seen = {}]

\* A pass on the version c of the task begins.
Started(c) ==
    LET w == [Idle EXCEPT !.t = c, !.base = c]
    IN IF c.life = "deleting" THEN [w EXCEPT !.pc = "cancel"]
       ELSE IF ~c.finalizer THEN [w EXCEPT !.pc = "finalizer"]
       ELSE Refreshing(w)

Begin ==
    /\ wk.pc = "idle" /\ cache.life # "gone"
    /\ IF cache = obj THEN UNCHANGED events ELSE Event
    /\ wk' = Started(cache)
    /\ UNCHANGED <<obj, cache, uyuni, history>>

\* GetActionResults asks for the completed, the failed and the running systems
\* of an action, one call after the other.
ReadCompleted ==
    /\ wk.pc = "completed"
    /\ \E a \in wk.unread :
           wk' = [wk EXCEPT !.pc = "failed", !.cur = {a},
                            !.seen = IF Reports({a}, "ok") THEN @ \cup {"ok"}
                                     ELSE @]
    /\ UNCHANGED <<obj, cache, uyuni, history, events>>

ReadFailed ==
    /\ wk.pc = "failed"
    /\ wk' = [wk EXCEPT !.pc = "inProgress",
                        !.seen = IF Reports(wk.cur, "bad") THEN @ \cup {"bad"}
                                 ELSE @]
    /\ UNCHANGED <<obj, cache, uyuni, history, events>>

\* The phase of a run in which these results were seen.
PhaseOfNoDefault(seen) ==
    IF "open" \in seen THEN "Running" ELSE IF "bad" \in seen THEN "Failed"
    ELSE IF "ok" \in seen THEN "Succeeded" ELSE ""

PhaseOfFailedWaits(seen) ==
    IF "ok" \in seen /\ "open" \notin seen THEN "Succeeded" ELSE "Running"

PhaseOf(seen) ==
    CASE "open" \in seen -> "Running"
      [] "open" \notin seen /\ {"ok", "bad"} \subseteq seen -> "Mixed"
      [] "open" \notin seen /\ "bad" \in seen /\ "ok" \notin seen -> "Failed"
      [] "open" \notin seen /\ "ok" \in seen /\ "bad" \notin seen -> "Succeeded"
      [] OTHER -> "Running"

ReadInProgress ==
    LET seen == IF Reports(wk.cur, "open") THEN wk.seen \cup {"open"} ELSE wk.seen
        left == wk.unread \ wk.cur
        read == [wk EXCEPT !.seen = seen, !.unread = left, !.cur = {},
                           !.pc = "completed"]
    IN /\ wk.pc = "inProgress"
       /\ wk' = IF left # {} THEN read
                ELSE Refreshing([read EXCEPT !.t.runs[wk.i].phase
                                                 = PhaseOf(seen)])
       /\ UNCHANGED <<obj, cache, uyuni, history, events>>

----------------------------------------------------------------------------
(* Writes.                                                                 *)

\* r.Update and r.Status().Update find the version the pass has read.
Conflict == obj # wk.base

Save(new, next) ==
    IF Conflict THEN wk' = Idle /\ UNCHANGED obj
    ELSE /\ obj' = new
         /\ wk' = IF next = "idle" THEN Idle
                  ELSE [wk EXCEPT !.pc = next, !.t = new, !.base = new,
                                  !.ids = {}]

AddFinalizer ==
    /\ wk.pc = "finalizer"
    /\ Save([wk.t EXCEPT !.finalizer = TRUE], "idle")
    /\ UNCHANGED <<cache, uyuni, history, events>>

\* A call fails or the operator dies: the pass ends where it is.  Whatever it
\* has scheduled and not recorded is forgotten.
Interrupted ==
    /\ wk.pc # "idle"
    /\ Event
    /\ wk' = Idle
    /\ cache' \in {cache, obj}
    /\ orphan' = orphan \cup wk.ids
    /\ UNCHANGED <<obj, uyuni, kept, unserved, asked, rerun>>

----------------------------------------------------------------------------
(* startRun and scheduleByKind.                                            *)

\* Uyuni numbers its actions in order.
Scheduled(a, part) ==
    /\ a \notin used /\ \A b \in Action \ used : a <= b
    /\ used' = used \cup {a}
    /\ acts' = [acts EXCEPT ![a] = [s \in Server |-> IF s \in part THEN "open"
                                                     ELSE "none"]]

\* The run startRun appends, and the runs that stay in the history.
NewRun(ids) ==
    [seq |-> Len(wk.t.runs) + 1, ids |-> ids, phase |-> "Pending",
     trigger |-> wk.trigger, spec |-> wk.t.spec]

Trimmed(runs) ==
    IF Len(runs) > maxRunHistory
    THEN SubSeq(runs, Len(runs) - maxRunHistory + 1, Len(runs)) ELSE runs

ScheduleCall(a, part) ==
    LET ids == wk.ids \cup {a}
        todo == wk.todo \ {part}
    IN /\ wk.pc = "schedule" /\ part \in wk.todo
       /\ Scheduled(a, part)
       /\ wk' = [wk EXCEPT !.ids = ids, !.todo = todo,
                           !.pc = IF todo = {} THEN "record" ELSE @,
                           !.t.runs = IF todo = {}
                                      THEN Trimmed(Append(@, NewRun(ids)))
                                      ELSE @]
       /\ UNCHANGED <<obj, cache, history, events>>

\* Uyuni scheduled the action but the answer was lost: scheduleByKind returns
\* no ids at all, the ones of earlier reboots included.
ScheduleReplyLost(a, part) ==
    /\ wk.pc = "schedule" /\ part \in wk.todo
    /\ Event
    /\ Scheduled(a, part)
    /\ orphan' = orphan \cup wk.ids \cup {a}
    /\ wk' = [wk EXCEPT !.pc = "failTask", !.ids = {}, !.todo = {}]
    /\ UNCHANGED <<obj, cache, kept, unserved, asked, rerun>>

\* The target does not resolve, or Uyuni refuses the call.
ScheduleRefused ==
    /\ wk.pc = "schedule"
    /\ Event
    /\ orphan' = orphan \cup wk.ids
    /\ wk' = [wk EXCEPT !.pc = "failTask", !.ids = {}, !.todo = {}]
    /\ UNCHANGED <<obj, cache, uyuni, kept, unserved, asked, rerun>>

failTask ==
    /\ wk.pc = "failTask"
    /\ Save(wk.t, "idle")
    /\ UNCHANGED <<cache, uyuni, history, events>>

RecordRunStripsFirst ==
    /\ wk.pc = "record"
    /\ Save([wk.base EXCEPT !.rerun = FALSE], "final")
    /\ UNCHANGED <<cache, uyuni, history, events>>

\* The run is made durable first; only then is the annotation stripped.
RecordRun ==
    /\ wk.pc = "record"
    /\ Save(wk.t, IF wk.trigger = "annotation" THEN "strip" ELSE "final")
    /\ orphan' = IF Conflict THEN orphan \cup wk.ids ELSE orphan
    /\ unserved' = (unserved /\ (Conflict \/ wk.trigger # "annotation"))
    /\ rerun' = IF ~Conflict /\ wk.trigger = "annotation" THEN rerun + 1
                ELSE rerun
    /\ UNCHANGED <<cache, uyuni, kept, asked, events>>

StripAnnotation ==
    /\ wk.pc = "strip"
    /\ Save([wk.t EXCEPT !.rerun = FALSE], "final")
    /\ UNCHANGED <<cache, uyuni, history, events>>

----------------------------------------------------------------------------
(* The end of a pass, and deletion.                                        *)

LatestPhase(t) == IF t.runs = << >> THEN "" ELSE t.runs[Len(t.runs)].phase

WriteStatus ==
    LET phase == LatestPhase(wk.t)
    IN /\ wk.pc = "final"
       /\ Save([wk.t EXCEPT !.phase = phase, !.observed = wk.t.gen],
               IF isTerminalPhase(phase) /\ ~hasActiveRun(wk.t) THEN "ttl"
               ELSE "idle")
       /\ UNCHANGED <<cache, uyuni, history, events>>

\* ttlAfterFinished has passed: a delete without preconditions.
TTLExpired ==
    /\ wk.pc = "ttl"
    /\ obj' = IF obj.life = "live" THEN Deleted(obj) ELSE obj
    /\ wk' = Idle
    /\ UNCHANGED <<cache, uyuni, history, events>>

TTLNotYet ==
    /\ wk.pc = "ttl"
    /\ wk' = Idle
    /\ UNCHANGED <<obj, cache, uyuni, history, events>>

\* handleDeletion: cancelling is best effort, and skipped by force-delete or
\* when there is no client for the organization.
RecordedOpenPending(t) ==
    UNION {t.runs[i].ids : i \in {j \in DOMAIN t.runs :
                                    t.runs[j].phase = "Pending"}}

RecordedOpen(t) == UNION {t.runs[i].ids : i \in ActiveRuns(t)}

CancelActions ==
    /\ wk.pc = "cancel"
    /\ \E missed \in SUBSET RecordedOpen(wk.t) :
        /\ wk.t.force => missed = RecordedOpen(wk.t)
        /\ IF missed = {} \/ wk.t.force THEN UNCHANGED events ELSE Event
        /\ kept' = kept \cup missed
        /\ acts' = [a \in Action |->
                      IF a \in RecordedOpen(wk.t) \ missed
                      THEN [s \in Server |-> IF acts[a][s] = "open" THEN "none"
                                             ELSE acts[a][s]]
                      ELSE acts[a]]
    /\ wk' = [wk EXCEPT !.pc = "release"]
    /\ UNCHANGED <<obj, cache, used, orphan, unserved, asked, rerun>>

ReleaseTask ==
    /\ wk.pc = "release"
    /\ Save([wk.t EXCEPT !.finalizer = FALSE, !.life = "gone"], "idle")
    /\ UNCHANGED <<cache, uyuni, history, events>>

----------------------------------------------------------------------------
(* Uyuni: a system finishes its part of an action.                         *)

FinishAction(a, s, result) ==
    /\ acts[a][s] = "open"
    /\ acts' = [acts EXCEPT ![a][s] = result]
    /\ UNCHANGED <<obj, cache, wk, used, history, events>>

----------------------------------------------------------------------------

Init ==
    /\ obj = NewTask
    /\ cache = NewTask
    /\ wk = Idle
    /\ acts = [a \in Action |-> [s \in Server |-> "none"]]
    /\ used = {}
    /\ orphan = {}
    /\ kept = {}
    /\ unserved = FALSE
    /\ asked = 0
    /\ rerun = 0
    /\ events = 0

Pass == \/ AddFinalizer \/ ReadCompleted \/ ReadFailed \/ ReadInProgress
        \/ \E a \in Action, part \in Part : ScheduleCall(a, part)
        \/ failTask \/ RecordRun \/ StripAnnotation \/ WriteStatus
        \/ TTLNotYet \/ CancelActions \/ ReleaseTask

User == EditSpec \/ EditTTL \/ AskRerun \/ DeleteTask \/ AskForceDelete

Next == \/ User \/ CacheSync \/ Begin \/ Pass \/ TTLExpired \/ Interrupted
        \/ \E a \in Action, part \in Part : ScheduleReplyLost(a, part)
        \/ ScheduleRefused
        \/ \E a \in Action, s \in Server, r \in {"ok", "bad"} :
               FinishAction(a, s, r)

Spec == Init /\ [][Next]_vars

\* The queue requeues the task after every pass, the informer catches up and
\* every system ends what it was told to do.
Fairness ==
    /\ WF_vars(Pass) /\ WF_vars(Begin) /\ WF_vars(CacheSync)
    /\ \A a \in Action, s \in Server :
           WF_vars(\E r \in {"ok", "bad"} : FinishAction(a, s, r))

FairSpec == Spec /\ Fairness
----------------------------------------------------------------------------
(* Properties.                                                             *)

\* Type correctness of the task, the informer's copy, the pass and Uyuni.
TypeOK ==
    /\ obj \in TaskObject
    /\ cache \in TaskObject
    /\ wk \in Worker
    /\ acts \in [Action -> [Server -> {"none", "open", "ok", "bad"}]]
    /\ used \in SUBSET Action
    /\ orphan \in SUBSET Action
    /\ kept \in SUBSET Action
    /\ unserved \in BOOLEAN
    /\ asked \in Nat
    /\ rerun \in Nat
    /\ events \in Nat

\* Runs of a task never overlap: an action that is open in Uyuni belongs to
\* the latest recorded run, which is still active, or to the run a pass has
\* just scheduled while nothing recorded was open.  The exceptions are actions
\* orphaned by a crash or a failed write, and a pass whose read was stale.
LatestIds(t) ==
    IF t.runs = << >> \/ ~Active(t.runs[Len(t.runs)]) THEN {}
    ELSE t.runs[Len(t.runs)].ids
OpenActions == {a \in used : Reports({a}, "open")}
RunsDoNotOverlap ==
    /\ obj.life # "gone" => OpenActions \ (orphan \cup wk.ids) \subseteq LatestIds(obj)
    /\ (wk.ids # {} /\ ~Conflict) => OpenActions \cap LatestIds(obj) = {}

\* The history is never rewritten: every run on record ran the spec the task
\* has now, although the webhook that freezes the spec looks at the recorded
\* runs only and a first run may just be on its way to Uyuni.
RanAsIs(t) == \A i \in DOMAIN t.runs : t.runs[i].spec = t.spec
HistoryMatchesSpec == RanAsIs(obj)

\* A rerun that was asked for stays marked on the task until a run that
\* answers it is on record, whatever fails in between.
RerunNotForgotten == (unserved /\ obj.life = "live") => obj.rerun

\* The rerun annotation is a one-shot trigger: a run on record serves it.
OneShot == INSTANCE Trigger WITH
    Asker <- {"task"},
    asked <- IF obj.life = "live" /\ obj.rerun THEN {"task"} ELSE {},
    owed <- IF obj.life = "live" /\ unserved THEN {"task"} ELSE {}

\* startRun and the strip implement what annotations.go says of rerun: it is
\* stripped after a run that answers it is on record, and only then.
RerunIsOneShot == OneShot!Spec

\* A deleted task leaves nothing running in Uyuni but the actions whose
\* cancellation failed or was waived and those it never got to record.
DeletionCancels == obj.life = "gone" => OpenActions \subseteq orphan \cup kept

\* A task ends up in a terminal phase or deleted.
Settles == [](obj.life = "live" => <>(obj.life # "live" \/ isTerminalPhase(obj.phase)))

\* A requested rerun is eventually on record, unless the task is deleted.
RerunServed == unserved ~> (~unserved \/ obj.life # "live")
----------------------------------------------------------------------------
(* The inductive invariant behind HistoryMatchesSpec and RerunNotForgotten. *)

\* What a pass holds differs from what it read in the runs only.
CopyOfBase ==
    /\ wk.t.life = wk.base.life /\ wk.t.rerun = wk.base.rerun
    /\ wk.t.spec = wk.base.spec

\* A pass that answers the annotation has seen it.
TriggerSeen ==
    (wk.pc \in {"schedule", "record"} /\ wk.trigger = "annotation") => wk.t.rerun

\* The annotation about to be stripped is the one a recorded run answers:
\* no new request can be made while it is there.
StripAnswered == wk.pc = "strip" => obj.rerun /\ ~unserved

IInv == /\ TypeOK
        /\ RanAsIs(obj) /\ RanAsIs(cache) /\ RanAsIs(wk.t)
        /\ CopyOfBase /\ TriggerSeen /\ StripAnswered /\ RerunNotForgotten
----------------------------------------------------------------------------
(* What the comments promise and the code does not keep.                   *)

\* "Annotation cleanup failed; next reconcile re-triggers. hasActiveRun guards
\* against duplicate scheduling."
OneRunPerRerun == rerun <= asked

\* "status is implied by which list a system appears in": a run recorded as
\* Succeeded has no system on which its action failed.
SucceededMeansAllSucceeded ==
    \A i \in DOMAIN obj.runs : obj.runs[i].phase = "Succeeded" =>
        ~Reports(obj.runs[i].ids, "bad")
============================================================================
