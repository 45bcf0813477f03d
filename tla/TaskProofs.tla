---------------------------- MODULE TaskProofs ----------------------------
(***************************************************************************)
(* Task, for every target, history length and bound: the types are kept,   *)
(* the history always matches the spec, a requested rerun is never         *)
(* forgotten, runs do not overlap, deletion leaves nothing open, and the   *)
(* rerun annotation implements Trigger.  The inductive invariant IInv adds *)
(* what a pass holds in memory: a copy of the version it has read that     *)
(* differs in its runs only, all of them made with the copied spec.  RInv  *)
(* adds what every copy knows of the actions.                              *)
(***************************************************************************)
EXTENDS Task, WellFoundedInduction, TLAPS

----------------------------------------------------------------------------
(* Operators on runs.                                                      *)

\* Setting the phase of one run keeps a history well typed and its specs.
LEMMA PhaseSet ==
    ASSUME NEW runs \in Seq(TaskRun), NEW i \in Nat, NEW p \in RunPhase
    PROVE  LET new == [runs EXCEPT ![i].phase = p]
           IN /\ new \in Seq(TaskRun)
              /\ DOMAIN new = DOMAIN runs
              /\ \A j \in DOMAIN runs : new[j].spec = runs[j].spec
<1> DEFINE new == [runs EXCEPT ![i].phase = p]
<1>1. runs \in [1..Len(runs) -> TaskRun] /\ Len(runs) \in Nat
  OBVIOUS
<1>2. \A r \in TaskRun : [r EXCEPT !.phase = p] \in TaskRun
                         /\ [r EXCEPT !.phase = p].spec = r.spec
  BY DEF TaskRun
<1>3. new \in [1..Len(runs) -> TaskRun]
  BY <1>1, <1>2
<1>4. new \in Seq(TaskRun)
  BY <1>1, <1>3
<1>5. \A j \in DOMAIN runs : new[j].spec = runs[j].spec
  BY <1>1, <1>2
<1> QED BY <1>1, <1>3, <1>4, <1>5

\* Adding a run of the current spec and trimming keeps every spec current.
LEMMA RunAdded ==
    ASSUME NEW runs \in Seq(TaskRun), NEW run \in TaskRun, NEW spec,
           run.spec = spec, \A i \in DOMAIN runs : runs[i].spec = spec
    PROVE  LET new == Trimmed(Append(runs, run))
           IN /\ new \in Seq(TaskRun)
              /\ \A i \in DOMAIN new : new[i].spec = spec
<1> DEFINE more == Append(runs, run)
<1>1. more \in Seq(TaskRun) /\ Len(more) = Len(runs) + 1 /\ Len(runs) \in Nat
  OBVIOUS
<1>2. \A i \in 1..Len(more) : more[i] \in TaskRun /\ more[i].spec = spec
  OBVIOUS
<1>3. CASE ~(Len(more) > maxRunHistory)
  BY <1>1, <1>2, <1>3 DEF Trimmed
<1>4. CASE Len(more) > maxRunHistory
  <2> DEFINE low == Len(more) - maxRunHistory + 1
             new == SubSeq(more, low, Len(more))
  <2>1. low \in 1..Len(more)
    BY <1>1, <1>4, HistoryAssumption
  <2> HIDE DEF more
  <2>2. /\ new \in Seq(TaskRun) /\ Len(new) = Len(more) - low + 1
        /\ \A i \in 1..Len(new) : new[i] = more[low + i - 1]
    BY <1>1, <2>1
  <2>3. \A i \in 1..Len(new) : new[i].spec = spec
    BY <1>1, <1>2, <2>1, <2>2
  <2>4. Trimmed(more) = new
    BY <1>4 DEF Trimmed
  <2> HIDE DEF new
  <2>5. Trimmed(more) \in Seq(TaskRun)
        /\ \A i \in DOMAIN Trimmed(more) : Trimmed(more)[i].spec = spec
    BY <2>2, <2>3, <2>4
  <2> QED BY <2>5 DEF more
<1> QED BY <1>3, <1>4

----------------------------------------------------------------------------
(* The pure steps of a pass.                                               *)

\* A set of numbers that is not empty has a smallest one.
LEMMA SmallestExists ==
    ASSUME NEW S \in SUBSET Nat, S # {}
    PROVE  \E i \in S : \A j \in S : i <= j
<1>1. \E i \in S : \A j \in S : <<j, i>> \notin OpToRel(<, Nat)
  BY WFMin, NatLessThanWellFounded
<1>2. \A i, j \in Nat : <<j, i>> \notin OpToRel(<, Nat) => i <= j
  BY DEF OpToRel
<1> QED BY <1>1, <1>2

\* What deciding and refreshing leave of the pass w.
Kept(w, v) ==
    /\ v \in Worker
    /\ v.t = w.t /\ v.base = w.base /\ v.ids = w.ids
    /\ v.pc \in {"completed", "schedule", "final"}
    /\ v.pc = "schedule" /\ v.trigger = "annotation" => v.t.rerun

\* The trigger is one of the four, and "annotation" only if it is there.
LEMMA TriggerType ==
    ASSUME NEW t
    PROVE  decideTrigger(t) \in Trigger
           /\ (decideTrigger(t) = "annotation" => t.rerun)
BY Zenon DEF decideTrigger, Trigger

\* Deciding keeps the task in hand.
LEMMA DecidedKeeps ==
    ASSUME NEW w \in Worker
    PROVE  Kept(w, Decided(w))
<1>1. Schedules(w) \in Worker
  <2>1. decideTrigger(w.t) \in Trigger
    BY TriggerType
  <2> QED BY <2>1 DEF Worker, Schedules, PC
<1>2. [w EXCEPT !.pc = "final"] \in Worker
  BY DEF Worker, PC
<1>3. CASE decideTrigger(w.t) # "" /\ ~hasActiveRun(w.t)
  BY <1>1, <1>3, TriggerType DEF Kept, Decided, Schedules, Worker
<1>4. CASE ~(decideTrigger(w.t) # "" /\ ~hasActiveRun(w.t))
  BY <1>2, <1>4 DEF Kept, Decided, Worker
<1> QED BY <1>3, <1>4

\* So does going on to the next active run.
LEMMA RefreshingKeeps ==
    ASSUME NEW w \in Worker
    PROVE  Kept(w, Refreshing(w))
<1> DEFINE later == {i \in ActiveRuns(w.t) : i > w.i}
           next == CHOOSE i \in later : \A j \in later : i <= j
           last == [w EXCEPT !.unread = {}, !.seen = {}]
<1>1. CASE later = {}
  <2>1. last \in Worker /\ last.t = w.t /\ last.base = w.base /\ last.ids = w.ids
    BY DEF Worker
  <2>2. Kept(last, Decided(last))
    BY <2>1, DecidedKeeps
  <2> QED BY <1>1, <2>1, <2>2 DEF Refreshing, Kept
<1>2. CASE later # {}
  <2>1. w.t.runs \in Seq(TaskRun)
    BY DEF Worker, TaskObject
  <2>2. later \subseteq DOMAIN w.t.runs /\ DOMAIN w.t.runs \subseteq Nat
    BY <2>1 DEF ActiveRuns
  <2>3. next \in later
    <3>1. \E i \in later : \A j \in later : i <= j
      BY <1>2, <2>2, SmallestExists
    <3> QED BY <3>1
  <2>4. w.t.runs[next].ids \in SUBSET Action
    <3> HIDE DEF next, later
    <3>1. w.t.runs[next] \in TaskRun
      BY <2>1, <2>2, <2>3
    <3> QED BY <3>1 DEF TaskRun
  <2>5. [w EXCEPT !.pc = "completed", !.i = next,
                  !.unread = w.t.runs[next].ids, !.seen = {}] \in Worker
    BY <2>2, <2>3, <2>4 DEF Worker, PC
  <2> QED BY <1>2, <2>5 DEF Refreshing, Kept, Worker
<1> QED BY <1>1, <1>2

----------------------------------------------------------------------------
(* The invariant.                                                          *)

\* The worker between passes is well typed and holds no run.
LEMMA IdleType ==
    Idle \in Worker /\ NewTask \in TaskObject /\ RanAsIs(NewTask)
<1>1. NewTask \in TaskObject
  BY DEF NewTask, TaskObject
<1>2. Idle \in Worker
  BY <1>1 DEF Idle, Worker, PC, Trigger
<1>3. RanAsIs(NewTask)
  BY DEF NewTask, RanAsIs
<1> QED BY <1>1, <1>2, <1>3

\* The part of the invariant that speaks of the objects and the worker.
Objects ==
    /\ obj \in TaskObject /\ cache \in TaskObject /\ wk \in Worker
    /\ RanAsIs(obj) /\ RanAsIs(cache) /\ RanAsIs(wk.t)
    /\ CopyOfBase /\ TriggerSeen

\* The part that speaks of Uyuni and of the history.
Counters ==
    /\ acts \in [Action -> [Server -> {"none", "open", "ok", "bad"}]]
    /\ used \in SUBSET Action /\ orphan \in SUBSET Action
    /\ kept \in SUBSET Action /\ unserved \in BOOLEAN
    /\ asked \in Nat /\ rerun \in Nat /\ events \in Nat

\* IInv is those two parts and the two facts about reruns.
LEMMA Parts ==
    /\ IInv <=> Objects /\ Counters /\ StripAnswered /\ RerunNotForgotten
    /\ IInv' <=> Objects' /\ Counters' /\ StripAnswered' /\ RerunNotForgotten'
BY DEF IInv, Objects, Counters, TypeOK

\* A write of a well-typed task whose runs match its spec.
LEMMA SaveObjects ==
    ASSUME Objects, NEW new \in TaskObject, RanAsIs(new),
           NEW next \in PC \ {"schedule", "record"},
           Save(new, next), UNCHANGED cache
    PROVE  Objects'
<1>1. CASE Conflict \/ next = "idle"
  <2>1. wk' = Idle /\ (obj' = obj \/ obj' = new)
    BY <1>1 DEF Save
  <2>2. wk' \in Worker /\ wk'.t = NewTask /\ wk'.base = NewTask
        /\ wk'.pc = "idle"
    BY <2>1, IdleType DEF Idle
  <2>3. CopyOfBase' /\ TriggerSeen'
    BY <2>2 DEF CopyOfBase, TriggerSeen
  <2> QED BY <2>1, <2>2, <2>3, IdleType DEF Objects, RanAsIs
<1>2. CASE ~(Conflict \/ next = "idle")
  <2>1. obj' = new
        /\ wk' = [wk EXCEPT !.pc = next, !.t = new, !.base = new, !.ids = {}]
    BY <1>2 DEF Save
  <2>2. wk' \in Worker /\ wk'.t = new /\ wk'.base = new /\ wk'.pc = next
    BY <2>1 DEF Objects, Worker
  <2>3. CopyOfBase' /\ TriggerSeen'
    BY <2>2 DEF CopyOfBase, TriggerSeen
  <2> QED BY <2>1, <2>2, <2>3 DEF Objects, RanAsIs
<1> QED BY <1>1, <1>2

\* A write that keeps life and annotation keeps the facts about reruns.
LEMMA SaveReruns ==
    ASSUME Objects, StripAnswered, RerunNotForgotten,
           NEW new \in TaskObject, NEW next \in PC, Save(new, next), next # "strip", unserved' = unserved,
           new.life = "live" => wk.t.life = "live" /\ new.rerun = wk.t.rerun
    PROVE  StripAnswered' /\ RerunNotForgotten'
<1>1. wk'.pc # "strip"
  <2>1. wk' = Idle \/ wk' = [wk EXCEPT !.pc = next, !.t = new, !.base = new,
                                       !.ids = {}]
    BY DEF Save
  <2>2. wk \in Worker
    BY DEF Objects
  <2>3. CASE wk' = Idle
    BY <2>3 DEF Idle
  <2>4. CASE wk' = [wk EXCEPT !.pc = next, !.t = new, !.base = new, !.ids = {}]
    <3>1. wk'.pc = next
      BY <2>2, <2>4 DEF Worker
    <3> QED BY <3>1
  <2> QED BY <2>1, <2>3, <2>4
<1>2. obj' = obj \/ (obj = wk.base /\ obj' = new)
  BY DEF Save, Conflict
<1>3. RerunNotForgotten'
  BY <1>2 DEF RerunNotForgotten, Objects, CopyOfBase
<1> QED BY <1>1, <1>3 DEF StripAnswered

\* A step of the user: the task changes, the worker and the cache do not.
LEMMA EditKeeps ==
    ASSUME Objects, obj' \in TaskObject, RanAsIs(obj'), UNCHANGED <<cache, wk>>
    PROVE  Objects'
BY DEF Objects, RanAsIs, CopyOfBase, TriggerSeen

\* A step of a pass that writes nothing.
LEMMA QuietKeeps ==
    ASSUME Objects, StripAnswered, RerunNotForgotten,
           UNCHANGED <<obj, unserved>>,
           cache' \in TaskObject, RanAsIs(cache'),
           wk' \in Worker, RanAsIs(wk'.t), CopyOfBase', TriggerSeen',
           wk'.pc = "strip" => wk.pc = "strip"
    PROVE  Objects' /\ StripAnswered' /\ RerunNotForgotten'
BY DEF Objects, RanAsIs, StripAnswered, RerunNotForgotten

\* The initial states.
LEMMA InvariantInit == Init => IInv
<1> SUFFICES ASSUME Init PROVE IInv
  OBVIOUS
<1>1. Objects
  BY IdleType DEF Init, Objects, Idle, CopyOfBase, TriggerSeen
<1>2. Counters /\ StripAnswered /\ RerunNotForgotten
  BY DEF Init, Counters, StripAnswered, RerunNotForgotten, Idle
<1> QED BY <1>1, <1>2, Parts

----------------------------------------------------------------------------
(* Each action.                                                            *)

\* A new generation of a task is a task.
LEMMA Regenerated ==
    ASSUME NEW t \in TaskObject, NEW v \in Nat, NEW g \in Nat
    PROVE  [t EXCEPT !.gen = g] \in TaskObject
           /\ [t EXCEPT !.spec = v, !.gen = g] \in TaskObject
BY DEF TaskObject

\* The user edits, annotates and deletes.
LEMMA UserStep == ASSUME IInv, User PROVE IInv'
<1> USE Parts
<1>1. obj' \in TaskObject
  <2>0. obj \in TaskObject
    BY DEF Objects
  <2>1. CASE EditSpec
    <3>1. obj.spec \in Nat /\ obj.gen \in Nat
      BY <2>0 DEF TaskObject
    <3>2. obj.spec + 1 \in Nat /\ obj.gen + 1 \in Nat
      BY <3>1
    <3> QED BY <2>0, <2>1, <3>2, Regenerated DEF EditSpec
  <2>4. CASE EditTTL
    <3>1. obj.gen \in Nat
      BY <2>0 DEF TaskObject
    <3>2. obj.gen + 1 \in Nat
      BY <3>1
    <3> QED BY <2>0, <2>4, <3>2, Regenerated DEF EditTTL
  <2>2. CASE AskRerun \/ AskForceDelete
    BY <2>2 DEF AskRerun, AskForceDelete, Objects, TaskObject
  <2>3. CASE DeleteTask
    BY <2>3 DEF DeleteTask, Deleted, Objects, TaskObject
  <2> QED BY <2>1, <2>2, <2>3, <2>4 DEF User
<1>2. RanAsIs(obj')
  <2>1. CASE EditSpec
    <3>1. obj'.runs = << >>
      BY <2>1 DEF EditSpec, SpecEditable, Objects, TaskObject
    <3> QED BY <3>1 DEF RanAsIs
  <2>2. CASE EditTTL \/ AskRerun \/ DeleteTask \/ AskForceDelete
    <3>1. obj'.runs = obj.runs /\ obj'.spec = obj.spec
      BY <2>2 DEF EditTTL, AskRerun, DeleteTask, AskForceDelete, Deleted,
                  Objects, TaskObject
    <3> QED BY <3>1 DEF RanAsIs, Objects
  <2> QED BY <2>1, <2>2 DEF User
<1>3. Objects'
  BY <1>1, <1>2, EditKeeps
     DEF User, EditSpec, EditTTL, AskRerun, DeleteTask, AskForceDelete
<1>4. Counters'
  <2>1. CASE EditSpec \/ EditTTL \/ DeleteTask \/ AskForceDelete
    BY <2>1 DEF EditSpec, EditTTL, DeleteTask, AskForceDelete, Event, Counters,
                history, uyuni
  <2>2. CASE AskRerun
    BY <2>2 DEF AskRerun, Event, Counters, uyuni
  <2> QED BY <2>1, <2>2 DEF User
<1>5. StripAnswered' /\ RerunNotForgotten'
  <2>1. CASE AskRerun
    BY <2>1 DEF AskRerun, StripAnswered, RerunNotForgotten, Objects, TaskObject
  <2>2. CASE EditSpec \/ EditTTL \/ DeleteTask \/ AskForceDelete
    <3>1. /\ obj'.rerun = obj.rerun
          /\ obj'.life = "live" => obj.life = "live"
          /\ wk' = wk /\ unserved' = unserved
      BY <2>2 DEF EditSpec, EditTTL, DeleteTask, AskForceDelete, Deleted,
                  Objects, TaskObject, history
    <3> QED BY <3>1 DEF StripAnswered, RerunNotForgotten
  <2> QED BY <2>1, <2>2 DEF User
<1> QED BY <1>3, <1>4, <1>5

\* The informer catches up, or a pass is cut short.
LEMMA RestartStep == ASSUME IInv, CacheSync \/ Interrupted PROVE IInv'
<1> USE Parts
<1>1. Counters'
  BY DEF CacheSync, Interrupted, Event, Counters, Objects, Worker, history, uyuni
<1>2. CASE CacheSync
  BY <1>1, <1>2 DEF CacheSync, Objects, RanAsIs, CopyOfBase, TriggerSeen,
                    StripAnswered, RerunNotForgotten, history
<1>3. CASE Interrupted
  <2>1. wk' = Idle /\ cache' \in {cache, obj} /\ UNCHANGED <<obj, unserved>>
    BY <1>3 DEF Interrupted
  <2>2. wk'.t = NewTask /\ wk'.base = NewTask /\ wk'.pc = "idle"
    BY <2>1 DEF Idle
  <2>3. CopyOfBase' /\ TriggerSeen'
    BY <2>2 DEF CopyOfBase, TriggerSeen
  <2>4. cache' \in TaskObject /\ RanAsIs(cache')
    BY <2>1 DEF Objects, RanAsIs
  <2> QED BY <1>1, <2>1, <2>2, <2>3, <2>4, IdleType, QuietKeeps
<1> QED BY <1>2, <1>3

\* A pass begins, on whatever version the cache holds.
LEMMA BeginStep == ASSUME IInv, Begin PROVE IInv'
<1> USE Parts
<1> DEFINE w == [Idle EXCEPT !.t = cache, !.base = cache]
<1>1. w \in Worker /\ w.t = cache /\ w.base = cache
  BY IdleType DEF Idle, Objects, Worker
<1>2. Kept(w, Refreshing(w))
  BY <1>1, RefreshingKeeps
<1>3. /\ wk' \in Worker /\ wk'.t = cache /\ wk'.base = cache
      /\ wk'.pc \in {"cancel", "finalizer", "completed", "schedule", "final"}
      /\ wk'.pc = "schedule" /\ wk'.trigger = "annotation" => wk'.t.rerun
  <2>1. CASE cache.life = "deleting"
    BY <1>1, <2>1 DEF Begin, Started, Worker, PC
  <2>2. CASE cache.life # "deleting" /\ ~cache.finalizer
    BY <1>1, <2>2 DEF Begin, Started, Worker, PC
  <2>3. CASE cache.life # "deleting" /\ cache.finalizer
    BY <1>1, <1>2, <2>3 DEF Begin, Started, Kept
  <2> QED BY <2>1, <2>2, <2>3
<1>4. CopyOfBase' /\ TriggerSeen'
  BY <1>3 DEF CopyOfBase, TriggerSeen
<1>5. UNCHANGED <<obj, unserved, cache>>
  BY DEF Begin, history
<1>6. RanAsIs(wk'.t) /\ RanAsIs(cache')
  BY <1>3, <1>5 DEF Objects, RanAsIs
<1>7. Objects' /\ StripAnswered' /\ RerunNotForgotten'
  BY <1>3, <1>4, <1>5, <1>6, QuietKeeps DEF Objects
<1>8. Counters'
  BY DEF Begin, Event, Counters, history, uyuni
<1> QED BY <1>7, <1>8

\* Uyuni is asked for results; the last list of a run settles its phase.
LEMMA ReadStep ==
    ASSUME IInv, ReadCompleted \/ ReadFailed \/ ReadInProgress
    PROVE  IInv'
<1> USE Parts
<1>0. wk \in Worker /\ RanAsIs(wk.t)
  BY DEF Objects
<1>1. Counters'
  BY DEF ReadCompleted, ReadFailed, ReadInProgress, Counters, history, uyuni
<1>2. UNCHANGED <<obj, cache, unserved>>
  BY DEF ReadCompleted, ReadFailed, ReadInProgress, history
<1>3. /\ wk' \in Worker /\ RanAsIs(wk'.t) /\ wk'.base = wk.base
      /\ wk'.t.life = wk.t.life /\ wk'.t.rerun = wk.t.rerun
      /\ wk'.t.spec = wk.t.spec
      /\ wk'.pc \in {"failed", "inProgress", "completed", "schedule", "final"}
      /\ wk'.pc = "schedule" /\ wk'.trigger = "annotation" => wk'.t.rerun
  <2>1. CASE ReadCompleted
    <3>1. PICK a \in wk.unread :
            wk' = [wk EXCEPT !.pc = "failed", !.cur = {a},
                             !.seen = IF Reports({a}, "ok")
                                      THEN wk.seen \cup {"ok"} ELSE wk.seen]
      BY <2>1 DEF ReadCompleted
    <3>2. a \in Action
      BY <1>0 DEF Worker
    <3>3. wk' \in Worker /\ wk'.t = wk.t /\ wk'.base = wk.base
          /\ wk'.pc = "failed"
      BY <1>0, <3>1, <3>2 DEF Worker, PC
    <3> QED BY <1>0, <3>3
  <2>2. CASE ReadFailed
    <3>1. wk' \in Worker /\ wk'.t = wk.t /\ wk'.base = wk.base
          /\ wk'.pc = "inProgress"
      BY <1>0, <2>2 DEF ReadFailed, Worker, PC
    <3> QED BY <1>0, <3>1
  <2>3. CASE ReadInProgress
    <3> DEFINE seen == IF Reports(wk.cur, "open") THEN wk.seen \cup {"open"}
                       ELSE wk.seen
               left == wk.unread \ wk.cur
               read == [wk EXCEPT !.seen = seen, !.unread = left, !.cur = {},
                                  !.pc = "completed"]
               runs == [wk.t.runs EXCEPT ![wk.i].phase = PhaseOf(seen)]
               w == [read EXCEPT !.t.runs[wk.i].phase = PhaseOf(seen)]
    <3>1. read \in Worker /\ read.t = wk.t /\ read.base = wk.base
          /\ read.pc = "completed"
      BY <1>0 DEF Worker, PC
    <3>2. PhaseOf(seen) \in RunPhase
      BY Zenon DEF PhaseOf, RunPhase
    <3>3. wk.t \in TaskObject /\ wk.t.runs \in Seq(TaskRun) /\ wk.i \in Nat
      BY <1>0 DEF Worker, TaskObject
    <3>4. /\ runs \in Seq(TaskRun) /\ DOMAIN runs = DOMAIN wk.t.runs
          /\ \A j \in DOMAIN runs : runs[j].spec = wk.t.runs[j].spec
      BY <3>2, <3>3, PhaseSet
    <3>5. w = [read EXCEPT !.t = [wk.t EXCEPT !.runs = runs]]
      BY <3>1, <3>3 DEF Worker, TaskObject
    <3> HIDE DEF runs, read, left, seen
    <3>6. [wk.t EXCEPT !.runs = runs] \in TaskObject
      BY <3>3, <3>4 DEF TaskObject
    <3>7. w \in Worker /\ w.t = [wk.t EXCEPT !.runs = runs] /\ w.base = wk.base
      <4> HIDE DEF w
      <4> QED BY <3>1, <3>5, <3>6 DEF Worker
    <3>8. w.t.runs = runs /\ w.t.life = wk.t.life /\ w.t.rerun = wk.t.rerun
          /\ w.t.spec = wk.t.spec
      <4> HIDE DEF w
      <4> QED BY <3>3, <3>7 DEF TaskObject
    <3>9. RanAsIs(w.t)
      <4> HIDE DEF w
      <4> QED BY <1>0, <3>4, <3>8 DEF RanAsIs
    <3>10. Kept(w, Refreshing(w))
      <4> HIDE DEF w
      <4> QED BY <3>7, RefreshingKeeps
    <3>11. CASE left # {}
      <4>1. wk' = read
        BY <2>3, <3>11 DEF ReadInProgress, left, read, seen
      <4> QED BY <1>0, <3>1, <4>1
    <3>12. CASE left = {}
      <4>1. wk' = Refreshing(w)
        BY <2>3, <3>12 DEF ReadInProgress, left, read, seen
      <4> HIDE DEF w
      <4> QED BY <3>7, <3>8, <3>9, <3>10, <4>1 DEF Kept, RanAsIs
    <3> QED BY <3>11, <3>12
  <2> QED BY <2>1, <2>2, <2>3
<1>4. CopyOfBase' /\ TriggerSeen'
  BY <1>3 DEF CopyOfBase, TriggerSeen, Objects
<1>5. Objects' /\ StripAnswered' /\ RerunNotForgotten'
  BY <1>2, <1>3, <1>4, QuietKeeps DEF Objects
<1> QED BY <1>1, <1>5

\* A schedule call is made; the last one completes the run in memory.
LEMMA CallStep ==
    ASSUME IInv, NEW a \in Action, NEW part \in Part, ScheduleCall(a, part)
    PROVE  IInv'
<1> USE Parts
<1> DEFINE ids == wk.ids \cup {a}
           todo == wk.todo \ {part}
           runs == Trimmed(Append(wk.t.runs, NewRun(ids)))
           w == [wk EXCEPT !.ids = ids, !.todo = todo,
                           !.pc = IF todo = {} THEN "record" ELSE "schedule"]
<1>0. wk \in Worker /\ wk.pc = "schedule" /\ RanAsIs(wk.t)
  BY DEF Objects, ScheduleCall
<1>1. Counters'
  <2>1. acts' \in [Action -> [Server -> {"none", "open", "ok", "bad"}]]
    BY DEF ScheduleCall, Scheduled, Counters
  <2>2. used' \in SUBSET Action
    BY DEF ScheduleCall, Scheduled, Counters
  <2> QED BY <2>1, <2>2 DEF ScheduleCall, Counters, history
<1>2. UNCHANGED <<obj, cache, unserved>>
  BY DEF ScheduleCall, history
<1>3. w \in Worker /\ w.t = wk.t /\ w.base = wk.base /\ w.trigger = wk.trigger
      /\ w.pc \in {"record", "schedule"}
  BY <1>0 DEF Worker, PC
<1>4. wk.t \in TaskObject /\ wk.t.runs \in Seq(TaskRun) /\ wk.t.spec \in Nat
  BY <1>0 DEF Worker, TaskObject
<1>5. NewRun(ids) \in TaskRun /\ NewRun(ids).spec = wk.t.spec
  <2>1. Len(wk.t.runs) + 1 \in Nat
    BY <1>4
  <2> QED BY <1>0, <1>4, <2>1 DEF NewRun, TaskRun, Worker, RunPhase
<1>6. runs \in Seq(TaskRun) /\ \A i \in DOMAIN runs : runs[i].spec = wk.t.spec
  <2> HIDE DEF ids
  <2> QED BY <1>0, <1>4, <1>5, RunAdded DEF RanAsIs
<1>7. wk' = IF todo = {} THEN [w EXCEPT !.t = [wk.t EXCEPT !.runs = runs]]
            ELSE w
  BY <1>0, <1>4, ZenonT(60) DEF ScheduleCall, Worker, TaskObject
<1> HIDE DEF runs, w, todo
<1>8. /\ [wk.t EXCEPT !.runs = runs] \in TaskObject
      /\ [wk.t EXCEPT !.runs = runs].runs = runs
      /\ [wk.t EXCEPT !.runs = runs].life = wk.t.life
      /\ [wk.t EXCEPT !.runs = runs].rerun = wk.t.rerun
      /\ [wk.t EXCEPT !.runs = runs].spec = wk.t.spec
  BY <1>4, <1>6 DEF TaskObject
<1>9. /\ wk' \in Worker /\ RanAsIs(wk'.t) /\ wk'.base = wk.base
      /\ wk'.t.life = wk.t.life /\ wk'.t.rerun = wk.t.rerun
      /\ wk'.t.spec = wk.t.spec /\ wk'.trigger = wk.trigger
      /\ wk'.pc \in {"record", "schedule"}
  <2>1. CASE todo = {}
    <3>1. wk' \in Worker /\ wk'.t = [wk.t EXCEPT !.runs = runs]
          /\ wk'.base = wk.base /\ wk'.trigger = wk.trigger
          /\ wk'.pc \in {"record", "schedule"}
      BY <1>3, <1>7, <1>8, <2>1 DEF Worker
    <3> QED BY <1>6, <1>8, <3>1 DEF RanAsIs
  <2>2. CASE todo # {}
    BY <1>0, <1>3, <1>7, <2>2
  <2> QED BY <2>1, <2>2
<1>10. CopyOfBase' /\ TriggerSeen'
  BY <1>0, <1>9 DEF CopyOfBase, TriggerSeen, Objects
<1>11. Objects' /\ StripAnswered' /\ RerunNotForgotten'
  BY <1>2, <1>9, <1>10, QuietKeeps DEF Objects
<1> QED BY <1>1, <1>11

\* A call fails, the TTL is not over, or the actions are cancelled: the pass
\* goes on or ends and the stored task is untouched.
LEMMA UnwrittenStep ==
    ASSUME IInv,
           \/ \E a \in Action, part \in Part : ScheduleReplyLost(a, part)
           \/ ScheduleRefused \/ TTLNotYet \/ CancelActions
    PROVE  IInv'
<1> USE Parts
<1>0. wk \in Worker /\ RanAsIs(wk.t)
  BY DEF Objects
<1>1. UNCHANGED <<obj, cache, unserved>>
  BY DEF ScheduleReplyLost, ScheduleRefused, TTLNotYet, CancelActions, history
<1>2. Counters'
  <2>1. CASE \E a \in Action, part \in Part : ScheduleReplyLost(a, part)
    <3>1. PICK a \in Action, part \in Part : ScheduleReplyLost(a, part)
      BY <2>1
    <3>2. acts' \in [Action -> [Server -> {"none", "open", "ok", "bad"}]]
      BY <3>1 DEF ScheduleReplyLost, Scheduled, Counters
    <3>3. used' \in SUBSET Action /\ orphan' \in SUBSET Action
      BY <1>0, <3>1 DEF ScheduleReplyLost, Scheduled, Counters, Worker
    <3> QED BY <3>1, <3>2, <3>3 DEF ScheduleReplyLost, Counters, Event
  <2>2. CASE ScheduleRefused
    BY <1>0, <2>2 DEF ScheduleRefused, Counters, Event, Worker, uyuni
  <2>3. CASE TTLNotYet
    BY <2>3 DEF TTLNotYet, Counters, history, uyuni
  <2>4. CASE CancelActions
    <3>1. RecordedOpen(wk.t) \in SUBSET Action
      <4>1. wk.t.runs \in Seq(TaskRun)
        BY <1>0 DEF Worker, TaskObject
      <4>2. \A j \in DOMAIN wk.t.runs : wk.t.runs[j].ids \in SUBSET Action
        <5>1. \A j \in DOMAIN wk.t.runs : wk.t.runs[j] \in TaskRun
          BY <4>1
        <5> QED BY <5>1 DEF TaskRun
      <4> QED BY <4>2 DEF RecordedOpen, ActiveRuns
    <3>2. acts' \in [Action -> [Server -> {"none", "open", "ok", "bad"}]]
      BY <2>4 DEF CancelActions, Counters
    <3>3. kept' \in SUBSET Action
      BY <2>4, <3>1 DEF CancelActions, Counters
    <3>4. events' \in Nat
      BY <2>4 DEF CancelActions, Counters, Event
    <3> QED BY <2>4, <3>2, <3>3, <3>4 DEF CancelActions, Counters
  <2> QED BY <2>1, <2>2, <2>3, <2>4
<1>3. /\ wk' \in Worker /\ wk'.pc \in {"idle", "failTask", "release"}
      /\ \/ wk'.t = wk.t /\ wk'.base = wk.base
         \/ wk'.t = NewTask /\ wk'.base = NewTask
  <2>1. CASE TTLNotYet
    BY <2>1, IdleType DEF TTLNotYet, Idle
  <2>2. CASE CancelActions
    BY <1>0, <2>2 DEF CancelActions, Worker, PC
  <2>3. CASE \/ ScheduleRefused
             \/ \E a \in Action, part \in Part : ScheduleReplyLost(a, part)
    <3>1. wk' = [wk EXCEPT !.pc = "failTask", !.ids = {}, !.todo = {}]
      BY <2>3 DEF ScheduleRefused, ScheduleReplyLost
    <3> QED BY <1>0, <3>1 DEF Worker, PC
  <2> QED BY <2>1, <2>2, <2>3
<1>4. CopyOfBase' /\ TriggerSeen'
  BY <1>3 DEF CopyOfBase, TriggerSeen, Objects
<1>5. RanAsIs(wk'.t)
  BY <1>0, <1>3, IdleType
<1>6. Objects' /\ StripAnswered' /\ RerunNotForgotten'
  BY <1>1, <1>3, <1>4, <1>5, QuietKeeps DEF Objects
<1> QED BY <1>2, <1>6

\* A system finishes its part of an action.
LEMMA FinishStep ==
    ASSUME IInv, NEW a \in Action, NEW s \in Server, NEW r \in {"ok", "bad"},
           FinishAction(a, s, r)
    PROVE  IInv'
<1> USE Parts
<1>1. acts' \in [Action -> [Server -> {"none", "open", "ok", "bad"}]]
  BY DEF FinishAction, Counters
<1>2. Counters'
  BY <1>1 DEF FinishAction, Counters, history
<1>3. Objects' /\ StripAnswered' /\ RerunNotForgotten'
  BY DEF FinishAction, Objects, StripAnswered, RerunNotForgotten, RanAsIs,
         CopyOfBase, TriggerSeen, history
<1> QED BY <1>2, <1>3

\* The finalizer is added, a failure or the final status is written, or the
\* finalizer is removed.
LEMMA WriteStep ==
    ASSUME IInv, AddFinalizer \/ failTask \/ WriteStatus \/ ReleaseTask
    PROVE  IInv'
<1> USE Parts
<1>0. wk \in Worker /\ RanAsIs(wk.t) /\ wk.t \in TaskObject
  BY DEF Objects, Worker
<1>1. Counters'
  BY DEF AddFinalizer, failTask, WriteStatus, ReleaseTask, Counters, history,
         uyuni
<1>2. UNCHANGED <<cache, unserved>>
  BY DEF AddFinalizer, failTask, WriteStatus, ReleaseTask, history
<1>3. \E new \in TaskObject, next \in PC \ {"schedule", "record", "strip"} :
          /\ Save(new, next)
          /\ new.runs = wk.t.runs /\ new.spec = wk.t.spec
          /\ new.life = "live" => wk.t.life = "live" /\ new.rerun = wk.t.rerun
  <2>1. CASE AddFinalizer
    <3>1. [wk.t EXCEPT !.finalizer = TRUE] \in TaskObject
      BY <1>0 DEF TaskObject
    <3> QED BY <1>0, <2>1, <3>1 DEF AddFinalizer, TaskObject, PC
  <2>2. CASE failTask
    BY <1>0, <2>2 DEF failTask, PC
  <2>3. CASE WriteStatus
    <3> DEFINE phase == LatestPhase(wk.t)
               new == [wk.t EXCEPT !.phase = phase, !.observed = wk.t.gen]
               next == IF isTerminalPhase(phase) /\ ~hasActiveRun(wk.t)
                       THEN "ttl" ELSE "idle"
    <3>1. phase \in RunPhase \cup {""}
      <4>1. wk.t.runs \in Seq(TaskRun)
        BY <1>0 DEF TaskObject
      <4>2. CASE wk.t.runs # << >>
        <5>1. wk.t.runs[Len(wk.t.runs)] \in TaskRun
          BY <4>1, <4>2
        <5> QED BY <4>2, <5>1 DEF LatestPhase, TaskRun
      <4> QED BY <4>2 DEF LatestPhase
    <3> HIDE DEF phase
    <3>2. /\ new \in TaskObject /\ new.runs = wk.t.runs
          /\ new.spec = wk.t.spec /\ new.life = wk.t.life
          /\ new.rerun = wk.t.rerun
      BY <1>0, <3>1 DEF TaskObject
    <3>3. Save(new, next) /\ next \in PC \ {"schedule", "record", "strip"}
      BY <2>3 DEF WriteStatus, phase, PC
    <3> QED BY <3>2, <3>3
  <2>4. CASE ReleaseTask
    <3>1. [wk.t EXCEPT !.finalizer = FALSE, !.life = "gone"] \in TaskObject
      BY <1>0 DEF TaskObject
    <3> QED BY <1>0, <2>4, <3>1 DEF ReleaseTask, TaskObject, PC
  <2> QED BY <2>1, <2>2, <2>3, <2>4
<1>4. PICK new \in TaskObject, next \in PC \ {"schedule", "record", "strip"} :
          /\ Save(new, next)
          /\ new.runs = wk.t.runs /\ new.spec = wk.t.spec
          /\ new.life = "live" => wk.t.life = "live" /\ new.rerun = wk.t.rerun
  BY <1>3
<1>5. RanAsIs(new)
  BY <1>0, <1>4 DEF RanAsIs
<1>6. Objects'
  BY <1>2, <1>4, <1>5, SaveObjects
<1>7. StripAnswered' /\ RerunNotForgotten'
  BY <1>2, <1>4, SaveReruns
<1> QED BY <1>1, <1>6, <1>7

\* The run is recorded; if it answers the annotation, the request is served
\* and the annotation is what the pass strips next.
LEMMA RecordStep == ASSUME IInv, RecordRun PROVE IInv'
<1> USE Parts
<1> DEFINE next == IF wk.trigger = "annotation" THEN "strip" ELSE "final"
<1>0. wk \in Worker /\ RanAsIs(wk.t) /\ wk.t \in TaskObject
  BY DEF Objects, Worker
<1>1. Save(wk.t, next) /\ UNCHANGED cache /\ wk.pc = "record"
  BY DEF RecordRun
<1>2. Objects'
  BY <1>0, <1>1, SaveObjects DEF PC
<1>3. Counters'
  BY <1>0 DEF RecordRun, Counters, Worker, uyuni
<1>4. CASE Conflict
  <2>1. wk' = Idle /\ obj' = obj /\ unserved' = unserved
    BY <1>1, <1>4 DEF Save, RecordRun, Counters
  <2> QED BY <1>2, <1>3, <2>1 DEF StripAnswered, RerunNotForgotten, Idle
<1>5. CASE ~Conflict
  <2>1. /\ obj = wk.base /\ obj' = wk.t
        /\ unserved' = (unserved /\ wk.trigger # "annotation")
        /\ wk' = [wk EXCEPT !.pc = next, !.t = wk.t, !.base = wk.t, !.ids = {}]
    BY <1>1, <1>5 DEF Save, Conflict, RecordRun
  <2>2. wk'.pc = next
    BY <1>0, <2>1 DEF Worker
  <2>3. StripAnswered'
    <3>1. CASE wk.trigger = "annotation"
      <4>1. wk.t.rerun
        BY <1>1, <3>1 DEF TriggerSeen, Objects
      <4>2. ~unserved'
        BY <2>1, <3>1
      <4> QED BY <2>1, <4>1, <4>2 DEF StripAnswered
    <3>2. CASE wk.trigger # "annotation"
      BY <2>2, <3>2 DEF StripAnswered
    <3> QED BY <3>1, <3>2
  <2>4. RerunNotForgotten'
    BY <2>1 DEF RerunNotForgotten, CopyOfBase, Objects
  <2> QED BY <1>2, <1>3, <2>3, <2>4
<1> QED BY <1>4, <1>5

\* The annotation is stripped: it was answered.
LEMMA StripStep == ASSUME IInv, StripAnnotation PROVE IInv'
<1> USE Parts
<1> DEFINE new == [wk.t EXCEPT !.rerun = FALSE]
<1>0. wk \in Worker /\ RanAsIs(wk.t) /\ wk.t \in TaskObject
  BY DEF Objects, Worker
<1>1. new \in TaskObject /\ new.runs = wk.t.runs /\ new.spec = wk.t.spec
  BY <1>0 DEF TaskObject
<1>2. Save(new, "final") /\ UNCHANGED <<cache, unserved>> /\ wk.pc = "strip"
  BY DEF StripAnnotation, history
<1>3. RanAsIs(new)
  BY <1>0, <1>1 DEF RanAsIs
<1>4. Objects'
  BY <1>1, <1>2, <1>3, SaveObjects DEF PC
<1>5. Counters'
  BY DEF StripAnnotation, Counters, history, uyuni
<1>6. wk'.pc # "strip" /\ ~unserved'
  <2>1. CASE wk' = Idle
    BY <1>2, <2>1 DEF Idle, StripAnswered
  <2>2. CASE wk' = [wk EXCEPT !.pc = "final", !.t = new, !.base = new,
                              !.ids = {}]
    <3>1. wk'.pc = "final"
      BY <1>0, <1>1, <2>2 DEF Worker
    <3> QED BY <1>2, <3>1 DEF StripAnswered
  <2> QED BY <1>2, <2>1, <2>2 DEF Save
<1>7. StripAnswered' /\ RerunNotForgotten'
  BY <1>6 DEF StripAnswered, RerunNotForgotten
<1> QED BY <1>4, <1>5, <1>7

\* The TTL is over: the task is deleted, whatever it looks like by now.
LEMMA ExpireStep == ASSUME IInv, TTLExpired PROVE IInv'
<1> USE Parts
<1>0. obj \in TaskObject /\ RanAsIs(obj)
  BY DEF Objects
<1>1. /\ obj' \in TaskObject /\ obj'.runs = obj.runs /\ obj'.spec = obj.spec
      /\ obj'.rerun = obj.rerun /\ (obj'.life = "live" => obj.life = "live")
  BY <1>0 DEF TTLExpired, Deleted, TaskObject
<1>2. wk' = Idle /\ UNCHANGED <<cache, unserved>>
  BY DEF TTLExpired, history
<1>3. wk' \in Worker /\ wk'.t = NewTask /\ wk'.base = NewTask
      /\ wk'.pc = "idle"
  BY <1>2, IdleType DEF Idle
<1>4. CopyOfBase' /\ TriggerSeen'
  BY <1>3 DEF CopyOfBase, TriggerSeen
<1>5. Objects'
  BY <1>0, <1>1, <1>2, <1>3, <1>4, IdleType DEF Objects, RanAsIs
<1>6. Counters'
  BY DEF TTLExpired, Counters, history, uyuni
<1>7. StripAnswered' /\ RerunNotForgotten'
  BY <1>1, <1>2, <1>3 DEF StripAnswered, RerunNotForgotten
<1> QED BY <1>5, <1>6, <1>7

----------------------------------------------------------------------------
(* The theorems.                                                           *)

\* Every step preserves the invariant.
LEMMA InvariantStep == IInv /\ [Next]_vars => IInv'
<1> SUFFICES ASSUME IInv, [Next]_vars PROVE IInv'
  OBVIOUS
<1>1. CASE UNCHANGED vars
  <2>1. Objects' /\ Counters' /\ StripAnswered' /\ RerunNotForgotten'
    BY <1>1, Parts DEF vars, uyuni, history, Objects, Counters, StripAnswered,
                       RerunNotForgotten, RanAsIs, CopyOfBase, TriggerSeen
  <2> QED BY <2>1, Parts
<1>2. CASE User \/ CacheSync \/ Begin \/ Interrupted \/ TTLExpired
  BY <1>2, UserStep, RestartStep, BeginStep, ExpireStep
<1>3. CASE Pass
  BY <1>3, WriteStep, ReadStep, CallStep, RecordStep, StripStep, UnwrittenStep
     DEF Pass
<1>4. CASE \/ ScheduleRefused
           \/ \E a \in Action, part \in Part : ScheduleReplyLost(a, part)
  BY <1>4, UnwrittenStep
<1>5. CASE \E a \in Action, s \in Server, r \in {"ok", "bad"} :
               FinishAction(a, s, r)
  BY <1>5, FinishStep
<1> QED BY <1>1, <1>2, <1>3, <1>4, <1>5 DEF Next

\* TypeOK is an invariant of the task reconciler.
THEOREM TaskTypeOK == Spec => []TypeOK
<1>1. IInv => TypeOK
  BY DEF IInv
<1> QED BY <1>1, InvariantInit, InvariantStep, PTL DEF Spec

\* Every run on record ran the spec the task has now: an edit that the webhook
\* admits because no run is recorded makes the write of that run conflict.
THEOREM TaskHistoryMatchesSpec == Spec => []HistoryMatchesSpec
<1>1. IInv => HistoryMatchesSpec
  BY DEF IInv, HistoryMatchesSpec
<1> QED BY <1>1, InvariantInit, InvariantStep, PTL DEF Spec

\* A requested rerun stays marked on the task until a run that answers it is
\* on record: the run is made durable before the annotation is stripped.
THEOREM TaskRerunNotForgotten == Spec => []RerunNotForgotten
<1>1. IInv => RerunNotForgotten
  BY DEF IInv
<1> QED BY <1>1, InvariantInit, InvariantStep, PTL DEF Spec

----------------------------------------------------------------------------
(* RunsDoNotOverlap and DeletionCancels.  A run is given a terminal phase    *)
(* only after every action of it was seen to be over, and no action opens    *)
(* again: so whatever is open belongs to a run some copy still calls active. *)

\* Every action of a run is known to Uyuni, and over once the run is terminal.
FinishedIn(t, known, open) ==
    \A i \in DOMAIN t.runs :
        /\ t.runs[i].ids \subseteq known
        /\ Active(t.runs[i]) \/ t.runs[i].ids \cap open = {}

Over(t, open) == \A i \in DOMAIN t.runs : t.runs[i].ids \cap open = {}

Truthful ==
    /\ FinishedIn(obj, used, OpenActions) /\ FinishedIn(cache, used, OpenActions)
    /\ FinishedIn(wk.t, used, OpenActions)
    /\ FinishedIn(wk.base, used, OpenActions)

\* A pass changes the phases of the runs it has read, never their actions.
SameIds(t, b) == /\ DOMAIN t.runs = DOMAIN b.runs
                 /\ \A i \in DOMAIN t.runs : t.runs[i].ids = b.runs[i].ids

\* What the pass has scheduled, and what it had read before it did.
Scheduling == {"schedule", "record"}
Holding ==
    /\ wk.ids \subseteq used
    /\ wk.pc \notin Scheduling => wk.ids = {}
    /\ wk.pc # "record" => SameIds(wk.t, wk.base)
    /\ wk.pc \in Scheduling => Over(wk.base, OpenActions)
    /\ wk.pc = "record" => LatestIds(wk.t) = wk.ids

\* While no open system was seen, the actions read so far are over.
Reading ==
    wk.pc \in {"completed", "failed", "inProgress"} =>
        /\ wk.i \in DOMAIN wk.t.runs
        /\ "open" \notin wk.seen =>
             (wk.t.runs[wk.i].ids \ wk.unread) \cap OpenActions = {}

\* The steps of a pass that run without the finalizer.
Unguarded == {"idle", "finalizer", "cancel", "release"}

\* The cache and the pass never run ahead of the task's life: a task whose
\* finalizer was seen goes only through a pass that saw it being deleted.
Life ==
    /\ cache.life = "live" /\ cache.finalizer =>
         obj.finalizer /\ obj.life # "gone"
    /\ cache.life = "deleting" => obj.life # "live"
    /\ cache.life = "gone" => obj.life = "gone"
    /\ wk.pc # "idle" => wk.base.life # "gone"
    /\ wk.pc \notin Unguarded =>
         obj.finalizer /\ obj.life # "gone" /\ wk.t.finalizer
    /\ wk.pc \in {"cancel", "release"} =>
         cache.life # "live" /\ wk.t = wk.base /\ wk.t.life = "deleting"
    /\ ~obj.finalizer => obj.runs = << >> \/ obj.life = "gone"
    /\ wk.pc = "release" => RecordedOpen(wk.t) \cap OpenActions \subseteq kept

\* The first half of RunsDoNotOverlap; the second follows from Holding.
OneOpen == obj.life # "gone" =>
              OpenActions \ (orphan \cup wk.ids) \subseteq LatestIds(obj)

RInv == Truthful /\ Holding /\ Reading /\ Life /\ OneOpen /\ DeletionCancels

\* Actions never open again.
Aged == used \subseteq used' /\ OpenActions' \cap used \subseteq OpenActions

----------------------------------------------------------------------------
(* Operators.                                                              *)

\* What was over stays over.
LEMMA StaysFinished ==
    ASSUME NEW t, NEW known, NEW open, NEW known2, NEW open2,
           FinishedIn(t, known, open), known \subseteq known2,
           open2 \cap known \subseteq open
    PROVE  /\ FinishedIn(t, known2, open2)
           /\ Over(t, open) => Over(t, open2)
BY DEF FinishedIn, Over

\* The runs decide, whatever else differs between two tasks.
LEMMA RunsDecide ==
    ASSUME NEW t, NEW b, t.runs = b.runs
    PROVE  /\ \A known, open : FinishedIn(t, known, open) <=> FinishedIn(b, known, open)
           /\ LatestIds(t) = LatestIds(b) /\ RecordedOpen(t) = RecordedOpen(b)
           /\ SameIds(t, b)
BY DEF FinishedIn, LatestIds, RecordedOpen, ActiveRuns, SameIds

\* An empty history: nothing to finish, nothing open.
LEMMA EmptyHistory ==
    ASSUME NEW t, t.runs = << >>
    PROVE  /\ \A known, open : FinishedIn(t, known, open)
           /\ LatestIds(t) = {}
BY DEF FinishedIn, LatestIds

\* Refreshed phases lose no open action of the latest run.
LEMMA LatestRefreshed ==
    ASSUME NEW t \in TaskObject, NEW b \in TaskObject, NEW known, NEW open,
           SameIds(t, b), FinishedIn(t, known, open)
    PROVE  open \cap LatestIds(b) \subseteq LatestIds(t)
<1>1. t.runs \in Seq(TaskRun) /\ b.runs \in Seq(TaskRun)
  BY DEF TaskObject
<1>2. Len(t.runs) = Len(b.runs)
  BY <1>1 DEF SameIds
<1>3. CASE b.runs = << >>
  BY <1>3 DEF LatestIds
<1>4. CASE b.runs # << >>
  <2> DEFINE n == Len(b.runs)
  <2>1. n \in DOMAIN t.runs /\ t.runs # << >>
    BY <1>1, <1>2, <1>4
  <2>2. t.runs[n].ids = b.runs[n].ids
    BY <2>1 DEF SameIds
  <2>3. Active(t.runs[n]) \/ t.runs[n].ids \cap open = {}
    BY <2>1 DEF FinishedIn
  <2>4. LatestIds(b) \subseteq b.runs[n].ids
    BY DEF LatestIds
  <2>5. Active(t.runs[n]) => LatestIds(t) = t.runs[n].ids
    BY <1>2, <2>1 DEF LatestIds
  <2> HIDE DEF n
  <2> QED BY <2>2, <2>3, <2>4, <2>5
<1> QED BY <1>3, <1>4

\* The latest run is one of the recorded ones.
LEMMA LatestRecorded ==
    ASSUME NEW t \in TaskObject
    PROVE  LatestIds(t) \subseteq RecordedOpen(t)
<1>1. t.runs \in Seq(TaskRun)
  BY DEF TaskObject
<1>2. CASE t.runs = << >> \/ ~Active(t.runs[Len(t.runs)])
  BY <1>2 DEF LatestIds
<1>3. CASE ~(t.runs = << >> \/ ~Active(t.runs[Len(t.runs)]))
  <2>1. Len(t.runs) \in ActiveRuns(t)
    BY <1>1, <1>3 DEF ActiveRuns
  <2>2. LatestIds(t) = t.runs[Len(t.runs)].ids
    BY <1>3 DEF LatestIds
  <2> QED BY <2>1, <2>2 DEF RecordedOpen
<1> QED BY <1>2, <1>3

\* Where a pass goes on to after refreshing: the next active run, unread as
\* yet, or a new run if no run is active any more.
LEMMA RefreshingGoesOn ==
    ASSUME NEW w \in Worker
    PROVE  LET v == Refreshing(w)
           IN /\ v.pc = "completed" =>
                   /\ v.i \in DOMAIN w.t.runs
                   /\ v.unread = w.t.runs[v.i].ids
              /\ v.pc = "schedule" =>
                   \A i \in DOMAIN w.t.runs : ~Active(w.t.runs[i])
<1> DEFINE later == {i \in ActiveRuns(w.t) : i > w.i}
           next == CHOOSE i \in later : \A j \in later : i <= j
           last == [w EXCEPT !.unread = {}, !.seen = {}]
<1>1. CASE later = {}
  <2>1. last \in Worker /\ last.t = w.t
    BY DEF Worker
  <2>2. Refreshing(w) = Decided(last)
    BY <1>1 DEF Refreshing
  <2>3. Decided(last).pc \in {"schedule", "final"}
    BY <2>1 DEF Decided, Schedules, Worker
  <2>4. Decided(last).pc = "schedule" => ~hasActiveRun(w.t)
    BY <2>1 DEF Decided, Schedules, Worker
  <2> HIDE DEF last
  <2> QED BY <2>2, <2>3, <2>4 DEF hasActiveRun, ActiveRuns
<1>2. CASE later # {}
  <2>1. w.t.runs \in Seq(TaskRun)
    BY DEF Worker, TaskObject
  <2>2. later \subseteq DOMAIN w.t.runs /\ DOMAIN w.t.runs \subseteq Nat
    BY <2>1 DEF ActiveRuns
  <2>3. next \in later
    <3>1. \E i \in later : \A j \in later : i <= j
      BY <1>2, <2>2, SmallestExists
    <3> QED BY <3>1
  <2>4. Refreshing(w) = [w EXCEPT !.pc = "completed", !.i = next,
                           !.unread = w.t.runs[next].ids, !.seen = {}]
    BY <1>2 DEF Refreshing
  <2> HIDE DEF later, next
  <2>5. /\ Refreshing(w).pc = "completed" /\ Refreshing(w).i = next
        /\ Refreshing(w).unread = w.t.runs[next].ids
    BY <2>4 DEF Worker
  <2> QED BY <2>2, <2>3, <2>5
<1> QED BY <1>1, <1>2

\* A scheduled run becomes the latest one of the trimmed history.
LEMMA RunAddedLast ==
    ASSUME NEW runs \in Seq(TaskRun), NEW run \in TaskRun
    PROVE  LET new == Trimmed(Append(runs, run))
           IN /\ new \in Seq(TaskRun) /\ Len(new) > 0
              /\ new[Len(new)] = run
              /\ \A i \in DOMAIN new :
                    new[i] = run \/ \E j \in DOMAIN runs : new[i] = runs[j]
<1> DEFINE more == Append(runs, run)
<1>1. more \in Seq(TaskRun) /\ Len(more) = Len(runs) + 1 /\ Len(runs) \in Nat
  OBVIOUS
<1>2. /\ more[Len(more)] = run
      /\ \A i \in 1..Len(more) :
            more[i] = run \/ \E j \in DOMAIN runs : more[i] = runs[j]
  OBVIOUS
<1>3. CASE ~(Len(more) > maxRunHistory)
  BY <1>1, <1>2, <1>3 DEF Trimmed
<1>4. CASE Len(more) > maxRunHistory
  <2> DEFINE low == Len(more) - maxRunHistory + 1
             new == SubSeq(more, low, Len(more))
  <2>1. low \in 1..Len(more)
    BY <1>1, <1>4, HistoryAssumption
  <2> HIDE DEF more
  <2>2. /\ new \in Seq(TaskRun) /\ Len(new) = Len(more) - low + 1
        /\ \A i \in 1..Len(new) : new[i] = more[low + i - 1]
    BY <1>1, <2>1
  <2>3. Len(new) > 0 /\ new[Len(new)] = more[Len(more)]
    BY <1>1, <2>1, <2>2
  <2>4. \A i \in 1..Len(new) : low + i - 1 \in 1..Len(more)
    BY <1>1, <2>1, <2>2
  <2>5. Trimmed(more) = new
    BY <1>4 DEF Trimmed
  <2> HIDE DEF new, low
  <2>6. /\ DOMAIN new = 1..Len(new)
    BY <2>2
  <2> QED BY <1>2, <2>2, <2>3, <2>4, <2>5, <2>6, ZenonT(60) DEF more
<1> QED BY <1>3, <1>4

----------------------------------------------------------------------------
(* Uyuni's side of a step.                                                 *)

\* Only what Uyuni has numbered can be open.
LEMMA OpenIsUsed == OpenActions \subseteq used
BY DEF OpenActions

\* A scheduled action is a new one.
LEMMA SchedulingAges ==
    ASSUME IInv, NEW a \in Action, NEW part, Scheduled(a, part)
    PROVE  Aged /\ a \notin used /\ used' = used \cup {a}
<1>1. a \notin used /\ used' = used \cup {a}
  BY DEF Scheduled
<1>2. \A b \in Action : b # a => acts'[b] = acts[b]
  BY DEF Scheduled, IInv, TypeOK
<1>3. OpenActions' \cap used \subseteq OpenActions
  BY <1>1, <1>2 DEF OpenActions, Reports, IInv, TypeOK
<1> QED BY <1>1, <1>3 DEF Aged

\* Finishing and cancelling only close.
LEMMA ClosingAges ==
    ASSUME IInv, UNCHANGED used,
           \/ UNCHANGED acts \/ CancelActions
           \/ \E a \in Action, s \in Server, r \in {"ok", "bad"} :
                 FinishAction(a, s, r)
    PROVE  Aged /\ OpenActions' \subseteq OpenActions
<1>t. acts \in [Action -> [Server -> {"none", "open", "ok", "bad"}]]
      /\ used \subseteq Action
  BY DEF IInv, TypeOK
<1>1. \A b \in Action, q \in Server : acts'[b][q] = "open" => acts[b][q] = "open"
  <2>1. CASE UNCHANGED acts
    BY <2>1
  <2>2. CASE CancelActions
    <3> SUFFICES ASSUME NEW b \in Action, NEW q \in Server, acts'[b][q] = "open"
                 PROVE  acts[b][q] = "open"
      OBVIOUS
    <3>1. acts'[b] \in {acts[b], [s \in Server |-> IF acts[b][s] = "open"
                                    THEN "none" ELSE acts[b][s]]}
      BY <2>2 DEF CancelActions
    <3> QED BY <3>1
  <2>3. ASSUME NEW a \in Action, NEW s \in Server, NEW r \in {"ok", "bad"},
               FinishAction(a, s, r)
        PROVE  \A b \in Action, q \in Server :
                  acts'[b][q] = "open" => acts[b][q] = "open"
    BY <1>t, <2>3 DEF FinishAction
  <2> QED BY <2>1, <2>2, <2>3
<1>2. OpenActions' \subseteq OpenActions
  BY <1>t, <1>1 DEF OpenActions, Reports
<1> QED BY <1>2 DEF Aged

----------------------------------------------------------------------------
(* Steps that do not write the task for the pass.                          *)

\* The user or the TTL: the runs stay, and a live task may be deleted.
LEMMA EditsKeepRuns ==
    ASSUME IInv, RInv, User \/ TTLExpired PROVE RInv'
<1>0. obj \in TaskObject
  BY DEF IInv, TypeOK
<1>1. /\ UNCHANGED <<cache, acts, used, orphan, kept>>
      /\ wk' = wk \/ wk' = Idle
      /\ wk' = Idle => wk.pc \notin Scheduling \/ wk = Idle
  BY DEF User, EditSpec, EditTTL, AskRerun, DeleteTask, AskForceDelete,
         TTLExpired, uyuni, history, Scheduling
<1>2. /\ obj'.runs = obj.runs /\ obj'.finalizer = obj.finalizer
      /\ \/ obj'.life = obj.life
         \/ obj.life = "live" /\ obj.finalizer /\ obj'.life = "deleting"
         \/ obj.life = "live" /\ ~obj.finalizer /\ obj'.life = "gone"
  BY <1>0 DEF User, EditSpec, EditTTL, AskRerun, DeleteTask, AskForceDelete,
              TTLExpired, Deleted, TaskObject
<1>3. OpenActions' = OpenActions
  BY <1>1 DEF OpenActions, Reports
<1>4. /\ Idle.pc = "idle" /\ Idle.ids = {} /\ Idle.t = Idle.base
      /\ Idle.t.runs = << >> /\ Idle.base.runs = << >>
  BY DEF Idle, NewTask
<1>5. Truthful'
  <2>1. FinishedIn(obj', used, OpenActions)
    BY <1>2, RunsDecide DEF RInv, Truthful
  <2>2. /\ FinishedIn(wk'.t, used, OpenActions)
        /\ FinishedIn(wk'.base, used, OpenActions)
    BY <1>1, <1>4, EmptyHistory DEF RInv, Truthful
  <2> QED BY <1>1, <1>3, <2>1, <2>2 DEF RInv, Truthful
<1>6. Holding' /\ wk'.ids = wk.ids
  <2>1. CASE wk' = wk
    BY <1>1, <1>3, <2>1 DEF RInv, Holding
  <2>2. CASE wk' = Idle
    <3>1. wk'.ids = wk.ids
      BY <1>1, <1>4, <2>2 DEF RInv, Holding
    <3>2. SameIds(wk'.t, wk'.base)
      BY <1>4, <2>2, RunsDecide
    <3> QED BY <1>4, <2>2, <3>1, <3>2 DEF Holding, Scheduling
  <2> QED BY <1>1, <2>1, <2>2
<1>7. Reading'
  BY <1>1, <1>3, <1>4 DEF RInv, Reading
<1>8. Life'
  BY <1>1, <1>2, <1>3, <1>4 DEF RInv, Life, Unguarded
<1>9. LatestIds(obj') = LatestIds(obj)
  BY <1>2, RunsDecide
<1>10. OneOpen'
  BY <1>1, <1>2, <1>3, <1>6, <1>9 DEF RInv, OneOpen
<1>11. DeletionCancels'
  <2> SUFFICES ASSUME obj'.life = "gone" PROVE OpenActions' \subseteq orphan' \cup kept'
    BY DEF DeletionCancels
  <2>1. CASE obj.life = "gone"
    BY <1>1, <1>3, <2>1 DEF RInv, DeletionCancels
  <2>2. CASE obj.life = "live" /\ ~obj.finalizer
    <3>1. obj.runs = << >> /\ wk.ids = {}
      BY <2>2 DEF RInv, Life, Holding, Unguarded, Scheduling
    <3>2. LatestIds(obj) = {}
      BY <3>1, EmptyHistory
    <3> QED BY <1>1, <1>3, <2>2, <3>1, <3>2 DEF RInv, OneOpen
  <2> QED BY <1>2, <2>1, <2>2
<1> QED BY <1>5, <1>6, <1>7, <1>8, <1>10, <1>11 DEF RInv

\* The informer catches up, a pass is cut short or ends, or Uyuni goes on.
LEMMA RestartKeepsRuns ==
    ASSUME IInv, RInv,
           \/ CacheSync \/ Interrupted \/ TTLNotYet
           \/ \E a \in Action, s \in Server, r \in {"ok", "bad"} :
                 FinishAction(a, s, r)
    PROVE  RInv'
<1>1. /\ UNCHANGED <<obj, used, kept>> /\ cache' \in {cache, obj}
      /\ \/ wk' = wk /\ orphan' = orphan
         \/ wk' = Idle /\ orphan' = orphan \cup wk.ids
  BY DEF CacheSync, Interrupted, TTLNotYet, FinishAction, uyuni, history,
         RInv, Holding, Scheduling
<1>2. Aged /\ OpenActions' \subseteq OpenActions
  BY <1>1, ClosingAges DEF CacheSync, Interrupted, TTLNotYet, uyuni
<1>4. /\ Idle.pc = "idle" /\ Idle.ids = {} /\ Idle.t = Idle.base
      /\ Idle.t.runs = << >> /\ Idle.base.runs = << >>
  BY DEF Idle, NewTask
<1>5. Truthful'
  <2>1. /\ FinishedIn(obj', used, OpenActions) /\ FinishedIn(cache', used, OpenActions)
        /\ FinishedIn(wk'.t, used, OpenActions)
        /\ FinishedIn(wk'.base, used, OpenActions)
    BY <1>1, <1>4, EmptyHistory DEF RInv, Truthful
  <2> QED BY <1>1, <1>2, <2>1, StaysFinished DEF Truthful, Aged
<1>6. Holding'
  <2>1. CASE wk' = wk
    <3>1. Over(wk.base, OpenActions) => Over(wk.base, OpenActions')
      BY <1>2 DEF Over
    <3> QED BY <1>1, <2>1, <3>1 DEF RInv, Holding
  <2>2. CASE wk' = Idle
    <3>1. SameIds(wk'.t, wk'.base)
      BY <1>4, <2>2, RunsDecide
    <3> QED BY <1>4, <2>2, <3>1 DEF Holding, Scheduling
  <2> QED BY <1>1, <2>1, <2>2
<1>7. Reading'
  BY <1>1, <1>2, <1>4 DEF RInv, Reading
<1>8. Life'
  <2>1. CASE wk' = wk /\ cache' = cache
    BY <1>1, <1>2, <2>1 DEF RInv, Life
  <2>2. CASE wk' = wk /\ cache' = obj
    <3>1. wk.pc \in {"cancel", "release"} => obj.life # "live"
      BY DEF RInv, Life, IInv, TypeOK, TaskObject
    <3> QED BY <1>1, <1>2, <2>2, <3>1 DEF RInv, Life
  <2>3. CASE wk' = Idle
    BY <1>1, <1>4, <2>3 DEF RInv, Life, Unguarded
  <2> QED BY <1>1, <2>1, <2>2, <2>3
<1>9. OneOpen' /\ DeletionCancels'
  BY <1>1, <1>2, <1>4 DEF RInv, OneOpen, DeletionCancels
<1> QED BY <1>5, <1>6, <1>7, <1>8, <1>9 DEF RInv

----------------------------------------------------------------------------
(* Steps of a pass that write nothing.                                     *)

\* A pass starts on the copy the informer has.
LEMMA BeginKeepsRuns == ASSUME IInv, RInv, Begin PROVE RInv'
<1> DEFINE w == [Idle EXCEPT !.t = cache, !.base = cache]
<1>0. cache \in TaskObject /\ cache.life # "gone"
  BY DEF IInv, TypeOK, Begin
<1>1. /\ w \in Worker /\ w.t = cache /\ w.base = cache /\ w.ids = {}
      /\ w.seen = {}
  BY <1>0, IdleType DEF Idle, Worker
<1>2. Kept(w, Refreshing(w))
  BY <1>1, RefreshingKeeps
<1>3. LET v == Refreshing(w)
      IN /\ v.pc = "completed" =>
              v.i \in DOMAIN w.t.runs /\ v.unread = w.t.runs[v.i].ids
         /\ v.pc = "schedule" => \A i \in DOMAIN w.t.runs : ~Active(w.t.runs[i])
  BY <1>1, RefreshingGoesOn
<1>4. UNCHANGED <<obj, cache, acts, used, orphan, kept>> /\ wk' = Started(cache)
      /\ wk.pc = "idle"
  BY DEF Begin, uyuni, history
<1>5. /\ wk'.t = cache /\ wk'.base = cache /\ wk'.ids = {}
      /\ wk'.pc \in {"cancel", "finalizer", "completed", "schedule", "final"}
      /\ wk'.pc = "cancel" <=> cache.life = "deleting"
      /\ wk'.pc \in {"completed", "schedule", "final"} => cache.finalizer
      /\ wk'.pc = "completed" => /\ wk'.i \in DOMAIN cache.runs
                                 /\ wk'.unread = cache.runs[wk'.i].ids
      /\ wk'.pc = "schedule" =>
           \A i \in DOMAIN cache.runs : ~Active(cache.runs[i])
  <2>1. CASE cache.life = "deleting"
    BY <1>1, <1>4, <2>1 DEF Started, Worker
  <2>2. CASE cache.life # "deleting" /\ ~cache.finalizer
    BY <1>1, <1>4, <2>2 DEF Started, Worker
  <2>3. CASE cache.life # "deleting" /\ cache.finalizer
    <3>1. wk' = Refreshing(w)
      BY <1>4, <2>3 DEF Started
    <3> HIDE DEF w
    <3> QED BY <1>1, <1>2, <1>3, <2>3, <3>1 DEF Kept
  <2> QED BY <2>1, <2>2, <2>3
<1>6. OpenActions' = OpenActions
  BY <1>4 DEF OpenActions, Reports
<1>7. Truthful'
  BY <1>4, <1>5, <1>6 DEF RInv, Truthful
<1>8. Holding'
  <2>1. SameIds(wk'.t, wk'.base)
    BY <1>5, RunsDecide
  <2>2. wk'.pc = "schedule" => Over(wk'.base, OpenActions)
    BY <1>5 DEF RInv, Truthful, FinishedIn, Over
  <2> QED BY <1>5, <1>6, <2>1, <2>2 DEF Holding, Scheduling
<1>9. Reading'
  BY <1>5 DEF Reading
<1>10. Life'
  BY <1>0, <1>4, <1>5, <1>6 DEF RInv, Life, Unguarded, TaskObject
<1>11. wk.ids = {}
  BY <1>4 DEF RInv, Holding, Scheduling
<1>12. OneOpen' /\ DeletionCancels'
  BY <1>4, <1>5, <1>6, <1>11 DEF RInv, OneOpen, DeletionCancels
<1> QED BY <1>7, <1>8, <1>9, <1>10, <1>12 DEF RInv

\* A step of a pass that leaves the task, the cache and Uyuni alone, with the
\* run in hand and the finalizer seen.
LEMMA ReadForm ==
    ASSUME IInv, RInv, UNCHANGED <<obj, cache, acts, used, orphan, kept>>,
           wk.pc \in {"completed", "failed", "inProgress"},
           wk'.pc \notin Unguarded \cup {"record"},
           wk'.base = wk.base, wk'.ids = wk.ids,
           SameIds(wk'.t, wk.t), wk'.t.finalizer = wk.t.finalizer,
           FinishedIn(wk'.t, used, OpenActions),
           wk'.pc = "schedule" => Over(wk'.t, OpenActions),
           Reading'
    PROVE  RInv'
<1>1. OpenActions' = OpenActions
  BY DEF OpenActions, Reports
<1>2. Truthful'
  BY <1>1 DEF RInv, Truthful
<1>3. SameIds(wk'.t, wk'.base)
  BY DEF RInv, Holding, SameIds
<1>4. Holding'
  <2>1. wk.ids = {}
    BY DEF RInv, Holding, Scheduling
  <2>2. wk'.pc = "schedule" => Over(wk'.base, OpenActions)
    BY <1>3 DEF Over, SameIds
  <2> QED BY <1>1, <1>3, <2>1, <2>2 DEF Holding, Scheduling
<1>5. Life'
  BY <1>1 DEF RInv, Life, Unguarded
<1>6. OneOpen' /\ DeletionCancels'
  BY <1>1 DEF RInv, OneOpen, DeletionCancels
<1> QED BY <1>2, <1>4, <1>5, <1>6 DEF RInv

\* The three calls that read how an action stands.
LEMMA ReadsKeepRuns ==
    ASSUME IInv, RInv, ReadCompleted \/ ReadFailed \/ ReadInProgress
    PROVE  RInv'
<1>0. /\ wk \in Worker /\ wk.t \in TaskObject /\ wk.t.runs \in Seq(TaskRun)
      /\ UNCHANGED <<obj, cache, acts, used, orphan, kept>>
      /\ wk.pc \in {"completed", "failed", "inProgress"}
  BY DEF IInv, TypeOK, Worker, TaskObject, ReadCompleted, ReadFailed,
         ReadInProgress, uyuni, history
<1>s. SameIds(wk.t, wk.t) /\ FinishedIn(wk.t, used, OpenActions)
  BY DEF SameIds, RInv, Truthful
<1>i. /\ wk.i \in DOMAIN wk.t.runs
      /\ "open" \notin wk.seen =>
            (wk.t.runs[wk.i].ids \ wk.unread) \cap OpenActions = {}
  BY <1>0 DEF RInv, Reading
<1>o. OpenActions' = OpenActions
  BY <1>0 DEF OpenActions, Reports
<1>1. CASE ReadCompleted \/ ReadFailed
  <2>1. /\ wk'.t = wk.t /\ wk'.base = wk.base /\ wk'.ids = wk.ids
        /\ wk'.i = wk.i /\ wk'.unread = wk.unread
        /\ "open" \in wk.seen => "open" \in wk'.seen
        /\ wk'.pc \in {"failed", "inProgress"}
    <3>1. CASE ReadCompleted
      <4>1. PICK a \in wk.unread :
              wk' = [wk EXCEPT !.pc = "failed", !.cur = {a},
                               !.seen = IF Reports({a}, "ok") THEN @ \cup {"ok"}
                                        ELSE @]
        BY <3>1 DEF ReadCompleted
      <4> QED BY <1>0, <4>1 DEF Worker
    <3>2. CASE ReadFailed
      BY <1>0, <3>2 DEF ReadFailed, Worker
    <3> QED BY <1>1, <3>1, <3>2
  <2>2. Reading'
    BY <1>i, <1>o, <2>1 DEF Reading
  <2> QED BY <1>0, <1>s, <2>1, <2>2, ReadForm DEF Unguarded
<1>2. CASE ReadInProgress
  <2> DEFINE seen == IF Reports(wk.cur, "open") THEN wk.seen \cup {"open"}
                     ELSE wk.seen
             left == wk.unread \ wk.cur
             read == [wk EXCEPT !.seen = seen, !.unread = left, !.cur = {},
                                !.pc = "completed"]
             w == [read EXCEPT !.t.runs[wk.i].phase = PhaseOf(seen)]
  <2>1. "open" \notin seen =>
          (wk.t.runs[wk.i].ids \ left) \cap OpenActions = {}
    <3>1. ~Reports(wk.cur, "open") => wk.cur \cap OpenActions = {}
      BY DEF OpenActions, Reports
    <3> QED BY <1>i, <3>1
  <2>2. seen \in SUBSET {"ok", "bad", "open"}
    BY <1>0 DEF Worker
  <2>3. read \in Worker /\ read.t = wk.t /\ read.base = wk.base
        /\ read.ids = wk.ids /\ read.i = wk.i /\ read.unread = left
        /\ read.seen = seen /\ read.pc = "completed"
    <3> HIDE DEF seen
    <3> QED BY <1>0, <2>2 DEF Worker, PC
  <2>4. CASE left # {}
    <3>1. wk' = read
      BY <1>2, <2>4 DEF ReadInProgress
    <3> HIDE DEF read, seen, left
    <3>2. Reading'
      BY <1>i, <1>o, <2>1, <2>3, <3>1 DEF Reading
    <3>3. /\ wk'.t = wk.t /\ wk'.base = wk.base /\ wk'.ids = wk.ids
          /\ wk'.pc = "completed"
      BY <2>3, <3>1
    <3> QED BY <1>0, <1>s, <3>2, <3>3, ReadForm DEF Unguarded
  <2>5. CASE left = {}
    <3> DEFINE runs == [wk.t.runs EXCEPT ![wk.i].phase = PhaseOf(seen)]
    <3>1. PhaseOf(seen) \in RunPhase /\ (Active([phase |-> PhaseOf(seen)]) \/ "open" \notin seen)
      BY DEF PhaseOf, RunPhase, Active
    <3>2. wk.i \in Nat
      BY <1>0 DEF Worker
    <3>3. runs \in Seq(TaskRun) /\ DOMAIN runs = DOMAIN wk.t.runs
      BY <1>0, <3>1, <3>2, PhaseSet
    <3>4. /\ \A j \in DOMAIN wk.t.runs : runs[j].ids = wk.t.runs[j].ids
          /\ \A j \in DOMAIN wk.t.runs : j # wk.i => runs[j] = wk.t.runs[j]
          /\ runs[wk.i].phase = PhaseOf(seen)
      <4> HIDE DEF seen
      <4>1. \A j \in DOMAIN wk.t.runs : wk.t.runs[j] \in TaskRun
        BY <1>0
      <4> QED BY <1>i, <4>1 DEF TaskRun
    <3>5. w.t = [wk.t EXCEPT !.runs = runs] /\ w.base = wk.base /\ w.ids = wk.ids
      <4> HIDE DEF left, seen
      <4> QED BY <1>0, <2>3 DEF Worker, TaskObject
    <3>6. w.t.runs = runs /\ w.t \in TaskObject /\ w.t.finalizer = wk.t.finalizer
      <4> HIDE DEF runs, w
      <4> QED BY <1>0, <3>3, <3>5 DEF TaskObject
    <3>7. w \in Worker
      <4>1. w = [read EXCEPT !.t = w.t]
        BY <1>0, <2>3 DEF Worker, TaskObject
      <4> HIDE DEF w, read
      <4> QED BY <2>3, <3>6, <4>1 DEF Worker
    <3>8. wk' = Refreshing(w)
      BY <1>2, <2>5 DEF ReadInProgress
    <3> HIDE DEF runs, w, read
    <3>9. SameIds(w.t, wk.t)
      BY <3>3, <3>4, <3>6 DEF SameIds
    <3>10. FinishedIn(w.t, used, OpenActions)
      <4>1. "open" \notin seen => wk.t.runs[wk.i].ids \cap OpenActions = {}
        <5>1. wk.t.runs[wk.i].ids \ left = wk.t.runs[wk.i].ids
          BY <2>5
        <5> HIDE DEF left, seen
        <5> QED BY <2>1, <5>1
      <4> HIDE DEF seen, left
      <4>2. runs[wk.i].ids = wk.t.runs[wk.i].ids
        BY <1>i, <3>4
      <4>3. Active(runs[wk.i]) \/ runs[wk.i].ids \cap OpenActions = {}
        BY <3>1, <3>4, <4>1, <4>2 DEF Active
      <4> QED BY <1>i, <1>s, <3>3, <3>4, <3>6, <4>2, <4>3 DEF FinishedIn
    <3>11. Kept(w, Refreshing(w))
      BY <3>7, RefreshingKeeps
    <3>12. /\ wk'.pc = "completed" => /\ wk'.i \in DOMAIN w.t.runs
                                      /\ wk'.unread = w.t.runs[wk'.i].ids
           /\ wk'.pc = "schedule" =>
                \A i \in DOMAIN w.t.runs : ~Active(w.t.runs[i])
      BY <3>7, <3>8, RefreshingGoesOn
    <3>13. /\ wk'.t = w.t /\ wk'.base = wk.base /\ wk'.ids = wk.ids
           /\ wk'.pc \in {"completed", "schedule", "final"}
      BY <3>5, <3>8, <3>11 DEF Kept
    <3>14. Reading'
      BY <3>12, <3>13 DEF Reading
    <3>15. wk'.pc = "schedule" => Over(wk'.t, OpenActions)
      BY <3>10, <3>12, <3>13 DEF FinishedIn, Over
    <3>16. /\ SameIds(wk'.t, wk.t) /\ FinishedIn(wk'.t, used, OpenActions)
           /\ wk'.t.finalizer = wk.t.finalizer
           /\ wk'.pc \notin Unguarded \cup {"record"}
      BY <3>6, <3>9, <3>10, <3>13 DEF Unguarded
    <3> QED BY <1>0, <3>13, <3>14, <3>15, <3>16, ReadForm
  <2> QED BY <2>4, <2>5
<1> QED BY <1>1, <1>2

\* Scheduling: whatever the call opens is in the hands of the pass, and the
\* last call makes it the latest run of the copy in memory.
LEMMA CallKeepsRuns ==
    ASSUME IInv, RInv, NEW a \in Action, NEW part \in Part, ScheduleCall(a, part)
    PROVE  RInv'
<1> DEFINE ids == wk.ids \cup {a}
           todo == wk.todo \ {part}
           run == NewRun(ids)
           runs == Trimmed(Append(wk.t.runs, run))
<1>0. /\ wk \in Worker /\ wk.t \in TaskObject /\ wk.t.runs \in Seq(TaskRun)
      /\ wk.pc = "schedule" /\ UNCHANGED <<obj, cache, orphan, kept>>
  BY DEF IInv, TypeOK, Worker, TaskObject, ScheduleCall, history
<1>1. Aged /\ a \notin used /\ used' = used \cup {a}
  BY SchedulingAges DEF ScheduleCall
<1>2. OpenActions' \subseteq OpenActions \cup {a}
  <2>1. OpenActions' \subseteq used'
    BY DEF OpenActions
  <2> QED BY <1>1, <2>1 DEF Aged
<1>3. wk' = IF todo = {}
            THEN [wk EXCEPT !.ids = ids, !.todo = todo, !.pc = "record",
                            !.t = [wk.t EXCEPT !.runs = runs]]
            ELSE [wk EXCEPT !.ids = ids, !.todo = todo]
  BY <1>0, ZenonT(60) DEF ScheduleCall, Worker, TaskObject
<1>4. run \in TaskRun /\ run.ids = ids /\ Active(run)
  <2>1. /\ Len(wk.t.runs) + 1 \in Nat /\ wk.t.spec \in Nat
        /\ ids \in SUBSET Action /\ wk.trigger \in Trigger
    <3>1. Len(wk.t.runs) + 1 \in Nat
      BY <1>0
    <3>2. wk.t.spec \in Nat
      BY <1>0 DEF TaskObject
    <3>3. wk.ids \in SUBSET Action /\ wk.trigger \in Trigger
      BY <1>0 DEF Worker
    <3> QED BY <3>1, <3>2, <3>3
  <2> HIDE DEF ids
  <2>2. run = [seq |-> Len(wk.t.runs) + 1, ids |-> ids, phase |-> "Pending",
               trigger |-> wk.trigger, spec |-> wk.t.spec]
    BY DEF NewRun
  <2> HIDE DEF run
  <2>3. Active(run)
    BY <2>2 DEF Active
  <2> QED BY <2>1, <2>2, <2>3 DEF TaskRun, RunPhase
<1> HIDE DEF run
<1>5. /\ runs \in Seq(TaskRun) /\ Len(runs) > 0 /\ runs[Len(runs)] = run
      /\ \A i \in DOMAIN runs :
            runs[i] = run \/ \E j \in DOMAIN wk.t.runs : runs[i] = wk.t.runs[j]
  BY <1>0, <1>4, RunAddedLast
<1> HIDE DEF runs, todo
<1>6. /\ wk'.base = wk.base /\ wk'.ids = ids
      /\ wk'.t.finalizer = wk.t.finalizer
      /\ todo # {} => wk'.pc = "schedule" /\ wk'.t = wk.t
      /\ todo = {} => wk'.pc = "record" /\ wk'.t.runs = runs
  BY <1>0, <1>3 DEF Worker, TaskObject
<1>7. /\ FinishedIn(obj, used', OpenActions') /\ FinishedIn(cache, used', OpenActions')
      /\ FinishedIn(wk.t, used', OpenActions')
      /\ FinishedIn(wk.base, used', OpenActions')
  BY <1>1, StaysFinished DEF RInv, Truthful, Aged
<1>8. ids \subseteq used'
  BY <1>1 DEF RInv, Holding
<1>9. FinishedIn(wk'.t, used', OpenActions')
  <2>1. CASE todo # {}
    BY <1>6, <1>7, <2>1
  <2>2. CASE todo = {}
    BY <1>4, <1>5, <1>6, <1>7, <1>8, <2>2 DEF FinishedIn
  <2> QED BY <2>1, <2>2
<1>10. Truthful'
  BY <1>0, <1>6, <1>7, <1>9 DEF Truthful
<1>11. Holding'
  <2>1. Over(wk.base, OpenActions')
    <3>1. Over(wk.base, OpenActions) /\ FinishedIn(wk.base, used, OpenActions)
      BY <1>0 DEF RInv, Truthful, Holding, Scheduling
    <3> QED BY <1>1, <3>1, StaysFinished DEF Aged
  <2>2. todo # {} => SameIds(wk'.t, wk'.base)
    BY <1>0, <1>6 DEF RInv, Holding
  <2>3. todo = {} => LatestIds(wk'.t) = wk'.ids
    BY <1>4, <1>5, <1>6 DEF LatestIds
  <2> QED BY <1>6, <1>8, <2>1, <2>2, <2>3 DEF Holding, Scheduling
<1>12. Reading'
  BY <1>6 DEF Reading
<1>13. Life'
  BY <1>0, <1>6 DEF RInv, Life, Unguarded
<1>14. OneOpen' /\ DeletionCancels'
  BY <1>0, <1>2, <1>6 DEF RInv, OneOpen, DeletionCancels, Life, Unguarded
<1> QED BY <1>10, <1>11, <1>12, <1>13, <1>14 DEF RInv

\* Scheduling fails: what had been scheduled is orphaned.
LEMMA LostKeepsRuns ==
    ASSUME IInv, RInv,
           \/ ScheduleRefused
           \/ \E a \in Action, part \in Part : ScheduleReplyLost(a, part)
    PROVE  RInv'
<1>0. /\ wk \in Worker /\ wk.pc = "schedule" /\ UNCHANGED <<obj, cache, kept>>
      /\ wk' = [wk EXCEPT !.pc = "failTask", !.ids = {}, !.todo = {}]
  BY DEF IInv, TypeOK, ScheduleRefused, ScheduleReplyLost, uyuni
<1>1. /\ wk'.t = wk.t /\ wk'.base = wk.base /\ wk'.ids = {}
      /\ wk'.pc = "failTask"
  BY <1>0 DEF Worker
<1>2. Aged /\ OpenActions' \ orphan' \subseteq OpenActions \ (orphan \cup wk.ids)
  <2>1. CASE ScheduleRefused
    <3>1. Aged /\ OpenActions' \subseteq OpenActions
      BY <2>1, ClosingAges DEF ScheduleRefused, uyuni
    <3> QED BY <2>1, <3>1 DEF ScheduleRefused
  <2>2. ASSUME NEW a \in Action, NEW part \in Part, ScheduleReplyLost(a, part)
        PROVE  Aged /\ OpenActions' \ orphan' \subseteq OpenActions \ (orphan \cup wk.ids)
    <3>1. Aged /\ used' = used \cup {a} /\ orphan' = orphan \cup wk.ids \cup {a}
      BY <2>2, SchedulingAges DEF ScheduleReplyLost
    <3>2. OpenActions' \subseteq used'
      BY DEF OpenActions
    <3> QED BY <3>1, <3>2 DEF Aged
  <2> QED BY <2>1, <2>2
<1>3. Truthful'
  BY <1>0, <1>1, <1>2, StaysFinished DEF RInv, Truthful, Aged
<1>4. Holding' /\ Reading'
  BY <1>0, <1>1 DEF RInv, Holding, Reading, Scheduling
<1>5. Life'
  BY <1>0, <1>1 DEF RInv, Life, Unguarded
<1>6. OneOpen' /\ DeletionCancels'
  BY <1>0, <1>1, <1>2 DEF RInv, OneOpen, DeletionCancels, Life, Unguarded
<1> QED BY <1>3, <1>4, <1>5, <1>6 DEF RInv

\* Every recorded action of an active run is cancelled, or kept on purpose.
LEMMA CancelKeepsRuns == ASSUME IInv, RInv, CancelActions PROVE RInv'
<1>0. /\ wk \in Worker /\ wk.pc = "cancel"
      /\ UNCHANGED <<obj, cache, used, orphan>>
      /\ wk' = [wk EXCEPT !.pc = "release"]
  BY DEF IInv, TypeOK, CancelActions
<1>1. /\ wk'.t = wk.t /\ wk'.base = wk.base /\ wk'.ids = wk.ids
      /\ wk'.pc = "release"
  BY <1>0 DEF Worker
<1>2. Aged /\ OpenActions' \subseteq OpenActions
  BY <1>0, ClosingAges
<1>3. kept \subseteq kept' /\ RecordedOpen(wk.t) \cap OpenActions' \subseteq kept'
  <2>1. PICK missed \in SUBSET RecordedOpen(wk.t) :
           /\ kept' = kept \cup missed
           /\ acts' = [a \in Action |->
                      IF a \in RecordedOpen(wk.t) \ missed
                      THEN [s \in Server |-> IF acts[a][s] = "open" THEN "none"
                                             ELSE acts[a][s]]
                      ELSE acts[a]]
    BY DEF CancelActions
  <2>2. \A a \in Action, s \in Server :
           a \in RecordedOpen(wk.t) \ missed => acts'[a][s] # "open"
    BY <2>1
  <2>3. OpenActions' \cap (RecordedOpen(wk.t) \ missed) = {}
    BY <1>0, <2>2 DEF OpenActions, Reports, IInv, TypeOK
  <2> QED BY <2>1, <2>3
<1>4. Truthful'
  BY <1>0, <1>1, <1>2, StaysFinished DEF RInv, Truthful, Aged
<1>5. Holding' /\ Reading'
  BY <1>0, <1>1 DEF RInv, Holding, Reading, Scheduling
<1>6. Life'
  BY <1>0, <1>1, <1>3 DEF RInv, Life, Unguarded
<1>7. OneOpen' /\ DeletionCancels'
  BY <1>0, <1>1, <1>2, <1>3 DEF RInv, OneOpen, DeletionCancels
<1> QED BY <1>4, <1>5, <1>6, <1>7 DEF RInv

----------------------------------------------------------------------------
(* Writes of a pass.                                                       *)

\* What a write leaves: the stored task is the one in memory, or nothing
\* changed and the pass forgets what it holds.
SavedRuns(new, next) ==
    /\ UNCHANGED <<cache, acts, used, kept>>
    /\ Save(new, next)
    /\ orphan \subseteq orphan' /\ wk.pc \notin {"idle", "schedule"}
    /\ Conflict => orphan' = orphan \cup wk.ids

\* A write that fails because the task has changed.
LEMMA ConflictKeepsRuns ==
    ASSUME IInv, RInv, NEW new, NEW next, SavedRuns(new, next), Conflict
    PROVE  RInv'
<1>1. /\ wk' = Idle /\ obj' = obj /\ UNCHANGED <<cache, acts, used, kept>>
      /\ orphan' = orphan \cup wk.ids
  BY DEF SavedRuns, Save
<1>2. OpenActions' = OpenActions
  BY <1>1 DEF OpenActions, Reports
<1>3. /\ Idle.pc = "idle" /\ Idle.ids = {} /\ Idle.t = Idle.base
      /\ Idle.t.runs = << >> /\ Idle.base.runs = << >>
  BY DEF Idle, NewTask
<1>4. Truthful'
  BY <1>1, <1>2, <1>3, EmptyHistory DEF RInv, Truthful
<1>5. SameIds(wk'.t, wk'.base)
  BY <1>1, <1>3, RunsDecide
<1>6. Holding' /\ Reading'
  BY <1>1, <1>3, <1>5 DEF Holding, Reading, Scheduling
<1>7. Life'
  BY <1>1, <1>2, <1>3 DEF RInv, Life, Unguarded
<1>8. OneOpen' /\ DeletionCancels'
  BY <1>1, <1>2, <1>3 DEF RInv, OneOpen, DeletionCancels
<1> QED BY <1>4, <1>6, <1>7, <1>8 DEF RInv

\* A write that succeeds and leaves the task in the API server.
LEMMA SaveKeepsRuns ==
    ASSUME IInv, RInv, NEW new \in TaskObject, NEW next \in {"idle", "strip", "final", "ttl"},
           SavedRuns(new, next), ~Conflict,
           new.runs = wk.t.runs, new.life = wk.t.life, new.finalizer
    PROVE  RInv'
<1>0. /\ wk \in Worker /\ wk.t \in TaskObject /\ obj \in TaskObject
      /\ wk.pc # "idle" /\ obj = wk.base /\ wk.t.life = wk.base.life
  BY DEF IInv, TypeOK, Worker, SavedRuns, Conflict, CopyOfBase
<1>1. /\ obj' = new /\ UNCHANGED <<cache, acts, used, kept>>
      /\ orphan \subseteq orphan'
  BY DEF SavedRuns, Save
<1>2. OpenActions' = OpenActions
  BY <1>1 DEF OpenActions, Reports
<1>3. /\ Idle.pc = "idle" /\ Idle.ids = {} /\ Idle.t = Idle.base
      /\ Idle.t.runs = << >> /\ Idle.base.runs = << >>
  BY DEF Idle, NewTask
<1>4. /\ wk'.ids = {} /\ wk'.pc = next /\ wk'.t = wk'.base
      /\ \/ next = "idle" /\ wk'.t.runs = << >>
         \/ next # "idle" /\ wk'.t = new
  <2>1. CASE next = "idle"
    BY <1>3, <2>1 DEF SavedRuns, Save
  <2>2. CASE next # "idle"
    <3>1. wk' = [wk EXCEPT !.pc = next, !.t = new, !.base = new, !.ids = {}]
      BY <2>2 DEF SavedRuns, Save
    <3> QED BY <1>0, <2>2, <3>1 DEF Worker
  <2> QED BY <2>1, <2>2
<1>5. /\ FinishedIn(new, used, OpenActions) /\ LatestIds(new) = LatestIds(wk.t)
  BY RunsDecide DEF RInv, Truthful
<1>6. FinishedIn(wk'.t, used, OpenActions)
  BY <1>4, <1>5, EmptyHistory
<1>7. Truthful'
  BY <1>1, <1>2, <1>4, <1>5, <1>6 DEF RInv, Truthful
<1>8. SameIds(wk'.t, wk'.base)
  BY <1>4, RunsDecide
<1>9. Holding' /\ Reading'
  BY <1>4, <1>8 DEF Holding, Reading, Scheduling
<1>10. obj.life # "gone" /\ obj'.life = obj.life
  BY <1>0, <1>1 DEF RInv, Life
<1>11. Life'
  <2>1. cache.life = "gone" => FALSE
    BY <1>10 DEF RInv, Life
  <2> QED BY <1>0, <1>1, <1>2, <1>4, <1>10, <2>1 DEF RInv, Life, Unguarded
<1>12. OpenActions \ orphan \subseteq LatestIds(wk.t)
  <2>1. OpenActions \ (orphan \cup wk.ids) \subseteq LatestIds(obj)
    BY <1>10 DEF RInv, OneOpen
  <2>2. CASE wk.pc = "record"
    <3>1. LatestIds(wk.t) = wk.ids /\ Over(wk.base, OpenActions)
      BY <2>2 DEF RInv, Holding, Scheduling
    <3>2. LatestIds(wk.base) \cap OpenActions = {}
      <4>1. wk.base.runs \in Seq(TaskRun)
        BY <1>0 DEF TaskObject
      <4>2. wk.base.runs # << >> => Len(wk.base.runs) \in DOMAIN wk.base.runs
        BY <4>1
      <4> QED BY <3>1, <4>2 DEF LatestIds, Over
    <3> QED BY <1>0, <2>1, <3>1, <3>2
  <2>3. CASE wk.pc # "record"
    <3>1. SameIds(wk.t, wk.base)
      BY <2>3 DEF RInv, Holding
    <3>2. OpenActions \cap LatestIds(wk.base) \subseteq LatestIds(wk.t)
      BY <1>0, <3>1, LatestRefreshed DEF RInv, Truthful
    <3>3. wk.pc # "schedule" => wk.ids = {}
      BY <2>3 DEF RInv, Holding, Scheduling
    <3>4. CASE wk.pc = "schedule"
      BY <3>4, <1>0 DEF SavedRuns
    <3> QED BY <1>0, <2>1, <3>2, <3>3, <3>4
  <2> QED BY <2>2, <2>3
<1>13. OneOpen' /\ DeletionCancels'
  BY <1>1, <1>2, <1>4, <1>5, <1>10, <1>12 DEF OneOpen, DeletionCancels
<1> QED BY <1>7, <1>9, <1>11, <1>13 DEF RInv

\* The last write removes the finalizer: what is still open was kept or
\* orphaned.
LEMMA ReleaseKeepsRuns == ASSUME IInv, RInv, ReleaseTask PROVE RInv'
<1> DEFINE new == [wk.t EXCEPT !.finalizer = FALSE, !.life = "gone"]
<1>0. wk.t \in TaskObject /\ wk.pc = "release"
  BY DEF IInv, TypeOK, Worker, ReleaseTask
<1>w. wk.ids = {}
  BY <1>0 DEF RInv, Holding, Scheduling
<1>1. SavedRuns(new, "idle") /\ UNCHANGED orphan
  BY <1>0, <1>w DEF ReleaseTask, SavedRuns, uyuni, history
<1>2. CASE Conflict
  BY <1>1, <1>2, ConflictKeepsRuns
<1>3. CASE ~Conflict
  <2>1. /\ obj = wk.t /\ obj' = new /\ wk' = Idle
        /\ UNCHANGED <<cache, acts, used, kept>>
    BY <1>0, <1>1, <1>3 DEF SavedRuns, Save, Conflict, RInv, Life
  <2>2. new.runs = wk.t.runs /\ new.life = "gone" /\ ~new.finalizer
    BY <1>0 DEF TaskObject
  <2> HIDE DEF new
  <2>3. OpenActions' = OpenActions
    BY <2>1 DEF OpenActions, Reports
  <2>4. /\ Idle.pc = "idle" /\ Idle.ids = {} /\ Idle.t = Idle.base
        /\ Idle.t.runs = << >> /\ Idle.base.runs = << >>
    BY DEF Idle, NewTask
  <2>5. Truthful'
    <3>1. FinishedIn(new, used, OpenActions)
      BY <2>2, RunsDecide DEF RInv, Truthful
    <3>2. FinishedIn(Idle.t, used, OpenActions)
      BY <2>4, EmptyHistory
    <3> QED BY <2>1, <2>3, <2>4, <3>1, <3>2 DEF RInv, Truthful
  <2>6. SameIds(wk'.t, wk'.base)
    BY <2>1, <2>4, RunsDecide
  <2>7. Holding' /\ Reading'
    BY <2>1, <2>4, <2>6 DEF Holding, Reading, Scheduling
  <2>8. Life'
    BY <1>0, <2>1, <2>2, <2>4 DEF RInv, Life, Unguarded
  <2>9. DeletionCancels' /\ OneOpen'
    <3>1. obj.life # "gone"
      BY <1>0, <2>1 DEF RInv, Life
    <3>2. OpenActions \ orphan \subseteq RecordedOpen(wk.t)
      BY <1>0, <1>w, <2>1, <3>1, LatestRecorded DEF RInv, OneOpen
    <3>3. RecordedOpen(wk.t) \cap OpenActions \subseteq kept
      BY <1>0 DEF RInv, Life
    <3> QED BY <1>1, <2>1, <2>2, <2>3, <3>2, <3>3 DEF DeletionCancels, OneOpen
  <2> QED BY <2>5, <2>7, <2>8, <2>9 DEF RInv
<1> QED BY <1>2, <1>3

\* The other writes.
LEMMA WritesKeepRuns ==
    ASSUME IInv, RInv,
           AddFinalizer \/ failTask \/ RecordRun \/ StripAnnotation \/ WriteStatus
    PROVE  RInv'
<1>0. wk \in Worker /\ wk.t \in TaskObject
  BY DEF IInv, TypeOK, Worker
<1>1. wk.pc \notin Scheduling => wk.ids = {}
  BY DEF RInv, Holding
<1>2. \E new \in TaskObject, next \in {"idle", "strip", "final", "ttl"} :
         /\ SavedRuns(new, next)
         /\ new.runs = wk.t.runs /\ new.life = wk.t.life /\ new.finalizer
  <2>1. CASE AddFinalizer
    <3> DEFINE new == [wk.t EXCEPT !.finalizer = TRUE]
    <3>1. /\ new \in TaskObject /\ new.runs = wk.t.runs
          /\ new.life = wk.t.life /\ new.finalizer
      BY <1>0 DEF TaskObject
    <3>2. SavedRuns(new, "idle")
      BY <1>1, <2>1 DEF AddFinalizer, SavedRuns, uyuni, history, Scheduling
    <3> HIDE DEF new
    <3> QED BY <3>1, <3>2
  <2>f. wk.pc \notin Unguarded => wk.t.finalizer
    BY DEF RInv, Life
  <2>2. CASE failTask
    <3>1. SavedRuns(wk.t, "idle") /\ wk.t.finalizer
      BY <1>1, <2>2, <2>f DEF failTask, SavedRuns, uyuni, history, Scheduling,
                              Unguarded
    <3> QED BY <1>0, <3>1
  <2>3. CASE RecordRun
    <3> DEFINE next == IF wk.trigger = "annotation" THEN "strip" ELSE "final"
    <3>1. SavedRuns(wk.t, next) /\ wk.t.finalizer
      BY <2>3, <2>f DEF RecordRun, SavedRuns, uyuni, Unguarded
    <3>2. next \in {"idle", "strip", "final", "ttl"}
      OBVIOUS
    <3> HIDE DEF next
    <3> QED BY <1>0, <3>1, <3>2
  <2>4. CASE StripAnnotation
    <3> DEFINE new == [wk.t EXCEPT !.rerun = FALSE]
    <3>1. /\ new \in TaskObject /\ new.runs = wk.t.runs
          /\ new.life = wk.t.life /\ new.finalizer = wk.t.finalizer
      BY <1>0 DEF TaskObject
    <3>2. SavedRuns(new, "final") /\ wk.t.finalizer
      BY <1>1, <2>4, <2>f DEF StripAnnotation, SavedRuns, uyuni, history,
                              Scheduling, Unguarded
    <3> HIDE DEF new
    <3> QED BY <3>1, <3>2
  <2>5. CASE WriteStatus
    <3> DEFINE phase == LatestPhase(wk.t)
               new == [wk.t EXCEPT !.phase = phase, !.observed = wk.t.gen]
               next == IF isTerminalPhase(phase) /\ ~hasActiveRun(wk.t)
                       THEN "ttl" ELSE "idle"
    <3>1. phase \in RunPhase \cup {""}
      <4>1. wk.t.runs \in Seq(TaskRun)
        BY <1>0 DEF TaskObject
      <4>2. CASE wk.t.runs # << >>
        <5>1. wk.t.runs[Len(wk.t.runs)] \in TaskRun
          BY <4>1, <4>2
        <5> QED BY <4>2, <5>1 DEF LatestPhase, TaskRun
      <4> QED BY <4>2 DEF LatestPhase
    <3>2. SavedRuns(new, next) /\ wk.t.finalizer
      BY <1>1, <2>5, <2>f DEF WriteStatus, SavedRuns, uyuni, history,
                              Scheduling, Unguarded
    <3>3. next \in {"idle", "strip", "final", "ttl"}
      OBVIOUS
    <3> HIDE DEF phase, next
    <3>4. /\ new \in TaskObject /\ new.runs = wk.t.runs
          /\ new.life = wk.t.life /\ new.finalizer = wk.t.finalizer
      BY <1>0, <3>1 DEF TaskObject
    <3> HIDE DEF new
    <3> QED BY <3>2, <3>3, <3>4
  <2> QED BY <2>1, <2>2, <2>3, <2>4, <2>5
<1>3. PICK new \in TaskObject, next \in {"idle", "strip", "final", "ttl"} :
         /\ SavedRuns(new, next)
         /\ new.runs = wk.t.runs /\ new.life = wk.t.life /\ new.finalizer
  BY <1>2
<1>4. CASE Conflict
  BY <1>3, <1>4, ConflictKeepsRuns
<1>5. CASE ~Conflict
  BY <1>3, <1>5, SaveKeepsRuns
<1> QED BY <1>4, <1>5

----------------------------------------------------------------------------
(* The theorems on Uyuni's actions.                                        *)

\* Nothing is scheduled at the start.
LEMMA RunsInit == Init => RInv
<1> SUFFICES ASSUME Init PROVE RInv
  OBVIOUS
<1>1. /\ obj.runs = << >> /\ cache.runs = << >> /\ wk.t.runs = << >>
      /\ wk.base.runs = << >> /\ wk.ids = {} /\ wk.pc = "idle"
      /\ obj.life = "live" /\ cache.life = "live" /\ ~cache.finalizer
  BY DEF Init, Idle, NewTask
<1>2. OpenActions = {}
  BY DEF Init, OpenActions
<1>3. Truthful
  BY <1>1, EmptyHistory DEF Truthful
<1>4. SameIds(wk.t, wk.base)
  BY <1>1, RunsDecide
<1>5. Holding /\ Reading
  BY <1>1, <1>4 DEF Holding, Reading, Scheduling
<1>6. Life
  BY <1>1 DEF Life, Unguarded
<1>7. OneOpen /\ DeletionCancels
  BY <1>1, <1>2 DEF OneOpen, DeletionCancels
<1> QED BY <1>3, <1>5, <1>6, <1>7 DEF RInv

\* Every step keeps what is open accounted for.
LEMMA RunsStep == IInv /\ RInv /\ [Next]_vars => RInv'
<1> SUFFICES ASSUME IInv, RInv, [Next]_vars PROVE RInv'
  OBVIOUS
<1>1. CASE UNCHANGED vars
  <2>1. UNCHANGED <<obj, cache, wk, acts, used, orphan, kept>>
    BY <1>1 DEF vars, uyuni, history
  <2>2. OpenActions' = OpenActions
    BY <2>1 DEF OpenActions, Reports
  <2> QED BY <2>1, <2>2 DEF RInv, Truthful, Holding, Reading, Life, OneOpen,
                            DeletionCancels
<1>2. CASE Next
  BY <1>2, EditsKeepRuns, RestartKeepsRuns, BeginKeepsRuns, ReadsKeepRuns,
     CallKeepsRuns, LostKeepsRuns, CancelKeepsRuns, ReleaseKeepsRuns,
     WritesKeepRuns
  DEF Next, Pass
<1> QED BY <1>1, <1>2

\* Both hold together in every reachable state.
LEMMA RunsHold == Spec => []RInv
BY InvariantInit, InvariantStep, RunsInit, RunsStep, PTL DEF Spec

\* What is open in Uyuni belongs to the latest recorded run or to the pass
\* that has just scheduled it, whose version had nothing open, for every
\* number of systems, history length and interleaving with crashes, lost
\* answers and stale reads.
THEOREM TaskRunsDoNotOverlap == Spec => []RunsDoNotOverlap
<1>1. IInv /\ RInv => RunsDoNotOverlap
  <2> SUFFICES ASSUME IInv, RInv PROVE RunsDoNotOverlap
    OBVIOUS
  <2>1. ASSUME wk.ids # {}, ~Conflict
        PROVE  OpenActions \cap LatestIds(obj) = {}
    <3>1. wk.pc \in Scheduling /\ obj = wk.base
      BY <2>1 DEF RInv, Holding, Conflict
    <3>2. Over(obj, OpenActions) /\ obj.runs \in Seq(TaskRun)
      BY <3>1 DEF RInv, Holding, IInv, TypeOK, TaskObject
    <3>3. obj.runs # << >> => Len(obj.runs) \in DOMAIN obj.runs
      BY <3>2
    <3> QED BY <3>2, <3>3 DEF Over, LatestIds
  <2> QED BY <2>1 DEF RInv, OneOpen, RunsDoNotOverlap
<1> QED BY <1>1, InvariantInit, InvariantStep, RunsHold, PTL DEF Spec

\* When the task is gone, only orphaned actions and those whose cancellation
\* failed or was waived are still open.
THEOREM TaskDeletionCancels == Spec => []DeletionCancels
<1>1. RInv => DeletionCancels
  BY DEF RInv
<1> QED BY <1>1, RunsHold, PTL


----------------------------------------------------------------------------
(* Task implements Trigger.  A step either keeps the request as it is, is  *)
(* one of the trigger's four, or ends the life of the task.                *)

Asking == obj.life = "live" /\ obj.rerun
Owing == obj.life = "live" /\ unserved

OneShotStep ==
    \/ (Asking' <=> Asking) /\ (Owing' <=> Owing)
    \/ ~Asking /\ Asking' /\ Owing'
    \/ Owing /\ ~Owing' /\ (Asking' <=> Asking)
    \/ Asking /\ ~Asking' /\ ~Owing'

\* These are steps of Trigger.
LEMMA OneShotSteps ==
    ASSUME OneShotStep
    PROVE  [OneShot!Next]_OneShot!triggerVars
<1> DEFINE A == IF obj.life = "live" /\ obj.rerun THEN {"task"} ELSE {}
           O == IF obj.life = "live" /\ unserved THEN {"task"} ELSE {}
<1>0. /\ A = (IF Asking THEN {"task"} ELSE {})
      /\ O = (IF Owing THEN {"task"} ELSE {})
      /\ A' = (IF Asking' THEN {"task"} ELSE {})
      /\ O' = (IF Owing' THEN {"task"} ELSE {})
  BY DEF Asking, Owing
<1> HIDE DEF A, O
<1>1. CASE (Asking' <=> Asking) /\ (Owing' <=> Owing)
  <2>1. A' = A /\ O' = O
    BY <1>0, <1>1
  <2> QED BY <2>1 DEF OneShot!triggerVars, A, O
<1>2. CASE ~Asking /\ Asking' /\ Owing'
  <2>1. "task" \notin A /\ A' = A \cup {"task"} /\ O' = O \cup {"task"}
    BY <1>0, <1>2
  <2>2. OneShot!Ask("task")
    BY <2>1 DEF OneShot!Ask, A, O
  <2> QED BY <2>2 DEF OneShot!Next
<1>3. CASE Owing /\ ~Owing' /\ (Asking' <=> Asking)
  <2>1. "task" \in O /\ A' = A /\ O' = O \ {"task"}
    BY <1>0, <1>3
  <2>2. OneShot!Serve("task")
    BY <2>1 DEF OneShot!Serve, A, O
  <2> QED BY <2>2 DEF OneShot!Next
<1>4. CASE Asking /\ ~Asking' /\ ~Owing'
  <2>1. "task" \in A /\ A' = A \ {"task"} /\ O' = O \ {"task"}
    BY <1>0, <1>4
  <2>2. OneShot!Withdraw("task")
    BY <2>1 DEF OneShot!Withdraw, A, O
  <2> QED BY <2>2 DEF OneShot!Next
<1> QED BY <1>1, <1>2, <1>3, <1>4 DEF OneShotStep

\* A task that is not live any more has taken its request with it.
LEMMA EndsRequest ==
    ASSUME RerunNotForgotten, obj'.life # "live"
    PROVE  OneShotStep
BY DEF RerunNotForgotten, OneShotStep, Asking, Owing

\* A step that keeps life and annotation at most serves the request.
LEMMA KeepsRequest ==
    ASSUME obj'.life = obj.life, obj'.rerun = obj.rerun,
           unserved' => unserved
    PROVE  OneShotStep
BY DEF OneShotStep, Asking, Owing

\* The steps that write nothing.
LEMMA QuietOneShot ==
    ASSUME \/ UNCHANGED vars \/ CacheSync \/ Begin \/ Interrupted
           \/ ReadCompleted \/ ReadFailed \/ ReadInProgress
           \/ \E a \in Action, part \in Part :
                  ScheduleCall(a, part) \/ ScheduleReplyLost(a, part)
           \/ ScheduleRefused \/ TTLNotYet \/ CancelActions
           \/ \E a \in Action, s \in Server, r \in {"ok", "bad"} :
                  FinishAction(a, s, r)
    PROVE  OneShotStep
<1>1. UNCHANGED <<obj, unserved>>
  BY DEF vars, history, CacheSync, Begin, Interrupted, ReadCompleted,
         ReadFailed, ReadInProgress, ScheduleCall, ScheduleReplyLost,
         ScheduleRefused, TTLNotYet, CancelActions, FinishAction
<1> QED BY <1>1, KeepsRequest

\* The user sets the annotation once, and may delete the task.
LEMMA UserOneShot == ASSUME IInv, User PROVE OneShotStep
<1>0. obj \in TaskObject /\ RerunNotForgotten
  BY DEF IInv, TypeOK
<1>1. CASE AskRerun
  <2>1. /\ obj.life = "live" /\ ~obj.rerun /\ unserved'
        /\ obj' = [obj EXCEPT !.rerun = TRUE]
    BY <1>1 DEF AskRerun
  <2>2. obj'.life = "live" /\ obj'.rerun
    BY <1>0, <2>1 DEF TaskObject
  <2> QED BY <2>1, <2>2 DEF OneShotStep, Asking, Owing
<1>2. CASE EditSpec \/ EditTTL \/ AskForceDelete
  <2>1. obj'.life = obj.life /\ obj'.rerun = obj.rerun /\ unserved' = unserved
    BY <1>0, <1>2 DEF EditSpec, EditTTL, AskForceDelete, TaskObject, history
  <2> QED BY <2>1, KeepsRequest
<1>3. CASE DeleteTask
  <2>1. obj'.life # "live"
    BY <1>0, <1>3 DEF DeleteTask, Deleted, TaskObject
  <2> QED BY <1>0, <2>1, EndsRequest
<1> QED BY <1>1, <1>2, <1>3 DEF User

\* A write of the pass carries the annotation it has read; only a recorded run
\* serves the request, and only a served one is stripped.
LEMMA WriteOneShot ==
    ASSUME IInv,
           \/ AddFinalizer \/ failTask \/ WriteStatus \/ ReleaseTask
           \/ RecordRun \/ StripAnnotation \/ TTLExpired
    PROVE  OneShotStep
<1>0. /\ obj \in TaskObject /\ wk.t \in TaskObject /\ RerunNotForgotten
      /\ wk.t.life = wk.base.life /\ wk.t.rerun = wk.base.rerun
  BY DEF IInv, TypeOK, Worker, CopyOfBase
<1>1. CASE TTLExpired
  <2>1. CASE obj.life = "live"
    <3>1. obj'.life # "live"
      BY <1>0, <1>1, <2>1 DEF TTLExpired, Deleted, TaskObject
    <3> QED BY <1>0, <3>1, EndsRequest
  <2>2. CASE obj.life # "live"
    BY <1>0, <1>1, <2>2, EndsRequest DEF TTLExpired
  <2> QED BY <2>1, <2>2
<1>2. ASSUME NEW new, NEW next, Save(new, next), unserved' => unserved,
             new.life = "live" => wk.t.life = "live" /\ new.rerun = wk.t.rerun
      PROVE  OneShotStep
  <2>1. \/ obj' = obj
        \/ obj = wk.base /\ obj' = new
    BY <1>2 DEF Save, Conflict
  <2>2. CASE obj'.life = "live"
    <3>1. obj'.life = obj.life /\ obj'.rerun = obj.rerun
      BY <1>0, <1>2, <2>1, <2>2
    <3> QED BY <1>2, <3>1, KeepsRequest
  <2>3. CASE obj'.life # "live"
    BY <1>0, <2>3, EndsRequest
  <2> QED BY <2>2, <2>3
<1>3. CASE AddFinalizer
  <2> DEFINE new == [wk.t EXCEPT !.finalizer = TRUE]
  <2>1. new.life = wk.t.life /\ new.rerun = wk.t.rerun
    BY <1>0 DEF TaskObject
  <2>2. Save(new, "idle") /\ unserved' = unserved
    BY <1>3 DEF AddFinalizer, history
  <2> QED BY <1>2, <2>1, <2>2
<1>4. CASE failTask
  <2>1. Save(wk.t, "idle") /\ unserved' = unserved
    BY <1>4 DEF failTask, history
  <2> QED BY <1>2, <2>1
<1>5. CASE WriteStatus
  <2> DEFINE phase == LatestPhase(wk.t)
             new == [wk.t EXCEPT !.phase = phase, !.observed = wk.t.gen]
             next == IF isTerminalPhase(phase) /\ ~hasActiveRun(wk.t)
                     THEN "ttl" ELSE "idle"
  <2>1. new.life = wk.t.life /\ new.rerun = wk.t.rerun
    BY <1>0 DEF TaskObject
  <2>2. Save(new, next) /\ unserved' = unserved
    BY <1>5 DEF WriteStatus, history
  <2> HIDE DEF new, next
  <2> QED BY <1>2, <2>1, <2>2
<1>6. CASE ReleaseTask
  <2> DEFINE new == [wk.t EXCEPT !.finalizer = FALSE, !.life = "gone"]
  <2>1. new.life = "gone"
    BY <1>0 DEF TaskObject
  <2>2. Save(new, "idle") /\ unserved' = unserved
    BY <1>6 DEF ReleaseTask, history
  <2> HIDE DEF new
  <2> QED BY <1>2, <2>1, <2>2
<1>7. CASE RecordRun
  <2>1. Save(wk.t, IF wk.trigger = "annotation" THEN "strip" ELSE "final")
        /\ (unserved' => unserved)
    BY <1>7 DEF RecordRun
  <2> QED BY <1>2, <2>1
<1>8. CASE StripAnnotation
  <2> DEFINE new == [wk.t EXCEPT !.rerun = FALSE]
  <2>1. Save(new, "final") /\ unserved' = unserved /\ obj.rerun /\ ~unserved
    BY <1>8 DEF StripAnnotation, history, IInv, StripAnswered
  <2>2. ~new.rerun /\ new.life = wk.t.life
    BY <1>0 DEF TaskObject
  <2> HIDE DEF new
  <2>3. obj' = obj \/ (obj'.life = obj.life /\ ~obj'.rerun)
    BY <1>0, <2>1, <2>2 DEF Save, Conflict
  <2> QED BY <2>1, <2>3 DEF OneShotStep, Asking, Owing
<1> QED BY <1>1, <1>3, <1>4, <1>5, <1>6, <1>7, <1>8

\* The rerun annotation is stripped after a run that answers it is on record,
\* and only then: the task reconciler implements Trigger.
THEOREM TaskRerunIsOneShot == Spec => RerunIsOneShot
<1>1. Init => OneShot!Init
  <2>1. Init => ~Asking /\ ~Owing
    <3>1. NewTask.rerun = FALSE
      BY Zenon DEF NewTask
    <3> QED BY <3>1 DEF Init, Asking, Owing
  <2> QED BY <2>1 DEF OneShot!Init, Asking, Owing
<1>2. IInv /\ [Next]_vars => [OneShot!Next]_OneShot!triggerVars
  <2> SUFFICES ASSUME IInv, [Next]_vars PROVE OneShotStep
    BY OneShotSteps
  <2> QED BY QuietOneShot, UserOneShot, WriteOneShot DEF Next, Pass
<1> QED BY <1>1, <1>2, InvariantInit, InvariantStep, PTL
        DEF Spec, RerunIsOneShot, OneShot!Spec

============================================================================
