----------------------- MODULE ContentProjectProofs -----------------------
(***************************************************************************)
(* ContentProject, for every set of projects, labels, channels and filters *)
(* and every bound: a fingerprint is that of a build, a filter change is   *)
(* built by the pass that makes it unless that pass fails or finds no      *)
(* environment, and deletion leaves no project.                            *)
(*                                                                         *)
(* What the three rest on is what a pass still knows when it acts on its   *)
(* copy (Copies, Reads): the resource it keeps has its finalizer, and a    *)
(* pass that keeps one cannot follow a pass that has released it, because  *)
(* the cache never goes back.  Types and the lives of resources are proved *)
(* by the form of a step, the filters action by action.                    *)
(***************************************************************************)
EXTENDS ContentProject, TLAPS

----------------------------------------------------------------------------
(* The invariant.                                                          *)

\* The steps of a pass that keeps a project, of one that deletes it, and
\* those between the last change of the sources and the build.
Keeping == {"project", "sources", "filters", "attach", "drop", "cleanup",
            "decide", "save", "note"}
Deleting == {"remove", "removeFilters", "release"}
Filtering == {"filters", "attach", "drop", "cleanup", "decide"}

Leaving == {"deleting", "gone"}
Holds(t) == Exists(t) /\ t.finalizer

\* The resource is the one the copy is of, later in its life.
Later(copy, t) ==
    /\ copy.life # "absent" => t.life # "absent" /\ t.label = copy.label
    /\ copy.life = "live" /\ copy.finalizer => Holds(t)
    /\ copy.life \in Leaving => t.life \in Leaving

\* The filter to attach is one that was made.
Attaching == wk.pc = "attach" => wk.id \in FilterID

\* What a pass changes of its copy is the status.
SameSpec(t, base) == /\ t.life = base.life /\ t.finalizer = base.finalizer
                     /\ t.force = base.force /\ t.label = base.label

Copies == \A p \in Project : Later(cache[p], obj[p])

Reads ==
    /\ SameSpec(wk.t, wk.base)
    /\ wk.pc # "idle" => /\ wk.t.life # "absent" /\ Later(wk.t, obj[wk.p])
    /\ wk.pc = "finalizer" => wk.t.life = "live"
    /\ wk.pc \in Keeping => wk.t.life = "live" /\ wk.t.finalizer
    /\ wk.pc \in Deleting => /\ wk.t.life = "deleting"
                             /\ cache[wk.p].life \in Leaving

\* The sources are those of this pass until it builds.
InSync == wk.pc \in Filtering => srcs[wk.t.label] = wk.desired

\* A fingerprint is of a build.
Built(t) == t.fp = NoBuild \/ t.fp \in built[t.label]
Fingerprints == /\ Built(wk.t)
                /\ \A p \in Project : Built(obj[p]) /\ Built(cache[p])

\* The filters the pass has been through are tracked, and in the end no
\* other is.
Tracks ==
    /\ wk.pc \in {"filters", "attach", "drop"} =>
         SpecFilters(wk.t) \ wk.todo \subseteq TrackedFilters(wk.t)
    /\ wk.pc \in {"cleanup", "decide"} /\ wk.changed =>
         TrackedFilters(wk.t) = SpecFilters(wk.t)

\* A change that is neither built nor on record as left is the pass's own.
Pending == \A p \in dirty \ (cut \cup skipped) :
               p = wk.p /\ wk.changed /\ wk.pc \in Filtering

\* A project in Uyuni has a resource, and one that will remove it if it is
\* the only one.
Known == \A l \in proj : \E p \in Project :
             obj[p].life # "absent" /\ obj[p].label = l
Kept == \A p \in Project :
            obj[p].life # "absent" /\ Alone(p) /\ obj[p].label \in proj
                => obj[p].force \/ Holds(obj[p])
Removed ==
    /\ wk.pc = "removeFilters" => wk.t.label \notin proj
    /\ wk.pc = "release" => wk.t.force \/ wk.t.label \notin proj

IInv == /\ TypeOK /\ Attaching /\ Copies /\ Reads /\ InSync /\ Fingerprints
        /\ Tracks /\ Pending /\ Known /\ Kept /\ Removed


----------------------------------------------------------------------------
(* Types.                                                                  *)

\* What the user makes is a project, and so is the empty place of one.
LEMMA ProjectTypes ==
    /\ First \in Project
    /\ \A l \in Label : NewProject(l) \in ContentProjectObject
    /\ Absent \in ContentProjectObject
    /\ Idle \in Worker
<1>1. First \in Project
  BY ConstantsAssumption DEF First
<1>2. \A l \in Label : NewProject(l) \in ContentProjectObject
  <2>1. 1 \in 0..MaxCrit
    BY ConstantsAssumption
  <2>2. [f \in Filter |-> 1] \in Criteria
    BY <2>1 DEF Criteria
  <2>3. [f \in Filter |-> 0] \in FilterIDs
    BY DEF FilterIDs
  <2>4. NoBuild \in Fingerprint
    BY DEF Fingerprint
  <2> QED BY <2>2, <2>3, <2>4 DEF NewProject, ContentProjectObject
<1>3. Absent \in ContentProjectObject
  <2>1. (CHOOSE l \in Label : TRUE) \in Label
    BY ConstantsAssumption
  <2> QED BY <1>2, <2>1 DEF Absent, ContentProjectObject
<1>4. Idle \in Worker
  BY <1>1, <1>3 DEF Idle, Worker
<1> QED BY <1>1, <1>2, <1>3, <1>4

LEMMA InitType == Init => TypeOK
<1> SUFFICES ASSUME Init PROVE TypeOK
  OBVIOUS
<1>1. Absent.label \in Label
  BY ProjectTypes DEF ContentProjectObject
<1>2. obj \in [Project -> ContentProjectObject]
  BY <1>1, ProjectTypes DEF Init
<1>3. events \in 0..MaxEvents
  BY ConstantsAssumption DEF Init
<1> QED BY <1>2, <1>3, ProjectTypes DEF Init, TypeOK

LEMMA EventType == TypeOK /\ Event => events' \in 0..MaxEvents
BY ConstantsAssumption DEF TypeOK, Event

\* The user, the channels and the environments.
LEMMA UserTypes ==
    ASSUME TypeOK, NEW p \in Project, User(p)
    PROVE  TypeOK'
<1>1. ASSUME NEW l \in Label, Create(p, l) PROVE TypeOK'
  BY <1>1, ProjectTypes DEF TypeOK, Create, uyuni, history
<1>2. CASE AskDelete(p)
  <2> DEFINE life == IF obj[p].finalizer THEN "deleting" ELSE "dropped"
  <2>1. obj[p] \in ContentProjectObject
    BY DEF TypeOK
  <2>2. life \in {"absent", "live", "deleting", "dropped", "gone"}
    OBVIOUS
  <2>3. [obj[p] EXCEPT !.life = life] \in ContentProjectObject
    <3> HIDE DEF life
    <3> QED BY <2>1, <2>2 DEF ContentProjectObject
  <2>4. obj' \in [Project -> ContentProjectObject]
    BY <1>2, <2>3 DEF TypeOK, AskDelete
  <2> QED BY <1>2, <2>4 DEF TypeOK, AskDelete, uyuni, history
<1>3. CASE AskForceDelete(p)
  <2>1. obj[p] \in ContentProjectObject
    BY DEF TypeOK
  <2>2. [obj[p] EXCEPT !.force = TRUE] \in ContentProjectObject
    BY <2>1 DEF ContentProjectObject
  <2>3. obj' \in [Project -> ContentProjectObject]
    BY <1>3, <2>2 DEF TypeOK, AskForceDelete
  <2> QED BY <1>3, <2>3, EventType DEF TypeOK, AskForceDelete, uyuni, history
<1>4. ASSUME NEW s \in {"none", "some", "ready"}, ChangeEnvironments(p, s)
      PROVE  TypeOK'
  BY <1>4, EventType DEF TypeOK, ChangeEnvironments, uyuni, history
<1>5. ASSUME NEW S \in SUBSET Channel, NEW f \in Filter, NEW v \in 0..MaxCrit,
             EditSpec(p, S, f, v)
      PROVE  TypeOK'
  <2> DEFINE crit == [obj[p].crit EXCEPT ![f] = v]
  <2>1. obj[p] \in ContentProjectObject
    BY DEF TypeOK
  <2>2. crit \in Criteria
    BY <2>1 DEF ContentProjectObject, Criteria
  <2>3. [obj[p] EXCEPT !.sources = S, !.crit = crit] \in ContentProjectObject
    <3> HIDE DEF crit
    <3> QED BY <2>1, <2>2 DEF ContentProjectObject
  <2>4. obj' \in [Project -> ContentProjectObject]
    BY <1>5, <2>3 DEF TypeOK, EditSpec
  <2> QED BY <1>5, <2>4, EventType DEF TypeOK, EditSpec, uyuni, history
<1> QED BY <1>1, <1>2, <1>3, <1>4, <1>5 DEF User

\* A pass ends, or moves on, with types.
LEMMA GotoType ==
    ASSUME TypeOK, NEW pc \in {"idle", "finalizer", "project", "sources",
             "filters", "attach", "cleanup", "decide", "save", "note",
             "remove", "removeFilters", "release"}, Goto(pc)
    PROVE  wk' \in Worker
BY DEF TypeOK, Goto, Worker

LEMMA BeginTypes ==
    ASSUME TypeOK, NEW p \in Project, Begin(p)
    PROVE  TypeOK'
<1>1. FirstStep(cache[p]) \in {"finalizer", "project", "remove", "release"}
  BY DEF FirstStep
<1>2. wk' \in Worker
  BY <1>1, ProjectTypes DEF TypeOK, Begin, Worker
<1>3. events' \in 0..MaxEvents
  BY EventType DEF TypeOK, Begin
<1> QED BY <1>2, <1>3 DEF TypeOK, Begin, kube, uyuni, history


\* The steps of a pass, by what they change.
LEMMA ProjectStepTypes ==
    ASSUME TypeOK, \/ AddFinalizer \/ CreateOrAdopt \/ ProjectLabelConflict
                   \/ SourcesDone
                   \/ \E c \in Channel : AttachSource(c) \/ DetachSource(c)
    PROVE  TypeOK'
<1>1. CASE AddFinalizer
  <2>1. wk.p \in Project /\ obj[wk.p] \in ContentProjectObject
    BY DEF TypeOK, Worker
  <2>2. [obj[wk.p] EXCEPT !.finalizer = TRUE] \in ContentProjectObject
    BY <2>1 DEF ContentProjectObject
  <2>3. obj' \in [Project -> ContentProjectObject]
    BY <1>1, <2>2 DEF TypeOK, AddFinalizer
  <2> QED BY <1>1, <2>3, ProjectTypes DEF TypeOK, AddFinalizer, uyuni, history
<1>2. CASE CreateOrAdopt
  <2>1. wk' \in Worker
    BY <1>2 DEF TypeOK, CreateOrAdopt, Worker, resolveSources
  <2>2. wk.t.label \in Label
    BY DEF TypeOK, Worker, ContentProjectObject
  <2> QED BY <1>2, <2>1, <2>2 DEF TypeOK, CreateOrAdopt, kube, history
<1>3. CASE ProjectLabelConflict
  BY <1>3, ProjectTypes DEF TypeOK, ProjectLabelConflict, kube, uyuni, history
<1>4. CASE SourcesDone
  <2>1. wk' \in Worker
    BY <1>4 DEF TypeOK, SourcesDone, Worker, SpecFilters
  <2> QED BY <1>4, <2>1 DEF TypeOK, SourcesDone, kube, uyuni, history
<1>5. ASSUME NEW c \in Channel, AttachSource(c) \/ DetachSource(c)
      PROVE  TypeOK'
  <2>1. srcs' \in [Label -> SUBSET Channel]
    BY <1>5 DEF TypeOK, AttachSource, DetachSource
  <2> QED BY <1>5, <2>1 DEF TypeOK, AttachSource, DetachSource, kube, history
<1> QED BY <1>1, <1>2, <1>3, <1>4, <1>5

\* The copy of a pass with another filter id.
LEMMA NewID ==
    ASSUME TypeOK, NEW f, NEW i \in FilterID \cup {0}
    PROVE  [wk.t EXCEPT !.ids = [wk.t.ids EXCEPT ![f] = i]] \in ContentProjectObject
<1> DEFINE ids == [wk.t.ids EXCEPT ![f] = i]
<1>1. wk.t \in ContentProjectObject
  BY DEF TypeOK, Worker
<1>2. ids \in FilterIDs
  BY <1>1 DEF ContentProjectObject, FilterIDs
<1> HIDE DEF ids
<1> QED BY <1>1, <1>2 DEF ContentProjectObject, ids


LEMMA UpdateFilterTypes ==
    ASSUME TypeOK, NEW f \in Filter, NEW i \in FilterID, UpdateFilter(f, i)
    PROVE  TypeOK'
<1> DEFINE t == [wk.t EXCEPT !.ids = [wk.t.ids EXCEPT ![f] = i]]
           ch == wk.changed \/ filters[i].crit # wk.t.crit[f]
<1>1. t \in ContentProjectObject
  BY NewID
<1>2. wk' = [wk EXCEPT !.todo = wk.todo \ {f}, !.t = t, !.changed = ch]
  BY DEF UpdateFilter, TypeOK, Worker
<1>3. wk' \in Worker
  <2>1. wk \in Worker /\ ch \in BOOLEAN
    BY DEF TypeOK, Worker
  <2> HIDE DEF t, ch
  <2> QED BY <1>1, <1>2, <2>1 DEF Worker
<1>4. filters' \in [FilterID -> {NoFilter} \cup [name : Filter, crit : 0..MaxCrit]]
  <2>1. wk.t.crit[f] \in 0..MaxCrit
    BY DEF TypeOK, Worker, ContentProjectObject, Criteria
  <2>2. filters[i].name = f
    BY DEF UpdateFilter, Named
  <2>3. [filters[i] EXCEPT !.crit = wk.t.crit[f]] \in [name : Filter, crit : 0..MaxCrit]
    BY <2>1, <2>2 DEF TypeOK, NoFilter
  <2> QED BY <2>3 DEF TypeOK, UpdateFilter
<1>5. dirty' \subseteq Project /\ (cut' \cup skipped') \subseteq Project
  BY DEF TypeOK, UpdateFilter, Dirties, Worker
<1> QED BY <1>3, <1>4, <1>5 DEF TypeOK, UpdateFilter, kube

LEMMA CreateFilterTypes ==
    ASSUME TypeOK, NEW f \in Filter, NEW i \in FilterID, CreateFilter(f, i)
    PROVE  TypeOK'
<1>1. wk' \in Worker
  BY DEF TypeOK, CreateFilter, Worker
<1>2. wk.t.crit[f] \in 0..MaxCrit
  BY DEF TypeOK, Worker, ContentProjectObject, Criteria
<1>3. filters' \in [FilterID -> {NoFilter} \cup [name : Filter, crit : 0..MaxCrit]]
  BY <1>2 DEF TypeOK, CreateFilter
<1> QED BY <1>1, <1>3 DEF TypeOK, CreateFilter, kube, history

LEMMA AttachFilterTypes ==
    ASSUME TypeOK, Attaching, AttachFilter
    PROVE  TypeOK'
<1> DEFINE f == filters[wk.id].name
           t == [wk.t EXCEPT !.ids = [wk.t.ids EXCEPT ![f] = wk.id]]
<1>1. wk.id \in FilterID
  BY DEF Attaching, AttachFilter
<1>2. t \in ContentProjectObject
  BY <1>1, NewID
<1>3. wk' = [wk EXCEPT !.pc = "filters", !.changed = TRUE,
                       !.todo = wk.todo \ {f}, !.t = t]
  BY DEF AttachFilter, TypeOK, Worker
<1>4. wk' \in Worker
  <2>1. wk \in Worker
    BY DEF TypeOK
  <2> HIDE DEF t, f
  <2> QED BY <1>2, <1>3, <2>1 DEF Worker
<1>5. wk.t.label \in Label /\ wk.p \in Project
  BY DEF TypeOK, Worker, ContentProjectObject
<1>6. /\ attached' \subseteq Label \X FilterID
      /\ dirty' \subseteq Project /\ (cut' \cup skipped') \subseteq Project
  BY <1>1, <1>5 DEF TypeOK, AttachFilter, Dirties
<1> QED BY <1>4, <1>6 DEF TypeOK, AttachFilter, kube

LEMMA DetachFilterTypes ==
    ASSUME TypeOK, NEW f \in Filter, DetachFilter(f)
    PROVE  TypeOK'
<1> DEFINE t == [wk.t EXCEPT !.ids = [wk.t.ids EXCEPT ![f] = 0]]
<1>1. t \in ContentProjectObject
  BY NewID
<1>2. wk' = [wk EXCEPT !.pc = "drop", !.id = wk.t.ids[f], !.changed = TRUE,
                       !.t = t]
  BY DEF DetachFilter, TypeOK, Worker
<1>3. wk' \in Worker
  <2>1. wk \in Worker /\ wk.t.ids[f] \in FilterID \cup {0}
    BY DEF TypeOK, Worker, ContentProjectObject, FilterIDs
  <2> HIDE DEF t
  <2> QED BY <1>1, <1>2, <2>1 DEF Worker
<1>5. /\ dirty' \subseteq Project /\ (cut' \cup skipped') \subseteq Project
      /\ attached' \subseteq Label \X FilterID
  BY DEF TypeOK, DetachFilter, Dirties, Worker
<1> QED BY <1>3, <1>5 DEF TypeOK, DetachFilter, kube

\* Filters that go, and filters that Uyuni keeps.
LEMMA RemoveAnyTypes ==
    ASSUME TypeOK, NEW F, RemoveAny(F)
    PROVE  /\ filters' \in [FilterID -> {NoFilter} \cup
                               [name : Filter, crit : 0..MaxCrit]]
           /\ events' \in 0..MaxEvents
BY EventType DEF TypeOK, RemoveAny

LEMMA FilterEndTypes ==
    ASSUME TypeOK, \/ FiltersDone \/ FiltersUnavailable \/ cleanupOrphanedFilters
                   \/ RemoveFilters \/ DropFilter
    PROVE  TypeOK'
<1>1. CASE FiltersDone
  BY <1>1, GotoType DEF TypeOK, FiltersDone, kube, uyuni, history
<1>2. CASE FiltersUnavailable
  <2>1. wk' \in Worker
    BY <1>2 DEF TypeOK, FiltersUnavailable, Worker
  <2> QED BY <1>2, <2>1, EventType
      DEF TypeOK, FiltersUnavailable, kube, uyuni, history
<1>3. CASE cleanupOrphanedFilters
  BY <1>3, GotoType, RemoveAnyTypes DEF TypeOK, cleanupOrphanedFilters, kube, history
<1>4. CASE RemoveFilters
  BY <1>4, GotoType, RemoveAnyTypes DEF TypeOK, RemoveFilters, kube, history
<1>5. CASE DropFilter
  BY <1>5, GotoType, RemoveAnyTypes DEF TypeOK, DropFilter, kube, history
<1> QED BY <1>1, <1>2, <1>3, <1>4, <1>5

LEMMA BuildTypes ==
    ASSUME TypeOK, \/ Skip \/ BuildSkipped \/ BuildProject \/ CronBuild
                   \/ BuildReplyLost
    PROVE  TypeOK'
<1>p. wk \in Worker /\ wk.p \in Project /\ wk.t \in ContentProjectObject
      /\ wk.t.label \in Label /\ wk.desired \in SUBSET Channel
  BY DEF TypeOK, Worker, ContentProjectObject
<1>1. CASE Skip
  BY <1>1, <1>p, GotoType DEF TypeOK, Skip, kube, uyuni
<1>2. CASE BuildSkipped
  BY <1>2, <1>p, GotoType DEF TypeOK, BuildSkipped, kube, uyuni
<1>3. ASSUME Builds
      PROVE  /\ built' \in [Label -> SUBSET SUBSET Channel]
             /\ dirty' \subseteq Project /\ (cut' \cup skipped') \subseteq Project
  <2>1. srcs[wk.t.label] \in SUBSET Channel
    BY <1>p DEF TypeOK
  <2> QED BY <1>3, <1>p, <2>1 DEF TypeOK, Builds
<1>4. CASE BuildProject \/ CronBuild
  <2> DEFINE t == [wk.t EXCEPT !.everBuilt = TRUE, !.fp = wk.desired]
  <2>1. wk.desired \in Fingerprint
    BY <1>p DEF Fingerprint
  <2>2. t \in ContentProjectObject
    BY <1>p, <2>1 DEF ContentProjectObject
  <2>3. wk' = [wk EXCEPT !.pc = "save", !.t = t]
    BY <1>4, <1>p DEF BuildProject, CronBuild, Worker
  <2>4. wk' \in Worker
    <3> HIDE DEF t
    <3> QED BY <1>p, <2>2, <2>3 DEF Worker
  <2>5. events' \in 0..MaxEvents
    BY <1>4, EventType DEF BuildProject, CronBuild, TypeOK
  <2> QED BY <1>3, <1>4, <2>4, <2>5
      DEF TypeOK, BuildProject, CronBuild, kube, uyuni
<1>5. CASE BuildReplyLost
  BY <1>3, <1>5, GotoType, EventType DEF TypeOK, BuildReplyLost, kube, uyuni
<1> QED BY <1>1, <1>2, <1>4, <1>5

LEMMA EndTypes ==
    ASSUME TypeOK, \/ SaveStatus \/ Conflict \/ CallFails \/ Crash
                   \/ RemoveProject \/ Release
    PROVE  TypeOK'
<1>p. /\ wk \in Worker /\ wk.p \in Project /\ wk.t \in ContentProjectObject
      /\ wk.t.label \in Label /\ obj[wk.p] \in ContentProjectObject
  BY DEF TypeOK, Worker, ContentProjectObject
<1>1. CASE SaveStatus
  <2> DEFINE o == wk.t.observed \/ wk.pc = "save"
             t == [wk.t EXCEPT !.observed = o]
  <2>1. o \in BOOLEAN
    BY <1>p DEF ContentProjectObject
  <2>2. t \in ContentProjectObject
    <3> HIDE DEF o
    <3> QED BY <1>p, <2>1 DEF ContentProjectObject
  <2>3. obj' = [obj EXCEPT ![wk.p] = t]
    BY <1>1 DEF SaveStatus
  <2>4. obj' \in [Project -> ContentProjectObject]
    <3> HIDE DEF t
    <3> QED BY <2>2, <2>3 DEF TypeOK
  <2> QED BY <1>1, <2>4, ProjectTypes DEF TypeOK, SaveStatus, uyuni, history
<1>2. CASE Conflict
  BY <1>2, ProjectTypes DEF TypeOK, Conflict, kube, uyuni, history
<1>3. CASE CallFails
  BY <1>3, <1>p, GotoType, EventType DEF TypeOK, CallFails, kube, uyuni
<1>4. CASE Crash
  BY <1>4, <1>p, ProjectTypes, EventType DEF TypeOK, Crash, kube, uyuni
<1>5. CASE RemoveProject
  <2>1. srcs' \in [Label -> SUBSET Channel]
    BY <1>5 DEF TypeOK, RemoveProject
  <2>2. proj' \subseteq Label /\ attached' \subseteq Label \X FilterID
    BY <1>5 DEF TypeOK, RemoveProject
  <2>3. wk' \in Worker
    BY <1>5, GotoType DEF RemoveProject
  <2> QED BY <1>5, <2>1, <2>2, <2>3 DEF TypeOK, RemoveProject, kube, history
<1>6. CASE Release
  <2>1. [obj[wk.p] EXCEPT !.life = "gone", !.finalizer = FALSE] \in ContentProjectObject
    BY <1>p DEF ContentProjectObject
  <2>2. obj' \in [Project -> ContentProjectObject]
    BY <1>6, <2>1 DEF TypeOK, Release
  <2> QED BY <1>6, <2>2, ProjectTypes DEF TypeOK, Release, uyuni, history
<1> QED BY <1>1, <1>2, <1>3, <1>4, <1>5, <1>6


----------------------------------------------------------------------------
(* The forms of a step.                                                    *)

Calm == UNCHANGED <<proj, srcs, built>>

\* Somebody else writes: a new project, an edit, a deletion.
Aged(s, t) ==
    \/ s.life = "absent" /\ \E l \in Label : t = NewProject(l)
    \/ /\ s.life # "absent" /\ t.label = s.label /\ t.fp = s.fp
       /\ s.force => t.force
       /\ t.finalizer = s.finalizer
       /\ \/ t.life = s.life
          \/ s.life = "live" /\ s.finalizer /\ t.life = "deleting"
          \/ s.life = "live" /\ ~s.finalizer /\ t.life = "dropped"
Writes(p, t) == /\ Calm /\ UNCHANGED <<cache, wk>>
                /\ obj' = [obj EXCEPT ![p] = t] /\ Aged(obj[p], t)
Syncs == Calm /\ cache' = obj /\ UNCHANGED <<obj, wk>>
Rests == Calm /\ UNCHANGED <<obj, cache, wk>>

Begins(p) ==
    /\ Calm /\ UNCHANGED <<obj, cache>>
    /\ wk.pc = "idle"
    /\ \/ cache[p].life = "live"
       \/ cache[p].life = "deleting" /\ cache[p].finalizer
    /\ wk' \in Worker
    /\ wk'.pc = FirstStep(cache[p]) /\ wk'.p = p /\ wk'.t = cache[p]
    /\ wk'.base = cache[p] /\ ~wk'.changed

\* A pass moves on.
Moves ==
    /\ UNCHANGED <<obj, cache>> /\ wk' \in Worker
    /\ wk'.p = wk.p /\ wk'.base = wk.base /\ SameSpec(wk'.t, wk.t)
    /\ \/ /\ wk.pc \in Keeping /\ wk'.pc \in Keeping
          /\ proj' = proj \/ proj' = proj \cup {wk.t.label}
       \/ /\ wk.pc = "remove" /\ wk'.pc = "removeFilters"
          /\ proj' = proj \ {wk.t.label}
       \/ wk.pc = "removeFilters" /\ wk'.pc = "release" /\ proj' = proj
    /\ \/ wk'.pc \notin Filtering
       \/ wk.pc \in Filtering /\ srcs' = srcs /\ wk'.desired = wk.desired
       \/ srcs'[wk.t.label] = wk'.desired
    /\ \/ built' = built /\ wk'.t.fp = wk.t.fp
       \/ /\ wk.pc = "decide" /\ wk'.t.fp \in {wk.t.fp, wk.desired}
          /\ built' = [built EXCEPT ![wk.t.label] = @ \cup {srcs[wk.t.label]}]

\* A pass ends, with a write or without.
Quits == Calm /\ UNCHANGED <<obj, cache>> /\ wk' = Idle
Saves(t) ==
    /\ Calm /\ cache' = cache /\ wk' = Idle /\ Unsaved
    /\ obj' = [obj EXCEPT ![wk.p] = t]
    /\ t.label = wk.base.label /\ t.force = wk.base.force
    /\ t.fp \in {wk.base.fp, wk.t.fp}
    /\ \/ wk.pc = "finalizer" /\ t.life = wk.base.life /\ t.finalizer
       \/ /\ wk.pc \in Keeping
          /\ t.life = wk.base.life /\ t.finalizer = wk.base.finalizer
       \/ wk.pc = "release" /\ t.life = "gone"

Form == \/ Syncs \/ Rests \/ Moves \/ Quits
        \/ \E p \in Project : Begins(p)
        \/ \E p \in Project, t \in ContentProjectObject : Writes(p, t)
        \/ \E t \in ContentProjectObject : Saves(t)

LEMMA UserForm ==
    ASSUME TypeOK, NEW p \in Project, User(p)
    PROVE  Form
<1>p. obj[p] \in ContentProjectObject /\ obj \in [Project -> ContentProjectObject]
  BY DEF TypeOK
<1>w. ASSUME Calm, UNCHANGED <<cache, wk>>, NEW t, Aged(obj[p], t),
             obj' = [obj EXCEPT ![p] = t], TypeOK'
      PROVE  Form
  <2>1. t \in ContentProjectObject
    <3>1. obj'[p] = t /\ obj'[p] \in ContentProjectObject
      BY <1>w, <1>p DEF TypeOK
    <3> QED BY <3>1
  <2> QED BY <1>w, <2>1 DEF Form, Writes
<1>1. ASSUME NEW l \in Label, Create(p, l) PROVE Form
  <2>1. Aged(obj[p], NewProject(l))
    BY <1>1 DEF Create, Aged
  <2> QED BY <1>1, <1>w, <2>1, UserTypes DEF Create, uyuni, history, Calm
<1>2. CASE AskDelete(p)
  <2> DEFINE t == [obj[p] EXCEPT !.life =
                     IF obj[p].finalizer THEN "deleting" ELSE "dropped"]
  <2>1. Aged(obj[p], t)
    BY <1>2, <1>p DEF AskDelete, Aged, ContentProjectObject
  <2>2. obj' = [obj EXCEPT ![p] = t]
    BY <1>2, <1>p DEF AskDelete
  <2> HIDE DEF t
  <2> QED BY <1>2, <1>w, <2>1, <2>2, UserTypes DEF AskDelete, uyuni, history, Calm
<1>3. CASE AskForceDelete(p)
  <2> DEFINE t == [obj[p] EXCEPT !.force = TRUE]
  <2>1. Aged(obj[p], t)
    BY <1>3, <1>p DEF AskForceDelete, Aged, ContentProjectObject
  <2>2. obj' = [obj EXCEPT ![p] = t]
    BY <1>3, <1>p DEF AskForceDelete
  <2> HIDE DEF t
  <2> QED BY <1>3, <1>w, <2>1, <2>2, UserTypes
      DEF AskForceDelete, uyuni, history, Calm
<1>4. ASSUME NEW s \in {"none", "some", "ready"}, ChangeEnvironments(p, s)
      PROVE  Form
  BY <1>4 DEF ChangeEnvironments, uyuni, history, Form, Rests, Calm
<1>5. ASSUME NEW S \in SUBSET Channel, NEW f \in Filter, NEW v \in 0..MaxCrit,
             EditSpec(p, S, f, v)
      PROVE  Form
  <2> DEFINE crit == [obj[p].crit EXCEPT ![f] = v]
             t == [obj[p] EXCEPT !.sources = S, !.crit = crit]
  <2>1. Aged(obj[p], t)
    <3> HIDE DEF crit
    <3> QED BY <1>5, <1>p DEF EditSpec, Aged, ContentProjectObject
  <2>2. obj' = [obj EXCEPT ![p] = t]
    BY <1>5, <1>p DEF EditSpec
  <2> HIDE DEF t
  <2> QED BY <1>5, <1>w, <2>1, <2>2, UserTypes DEF EditSpec, uyuni, history, Calm
<1> QED BY <1>1, <1>2, <1>3, <1>4, <1>5 DEF User

LEMMA BeginForm ==
    ASSUME TypeOK, NEW p \in Project, Begin(p)
    PROVE  Form
<1>1. TypeOK'
  BY BeginTypes
<1>2. Begins(p)
  BY <1>1, ProjectTypes DEF Begin, Begins, TypeOK, Worker, kube, uyuni, history,
     Calm, Idle
<1> QED BY <1>2 DEF Form


\* The steps of a pass that leave the filters alone.
LEMMA ProjectForm ==
    ASSUME TypeOK, \/ CreateOrAdopt \/ ProjectLabelConflict \/ SourcesDone
                   \/ \E c \in Channel : AttachSource(c) \/ DetachSource(c)
    PROVE  Form
<1>t. TypeOK'
  BY ProjectStepTypes
<1>w. wk \in Worker /\ wk' \in Worker
  BY <1>t DEF TypeOK
<1>1. CASE CreateOrAdopt
  <2>1. Moves
    BY <1>1, <1>w DEF CreateOrAdopt, Moves, SameSpec, Keeping, Filtering,
       Worker, kube, history
  <2> QED BY <2>1 DEF Form
<1>2. CASE ProjectLabelConflict
  BY <1>2 DEF ProjectLabelConflict, Form, Quits, Calm, kube, uyuni, history
<1>3. CASE SourcesDone
  <2>1. srcs[wk.t.label] = wk.desired
    BY <1>3 DEF SourcesDone, SourcesInSync, Missing, Extra
  <2>2. Moves
    BY <1>3, <1>w, <2>1 DEF SourcesDone, Moves, SameSpec, Keeping, Filtering,
       Worker, kube, uyuni, history
  <2> QED BY <2>2 DEF Form
<1>4. ASSUME NEW c \in Channel, AttachSource(c) \/ DetachSource(c)
      PROVE  Form
  <2>1. Moves
    BY <1>4, <1>w DEF AttachSource, DetachSource, Moves, SameSpec, Keeping,
       Filtering, kube, history
  <2> QED BY <2>1 DEF Form
<1> QED BY <1>1, <1>2, <1>3, <1>4

\* The steps that change the filters and the ids in the status.
LEMMA FilterForm ==
    ASSUME TypeOK, TypeOK',
           \/ AttachFilter \/ FiltersDone \/ FiltersUnavailable
           \/ cleanupOrphanedFilters \/ DropFilter
           \/ \E f \in Filter : \/ DetachFilter(f)
                                \/ \E i \in FilterID : \/ UpdateFilter(f, i)
                                                       \/ CreateFilter(f, i)
    PROVE  Form
<1>w. wk \in Worker /\ wk' \in Worker /\ wk.t \in ContentProjectObject
  BY DEF TypeOK, Worker
<1>m. ASSUME wk.pc \in Filtering, wk'.pc \in Filtering, UNCHANGED <<obj, cache>>,
             UNCHANGED <<proj, srcs, built>>,
             wk'.p = wk.p, wk'.base = wk.base, wk'.desired = wk.desired,
             SameSpec(wk'.t, wk.t), wk'.t.fp = wk.t.fp
      PROVE  Form
  BY <1>m, <1>w DEF Form, Moves, Filtering, Keeping
<1>1. CASE AttachFilter
  <2>1. /\ wk'.p = wk.p /\ wk'.base = wk.base /\ wk'.desired = wk.desired
        /\ wk'.pc = "filters" /\ wk.pc = "attach"
    BY <1>1, <1>w DEF AttachFilter, Worker
  <2>2. SameSpec(wk'.t, wk.t) /\ wk'.t.fp = wk.t.fp
    BY <1>1, <1>w DEF AttachFilter, Worker, ContentProjectObject, SameSpec
  <2> QED BY <1>1, <1>m, <2>1, <2>2 DEF AttachFilter, Filtering, kube
<1>2. CASE FiltersDone
  BY <1>2, <1>m, <1>w DEF FiltersDone, Goto, Filtering, Worker, SameSpec,
     kube, uyuni, history
<1>3. CASE FiltersUnavailable
  BY <1>3, <1>m, <1>w DEF FiltersUnavailable, Filtering, Worker, SameSpec,
     kube, uyuni, history
<1>4. CASE cleanupOrphanedFilters
  BY <1>4, <1>m, <1>w DEF cleanupOrphanedFilters, Goto, Filtering, Worker,
     SameSpec, kube, history
<1>5. ASSUME NEW f \in Filter, DetachFilter(f)
      PROVE  Form
  <2>1. /\ wk'.p = wk.p /\ wk'.base = wk.base /\ wk'.desired = wk.desired
        /\ wk'.pc = "drop" /\ wk.pc = "filters"
    BY <1>5, <1>w DEF DetachFilter, Worker
  <2>2. SameSpec(wk'.t, wk.t) /\ wk'.t.fp = wk.t.fp
    <3>1. wk'.t = [wk.t EXCEPT !.ids = [wk.t.ids EXCEPT ![f] = 0]]
      BY <1>5, <1>w DEF DetachFilter, Worker
    <3> QED BY <1>w, <3>1 DEF ContentProjectObject, SameSpec
  <2> QED BY <1>5, <1>m, <2>1, <2>2 DEF DetachFilter, Filtering, kube
<1>6. ASSUME NEW f \in Filter, NEW i \in FilterID, UpdateFilter(f, i)
      PROVE  Form
  <2>1. /\ wk'.p = wk.p /\ wk'.base = wk.base /\ wk'.desired = wk.desired
        /\ wk'.pc = "filters" /\ wk.pc = "filters"
    BY <1>6, <1>w DEF UpdateFilter, Worker
  <2>2. SameSpec(wk'.t, wk.t) /\ wk'.t.fp = wk.t.fp
    <3>1. wk'.t = [wk.t EXCEPT !.ids = [wk.t.ids EXCEPT ![f] = i]]
      BY <1>6, <1>w DEF UpdateFilter, Worker
    <3> QED BY <1>w, <3>1 DEF ContentProjectObject, SameSpec
  <2> QED BY <1>6, <1>m, <2>1, <2>2 DEF UpdateFilter, Filtering, kube
<1>7. ASSUME NEW f \in Filter, NEW i \in FilterID, CreateFilter(f, i)
      PROVE  Form
  BY <1>7, <1>m, <1>w DEF CreateFilter, Filtering, Worker, SameSpec, kube, history
<1>8. CASE DropFilter
  BY <1>8, <1>m, <1>w DEF DropFilter, Goto, Filtering, Worker, SameSpec,
     kube, history
<1> QED BY <1>1, <1>2, <1>3, <1>4, <1>5, <1>6, <1>7, <1>8

\* The decision to build, and what follows it.
LEMMA BuildForm ==
    ASSUME TypeOK, \/ Skip \/ BuildSkipped \/ BuildProject \/ CronBuild
                   \/ BuildReplyLost
    PROVE  Form
<1>w. wk \in Worker /\ wk' \in Worker /\ wk.t \in ContentProjectObject
  BY BuildTypes DEF TypeOK, Worker
<1>1. CASE Skip \/ BuildSkipped
  <2>1. Moves
    BY <1>1, <1>w DEF Skip, BuildSkipped, Goto, Moves, SameSpec, Keeping,
       Filtering, Worker, kube, uyuni
  <2> QED BY <2>1 DEF Form
<1>2. CASE BuildProject \/ CronBuild
  <2>1. /\ wk'.p = wk.p /\ wk'.base = wk.base /\ wk'.pc = "save"
        /\ SameSpec(wk'.t, wk.t) /\ wk'.t.fp = wk.desired
    <3>1. /\ wk'.p = wk.p /\ wk'.base = wk.base /\ wk'.pc = "save"
          /\ wk'.t = [wk.t EXCEPT !.everBuilt = TRUE, !.fp = wk.desired]
      BY <1>2, <1>w DEF BuildProject, CronBuild, Worker
    <3> QED BY <1>w, <3>1 DEF ContentProjectObject, SameSpec
  <2>2. Moves
    BY <1>2, <1>w, <2>1 DEF BuildProject, CronBuild, Builds, Moves, Keeping,
       Filtering, kube, uyuni
  <2> QED BY <2>2 DEF Form
<1>3. CASE BuildReplyLost
  <2>1. Moves
    BY <1>3, <1>w DEF BuildReplyLost, Builds, Goto, Moves, SameSpec, Keeping,
       Filtering, Worker, kube, uyuni
  <2> QED BY <2>1 DEF Form
<1> QED BY <1>1, <1>2, <1>3

\* The end of a pass, and the deletion.
LEMMA EndForm ==
    ASSUME TypeOK, Reads,
           \/ AddFinalizer \/ SaveStatus \/ Conflict \/ CallFails \/ Crash
           \/ RemoveProject \/ RemoveFilters \/ Release
    PROVE  Form
<1>t. TypeOK'
  BY ProjectStepTypes, EndTypes, FilterEndTypes
<1>w. /\ wk \in Worker /\ wk' \in Worker /\ wk.t \in ContentProjectObject
      /\ wk.p \in Project /\ obj[wk.p] \in ContentProjectObject
      /\ wk.base \in ContentProjectObject
      /\ obj'[wk.p] \in ContentProjectObject
  BY <1>t DEF TypeOK, Worker
<1>1. CASE AddFinalizer
  <2> DEFINE t == [obj[wk.p] EXCEPT !.finalizer = TRUE]
  <2>1. /\ obj[wk.p] = wk.base /\ obj' = [obj EXCEPT ![wk.p] = t]
        /\ t \in ContentProjectObject
    BY <1>1, <1>w DEF AddFinalizer, Unsaved, ContentProjectObject
  <2>2. /\ t.label = wk.base.label /\ t.force = wk.base.force
        /\ t.fp = wk.base.fp /\ t.life = wk.base.life /\ t.finalizer
    BY <1>w, <2>1 DEF ContentProjectObject
  <2> HIDE DEF t
  <2>3. Saves(t)
    BY <1>1, <2>1, <2>2 DEF AddFinalizer, Saves, Calm, uyuni, history
  <2> QED BY <2>1, <2>3 DEF Form
<1>2. CASE SaveStatus
  <2> DEFINE o == wk.t.observed \/ wk.pc = "save"
             t == [wk.t EXCEPT !.observed = o]
  <2>1. /\ obj[wk.p] = wk.base /\ obj' = [obj EXCEPT ![wk.p] = t]
    BY <1>2 DEF SaveStatus, Unsaved
  <2>2. t \in ContentProjectObject
    <3> HIDE DEF t
    <3>1. obj'[wk.p] = t
      BY <1>w, <2>1 DEF TypeOK
    <3> QED BY <1>w, <3>1
  <2>3. SameSpec(t, wk.t) /\ t.fp = wk.t.fp
    <3> HIDE DEF o
    <3> QED BY <1>w DEF ContentProjectObject, SameSpec
  <2> HIDE DEF t
  <2>4. Saves(t)
    BY <1>2, <2>1, <2>3 DEF SaveStatus, Saves, Calm, uyuni, history, SameSpec,
       Keeping, Reads
  <2> QED BY <2>2, <2>4 DEF Form
<1>3. CASE Conflict
  BY <1>3 DEF Conflict, Form, Quits, Calm, kube, uyuni, history
<1>4. CASE CallFails
  <2>1. Moves
    BY <1>4, <1>w DEF CallFails, Goto, Moves, SameSpec, Keeping, Filtering,
       Worker, kube, uyuni
  <2> QED BY <2>1 DEF Form
<1>5. CASE Crash
  BY <1>5 DEF Crash, Form, Quits, Calm, kube, uyuni
<1>6. CASE RemoveProject \/ RemoveFilters
  <2>1. Moves
    BY <1>6, <1>w DEF RemoveProject, RemoveFilters, Goto, Moves, SameSpec,
       Filtering, Worker, kube, history
  <2> QED BY <2>1 DEF Form
<1>7. CASE Release
  <2> DEFINE t == [obj[wk.p] EXCEPT !.life = "gone", !.finalizer = FALSE]
  <2>1. /\ obj[wk.p] = wk.base /\ obj' = [obj EXCEPT ![wk.p] = t]
        /\ t \in ContentProjectObject
    BY <1>7, <1>w DEF Release, Unsaved, ContentProjectObject
  <2>2. /\ t.label = wk.base.label /\ t.force = wk.base.force
        /\ t.fp = wk.base.fp /\ t.life = "gone"
    BY <1>w, <2>1 DEF ContentProjectObject
  <2> HIDE DEF t
  <2>3. Saves(t)
    BY <1>7, <2>1, <2>2 DEF Release, Saves, Calm, uyuni, history
  <2> QED BY <2>1, <2>3 DEF Form
<1> QED BY <1>1, <1>2, <1>3, <1>4, <1>5, <1>6, <1>7

\* Types hold after every step, and every step has a form.
LEMMA TypeStep ==
    ASSUME TypeOK, Attaching, [Next]_vars
    PROVE  TypeOK'
<1>1. CASE Pass
  BY <1>1, ProjectStepTypes, UpdateFilterTypes, CreateFilterTypes,
     AttachFilterTypes, DetachFilterTypes, FilterEndTypes, BuildTypes, EndTypes
     DEF Pass
<1>2. CASE CacheSync
  BY <1>2 DEF CacheSync, TypeOK, kube, uyuni, history
<1>3. CASE Crash
  BY <1>3, EndTypes
<1>4. ASSUME NEW p \in Project, Begin(p) \/ User(p)
      PROVE  TypeOK'
  BY <1>4, BeginTypes, UserTypes
<1>5. ASSUME NEW c \in Channel, ChangeChannel(c)
      PROVE  TypeOK'
  BY <1>5, EventType DEF ChangeChannel, TypeOK, uyuni, history
<1>6. CASE UNCHANGED vars
  BY <1>6 DEF vars, kube, uyuni, history, TypeOK
<1> QED BY <1>1, <1>2, <1>3, <1>4, <1>5, <1>6 DEF Next

LEMMA Forms ==
    ASSUME TypeOK, Attaching, Reads, [Next]_vars
    PROVE  Form
<1>t. TypeOK'
  BY TypeStep
<1>1. CASE Pass
  BY <1>t, <1>1, ProjectForm, FilterForm, BuildForm, EndForm DEF Pass
<1>2. CASE CacheSync
  BY <1>2 DEF CacheSync, Form, Syncs, Calm, kube, uyuni, history
<1>3. CASE Crash
  BY <1>3, EndForm
<1>4. ASSUME NEW p \in Project, Begin(p) \/ User(p)
      PROVE  Form
  BY <1>4, BeginForm, UserForm
<1>5. ASSUME NEW c \in Channel, ChangeChannel(c)
      PROVE  Form
  BY <1>5 DEF ChangeChannel, Form, Rests, Calm, uyuni, history
<1>6. CASE UNCHANGED vars
  BY <1>6 DEF vars, kube, uyuni, history, Form, Rests, Calm
<1> QED BY <1>1, <1>2, <1>3, <1>4, <1>5, <1>6 DEF Next


----------------------------------------------------------------------------
(* What a copy tells.                                                      *)

LEMMA LaterReflexive == \A t \in ContentProjectObject : Later(t, t)
BY DEF Later, Holds, Exists

\* A write by somebody else, and one by a pass, leave the resource later.
LEMMA AgedLater ==
    ASSUME NEW c \in ContentProjectObject, NEW s \in ContentProjectObject,
           NEW t \in ContentProjectObject, Later(c, s), Aged(s, t)
    PROVE  Later(c, t)
<1>1. CASE s.life = "absent"
  BY <1>1 DEF Later, Leaving, Holds, Exists, ContentProjectObject
<1>2. CASE s.life # "absent"
  BY <1>2 DEF Later, Aged, Leaving, Holds, Exists
<1> QED BY <1>1, <1>2

LEMMA CopiesStep ==
    ASSUME TypeOK, TypeOK', Copies, Reads, Form
    PROVE  Copies'
<1>o. /\ obj \in [Project -> ContentProjectObject]
      /\ cache \in [Project -> ContentProjectObject]
      /\ wk \in Worker /\ wk.p \in Project
  BY DEF TypeOK, Worker
<1>1. CASE UNCHANGED <<obj, cache>>
  BY <1>1 DEF Copies
<1>2. CASE Syncs
  BY <1>2, <1>o, LaterReflexive DEF Syncs, Copies
<1>3. ASSUME NEW p \in Project, NEW t \in ContentProjectObject, Writes(p, t)
      PROVE  Copies'
  BY <1>3, <1>o, AgedLater DEF Writes, Copies
<1>4. ASSUME NEW t \in ContentProjectObject, Saves(t)
      PROVE  Copies'
  <2>1. obj[wk.p] = wk.base /\ obj'[wk.p] = t /\ cache' = cache
        /\ \A q \in Project \ {wk.p} : obj'[q] = obj[q]
    BY <1>4, <1>o DEF Saves, Unsaved
  <2>2. Later(cache[wk.p], wk.base)
    BY <1>o, <2>1 DEF Copies
  <2>3. Later(cache[wk.p], t)
    <3>1. CASE wk.pc = "finalizer"
      BY <1>4, <2>2, <3>1 DEF Saves, Later, Holds, Exists, Keeping
    <3>2. CASE wk.pc \in Keeping
      BY <1>4, <2>2, <3>2 DEF Saves, Later, Holds, Exists, Keeping
    <3>3. CASE wk.pc = "release"
      BY <1>4, <2>2, <3>3 DEF Saves, Later, Leaving, Keeping, Reads, Deleting,
         Exists, Holds
    <3> QED BY <1>4, <3>1, <3>2, <3>3 DEF Saves
  <2> QED BY <2>1, <2>3 DEF Copies
<1> QED BY <1>1, <1>2, <1>3, <1>4 DEF Form, Rests, Moves, Quits, Begins

LEMMA IdleReads == wk = Idle => Reads
BY ProjectTypes DEF Idle, Reads, SameSpec, Keeping, Deleting

LEMMA ReadsStep ==
    ASSUME TypeOK, TypeOK', Copies, Reads, Form
    PROVE  Reads'
<1>o. /\ obj \in [Project -> ContentProjectObject]
      /\ cache \in [Project -> ContentProjectObject]
      /\ wk \in Worker /\ wk.p \in Project /\ wk.t \in ContentProjectObject
  BY DEF TypeOK, Worker
<1>1. CASE Syncs
  BY <1>1, <1>o DEF Syncs, Reads, Copies, Later, Leaving, Deleting
<1>2. CASE Rests
  BY <1>2 DEF Rests, Reads
<1>3. CASE Moves
  BY <1>3, <1>o DEF Moves, Reads, SameSpec, Later, Keeping, Deleting, Leaving
<1>4. CASE wk' = Idle
  BY <1>4, ProjectTypes DEF Idle, Reads, SameSpec, Keeping, Deleting
<1>5. ASSUME NEW p \in Project, Begins(p)
      PROVE  Reads'
  BY <1>5, <1>o DEF Begins, Reads, Copies, SameSpec, FirstStep, Keeping, Deleting,
     Leaving, Later
<1>6. ASSUME NEW p \in Project, NEW t \in ContentProjectObject, Writes(p, t)
      PROVE  Reads'
  <2>1. wk' = wk /\ cache' = cache
    BY <1>6 DEF Writes
  <2>2. wk.pc # "idle" => Later(wk.t, obj'[wk.p])
    BY <1>6, <1>o, AgedLater DEF Writes, Reads
  <2> QED BY <2>1, <2>2 DEF Reads
<1> QED BY <1>1, <1>2, <1>3, <1>4, <1>5, <1>6 DEF Form, Quits, Saves

----------------------------------------------------------------------------
(* Fingerprints.                                                           *)

LEMMA InSyncStep ==
    ASSUME TypeOK, InSync, Form
    PROVE  InSync'
<1>1. CASE Syncs \/ Rests
  BY <1>1 DEF Syncs, Rests, Calm, InSync
<1>2. CASE Moves
  BY <1>2 DEF Moves, InSync, SameSpec
<1>3. CASE wk' = Idle
  BY <1>3 DEF Idle, InSync, Filtering
<1>4. ASSUME NEW p \in Project, Begins(p)
      PROVE  InSync'
  BY <1>4 DEF Begins, FirstStep, InSync, Filtering
<1>5. ASSUME NEW p \in Project, NEW t \in ContentProjectObject, Writes(p, t)
      PROVE  InSync'
  BY <1>5 DEF Writes, Calm, InSync
<1> QED BY <1>1, <1>2, <1>3, <1>4, <1>5 DEF Form, Quits, Saves

LEMMA FingerprintsStep ==
    ASSUME TypeOK, InSync, Fingerprints, Reads, Form
    PROVE  Fingerprints'
<1>o. /\ obj \in [Project -> ContentProjectObject]
      /\ cache \in [Project -> ContentProjectObject]
      /\ wk \in Worker /\ wk.p \in Project /\ wk.t \in ContentProjectObject
      /\ wk.base \in ContentProjectObject
  BY DEF TypeOK, Worker
<1>i. Absent.fp = NoBuild /\ \A l \in Label : NewProject(l).fp = NoBuild
  BY DEF Absent, NewProject
<1>1. CASE Syncs
  BY <1>1, <1>o DEF Syncs, Calm, Fingerprints, Built
<1>2. CASE Rests
  BY <1>2 DEF Rests, Calm, Fingerprints, Built
<1>3. CASE Moves
  <2>1. \A l \in Label : built[l] \subseteq built'[l]
    BY <1>3 DEF Moves, TypeOK
  <2>2. \A t \in ContentProjectObject : Built(t) => t.fp = NoBuild \/ t.fp \in built'[t.label]
    BY <2>1 DEF Built, ContentProjectObject
  <2>3. wk'.t.fp = NoBuild \/ wk'.t.fp \in built'[wk'.t.label]
    <3>1. wk'.t.label = wk.t.label
      BY <1>3 DEF Moves, SameSpec
    <3>2. CASE wk'.t.fp = wk.t.fp
      BY <1>o, <2>2, <3>1, <3>2 DEF Fingerprints
    <3>3. CASE wk'.t.fp # wk.t.fp
      <4>1. wk'.t.fp = srcs[wk.t.label]
        BY <1>3, <3>3 DEF Moves, InSync, Filtering
      <4>2. built' = [built EXCEPT ![wk.t.label] = @ \cup {srcs[wk.t.label]}]
        BY <1>3, <3>3 DEF Moves
      <4>3. wk.t.label \in DOMAIN built
        BY <1>o DEF TypeOK, ContentProjectObject
      <4> QED BY <3>1, <4>1, <4>2, <4>3
    <3> QED BY <3>2, <3>3
  <2>4. obj' = obj /\ cache' = cache
    BY <1>3 DEF Moves
  <2> QED BY <1>o, <2>2, <2>3, <2>4 DEF Fingerprints, Built
<1>4. CASE Quits
  BY <1>4, <1>i DEF Quits, Calm, Idle, Fingerprints, Built
<1>5. ASSUME NEW p \in Project, Begins(p)
      PROVE  Fingerprints'
  BY <1>5 DEF Begins, Calm, Fingerprints, Built
<1>6. ASSUME NEW p \in Project, NEW t \in ContentProjectObject, Writes(p, t)
      PROVE  Fingerprints'
  <2>1. t.fp = NoBuild \/ (t.fp = obj[p].fp /\ t.label = obj[p].label)
    BY <1>6, <1>i DEF Writes, Aged
  <2>2. Built(t)
    BY <2>1 DEF Fingerprints, Built
  <2> QED BY <1>6, <1>o, <2>2 DEF Writes, Calm, Fingerprints, Built
<1>7. ASSUME NEW t \in ContentProjectObject, Saves(t)
      PROVE  Fingerprints'
  <2>1. wk.base = obj[wk.p] /\ wk.t.label = wk.base.label
    BY <1>7 DEF Saves, Unsaved, Reads, SameSpec
  <2>2. Built(t)
    BY <1>7, <1>o, <2>1 DEF Saves, Fingerprints, Built
  <2> QED BY <1>7, <1>o, <1>i, <2>2 DEF Saves, Calm, Idle, Fingerprints, Built
<1> QED BY <1>1, <1>2, <1>3, <1>4, <1>5, <1>6, <1>7 DEF Form


----------------------------------------------------------------------------
(* Filters.                                                                *)

FilterStep == \/ SourcesDone \/ AttachFilter \/ FiltersDone \/ FiltersUnavailable
              \/ cleanupOrphanedFilters \/ DropFilter
              \/ \E f \in Filter : \/ DetachFilter(f)
                                   \/ \E i \in FilterID : \/ UpdateFilter(f, i)
                                                          \/ CreateFilter(f, i)
BuildStep == \/ Skip \/ BuildSkipped \/ BuildProject \/ CronBuild
             \/ BuildReplyLost \/ CallFails \/ Crash

\* No other step is one of the filters'.
LEMMA Elsewhere ==
    ASSUME TypeOK, [Next]_vars, ~FilterStep, ~BuildStep
    PROVE  /\ UNCHANGED <<dirty, cut, skipped>>
           /\ wk' = wk \/ (wk.pc \notin Filtering /\ wk'.pc \notin Filtering)
<1>w. wk \in Worker
  BY DEF TypeOK
<1>1. CASE Pass
  <2>1. CASE AddFinalizer \/ ProjectLabelConflict
    BY <2>1 DEF AddFinalizer, ProjectLabelConflict, Idle, Filtering, history
  <2>5. CASE CreateOrAdopt
    BY <1>w, <2>5 DEF CreateOrAdopt, Filtering, history, Worker
  <2>2. CASE SaveStatus \/ Conflict
    BY <1>w, <2>2 DEF SaveStatus, Conflict, Idle, Filtering, history
  <2>3. CASE RemoveProject \/ RemoveFilters \/ Release
    BY <1>w, <2>3 DEF RemoveProject, RemoveFilters, Release, Goto, Idle,
       Filtering, history, Worker
  <2>4. CASE \E c \in Channel : AttachSource(c) \/ DetachSource(c)
    BY <2>4 DEF AttachSource, DetachSource, history
  <2> QED BY <1>1, <2>1, <2>2, <2>3, <2>4, <2>5 DEF Pass, FilterStep, BuildStep
<1>2. CASE CacheSync
  BY <1>2 DEF CacheSync, history
<1>3. ASSUME NEW p \in Project, Begin(p)
      PROVE  /\ UNCHANGED <<dirty, cut, skipped>>
             /\ wk.pc \notin Filtering /\ wk'.pc \notin Filtering
  BY <1>3 DEF Begin, FirstStep, Idle, Filtering, history
<1>4. ASSUME NEW p \in Project, User(p)
      PROVE  UNCHANGED <<dirty, cut, skipped, wk>>
  BY <1>4 DEF User, Create, AskDelete, AskForceDelete, ChangeEnvironments,
     EditSpec, history
<1>5. ASSUME NEW c \in Channel, ChangeChannel(c)
      PROVE  UNCHANGED <<dirty, cut, skipped, wk>>
  BY <1>5 DEF ChangeChannel, history
<1>6. CASE UNCHANGED vars
  BY <1>6 DEF vars, history
<1> QED BY <1>1, <1>2, <1>3, <1>4, <1>5, <1>6 DEF Next, BuildStep

Handled == Attaching /\ Tracks /\ Pending

\* A pass out of the filters has nothing to say of them.
LEMMA HandledOut ==
    ASSUME Handled, wk'.pc \notin Filtering, dirty' \subseteq (cut' \cup skipped')
    PROVE  Handled'
BY DEF Handled, Attaching, Tracks, Pending, Filtering

\* A step from filter to filter.
LEMMA HandledFilters ==
    ASSUME TypeOK, Handled, FilterStep
    PROVE  Handled'
<1>w. /\ wk \in Worker /\ wk.t \in ContentProjectObject
      /\ wk.t.ids \in FilterIDs /\ wk.todo \subseteq Filter
  BY DEF TypeOK, Worker, ContentProjectObject
<1>z. 0 \notin FilterID
  BY DEF FilterID
<1>1. CASE SourcesDone
  <2>1. /\ wk'.pc = "filters" /\ wk'.todo = SpecFilters(wk.t) /\ wk'.t = wk.t
        /\ wk.pc = "sources" /\ UNCHANGED <<dirty, cut, skipped>>
    BY <1>1, <1>w DEF SourcesDone, Worker, history
  <2>2. Attaching' /\ Tracks'
    BY <2>1 DEF Attaching, Tracks, SpecFilters, TrackedFilters
  <2>3. Pending'
    BY <2>1 DEF Handled, Pending, Filtering
  <2> QED BY <2>2, <2>3 DEF Handled
<1>2. CASE AttachFilter
  <2> DEFINE f == filters[wk.id].name
  <2>1. /\ wk'.pc = "filters" /\ wk'.todo = wk.todo \ {f} /\ wk'.p = wk.p
        /\ wk.pc = "attach" /\ wk'.changed
        /\ wk'.t = [wk.t EXCEPT !.ids = [wk.t.ids EXCEPT ![f] = wk.id]]
    BY <1>2, <1>w DEF AttachFilter, Worker
  <2>2. /\ wk'.t.crit = wk.t.crit
        /\ wk'.t.ids = [wk.t.ids EXCEPT ![f] = wk.id]
    BY <1>w, <2>1 DEF ContentProjectObject
  <2>3. wk.id # 0
    BY <1>z, <2>1 DEF Handled, Attaching
  <2>4. Attaching' /\ Tracks'
    <3>1. SpecFilters(wk.t) \ wk.todo \subseteq TrackedFilters(wk.t)
      BY <2>1 DEF Handled, Tracks
    <3> HIDE DEF f
    <3>2. (SpecFilters(wk.t) \ wk.todo \subseteq TrackedFilters(wk.t))'
      BY <1>w, <2>1, <2>2, <2>3, <3>1 DEF SpecFilters, TrackedFilters, FilterIDs
    <3> QED BY <2>1, <3>2 DEF Attaching, Tracks
  <2>5. Pending'
    BY <1>2, <2>1 DEF AttachFilter, Dirties, Handled, Pending, Filtering
  <2> QED BY <2>4, <2>5 DEF Handled
<1>3. CASE FiltersDone
  <2>1. /\ wk'.pc = "cleanup" /\ wk'.t = wk.t /\ wk'.p = wk.p
        /\ wk'.changed = wk.changed /\ wk.pc = "filters" /\ wk.todo = {}
        /\ UNCHANGED <<dirty, cut, skipped>>
    BY <1>3, <1>w DEF FiltersDone, Goto, Worker, history
  <2>2. TrackedFilters(wk.t) = SpecFilters(wk.t)
    BY <1>3, <2>1 DEF FiltersDone, Unwanted, Handled, Tracks
  <2>3. Attaching' /\ Tracks'
    BY <2>1, <2>2 DEF Attaching, Tracks, TrackedFilters, SpecFilters
  <2>4. Pending'
    BY <2>1 DEF Handled, Pending, Filtering
  <2> QED BY <2>3, <2>4 DEF Handled
<1>4. CASE FiltersUnavailable
  <2>1. /\ wk'.pc = "decide" /\ ~wk'.changed /\ ~wk.changed
        /\ UNCHANGED <<dirty, cut, skipped>>
    BY <1>4, <1>w DEF FiltersUnavailable, Worker, history
  <2> QED BY <2>1 DEF Handled, Attaching, Tracks, Pending
<1>5. CASE cleanupOrphanedFilters
  <2>1. /\ wk'.pc = "decide" /\ wk'.t = wk.t /\ wk'.p = wk.p
        /\ wk'.changed = wk.changed /\ wk.pc = "cleanup"
        /\ UNCHANGED <<dirty, cut, skipped>>
    BY <1>5, <1>w DEF cleanupOrphanedFilters, Goto, Worker, history
  <2>2. Attaching' /\ Tracks'
    BY <2>1 DEF Handled, Attaching, Tracks, TrackedFilters, SpecFilters
  <2>3. Pending'
    BY <2>1 DEF Handled, Pending, Filtering
  <2> QED BY <2>2, <2>3 DEF Handled
<1>6. ASSUME NEW f \in Filter, DetachFilter(f)
      PROVE  Handled'
  <2>1. /\ wk'.pc = "drop" /\ wk'.todo = wk.todo /\ wk'.p = wk.p
        /\ wk.pc = "filters" /\ wk'.changed
        /\ wk'.t = [wk.t EXCEPT !.ids = [wk.t.ids EXCEPT ![f] = 0]]
    BY <1>6, <1>w DEF DetachFilter, Worker
  <2>2. /\ wk'.t.crit = wk.t.crit
        /\ wk'.t.ids = [wk.t.ids EXCEPT ![f] = 0]
    BY <1>w, <2>1 DEF ContentProjectObject
  <2>3. f \notin SpecFilters(wk.t)
    BY <1>6 DEF DetachFilter, Unwanted
  <2>4. Attaching' /\ Tracks'
    <3>1. SpecFilters(wk.t) \ wk.todo \subseteq TrackedFilters(wk.t)
      BY <2>1 DEF Handled, Tracks
    <3>2. (SpecFilters(wk.t) \ wk.todo \subseteq TrackedFilters(wk.t))'
      BY <1>w, <2>1, <2>2, <2>3, <3>1 DEF SpecFilters, TrackedFilters, FilterIDs
    <3> QED BY <2>1, <3>2 DEF Attaching, Tracks
  <2>5. Pending'
    BY <1>6, <2>1 DEF DetachFilter, Dirties, Handled, Pending, Filtering
  <2> QED BY <2>4, <2>5 DEF Handled
<1>7. ASSUME NEW f \in Filter, NEW i \in FilterID, UpdateFilter(f, i)
      PROVE  Handled'
  <2>1. /\ wk'.pc = "filters" /\ wk'.todo = wk.todo \ {f} /\ wk'.p = wk.p
        /\ wk.pc = "filters"
        /\ wk'.t = [wk.t EXCEPT !.ids = [wk.t.ids EXCEPT ![f] = i]]
    BY <1>7, <1>w DEF UpdateFilter, Worker
  <2>c. wk.changed \/ filters[i].crit # wk.t.crit[f] => wk'.changed
    BY <1>7, <1>w DEF UpdateFilter, Worker
  <2>2. /\ wk'.t.crit = wk.t.crit
        /\ wk'.t.ids = [wk.t.ids EXCEPT ![f] = i]
    BY <1>w, <2>1 DEF ContentProjectObject
  <2>4. Attaching' /\ Tracks'
    <3>1. SpecFilters(wk.t) \ wk.todo \subseteq TrackedFilters(wk.t)
      BY <2>1 DEF Handled, Tracks
    <3>2. (SpecFilters(wk.t) \ wk.todo \subseteq TrackedFilters(wk.t))'
      BY <1>w, <1>z, <2>1, <2>2, <3>1 DEF SpecFilters, TrackedFilters, FilterIDs
    <3> QED BY <2>1, <3>2 DEF Attaching, Tracks
  <2>5. Pending'
    <3>1. CASE filters[i].crit # wk.t.crit[f]
      BY <1>7, <2>1, <2>c, <3>1 DEF UpdateFilter, Dirties, Handled, Pending, Filtering
    <3>2. CASE filters[i].crit = wk.t.crit[f]
      BY <1>7, <2>1, <2>c, <3>2 DEF UpdateFilter, Handled, Pending, Filtering
    <3> QED BY <3>1, <3>2
  <2> QED BY <2>4, <2>5 DEF Handled
<1>8. ASSUME NEW f \in Filter, NEW i \in FilterID, CreateFilter(f, i)
      PROVE  Handled'
  <2>1. /\ wk'.pc = "attach" /\ wk'.t = wk.t /\ wk'.p = wk.p /\ wk'.todo = wk.todo
        /\ wk'.changed = wk.changed /\ wk.pc = "filters" /\ wk'.id = i
        /\ UNCHANGED <<dirty, cut, skipped>>
    BY <1>8, <1>w DEF CreateFilter, Worker, history
  <2>2. Attaching' /\ Tracks'
    BY <2>1 DEF Handled, Attaching, Tracks, TrackedFilters, SpecFilters
  <2>3. Pending'
    BY <2>1 DEF Handled, Pending, Filtering
  <2> QED BY <2>2, <2>3 DEF Handled
<1>9. CASE DropFilter
  <2>1. /\ wk'.pc = "filters" /\ wk'.t = wk.t /\ wk'.p = wk.p
        /\ wk'.todo = wk.todo /\ wk'.changed = wk.changed /\ wk.pc = "drop"
        /\ UNCHANGED <<dirty, cut, skipped>>
    BY <1>9, <1>w DEF DropFilter, Goto, Worker, history
  <2>2. Attaching' /\ Tracks'
    BY <2>1 DEF Handled, Attaching, Tracks, TrackedFilters, SpecFilters
  <2>3. Pending'
    BY <2>1 DEF Handled, Pending, Filtering
  <2> QED BY <2>2, <2>3 DEF Handled
<1> QED BY <1>1, <1>2, <1>3, <1>4, <1>5, <1>6, <1>7, <1>8, <1>9 DEF FilterStep

\* A pass that leaves the filters has built its change, or is on record: a
\* change makes every filter of the spec tracked and the build due.
LEMMA HandledBuild ==
    ASSUME TypeOK, Handled, BuildStep
    PROVE  Handled'
<1>w. wk \in Worker /\ wk.p \in Project
  BY DEF TypeOK, Worker
<1>p. dirty \ (cut \cup skipped) \subseteq {wk.p}
  BY DEF Handled, Pending
<1>1. CASE Skip
  <2>1. wk.changed => areFiltersReady
    BY <1>1 DEF Skip, Handled, Tracks, areFiltersReady
  <2>2. wk.changed => ~isProjectReady
    BY <1>1, <2>1 DEF Skip, shouldBuild
  <2>3. dirty' \subseteq (cut' \cup skipped')
    BY <1>1, <1>p, <2>2 DEF Skip, Handled, Pending
  <2>4. wk'.pc = "save"
    BY <1>1, <1>w DEF Skip, Goto, Worker
  <2> QED BY <2>3, <2>4, HandledOut DEF Filtering
<1>2. CASE BuildSkipped
  BY <1>2, <1>w, <1>p, HandledOut DEF BuildSkipped, Goto, Worker, Filtering
<1>3. CASE BuildProject \/ CronBuild \/ BuildReplyLost
  <2>1. Builds /\ wk'.pc \in {"save", "note"}
    BY <1>3, <1>w DEF BuildProject, CronBuild, BuildReplyLost, Goto, Worker
  <2> QED BY <1>p, <2>1, HandledOut DEF Builds, Filtering
<1>4. CASE CallFails
  BY <1>4, <1>w, <1>p, HandledOut DEF CallFails, Goto, Worker, Filtering
<1>5. CASE Crash
  BY <1>5, <1>w, <1>p, HandledOut DEF Crash, Idle, Filtering
<1> QED BY <1>1, <1>2, <1>3, <1>4, <1>5 DEF BuildStep

LEMMA HandledStep ==
    ASSUME TypeOK, Handled, [Next]_vars
    PROVE  Handled'
<1>1. CASE FilterStep
  BY <1>1, HandledFilters
<1>2. CASE BuildStep
  BY <1>2, HandledBuild
<1>3. CASE ~FilterStep /\ ~BuildStep
  <2>1. UNCHANGED <<dirty, cut, skipped>>
    BY <1>3, Elsewhere
  <2>2. CASE wk' = wk
    BY <2>1, <2>2 DEF Handled, Attaching, Tracks, Pending, TrackedFilters,
       SpecFilters
  <2>3. CASE wk.pc \notin Filtering /\ wk'.pc \notin Filtering
    BY <2>1, <2>3, HandledOut DEF Handled, Pending
  <2> QED BY <1>3, <2>2, <2>3, Elsewhere
<1> QED BY <1>1, <1>2, <1>3


----------------------------------------------------------------------------
(* Deletion.                                                               *)

\* Two resources of one label are not alone.
LEMMA NotAlone ==
    ASSUME NEW p \in Project, NEW q \in Project, Alone(p),
           obj[q].life # "absent", obj[q].label = obj[p].label
    PROVE  p = q
BY DEF Alone

\* A resource that changes keeps its label, or was not there.
LEMMA AloneBefore ==
    ASSUME NEW p \in Project, Alone(p)',
           \A q \in Project : obj[q].life # "absent" =>
              obj'[q].life # "absent" /\ obj'[q].label = obj[q].label,
           obj[p].life # "absent"
    PROVE  Alone(p)
BY DEF Alone

Gone == Known /\ Kept /\ Removed

\* What any resource becomes: it keeps its label, and what it holds or forces
\* but for the release.
LEMMA GoneWhen ==
    ASSUME TypeOK, Gone, proj' = proj,
           \A q \in Project : obj[q].life # "absent" =>
              /\ obj'[q].life # "absent" /\ obj'[q].label = obj[q].label
              /\ obj[q].label \in proj /\ (obj[q].force \/ Holds(obj[q]))
                   => obj'[q].force \/ Holds(obj'[q]),
           \A q \in Project : /\ obj[q].life = "absent" /\ obj'[q].life # "absent"
                              /\ obj'[q].label \in proj
              => \E r \in Project \ {q} : obj'[r].life # "absent"
                                          /\ obj'[r].label = obj'[q].label
    PROVE  Known' /\ Kept'
<1>1. Known'
  BY DEF Gone, Known
<1>2. ASSUME NEW p \in Project, obj'[p].life # "absent", Alone(p)',
             obj'[p].label \in proj
      PROVE  obj'[p].force \/ Holds(obj'[p])
  <2>1. obj[p].life # "absent"
    BY <1>2 DEF Alone
  <2>2. Alone(p)
    BY <1>2, <2>1, AloneBefore
  <2>3. obj[p].force \/ Holds(obj[p])
    BY <1>2, <2>1, <2>2 DEF Gone, Kept
  <2> QED BY <1>2, <2>1, <2>3
<1>3. Kept'
  BY <1>2 DEF Kept, Holds, Exists
<1> QED BY <1>1, <1>3

LEMMA GoneStep ==
    ASSUME TypeOK, TypeOK', Copies, Reads, Gone, Form
    PROVE  Gone'
<1>o. /\ obj \in [Project -> ContentProjectObject]
      /\ obj' \in [Project -> ContentProjectObject]
      /\ wk \in Worker /\ wk.p \in Project /\ wk.t \in ContentProjectObject
  BY DEF TypeOK, Worker
<1>1. CASE Syncs \/ Rests
  BY <1>1 DEF Syncs, Rests, Calm, Gone, Known, Kept, Removed, Alone
<1>2. CASE Quits
  <2>1. Removed'
    BY <1>2 DEF Quits, Idle, Removed
  <2> QED BY <1>2, <2>1 DEF Quits, Calm, Gone, Known, Kept, Alone
<1>3. ASSUME NEW p \in Project, Begins(p)
      PROVE  Gone'
  <2>1. Removed'
    BY <1>3 DEF Begins, FirstStep, Removed
  <2> QED BY <1>3, <2>1 DEF Begins, Calm, Gone, Known, Kept, Alone
<1>4. ASSUME NEW p \in Project, NEW t \in ContentProjectObject, Writes(p, t)
      PROVE  Gone'
  <2>1. /\ proj' = proj /\ wk' = wk /\ obj'[p] = t
        /\ \A q \in Project \ {p} : obj'[q] = obj[q]
        /\ Aged(obj[p], t)
    BY <1>4, <1>o DEF Writes, Calm
  <2>2. obj[p].life # "absent" =>
          /\ t.life # "absent" /\ t.label = obj[p].label
          /\ obj[p].force \/ Holds(obj[p]) => t.force \/ Holds(t)
    BY <2>1 DEF Aged, Holds, Exists
  <2>3. obj[p].life = "absent" /\ t.label \in proj =>
          \E r \in Project \ {p} : obj[r].life # "absent" /\ obj[r].label = t.label
    BY DEF Gone, Known
  <2>4. Known' /\ Kept'
    BY <2>1, <2>2, <2>3, GoneWhen
  <2>5. Removed'
    BY <2>1 DEF Gone, Removed
  <2> QED BY <2>4, <2>5 DEF Gone
<1>5. ASSUME NEW t \in ContentProjectObject, Saves(t)
      PROVE  Gone'
  <2>1. /\ proj' = proj /\ wk' = Idle /\ obj'[wk.p] = t
        /\ \A q \in Project \ {wk.p} : obj'[q] = obj[q]
        /\ obj[wk.p] = wk.base /\ t.label = wk.t.label /\ t.force = wk.t.force
        /\ SameSpec(wk.t, wk.base)
    BY <1>5, <1>o DEF Saves, Calm, Unsaved, Reads, SameSpec
  <2>2. t.life # "absent" /\ t.label = obj[wk.p].label
    BY <1>5, <2>1 DEF Saves, Reads, SameSpec, Keeping
  <2>3. obj[wk.p].label \in proj /\ (obj[wk.p].force \/ Holds(obj[wk.p]))
          => t.force \/ Holds(t)
    <3>1. CASE wk.pc = "finalizer" \/ wk.pc \in Keeping
      BY <1>5, <2>1, <3>1 DEF Saves, SameSpec, Holds, Exists, Keeping
    <3>2. CASE wk.pc = "release"
      BY <2>1, <3>2 DEF Gone, Removed, SameSpec
    <3> QED BY <1>5, <3>1, <3>2 DEF Saves
  <2>4. obj[wk.p].life # "absent"
    BY <1>5, <2>1 DEF Saves, Reads, SameSpec, Keeping
  <2>5. Known' /\ Kept'
    BY <2>1, <2>2, <2>3, <2>4, GoneWhen
  <2>6. Removed'
    BY <2>1 DEF Idle, Removed
  <2> QED BY <2>5, <2>6 DEF Gone
<1>6. CASE Moves
  <2>1. obj' = obj /\ wk'.t.label = wk.t.label /\ wk'.t.force = wk.t.force
    BY <1>6 DEF Moves, SameSpec
  <2>2. obj[wk.p].life # "absent" /\ obj[wk.p].label = wk.t.label
    BY <1>6 DEF Moves, Reads, Later, Keeping
  <2>3. proj' \subseteq proj \cup {wk.t.label}
    BY <1>6 DEF Moves
  <2>4. Known'
    BY <1>o, <2>1, <2>2, <2>3 DEF Gone, Known
  <2>5. ASSUME NEW p \in Project, obj[p].life # "absent", Alone(p),
               obj[p].label \in proj'
        PROVE  obj[p].force \/ Holds(obj[p])
    <3>1. CASE obj[p].label \in proj
      BY <2>5, <3>1 DEF Gone, Kept
    <3>2. CASE obj[p].label \notin proj
      <4>1. obj[p].label = wk.t.label /\ wk.pc \in Keeping
        BY <1>6, <2>3, <2>5, <3>2 DEF Moves
      <4>2. p = wk.p
        BY <1>o, <2>2, <2>5, <4>1, NotAlone
      <4>3. Holds(obj[wk.p])
        BY <4>1 DEF Reads, Later, Keeping
      <4> QED BY <4>2, <4>3
    <3> QED BY <3>1, <3>2
  <2>6. Kept'
    BY <2>1, <2>5 DEF Kept, Alone, Holds, Exists
  <2>7. Removed'
    <3>1. CASE wk.pc \in Keeping
      BY <1>6, <3>1 DEF Moves, Keeping, Removed
    <3>2. CASE wk.pc = "remove"
      BY <1>6, <2>1, <3>2 DEF Moves, Keeping, Removed
    <3>3. CASE wk.pc = "removeFilters"
      BY <1>6, <2>1, <3>3 DEF Moves, Keeping, Removed, Gone
    <3> QED BY <1>6, <3>1, <3>2, <3>3 DEF Moves
  <2> QED BY <2>4, <2>6, <2>7 DEF Gone
<1> QED BY <1>1, <1>2, <1>3, <1>4, <1>5, <1>6 DEF Form

----------------------------------------------------------------------------
(* The theorems.                                                           *)

LEMMA InvariantInit == Init => IInv
<1> SUFFICES ASSUME Init PROVE IInv
  OBVIOUS
<1>1. TypeOK
  BY InitType
<1>2. /\ wk = Idle /\ cache = obj /\ proj = {} /\ dirty = {}
      /\ wk.pc = "idle" /\ wk.t = Absent
  BY DEF Init, Idle
<1>3. Reads
  BY <1>2, IdleReads
<1>4. Copies
  BY <1>1, <1>2, LaterReflexive DEF Copies, TypeOK
<1>5. Fingerprints
  <2>1. Absent.fp = NoBuild /\ \A l \in Label : NewProject(l).fp = NoBuild
    BY DEF Absent, NewProject
  <2>2. Absent.label \in Label
    BY ProjectTypes DEF ContentProjectObject
  <2> QED BY <1>2, <2>1, <2>2 DEF Init, Fingerprints, Built
<1> QED BY <1>1, <1>2, <1>3, <1>4, <1>5
    DEF IInv, Attaching, InSync, Tracks, Pending, Known, Kept, Removed, Filtering

LEMMA InvariantStep == IInv /\ [Next]_vars => IInv'
<1> SUFFICES ASSUME IInv, [Next]_vars PROVE IInv'
  OBVIOUS
<1>1. TypeOK' /\ Form
  BY TypeStep, Forms DEF IInv
<1>2. Copies' /\ Reads' /\ InSync' /\ Fingerprints'
  BY <1>1, CopiesStep, ReadsStep, InSyncStep, FingerprintsStep DEF IInv
<1>3. Handled'
  BY HandledStep DEF IInv, Handled
<1>4. Gone'
  BY <1>1, GoneStep DEF IInv, Gone
<1> QED BY <1>1, <1>2, <1>3, <1>4 DEF IInv, Handled, Gone

\* Every variable keeps its type, for every number of projects, channels and
\* filters and every bound.
THEOREM ContentProjectTypeOK == Spec => []TypeOK
<1>1. IInv => TypeOK
  BY DEF IInv
<1> QED BY <1>1, InvariantInit, InvariantStep, PTL DEF Spec

\* The source fingerprint of a status is that of a build of exactly those
\* sources: Reconcile builds after reconcileSources, within one pass, and
\* keeps the fingerprint only if the build was accepted.
THEOREM ContentProjectFingerprint == Spec => []FingerprintTruthful
<1>1. IInv => FingerprintTruthful
  BY DEF IInv, Fingerprints, Built, FingerprintTruthful
<1> QED BY <1>1, InvariantInit, InvariantStep, PTL DEF Spec

\* A filter change is built by the pass that makes it, unless that pass failed
\* or died, or skipped the build for want of environments: reconcileFilters
\* tracks every filter of the spec before shouldBuild asks for it.  That such
\* a change is built later is not claimed, and does not hold.
THEOREM ContentProjectFilters == Spec => []FilterChangesAreBuilt
<1>1. IInv => FilterChangesAreBuilt
  BY DEF IInv, Pending, Filtering, FilterChangesAreBuilt
<1> QED BY <1>1, InvariantInit, InvariantStep, PTL DEF Spec

\* The finalizer is there before CreateProject and stays until RemoveProject:
\* the deletion of the only resource of a label leaves no project in Uyuni,
\* whatever pass was cut short or began with a stale copy.
THEOREM ContentProjectDeletion == Spec => []DeletionIsComplete
<1>1. IInv => DeletionIsComplete
  BY DEF IInv, Kept, Holds, Exists, DeletionIsComplete
<1> QED BY <1>1, InvariantInit, InvariantStep, PTL DEF Spec

=============================================================================
