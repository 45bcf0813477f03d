-------------------------- MODULE ContentProject --------------------------
(***************************************************************************)
(* Content projects: the reconciler                                        *)
(* (internal/controller/contentproject_controller.go) that keeps the       *)
(* sources and the filters of a project in Uyuni as its spec says and      *)
(* decides when to build.  Promotions, and the deletion that waits for     *)
(* them, are in module Promotion.                                          *)
(*                                                                         *)
(* One worker serves all projects.  A pass is a sequence of calls; between *)
(* any two the user edits, a channel comes or goes, or the operator dies.  *)
(* Filters are named per organization, so two projects may name the same   *)
(* one.  Uyuni refuses to remove a filter some project has attached.       *)
(***************************************************************************)
EXTENDS Naturals, FiniteSets

CONSTANTS
    Project,    \* ContentProject resources
    Label,      \* values of spec.label
    Channel,    \* SoftwareChannels a spec may name
    Filter,     \* filter names
    MaxCrit,    \* bound: versions of a filter's criteria
    MaxFilterID,\* bound: filters Uyuni ever makes
    MaxEvents   \* bound: edits, failures, crashes, stale reads

ASSUME ConstantsAssumption ==
    /\ Project # {} /\ Label # {}
    /\ MaxCrit \in Nat \ {0} /\ MaxFilterID \in Nat \ {0} /\ MaxEvents \in Nat

VARIABLES
    obj,       \* the ContentProjects in the API server
    cache,     \* the informer's copy of them
    realised,  \* SoftwareChannels whose status has a label
    envs,      \* per project, its environments: none, some, all ready
    wk,        \* the controller's worker
    proj,      \* Uyuni: labels of the projects there
    srcs,      \* Uyuni: per label, the attached sources
    filters,   \* Uyuni: per filter id, its name and criteria, or NoFilter
    attached,  \* Uyuni: pairs of a label and a filter id
    built,     \* history: per label, the source sets that were built
    dirty,     \* history: projects whose filters changed after their build
    cut,       \* history: those of them whose pass ended before the build
    skipped,   \* history: those whose pass found no environment to build in
    events     \* disturbances so far

kube == <<obj, realised, envs>>
uyuni == <<proj, srcs, filters, attached>>
history == <<built, dirty, cut, skipped>>
vars == <<kube, cache, wk, uyuni, history, events>>

----------------------------------------------------------------------------
(* Objects.                                                                *)

FilterID == 1..MaxFilterID
NoFilter == [name |-> "none", crit |-> 0]
NoBuild == {"never built"}

Criteria == [Filter -> 0..MaxCrit]
FilterIDs == [Filter -> FilterID \cup {0}]
Fingerprint == (SUBSET Channel) \cup {NoBuild}

\* crit: per filter of the spec its criteria, 0 for one not in the spec;
\* ids, fp, everBuilt and observed are the status.
ContentProjectObject ==
    [life : {"absent", "live", "deleting", "dropped", "gone"},
     finalizer : BOOLEAN, force : BOOLEAN, label : Label,
     sources : SUBSET Channel, crit : Criteria, ids : FilterIDs,
     fp : Fingerprint, everBuilt : BOOLEAN, observed : BOOLEAN]

NewProject(label) ==
    [life |-> "live", finalizer |-> FALSE, force |-> FALSE, label |-> label,
     sources |-> Channel, crit |-> [f \in Filter |-> 1],
     ids |-> [f \in Filter |-> 0], fp |-> NoBuild, everBuilt |-> FALSE,
     observed |-> FALSE]

First == CHOOSE p \in Project : TRUE
Absent == [NewProject(CHOOSE l \in Label : TRUE) EXCEPT !.life = "absent"]

Exists(t) == t.life \in {"live", "deleting"}
SpecFilters(t) == {f \in Filter : t.crit[f] # 0}
TrackedFilters(t) == {f \in Filter : t.ids[f] # 0}
Named(f) == {i \in FilterID : filters[i].name = f}
Users(i) == {l \in Label : <<l, i>> \in attached}

Event == events < MaxEvents /\ events' = events + 1

----------------------------------------------------------------------------
(* The user and the channels.                                              *)

Create(p, label) ==
    /\ obj[p].life = "absent"
    /\ obj' = [obj EXCEPT ![p] = NewProject(label)]
    /\ UNCHANGED <<realised, envs, cache, wk, uyuni, history, events>>

\* spec.label is immutable; sources, filters and build settings are not.
EditSpec(p, S, f, v) ==
    /\ obj[p].life = "live"
    /\ obj[p].sources # S \/ obj[p].crit[f] # v
    /\ Event
    /\ obj' = [obj EXCEPT ![p].sources = S, ![p].crit[f] = v]
    /\ UNCHANGED <<realised, envs, cache, wk, uyuni, history>>

AskDelete(p) ==
    /\ obj[p].life = "live"
    /\ obj' = [obj EXCEPT ![p].life =
                   IF obj[p].finalizer THEN "deleting" ELSE "dropped"]
    /\ UNCHANGED <<realised, envs, cache, wk, uyuni, history, events>>

AskForceDelete(p) ==
    /\ obj[p].life = "deleting" /\ ~obj[p].force
    /\ Event
    /\ obj' = [obj EXCEPT ![p].force = TRUE]
    /\ UNCHANGED <<realised, envs, cache, wk, uyuni, history>>

ChangeChannel(c) ==
    /\ Event
    /\ realised' = IF c \in realised THEN realised \ {c} ELSE realised \cup {c}
    /\ UNCHANGED <<obj, envs, cache, wk, uyuni, history>>

ChangeEnvironments(p, s) ==
    /\ s # envs[p]
    /\ Event
    /\ envs' = [envs EXCEPT ![p] = s]
    /\ UNCHANGED <<obj, realised, cache, wk, uyuni, history>>

----------------------------------------------------------------------------
(* ContentProjectReconciler.Reconcile: the project and its sources.        *)

Worker ==
    [pc : {"idle", "finalizer", "project", "sources", "filters", "attach",
           "drop", "cleanup", "decide", "save", "note",
           "remove", "removeFilters", "release"},
     p : Project, t : ContentProjectObject, base : ContentProjectObject,
     desired : SUBSET Channel, todo : SUBSET Filter,
     id : FilterID \cup {0}, changed : BOOLEAN]

Idle == [pc |-> "idle", p |-> First, t |-> Absent, base |-> Absent,
         desired |-> {}, todo |-> {}, id |-> 0, changed |-> FALSE]

CacheSync ==
    /\ cache # obj
    /\ cache' = obj
    /\ UNCHANGED <<kube, wk, uyuni, history, events>>

CreatesFirst(t) == "project"
FirstStep(t) ==
    IF t.life = "deleting" THEN IF t.force THEN "release" ELSE "remove"
    ELSE IF t.finalizer THEN "project" ELSE "finalizer"

Begin(p) ==
    /\ wk.pc = "idle"
    /\ \/ cache[p].life = "live"
       \/ cache[p].life = "deleting" /\ cache[p].finalizer
    /\ IF cache # obj THEN Event ELSE UNCHANGED events
    /\ wk' = [Idle EXCEPT !.pc = FirstStep(cache[p]), !.p = p,
                          !.t = cache[p], !.base = cache[p]]
    /\ UNCHANGED <<kube, cache, uyuni, history>>

Goto(pc) == wk' = [wk EXCEPT !.pc = pc]
Unsaved == obj[wk.p] = wk.base

AddFinalizer ==
    /\ wk.pc = "finalizer" /\ Unsaved
    /\ obj' = [obj EXCEPT ![wk.p].finalizer = TRUE]
    /\ wk' = Idle
    /\ UNCHANGED <<realised, envs, cache, uyuni, history, events>>

\* Channels that are not realised yet are left out, not waited for.
resolveSources(t) == t.sources \cap realised

\* Another resource that has been reconciled owns the project of this label.
LabelConflict ==
    /\ wk.t.label \in proj
    /\ \E other \in Project \ {wk.p} :
          /\ Exists(cache[other]) /\ cache[other].label = wk.t.label
          /\ cache[other].observed

\* CreateProject; when it "already exists", LookupProject and adopt.
CreateOrAdopt ==
    /\ wk.pc = "project" /\ ~LabelConflict
    /\ proj' = proj \cup {wk.t.label}
    /\ wk' = [wk EXCEPT !.pc = "sources", !.desired = resolveSources(wk.t)]
    /\ UNCHANGED <<kube, cache, srcs, filters, attached, history, events>>

ProjectLabelConflict ==
    /\ wk.pc = "project" /\ LabelConflict
    /\ wk' = Idle
    /\ UNCHANGED <<kube, cache, uyuni, history, events>>

\* reconcileSources: attach what is missing, then detach the rest, one call
\* at a time.
Missing == wk.desired \ srcs[wk.t.label]
Extra == srcs[wk.t.label] \ wk.desired

AttachSource(c) ==
    /\ wk.pc = "sources" /\ c \in Missing
    /\ srcs' = [srcs EXCEPT ![wk.t.label] = @ \cup {c}]
    /\ UNCHANGED <<kube, cache, wk, proj, filters, attached, history, events>>

DetachSource(c) ==
    /\ wk.pc = "sources" /\ Missing = {} /\ c \in Extra
    /\ srcs' = [srcs EXCEPT ![wk.t.label] = @ \ {c}]
    /\ UNCHANGED <<kube, cache, wk, proj, filters, attached, history, events>>

\* mutant: a source that is no longer wanted stays attached
AttachesOnly == Missing = {}

SourcesInSync == Missing = {} /\ Extra = {}
SourcesDone ==
    /\ wk.pc = "sources" /\ SourcesInSync
    /\ wk' = [wk EXCEPT !.pc = "filters", !.todo = SpecFilters(wk.t)]
    /\ UNCHANGED <<kube, cache, uyuni, history, events>>

----------------------------------------------------------------------------
(* reconcileFilters and cleanupOrphanedFilters.                            *)

\* A change to build, whatever came of those before it.
Dirties == /\ dirty' = dirty \cup {wk.p}
           /\ cut' = cut \ {wk.p} /\ skipped' = skipped \ {wk.p}

\* A filter of that name exists: it gets this project's criteria.  It is not
\* attached: only a filter this pass makes is.
UpdateFilter(f, i) ==
    /\ wk.pc = "filters" /\ f \in wk.todo /\ i \in Named(f)
    /\ filters' = [filters EXCEPT ![i].crit = wk.t.crit[f]]
    /\ wk' = [wk EXCEPT !.todo = @ \ {f}, !.t.ids[f] = i,
                        !.changed = @ \/ filters[i].crit # wk.t.crit[f]]
    /\ IF filters[i].crit # wk.t.crit[f] THEN Dirties
       ELSE UNCHANGED <<dirty, cut, skipped>>
    /\ UNCHANGED <<kube, cache, proj, srcs, attached, built, events>>

CreateFilter(f, i) ==
    /\ wk.pc = "filters" /\ f \in wk.todo /\ Named(f) = {}
    /\ filters[i] = NoFilter /\ \A j \in FilterID : j < i => filters[j] # NoFilter
    /\ filters' = [filters EXCEPT ![i] = [name |-> f, crit |-> wk.t.crit[f]]]
    /\ wk' = [wk EXCEPT !.pc = "attach", !.id = i]
    /\ UNCHANGED <<kube, cache, proj, srcs, attached, history, events>>

AttachFilter ==
    /\ wk.pc = "attach"
    /\ attached' = attached \cup {<<wk.t.label, wk.id>>}
    /\ wk' = [wk EXCEPT !.pc = "filters", !.changed = TRUE,
                        !.todo = @ \ {filters[wk.id].name},
                        !.t.ids[filters[wk.id].name] = wk.id]
    /\ Dirties
    /\ UNCHANGED <<kube, cache, proj, srcs, filters, built, events>>

Unwanted == TrackedFilters(wk.t) \ SpecFilters(wk.t)

\* Detached and forgotten; that it is there no more fails the pass.
DetachFilter(f) ==
    LET i == wk.t.ids[f]
    IN  /\ wk.pc = "filters" /\ wk.todo = {} /\ f \in Unwanted
        /\ filters[i] # NoFilter
        /\ attached' = attached \ {<<wk.t.label, i>>}
        /\ wk' = [wk EXCEPT !.pc = "drop", !.id = i, !.changed = TRUE,
                            !.t.ids[f] = 0]
        /\ Dirties
        /\ UNCHANGED <<kube, cache, proj, srcs, filters, built, events>>

\* The filters Uyuni lets go of when asked to remove F.
Free(F) == {i \in F : filters[i] # NoFilter /\ Users(i) = {}}

\* RemoveFilter of each of F.  That one fails is logged and ignored.
RemoveAny(F) ==
    \E kept \in SUBSET Free(F) :
       /\ filters' = [i \in FilterID |-> IF i \in Free(F) \ kept THEN NoFilter
                                         ELSE filters[i]]
       /\ IF kept = {} THEN UNCHANGED events ELSE Event

DropFilter ==
    /\ wk.pc = "drop"
    /\ RemoveAny({wk.id})
    /\ Goto("filters")
    /\ UNCHANGED <<kube, cache, proj, srcs, attached, history>>

FiltersDone ==
    /\ wk.pc = "filters" /\ wk.todo = {} /\ Unwanted = {}
    /\ Goto("cleanup")
    /\ UNCHANGED <<kube, cache, uyuni, history, events>>

\* ListFilters fails, here and in the cleanup: the pass goes on as if no
\* filter had changed.
FiltersUnavailable ==
    /\ wk.pc = "filters" /\ wk.todo = SpecFilters(wk.t)
    /\ wk.t.ids = wk.base.ids /\ ~wk.changed
    /\ Event
    /\ wk' = [wk EXCEPT !.pc = "decide", !.todo = {}]
    /\ UNCHANGED <<kube, cache, uyuni, history>>

\* Every filter that no stored status tracks is to go.
Orphaned ==
    {i \in FilterID : \A p \in Project :
       ~Exists(cache[p]) \/ filters[i].name \notin TrackedFilters(cache[p])}

cleanupOrphanedFilters ==
    /\ wk.pc = "cleanup"
    /\ RemoveAny(Orphaned)
    /\ Goto("decide")
    /\ UNCHANGED <<kube, cache, proj, srcs, attached, history>>

----------------------------------------------------------------------------
(* shouldBuild, BuildProject and the status.                               *)

isProjectReady == envs[wk.p] # "none"
areFiltersReady ==
    \/ SpecFilters(wk.t) = {}
    \/ Cardinality(TrackedFilters(wk.t)) = Cardinality(SpecFilters(wk.t))

\* Filters that changed are built at once or not at all; the first build
\* waits for every environment; then what is built is compared by source.
FirstBuildDue ==
    SpecFilters(wk.t) # {} /\ areFiltersReady /\ ~wk.t.everBuilt /\ isProjectReady

FirstBuildOnly == FirstBuildDue /\ envs[wk.p] = "ready"
shouldBuild ==
    IF wk.changed THEN isProjectReady /\ areFiltersReady
    ELSE IF FirstBuildDue THEN envs[wk.p] = "ready"
    ELSE wk.desired # wk.t.fp

Skip ==
    /\ wk.pc = "decide" /\ ~shouldBuild
    /\ Goto("save")
    /\ skipped' = skipped \cup {p \in {wk.p} \cap dirty : ~isProjectReady}
    /\ UNCHANGED <<kube, cache, uyuni, built, dirty, cut, events>>

\* While Uyuni has no environment of the project yet, BuildProject is refused
\* and skipped.
BuildSkipped ==
    /\ wk.pc = "decide" /\ shouldBuild /\ envs[wk.p] # "ready"
    /\ Goto("save")
    /\ skipped' = skipped \cup ({wk.p} \cap dirty)
    /\ UNCHANGED <<kube, cache, uyuni, built, dirty, cut, events>>

Builds ==
    /\ wk.pc = "decide" /\ isProjectReady
    /\ built' = [built EXCEPT ![wk.t.label] = @ \cup {srcs[wk.t.label]}]
    /\ dirty' = dirty \ {wk.p}
    /\ cut' = cut \ {wk.p} /\ skipped' = skipped \ {wk.p}

BuildProject ==
    /\ shouldBuild /\ Builds
    /\ wk' = [wk EXCEPT !.pc = "save", !.t.everBuilt = TRUE,
                        !.t.fp = wk.desired]
    /\ UNCHANGED <<kube, cache, uyuni, events>>

\* A build the schedule asks for; and one whose reply is lost.
CronBuild ==
    /\ ~shouldBuild /\ ~wk.changed /\ Builds
    /\ Event
    /\ wk' = [wk EXCEPT !.pc = "save", !.t.everBuilt = TRUE,
                        !.t.fp = wk.desired]
    /\ UNCHANGED <<kube, cache, uyuni>>

BuildReplyLost ==
    /\ shouldBuild /\ Builds
    /\ Event
    /\ Goto("note")
    /\ UNCHANGED <<kube, cache, uyuni>>

SaveStatus ==
    /\ wk.pc \in {"save", "note"} /\ Unsaved
    /\ obj' = [obj EXCEPT ![wk.p] =
                   [wk.t EXCEPT !.observed = @ \/ wk.pc = "save"]]
    /\ wk' = Idle
    /\ UNCHANGED <<realised, envs, cache, uyuni, history, events>>

Conflict ==
    /\ wk.pc \in {"finalizer", "save", "note", "release"} /\ ~Unsaved
    /\ wk' = Idle
    /\ UNCHANGED <<kube, cache, uyuni, history, events>>

\* A call fails: fail stores what the pass has changed in status so far.  To
\* detach a filter that is gone fails every time.
Doomed ==
    \/ /\ wk.pc = "filters" /\ wk.todo = {}
       /\ \E f \in Unwanted : filters[wk.t.ids[f]] = NoFilter
    \/ /\ wk.pc = "filters" /\ \A i \in FilterID : filters[i] # NoFilter
       /\ \E f \in wk.todo : Named(f) = {}

CallFails ==
    /\ wk.pc \in {"project", "sources", "filters", "attach", "decide"}
    /\ IF Doomed THEN UNCHANGED events ELSE Event
    /\ Goto("note")
    /\ cut' = cut \cup ({wk.p} \cap dirty)
    /\ UNCHANGED <<kube, cache, uyuni, built, dirty, skipped>>

Crash ==
    /\ wk.pc # "idle"
    /\ Event
    /\ wk' = Idle
    /\ cut' = cut \cup ({wk.p} \cap dirty)
    /\ UNCHANGED <<kube, cache, uyuni, built, dirty, skipped>>

----------------------------------------------------------------------------
(* handleDeletion, after promotions and owned dependents are gone.         *)

RemoveProject ==
    /\ wk.pc = "remove"
    /\ proj' = proj \ {wk.t.label}
    /\ srcs' = [srcs EXCEPT ![wk.t.label] = {}]
    /\ attached' = {a \in attached : a[1] # wk.t.label}
    /\ Goto("removeFilters")
    /\ UNCHANGED <<kube, cache, filters, history, events>>

RemoveFilters ==
    /\ wk.pc = "removeFilters"
    /\ RemoveAny({wk.t.ids[f] : f \in TrackedFilters(wk.t)})
    /\ Goto("release")
    /\ UNCHANGED <<kube, cache, proj, srcs, attached, history>>

Release ==
    /\ wk.pc = "release" /\ Unsaved
    /\ obj' = [obj EXCEPT ![wk.p].life = "gone", ![wk.p].finalizer = FALSE]
    /\ wk' = Idle
    /\ UNCHANGED <<realised, envs, cache, uyuni, history, events>>

----------------------------------------------------------------------------

Init ==
    /\ obj = [p \in Project |-> IF p = First THEN NewProject(Absent.label)
                                ELSE Absent]
    /\ cache = obj
    /\ realised = Channel
    /\ envs = [p \in Project |-> "some"]
    /\ wk = Idle
    /\ proj = {} /\ attached = {}
    /\ srcs = [l \in Label |-> {}]
    /\ filters = [i \in FilterID |-> NoFilter]
    /\ built = [l \in Label |-> {}] /\ dirty = {} /\ cut = {} /\ skipped = {}
    /\ events = 0

Pass ==
    \/ AddFinalizer \/ CreateOrAdopt \/ ProjectLabelConflict \/ SourcesDone
    \/ AttachFilter \/ DropFilter \/ FiltersDone \/ FiltersUnavailable
    \/ cleanupOrphanedFilters
    \/ Skip \/ BuildSkipped \/ BuildProject \/ CronBuild \/ BuildReplyLost
    \/ SaveStatus \/ Conflict \/ CallFails
    \/ RemoveProject \/ RemoveFilters \/ Release
    \/ \E c \in Channel : AttachSource(c) \/ DetachSource(c)
    \/ \E f \in Filter : \/ DetachFilter(f)
                         \/ \E i \in FilterID : \/ UpdateFilter(f, i)
                                                \/ CreateFilter(f, i)

User(p) ==
    \/ \E l \in Label : Create(p, l)
    \/ AskDelete(p) \/ AskForceDelete(p)
    \/ \E s \in {"none", "some", "ready"} : ChangeEnvironments(p, s)
    \/ \E S \in SUBSET Channel, f \in Filter, v \in 0..MaxCrit :
          EditSpec(p, S, f, v)

Next ==
    \/ Pass \/ CacheSync \/ Crash
    \/ \E p \in Project : Begin(p) \/ User(p)
    \/ \E c \in Channel : ChangeChannel(c)

Spec == Init /\ [][Next]_vars

\* A pass that has begun goes on; the work queue hands out every key that
\* keeps being requeued; the watch delivers.
FairSpec ==
    /\ Spec
    /\ WF_vars(Pass) /\ WF_vars(CacheSync)
    /\ \A p \in Project : SF_vars(Begin(p))

----------------------------------------------------------------------------
(* Properties.                                                             *)

\* The only resource of its label.
Alone(p) == \A q \in Project \ {p} :
               obj[q].life = "absent" \/ obj[q].label # obj[p].label

\* Every variable has its type.
TypeOK ==
    /\ obj \in [Project -> ContentProjectObject]
    /\ cache \in [Project -> ContentProjectObject]
    /\ realised \subseteq Channel
    /\ envs \in [Project -> {"none", "some", "ready"}]
    /\ wk \in Worker
    /\ proj \subseteq Label
    /\ srcs \in [Label -> SUBSET Channel]
    /\ filters \in [FilterID -> {NoFilter} \cup
                      [name : Filter, crit : 0..MaxCrit]]
    /\ attached \subseteq Label \X FilterID
    /\ built \in [Label -> SUBSET SUBSET Channel]
    /\ dirty \subseteq Project /\ cut \subseteq Project /\ skipped \subseteq Project
    /\ events \in 0..MaxEvents

\* The source fingerprint a status keeps is that of a build that really took
\* place with exactly those sources: a change of sources is never taken for
\* built (Reconcile builds after reconcileSources and saves after both).
FingerprintTruthful ==
    \A p \in Project : obj[p].fp = NoBuild \/ obj[p].fp \in built[obj[p].label]

\* A filter change is built by the pass that makes it.  Two things leave it
\* unbuilt when the pass is over, and each is on record: the pass failed or
\* died on the way to the build, or it met a project without environments.
\* (filtersChanged is a local variable of Reconcile: what these passes leave,
\* shouldBuild never hears of again.  See SkippedBuildsAreRetried.)
FilterChangesAreBuilt ==
    wk.pc = "idle" => dirty \subseteq cut \cup skipped

\* The deletion of a project leaves none in Uyuni, whatever step of its
\* making or unmaking was cut short: the finalizer is there before the
\* project is and stays until it is removed.
DeletionIsComplete ==
    \A p \in Project :
       obj[p].life \in {"dropped", "gone"} /\ ~obj[p].force /\ Alone(p)
          => obj[p].label \notin proj

\* A project that is left alone ends up with the sources its spec names and
\* the channels make available, and stays so.
SourcesConverge == <>[](\A p \in Project :
    \/ obj[p].life # "live" \/ ~Alone(p)
    \/ srcs[obj[p].label] = obj[p].sources \cap realised)

\* Not true of the code.  "If build fails due to no environments, skip and
\* retry later", says Reconcile, and shouldBuild "filters changed but waiting
\* for project to be ready": the build of a filter change that was skipped
\* takes place once the environments are there.  The passes that follow find
\* the filters as they should be and build only for another reason.
SkippedBuildsAreRetried == \A p \in Project :
    ~<>[](/\ obj[p].life = "live" /\ envs[p] = "ready"
          /\ p \in dirty \cap skipped)

=============================================================================
