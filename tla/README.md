# uyuni-operator: TLA+ specifications

uyuni-operator is a Kubernetes operator that configures what is inside a
running Uyuni server: organizations, channels, activation keys, systems,
content lifecycle projects, scheduled tasks, image builds.  Every resource kind
has a reconciler that reads Kubernetes objects from an informer cache, calls
Uyuni (JSON over HTTP) or Cobbler (XML-RPC), and writes a status back.  Most of
what can go wrong lies *between* those calls.  These modules model the parts
where that matters most; a call to Uyuni is a step of its own unless "Merged
steps" below says otherwise.

Paths below are relative to the repository root; `PROJECT.json` maps every
definition to the lines it models.

## Inventory

| Component | State it keeps | Operations | Hard behaviour | What makes it correct |
| --- | --- | --- | --- | --- |
| ContentProjectPromotion | status phase, startedAt, promotionRequested | start, request, poll, fail, expire | `PromoteProject` is not idempotent, its effect asynchronous; crash, conflict or lost reply around it | asked once; Succeeded is true; finished is final; it finishes |
| ContentProject | filter ids, sources, build status, environment states | attach, filter, build, delete | shares Uyuni's per-project lock with promotions; deletion waits for promotions; orphaned-filter cleanup is global | project kept under promotions; deletion completes; a changed filter is built |
| ClmEnvironment | chain position | create behind predecessor, remove | changes the chain under a running promotion | the chain in Uyuni is the one the objects spell |
| Client pool | three maps of clients under one mutex | For, ForOrganization, Cobbler, Invalidate, InvalidateOrg | lock dropped while a client is built | rotated credentials leave every map |
| UyuniProvider | credentials, default flag | invalidate | event order | no client outlives its credentials |
| Organization | Uyuni org id, provider snapshot | create, adopt, import, heal, delete | two objects of one name; lost ids; dependents and provider on deletion | a sibling's organization stays; nothing is left behind; deletion ends |
| Task | runs with action ids, phase, rerun annotation | schedule, refresh, record, strip, expire, cancel | scheduling is not idempotent; results come from three calls; retries | runs do not overlap; no rerun lost; history is true |
| System | server id, phase, what was told, channel action, formula generation | pre-create, adopt, reinstall, subscribe, configure, delete | the machine registers while a pass runs; parts compared with a status that lags behind Uyuni | Reconciled is true; a reinstall is not lost; the profile goes with the resource |
| CobblerSystem | netboot value, Cobbler record | forward, apply, note, strip | five writes by two controllers for one value | the value asked for is applied and both statuses say so |
| SoftwareChannel, Repository, ActivationKey, SystemGroup, ConfigurationChannel, CustomInfoKey, Maintenance*, Autoinstall*, ImageStore | one labelled object each, what was told | wait for references, create or adopt, diff and apply, serve a trigger, delete | two resources of one label; triggers over three writes; in-use guards on lists that lag | nobody's object is taken; nothing is left behind; converges to the spec |
| ImageProfile, ImageBuild | action id, image baseline, applied options | trigger, schedule, poll, time out, prune | two controllers and a build host; attribution of an image to a build | scheduled once; an image to roll back to stays; converges |
| Proxy, PackageCleanup | a Secret; a schedule | regenerate; select and remove packages | - | - |
| Webhooks, validation | none | admit, freeze specs | decide on the old object's status, which a pass may be about to change | history is not rewritten |
| Uyuni and Cobbler clients | session | remote calls | lost replies, several calls for one answer | - |

Components interact in four ways: through Kubernetes objects (optimistic
concurrency on writes, lagging reads), through Uyuni and Cobbler (shared,
serialised per project, asynchronous), through the client pool (shared memory),
and through annotations one controller sets and another strips.

## Conventions of the models

- **A pass is several steps.**  A worker record (`wk`; `swk`, `cwk`,
  `wp`, `wb` where there are two) holds the program counter and the objects the pass has in memory.  Between two API calls
  anything may happen: other controllers, users, crashes.  Each controller has
  one worker, because the repository leaves controller-runtime at its default
  of one concurrent reconcile per kind; the pool is called by all controllers,
  so there the number of workers is a parameter.
- **Reads are stale.**  `cache` is the informer's copy.  A pass begins with it;
  beginning with a stale copy counts as a disturbance, so its number is bounded.
- **Writes conflict.**  `Save` succeeds only if the object is the one the pass
  has read; otherwise the pass ends and is retried, as `r.Update` and
  `r.Status().Update` do.  `r.Patch` is not refused, and its answer replaces the
  pass's copy (`PatchedProfile`, `PatchedBuild` in Images).
- **Resource versions.**  The API server compares versions, not contents.
  Netboot counts them; System and Claim keep what a version tells: whether the
  informer's copy has been overtaken (`cacheOld`), and whether somebody has
  written since the copy of the pass was taken (`passOld`, `Overtaken`).
  Comparing contents instead lets a pass write over an object that was changed
  and changed back, such as an annotation stripped and set again.  The attempt
  to prove `ReinstallNotForgotten` found that: with contents, three
  disturbances drop a request, which the real check excludes.  Promotion, Task,
  Organization, ContentProject and Images compare contents: they let through a
  write that the version check would refuse, and a pass refused by its version
  alone is in them one that was cut short by a crash.
- **Disturbances are counted.**  `MaxEvents` (`MaxChanges` in the pool) bounds
  user edits, crashes, failed calls and stale reads.  The proofs hold for every
  bound.  Steps of the program itself are never bounded, except by the number
  of action ids in `Task`.
- **History variables** (`calls`, `lost`, `again`, `late`, `landed`, `moved`,
  `orphan`, `wanted`, `cut`, `skipped`, `untold`, ...) are read by properties only,
  never by a guard.  Where a property excepts something, the exception is a history
  variable, its comment names every way into it, and if a line of the repository
  promises the contrary a configuration refutes that promise (see "Behaviours that
  contradict a comment").
- **Merged steps.**  Calls that are one step in the models: in Claim, the list of
  the other resources (the informer's, which commutes with what happens in Uyuni)
  with the lookup, the read after create with the step that follows, and the calls
  for one part of an object (`PutParts`); in System, the calls of one aspect of `applyConfig`, and the
  two reads of the subscription with the change they lead to; in Organization, the
  list of dependents and siblings with the beginning of the pass (all are informer
  reads); in ContentProject, the removals of filters that one loop makes, each of
  which may fail by itself (`RemoveAny`), and the reads (ListSources, ListFilters)
  with the decision they are for; in Images, the
  two reads of a poll (`pollAction`).
- **Failures left out.**  A Kubernetes write that fails for another reason than a
  conflict is taken as a pass cut short, which each module has.  Three cases in Images
  are left out: the list of images failing within a poll (the image is found by the
  next one), the status a build writes while its profile or host is not ready (nothing
  reads it), and the patch that strips an ImageBuild's build-now failing, after which
  `r.fail` stores the emptied status and the next pass schedules anew, as was asked.
- Conditions, messages, timestamps, owner references and field values that no
  modelled decision reads are left out.

Definitions whose name extends another's (`PollVerdictRaw`, `RecordRunStripsFirst`,
`SharedEvictedNone`, ...) are variants with one plausible bug each.  They show
that each property can fail; `PROJECT.json` pairs them.

## Modules

### Promotion
`internal/controller/contentprojectpromotion_controller.go`, with the parts of
the ContentProject and ClmEnvironment reconcilers and of the webhook that a
promotion meets, and Uyuni's content lifecycle service.

| Code | Model |
| --- | --- |
| checks before the request, in their order | `Verdict` (`SourceMissing`, `SourceNotBuilt`, `VersionMismatch`), taken by `Begin` on the informer's copies of the promotion and of its project (`projSeen`, `ProjectSync`); `BeginNoClient`, `BeginTooEarly` for the pool error and `notBefore` |
| `pending`, `fail`, first status write | `SavePending`, `SaveFail`, `SaveStart` |
| `PromoteProject` and its errors | `Promote`, `PromoteReplyLost`, `PromoteBusy`, `PromoteRefused` |
| `promotionRequested = true` | `SaveRequested` |
| poll and its switch | `Poll`, `PollVerdict`, `SaveSucceeded` |
| expiry | `GarbageCollect` (any time after the end) |
| `ValidateCreate`, `ValidateUpdate` | `Create`, `EditPair` under `SpecEditable`, `EditTTL` |
| project reconciler | `ProjectRefresh`, `ProjectBuild`, `DeleteProject`; the deletion in steps: `CheckPromotions` (`activePromotions`), `RemoveProject`, `ReleaseProject`, `DeletionFails`, `ProjectForceDelete` |
| environment reconciler | `EnvReconcile`, `EnvHandleDeletion` with the chain `succ` |

`BuiltVersion` is 0 for every environment because `refreshEnvironmentStates`
never assigns the field.  Uyuni is taken to show the target as being built from the
moment it accepts the request: the sources do not say, and if it showed the build
before with a delay, the first poll could take that one for the answer.

Two windows are open in the code and are told apart from everything else by a
history variable each.  `again` counts the calls for a promotion that was on record
already, made by a pass that began on an outdated copy of it: the guard
`promotionRequested` is read from the informer.  `late` are the promotions that
the informer had not shown when a deletion counted the active ones; they may lose
their project.

### ClientPool
`internal/pool/pool.go` with `providersForSecret` and the Organization
reconciler.  A credential is the version of the Secret it was read from; a
client is whose credentials it has and their version.  A cache hit changes
nothing and is no step; a miss is `For`, `Cobbler` or `ForOrganization`, then
`Resolve` (or `BuildOwn`, `ShareCached`, `ShareMiss`, `ResolveFromSnapshot`),
then `Insert` and `InsertOrg` under the lock.  `Invalidate` and `InvalidateOrg`
fall between.  `Key` pairs an Organization with the spelling it was looked up
by, because the map is keyed by the name in the reference.

A pass over an Organization gets its client from the pool (`OrgForHit`, or
`OrgForMiss` and `OrgForInsert`), looks the organization up, and only when it finds
or makes it drops the cached client (`OrgFound`, with `InvalidateOrg`) and writes
the snapshot (`OrgSave`).  `OrgPassFails` takes any of the error exits before that;
`BreakOrg` makes the organization one that every pass fails on (an id that is gone,
a name taken), until `RepairOrg`.

### Task
`internal/controller/task_controller.go`, the update webhook, and the scheduling
calls of `internal/uyuni/client.go`.  `Refreshing` and the three reads
`ReadCompleted`, `ReadFailed`, `ReadInProgress` are `refreshActiveRuns` over
`GetActionResults`; `Decided` is the trigger decision; `ScheduleCall` is one
remote call (one per system for reboots, one per task otherwise); `RecordRun`,
`StripAnnotation`, `WriteStatus` are the three writes in their order;
`TTLExpired` deletes without a precondition; `CancelActions` and `ReleaseTask`
are `handleDeletion`.

### Netboot
The netboot value from the System over the CobblerSystem to the Cobbler record
and back: `system_controller.go` (`reconcileCobblerSystem`,
`reconcileNetbootAnnotation`) and `cobbler_controller.go` (`Reconcile`,
`reconcileNetbootAnnotation`, `clearParentSystemNetboot`).  Objects carry their
resource version, so that a write by an old copy is told apart from one by a
current copy even if the contents agree.  `savesBareRecord` says whether Cobbler
saves a record that has a name and netboot only, as `setNetbootOnce` makes it when
there is none.  The sources do not decide it, so it is a variable that starts as
either and stays: the run has both kinds of Cobbler.  With one that refuses, a value
that meets no record fails every pass before `UpsertSystem`; `Refused` is that
situation, and `IntentApplied` excepts it.

### Organization
`internal/controller/organization_controller.go` and the create and update
webhook, with two resources of one `spec.name`.  `FirstStep` is the head of
`Reconcile`; `ImportByID`, `HealByID`, `findRealizedDuplicate`, `AdoptByName` and
`createOrg` are its branches; `SaveStatus`, `SaveNote` the two status writes;
`handleDeletion`, `DeleteOrganization`, `Release` the deletion with
`organizationDependent`, `sharedByOther` and `clientFromSnapshot`, which reads the
Secret of the snapshot while it runs and fails when that is missing (`ChangeSecret`).
A dependent is of one of the thirteen kinds that `organizationDependent` lists, or
of another (`Dependent`); it holds the deletion up only in the first case.  Uyuni's side
is `uy`, what each id holds: nothing, an organization of that name, or one that
was renamed by hand.  The client pool is left to ClientPool.

### ContentProject
`internal/controller/contentproject_controller.go` between the promotions:
`resolveSources`, `AttachSource`/`DetachSource`, `UpdateFilter`, `CreateFilter`,
`AttachFilter`, `DetachFilter` and `DropFilter`, `cleanupOrphanedFilters`,
`shouldBuild`, `BuildProject`, `SaveStatus` and the deletion (`RemoveProject`,
`RemoveFilters`, `Release`).  Any filter that is to be removed may survive its
removal, since the code logs the error and goes on (`RemoveAny`).  A filter change
lives in a local variable of the pass: `dirty` are the projects with one that was
not built, `cut` and `skipped` those whose pass failed or died, or met no
environment, after it.  Nobody but the operator attaches or detaches a source.
`spec.build.autoBuildSources` is taken as set and
the cron deadline may pass at any time.  Environments are reduced to what
`isProjectReady` and `areEnvironmentsReady` ask of them.

### System
`internal/controller/system_controller.go` without netboot: `findOrAdopt`,
`CreateSystemProfile`, `RecordProfile`, `AwaitRegistration`, `ProvisionSystem`,
`RecordReinstall`, `StripReinstall`, `SubscribeChannels`, `ApplyAspect`,
`SaveReconciled`, `DeleteSystem`.  A spec sets *aspects*; live ones are compared
with Uyuni, told ones (groups, configuration channels, proxy) with the status,
formula data with the generation last pushed.  The aspects still to apply are a
set, and `Foremost` takes them in the order of `applyConfig`.  `untold` are the
aspects that the status calls set and the system never got or no longer has on
record: a pass that set them crashed or met a conflict, the status came to name
another system, or `StripFormulas` overwrote the pass's status, because `r.Update`
decodes the stored object into it (`Reload`).  A read of the
subscriptions that fails counts as no subscription: without a base channel the change
is made directly and its action is not tracked, without children it is scheduled again.

### Claim
The thirteen reconcilers that keep one object of Uyuni known by its label.  They
follow one protocol and differ in detail, and the module is written that way: a
*script* per kind lists the steps of its `Reconcile` in their order (`Await` a
reference, `Realise`, `Put` parts, `Serve`, `Record` and `Strip` a trigger,
`Save`); a record per kind says what its `handleDeletion` deletes and waits for;
and five sets say what a part is compared with (`Snapshot`, `Fresh`, `Told`,
`Pushed`, `Named`).  `keeps` in a step tells `r.fail`, which stores the status,
from a plain error, which loses it.  Adding a kind is adding a script.
`LookUp` and `CreateObject` are two calls, so that somebody else may make the object
between them (`AdminCreates`, "already exists"); `SyncOnCreate` comes after the strip
of sync-now, as in the code.  The
AutoinstallProfile appears three times, for its modes.  ImageStore is taken with
credentials, so that its options are pushed every time.

### Trigger
The abstract specification of the one-shot annotations, from
`api/v1alpha1/annotations.go`: asked for by a user, served at least once, and
stripped only then.  Claim implements it: `OneShot == INSTANCE Trigger WITH`
maps `asked` to the resources that carry the annotation and `owed` to those whose
request has not reached Uyuni; `TriggersServed` is `OneShot!Spec`, for
refresh-now, apply-formula-values and a ConfigurationChannel's sync-now.  A
SoftwareChannel's sync-now is left out of the mapping since it does not implement
the promise (see `SyncNotForgotten` below).  Task and System implement it too:
rerun is served by a run on record (`RerunIsOneShot`), reinstall-now by
`ProvisionSystem` (`ReinstallIsOneShot`).  Both imply that a request is not
forgotten (`RerunNotForgotten`, `ReinstallNotForgotten`, which the proofs state on
their own) and say that nothing but a new request brings the annotation back.

### Images
`imageprofile_controller.go` and `imagebuild_controller.go` with Uyuni's build
host, each controller with its own worker.  `acts` are Uyuni's actions, `images`
the ids of images; an image's id appears some time before its action ends.
`onChange`, `BuildName`, `handleBuildTriggers`, `EnsureProfile` with `ReadCreated`,
and the retention as `MirrorLatestBuild`, `ListForRetention` and one `PruneBuild`
for each ImageBuild are the profile's side; `Recheck` (the uncached
`AlreadyScheduled`), `ListImages` for the baseline, `ScheduleImageBuild`,
`pollAction` (`FindImage`, `BuildStatus`), `CleanupBuild` and `DeleteImage` the
build's.  `BuildCallFails` is the path of `r.fail` around the calls: a failed poll
changes nothing; a build that could not be scheduled keeps its baseline, whether
Uyuni refused it or has it and the answer was lost.  When the uncached read fails the
pass goes on to schedule, by the informer's copy.  An action is in `cut` when its
answer or status write was lost, or when such a failed read hid the one before it.
`dropped` says that a build-now met an ImageBuild of its name, or that a generation
came in with the patch that strips a build-now and was marked observed unbuilt.

### How the modules meet
No module instantiates two controllers that another already has.  A System's
netboot and the rest of its pass write different parts of one object and share
only conflicts, which each module has; projects and promotions share Uyuni's lock,
which is in Promotion; the Organization's pass and the pool share `InvalidateOrg`,
which is in ClientPool; a resource that waits for another's status is `Await` in
Claim, `missing` in Images and `ready` in System, undone and restored at any time,
which is more than the other controller can do.

## Runs

| Run | Checks | Shows |
| --- | --- | --- |
| `promotion` | `TypeOK`, `EveryExtraCallHasACause`, `SucceededMeansDelivered`, `InFlightKeepsProject`, `TerminalIsFinal` | one promotion, three environments, three disturbances: every accepted call is on record, was lost to a named cause, or was made on an outdated copy; a reported success is a build finished after the request; the deletion takes the project from no promotion it could see |
| `promotion_live` | `Terminates` | two promotions that exclude each other in Uyuni both finish |
| `pool` | `PoolTypeOK`, `FreshUnlessRaced`, `OrgClientsCatchUp` | a call and a pass over an Organization: after the Secret event all three maps are fresh unless a call straddled the eviction; an Organization's client changes with its credentials unless its passes keep failing |
| `task` | `TypeOK`, `RunsDoNotOverlap`, `HistoryMatchesSpec`, `DeletionCancels`, `RerunIsOneShot` | a reboot task on two systems, history of one run, four actions, two disturbances |
| `task_live` | `Settles`, `RerunServed` | a task reaches a terminal phase and serves its reruns |
| `netboot` | `TypeOK`, `IntentKept`, `StatusAgrees`, `IntentApplied` | three disturbances anywhere in the five writes, two if Cobbler refuses bare records: the value asked for is applied and both statuses say so |
| `organization` | `SiblingsKeepTheirOrg`, `NothingLeftBehind`, `DeletionCompletes` | two Organizations of one name, two disturbances: no deletion takes a sibling's organization, none is left that no resource knows, and deletion ends even after the provider's |
| `content_project` | `FingerprintTruthful`, `FilterChangesAreBuilt`, `DeletionIsComplete`, `SourcesConverge` | two projects of one label or of two that share a filter name: the fingerprint is that of a build that took place, a changed filter is built by the pass that changes it unless that pass is cut short or has no environment, deletion leaves no project, sources converge |
| `system` | `ReconciledMeansConfigured`, `DeletionLeavesNoProfile`, `SystemConverges`, `ReinstallIsOneShot` | a profile and a machine that registers, two disturbances: Reconciled is true but for `untold` aspects, a reinstall is not dropped, a deleted resource leaves no profile, an adopted machine is configured |
| `claim` | `OthersKeepTheirs`, `NothingLeftBehind`, `TriggersServed`, `ClaimsConverge` | thirteen kinds; two resources of one label for a kind whose object is deleted by its id and one of the others |
| `images` | `ScheduledOnce`, `RollbackKept`, `ImagesConverge` | three profiles: builds on change and keeps one build; builds when asked and limits failed builds only; has no build host.  A stale copy alone schedules nothing twice, an image to roll back to stays, all settles but a generation that was dropped |

### Behaviours that contradict a comment

One regular run states what a comment says and shows a behaviour of the code that
breaks it: `promotion_deletion` (`DeletionCompletes` of Promotion).  A project whose
status says Building, because of a build of its own, is deleted; from then on no pass
refreshes that status; a promotion waits for it, and the project waits for the
promotion.  It is listed in `PROJECT.json` under "findings".

Seventeen further configurations refute properties in the same way.  They are kept
here to be run by hand (`tlc -config <cfg> <module>`) and are not among the
regular runs:

| Configuration | Property | Line that says so | Behaviour TLC finds |
| --- | --- | --- | --- |
| `MCPromotionGate.cfg` | `GateDecides` | `contentproject_types.go:140` | with `requireSourceVersion` set, a promotion from a built environment stays Pending for ever: `refreshEnvironmentStates` never assigns `BuiltVersion` |
| `MCPromotionTwice.cfg` | `CalledAtMostOnce` | `contentprojectpromotion_controller.go:120` | a pass begins on a copy from before the request was recorded and promotes a second time; its status write conflicts |
| `MCPromotionRemoved.cfg` | `ActivePromotionsBlock` | `contentproject_controller.go:180` | a promotion the informer has not shown yet is not counted, and its project is removed |
| `MCClientPoolAlias.cfg` | `EveryOrgClientCatchesUp` | `pool.go:37` | the client cached under the Organization's display name is never evicted |
| `MCClientPoolStuck.cfg` | `StuckOrgCatchesUp` | `pool.go:37` | while every pass over an Organization ends in an error before `InvalidateOrg`, its old client stays |
| `MCTaskRerun.cfg` | `OneRunPerRerun` | `task_controller.go:75` | the strip of the annotation fails, the run ends, the retry runs the task again |
| `MCTaskLists.cfg` | `SucceededMeansAllSucceeded` | `client.go:2691` | a system fails between the reads of the failed and the running list and is in neither |
| `MCNetbootLost.cfg` | `IntentNeverLost` | `system_controller.go:850` | the second of two values is stripped with the first and never applied |
| `MCNetbootRefused.cfg` | `EveryIntentApplied` | `system_controller.go:850` | Cobbler refuses a record without a profile: a value set before there is a record fails every pass before the pass gets to make one |
| `MCOrganizationKinds.cfg` | `OrgScopedResourcesBlock` | `organization_controller.go:309` | a resource of a kind that `organizationDependent` does not list outlives its organization |
| `MCContentProjectRetry.cfg` | `SkippedBuildsAreRetried` | `contentproject_controller.go:134` | a filter changes while the project has no environment; the build is skipped and no later pass knows of the change |
| `MCSystemReinstall.cfg` | `ReinstallFiresOnce` | `annotations.go:35` | a conflict, crash or stale copy after `ProvisionSystem`: the next pass still sees the annotation and schedules the reinstallation again |
| `MCSystemUntold.cfg` | `EverySettingArrives` | `system_controller.go:523` | a machine registers a second time and the System adopts the new id; the groups its status lists are taken for set |
| `MCSystemStrip.cfg` | `StripKeepsStatus` | `system_controller.go:1062` | the update that strips `apply-formula-values` decodes the stored status over what the pass has recorded |
| `MCImagesOwn.cfg` | `ImageIsOwn` | `image_types.go:265` | two builds run at once, each takes the first image above its baseline, and one of them has the other's, which it deletes with itself |
| `MCImagesRebuild.cfg` | `BuildNowReschedules` | `imagebuild_controller.go:104` | build-now on an ImageBuild with an action is stripped; the pass goes back to polling the old action |
| `MCImagesStrip.cfg` | `ObservedIsBuilt` | `image_types.go:113` | an edit made during a pass comes in with the strip of build-now, is marked observed by that pass, and is neither applied nor built |

Two more properties are stated and are known not to hold: `LabelClaimedOnce` of
Claim (two resources claim one label when neither informer has the other's claim,
or when both adopt at a kind without the check) and `SyncNotForgotten` (sync-now
of a SoftwareChannel is stripped although a sync that was running kept it from
being submitted: `softwarechannel_controller.go:227`, against "Stripped after the
sync is submitted", `annotations.go:27`).  The modules added after the first four
define their `TypeOK` without a run of it among the regular ones; it holds under
the same configurations, and is proved.

### Bounds
- Promotion: three environments are a source, a target and one that can be
  inserted or removed between them.  One promotion suffices for the safety
  properties, as promotions meet only through Uyuni's lock and a build by the
  project holds the same lock; liveness has two.  Three disturbances cover
  crash + edit + chain change; the requested call, its loss and the retry need
  one.
- Pool: one caller and the pass over the Organization are two holders of clients,
  one of which inserts while the other reads; one provider and one Organization under
  two spellings reach all three maps; three changes are a rotation during or after
  another with a pass that fails.
- Task: two systems let a reboot fail half-way and let a run be mixed; four
  actions are two reboots of both; a history of one run exercises trimming.
- Netboot: three disturbances are two values and a crash, or a value, its
  crossing and a stale read; where Cobbler refuses bare records, two are a value
  and the failure that leaves it without a record.
- Organization: two resources are the smallest number that can share; two
  organization ids let one be created anew after one is lost; two disturbances
  are a lost id and a stale read.
- ContentProject: two projects, of one label or of two, and one filter name both
  use; one channel is enough for a source to be missing, extra or in sync.  One
  disturbance (an edit, a cut, a failing or a stale pass), as each already meets
  every step of both projects' passes.
- System: two ids in Uyuni are a profile and the machine, or a machine that
  registers twice; three aspects, one of each way to be compared; three
  generations and two disturbances are an edit during a pass and a cut.
- Claim: every kind with two disturbances, and with two resources of one label
  one disturbance besides the deletions, which are not counted; two generations
  and two values are a change and its reversal.
- Images: two generations; one disturbance for the profile that builds on change,
  two for the one that builds when asked, as the request is one of them.

Deadlock is not checked where the system may rest (all promotions finished or
deleted, the task gone, no change left); in Netboot the controllers never rest,
and it is checked.  No symmetry is used.

### Fairness
Weak fairness of the steps of a pass: calls return, with an answer or an error
(the clients have timeouts).  Weak fairness of `Begin`: every exit of the
modelled reconcilers requeues or returns an error, which controller-runtime
retries.  With two promotions sharing one worker `Begin(p)` is enabled only
while the worker is free, and the work queue is FIFO, so it is strongly fair.
Informers catch up (`CacheSync`), Uyuni finishes builds and actions with some
result, Organizations are reconciled every ten minutes; that a pass finds its
organization is strongly fair (`OrgFound`), so a pass that could succeed does so in
the end, and one that never can is `stuck`.  Nothing is assumed of
users, crashes, lost replies, expiry or the project's builds.

In the modules with one worker for several resources (Organization,
ContentProject, Claim) and in Images, where a conflict sends a pass back, `Begin`
is strongly fair for the same reason.  Every exit of these reconcilers asks for
another pass (`RequeueAfter`) or returns an error; the one that does not (a System
whose adoption timed out, `AdoptionTimedOut`) is modelled by `armed` in System:
nothing is assumed of them until the object changes.  References that vanish need
not come back; the convergence properties speak of resources that have theirs.

## Proofs

TLAPS proves these for every value of the constants that satisfies the named
assumptions (typing of the parameters, `NoEnv` not an environment, `None` not a
provider, a positive history length); TLC evaluates the assumptions in the runs.
Each module `XProofs` extends `X`; `OrganizationProofs` also has the proofs about
`ClientPool`, whose definitions therefore carry `Pool` in their names (`PoolSpec`,
`PoolTypeOK`): the two modules share `InvalidateOrg`.

| Theorem | Statement |
| --- | --- |
| `PromotionTypeOK`, `PoolTypes`, `TaskTypeOK`, `NetbootTypeOK`, `OrganizationTypeOK`, `ContentProjectTypeOK`, `SystemTypeOK`, `ClaimTypeOK`, `ImagesTypeOK` | type correctness of each module |
| `ExtraCallsHaveACause` | `Spec => []EveryExtraCallHasACause` |
| `ProjectKeptInFlight` | `Spec => []InFlightKeepsProject` |
| `FinishedStaysFinished` | `Spec => TerminalIsFinal` |
| `SuccessIsDelivery` | `Spec => []SucceededMeansDelivered` |
| `PoolFreshUnlessRaced` | `Spec => []FreshUnlessRaced` |
| `TaskHistoryMatchesSpec` | `Spec => []HistoryMatchesSpec` |
| `TaskRerunNotForgotten` | `Spec => []RerunNotForgotten` |
| `TaskRunsDoNotOverlap`, `TaskDeletionCancels` | `Spec => []RunsDoNotOverlap`, `Spec => []DeletionCancels` |
| `TaskRerunIsOneShot` | `Spec => RerunIsOneShot`: Task implements Trigger |
| `NetbootIntentKept`, `NetbootStatusAgrees` | `Spec => []IntentKept`, `Spec => []StatusAgrees` |
| `OrganizationSiblings`, `OrganizationNothingLeftBehind` | `Spec => []SiblingsKeepTheirOrg`, `Spec => []NothingLeftBehind` |
| `ContentProjectFingerprint`, `ContentProjectFilters`, `ContentProjectDeletion` | `Spec => []FingerprintTruthful`, `Spec => []FilterChangesAreBuilt`, `Spec => []DeletionIsComplete` |
| `SystemReinstallNotForgotten`, `SystemDeletion`, `SystemReconciled` | `Spec => []ReinstallNotForgotten`, `Spec => []DeletionLeavesNoProfile`, `Spec => []ReconciledMeansConfigured` |
| `SystemReinstallIsOneShot` | `Spec => ReinstallIsOneShot`: System implements Trigger |
| `ClaimTriggersServed` | `Spec => TriggersServed`: Claim implements Trigger |
| `ClaimOthersKeepTheirs`, `ClaimNothingLeftBehind` | `Spec => []OthersKeepTheirs`, `Spec => []NothingLeftBehind` |
| `ImagesCopies` | `Spec => []CopyInv`: what every copy of an ImageBuild tells of the stored one |
| `ImagesScheduledOnce`, `ImagesRollbackKept` | `Spec => []ScheduledOnce`, `Spec => []RollbackKept` |

None of these properties is inductive, for one reason: a pass decides on a copy
and acts several steps later.  Each inductive invariant therefore says what the
copy still tells of the object (because the cache is an earlier state, because a
write that conflicts is refused, or because there is one worker), and what a
pass has done so far at each program counter.  TLC checked every one of them on
the instance of the module's run before it was proved.  The larger proofs do not
go action by action: a lemma sorts the steps by what they change (`StepShape`,
`Form`, `Fate`), and the invariants are proved for the sorts.

- **Promotion.**  The account of calls needs that a pass past the guard holds an
  unrequested object, or an outdated one (`WorkerReads`): a call for a recorded
  promotion comes from the second kind and is counted in `again`.  That the project
  is kept needs that the cache is an *earlier version* of the object (`CacheLags`):
  if the count sees no active promotion in the cache, those it could see have
  finished for good.  `Cleared` carries that from the count over the removal: from
  `CheckPromotions` on, every promotion that is not `late` is gone or finished.
  `Delivery` is inductive on top of it (`DeliveryHolds`): while chain and spec are as
  requested, Uyuni's last accepted target is the promotion's, so what the poll
  finds built is the build that was asked for.
- **ClientPool.**  The invariant adds clients on their way into a map (`Held`)
  and what a call in progress knows (`JobOK`).  `raced` is exactly the condition
  under which `Held` may fail.
- **Task.**  `RanAsIs` holds of the stored task, the cached copy and the copy in
  memory: an edit is possible only before a run is on record, and recording
  conflicts with every edit.  For reruns, `StripAnswered` says that the
  annotation about to be stripped is the one a recorded run answers, since no new
  request can be made while it is set.  `RInv` carries the account of actions:
  what a copy calls ended has ended (`Truthful`), the ids the pass holds are of
  the run it has just scheduled (`Holding`), what it has read of the results is
  still so (`Reading`), and everything else that is open is an orphan or belongs
  to the latest run on record (`OneOpen`).  The refinement of Trigger needs only
  `IInv`: recording the run is its `Serve`, the strip its `Strip`, and whatever
  ends the life of the task its `Withdraw`.
- **Netboot.**  `Copies` (a copy with the stored version number is the stored
  object), `Uncrossed` and `Carries`: while an uncrossed value waits, a pass that
  could strip the System holds an old version of it.  `SInv` adds that as long
  as no values cross there is one value on its way (`OneValue`), and who has been
  told of it (`Noted`, `Told`).
- **Organization.**  `IInv` says how far a resource and an id have come (`Lives`,
  `Numbered`), what a reconciling pass may write (`Holds`), what a deleting pass
  has seen (`Deletes`: no live sibling, unless it is marked as blind), and where the id of a made organization is kept (`AllKnown`: in a
  status, or in the pass that is about to save it).
- **ContentProject.**  `Reads`: the resource of a pass that keeps a project still
  has its finalizer, because a pass that releases it has seen the deletion in the
  cache, and the cache never goes back.  From the last change of the sources to
  the build they are the pass's (`InSync`).  A pass that changed a filter has all
  filters of the spec tracked when it comes to decide (`Tracks`), so the build is
  due; `Pending` says that a change neither built nor excused is the running
  pass's own.
- **System.**  Four layers, each inductive relative to those below: types; what a
  current copy has in common with the resource, and that an unserved request is
  on the resource and no pass is about to strip it (`ReinstallInv`); that every
  system the operator made is known or abandoned (`DeletionInv`); and that the
  aspects a pass has been through are configured as the spec has them, or its
  writes will be refused (`ConfigInv`).
- **Claim.**  Which steps a kind takes is data (a script), so steps are described
  by their `Fate`.  `Base` relates cache, copy and resource.  `Served` gives the
  refinement: an owed trigger is still there, and a pass that has served one
  strips it only if nobody asked again; `TriggerStep` is the step of Trigger a
  step of Claim maps to.  A lookup that finds nothing is a fate of its own (`Misses`),
  after which the object may appear.  `ClaimedOnce` says that both resources claim one object
  only in the named cases, `Kept` that whatever the operator made has a resource
  that will delete it, by the label or by the status, according to the kind.

- **Images.**  `CopyInv` is about the copies of an ImageBuild in the API server,
  the informer and a pass.  `CopyOK` says what makes sense of a copy by itself (an
  action of its own, that action's image, Succeeded only of a completed one);
  `Keeps` what the stored ImageBuild still has of an older copy: once it has the
  finalizer only a pass removes it, only a pass writes its status, and there is
  one pass at a time.  `RemovingInv` and `GoingInv` say it of the running pass,
  and `LateInv` that a build given up has ended or is late.  For `ScheduledOnce`,
  `ActionsInv`: an action that is not in `cut` (neither lost nor hidden) is in the status of the ImageBuild
  it was made for or in the pass about to write it there, so a pass that finds
  none has nothing to repeat, and a new ImageBuild of an old name is younger than
  every action.  For `RollbackKept`, `ImagesInv`: every image was made by one
  action (`MadeOnce`) and Uyuni has the image of each ImageBuild that is not being
  deleted (`HasImage`), as only the deletion of its own takes it; and `KeptInv`:
  some succeeded ImageBuild is not older than any that the informer knows to have
  succeeded (`Newest`), so the list that pruning goes by does not reach it; and as the
  list is worked off one deletion at a time, `DoomedInv`: for each succeeded ImageBuild
  still on it there is a younger one that is not.  That
  a finite set of numbers has a largest one is proved by a smallest
  counterexample (`FiniteIsBounded`), without induction over data.

Only model-checked: the liveness properties (`Terminates`, `OrgClientsCatchUp`,
`Settles`, `RerunServed`, `IntentApplied`, `DeletionCompletes` and the convergence
properties), as fairness is out of the prover's reach.

## Not modelled

Wire formats and HTTP, Git and RPM readers, generated code, manifests, the
manager's wiring.  Proxy (one container configuration into one Secret behind an
input hash) and PackageCleanup (a schedule over package data).  Within modelled
components: import mode of Cobbler objects and their distributions and profiles,
findOtherDefault, the resolution of channel references by name (a reference
resolves or does not), the conversion of formula values, single files of a
configuration channel and packages of a channel, custom info, patches and hardware
facts of a System, the owner reference to an Organization.
A spec change of a UyuniProvider (a new URL) evicts nothing in the code, and is
no action here; Secrets outside the operator's namespace are not watched, and the
pool's properties are stated for the `Watched` providers.

## Plan

Done: the ten modules above, and the proof of every safety property the regular
runs check and of every module's types.  Next, in order:

1. **Trigger for build-now**: Images as another implementation of Trigger, with the
   drop that `dropped` records.  It needs the requests not yet served as a history
   variable.
2. **Resolution**: channel references (`channelresolve.go`) and the environment
   order (`envchain.go`) as functions checked against a reference definition.
3. **Proxy**: regeneration behind the input hash with the annotation `regenerate`.
