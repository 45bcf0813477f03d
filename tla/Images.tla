------------------------------- MODULE Images -------------------------------
(***************************************************************************)
(* Image builds: internal/controller/imageprofile_controller.go and        *)
(* imagebuild_controller.go.  An ImageProfile keeps an image profile in    *)
(* Uyuni and, on a change of its spec or on the build-now annotation,      *)
(* creates an ImageBuild, named after the generation or the version.  The  *)
(* ImageBuild's controller schedules the build in Uyuni, polls its action  *)
(* and finds the image it made: the first one with an id above the highest *)
(* id known when it was scheduled.  The profile prunes finished builds by  *)
(* its retention policy; deleting an ImageBuild deletes its image.         *)
(*                                                                         *)
(* The two controllers run at once, each with one worker, on informer      *)
(* copies that may be stale.                                               *)
(***************************************************************************)
EXTENDS Naturals, Sequences, FiniteSets, FiniteSetsExt

CONSTANTS
    Profiles,   \* the buildPolicy, buildHostRef and retention to look at, each
                \* with its bound on disturbances: edits, build-now requests,
                \* failures, crashes, stale reads, references undone, deletions
    MaxGen,     \* bound: generations of the profile's spec
    MaxEvents   \* the largest of those bounds

ASSUME ConstantsAssumption ==
    /\ Profiles \subseteq [policy : {"manual", "onChange"}, host : BOOLEAN,
                            retain : {"none", "succeeded", "failedOnly"},
                            events : 0..MaxEvents]
    /\ MaxGen \in Nat \ {0} /\ MaxEvents \in Nat

VARIABLES
    cfg,       \* what the profile's spec never changes here
    prof,      \* the ImageProfile in the API server
    profSeen,  \* the informer's copy
    build,     \* the ImageBuilds in the API server
    buildSeen, \* the informer's copies
    missing,   \* references that do not resolve now
    wp,        \* the ImageProfile controller's worker
    wb,        \* the ImageBuild controller's worker
    held,      \* the image profile in Uyuni
    acts,      \* Uyuni's build actions, by id
    images,    \* the ids of the images in Uyuni
    old,       \* builds that were scheduled longer ago than their timeout
    cut,       \* history: actions whose id was lost with the answer or with the
               \*          status, or hidden by an uncached read that failed
    mixed,     \* history: a build took an image that another one made
    dropped,   \* history: a "build-now" found an ImageBuild of its name, a
               \*          strip brought in a "generation" the pass had not applied
    made,      \* history: the last generation an ImageBuild was created for
    undone,    \* history: the user deleted an ImageBuild
    revived,   \* history: a build that was given up was recorded as Succeeded
    built,     \* history: a build was recorded as Succeeded
    events     \* disturbances so far

history == <<cut, mixed, dropped, made, undone, revived, built>>
uyuni == <<held, acts, images>>
kube == <<cfg, prof, build, missing>>
seen == <<profSeen, buildSeen>>
vars == <<kube, seen, wp, wb, uyuni, old, history, events>>

\* Names: one per generation, and one for the version that the annotation
\* build-version pins (or the minute of the request).
GenBuild(g) == g
VersionBuild == MaxGen + 1
Name == 1..(MaxGen + 1)

Kiwi == {1, 2}

\* applied, observed, last and ready are the status.
ImageProfile == [life : {"live", "deleting", "gone"}, fin : BOOLEAN,
                 force : BOOLEAN,
                 gen : 1..MaxGen, kiwi : Kiwi, now : BOOLEAN,
                 applied : Kiwi \cup {0}, observed : 0..MaxGen,
                 last : BOOLEAN, ready : BOOLEAN]

\* action, base, image and bs are the status; born orders the creations.
ImageBuild == [life : {"none", "live", "deleting"}, fin : BOOLEAN, born : Nat,
               now : BOOLEAN, action : Nat, base : Nat, image : Nat,
               bs : {"", "Scheduled", "Running", "Succeeded", "Failed"}]

NoBuild == [life |-> "none", fin |-> FALSE, born |-> 0, now |-> FALSE,
            action |-> 0, base |-> 0, image |-> 0, bs |-> ""]
NoProfile == [there |-> FALSE, kiwi |-> 0, path |-> 0]

\* A build action of Uyuni: for whom, how far it is, and its image.
BuildAction == [n : Name, born : Nat,
                st : {"open", "hung", "Completed", "Failed"}, image : Nat]

Idle == [pc |-> "idle"]

ProfileWorker == [pc : {"finalizer", "ensure", "recreate", "update", "trigger",
                        "strip", "created", "mirror", "list", "prune", "save",
                        "delete", "release"},
                  t : ImageProfile, base : ImageProfile, doomed : SUBSET Name]

BuildWorker == [pc : {"profile", "strip", "recheck", "baseline", "schedule",
                      "recordNew", "poll", "record", "cleanup", "unimage",
                      "release"},
                n : Name, t : ImageBuild, base : ImageBuild]

Init ==
    /\ cfg \in Profiles
    /\ prof = [life |-> "live", fin |-> FALSE, force |-> FALSE, gen |-> 1, kiwi |-> 1,
               now |-> FALSE, applied |-> 0, observed |-> 0, last |-> FALSE,
               ready |-> FALSE]
    /\ profSeen = prof
    /\ build = [n \in Name |-> NoBuild] /\ buildSeen = build
    /\ missing = {}
    /\ wp = Idle /\ wb = Idle
    /\ held = NoProfile /\ acts = <<>> /\ images = {}
    /\ old = {}
    /\ cut = {} /\ mixed = FALSE /\ dropped = {} /\ made = 0
    /\ undone = FALSE /\ revived = FALSE /\ built = FALSE /\ events = 0

Event == events < cfg.events /\ events' = events + 1

----------------------------------------------------------------------------
(* The user and the cluster.                                               *)

ProfileWrite(new) ==
    /\ prof.life = "live"
    /\ prof' = new
    /\ Event
    /\ UNCHANGED <<cfg, build, missing, seen, wp, wb, uyuni, old, history>>

\* The label and the type are immutable; kiwiOptions and the source are not.
EditProfile == /\ prof.gen < MaxGen
               /\ \E k \in Kiwi :
                      ProfileWrite([prof EXCEPT !.gen = @ + 1, !.kiwi = k])

BuildNow == ~prof.now /\ ProfileWrite([prof EXCEPT !.now = TRUE])

\* kubectl delete, after force-delete where the user gave up on Uyuni.
DeleteProfile == \E f \in BOOLEAN :
    ProfileWrite([prof EXCEPT !.force = f,
                              !.life = IF prof.fin THEN "deleting" ELSE "gone"])

BuildWrite(n, new) ==
    /\ build[n].life = "live"
    /\ build' = [build EXCEPT ![n] = new]
    /\ Event
    /\ UNCHANGED <<cfg, prof, missing, seen, wp, wb, uyuni, old, cut, mixed,
                   dropped, made, revived, built>>

RebuildNow(n) == /\ ~build[n].now
                 /\ BuildWrite(n, [build[n] EXCEPT !.now = TRUE])
                 /\ UNCHANGED undone

Deleted(b) == IF b.fin THEN [b EXCEPT !.life = "deleting"] ELSE NoBuild

DeleteBuild(n) == /\ BuildWrite(n, Deleted(build[n]))
                  /\ undone' = TRUE

\* The builds that the profile owns go with it.
CollectGarbage(n) ==
    /\ prof.life = "gone" /\ build[n].life = "live"
    /\ build' = [build EXCEPT ![n] = Deleted(@)]
    /\ UNCHANGED <<cfg, prof, missing, seen, wp, wb, uyuni, old, history,
                   events>>

Vanish == \E r \in {"store", "buildHost"} \ missing :
    /\ missing' = missing \cup {r} /\ Event
    /\ UNCHANGED <<cfg, prof, build, seen, wp, wb, uyuni, old, history>>

Reappear == \E r \in missing :
    /\ missing' = missing \ {r}
    /\ UNCHANGED <<cfg, prof, build, seen, wp, wb, uyuni, old, history, events>>

ProfileSync == /\ profSeen # prof
               /\ profSeen' = prof
               /\ UNCHANGED <<kube, buildSeen, wp, wb, uyuni, old, history,
                              events>>

BuildSync == /\ buildSeen # build
             /\ buildSeen' = build
             /\ UNCHANGED <<kube, profSeen, wp, wb, uyuni, old, history, events>>

User == \/ EditProfile \/ BuildNow \/ DeleteProfile
        \/ \E n \in Name : RebuildNow(n) \/ DeleteBuild(n)

----------------------------------------------------------------------------
(* Uyuni's build host.                                                     *)

NextImage == 1 + Cardinality({a \in DOMAIN acts : acts[a].image # 0})

\* The image record appears while the build runs, or with its end; a build
\* that fails may have none.
ImageAppears(a) ==
    /\ acts[a].st \in {"open", "hung"} /\ acts[a].image = 0
    /\ acts' = [acts EXCEPT ![a].image = NextImage]
    /\ images' = images \cup {NextImage}
    /\ UNCHANGED <<kube, seen, wp, wb, held, old, history, events>>

ActionEnds(a) ==
    /\ acts[a].st \in {"open", "hung"}
    /\ \/ /\ acts[a].image # 0
          /\ acts' = [acts EXCEPT ![a].st = "Completed"]
          /\ UNCHANGED events
       \/ acts' = [acts EXCEPT ![a].st = "Failed"] /\ Event
    /\ UNCHANGED <<kube, seen, wp, wb, held, images, old, history>>

\* The build takes longer than its timeout, and may never end.
Hangs(a) == /\ acts[a].st = "open"
            /\ acts' = [acts EXCEPT ![a].st = "hung"]
            /\ Event
            /\ UNCHANGED <<kube, seen, wp, wb, held, images, old, history>>

TimePasses(n) ==
    /\ n \notin old
    /\ \E a \in DOMAIN acts : acts[a].st = "hung" /\ build[n].action = a
    /\ old' = old \cup {n}
    /\ UNCHANGED <<kube, seen, wp, wb, uyuni, history, events>>

BuildHost == \E a \in DOMAIN acts : ImageAppears(a) \/ ActionEnds(a) \/ Hangs(a)
Works == \E a \in DOMAIN acts : acts[a].st = "open" /\ (ImageAppears(a) \/ ActionEnds(a))

----------------------------------------------------------------------------
(* A pass over the ImageProfile.  wp.t is the pass's copy, wp.base what a  *)
(* write must still find in the API server.                                *)

PIn(pc) == wp.pc = pc
PGo(pc, t) == wp' = [wp EXCEPT !.pc = pc, !.t = t] /\ UNCHANGED prof

\* The pass ends with a write of t, which fails if someone wrote in between.
PSave(t) == /\ wp' = Idle
            /\ prof' = IF prof = wp.base THEN t ELSE prof

PFail == PSave([wp.t EXCEPT !.ready = FALSE])
PQuiet == UNCHANGED <<cfg, missing, seen, wb, old, cut, mixed, undone,
                       revived, built>>
PLocal == PQuiet /\ UNCHANGED <<build, uyuni, dropped, made, events>>

BeginProfile ==
    /\ wp = Idle /\ profSeen.life # "gone"
    /\ wp' = [pc |-> IF profSeen.life = "deleting" THEN "delete"
                     ELSE IF profSeen.fin THEN "ensure" ELSE "finalizer",
              t |-> profSeen, base |-> profSeen, doomed |-> {}]
    /\ IF profSeen # prof THEN Event ELSE UNCHANGED events
    /\ UNCHANGED <<kube, seen, wb, uyuni, old, history>>

PEnsureFinalizer == /\ PIn("finalizer")
                    /\ PSave([wp.t EXCEPT !.fin = TRUE])
                    /\ PLocal

\* resolveStoreLabel: the ImageStore is realised, or the pass waits.
resolveStoreLabel ==
    /\ PIn("ensure") /\ "store" \in missing
    /\ PFail
    /\ PLocal

CreateImageProfile(t) ==
    /\ held' = [there |-> TRUE, kiwi |-> t.kiwi, path |-> t.gen]
    /\ PGo("created", [t EXCEPT !.applied = t.kiwi])

\* kiwiOptions are set by create only: a changed value deletes the profile
\* and creates it anew.
EnsureProfile ==
    /\ (PIn("ensure") /\ "store" \notin missing) \/ PIn("recreate")
    /\ \/ ~held.there /\ CreateImageProfile(wp.t)
       \/ /\ held.there /\ wp.t.kiwi # wp.t.applied
          /\ held' = NoProfile
          /\ PGo("recreate", wp.t)
       \/ /\ held.there /\ wp.t.kiwi = wp.t.applied
          /\ UNCHANGED held
          /\ PGo("update", wp.t)
    /\ PQuiet /\ UNCHANGED <<build, acts, images, dropped, made, events>>

ReadCreated == PIn("created") /\ PGo("update", wp.t) /\ PLocal

\* getDetails does not return the source path: a new generation sets it.
UpdateImageProfile ==
    /\ PIn("update")
    /\ LET must == wp.t.observed < wp.t.gen
       IN /\ held' = IF must /\ held.there THEN [held EXCEPT !.path = wp.t.gen]
                     ELSE held
          /\ IF must /\ ~held.there THEN PFail ELSE PGo("trigger", wp.t)
    /\ PQuiet /\ UNCHANGED <<build, acts, images, dropped, made, events>>

----------------------------------------------------------------------------
(* handleBuildTriggers.                                                    *)

onChange(t) == /\ cfg.policy = "onChange"
               /\ ~t.last \/ t.observed < t.gen

\* The name of the ImageBuild: a second one of the same name is not made,
\* and the trigger is taken for served.
BuildName(t) == IF t.now THEN VersionBuild ELSE GenBuild(t.gen)

Births == {build[n].born : n \in Name} \cup {acts[a].born : a \in DOMAIN acts}

Created(t) == [NoBuild EXCEPT !.life = "live", !.born = 1 + Max(Births)]

handleBuildTriggers ==
    /\ PIn("trigger")
    /\ LET t == wp.t
           n == BuildName(t)
           wanted == t.now \/ onChange(t)
       IN \/ /\ ~wanted \/ (~cfg.host /\ ~t.now)
             /\ PGo("mirror", t)
             /\ UNCHANGED <<build, dropped, made>>
          \/ /\ t.now /\ ~cfg.host
             /\ PFail
             /\ UNCHANGED <<build, dropped, made>>
          \/ /\ wanted /\ cfg.host
             /\ build' = IF build[n].life = "none"
                         THEN [build EXCEPT ![n] = Created(t)] ELSE build
             /\ dropped' = IF t.now /\ build[n].life # "none"
                           THEN dropped \cup {"build-now"} ELSE dropped
             /\ made' = IF t.now /\ build[n].life # "none" THEN made ELSE t.gen
             /\ PGo(IF t.now THEN "strip" ELSE "mirror", t)
    /\ PQuiet /\ UNCHANGED <<uyuni, events>>

\* A patch is not refused when someone wrote in between, and its answer
\* replaces the pass's copy, spec and status, but for the fields that the
\* stored object does not have.
PatchedProfile(t, stored) ==
    [stored EXCEPT !.applied = IF @ = 0 THEN t.applied ELSE @,
                   !.observed = IF @ = 0 THEN t.observed ELSE @,
                   !.last = @ \/ t.last]

StripProfile ==
    /\ PIn("strip")
    /\ IF prof.life = "gone" THEN wp' = Idle /\ UNCHANGED <<prof, dropped>>
       ELSE LET stored == [prof EXCEPT !.now = FALSE]
            IN /\ prof' = stored
               /\ wp' = [wp EXCEPT !.pc = "mirror", !.base = stored,
                                   !.t = PatchedProfile(wp.t, stored)]
               /\ dropped' = IF stored.gen # wp.t.gen
                             THEN dropped \cup {"generation"} ELSE dropped
    /\ PQuiet /\ UNCHANGED <<build, uyuni, made, events>>

----------------------------------------------------------------------------
(* mirrorLatestBuild and enforceRetention: each lists the informer's       *)
(* ImageBuilds, and each delete is a call of its own.                      *)

Finished(bs) == {n \in Name : buildSeen[n].life = "live" /\ buildSeen[n].bs = bs}

\* All but the keep newest.
BeyondNewest(ns, keep) ==
    {n \in ns : Cardinality({m \in ns : buildSeen[m].born > buildSeen[n].born}) >= keep}

\* mutant: an unset keepLastSucceeded keeps none
UnsetKeepsNone ==
    IF cfg.retain = "none" THEN {}
    ELSE BeyondNewest(Finished("Succeeded"), IF cfg.retain = "succeeded" THEN 1 ELSE 0)
         \cup BeyondNewest(Finished("Failed"), 0)

\* keepLastSucceeded unset keeps all; keepLastFailed unset keeps none.
enforceRetention ==
    (IF cfg.retain = "succeeded" THEN BeyondNewest(Finished("Succeeded"), 1) ELSE {})
    \cup (IF cfg.retain # "none" THEN BeyondNewest(Finished("Failed"), 0) ELSE {})

mirrorLatestBuild(t) ==
    [t EXCEPT !.last = @ \/ \E n \in Name : buildSeen[n].life # "none"]

MirrorLatestBuild ==
    /\ PIn("mirror")
    /\ PGo("list", mirrorLatestBuild(wp.t))
    /\ PLocal

ListForRetention ==
    /\ PIn("list")
    /\ wp' = [wp EXCEPT !.pc = IF enforceRetention = {} THEN "save" ELSE "prune",
                        !.doomed = enforceRetention]
    /\ UNCHANGED prof
    /\ PLocal

\* Whatever has become of the build since it was listed.
PruneBuild ==
    /\ PIn("prune")
    /\ \E n \in wp.doomed :
           /\ build' = IF build[n].life = "live"
                       THEN [build EXCEPT ![n] = Deleted(@)] ELSE build
           /\ wp' = [wp EXCEPT !.pc = IF wp.doomed = {n} THEN "save" ELSE "prune",
                               !.doomed = @ \ {n}]
    /\ UNCHANGED prof
    /\ PQuiet /\ UNCHANGED <<uyuni, dropped, made, events>>

SaveReconciled ==
    /\ PIn("save")
    /\ PSave([wp.t EXCEPT !.observed = wp.t.gen, !.ready = TRUE])
    /\ PLocal

\* handleDeletion of the ImageProfile.
DeleteImageProfile ==
    /\ PIn("delete")
    /\ held' = IF wp.t.force THEN held ELSE NoProfile
    /\ PGo("release", wp.t)
    /\ PQuiet /\ UNCHANGED <<build, acts, images, dropped, made, events>>

ReleaseProfile == /\ PIn("release")
                  /\ PSave([wp.t EXCEPT !.life = "gone"])
                  /\ PLocal

ProfilePass ==
    \/ PEnsureFinalizer \/ resolveStoreLabel \/ EnsureProfile \/ ReadCreated
    \/ UpdateImageProfile \/ handleBuildTriggers \/ StripProfile
    \/ MirrorLatestBuild \/ ListForRetention \/ PruneBuild
    \/ SaveReconciled \/ DeleteImageProfile \/ ReleaseProfile

----------------------------------------------------------------------------
(* A pass over an ImageBuild.                                              *)

BIn(pc) == wb.pc = pc
BGo(pc, t) == wb' = [wb EXCEPT !.pc = pc, !.t = t] /\ UNCHANGED build
BEnd == wb' = Idle /\ UNCHANGED build
BQuiet == UNCHANGED <<cfg, prof, missing, seen, wp, held, dropped, made,
                        undone>>
BLocal == BQuiet /\ UNCHANGED <<acts, images, old, cut, mixed, revived, built,
                              events>>

BeginBuild(n) ==
    /\ wb = Idle /\ buildSeen[n].life # "none"
    /\ wb' = [pc |-> IF buildSeen[n].life = "deleting" THEN "cleanup" ELSE "profile",
              n |-> n, t |-> buildSeen[n], base |-> buildSeen[n]]
    /\ IF buildSeen[n] # build[n] THEN Event ELSE UNCHANGED events
    /\ UNCHANGED <<kube, seen, wp, uyuni, old, history>>

BWrite(t) == build' = IF build[wb.n] = wb.base THEN [build EXCEPT ![wb.n] = t]
                      ELSE build

\* Schedule what has no action, poll what has one.
ScheduleOrPoll(t) == IF t.action = 0 THEN "recheck" ELSE "poll"

\* mutant: the profile is taken for realised when it has an id, which Uyuni
\* has for no image profile
HasUyuniID == FALSE

Realised == profSeen.ready

\* The profile is there and Ready, and the build host is registered, or the
\* pass waits; in between it takes the finalizer.
AwaitProfile ==
    /\ BIn("profile")
    /\ \/ /\ profSeen.life = "gone"
          /\ BEnd
       \/ /\ profSeen.life # "gone" /\ ~wb.t.fin
          /\ BWrite([wb.t EXCEPT !.fin = TRUE]) /\ wb' = Idle
       \/ /\ profSeen.life # "gone" /\ wb.t.fin
          /\ ~Realised \/ "buildHost" \in missing
          /\ BEnd
       \/ /\ profSeen.life # "gone" /\ wb.t.fin
          /\ Realised /\ "buildHost" \notin missing
          /\ BGo(IF wb.t.now THEN "strip" ELSE ScheduleOrPoll(wb.t), wb.t)
    /\ BLocal

\* build-now clears the copy's status and strips the annotation; the answer
\* of the patch puts back every field that the stored status has.
PatchedBuild(t, stored) == stored

StripBuild ==
    /\ BIn("strip")
    /\ IF build[wb.n].life = "none" THEN BEnd
       ELSE LET stored == [build[wb.n] EXCEPT !.now = FALSE]
            IN /\ build' = [build EXCEPT ![wb.n] = stored]
               /\ wb' = [wb EXCEPT !.pc = ScheduleOrPoll(stored), !.t = stored,
                                   !.base = stored]
    /\ BLocal

\* mutant: the informer's copy is trusted
TrustsCache(n) == FALSE

\* The uncached read: an action that the informer has not seen yet.
AlreadyScheduled(n) == build[n].action # 0

maxImageID == Max(images \cup {0})

\* When the read fails, the pass goes by the informer's copy (a stale one has
\* been counted when the pass began).
Recheck ==
    /\ BIn("recheck")
    /\ \/ AlreadyScheduled(wb.n) /\ BEnd /\ UNCHANGED cut
       \/ ~AlreadyScheduled(wb.n) /\ BGo("baseline", wb.t) /\ UNCHANGED cut
       \/ /\ AlreadyScheduled(wb.n) /\ BGo("baseline", wb.t)
          /\ cut' = cut \cup {build[wb.n].action}
    /\ BQuiet
    /\ UNCHANGED <<acts, images, old, mixed, revived, built, events>>

\* The baseline is 0 when the images cannot be listed.
ListImages ==
    /\ BIn("baseline")
    /\ \/ BGo("schedule", [wb.t EXCEPT !.base = maxImageID]) /\ UNCHANGED events
       \/ images # {} /\ BGo("schedule", [wb.t EXCEPT !.base = 0]) /\ Event
    /\ BQuiet /\ UNCHANGED <<acts, images, old, cut, mixed, revived, built>>

ScheduledAction == [n |-> wb.n, born |-> wb.t.born, st |-> "open", image |-> 0]

ScheduleImageBuild ==
    /\ BIn("schedule")
    /\ acts' = Append(acts, ScheduledAction)
    /\ BGo("recordNew", [wb.t EXCEPT !.action = Len(acts) + 1, !.bs = "Scheduled"])
    /\ BQuiet /\ UNCHANGED <<images, old, cut, mixed, revived, built, events>>

\* The first image above the baseline.
FindImage(t) ==
    LET above == {i \in images : i > t.base}
    IN IF t.image # 0 THEN t.image ELSE IF above = {} THEN 0 ELSE Min(above)

\* The action decides; the timeout is for an action that never ends.
BuildStatus(t, image) ==
    CASE acts[t.action].st = "Completed" -> "Succeeded"
      [] acts[t.action].st = "Failed" -> "Failed"
      [] OTHER -> IF wb.n \in old THEN "Failed"
                  ELSE IF image = 0 THEN "Scheduled" ELSE "Running"

pollAction ==
    /\ BIn("poll")
    /\ LET image == FindImage(wb.t)
       IN /\ BGo("record", [wb.t EXCEPT !.image = image,
                                        !.bs = BuildStatus(wb.t, image)])
          /\ mixed' = (mixed \/ image \notin {0, acts[wb.t.action].image})
    /\ BQuiet /\ UNCHANGED <<acts, images, old, cut, revived, built, events>>

\* The status write: lost when someone wrote in between.
RecordBuild ==
    /\ BIn("record") \/ BIn("recordNew")
    /\ BWrite(wb.t)
    /\ wb' = Idle
    /\ LET won == build[wb.n] = wb.base
       IN /\ old' = IF BIn("recordNew") /\ won THEN old \ {wb.n} ELSE old
          /\ cut' = IF BIn("recordNew") /\ ~won THEN cut \cup {wb.t.action} ELSE cut
          /\ built' = (built \/ (won /\ wb.t.bs = "Succeeded"))
          /\ revived' = (revived \/ (won /\ wb.base.bs = "Failed"
                                         /\ wb.t.bs = "Succeeded"))
    /\ BQuiet /\ UNCHANGED <<acts, images, mixed, events>>

----------------------------------------------------------------------------
(* handleDeletion of the ImageBuild: cancel and delete what can be, and    *)
(* never wait for it.                                                      *)

NeedsCancel(t) == t.action # 0 /\ t.bs = "Running"

\* No client, no clean-up: the profile is gone.
CleanupBuild ==
    /\ BIn("cleanup")
    /\ LET reachable == profSeen.life # "gone" /\ (NeedsCancel(wb.t) \/ wb.t.image # 0)
           cancel == reachable /\ NeedsCancel(wb.t)
       IN /\ BGo(IF reachable /\ wb.t.image # 0 THEN "unimage" ELSE "release", wb.t)
          /\ \/ /\ acts' = IF cancel /\ acts[wb.t.action].st \in {"open", "hung"}
                           THEN [acts EXCEPT ![wb.t.action].st = "Failed"] ELSE acts
                /\ UNCHANGED events
             \/ cancel /\ Event /\ UNCHANGED acts
    /\ BQuiet /\ UNCHANGED <<images, old, cut, mixed, revived, built>>

DeleteImage ==
    /\ BIn("unimage")
    /\ BGo("release", wb.t)
    /\ \/ images' = images \ {wb.t.image} /\ UNCHANGED events
       \/ Event /\ UNCHANGED images
    /\ BQuiet /\ UNCHANGED <<acts, old, cut, mixed, revived, built>>

ReleaseBuild == /\ BIn("release")
                /\ BWrite(NoBuild) /\ wb' = Idle
                /\ BLocal

BuildPass == \/ AwaitProfile \/ StripBuild \/ Recheck \/ ListImages
             \/ ScheduleImageBuild \/ pollAction \/ RecordBuild
             \/ CleanupBuild \/ DeleteImage \/ ReleaseBuild

----------------------------------------------------------------------------
(* Faults.                                                                 *)

\* A call to Uyuni fails: fail saves the status, the lookup only returns.
ProfileCallFails ==
    /\ wp.pc \in {"ensure", "recreate", "created", "update", "trigger", "delete"}
    /\ Event
    /\ \/ wp.pc # "delete" /\ PFail
       \/ wp.pc \in {"ensure", "delete"} /\ wp' = Idle /\ UNCHANGED prof
    /\ PQuiet /\ UNCHANGED <<build, uyuni, dropped, made>>

\* A poll changes nothing.  The build is not scheduled, or Uyuni has it and
\* the answer is lost; either way fail saves the baseline.
BuildCallFails ==
    /\ \/ BIn("poll") /\ BEnd /\ UNCHANGED <<acts, cut>>
       \/ /\ BIn("schedule")
          /\ BWrite(wb.t) /\ wb' = Idle
          /\ \/ UNCHANGED <<acts, cut>>
             \/ /\ acts' = Append(acts, ScheduledAction)
                /\ cut' = cut \cup {Len(acts')}
    /\ Event
    /\ BQuiet /\ UNCHANGED <<images, old, mixed, revived, built>>

Crash == /\ wp # Idle \/ wb # Idle
         /\ wp' = Idle /\ wb' = Idle
         /\ cut' = IF BIn("recordNew") THEN cut \cup {wb.t.action} ELSE cut
         /\ Event
         /\ UNCHANGED <<kube, seen, uyuni, old, mixed, dropped, made, undone,
                        revived, built>>

Next == \/ User \/ Vanish \/ Reappear \/ BuildHost \/ ProfileSync \/ BuildSync
        \/ BeginProfile \/ ProfilePass \/ BuildPass
        \/ ProfileCallFails \/ BuildCallFails \/ Crash
        \/ \E n \in Name : CollectGarbage(n) \/ TimePasses(n) \/ BeginBuild(n)

Spec == Init /\ [][Next]_vars

\* Passes go on, every pass asks for another, informers catch up, time passes
\* and a build that does not hang ends.  Nothing is assumed of users, of
\* references or of builds that hang.
FairSpec == /\ Spec
            /\ WF_vars(ProfilePass) /\ WF_vars(BuildPass) /\ WF_vars(ProfileSync)
            /\ WF_vars(BuildSync) /\ WF_vars(Works) /\ SF_vars(BeginProfile)
            /\ WF_vars(\E n \in Name : TimePasses(n))
            /\ \A n \in Name : SF_vars(BeginBuild(n))

----------------------------------------------------------------------------
(* Properties.                                                             *)

\* Every variable has its type; Uyuni has finitely many images.
TypeOK ==
    /\ cfg \in Profiles /\ missing \subseteq {"store", "buildHost"}
    /\ prof \in ImageProfile /\ profSeen \in ImageProfile
    /\ build \in [Name -> ImageBuild] /\ buildSeen \in [Name -> ImageBuild]
    /\ wp \in ProfileWorker \cup {Idle} /\ wb \in BuildWorker \cup {Idle}
    /\ held \in [there : BOOLEAN, kiwi : Kiwi \cup {0}, path : 0..MaxGen]
    /\ acts \in Seq(BuildAction) /\ images \subseteq Nat /\ IsFiniteSet(images)
    /\ old \subseteq Name /\ cut \subseteq Nat
    /\ dropped \subseteq {"build-now", "generation"}
    /\ {mixed, undone, revived, built} \subseteq BOOLEAN
    /\ made \in 0..MaxGen /\ events \in 0..MaxEvents

\* An ImageBuild is scheduled in Uyuni once, but for actions that no pass
\* could know of: the pass that scheduled one lost Uyuni's answer, or its
\* status write to a crash or to a write of someone else, or the read that
\* bypasses the informer failed (the pass then trusts a stale copy).  A stale
\* informer copy alone never schedules it again.
ScheduledOnce ==
    \A n \in Name : \A b \in {acts[a].born : a \in DOMAIN acts} :
        Cardinality({a \in DOMAIN acts \ cut : acts[a].n = n /\ acts[a].born = b}) <= 1

\* Once a build has succeeded, the retention policy leaves one Succeeded
\* ImageBuild whose image Uyuni has, as long as the user deletes none, no build
\* took another one's image for its own, and no build that had been given up
\* succeeded after all: a stale list still prunes that one as Failed.
RollbackKept ==
    built /\ ~undone /\ ~mixed /\ ~revived /\ prof.life = "live"
    => \E n \in Name : build[n].life = "live" /\ build[n].bs = "Succeeded"
                       /\ build[n].image \in images \cup {0}

\* The image that an ImageBuild's status names, and that its deletion deletes,
\* was not made by the action of another ImageBuild.
ImageIsOwn ==
    \A n \in Name : build[n].life = "live" /\ build[n].image # 0
        => \A a \in DOMAIN acts : acts[a].image = build[n].image => acts[a].n = n

\* build-now on an ImageBuild clears its action, so that it is scheduled
\* again.  Not so once the action is recorded: the answer to the patch that
\* strips the annotation brings the action back.
BuildNowReschedules ==
    [][\A n \in Name : build[n].now /\ build'[n].life = "live" /\ ~build'[n].now
                       => wb'.pc = "recheck"]_vars

\* A profile that builds on change builds every generation that it marks as
\* observed.  Not so when the strip of a build-now brings in an edit.
ObservedIsBuilt ==
    cfg.policy = "onChange" /\ cfg.host /\ prof.observed = prof.gen => made = prof.gen

\* In the end the image profile in Uyuni has the options and the source of
\* the spec, every ImageBuild has ended, a profile that builds on change has
\* had a build of its last generation, and no more succeeded builds are kept
\* than the policy says.  Excepted are profiles one of whose generations came
\* in with the strip of a build-now, which nothing applies or builds before
\* the next edit; and, for the build of the last generation, a build-now that
\* found an ImageBuild of its name.
ImagesConverge == <>[](
    (prof.life = "live" /\ missing = {} /\ "generation" \notin dropped
        /\ (cfg.host \/ ~prof.now)) =>
    /\ prof.observed = prof.gen /\ ~prof.now
    /\ held = [there |-> TRUE, kiwi |-> prof.kiwi, path |-> prof.gen]
    /\ \A n \in Name : build[n].life = "live" => build[n].bs \in {"Succeeded", "Failed"}
    /\ cfg.policy = "onChange" /\ cfg.host /\ dropped = {} => made = prof.gen
    /\ cfg.retain = "succeeded" =>
           Cardinality({n \in Name : build[n].life = "live"
                                      /\ build[n].bs = "Succeeded"}) <= 1)

============================================================================
