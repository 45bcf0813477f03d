---------------------------- MODULE ClaimProofs ----------------------------
(***************************************************************************)
(* Claim, for every set of kinds and every bound: deletion leaves nothing  *)
(* behind, a resource keeps the object that another one has not claimed,   *)
(* and the triggers are served before they are stripped.                   *)
(*                                                                         *)
(* Base says what a pass knows: the cache is an earlier state of the       *)
(* resource (Copies), the copy in memory agrees with it while nobody else  *)
(* has written (Carries), and the pass is in its script.  On Base rest     *)
(* Served, by which Claim implements Trigger, ClaimedOnce, by which two    *)
(* resources claim one object only in the named cases, and Kept, by which  *)
(* whatever the operator made has a resource that will delete it.          *)
(*                                                                         *)
(* Which steps a kind takes is data, so that a step of a pass is described *)
(* by its fate (Fate) and a step of anybody else by its form (Outside);    *)
(* the invariants are proved for these.  The types come last, as they rest *)
(* on the scripts.                                                         *)
(***************************************************************************)
EXTENDS Claim, TLAPS

----------------------------------------------------------------------------
(* The scripts.                                                            *)

\* Where the object is created or adopted; nowhere in an external profile.
RealiseAt(k) ==
    CASE k = "SoftwareChannel" -> 2 [] k = "Repository" -> 2
      [] k = "ActivationKey" -> 4 [] k = "SystemGroup" -> 1
      [] k = "ConfigurationChannel" -> 1 [] k = "CustomInfoKey" -> 1
      [] k = "MaintenanceCalendar" -> 4 [] k = "MaintenanceSchedule" -> 2
      [] k = "AutoinstallDistribution" -> 2 [] k = "ManagedProfile" -> 4
      [] k = "ImportedProfile" -> 4 [] k = "ImageStore" -> 2
      [] OTHER -> 0

Shaped(k, s) ==
    /\ Len(s) \in Nat \ {0}
    /\ RealiseAt(k) \in 0..(Len(s) - 1)
    /\ \A n \in 1..Len(s) : /\ s[n].do = "realise" <=> n = RealiseAt(k)
                            /\ s[n].do = "save" <=> n = Len(s)
                            /\ s[n].do = "serve" /\ s[n].what = {"sync-now"}
                                 => k = "SoftwareChannel"

\* Every script looks its object up once, and its last step is the only one
\* that saves the reconciled status; only a channel is asked to sync now.
LEMMA ScriptShape ==
    \A k \in Kinds : Shaped(k, Scripts[k])
<1> USE DEF Shaped, RealiseAt, Await, Realise, Put, PutOrFail, Serve, Record,
            Strip, Observe, Save
<1>1. Shaped("SoftwareChannel", SoftwareChannel)
  BY DEF SoftwareChannel, resolveParentChannel, resolveRepos, syncPackageSource
<1>2. Shaped("Repository", Repository)
  BY DEF Repository, resolveSSL
<1>3. Shaped("ActivationKey", ActivationKey)
  BY DEF ActivationKey, resolveSystemGroups, resolveKeyConfigChannels
<1>4. Shaped("SystemGroup", SystemGroup)
  BY DEF SystemGroup, reconcileFormulas, resolveMembers,
         resolveGroupConfigChannels
<1>5. Shaped("ConfigurationChannel", ConfigurationChannel)
  BY DEF ConfigurationChannel, syncRepositoryFiles
<1>6. Shaped("CustomInfoKey", CustomInfoKey)
  BY DEF CustomInfoKey
<1>7. Shaped("MaintenanceCalendar", MaintenanceCalendar)
  BY DEF MaintenanceCalendar
<1>8. Shaped("MaintenanceSchedule", MaintenanceSchedule)
  BY DEF MaintenanceSchedule, resolveCalendar, resolveDesiredSystems
<1>9. Shaped("AutoinstallDistribution", AutoinstallDistribution)
  BY DEF AutoinstallDistribution, resolveChannelLabel
<1>10. Shaped("ManagedProfile", ManagedProfile)
  BY DEF ManagedProfile, resolveDistributionLabel, resolveChildChannels,
         readSecret, reconcileScripts
<1>11. Shaped("ImportedProfile", ImportedProfile)
  BY DEF ImportedProfile, resolveDistributionLabel, resolveChildChannels,
         readSecret
<1>12. Shaped("ExternalProfile", ExternalProfile)
  BY DEF ExternalProfile
<1>13. Shaped("ImageStore", ImageStore)
  BY DEF ImageStore, resolveCredentials
<1> HIDE DEF Shaped, RealiseAt
<1> QED BY <1>1, <1>2, <1>3, <1>4, <1>5, <1>6, <1>7, <1>8, <1>9, <1>10, <1>11,
           <1>12, <1>13, ConstantsAssumption DEF Scripts

EarlyKinds == {"SoftwareChannel", "SystemGroup"}

\* No channel and no group is known by imported contents.
LEMMA NoContents ==
    ASSUME NEW k \in EarlyKinds \cap Kinds
    PROVE  "contents" \notin PartsOf[k]
<1> USE DEF Await, Realise, Put, PutOrFail, Serve, Record, Strip, Save
<1>1. \A n \in DOMAIN SoftwareChannel : "contents" \notin SoftwareChannel[n].what
  BY DEF SoftwareChannel, resolveParentChannel, resolveRepos, syncPackageSource
<1>2. \A n \in DOMAIN SystemGroup : "contents" \notin SystemGroup[n].what
  BY DEF SystemGroup, reconcileFormulas, resolveMembers,
         resolveGroupConfigChannels
<1>3. Scripts["SoftwareChannel"] = SoftwareChannel
      /\ Scripts["SystemGroup"] = SystemGroup
  BY DEF Scripts
<1>4. \A n \in DOMAIN Scripts[k] : "contents" \notin Scripts[k][n].what
  BY <1>1, <1>2, <1>3 DEF EarlyKinds
<1> QED BY <1>4 DEF PartsOf

----------------------------------------------------------------------------
(* Types.                                                                  *)

Object == [st : {"none", "there"}, running : BOOLEAN,
           cfg : [Parts -> Value \cup {0}]]

Worker == [pc : {"finalizer", "step", "create", "saveKey", "delete", "release"},
           c : Res, n : Nat \ {0}, t : Resource, cur : Object, new : BOOLEAN,
           created : BOOLEAN, hit : BOOLEAN]

Typed ==
    /\ kind \in Kinds
    /\ obj \in [Res -> Resource] /\ cache \in [Res -> Resource]
    /\ cacheOld \subseteq Res /\ passOld \in BOOLEAN
    /\ wk = Idle \/ wk \in Worker
    /\ held \in Object

LEMMA SameKind ==
    ASSUME kind' = kind
    PROVE  /\ Parts' = Parts /\ Resource' = Resource /\ Object' = Object
           /\ Worker' = Worker /\ Script' = Script /\ Deletion' = Deletion
<1>1. Parts' = Parts /\ Script' = Script /\ Deletion' = Deletion
  BY DEF Parts, Script, Deletion
<1>2. Resource' = Resource /\ Object' = Object
  BY <1>1 DEF Resource, Object
<1> QED BY <1>1, <1>2 DEF Worker

LEMMA Rivals ==
    ASSUME NEW c \in Res
    PROVE  Rival(c) \in Res \ {c} /\ \A d \in Res : d # c => d = Rival(c)
<1>1. \E d \in Res : d # c
  BY DEF Res
<1> QED BY <1>1 DEF Rival, Res

\* What a pass, or the user, makes of a resource is a resource.
LEMMA ResourceTypes ==
    ASSUME NEW t \in Resource
    PROVE  /\ t.gen \in 0..MaxGen /\ t.val \in Value
           /\ \A v \in Value : t.gen < MaxGen =>
                 [t EXCEPT !.val = v, !.gen = @ + 1] \in Resource
           /\ \A b \in BOOLEAN : [t EXCEPT !.trigger = b] \in Resource
           /\ [t EXCEPT !.finalizer = TRUE] \in Resource
           /\ [t EXCEPT !.claimed = TRUE] \in Resource
           /\ [t EXCEPT !.claimed = TRUE, !.observed = t.gen] \in Resource
           /\ [t EXCEPT !.observed = t.gen] \in Resource
           /\ \A b \in BOOLEAN, l \in {"live", "deleting", "gone"} :
                 [t EXCEPT !.force = b, !.life = l] \in Resource
           /\ [t EXCEPT !.life = "gone"] \in Resource
           /\ \A f \in [Parts \cap Recorded -> 0..(MaxGen + 1)] :
                 [t EXCEPT !.told = f] \in Resource
<1>g. MaxGen \in Nat \ {0} /\ t.gen \in 1..MaxGen /\ t.val \in Value
  BY ConstantsAssumption DEF Resource
<1>1. t.gen \in 0..MaxGen /\ (t.gen < MaxGen => t.gen + 1 \in 1..MaxGen)
  BY <1>g
<1>2. \A v \in Value : t.gen < MaxGen =>
         [t EXCEPT !.val = v, !.gen = @ + 1] \in Resource
  BY <1>1 DEF Resource
<1>3. /\ \A b \in BOOLEAN : [t EXCEPT !.trigger = b] \in Resource
      /\ [t EXCEPT !.finalizer = TRUE] \in Resource
      /\ [t EXCEPT !.claimed = TRUE] \in Resource
      /\ [t EXCEPT !.life = "gone"] \in Resource
  BY DEF Resource
<1>4. /\ [t EXCEPT !.claimed = TRUE, !.observed = t.gen] \in Resource
      /\ [t EXCEPT !.observed = t.gen] \in Resource
  BY <1>1 DEF Resource
<1>5. \A b \in BOOLEAN, l \in {"live", "deleting", "gone"} :
         [t EXCEPT !.force = b, !.life = l] \in Resource
  BY DEF Resource
<1>6. \A f \in [Parts \cap Recorded -> 0..(MaxGen + 1)] :
         [t EXCEPT !.told = f] \in Resource
  BY DEF Resource
<1> QED BY <1>g, <1>1, <1>2, <1>3, <1>4, <1>5, <1>6

LEMMA NoObjectType == NoObject \in Object
  BY DEF NoObject, Object

----------------------------------------------------------------------------
(* What a step of a pass can do: it loses its copy, ends with a write, goes *)
(* on with a write or without, or deletes the object.                       *)

\* t has at least what s says of the object, and all else that counts.
Carried(t, s) ==
    /\ t \in Resource
    /\ t.life = s.life /\ t.finalizer = s.finalizer /\ t.force = s.force
    /\ t.trigger = s.trigger
    /\ s.claimed => t.claimed
    /\ Claimed(s) => Claimed(t)

Same == kind' = kind /\ cache' = cache /\ wk \in Worker

Loses == Same /\ held' = held /\ Lost

EndsWith(t) ==
    \/ /\ Carried(t, wk.t)
       /\ t.claimed = wk.t.claimed \/ kind \notin EarlyKinds \/ At("save")
    \/ wk.pc = "finalizer" /\ t = [wk.t EXCEPT !.finalizer = TRUE]
    \/ /\ wk.pc = "release" \/ (wk.pc = "delete" /\ wk.t.force)
       /\ t = [wk.t EXCEPT !.life = "gone"]
    \/ /\ kind = "MaintenanceCalendar" /\ wk.hit
       /\ t = [obj[wk.c] EXCEPT !.trigger = FALSE]

Ends(t) ==
    /\ Same /\ held' = held /\ wk' = Idle
    /\ Written(t) /\ t \in Resource /\ EndsWith(t)
    /\ UNCHANGED <<made, twice, robbed, owed>>
    /\ \/ lost' <=> lost \/ (wk.new /\ ~Claimed(t))
       \/ kind = "MaintenanceCalendar" /\ lost' = lost

Advances == /\ Same /\ wk.pc \in {"step", "create"} /\ Now.do # "save"
            /\ wk' \in Worker /\ wk'.c = wk.c /\ wk'.n = wk.n + 1
            /\ wk'.pc \in {"step", "saveKey"}
            /\ robbed' = robbed

GoesOn ==
    /\ Advances /\ UNCHANGED apiObject
    /\ wk'.pc = "step" /\ Now.do # "realise"
    /\ Carried(wk'.t, wk.t) /\ wk'.t.claimed = wk.t.claimed
    /\ wk'.new = wk.new /\ held'.st = held.st /\ held' \in Object
    /\ owed' = owed \/ owed' = owed \ {wk.c}
    /\ wk'.hit => wk.hit \/ wk.c \notin owed' \/ kind = "SoftwareChannel"
    /\ UNCHANGED <<made, lost, twice>>

Realises ==
    /\ Advances /\ UNCHANGED apiObject
    /\ Now.do = "realise"
    /\ Carried(wk'.t, wk.t) /\ wk'.hit = wk.hit
    /\ kind \in ClaimsEarly => wk'.t.claimed
    /\ held' \in Object /\ There'
    /\ lost' = lost /\ owed' = owed
    /\ \/ /\ There /\ ~ManagedByOther(wk.t) /\ made' = made
          /\ wk'.new = ~wk.t.claimed
          /\ twice' <=> twice \/ (ClaimedByOther
                                     /\ cache[Rival(wk.c)] # obj[Rival(wk.c)])
       \/ /\ wk'.new = TRUE
          /\ twice' <=> twice \/ ClaimedByOther

\* The lookup finds nothing.
Misses ==
    /\ Same /\ UNCHANGED <<apiObject, held, history>>
    /\ wk.pc = "step" /\ Now.do = "realise"
    /\ wk' \in Worker /\ wk'.pc = "create" /\ wk'.c = wk.c /\ wk'.n = wk.n
    /\ wk'.t = wk.t /\ wk'.new = wk.new /\ wk'.hit = wk.hit

Stores(t) ==
    /\ Advances /\ Now.do # "realise" /\ Written(t) /\ t \in Resource
    /\ \/ t = wk.t /\ wk'.t = wk.t
       \/ /\ t = [obj[wk.c] EXCEPT !.trigger = FALSE]
          /\ wk'.t = [wk.t EXCEPT !.trigger = FALSE]
    /\ wk'.pc = "step" /\ wk'.new = wk.new
    /\ wk'.hit = wk.hit /\ wk.hit
    /\ held' = held /\ UNCHANGED history

Deletes ==
    /\ Same /\ UNCHANGED apiObject
    /\ wk.pc = "delete" /\ ~wk.t.force
    /\ wk' = [wk EXCEPT !.pc = "release"] /\ wk' \in Worker
    /\ held' = IF MustDelete(wk.t) THEN NoObject ELSE held
    /\ made' <=> made /\ ~MustDelete(wk.t)
    /\ robbed' <=> robbed \/ (/\ MustDelete(wk.t) /\ There
                              /\ Live(Rival(wk.c)) /\ obj[Rival(wk.c)].claimed
                              /\ Exists(obj[wk.c]))
    /\ UNCHANGED <<lost, twice, owed>>

PassStep == Pass \/ CallFails \/ DeleteFails \/ Crash

Fate == \/ Loses \/ GoesOn \/ Misses \/ Realises \/ Deletes
        \/ \E t \in Resource : Ends(t) \/ Stores(t)

LEMMA Working ==
    ASSUME Typed, wk.pc # "idle"
    PROVE  wk \in Worker /\ wk # Idle /\ wk.t \in Resource /\ wk.c \in Res
           /\ obj[wk.c] \in Resource
  BY DEF Typed, Idle, Worker

LEMMA SaveEnds ==
    ASSUME Typed, wk \in Worker, kind' = kind, cache' = cache, held' = held,
           NEW t \in Resource, EndsWith(t), SaveAndEnd(t)
    PROVE  Fate
  BY DEF SaveAndEnd, Fate, Loses, Ends, Same

LEMMA CarriedSelf == ASSUME NEW t \in Resource PROVE Carried(t, t)
  BY DEF Carried

LEMMA Failing ==
    ASSUME Typed, wk \in Worker, kind' = kind, cache' = cache, held' = held,
           Fail
    PROVE  Fate
<1>1. CASE SaveAndEnd(wk.t)
  <2>1. wk.t \in Resource
    BY DEF Worker
  <2>2. EndsWith(wk.t)
    BY <2>1, CarriedSelf DEF EndsWith
  <2> QED BY <1>1, <2>1, <2>2, SaveEnds
<1>2. CASE Lost
  BY <1>2 DEF Fate, Loses, Same
<1> QED BY <1>1, <1>2 DEF Fail

\* The next step of a worker.
LEMMA NextStep ==
    ASSUME NEW w \in Worker, NEW t \in Resource
    PROVE  LET new == [w EXCEPT !.n = @ + 1, !.t = t]
           IN /\ new \in Worker /\ new.c = w.c /\ new.n = w.n + 1 /\ new.t = t
              /\ new.pc = w.pc /\ new.new = w.new /\ new.hit = w.hit
<1>1. w.n + 1 \in Nat \ {0}
  BY DEF Worker
<1> QED BY <1>1 DEF Worker

LEMMA Going ==
    ASSUME Typed, wk \in Worker, kind' = kind, cache' = cache, held' = held,
           wk.pc = "step", Now.do \notin {"realise", "save"}, Go(wk.t),
           UNCHANGED history
    PROVE  Fate
<1>1. wk' = [wk EXCEPT !.n = @ + 1, !.t = wk.t] /\ UNCHANGED apiObject
  BY DEF Go
<1>2. /\ wk' \in Worker /\ wk'.c = wk.c /\ wk'.n = wk.n + 1 /\ wk'.t = wk.t
      /\ wk'.pc = wk.pc /\ wk'.new = wk.new /\ wk'.hit = wk.hit
  <2>1. wk.t \in Resource
    BY DEF Worker
  <2>2. Worker' = Worker
    BY SameKind
  <2> QED BY <1>1, <2>1, <2>2, NextStep
<1>3. Carried(wk'.t, wk.t)
  BY <1>2, CarriedSelf DEF Worker
<1>4. held \in Object
  BY DEF Typed
<1> QED BY <1>1, <1>2, <1>3, <1>4 DEF Fate, GoesOn, Advances, Same, history

\* A pass that ends with a copy that differs in claim and observation only.
LEMMA Observed ==
    ASSUME NEW t \in Resource
    PROVE  /\ Carried([t EXCEPT !.observed = t.gen], t)
           /\ [t EXCEPT !.observed = t.gen].claimed = t.claimed
           /\ Carried([t EXCEPT !.claimed = TRUE, !.observed = t.gen], t)
           /\ Claimed([t EXCEPT !.claimed = TRUE, !.observed = t.gen])
           /\ Carried([t EXCEPT !.claimed = TRUE], t)
           /\ [t EXCEPT !.claimed = TRUE].claimed
<1>1. /\ [t EXCEPT !.observed = t.gen] \in Resource
      /\ [t EXCEPT !.claimed = TRUE, !.observed = t.gen] \in Resource
      /\ [t EXCEPT !.claimed = TRUE] \in Resource
  BY ResourceTypes
<1>2. /\ [t EXCEPT !.observed = t.gen].told = t.told
      /\ [t EXCEPT !.claimed = TRUE, !.observed = t.gen].told = t.told
      /\ [t EXCEPT !.claimed = TRUE].told = t.told
  BY DEF Resource
<1> QED BY <1>1, <1>2 DEF Carried, Claimed, Resource

LEMMA CalendarDeletes ==
    kind = "MaintenanceCalendar" => Deletion.deletes = "labelled"
  BY DEF Deletion, Deletions, DeleteMaintenanceCalendar, Labelled

LEMMA SimpleFates ==
    ASSUME Typed,
           EnsureFinalizer \/ AwaitReference \/ SaveKey \/ ObserveProfile
             \/ ReleaseFinalizer \/ CallFails \/ DeleteFails \/ Crash
    PROVE  Fate
<1>w. wk \in Worker /\ wk.t \in Resource
  <2>1. wk.pc # "idle"
    BY DEF EnsureFinalizer, AwaitReference, SaveKey, ObserveProfile,
           ReleaseFinalizer, CallFails, DeleteFails, Crash, In, At, Idle,
           Typed, Worker
  <2> QED BY <2>1, Working
<1>1. CASE EnsureFinalizer
  <2>1. [wk.t EXCEPT !.finalizer = TRUE] \in Resource
    BY <1>w, ResourceTypes
  <2>2. EndsWith([wk.t EXCEPT !.finalizer = TRUE])
    BY <1>1 DEF EnsureFinalizer, In, EndsWith
  <2> QED BY <1>1, <1>w, <2>1, <2>2, SaveEnds DEF EnsureFinalizer, Quiet
<1>2. CASE AwaitReference
  <2>1. EndsWith(wk.t)
    BY <1>w, CarriedSelf DEF EndsWith
  <2>2. CASE Now.what \cap missing = {}
    BY <1>2, <1>w, <2>2, Going DEF AwaitReference, At, Quiet
  <2>3. CASE Now.what \cap missing # {}
    BY <1>2, <1>w, <2>1, <2>3, SaveEnds DEF AwaitReference, Quiet
  <2> QED BY <2>2, <2>3
<1>3. CASE SaveKey
  <2>1. EndsWith(wk.t)
    BY <1>w, CarriedSelf DEF EndsWith
  <2> QED BY <1>3, <1>w, <2>1, SaveEnds DEF SaveKey, Quiet
<1>4. CASE ObserveProfile
  <2>1. [wk.t EXCEPT !.observed = wk.t.gen] \in Resource
    BY <1>w, ResourceTypes
  <2>2. EndsWith([wk.t EXCEPT !.observed = wk.t.gen])
    BY <1>w, Observed DEF EndsWith
  <2>3. CASE There
    BY <1>4, <1>w, <2>3, Going DEF ObserveProfile, At, Quiet
  <2>4. CASE ~There
    BY <1>4, <1>w, <2>1, <2>2, <2>4, SaveEnds DEF ObserveProfile, Quiet
  <2> QED BY <2>3, <2>4
<1>5. CASE ReleaseFinalizer
  <2>1. [wk.t EXCEPT !.life = "gone"] \in Resource
    BY <1>w, ResourceTypes
  <2>2. EndsWith([wk.t EXCEPT !.life = "gone"])
    BY <1>5 DEF ReleaseFinalizer, In, EndsWith
  <2> QED BY <1>5, <1>w, <2>1, <2>2, SaveEnds DEF ReleaseFinalizer, Quiet
<1>6. CASE CallFails
  BY <1>6, <1>w, Failing DEF CallFails
<1>7. CASE DeleteFails \/ Crash
  BY <1>7, <1>w DEF DeleteFails, Crash, Fate, Loses, Same
<1> QED BY <1>1, <1>2, <1>3, <1>4, <1>5, <1>6, <1>7

LEMMA SavingFates ==
    ASSUME Typed, SaveReconciled \/ RecordServed \/ StripTrigger
    PROVE  Fate
<1>w. /\ wk \in Worker /\ wk.t \in Resource /\ wk # Idle
      /\ wk.c \in Res /\ obj[wk.c] \in Resource /\ held \in Object
  <2>1. wk.pc # "idle"
    BY DEF SaveReconciled, RecordServed, StripTrigger, At
  <2> QED BY <2>1, Working DEF Typed
<1>1. CASE SaveReconciled
  <2> DEFINE t == [wk.t EXCEPT !.claimed = TRUE, !.observed = wk.t.gen]
  <2>1. t \in Resource /\ EndsWith(t) /\ Claimed(t)
    BY <1>1, <1>w, ResourceTypes, Observed DEF SaveReconciled, EndsWith
  <2>2. (Written(t) /\ wk' = Idle /\ UNCHANGED <<made, lost, twice, robbed, owed>>)
        \/ (passOld /\ Lost)
    BY <1>1 DEF SaveReconciled
  <2>3. kind' = kind /\ cache' = cache /\ held' = held
    BY <1>1 DEF SaveReconciled, Quiet
  <2>4. CASE passOld /\ Lost
    BY <2>3, <2>4, <1>w DEF Fate, Loses, Same
  <2>5. CASE Written(t) /\ wk' = Idle
             /\ UNCHANGED <<made, lost, twice, robbed, owed>>
    <3>1. Ends(t)
      BY <2>1, <2>3, <2>5, <1>w DEF Ends, Same
    <3> QED BY <2>1, <3>1 DEF Fate
  <2> QED BY <2>2, <2>4, <2>5
<1>2. CASE RecordServed
  <2>1. kind' = kind /\ cache' = cache /\ held' = held /\ wk.pc = "step"
        /\ Now.do = "record"
    BY <1>2 DEF RecordServed, Quiet, At
  <2>2. CASE ~wk.hit /\ Go(wk.t) /\ UNCHANGED history
    BY <1>w, <2>1, <2>2, Going
  <2>3. CASE passOld /\ Lost
    BY <2>1, <2>3, <1>w DEF Fate, Loses, Same
  <2>4. CASE wk.hit /\ Written(wk.t) /\ wk' = [wk EXCEPT !.n = @ + 1]
             /\ UNCHANGED history
    <3>0. wk.n + 1 \in Nat \ {0}
      BY <1>w DEF Worker
    <3>1. wk.n + 1 \in Nat \ {0} /\ Worker' = Worker
      BY <2>1, <3>0, SameKind
    <3>2. /\ wk' \in Worker /\ wk'.c = wk.c /\ wk'.n = wk.n + 1
          /\ wk'.t = wk.t /\ wk'.pc = wk.pc /\ wk'.new = wk.new
          /\ wk'.hit = wk.hit
      BY <1>w, <2>4, <3>1 DEF Worker
    <3>3. Stores(wk.t)
      BY <1>w, <2>1, <2>4, <3>2 DEF Stores, Advances, Same, history
    <3> QED BY <1>w, <3>3 DEF Fate
  <2> QED BY <1>2, <2>2, <2>3, <2>4 DEF RecordServed
<1>3. CASE StripTrigger
  <2> DEFINE t == [obj[wk.c] EXCEPT !.trigger = FALSE]
             u == [wk.t EXCEPT !.trigger = FALSE]
  <2>1. kind' = kind /\ cache' = cache /\ held' = held /\ wk.pc = "step"
        /\ Now.do = "strip"
    BY <1>3 DEF StripTrigger, Quiet, At
  <2>t. t \in Resource /\ u \in Resource
    BY <1>w, ResourceTypes
  <2>2. \/ Go(wk.t) /\ UNCHANGED history
        \/ passOld /\ Lost
        \/ /\ wk.hit /\ Written(t) /\ UNCHANGED history
           /\ wk' = IF kind = "MaintenanceCalendar" THEN Idle
                    ELSE [wk EXCEPT !.n = @ + 1, !.t.trigger = FALSE]
    BY <1>3 DEF StripTrigger
  <2>3. CASE Go(wk.t) /\ UNCHANGED history
    BY <1>w, <2>1, <2>3, Going
  <2>4. CASE passOld /\ Lost
    BY <2>1, <2>4, <1>w DEF Fate, Loses, Same
  <2>5. ASSUME wk.hit, Written(t), UNCHANGED history, wk' = Idle,
               kind = "MaintenanceCalendar"
        PROVE  Fate
    <3>1. Ends(t)
      BY <1>w, <2>1, <2>t, <2>5 DEF Ends, EndsWith, Same, history
    <3> QED BY <2>t, <3>1 DEF Fate
  <2>6. ASSUME wk.hit, Written(t), UNCHANGED history,
               wk' = [wk EXCEPT !.n = @ + 1, !.t.trigger = FALSE]
        PROVE  Fate
    <3>1. wk' = [wk EXCEPT !.n = @ + 1, !.t = u]
      BY <1>w, <2>6 DEF Worker
    <3>2. Worker' = Worker
      BY <2>1, SameKind
    <3>3. /\ wk' \in Worker /\ wk'.c = wk.c /\ wk'.n = wk.n + 1
          /\ wk'.t = u /\ wk'.pc = wk.pc /\ wk'.new = wk.new
          /\ wk'.hit = wk.hit
      BY <1>w, <2>t, <3>1, <3>2, NextStep
    <3>4. Stores(t)
      BY <1>w, <2>1, <2>t, <2>6, <3>3 DEF Stores, Advances, Same, history
    <3> QED BY <2>t, <3>4 DEF Fate
  <2> QED BY <2>2, <2>3, <2>4, <2>5, <2>6
<1> QED BY <1>1, <1>2, <1>3

\* What a pass tells its copy of the status keeps the claim.
LEMMA TellKeeps ==
    ASSUME NEW t \in Resource, NEW parts
    PROVE  Carried(Tell(t, parts), t) /\ Tell(t, parts).claimed = t.claimed
<1> DEFINE f == [p \in DOMAIN t.told |->
                    IF p \notin parts THEN t.told[p]
                    ELSE IF p = "formulas" THEN t.gen ELSE t.val]
<1>1. DOMAIN t.told = Parts \cap Recorded
      /\ \A p \in Parts \cap Recorded : t.told[p] \in 0..(MaxGen + 1)
  BY DEF Resource
<1>2. t.gen \in 0..(MaxGen + 1) /\ t.val \in 0..(MaxGen + 1) /\ t.val # 0
  <2>1. MaxGen \in Nat \ {0}
    BY ConstantsAssumption
  <2>2. t.gen \in 0..MaxGen /\ t.val \in {1, 2}
    BY ResourceTypes DEF Value
  <2> QED BY <2>1, <2>2
<1>3. f \in [Parts \cap Recorded -> 0..(MaxGen + 1)]
  BY <1>1, <1>2
<1> DEFINE u == [t EXCEPT !.told = f]
<1>4. u \in Resource
  BY <1>3, ResourceTypes
<1>5. /\ u.life = t.life /\ u.finalizer = t.finalizer /\ u.force = t.force
      /\ u.trigger = t.trigger /\ u.claimed = t.claimed /\ u.told = f
  BY DEF Resource
<1>6. Claimed(t) => Claimed(u)
  BY <1>1, <1>2, <1>5 DEF Claimed
<1>7. Carried(u, t)
  BY <1>4, <1>5, <1>6 DEF Carried
<1> QED BY <1>5, <1>7 DEF Tell

LEMMA AdoptedKeeps ==
    ASSUME NEW t \in Resource
    PROVE  /\ Carried(Adopted(t), t) /\ Carried(Refused(t), t)
           /\ kind \in ClaimsEarly => Adopted(t).claimed
           /\ kind \in EarlyKinds => Refused(t) = t
  BY CarriedSelf, Observed DEF Adopted, Refused, EarlyKinds

LEMMA Told0Keeps ==
    ASSUME NEW t \in Resource
    PROVE  Carried(Told0(t), t) /\ Told0(t).claimed = t.claimed
<1> DEFINE f == [p \in DOMAIN t.told |-> IF p \in {"contents"} THEN t.val
                                         ELSE t.told[p]]
<1>1. DOMAIN t.told = Parts \cap Recorded
      /\ \A p \in Parts \cap Recorded : t.told[p] \in 0..(MaxGen + 1)
  BY DEF Resource
<1>2. t.val \in 0..(MaxGen + 1) /\ t.val # 0
  <2>1. MaxGen \in Nat \ {0}
    BY ConstantsAssumption
  <2>2. t.gen \in 0..MaxGen /\ t.val \in {1, 2}
    BY ResourceTypes DEF Value
  <2> QED BY <2>1, <2>2
<1>3. f \in [Parts \cap Recorded -> 0..(MaxGen + 1)]
  BY <1>1, <1>2
<1> DEFINE u == [t EXCEPT !.told = f]
<1>4. u \in Resource
  BY <1>3, ResourceTypes
<1>5. /\ u.life = t.life /\ u.finalizer = t.finalizer /\ u.force = t.force
      /\ u.trigger = t.trigger /\ u.claimed = t.claimed /\ u.told = f
  BY DEF Resource
<1>6. Claimed(t) => Claimed(u)
  BY <1>1, <1>2, <1>5 DEF Claimed
<1>7. Carried(u, t)
  BY <1>4, <1>5, <1>6 DEF Carried
<1> QED BY <1>5, <1>7 DEF Told0

\* What becomes of the object in Uyuni is an object.
LEMMA HeldTypes ==
    ASSUME NEW h \in Object, NEW v \in Value
    PROVE  /\ \A ps : LET new == [h EXCEPT !.cfg = [p \in Parts |->
                                    IF p \in ps THEN v ELSE h.cfg[p]]]
                      IN new \in Object /\ new.st = h.st
           /\ \A b \in BOOLEAN : [h EXCEPT !.running = b] \in Object
                                 /\ [h EXCEPT !.running = b].st = h.st
           /\ LET new == [NoObject EXCEPT !.st = "there",
                    !.cfg = [p \in Parts |-> IF p \in CreateSets THEN v ELSE 0]]
              IN new \in Object /\ new.st = "there"
<1>1. h.cfg \in [Parts -> Value \cup {0}]
  BY DEF Object
<1>2. \A ps : [p \in Parts |-> IF p \in ps THEN v ELSE h.cfg[p]]
                 \in [Parts -> Value \cup {0}]
  BY <1>1
<1>3. \A f \in [Parts -> Value \cup {0}] :
         [h EXCEPT !.cfg = f] \in Object /\ [h EXCEPT !.cfg = f].st = h.st
  BY DEF Object
<1>4. [p \in Parts |-> IF p \in CreateSets THEN v ELSE 0]
         \in [Parts -> Value \cup {0}]
  OBVIOUS
<1>5. \A f \in [Parts -> Value \cup {0}] :
         LET new == [NoObject EXCEPT !.st = "there", !.cfg = f]
         IN new \in Object /\ new.st = "there"
  BY DEF Object, NoObject
<1>6. \A b \in BOOLEAN : [h EXCEPT !.running = b] \in Object
                         /\ [h EXCEPT !.running = b].st = h.st
  BY DEF Object
<1> QED BY <1>2, <1>3, <1>4, <1>5, <1>6

LEMMA PutFates ==
    ASSUME Typed, PutParts
    PROVE  Fate
<1>w. /\ wk \in Worker /\ wk.t \in Resource /\ wk.pc = "step"
      /\ Now.do = "put" /\ held \in Object /\ wk.t.val \in Value
  BY Working, ResourceTypes DEF PutParts, At, Typed
<1>1. kind' = kind /\ cache' = cache /\ Worker' = Worker /\ Object' = Object
  BY SameKind DEF PutParts
<1>2. \/ Go(wk.t) /\ UNCHANGED <<held, history>>
      \/ Fail /\ UNCHANGED held
      \/ /\ held' = [held EXCEPT !.cfg = [p \in Parts |->
                        IF p \in Now.what THEN wk.t.val ELSE @[p]]]
         /\ wk' = [wk EXCEPT !.n = @ + 1, !.t = Tell(wk.t, Now.what),
                      !.hit = @ \/ Now.what \cap Other # {}]
         /\ owed' = IF Now.what \cap Other # {} THEN owed \ {wk.c} ELSE owed
         /\ UNCHANGED <<apiObject, made, lost, twice, robbed>>
  BY DEF PutParts
<1>3. CASE Go(wk.t) /\ UNCHANGED <<held, history>>
  BY <1>w, <1>1, <1>3, Going
<1>4. CASE Fail /\ UNCHANGED held
  BY <1>w, <1>1, <1>4, Failing
<1>5. ASSUME held' = [held EXCEPT !.cfg = [p \in Parts |->
                         IF p \in Now.what THEN wk.t.val ELSE @[p]]],
             wk' = [wk EXCEPT !.n = @ + 1, !.t = Tell(wk.t, Now.what),
                       !.hit = @ \/ Now.what \cap Other # {}],
             owed' = IF Now.what \cap Other # {} THEN owed \ {wk.c} ELSE owed,
             UNCHANGED <<apiObject, made, lost, twice, robbed>>
      PROVE  Fate
  <2>1. held' \in Object /\ held'.st = held.st
    BY <1>w, <1>1, <1>5, HeldTypes, ZenonT(60)
  <2> DEFINE u == Tell(wk.t, Now.what)
  <2>2. Carried(u, wk.t) /\ u.claimed = wk.t.claimed /\ u \in Resource
    BY <1>w, TellKeeps DEF Carried
  <2> HIDE DEF u
  <2>3. wk' = [[wk EXCEPT !.n = @ + 1, !.t = u] EXCEPT
                  !.hit = wk.hit \/ Now.what \cap Other # {}]
    BY <1>w, <1>5 DEF Worker, u
  <2> DEFINE new == [wk EXCEPT !.n = @ + 1, !.t = u]
  <2>4. /\ new \in Worker /\ new.c = wk.c /\ new.n = wk.n + 1
        /\ new.t = u /\ new.pc = wk.pc /\ new.new = wk.new
    BY <1>w, <2>2, NextStep
  <2> HIDE DEF new
  <2>5. wk.hit \in BOOLEAN
    BY <1>w DEF Worker
  <2>6. wk' = [new EXCEPT !.hit = wk.hit \/ Now.what \cap Other # {}]
    BY <2>3 DEF new
  <2>7. /\ wk' \in Worker /\ wk'.c = wk.c /\ wk'.n = wk.n + 1
        /\ wk'.t = u /\ wk'.pc = wk.pc /\ wk'.new = wk.new
        /\ wk'.hit <=> wk.hit \/ Now.what \cap Other # {}
    BY <2>4, <2>5, <2>6 DEF Worker
  <2>8. /\ owed' = owed \/ owed' = owed \ {wk.c}
        /\ wk'.hit => wk.hit \/ wk.c \notin owed'
    BY <1>5, <2>7
  <2>9. GoesOn
    BY <1>w, <1>1, <1>5, <2>1, <2>2, <2>7, <2>8
       DEF GoesOn, Advances, Same
  <2> QED BY <2>9 DEF Fate
<1> QED BY <1>2, <1>3, <1>4, <1>5

\* A pass is somewhere in its script, and creates where the script looks up.
InScript == /\ wk.pc \in {"step", "create"} => wk.n \in 1..Len(Script)
            /\ wk.pc = "create" => Now.do = "realise"

LEMMA ServeFates ==
    ASSUME Typed, InScript, SyncChannelNow \/ RefreshCalendar \/ SyncOnCreate
    PROVE  Fate
<1>w. /\ wk \in Worker /\ wk.t \in Resource /\ wk.pc = "step"
      /\ Now.do = "serve" /\ held \in Object
  BY Working DEF SyncChannelNow, RefreshCalendar, SyncOnCreate, At, Typed
<1>1. kind' = kind /\ cache' = cache /\ Worker' = Worker /\ Object' = Object
  BY SameKind DEF SyncChannelNow, RefreshCalendar, SyncOnCreate, Quiet
<1>b. wk.t.trigger \in BOOLEAN
  BY <1>w DEF Resource
<1>n. ASSUME NEW b \in BOOLEAN, wk' = [wk EXCEPT !.n = @ + 1, !.hit = b]
      PROVE  /\ wk' \in Worker /\ wk'.c = wk.c /\ wk'.n = wk.n + 1
             /\ wk'.t = wk.t /\ wk'.pc = wk.pc /\ wk'.new = wk.new
             /\ wk'.hit = b
  <2>1. wk.n + 1 \in Nat \ {0}
    BY <1>w DEF Worker
  <2> QED BY <1>w, <1>1, <1>n, <2>1 DEF Worker
<1>2. CASE SyncChannelNow
  <2>1. kind = "SoftwareChannel"
    <3>1. Shaped(kind, Script) /\ wk.n \in 1..Len(Script)
      BY <1>w, ScriptShape DEF Typed, Script, InScript
    <3>2. Script[wk.n].do = "serve" /\ Script[wk.n].what = {"sync-now"}
      BY <1>2 DEF SyncChannelNow, At, Now
    <3> QED BY <3>1, <3>2 DEF Shaped
  <2>2. \/ /\ wk' = [wk EXCEPT !.n = @ + 1, !.hit = wk.t.trigger]
           /\ UNCHANGED <<apiObject, held, history>>
        \/ /\ held' = [held EXCEPT !.running = TRUE]
           /\ wk' = [wk EXCEPT !.n = @ + 1, !.hit = wk.t.trigger]
           /\ owed' = owed \ {wk.c}
           /\ UNCHANGED <<apiObject, made, lost, untold, twice, robbed>>
        \/ Fail /\ UNCHANGED held
    BY <1>2 DEF SyncChannelNow
  <2>3. CASE Fail /\ UNCHANGED held
    BY <1>w, <1>1, <2>3, Failing
  <2>4. ASSUME wk' = [wk EXCEPT !.n = @ + 1, !.hit = wk.t.trigger],
               UNCHANGED <<apiObject, made, lost, twice, robbed>>,
               owed' = owed \/ owed' = owed \ {wk.c},
               held' = held \/ held' = [held EXCEPT !.running = TRUE]
        PROVE  Fate
    <3>1. held' \in Object /\ held'.st = held.st
      BY <1>w, <1>1, <2>4, HeldTypes DEF Value
    <3>2. Carried(wk.t, wk.t)
      BY <1>w, CarriedSelf
    <3>3. GoesOn
      BY <1>w, <1>1, <1>b, <1>n, <2>1, <2>4, <3>1, <3>2
         DEF GoesOn, Advances, Same
    <3> QED BY <3>3 DEF Fate
  <2> QED BY <2>2, <2>3, <2>4 DEF history
<1>3. CASE RefreshCalendar
  <2>1. held' = held
    BY <1>3 DEF RefreshCalendar, Quiet
  <2>2. CASE Go(wk.t) /\ UNCHANGED history
    BY <1>w, <1>1, <2>1, <2>2, Going
  <2>3. CASE RefreshFails
    BY <1>w, <1>1, <2>1, <2>3, Failing DEF RefreshFails
  <2>4. ASSUME wk' = [wk EXCEPT !.n = @ + 1, !.hit = TRUE],
               owed' = owed \ {wk.c},
               UNCHANGED <<apiObject, made, lost, untold, twice, robbed>>
        PROVE  Fate
    <3>1. Carried(wk.t, wk.t)
      BY <1>w, CarriedSelf
    <3>2. GoesOn
      BY <1>w, <1>1, <1>n, <2>1, <2>4, <3>1 DEF GoesOn, Advances, Same
    <3> QED BY <3>2 DEF Fate
  <2> QED BY <1>3, <2>2, <2>3, <2>4 DEF RefreshCalendar
<1>4. CASE SyncOnCreate
  <2>1. \/ Go(wk.t) /\ UNCHANGED <<held, history>>
        \/ /\ held' = [held EXCEPT !.running = TRUE]
           /\ Go(wk.t) /\ UNCHANGED history
        \/ Fail /\ UNCHANGED held
    BY <1>4 DEF SyncOnCreate
  <2>2. CASE Go(wk.t) /\ UNCHANGED <<held, history>>
    BY <1>w, <1>1, <2>2, Going
  <2>3. CASE Fail /\ UNCHANGED held
    BY <1>w, <1>1, <2>3, Failing
  <2>4. ASSUME held' = [held EXCEPT !.running = TRUE], Go(wk.t),
               UNCHANGED history
        PROVE  Fate
    <3>1. held' \in Object /\ held'.st = held.st
      BY <1>w, <1>1, <2>4, HeldTypes DEF Value
    <3>2. wk' = [wk EXCEPT !.n = @ + 1, !.t = wk.t] /\ UNCHANGED apiObject
      BY <2>4 DEF Go
    <3>3. /\ wk' \in Worker /\ wk'.c = wk.c /\ wk'.n = wk.n + 1 /\ wk'.t = wk.t
          /\ wk'.pc = wk.pc /\ wk'.new = wk.new /\ wk'.hit = wk.hit
      BY <1>w, <1>1, <3>2, NextStep
    <3>4. Carried(wk.t, wk.t)
      BY <1>w, CarriedSelf
    <3>5. GoesOn
      BY <1>w, <1>1, <2>4, <3>1, <3>2, <3>3, <3>4
         DEF GoesOn, Advances, Same, history
    <3> QED BY <3>5 DEF Fate
  <2> QED BY <2>1, <2>2, <2>3, <2>4
<1> QED BY <1>2, <1>3, <1>4

LEMMA LookUpFates ==
    ASSUME Typed, LookUp
    PROVE  Fate
<1>w. /\ wk \in Worker /\ wk.t \in Resource /\ wk.pc = "step"
      /\ Now.do = "realise" /\ held \in Object /\ wk.t.claimed \in BOOLEAN
  BY Working DEF LookUp, At, Typed, Resource
<1>1. /\ kind' = kind /\ cache' = cache /\ held' = held
      /\ Worker' = Worker /\ Object' = Object
  BY SameKind DEF LookUp
<1>n. wk.n + 1 \in Nat \ {0}
  BY <1>w DEF Worker
<1>a. /\ Carried(Adopted(wk.t), wk.t) /\ Adopted(wk.t) \in Resource
      /\ kind \in ClaimsEarly => Adopted(wk.t).claimed
  BY <1>w, AdoptedKeeps DEF Carried
<1>2. CASE SaveAndEnd(Refused(wk.t))
  <2>1. Refused(wk.t) \in Resource /\ EndsWith(Refused(wk.t))
    BY <1>w, AdoptedKeeps DEF EndsWith, Carried
  <2> QED BY <1>w, <1>1, <1>2, <2>1, SaveEnds
<1>3. ASSUME There, ~ManagedByOther(wk.t),
             wk' = [wk EXCEPT !.n = @ + 1, !.t = Adopted(wk.t), !.cur = held,
                              !.new = ~wk.t.claimed],
             twice' = (twice \/ (ClaimedByOther
                                   /\ cache[Rival(wk.c)] # obj[Rival(wk.c)])),
             UNCHANGED <<apiObject, made, lost, untold, robbed, owed>>
      PROVE  Fate
  <2> DEFINE u == Adopted(wk.t)
  <2> HIDE DEF u
  <2>1. wk' = [wk EXCEPT !.n = wk.n + 1, !.t = u, !.cur = held,
                         !.new = ~wk.t.claimed]
    BY <1>w, <1>3 DEF Worker, u
  <2>2. /\ wk' \in Worker /\ wk'.c = wk.c /\ wk'.n = wk.n + 1 /\ wk'.t = u
        /\ wk'.pc = wk.pc /\ wk'.new = ~wk.t.claimed /\ wk'.hit = wk.hit
    BY <1>w, <1>1, <1>n, <1>a, <2>1 DEF Worker, u
  <2>3. There' /\ held' \in Object
    BY <1>w, <1>1, <1>3 DEF There
  <2>4. Realises
    BY <1>w, <1>1, <1>a, <1>3, <2>2, <2>3 DEF Realises, Advances, Same, u
  <2> QED BY <2>4 DEF Fate
<1>4. ASSUME wk' = [wk EXCEPT !.pc = "create"], UNCHANGED <<apiObject, history>>
      PROVE  Fate
  <2>1. /\ wk' \in Worker /\ wk'.pc = "create" /\ wk'.c = wk.c /\ wk'.n = wk.n
        /\ wk'.t = wk.t /\ wk'.new = wk.new /\ wk'.hit = wk.hit
    BY <1>w, <1>1, <1>4 DEF Worker
  <2>2. Misses
    BY <1>w, <1>1, <1>4, <2>1 DEF Misses, Same
  <2> QED BY <2>2 DEF Fate
<1> QED BY <1>2, <1>3, <1>4 DEF LookUp

LEMMA CreateFates ==
    ASSUME Typed, InScript, CreateObject
    PROVE  Fate
<1>w. /\ wk \in Worker /\ wk.t \in Resource /\ wk.pc = "create"
      /\ Now.do = "realise" /\ held \in Object /\ wk.t.val \in Value
  BY Working, ResourceTypes DEF CreateObject, In, Typed, InScript
<1>1. kind' = kind /\ cache' = cache /\ Worker' = Worker /\ Object' = Object
  BY SameKind DEF CreateObject
<1>n. wk.n + 1 \in Nat \ {0}
  BY <1>w DEF Worker
<1>a. /\ Carried(Adopted(wk.t), wk.t) /\ Adopted(wk.t) \in Resource
      /\ kind \in ClaimsEarly => Adopted(wk.t).claimed
  BY <1>w, AdoptedKeeps DEF Carried
<1>2. CASE SaveAndEnd(wk.t) /\ UNCHANGED held
  <2>1. EndsWith(wk.t)
    BY <1>w, CarriedSelf DEF EndsWith
  <2> QED BY <1>w, <1>1, <1>2, <2>1, SaveEnds
<1>4. ASSUME Create(wk.t),
             wk' = [wk EXCEPT
                      !.pc = IF kind = "ActivationKey" THEN "saveKey" ELSE "step",
                      !.n = @ + 1, !.t = Told0(Adopted(wk.t)),
                      !.cur = held', !.new = TRUE, !.created = TRUE],
             twice' = (twice \/ ClaimedByOther),
             UNCHANGED <<apiObject, lost, robbed, owed>>
      PROVE  Fate
  <2> DEFINE u == Told0(Adopted(wk.t))
             pc == IF kind = "ActivationKey" THEN "saveKey" ELSE "step"
  <2>1. Carried(u, Adopted(wk.t)) /\ u.claimed = Adopted(wk.t).claimed
    BY <1>a, Told0Keeps
  <2>2. Carried(u, wk.t) /\ u \in Resource
    BY <1>a, <2>1 DEF Carried
  <2> HIDE DEF u
  <2>3. held' \in Object /\ There'
    BY <1>w, <1>1, <1>4, HeldTypes DEF Create, There
  <2>4. wk' = [wk EXCEPT !.pc = pc, !.n = wk.n + 1, !.t = u, !.cur = held',
                         !.new = TRUE, !.created = TRUE]
    BY <1>w, <1>4 DEF Worker, u
  <2>5. pc \in {"step", "saveKey"}
    OBVIOUS
  <2> HIDE DEF pc
  <2>6. /\ wk' \in Worker /\ wk'.c = wk.c /\ wk'.n = wk.n + 1 /\ wk'.t = u
        /\ wk'.pc = pc /\ wk'.new = TRUE /\ wk'.hit = wk.hit
    BY <1>w, <1>1, <1>n, <2>2, <2>3, <2>4, <2>5 DEF Worker
  <2>7. Realises
    BY <1>w, <1>1, <1>a, <1>4, <2>1, <2>2, <2>3, <2>5, <2>6
       DEF Realises, Advances, Same
  <2> QED BY <2>7 DEF Fate
<1> QED BY <1>2, <1>4 DEF CreateObject

LEMMA DeleteFates ==
    ASSUME Typed, DeleteObject
    PROVE  Fate
<1>w. /\ wk \in Worker /\ wk.t \in Resource /\ wk.pc = "delete"
  BY Working DEF DeleteObject, In, Typed
<1>1. kind' = kind /\ cache' = cache /\ Worker' = Worker
  BY SameKind DEF DeleteObject
<1>2. CASE InUse
  <2>1. EndsWith(wk.t)
    BY <1>w, CarriedSelf DEF EndsWith
  <2> QED BY <1>w, <1>1, <1>2, <2>1, SaveEnds DEF DeleteObject
<1>3. CASE ~InUse
  <2>1. wk' = [wk EXCEPT !.pc = "release"]
    BY <1>3 DEF DeleteObject
  <2>2. wk' \in Worker
    BY <1>w, <1>1, <2>1 DEF Worker
  <2>3. Deletes
    BY <1>w, <1>1, <1>3, <2>2 DEF DeleteObject, Deletes, Same
  <2> QED BY <2>3 DEF Fate
<1> QED BY <1>2, <1>3

\* Every step of a pass is of one of the forms.
LEMMA Fates ==
    ASSUME Typed, InScript, PassStep
    PROVE  Fate
  BY SimpleFates, SavingFates, PutFates, ServeFates, LookUpFates, CreateFates,
     DeleteFates DEF PassStep, Pass

----------------------------------------------------------------------------
(* What the other steps can do: the user writes, the informer catches up,   *)
(* a pass begins, or something happens elsewhere.                           *)

Rest == UNCHANGED <<kind, lost, twice, robbed>>

Writes(c, new) ==
    /\ Rest /\ UNCHANGED <<cache, wk, held, made>>
    /\ Live(c) /\ new \in Resource
    /\ obj' = [obj EXCEPT ![c] = new] /\ Overtaken(c)
    /\ new.finalizer = obj[c].finalizer /\ new.claimed = obj[c].claimed
    /\ new.told = obj[c].told
    /\ \/ /\ new.life = "live" /\ new.force = obj[c].force
          /\ \/ new.trigger = obj[c].trigger /\ owed' = owed
             \/ ~obj[c].trigger /\ new.trigger /\ owed' = owed \cup {c}
       \/ /\ new.life = IF obj[c].finalizer THEN "deleting" ELSE "gone"
          /\ owed' = owed

Syncs(c) ==
    /\ Rest /\ UNCHANGED <<obj, passOld, wk, held, made, owed>>
    /\ cache' = [cache EXCEPT ![c] = obj[c]] /\ cacheOld' = cacheOld \ {c}

Starts(c) ==
    /\ Rest /\ UNCHANGED <<obj, cacheOld, cache, held, made, owed>>
    /\ wk = Idle /\ Exists(cache[c]) /\ passOld' = (c \in cacheOld)
    /\ wk' \in Worker /\ wk'.c = c /\ wk'.n = 1 /\ wk'.t = cache[c]
    /\ ~wk'.new /\ ~wk'.hit
    /\ wk'.pc = IF cache[c].life = "deleting" THEN "delete"
                ELSE IF cache[c].finalizer THEN "step" ELSE "finalizer"

Elsewhere ==
    /\ Rest /\ UNCHANGED <<apiObject, cache, wk, owed>>
    /\ held' \in Object
    /\ (held'.st = held.st /\ made' = made) \/ made' = FALSE

Outside == \/ Elsewhere
           \/ \E c \in Res : Syncs(c) \/ Starts(c) \/ \E new \in Resource : Writes(c, new)

LEMMA UserOutside ==
    ASSUME Typed, User
    PROVE  Outside
<1> PICK c \in Res : \/ Edit(c) \/ Ask(c) \/ Use(c) \/ Unuse(c)
                     \/ (\E f \in BOOLEAN : Delete(c, f))
  BY DEF User
<1>t. obj[c] \in Resource /\ held \in Object
  BY DEF Typed
<1>1. CASE Edit(c)
  <2> PICK v \in Value :
          UserWrites(c, [obj[c] EXCEPT !.val = v, !.gen = @ + 1])
    BY <1>1 DEF Edit
  <2> DEFINE new == [obj[c] EXCEPT !.val = v, !.gen = @ + 1]
  <2>1. new \in Resource
    BY <1>1, <1>t, ResourceTypes DEF Edit
  <2>2. /\ new.life = obj[c].life /\ new.finalizer = obj[c].finalizer
        /\ new.claimed = obj[c].claimed /\ new.told = obj[c].told
        /\ new.force = obj[c].force /\ new.trigger = obj[c].trigger
    BY <1>t DEF Resource
  <2>3. Live(c) /\ obj' = [obj EXCEPT ![c] = new] /\ Overtaken(c)
        /\ UNCHANGED <<kind, used, cache, missing, usedSeen, wk, held, made, lost,
                       untold, twice, robbed>>
    BY DEF UserWrites
  <2> HIDE DEF new
  <2>4. Writes(c, new)
    BY <1>1, <2>1, <2>2, <2>3 DEF Writes, Rest, Live, Edit
  <2> QED BY <2>1, <2>4 DEF Outside
<1>2. CASE Ask(c)
  <2> DEFINE new == [obj[c] EXCEPT !.trigger = TRUE]
  <2>1. new \in Resource
    BY <1>t, ResourceTypes
  <2>2. /\ new.life = obj[c].life /\ new.finalizer = obj[c].finalizer
        /\ new.claimed = obj[c].claimed /\ new.told = obj[c].told
        /\ new.force = obj[c].force /\ new.trigger
    BY <1>t DEF Resource
  <2>3. Live(c) /\ obj' = [obj EXCEPT ![c] = new] /\ Overtaken(c)
        /\ UNCHANGED <<kind, used, cache, missing, usedSeen, wk, held, made, lost,
                       untold, twice, robbed>>
        /\ ~obj[c].trigger /\ owed' = owed \cup {c}
    BY <1>2 DEF UserWrites, Ask
  <2> HIDE DEF new
  <2>4. Writes(c, new)
    BY <2>1, <2>2, <2>3 DEF Writes, Rest, Live
  <2> QED BY <2>1, <2>4 DEF Outside
<1>3. CASE Use(c) \/ Unuse(c)
  BY <1>3, <1>t, SameKind DEF Use, Unuse, Outside, Elsewhere, Rest, history
<1>4. ASSUME NEW f \in BOOLEAN, Delete(c, f)
      PROVE  Outside
  <2> DEFINE l == IF obj[c].finalizer THEN "deleting" ELSE "gone"
             new == [obj[c] EXCEPT !.force = f, !.life = l]
  <2>1. new \in Resource
    BY <1>t, ResourceTypes
  <2>2. /\ new.life = l /\ new.finalizer = obj[c].finalizer
        /\ new.claimed = obj[c].claimed /\ new.told = obj[c].told
    BY <1>t DEF Resource
  <2>3. obj' = [obj EXCEPT ![c] = new]
    BY <1>4, <1>t DEF Delete, Typed
  <2>4. Live(c) /\ Overtaken(c)
        /\ UNCHANGED <<kind, used, cache, missing, usedSeen, wk, held, history>>
    BY <1>4 DEF Delete
  <2> HIDE DEF new
  <2>5. Writes(c, new)
    BY <2>1, <2>2, <2>3, <2>4 DEF Writes, Rest, history
  <2> QED BY <2>1, <2>5 DEF Outside
<1> QED BY <1>1, <1>2, <1>3, <1>4

LEMMA OtherOutside ==
    ASSUME Typed,
           \/ Vanish \/ Reappear \/ AdminDeletes \/ AdminCreates \/ SyncEnds
           \/ \E c \in Res : CacheSync(c) \/ Begin(c)
    PROVE  Outside
<1>t. held \in Object /\ NoObject \in Object
  BY NoObjectType DEF Typed
<1>1. CASE Vanish \/ Reappear
  BY <1>1, <1>t, SameKind DEF Vanish, Reappear, Outside, Elsewhere, Rest, history,
     kube
<1>2. CASE AdminDeletes
  BY <1>2, <1>t, SameKind DEF AdminDeletes, Outside, Elsewhere, Rest, kube
<1>6. CASE AdminCreates
  <2>1. [NoObject EXCEPT !.st = "there"] \in Object
    BY <1>t DEF Object
  <2> QED BY <1>6, <2>1, SameKind DEF AdminCreates, Outside, Elsewhere, Rest, kube
<1>3. CASE SyncEnds
  <2>1. held' \in Object /\ held'.st = held.st
    BY <1>3, <1>t, HeldTypes DEF SyncEnds, Value
  <2> QED BY <1>3, <2>1, SameKind DEF SyncEnds, Outside, Elsewhere, Rest, kube,
             history
<1>4. ASSUME NEW c \in Res, CacheSync(c)
      PROVE  Outside
  BY <1>4 DEF CacheSync, Outside, Syncs, Rest, history
<1>5. ASSUME NEW c \in Res, Begin(c)
      PROVE  Outside
  <2> DEFINE pc == IF cache[c].life = "deleting" THEN "delete"
                   ELSE IF cache[c].finalizer THEN "step" ELSE "finalizer"
  <2>1. wk' = [pc |-> pc, c |-> c, n |-> 1, t |-> cache[c], cur |-> NoObject,
               new |-> FALSE, created |-> FALSE, hit |-> FALSE]
    BY <1>5 DEF Begin
  <2>2. pc \in {"delete", "step", "finalizer"} /\ cache[c] \in Resource
        /\ Worker' = Worker
    BY <1>5, SameKind DEF Typed, Begin
  <2> HIDE DEF pc
  <2>3. /\ wk' \in Worker /\ wk'.c = c /\ wk'.n = 1 /\ wk'.t = cache[c]
        /\ ~wk'.new /\ ~wk'.hit /\ wk'.pc = pc
    BY <1>t, <2>1, <2>2 DEF Worker
  <2>4. Starts(c)
    BY <1>5, <2>3 DEF Starts, Begin, Rest, history, pc
  <2> QED BY <2>4 DEF Outside
<1> QED BY <1>1, <1>2, <1>3, <1>4, <1>5, <1>6

\* Every step is of one of the forms.
LEMMA Forms ==
    ASSUME Typed, InScript, Next
    PROVE  Fate \/ Outside
  BY Fates, UserOutside, OtherOutside DEF Next, PassStep

----------------------------------------------------------------------------
(* What a pass and the informer know of the resource.                       *)

\* r is a later state of the resource that s is a copy of.
Later(s, r) ==
    /\ s.finalizer => r.finalizer
    /\ s.force => r.force
    /\ s.claimed => r.claimed
    /\ Claimed(s) => Claimed(r)
    /\ s.life = "gone" => r.life = "gone"
    /\ s.life = "deleting" => r.life # "live"
    /\ s.life = "live" /\ s.finalizer => r.life # "gone"

\* The informer's copy is an earlier state, or the current one.
Copies == \A c \in Res : /\ Later(cache[c], obj[c])
                         /\ c \notin cacheOld => cache[c] = obj[c]

Unforced == \A c \in Res : Live(c) => ~obj[c].force

\* The pass's copy, while nobody else has written.
Current(t, s) ==
    /\ t.life = s.life /\ t.finalizer = s.finalizer /\ t.force = s.force
    /\ t.trigger = s.trigger
    /\ s.claimed => t.claimed
    /\ Claimed(s) => Claimed(t)

\* Where a pass is tells how far the resource has got: it has the finalizer
\* before anything is made, and keeps it until the pass that deletes.
Placed ==
    /\ wk.pc = "finalizer" => wk.t.life = "live" /\ ~wk.t.finalizer
    /\ wk.pc \in {"step", "create", "saveKey"} =>
          /\ wk.t.life = "live" /\ wk.t.finalizer
          /\ obj[wk.c].finalizer /\ Exists(obj[wk.c])
    /\ wk.pc \in {"delete", "release"} =>
          /\ wk.t.life = "deleting" /\ obj[wk.c].life # "live"
          /\ cache[wk.c].life # "live"
          /\ wk.t.force => obj[wk.c].force
          /\ ~wk.new

Carries == wk # Idle => /\ ~passOld => Current(wk.t, obj[wk.c])
                        /\ Placed

Base == Typed /\ InScript /\ Copies /\ Unforced /\ Carries

\* A write of a pass keeps what is known, if it carries what the pass has.
LEMMA BaseWritten ==
    ASSUME Base, wk \in Worker, kind' = kind, cache' = cache, held' \in Object,
           NEW t \in Resource, Written(t),
           /\ obj[wk.c].finalizer => t.finalizer
           /\ obj[wk.c].force => t.force
           /\ obj[wk.c].claimed => t.claimed
           /\ Claimed(obj[wk.c]) => Claimed(t)
           /\ t.life = obj[wk.c].life \/ (t.life = "gone" /\ wk.pc \in {"delete", "release"})
           /\ t.force = obj[wk.c].force,
           wk' = Idle \/ wk' \in Worker
    PROVE  Typed' /\ Copies' /\ Unforced' /\ obj'[wk.c] = t /\ ~passOld'
<1>w. wk.c \in Res /\ wk # Idle
  BY DEF Worker, Idle
<1>0. Resource' = Resource /\ Worker' = Worker /\ Object' = Object
  BY SameKind
<1>1. /\ obj' = [obj EXCEPT ![wk.c] = t] /\ ~passOld /\ passOld' = passOld
      /\ cacheOld' = cacheOld \cup (IF t = obj[wk.c] THEN {} ELSE {wk.c})
  BY DEF Written
<1>2. Typed'
  BY <1>w, <1>0, <1>1 DEF Base, Typed, Idle
<1>3. obj'[wk.c] = t /\ \A c \in Res : c # wk.c => obj'[c] = obj[c]
  BY <1>w, <1>1 DEF Base, Typed
<1>4. ASSUME NEW c \in Res
      PROVE  Later(cache'[c], obj'[c]) /\ (c \notin cacheOld' => cache'[c] = obj'[c])
  <2>1. Later(cache[c], obj[c]) /\ (c \notin cacheOld => cache[c] = obj[c])
    BY DEF Base, Copies
  <2>2. CASE c # wk.c
    BY <1>1, <1>3, <2>1, <2>2
  <2>3. CASE c = wk.c
    <3>1. wk.pc \in {"delete", "release"} => cache[c].life # "live"
      BY <1>w, <2>3 DEF Base, Carries, Placed
    <3>2. Later(cache[c], t)
      BY <2>1, <2>3, <3>1 DEF Later
    <3> QED BY <1>1, <1>3, <2>1, <2>3, <3>2
  <2> QED BY <2>2, <2>3
<1>5. Copies'
  BY <1>4 DEF Copies, Later, Claimed
<1>6. Unforced'
  BY <1>w, <1>3 DEF Unforced, Live, Base
<1> QED BY <1>1, <1>2, <1>3, <1>5, <1>6

\* What a pass can write when it ends.
EndsAs(t) ==
    LET o == obj[wk.c]
    IN /\ o.finalizer => t.finalizer
       /\ t.force = o.force
       /\ o.claimed => t.claimed
       /\ Claimed(o) => Claimed(t)
       /\ \/ t.life = o.life
          \/ /\ t.life = "gone" /\ o.life = "deleting"
             /\ wk.pc = "release" \/ (wk.pc = "delete" /\ wk.t.force)
             /\ Claimed(t) => Claimed(wk.t)
       /\ t.trigger = o.trigger \/ (wk.hit /\ ~t.trigger)
       /\ t.claimed => wk.t.claimed \/ kind \notin EarlyKinds \/ At("save")

LEMMA EndsMeans ==
    ASSUME Base, NEW t \in Resource, Ends(t)
    PROVE  EndsAs(t) /\ Current(wk.t, obj[wk.c]) /\ Placed /\ wk # Idle
<1> DEFINE o == obj[wk.c]
<1>w. /\ wk \in Worker /\ wk # Idle /\ wk.t \in Resource /\ wk.c \in Res
      /\ o \in Resource
  BY DEF Ends, Same, Worker, Idle, Base, Typed
<1>1. Current(wk.t, o) /\ Placed
  BY <1>w DEF Base, Carries, Ends, Written
<1>2. CASE /\ Carried(t, wk.t)
           /\ t.claimed = wk.t.claimed \/ kind \notin EarlyKinds \/ At("save")
  BY <1>w, <1>1, <1>2 DEF Carried, Current, EndsAs
<1>3. CASE wk.pc = "finalizer" /\ t = [wk.t EXCEPT !.finalizer = TRUE]
  <2>1. /\ t.life = wk.t.life /\ t.finalizer /\ t.force = wk.t.force
        /\ t.trigger = wk.t.trigger /\ t.claimed = wk.t.claimed
        /\ t.told = wk.t.told
    BY <1>w, <1>3 DEF Resource
  <2> HIDE <1>3
  <2> QED BY <1>w, <1>1, <2>1 DEF Current, EndsAs, Claimed
<1>4. CASE /\ wk.pc = "release" \/ (wk.pc = "delete" /\ wk.t.force)
           /\ t = [wk.t EXCEPT !.life = "gone"]
  <2>1. /\ t.life = "gone" /\ t.finalizer = wk.t.finalizer
        /\ t.force = wk.t.force
        /\ t.trigger = wk.t.trigger /\ t.claimed = wk.t.claimed
        /\ t.told = wk.t.told
    BY <1>w, <1>4 DEF Resource
  <2>2. o.life = "deleting"
    BY <1>1, <1>4 DEF Current, Placed
  <2>3. wk.pc = "release" \/ (wk.pc = "delete" /\ wk.t.force)
    BY <1>4
  <2> HIDE <1>4
  <2> QED BY <1>w, <1>1, <2>1, <2>2, <2>3 DEF Current, EndsAs, Claimed
<1>5. CASE kind = "MaintenanceCalendar" /\ wk.hit
           /\ t = [o EXCEPT !.trigger = FALSE]
  <2>1. /\ t.life = o.life /\ t.finalizer = o.finalizer
        /\ t.force = o.force /\ ~t.trigger /\ t.claimed = o.claimed
        /\ t.told = o.told
    BY <1>w, <1>5 DEF Resource
  <2>2. wk.hit
    BY <1>5
  <2> HIDE <1>5
  <2> QED BY <1>w, <1>1, <2>1, <2>2 DEF Current, EndsAs, Claimed
<1> QED BY <1>w, <1>1, <1>2, <1>3, <1>4, <1>5 DEF Ends, EndsWith

\* What a pass writes and goes on.
LEMMA StoresMeans ==
    ASSUME Base, NEW t \in Resource, Stores(t)
    PROVE  LET o == obj[wk.c]
           IN /\ t.finalizer = o.finalizer /\ t.force = o.force
              /\ o.claimed => t.claimed
              /\ Claimed(o) => Claimed(t)
              /\ t.life = o.life
              /\ t.trigger = o.trigger \/ ~t.trigger
              /\ t.claimed => wk.t.claimed
              /\ wk'.t.claimed = wk.t.claimed
              /\ wk'.t.life = wk.t.life /\ wk'.t.finalizer = wk.t.finalizer
              /\ Current(wk'.t, t) /\ Placed /\ wk # Idle
              /\ wk.c \in Res
<1> DEFINE o == obj[wk.c]
<1>w. /\ wk \in Worker /\ wk # Idle /\ wk.t \in Resource /\ wk.c \in Res
      /\ o \in Resource
  BY DEF Stores, Advances, Same, Worker, Idle, Base, Typed
<1>1. Current(wk.t, o) /\ Placed
  BY <1>w DEF Base, Carries, Stores, Written
<1>2. CASE t = wk.t /\ wk'.t = wk.t
  <2>1. Current(wk.t, wk.t)
    BY DEF Current
  <2> QED BY <1>w, <1>1, <1>2, <2>1 DEF Current
<1>3. CASE t = [o EXCEPT !.trigger = FALSE]
           /\ wk'.t = [wk.t EXCEPT !.trigger = FALSE]
  <2>1. /\ t.life = o.life /\ t.finalizer = o.finalizer
        /\ t.force = o.force /\ t.trigger = FALSE /\ t.claimed = o.claimed
        /\ t.told = o.told
    BY <1>w, <1>3 DEF Resource
  <2> DEFINE u == wk'.t
  <2>2. /\ u.life = wk.t.life /\ u.finalizer = wk.t.finalizer
        /\ u.force = wk.t.force /\ u.trigger = FALSE /\ u.claimed = wk.t.claimed
        /\ u.told = wk.t.told
    BY <1>w, <1>3 DEF Resource
  <2> HIDE <1>3
  <2> HIDE DEF u
  <2>3. Current(u, t)
    BY <1>1, <2>1, <2>2 DEF Current, Claimed
  <2>4. Claimed(o) => Claimed(t)
    BY <2>1 DEF Claimed
  <2> QED BY <1>w, <1>1, <2>1, <2>2, <2>3, <2>4 DEF Current, u
<1> QED BY <1>2, <1>3 DEF Stores

LEMMA BaseInit == Init => Base
<1> SUFFICES ASSUME Init PROVE Base
  OBVIOUS
<1>0. MaxGen \in Nat \ {0}
  BY ConstantsAssumption
<1>1. obj \in [Res -> Resource]
  <2>1. [p \in Parts \cap Recorded |-> 0] \in [Parts \cap Recorded -> 0..(MaxGen + 1)]
    BY <1>0
  <2>2. 1 \in 1..MaxGen /\ 0 \in 0..MaxGen
    BY <1>0
  <2>3. [life : {"live", "gone"}, finalizer : {FALSE}, force : {FALSE},
         val : Value, gen : {1}, trigger : {FALSE}, claimed : {FALSE},
         told : {[p \in Parts \cap Recorded |-> 0]}, observed : {0}]
        \subseteq Resource
    BY <2>1, <2>2 DEF Resource
  <2> QED BY <2>3 DEF Init
<1>2. held \in Object
  BY NoObjectType DEF Init, Object
<1>3. Typed
  BY <1>1, <1>2 DEF Init, Typed
<1>4. wk = Idle /\ wk.pc = "idle"
  BY DEF Init, Idle
<1>5. InScript /\ Carries
  BY <1>4 DEF InScript, Carries
<1>6. Copies
  BY DEF Init, Copies, Later
<1>7. Unforced
  BY DEF Init, Unforced
<1> QED BY <1>3, <1>5, <1>6, <1>7 DEF Base

\* A pass that goes on stays in its script.
LEMMA StaysInScript ==
    ASSUME Base, Advances
    PROVE  InScript' /\ wk \in Worker /\ wk # Idle /\ wk.n \in 1..Len(Script)
           /\ Shaped(kind, Script)
<1>1. Shaped(kind, Script) /\ wk.n \in 1..Len(Script) /\ Script' = Script
  BY ScriptShape, SameKind DEF Base, Typed, Script, InScript, Advances, Same
<1>2. Script[wk.n].do # "save"
  BY DEF Advances, Now
<1>3. wk.n # Len(Script) /\ Len(Script) \in Nat
  BY <1>1, <1>2 DEF Shaped
<1>4. wk.n + 1 \in 1..Len(Script)
  BY <1>1, <1>3
<1> QED BY <1>1, <1>4 DEF InScript, Advances, Same, Worker, Idle

LEMMA BaseFate ==
    ASSUME Base, Fate
    PROVE  Base'
<1>w. wk \in Worker /\ wk # Idle /\ kind' = kind /\ cache' = cache /\ wk.c \in Res
      /\ wk.t \in Resource
  BY DEF Fate, Loses, GoesOn, Misses, Realises, Deletes, Ends, Stores, Advances, Same,
         Worker, Idle
<1>0. Resource' = Resource /\ Worker' = Worker /\ Object' = Object
  BY <1>w, SameKind
<1>b. held \in Object /\ Placed
  BY <1>w DEF Base, Typed, Carries
<1>i. wk' = Idle => InScript' /\ Carries'
  BY DEF InScript, Carries, Idle
<1>1. CASE Loses
  <2>1. wk' = Idle /\ passOld' = FALSE /\ UNCHANGED <<obj, cacheOld, held>>
    BY <1>1 DEF Loses, Lost
  <2>2. Typed'
    BY <1>w, <1>0, <2>1 DEF Base, Typed
  <2>3. Copies' /\ Unforced'
    BY <1>w, <2>1 DEF Base, Copies, Unforced, Later, Claimed, Live
  <2> QED BY <1>i, <2>1, <2>2, <2>3 DEF Base
<1>2. ASSUME NEW t \in Resource, Ends(t)
      PROVE  Base'
  <2>1. EndsAs(t)
    BY <1>2, EndsMeans
  <2>2. wk' = Idle /\ held' = held /\ Written(t)
    BY <1>2 DEF Ends
  <2>3. Typed' /\ Copies' /\ Unforced'
    BY <1>w, <1>b, <2>1, <2>2, BaseWritten DEF EndsAs
  <2> QED BY <1>i, <2>2, <2>3 DEF Base
<1>3. ASSUME NEW t \in Resource, Stores(t)
      PROVE  Base'
  <2>1. /\ wk' \in Worker /\ wk'.c = wk.c /\ wk'.pc = "step" /\ held' = held
        /\ Written(t) /\ wk.pc \in {"step", "create"} /\ Advances
    BY <1>3 DEF Stores, Advances
  <2>2. Typed' /\ Copies' /\ Unforced' /\ obj'[wk.c] = t /\ ~passOld'
    BY <1>w, <1>b, <1>3, <2>1, BaseWritten, StoresMeans
  <2>3. Current(wk'.t, t) /\ wk'.t.life = "live" /\ wk'.t.finalizer
    BY <1>b, <1>3, <2>1, StoresMeans DEF Placed
  <2>4. t.finalizer /\ Exists(t)
    BY <1>b, <1>3, <2>1, StoresMeans DEF Placed, Exists
  <2>5. Carries'
    BY <2>1, <2>2, <2>3, <2>4 DEF Carries, Placed, Current, Claimed, Exists
  <2>6. InScript'
    BY <2>1, StaysInScript
  <2> QED BY <2>2, <2>5, <2>6 DEF Base
<1>4. CASE GoesOn \/ Realises
  <2>1. /\ wk' \in Worker /\ wk'.c = wk.c /\ wk'.pc \in {"step", "saveKey"}
        /\ UNCHANGED <<obj, cacheOld, passOld>> /\ held' \in Object
        /\ wk.pc \in {"step", "create"} /\ Advances /\ Carried(wk'.t, wk.t)
    BY <1>4 DEF GoesOn, Realises, Advances, apiObject
  <2>2. Typed'
    BY <1>w, <1>0, <2>1 DEF Base, Typed
  <2>3. Copies' /\ Unforced'
    BY <1>w, <2>1 DEF Base, Copies, Unforced, Later, Claimed, Live
  <2>4. ~passOld => Current(wk'.t, obj[wk.c])
    BY <1>w, <2>1 DEF Base, Carries, Current, Carried
  <2>5. wk'.t.life = "live" /\ wk'.t.finalizer
    BY <1>b, <2>1 DEF Placed, Carried
  <2>6. obj[wk.c].finalizer /\ Exists(obj[wk.c])
    BY <1>b, <2>1 DEF Placed
  <2>7. Carries'
    BY <2>1, <2>4, <2>5, <2>6 DEF Carries, Placed, Current, Claimed, Exists
  <2>8. InScript'
    BY <2>1, StaysInScript
  <2> QED BY <2>2, <2>3, <2>7, <2>8 DEF Base
<1>5. CASE Deletes
  <2>1. /\ wk' \in Worker /\ wk'.c = wk.c /\ wk'.pc = "release"
        /\ wk'.t = wk.t /\ wk'.new = wk.new
        /\ UNCHANGED <<obj, cacheOld, passOld>>
        /\ wk.pc = "delete"
    BY <1>w, <1>5 DEF Deletes, Worker, apiObject
  <2>h. held' \in Object
    BY <1>0, <1>b, <1>5, NoObjectType DEF Deletes
  <2>2. Typed'
    BY <1>w, <1>0, <2>1, <2>h DEF Base, Typed
  <2>3. Copies' /\ Unforced'
    BY <1>w, <2>1 DEF Base, Copies, Unforced, Later, Claimed, Live
  <2>4. Carries'
    BY <1>w, <2>1 DEF Base, Carries, Placed, Current, Claimed, Exists
  <2>5. InScript'
    BY <2>1 DEF InScript
  <2> QED BY <2>2, <2>3, <2>4, <2>5 DEF Base
<1>6. CASE Misses
  <2>1. /\ wk' \in Worker /\ wk'.c = wk.c /\ wk'.pc = "create" /\ wk'.n = wk.n
        /\ wk'.t = wk.t /\ wk.pc = "step" /\ Now.do = "realise"
        /\ UNCHANGED <<obj, cacheOld, passOld, held>>
    BY <1>6 DEF Misses, apiObject
  <2>2. Typed'
    BY <1>w, <1>0, <2>1 DEF Base, Typed
  <2>3. Copies' /\ Unforced'
    BY <1>w, <2>1 DEF Base, Copies, Unforced, Later, Claimed, Live
  <2>4. Carries'
    BY <1>w, <2>1 DEF Base, Carries, Placed, Current, Claimed, Exists
  <2>5. InScript'
    <3>1. Script' = Script
      BY <1>w, SameKind
    <3> QED BY <2>1, <3>1 DEF Base, InScript, Now
  <2> QED BY <2>2, <2>3, <2>4, <2>5 DEF Base
<1> QED BY <1>1, <1>2, <1>3, <1>4, <1>5, <1>6 DEF Fate

LEMMA BaseOutside ==
    ASSUME Base, Outside
    PROVE  Base'
<1>k. kind' = kind
  BY DEF Outside, Elsewhere, Syncs, Starts, Writes, Rest
<1>0. Resource' = Resource /\ Worker' = Worker /\ Object' = Object
      /\ Script' = Script
  BY <1>k, SameKind
<1>1. CASE Elsewhere
  <2>1. UNCHANGED <<obj, cacheOld, passOld, cache, wk>> /\ held' \in Object
    BY <1>1 DEF Elsewhere, apiObject
  <2>2. Typed' /\ InScript'
    BY <1>k, <1>0, <2>1 DEF Base, Typed, InScript, Now
  <2>3. Copies' /\ Unforced' /\ Carries'
    BY <2>1 DEF Base, Copies, Unforced, Carries, Current, Placed, Later, Claimed,
                Live, Exists
  <2> QED BY <2>2, <2>3 DEF Base
<1>2. ASSUME NEW c \in Res, Syncs(c)
      PROVE  Base'
  <2>1. /\ UNCHANGED <<obj, passOld, wk, held>>
        /\ cache' = [cache EXCEPT ![c] = obj[c]] /\ cacheOld' = cacheOld \ {c}
    BY <1>2 DEF Syncs
  <2>2. Typed' /\ InScript'
    BY <1>k, <1>0, <2>1 DEF Base, Typed, InScript, Now
  <2>3. cache'[c] = obj[c] /\ \A d \in Res : d # c => cache'[d] = cache[d]
    BY <2>1 DEF Base, Typed
  <2>4. Later(obj[c], obj[c])
    BY DEF Later
  <2>5. \A d \in Res : Later(cache'[d], obj'[d])
                       /\ (d \notin cacheOld' => cache'[d] = obj'[d])
    BY <2>1, <2>3, <2>4 DEF Base, Copies
  <2>6. Copies' /\ Unforced'
    BY <2>1, <2>5 DEF Copies, Base, Unforced, Live, Later, Claimed
  <2>7. Carries'
    <3>1. CASE wk = Idle
      BY <2>1, <3>1 DEF Carries
    <3>2. CASE wk # Idle
      <4>1. wk.c \in Res
        BY <3>2 DEF Base, Typed, Worker
      <4> QED BY <2>1, <2>3, <3>2, <4>1 DEF Base, Carries, Current, Placed,
                Claimed, Exists
    <3> QED BY <3>1, <3>2
  <2> QED BY <2>2, <2>6, <2>7 DEF Base
<1>3. ASSUME NEW c \in Res, Starts(c)
      PROVE  Base'
  <2>1. /\ UNCHANGED <<obj, cacheOld, cache, held>> /\ wk' \in Worker
        /\ wk'.c = c /\ wk'.n = 1 /\ wk'.t = cache[c] /\ ~wk'.new
        /\ passOld' = (c \in cacheOld) /\ Exists(cache[c])
        /\ wk'.pc = IF cache[c].life = "deleting" THEN "delete"
                    ELSE IF cache[c].finalizer THEN "step" ELSE "finalizer"
    BY <1>3 DEF Starts
  <2>2. Typed'
    BY <1>k, <1>0, <2>1 DEF Base, Typed
  <2>3. InScript'
    <3>1. Shaped(kind, Script)
      BY ScriptShape DEF Base, Typed, Script
    <3>2. 1 \in 1..Len(Script)
      BY <3>1 DEF Shaped
    <3> QED BY <1>0, <2>1, <3>2 DEF InScript
  <2>4. Copies' /\ Unforced'
    BY <2>1 DEF Base, Copies, Unforced, Live, Later, Claimed
  <2>5. Later(cache[c], obj[c]) /\ (c \notin cacheOld => cache[c] = obj[c])
    BY DEF Base, Copies
  <2>6. cache[c].life \in {"live", "deleting"}
    <3>1. cache[c] \in Resource
      BY DEF Base, Typed
    <3> QED BY <2>1, <3>1 DEF Exists, Resource
  <2>7. Placed'
    BY <2>1, <2>5, <2>6 DEF Placed, Later, Exists
  <2>8. ~passOld' => Current(cache[c], obj[c])
    BY <2>1, <2>5 DEF Current
  <2>9. Carries'
    BY <2>1, <2>7, <2>8 DEF Carries, Current, Claimed
  <2> QED BY <2>2, <2>3, <2>4, <2>9 DEF Base
<1>4. ASSUME NEW c \in Res, NEW new \in Resource, Writes(c, new)
      PROVE  Base'
  <2>1. /\ UNCHANGED <<cache, wk, held>> /\ Live(c)
        /\ obj' = [obj EXCEPT ![c] = new] /\ cacheOld' = cacheOld \cup {c}
        /\ passOld' = (passOld \/ (wk # Idle /\ wk.c = c))
        /\ new.finalizer = obj[c].finalizer /\ new.claimed = obj[c].claimed
        /\ new.told = obj[c].told
        /\ \/ new.life = "live" /\ new.force = obj[c].force
           \/ new.life = IF obj[c].finalizer THEN "deleting" ELSE "gone"
    BY <1>4 DEF Writes, Overtaken
  <2>2. Typed' /\ InScript'
    BY <1>k, <1>0, <2>1 DEF Base, Typed, InScript, Now
  <2>3. obj'[c] = new /\ \A d \in Res : d # c => obj'[d] = obj[d]
    BY <2>1 DEF Base, Typed
  <2>4. Later(cache[c], new)
    <3>1. Later(cache[c], obj[c]) /\ ~obj[c].force /\ obj[c].life = "live"
      BY <2>1 DEF Base, Copies, Unforced, Live
    <3>2. Claimed(new) <=> Claimed(obj[c])
      BY <2>1 DEF Claimed
    <3> QED BY <2>1, <3>1, <3>2 DEF Later
  <2>5. \A d \in Res : Later(cache'[d], obj'[d])
                       /\ (d \notin cacheOld' => cache'[d] = obj'[d])
    BY <2>1, <2>3, <2>4 DEF Base, Copies
  <2>6. Copies'
    BY <2>5 DEF Copies, Later, Claimed
  <2>7. Unforced'
    BY <2>1, <2>3 DEF Base, Unforced, Live
  <2>8. Carries'
    <3>1. CASE wk = Idle
      BY <2>1, <3>1 DEF Carries
    <3>2. CASE wk # Idle /\ wk.c # c
      <4>1. wk.c \in Res
        BY <3>2 DEF Base, Typed, Worker
      <4>2. obj'[wk.c] = obj[wk.c] /\ passOld' = passOld
        BY <2>1, <2>3, <3>2, <4>1 DEF Base, Typed
      <4> QED BY <2>1, <3>2, <4>2 DEF Base, Carries, Current, Placed, Claimed,
                Exists
    <3>3. CASE wk # Idle /\ wk.c = c
      <4>1. Placed /\ passOld'
        BY <2>1, <3>3 DEF Base, Carries
      <4>2. Placed'
        BY <2>1, <2>3, <3>3, <4>1 DEF Placed, Exists, Live
      <4> QED BY <4>1, <4>2 DEF Carries
    <3> QED BY <3>1, <3>2, <3>3
  <2> QED BY <2>2, <2>6, <2>7, <2>8 DEF Base
<1> QED BY <1>1, <1>2, <1>3, <1>4 DEF Outside

LEMMA BaseStep ==
    ASSUME Base, [Next]_vars
    PROVE  Base'
<1>1. CASE Next
  BY <1>1, Forms, BaseFate, BaseOutside DEF Base
<1>2. CASE UNCHANGED vars
  <2>1. UNCHANGED <<kind, obj, cacheOld, passOld, cache, wk, held>>
    BY <1>2 DEF vars, kube, apiObject
  <2>2. Resource' = Resource /\ Worker' = Worker /\ Object' = Object
        /\ Script' = Script
    BY <2>1, SameKind
  <2>3. Typed' /\ InScript'
    BY <2>1, <2>2 DEF Base, Typed, InScript, Now
  <2>4. Copies' /\ Unforced' /\ Carries'
    BY <2>1 DEF Base, Copies, Unforced, Carries, Current, Placed, Later, Claimed,
                Live, Exists
  <2> QED BY <2>3, <2>4 DEF Base
<1> QED BY <1>1, <1>2

----------------------------------------------------------------------------
(* Triggers.                                                                *)

\* A trigger that is owed is still there, and a pass that has served one
\* strips it only if nobody asked again meanwhile.
Served == kind # "SoftwareChannel" =>
    /\ \A c \in owed : Live(c) => obj[c].trigger
    /\ wk # Idle /\ wk.hit /\ ~passOld => wk.c \notin owed

Asking == {c \in Res : kind # "SoftwareChannel" /\ Live(c) /\ obj[c].trigger}
Owing == {c \in owed : kind # "SoftwareChannel" /\ Live(c)}

\* A step of module Trigger.
TriggerStep ==
    \/ Asking' = Asking /\ Owing' = Owing
    \/ \E c \in Res :
          \/ c \notin Asking /\ Asking' = Asking \cup {c} /\ Owing' = Owing \cup {c}
          \/ c \in Owing /\ Owing' = Owing \ {c} /\ Asking' = Asking
          \/ c \in Asking \ Owing /\ Asking' = Asking \ {c} /\ Owing' = Owing
          \/ c \in Asking /\ Asking' = Asking \ {c} /\ Owing' = Owing \ {c}

LEMMA ServedWritten ==
    ASSUME Typed, Served, kind' = kind, owed' = owed, wk \in Worker, wk # Idle,
           NEW t \in Resource, ~passOld, passOld' = passOld,
           obj' = [obj EXCEPT ![wk.c] = t],
           t.life = obj[wk.c].life \/ (t.life = "gone" /\ obj[wk.c].life = "deleting"),
           t.trigger = obj[wk.c].trigger \/ (wk.hit /\ ~t.trigger),
           \/ wk' = Idle
           \/ wk' \in Worker /\ wk'.c = wk.c /\ wk'.hit = wk.hit
    PROVE  Served' /\ TriggerStep
<1>1. wk.c \in Res /\ obj'[wk.c] = t /\ \A c \in Res : c # wk.c => obj'[c] = obj[c]
  BY DEF Typed, Worker
<1>2. CASE kind = "SoftwareChannel"
  <2>1. Asking = {} /\ Owing = {} /\ Asking' = {} /\ Owing' = {}
    BY <1>2 DEF Asking, Owing
  <2> QED BY <1>2, <2>1 DEF Served, TriggerStep
<1>3. CASE kind # "SoftwareChannel"
  <2>1. /\ \A c \in owed : Live(c) => obj[c].trigger
        /\ wk.hit => wk.c \notin owed
    BY <1>3 DEF Served
  <2>2. \A c \in Res : Live(c)' <=> Live(c)
    BY <1>1 DEF Live
  <2>3. \A c \in Res : c # wk.c => obj'[c].trigger = obj[c].trigger
    BY <1>1
  <2>4. \A c \in owed : Live(c)' => obj'[c].trigger
    <3> SUFFICES ASSUME NEW c \in owed, Live(c)' PROVE obj'[c].trigger
      OBVIOUS
    <3>1. CASE c = wk.c
      BY <1>1, <2>1, <2>2, <3>1
    <3>2. CASE c # wk.c
      <4>1. obj'[c] = obj[c]
        BY <3>2 DEF Typed
      <4> QED BY <2>1, <4>1 DEF Live
    <3> QED BY <3>1, <3>2
  <2>5. Served'
    BY <2>1, <2>4 DEF Served, Live
  <2>6. Owing' = Owing
    <3>1. \A c \in owed : Live(c)' <=> Live(c)
      BY <1>1 DEF Live, Typed
    <3> QED BY <3>1 DEF Owing
  <2>7. CASE t.trigger = obj[wk.c].trigger
    <3>1. \A c \in Res : obj'[c].trigger = obj[c].trigger
      BY <1>1, <2>7
    <3>2. Asking' = Asking
      BY <2>2, <3>1 DEF Asking, Live
    <3> QED BY <2>5, <2>6, <3>2 DEF TriggerStep
  <2>8. CASE wk.hit /\ ~t.trigger /\ wk.c \in Asking
    <3>1. wk.c \in Asking \ Owing
      BY <2>1, <2>8 DEF Owing
    <3>2. Asking' = Asking \ {wk.c}
      BY <1>1, <1>3, <2>2, <2>3, <2>8 DEF Asking, Live
    <3> QED BY <1>1, <2>5, <2>6, <3>1, <3>2 DEF TriggerStep
  <2>9. CASE wk.hit /\ ~t.trigger /\ wk.c \notin Asking
    <3>1. Asking' = Asking
      BY <1>1, <1>3, <2>2, <2>3, <2>9 DEF Asking, Live
    <3> QED BY <2>5, <2>6, <3>1 DEF TriggerStep
  <2> QED BY <2>7, <2>8, <2>9
<1> QED BY <1>2, <1>3

LEMMA ServedFate ==
    ASSUME Base, Served, Fate
    PROVE  Served' /\ TriggerStep
<1>w. wk \in Worker /\ wk # Idle /\ kind' = kind /\ wk.c \in Res
  BY DEF Fate, Loses, GoesOn, Misses, Realises, Deletes, Ends, Stores, Advances, Same,
         Worker, Idle
<1>t. Typed
  BY DEF Base
<1>1. CASE Loses
  <2>1. wk' = Idle /\ UNCHANGED <<obj, owed>>
    BY <1>1 DEF Loses, Lost
  <2> QED BY <1>w, <2>1 DEF Served, TriggerStep, Asking, Owing, Live
<1>2. ASSUME NEW t \in Resource, Ends(t)
      PROVE  Served' /\ TriggerStep
  <2>1. EndsAs(t)
    BY <1>2, EndsMeans
  <2>2. wk' = Idle /\ owed' = owed /\ ~passOld /\ passOld' = passOld
        /\ obj' = [obj EXCEPT ![wk.c] = t]
    BY <1>2 DEF Ends, Written
  <2> QED BY <1>w, <1>t, <2>1, <2>2, ServedWritten DEF EndsAs
<1>3. ASSUME NEW t \in Resource, Stores(t)
      PROVE  Served' /\ TriggerStep
  <2>1. t.life = obj[wk.c].life /\ (t.trigger = obj[wk.c].trigger \/ ~t.trigger)
    BY <1>3, StoresMeans
  <2>2. /\ wk' \in Worker /\ wk'.c = wk.c /\ wk'.hit = wk.hit /\ wk.hit
        /\ owed' = owed /\ ~passOld /\ passOld' = passOld
        /\ obj' = [obj EXCEPT ![wk.c] = t]
    BY <1>3 DEF Stores, Advances, Written, history
  <2> QED BY <1>w, <1>t, <2>1, <2>2, ServedWritten
<1>4. CASE GoesOn
  <2>1. /\ UNCHANGED <<obj, passOld>> /\ wk'.c = wk.c
        /\ owed' = owed \/ owed' = owed \ {wk.c}
        /\ wk'.hit => wk.hit \/ wk.c \notin owed' \/ kind = "SoftwareChannel"
    BY <1>4 DEF GoesOn, Advances, apiObject
  <2>2. Served'
    BY <1>w, <2>1 DEF Served, Live
  <2>3. Asking' = Asking
    BY <1>w, <2>1 DEF Asking, Live
  <2>4. CASE wk.c \in Owing
    <3>1. Owing' = Owing \/ Owing' = Owing \ {wk.c}
      BY <1>w, <2>1 DEF Owing, Live
    <3> QED BY <1>w, <2>2, <2>3, <2>4, <3>1 DEF TriggerStep
  <2>5. CASE wk.c \notin Owing
    <3>1. Owing' = Owing
      BY <1>w, <2>1, <2>5 DEF Owing, Live
    <3> QED BY <2>2, <2>3, <3>1 DEF TriggerStep
  <2> QED BY <2>4, <2>5
<1>5. CASE Realises
  <2>1. UNCHANGED <<obj, passOld, owed>> /\ wk'.c = wk.c /\ wk'.hit = wk.hit
    BY <1>5 DEF Realises, Advances, apiObject
  <2> QED BY <1>w, <2>1 DEF Served, TriggerStep, Asking, Owing, Live
<1>6. CASE Deletes
  <2>1. UNCHANGED <<obj, passOld, owed>> /\ wk'.c = wk.c /\ wk'.hit = wk.hit
    BY <1>w, <1>6 DEF Deletes, apiObject, Worker
  <2> QED BY <1>w, <2>1 DEF Served, TriggerStep, Asking, Owing, Live
<1>7. CASE Misses
  <2>1. UNCHANGED <<obj, passOld, owed>> /\ wk'.c = wk.c /\ wk'.hit = wk.hit
    BY <1>7 DEF Misses, apiObject, history
  <2> QED BY <1>w, <2>1 DEF Served, TriggerStep, Asking, Owing, Live
<1> QED BY <1>1, <1>2, <1>3, <1>4, <1>5, <1>6, <1>7 DEF Fate

LEMMA ServedOutside ==
    ASSUME Base, Served, Outside
    PROVE  Served' /\ TriggerStep
<1>k. kind' = kind
  BY DEF Outside, Elsewhere, Syncs, Starts, Writes, Rest
<1>1. CASE Elsewhere
  <2>1. UNCHANGED <<obj, passOld, wk, owed>>
    BY <1>1 DEF Elsewhere, apiObject
  <2> QED BY <1>k, <2>1 DEF Served, TriggerStep, Asking, Owing, Live
<1>2. ASSUME NEW c \in Res, Syncs(c)
      PROVE  Served' /\ TriggerStep
  BY <1>k, <1>2 DEF Syncs, Served, TriggerStep, Asking, Owing, Live
<1>3. ASSUME NEW c \in Res, Starts(c)
      PROVE  Served' /\ TriggerStep
  BY <1>k, <1>3 DEF Starts, Served, TriggerStep, Asking, Owing, Live
<1>4. ASSUME NEW c \in Res, NEW new \in Resource, Writes(c, new)
      PROVE  Served' /\ TriggerStep
  <2>1. /\ wk' = wk /\ obj[c].life = "live" /\ obj' = [obj EXCEPT ![c] = new]
        /\ passOld' = (passOld \/ (wk # Idle /\ wk.c = c))
        /\ \/ /\ new.life = "live"
              /\ \/ new.trigger = obj[c].trigger /\ owed' = owed
                 \/ ~obj[c].trigger /\ new.trigger /\ owed' = owed \cup {c}
           \/ new.life # "live" /\ owed' = owed
    BY <1>4 DEF Writes, Overtaken, Live
  <2>2. obj'[c] = new /\ \A d : d # c => obj'[d] = obj[d]
    BY <2>1 DEF Base, Typed
  <2>3. CASE kind = "SoftwareChannel"
    <3>1. Asking = {} /\ Owing = {} /\ Asking' = {} /\ Owing' = {}
      BY <1>k, <2>3 DEF Asking, Owing
    <3> QED BY <1>k, <2>3, <3>1 DEF Served, TriggerStep
  <2>4. CASE kind # "SoftwareChannel"
    <3>1. /\ \A d \in owed : obj[d].life = "live" => obj[d].trigger
          /\ wk # Idle /\ wk.hit /\ ~passOld => wk.c \notin owed
      BY <2>4 DEF Served, Live
    <3>2. Served'
      <4>1. \A d \in owed' : obj'[d].life = "live" => obj'[d].trigger
        BY <2>1, <2>2, <3>1
      <4>2. wk' # Idle /\ wk'.hit /\ ~passOld' => wk'.c \notin owed'
        BY <2>1, <3>1
      <4> QED BY <4>1, <4>2 DEF Served, Live
    <3>3. CASE new.life = "live" /\ new.trigger = obj[c].trigger /\ owed' = owed
      BY <1>k, <2>1, <2>2, <3>2, <3>3 DEF TriggerStep, Asking, Owing, Live
    <3>4. CASE new.life = "live" /\ ~obj[c].trigger /\ new.trigger
               /\ owed' = owed \cup {c}
      <4>1. c \notin Asking
        BY <3>4 DEF Asking
      <4>2. Asking' = Asking \cup {c}
        BY <1>k, <2>1, <2>2, <2>4, <3>4 DEF Asking, Live
      <4>3. Owing' = Owing \cup {c}
        BY <1>k, <2>1, <2>2, <2>4, <3>4 DEF Owing, Live
      <4> QED BY <3>2, <4>1, <4>2, <4>3 DEF TriggerStep
    <3>5. CASE new.life # "live" /\ owed' = owed
      <4>1. Asking' = Asking \ {c} /\ Owing' = Owing \ {c}
        BY <1>k, <2>1, <2>2, <2>4, <3>5 DEF Asking, Owing, Live
      <4>2. c \in Asking \/ (c \notin Asking /\ c \notin Owing)
        BY <2>1, <2>4, <3>1 DEF Asking, Owing, Live
      <4> QED BY <3>2, <4>1, <4>2 DEF TriggerStep
    <3> QED BY <2>1, <3>3, <3>4, <3>5
  <2> QED BY <2>3, <2>4
<1> QED BY <1>1, <1>2, <1>3, <1>4 DEF Outside

LEMMA ServedStep ==
    ASSUME Base, Served, [Next]_vars
    PROVE  Served' /\ TriggerStep
<1>1. CASE Next
  BY <1>1, Forms, ServedFate, ServedOutside DEF Base
<1>2. CASE UNCHANGED vars
  <2>1. UNCHANGED <<kind, obj, passOld, wk, owed>>
    BY <1>2 DEF vars, kube, apiObject, history
  <2> QED BY <2>1 DEF Served, TriggerStep, Asking, Owing, Live
<1> QED BY <1>1, <1>2

\* The trigger annotations of every kind but the software channel are served
\* before they are stripped: Claim implements Trigger.
THEOREM ClaimTriggersServed == Spec => TriggersServed
<1>1. Init => Base /\ Served /\ Asking = {} /\ Owing = {}
  <2>1. Init => Served /\ Asking = {} /\ Owing = {}
    BY DEF Init, Served, Asking, Owing
  <2> QED BY <2>1, BaseInit
<1>2. Base /\ Served /\ [Next]_vars => (Base /\ Served)' /\ TriggerStep
  BY BaseStep, ServedStep
<1>3. Asking = {} /\ Owing = {} => OneShot!Init
  BY DEF OneShot!Init, Asking, Owing
<1>4. TriggerStep => [OneShot!Next]_(OneShot!triggerVars)
  BY DEF TriggerStep, OneShot!Next, OneShot!Ask, OneShot!Serve, OneShot!Strip,
         OneShot!Withdraw, OneShot!triggerVars, Asking, Owing
<1> QED BY <1>1, <1>2, <1>3, <1>4, PTL DEF Spec, TriggersServed, OneShot!Spec

----------------------------------------------------------------------------
(* Claims.                                                                  *)

\* The status has the id once the pass is past the lookup, in the kinds that
\* say so at once; only the lookup makes a pass one of a new object.
Realised == wk.pc \in {"step", "create"} =>
    /\ kind \in EarlyKinds /\ wk.n > RealiseAt(kind) => wk.t.claimed
    /\ wk.new => wk.n > RealiseAt(kind)

\* A resource that claims the label, or whose pass is about to.
Claims(c) == /\ Exists(obj[c])
             /\ obj[c].claimed \/ (wk # Idle /\ wk.c = c /\ wk.t.claimed)

ClaimedOnce == kind \in EarlyKinds /\ ~twice =>
    ~robbed /\ ~(\A c \in Res : Claims(c))

\* Where the lookup is, and what deletion deletes.
LEMMA KindFacts ==
    ASSUME kind \in Kinds
    PROVE  /\ kind \in EarlyKinds =>
                 /\ RealiseAt(kind) \in {1, 2} /\ Deletion.deletes = "own"
                 /\ kind \in ClaimsEarly /\ kind \in ChecksOwner
           /\ Deletion.deletes = "nothing" => RealiseAt(kind) = 0
           /\ Deletion.deletes \in {"own", "labelled", "nothing"}
<1> USE DEF Deletion, Deletions, Own, Labelled, DeleteSoftwareChannel,
            DeleteRepository, DeleteActivationKey, DeleteSystemGroup,
            DeleteConfigurationChannel, DeleteCustomInfoKey,
            DeleteMaintenanceCalendar, DeleteMaintenanceSchedule,
            DeleteAutoinstallDistribution, DeleteAutoinstallProfile,
            DeleteExternalProfile, DeleteImageStore
<1>1. kind \in EarlyKinds => RealiseAt(kind) \in {1, 2} /\ Deletion.deletes = "own"
  BY DEF EarlyKinds, RealiseAt
<1>2. kind \in EarlyKinds => kind \in ClaimsEarly /\ kind \in ChecksOwner
  BY DEF EarlyKinds, ClaimsEarly, ChecksOwner
<1>3. kind # "ExternalProfile" => Deletion.deletes \in {"own", "labelled"}
  BY ConstantsAssumption
<1>4. kind = "ExternalProfile" => Deletion.deletes = "nothing" /\ RealiseAt(kind) = 0
  BY DEF RealiseAt
<1> QED BY <1>1, <1>2, <1>3, <1>4

\* A status that is claimed in these kinds has the id.
LEMMA EarlyClaimed ==
    ASSUME kind \in EarlyKinds, kind \in Kinds, NEW t \in Resource, Claimed(t)
    PROVE  t.claimed
<1>1. "contents" \notin Parts
  BY NoContents DEF Parts
<1>2. DOMAIN t.told = Parts \cap Recorded
  BY DEF Resource
<1> QED BY <1>1, <1>2 DEF Claimed

LEMMA RealisedStep ==
    ASSUME Base, Realised, Fate \/ Outside
    PROVE  Realised'
<1>k. kind' = kind /\ kind \in Kinds
  BY DEF Fate, Loses, GoesOn, Misses, Realises, Deletes, Ends, Stores, Advances, Same,
         Outside, Elsewhere, Syncs, Starts, Writes, Rest, Base, Typed
<1>1. CASE wk' = wk
  BY <1>k, <1>1 DEF Realised
<1>2. CASE wk'.pc \notin {"step", "create"}
  BY <1>2 DEF Realised
<1>3. CASE GoesOn \/ \E t \in Resource : Stores(t)
  <2>1. /\ Advances /\ Now.do # "realise" /\ wk'.t.claimed = wk.t.claimed
        /\ wk'.new = wk.new
    BY <1>3, StoresMeans DEF GoesOn, Stores
  <2>2. /\ wk.n \in 1..Len(Script) /\ Shaped(kind, Script)
        /\ wk'.n = wk.n + 1 /\ wk.pc \in {"step", "create"}
    BY <2>1, StaysInScript DEF Advances
  <2>3. wk.n # RealiseAt(kind) /\ RealiseAt(kind) \in Nat
    BY <2>1, <2>2 DEF Shaped, Now
  <2>4. wk'.n > RealiseAt(kind) <=> wk.n > RealiseAt(kind)
    BY <2>2, <2>3
  <2> QED BY <1>k, <2>1, <2>2, <2>4 DEF Realised
<1>4. CASE Realises
  <2>1. /\ Advances /\ Now.do = "realise" /\ (kind \in ClaimsEarly => wk'.t.claimed)
    BY <1>4 DEF Realises
  <2>2. /\ wk.n \in 1..Len(Script) /\ Shaped(kind, Script)
        /\ wk'.n = wk.n + 1 /\ wk.pc \in {"step", "create"}
    BY <2>1, StaysInScript DEF Advances
  <2>3. wk'.n > RealiseAt(kind)
    BY <2>1, <2>2 DEF Shaped, Now
  <2> QED BY <1>k, <2>1, <2>3, KindFacts DEF Realised
<1>5. ASSUME NEW c \in Res, Starts(c)
      PROVE  Realised'
  <2>1. wk'.n = 1 /\ ~wk'.new
    BY <1>5 DEF Starts
  <2>2. kind \in EarlyKinds => RealiseAt(kind) \in {1, 2}
    BY <1>k, KindFacts
  <2> QED BY <1>k, <2>1, <2>2 DEF Realised
<1>6. CASE Loses \/ Deletes \/ \E t \in Resource : Ends(t)
  <2>1. wk'.pc \notin {"step", "create"}
    BY <1>6 DEF Loses, Lost, Deletes, Ends, Idle, Same, Worker
  <2> QED BY <1>2, <2>1
<1>7. CASE Misses
  BY <1>k, <1>7 DEF Misses, Realised
<1> QED BY <1>1, <1>3, <1>4, <1>5, <1>6, <1>7
        DEF Fate, Outside, Elsewhere, Syncs, Writes

LEMMA ClaimedOnceFate ==
    ASSUME Base, Realised, ClaimedOnce, Fate, kind \in EarlyKinds, ~twice'
    PROVE  ~robbed' /\ ~(\A c \in Res : Claims(c)')
<1>w. /\ wk \in Worker /\ wk # Idle /\ kind' = kind /\ cache' = cache
      /\ wk.c \in Res /\ wk.t \in Resource /\ kind \in Kinds
      /\ Rival(wk.c) \in Res \ {wk.c}
  <2>1. wk \in Worker /\ kind' = kind /\ cache' = cache
    BY DEF Fate, Loses, GoesOn, Misses, Realises, Deletes, Ends, Stores, Advances, Same
  <2>2. wk # Idle /\ wk.c \in Res /\ wk.t \in Resource
    BY <2>1 DEF Worker, Idle
  <2> QED BY <2>1, <2>2, Rivals DEF Base, Typed
<1>f. /\ RealiseAt(kind) \in {1, 2} /\ Deletion.deletes = "own"
      /\ kind \in ClaimsEarly /\ kind \in ChecksOwner
  BY <1>w, KindFacts
<1>t. ~twice
  BY DEF Fate, Loses, GoesOn, Misses, Realises, Deletes, Ends, Stores, Advances, Lost,
         history
<1>o. ~robbed /\ ~(\A c \in Res : Claims(c))
  BY <1>t DEF ClaimedOnce
<1>s. ASSUME robbed' = robbed, \A c \in Res : Claims(c)' => Claims(c)
      PROVE  ~robbed' /\ ~(\A c \in Res : Claims(c)')
  BY <1>o, <1>s
<1>1. CASE Loses
  <2>1. wk' = Idle /\ UNCHANGED <<obj, robbed>>
    BY <1>1 DEF Loses, Lost
  <2>2. \A c \in Res : Claims(c)' => Claims(c)
    BY <2>1 DEF Claims, Exists
  <2> QED BY <1>s, <2>1, <2>2
<1>2. ASSUME NEW t \in Resource, Ends(t)
      PROVE  ~robbed' /\ ~(\A c \in Res : Claims(c)')
  <2>1. EndsAs(t)
    BY <1>2, EndsMeans
  <2>2. wk' = Idle /\ robbed' = robbed /\ obj' = [obj EXCEPT ![wk.c] = t]
    BY <1>2 DEF Ends, Written
  <2>3. At("save") => wk.t.claimed
    <3>1. SUFFICES ASSUME At("save") PROVE wk.t.claimed
      OBVIOUS
    <3>2. Shaped(kind, Script) /\ wk.n \in 1..Len(Script) /\ wk.pc = "step"
      BY <3>1, ScriptShape DEF Base, Typed, Script, InScript, At
    <3>3. wk.n > RealiseAt(kind)
      BY <1>f, <3>1, <3>2 DEF Shaped, At, Now
    <3> QED BY <3>2, <3>3 DEF Realised
  <2>4. Exists(t) /\ t.claimed => Claims(wk.c)
    BY <1>w, <2>1, <2>3 DEF EndsAs, Claims, Exists
  <2>5. \A c \in Res : Claims(c)' => Claims(c)
    BY <1>w, <2>2, <2>4 DEF Claims, Exists, Base, Typed
  <2> QED BY <1>s, <2>2, <2>5
<1>3. ASSUME NEW t \in Resource, Stores(t)
      PROVE  ~robbed' /\ ~(\A c \in Res : Claims(c)')
  <2>1. t.life = obj[wk.c].life /\ (t.claimed => wk.t.claimed)
        /\ wk'.t.claimed = wk.t.claimed
    BY <1>3, StoresMeans
  <2>2. wk'.c = wk.c /\ robbed' = robbed /\ obj' = [obj EXCEPT ![wk.c] = t]
    BY <1>3 DEF Stores, Advances, Written
  <2>3. \A c \in Res : Claims(c)' => Claims(c)
    BY <1>w, <2>1, <2>2 DEF Claims, Exists, Base, Typed
  <2> QED BY <1>s, <2>2, <2>3
<1>4. CASE GoesOn
  <2>1. /\ UNCHANGED obj /\ wk'.c = wk.c /\ wk'.t.claimed = wk.t.claimed
        /\ robbed' = robbed
    BY <1>4 DEF GoesOn, Advances, apiObject
  <2>2. \A c \in Res : Claims(c)' => Claims(c)
    BY <1>w, <2>1 DEF Claims, Exists
  <2> QED BY <1>s, <2>1, <2>2
<1>5. CASE Realises
  <2>1. UNCHANGED obj /\ wk'.c = wk.c /\ robbed' = robbed
    BY <1>5 DEF Realises, Advances, apiObject
  <2>2. ClaimedByOther => twice'
    <3>1. CASE ~ManagedByOther(wk.t)
               /\ (twice' <=> twice \/ (ClaimedByOther
                                 /\ cache[Rival(wk.c)] # obj[Rival(wk.c)]))
      BY <1>f, <3>1 DEF ManagedByOther, ClaimedByOther
    <3>2. CASE twice' <=> twice \/ ClaimedByOther
      BY <3>2
    <3> QED BY <1>5, <3>1, <3>2 DEF Realises
  <2>3. Claims(Rival(wk.c))' => ClaimedByOther
    BY <1>w, <2>1 DEF Claims, ClaimedByOther, Exists
  <2> QED BY <1>o, <1>w, <2>1, <2>2, <2>3
<1>6. CASE Deletes
  <2>1. /\ UNCHANGED obj /\ wk'.c = wk.c /\ wk'.t = wk.t
        /\ robbed' <=> robbed \/ (/\ MustDelete(wk.t) /\ There
                              /\ Live(Rival(wk.c)) /\ obj[Rival(wk.c)].claimed
                              /\ Exists(obj[wk.c]))
    BY <1>w, <1>6 DEF Deletes, apiObject, Worker
  <2>2. \A c \in Res : Claims(c)' => Claims(c)
    BY <1>w, <2>1 DEF Claims, Exists
  <2>3. MustDelete(wk.t) => wk.t.claimed
    BY <1>f, <1>w, EarlyClaimed DEF MustDelete
  <2>4. ~robbed'
    <3>1. SUFFICES ASSUME MustDelete(wk.t), Live(Rival(wk.c)),
                          obj[Rival(wk.c)].claimed, Exists(obj[wk.c])
                   PROVE  FALSE
      BY <1>o, <2>1
    <3>2. Claims(wk.c) /\ Claims(Rival(wk.c))
      BY <1>w, <2>3, <3>1 DEF Claims, Live, Exists
    <3>3. \A c \in Res : Claims(c)
      BY <1>w, <3>2, Rivals
    <3> QED BY <1>o, <3>3
  <2> QED BY <1>o, <2>2, <2>4
<1>7. CASE Misses
  <2>1. /\ UNCHANGED <<obj, robbed>> /\ wk'.c = wk.c /\ wk'.t = wk.t
    BY <1>7 DEF Misses, apiObject, history
  <2>2. \A c \in Res : Claims(c)' => Claims(c)
    BY <1>w, <2>1 DEF Claims, Exists
  <2> QED BY <1>s, <2>1, <2>2
<1> QED BY <1>1, <1>2, <1>3, <1>4, <1>5, <1>6, <1>7 DEF Fate

LEMMA ClaimedOnceOutside ==
    ASSUME Base, ClaimedOnce, Outside
    PROVE  ClaimedOnce'
<1>1. UNCHANGED <<kind, twice, robbed>>
  BY DEF Outside, Elsewhere, Syncs, Starts, Writes, Rest
<1>s. SUFFICES \A c \in Res : Claims(c)' => Claims(c)
  BY <1>1 DEF ClaimedOnce
<1>2. CASE Elsewhere
  BY <1>2 DEF Elsewhere, Claims, Exists, apiObject
<1>3. ASSUME NEW c \in Res, Syncs(c)
      PROVE  \A d \in Res : Claims(d)' => Claims(d)
  BY <1>3 DEF Syncs, Claims, Exists
<1>4. ASSUME NEW c \in Res, Starts(c)
      PROVE  \A d \in Res : Claims(d)' => Claims(d)
  <2>1. cache[c].claimed => obj[c].claimed
    BY DEF Base, Copies, Later
  <2> QED BY <1>4, <2>1 DEF Starts, Claims, Exists
<1>5. ASSUME NEW c \in Res, NEW new \in Resource, Writes(c, new)
      PROVE  \A d \in Res : Claims(d)' => Claims(d)
  <2>1. wk' = wk /\ Live(c) /\ obj' = [obj EXCEPT ![c] = new]
        /\ new.claimed = obj[c].claimed
    BY <1>5 DEF Writes
  <2> QED BY <2>1 DEF Claims, Exists, Live, Base, Typed
<1> QED BY <1>2, <1>3, <1>4, <1>5 DEF Outside

----------------------------------------------------------------------------
(* What deletion leaves.                                                    *)

\* c will still delete what has its label, or was deleted by force.
Keeps(c) == \/ ~Exists(obj[c]) /\ obj[c].force
            \/ Exists(obj[c]) /\ obj[c].finalizer

\* c will still delete what it has, or was deleted by force: its status tells
\* of the object, or its pass still has to.
Knows(c) == \/ ~Exists(obj[c]) /\ obj[c].force
            \/ /\ Exists(obj[c]) /\ obj[c].finalizer
               /\ Claimed(obj[c]) \/ (wk # Idle /\ wk.c = c /\ wk.new)

KeptByLabel == /\ wk.pc # "release"
               /\ \E c \in Res : Keeps(c)
KeptByStatus == /\ wk.pc = "release" => ~Claimed(wk.t)
                /\ \E c \in Res : Knows(c)

\* Whatever the operator made has a resource that will delete it.
Kept == made => /\ Deletion.deletes # "nothing"
                /\ Deletion.deletes = "labelled" => KeptByLabel
                /\ Deletion.deletes = "own" /\ ~lost => KeptByStatus

\* A pass that ends leaves what it made to a resource that knows it.
LEMMA KeptEnds ==
    ASSUME Base, Kept, NEW t \in Resource, Ends(t)
    PROVE  Kept'
<1> DEFINE o == obj[wk.c]
<1>1. EndsAs(t) /\ Current(wk.t, o) /\ Placed /\ wk # Idle
  BY EndsMeans
<1>2. /\ kind' = kind /\ made' = made /\ wk' = Idle /\ wk'.pc = "idle"
      /\ obj' = [obj EXCEPT ![wk.c] = t] /\ wk \in Worker
  BY DEF Ends, Same, Written, Idle
<1>3. Deletion' = Deletion
  BY <1>2, SameKind
<1>4. wk.c \in Res /\ obj'[wk.c] = t /\ \A c \in Res : c # wk.c => obj'[c] = obj[c]
  BY <1>2 DEF Worker, Base, Typed
<1>5. ASSUME made, Deletion.deletes = "labelled"
      PROVE  KeptByLabel'
  <2>1. PICK c \in Res : Keeps(c)
    BY <1>5 DEF Kept, KeptByLabel
  <2>2. wk.pc # "release"
    BY <1>5 DEF Kept, KeptByLabel
  <2>3. CASE c # wk.c
    BY <1>2, <1>4, <2>1, <2>3 DEF KeptByLabel, Keeps, Exists
  <2>4. CASE c = wk.c
    <3>1. \/ ~Exists(t) /\ t.force
          \/ Exists(t) /\ t.finalizer
      BY <1>1, <2>1, <2>2, <2>4 DEF EndsAs, Keeps, Exists, Current
    <3> QED BY <1>2, <1>4, <3>1 DEF KeptByLabel, Keeps, Exists
  <2> QED BY <2>3, <2>4
<1>6. ASSUME made, Deletion.deletes = "own", ~lost'
      PROVE  KeptByStatus'
  <2>1. ~lost /\ ~(wk.new /\ ~Claimed(t))
    BY <1>6, CalendarDeletes DEF Ends
  <2>2. PICK c \in Res : Knows(c)
    BY <1>6, <2>1 DEF Kept, KeptByStatus
  <2>3. wk.pc = "release" => ~Claimed(wk.t)
    BY <1>6, <2>1 DEF Kept, KeptByStatus
  <2>4. CASE c # wk.c
    <3>1. Knows(c)'
      BY <1>4, <2>2, <2>4 DEF Knows, Exists, Claimed
    <3> QED BY <1>2, <3>1 DEF KeptByStatus
  <2>5. CASE c = wk.c
    <3>1. CASE ~Exists(o) /\ o.force
      <4>1. ~Exists(t) /\ t.force
        BY <1>1, <3>1 DEF EndsAs, Exists
      <4> QED BY <1>2, <1>4, <4>1 DEF KeptByStatus, Knows, Exists
    <3>2. CASE Exists(o) /\ o.finalizer /\ (Claimed(o) \/ wk.new)
      <4>1. Claimed(t)
        BY <1>1, <2>1, <3>2 DEF EndsAs
      <4>2. CASE t.life = o.life
        <5>1. Exists(t) /\ t.finalizer
          BY <1>1, <3>2, <4>2 DEF EndsAs, Exists
        <5>2. Knows(c)'
          BY <1>4, <2>5, <4>1, <5>1 DEF Knows, Exists, Claimed
        <5> QED BY <1>2, <5>2 DEF KeptByStatus
      <4>3. CASE t.life # o.life
        <5>1. t.life = "gone" /\ (wk.pc = "release" \/ (wk.pc = "delete" /\ wk.t.force))
          BY <1>1, <4>3 DEF EndsAs
        <5>2. ~wk.new
          BY <1>1, <5>1 DEF Placed
        <5>3. Claimed(wk.t)
          BY <1>1, <3>2, <5>2 DEF Current
        <5>4. wk.t.force /\ t.force
          BY <1>1, <2>3, <5>1, <5>3 DEF EndsAs, Current
        <5>5. Knows(c)'
          BY <1>4, <2>5, <5>1, <5>4 DEF Knows, Exists
        <5> QED BY <1>2, <5>5 DEF KeptByStatus
      <4> QED BY <4>2, <4>3
    <3> QED BY <2>2, <2>5, <3>1, <3>2 DEF Knows
  <2> QED BY <2>4, <2>5
<1> QED BY <1>2, <1>3, <1>5, <1>6 DEF Kept

\* The same resources keep it when no resource and no pass changes what
\* matters here.
LEMMA KeptSame ==
    ASSUME Kept, kind' = kind, made' => made, lost' = lost,
           wk'.pc # "release",
           \A c \in Res : (Keeps(c) => Keeps(c)') /\ (Knows(c) => Knows(c)')
    PROVE  Kept'
<1>1. Deletion' = Deletion
  BY SameKind
<1>2. KeptByLabel => KeptByLabel'
  BY DEF KeptByLabel
<1>3. KeptByStatus => KeptByStatus'
  BY DEF KeptByStatus
<1> QED BY <1>1, <1>2, <1>3 DEF Kept

LEMMA KeptFate ==
    ASSUME Base, Realised, Kept, Fate
    PROVE  Kept'
<1>w. /\ wk \in Worker /\ wk # Idle /\ kind' = kind /\ wk.c \in Res
      /\ kind \in Kinds /\ Placed
  <2>1. wk \in Worker /\ kind' = kind
    BY DEF Fate, Loses, GoesOn, Misses, Realises, Deletes, Ends, Stores, Advances, Same
  <2>2. wk # Idle /\ wk.c \in Res
    BY <2>1 DEF Worker, Idle
  <2> QED BY <2>1, <2>2 DEF Base, Typed, Carries
<1>0. Deletion' = Deletion
  BY <1>w, SameKind
<1>1. CASE Loses
  <2>1. /\ wk' = Idle /\ wk'.pc = "idle" /\ UNCHANGED <<obj, made>>
        /\ lost' = (lost \/ (wk.new /\ ~Claimed(obj[wk.c])))
    BY <1>1 DEF Loses, Lost, Idle
  <2>2. \A c \in Res : Keeps(c) => Keeps(c)'
    BY <2>1 DEF Keeps, Exists
  <2>3. ~lost' => \A c \in Res : Knows(c) => Knows(c)'
    BY <2>1 DEF Knows, Exists, Claimed
  <2>4. KeptByLabel => KeptByLabel'
    BY <2>1, <2>2 DEF KeptByLabel
  <2>5. ~lost' => ~lost /\ (KeptByStatus => KeptByStatus')
    BY <2>1, <2>3 DEF KeptByStatus
  <2> QED BY <1>0, <2>1, <2>4, <2>5 DEF Kept
<1>2. CASE \E t \in Resource : Ends(t)
  BY <1>2, KeptEnds
<1>3. ASSUME NEW t \in Resource, Stores(t)
      PROVE  Kept'
  <2>1. /\ t.finalizer = obj[wk.c].finalizer /\ t.force = obj[wk.c].force
        /\ Claimed(obj[wk.c]) => Claimed(t)
        /\ t.life = obj[wk.c].life
    BY <1>3, StoresMeans
  <2>2. /\ wk' \in Worker /\ wk'.c = wk.c /\ wk'.new = wk.new /\ wk'.pc = "step"
        /\ UNCHANGED <<made, lost>> /\ obj' = [obj EXCEPT ![wk.c] = t]
    BY <1>3 DEF Stores, Advances, Written, history
  <2>3. obj'[wk.c] = t /\ \A c \in Res : c # wk.c => obj'[c] = obj[c]
    BY <1>w, <2>2 DEF Base, Typed
  <2>4. wk' # Idle
    BY <2>2 DEF Worker, Idle
  <2>5. \A c \in Res : Keeps(c) => Keeps(c)'
    BY <2>1, <2>3 DEF Keeps, Exists
  <2>6. \A c \in Res : Knows(c) => Knows(c)'
    BY <2>1, <2>2, <2>3, <2>4 DEF Knows, Exists, Claimed
  <2> QED BY <1>w, <2>2, <2>5, <2>6, KeptSame
<1>4. CASE GoesOn
  <2>1. /\ UNCHANGED <<obj, made, lost>> /\ wk'.c = wk.c /\ wk'.new = wk.new
        /\ wk'.pc = "step"
    BY <1>4 DEF GoesOn, Advances, apiObject
  <2>2. wk' # Idle
    BY <2>1 DEF Idle
  <2>3. \A c \in Res : (Keeps(c) => Keeps(c)') /\ (Knows(c) => Knows(c)')
    BY <2>1, <2>2 DEF Keeps, Knows, Exists, Claimed
  <2> QED BY <1>w, <2>1, <2>3, KeptSame
<1>5. CASE Realises
  <2>1. /\ UNCHANGED <<obj, lost>> /\ wk'.c = wk.c /\ Advances
        /\ wk.pc \in {"step", "create"}
        /\ wk'.pc \in {"step", "saveKey"} /\ Now.do = "realise"
    BY <1>5 DEF Realises, Advances, apiObject
  <2>2. wk.n = RealiseAt(kind) /\ RealiseAt(kind) \in Nat /\ RealiseAt(kind) # 0
    BY <2>1, StaysInScript DEF Shaped, Now
  <2>3. ~wk.new /\ Deletion.deletes # "nothing"
    BY <1>w, <2>1, <2>2, KindFacts DEF Realised
  <2>4. wk' # Idle
    BY <2>1 DEF Idle
  <2>5. CASE made' = made
    <3>1. \A c \in Res : (Keeps(c) => Keeps(c)') /\ (Knows(c) => Knows(c)')
      BY <2>1, <2>3 DEF Keeps, Knows, Exists, Claimed
    <3> QED BY <1>w, <2>1, <2>5, <3>1, KeptSame
  <2>6. CASE wk'.new = TRUE
    <3>1. obj[wk.c].finalizer /\ Exists(obj[wk.c])
      BY <1>w, <2>1 DEF Placed
    <3>2. Keeps(wk.c)' /\ Knows(wk.c)'
      BY <2>1, <2>4, <2>6, <3>1 DEF Keeps, Knows, Exists
    <3>3. KeptByLabel' /\ KeptByStatus'
      BY <1>w, <2>1, <3>2 DEF KeptByLabel, KeptByStatus
    <3> QED BY <1>0, <2>3, <3>3 DEF Kept
  <2> QED BY <1>5, <2>5, <2>6 DEF Realises
<1>6. CASE Deletes
  <2>1. /\ UNCHANGED <<obj, lost>> /\ wk'.c = wk.c /\ wk'.new = wk.new
        /\ wk'.t = wk.t /\ wk'.pc = "release" /\ wk.pc = "delete"
        /\ made' <=> made /\ ~MustDelete(wk.t)
    BY <1>w, <1>6 DEF Deletes, apiObject, Worker
  <2>2. wk' # Idle
    BY <2>1 DEF Idle
  <2>3. \A c \in Res : Knows(c) => Knows(c)'
    BY <2>1, <2>2 DEF Knows, Exists, Claimed
  <2>4. ~MustDelete(wk.t) => /\ Deletion.deletes # "labelled"
                             /\ Deletion.deletes = "own" => ~Claimed(wk.t)
    BY DEF MustDelete
  <2>5. ~Claimed(wk.t) => (KeptByStatus => KeptByStatus')
    BY <2>1, <2>3 DEF KeptByStatus, Claimed
  <2> QED BY <1>0, <2>1, <2>4, <2>5 DEF Kept
<1>7. CASE Misses
  <2>1. /\ UNCHANGED <<obj, made, lost>> /\ wk'.c = wk.c /\ wk'.new = wk.new
        /\ wk'.pc = "create"
    BY <1>7 DEF Misses, apiObject, history
  <2>2. wk' # Idle
    BY <2>1 DEF Idle
  <2>3. \A c \in Res : (Keeps(c) => Keeps(c)') /\ (Knows(c) => Knows(c)')
    BY <2>1, <2>2 DEF Keeps, Knows, Exists, Claimed
  <2> QED BY <1>w, <2>1, <2>3, KeptSame
<1> QED BY <1>1, <1>2, <1>3, <1>4, <1>5, <1>6, <1>7 DEF Fate

LEMMA KeptOutside ==
    ASSUME Base, Kept, Outside
    PROVE  Kept'
<1>1. UNCHANGED <<kind, lost>>
  BY DEF Outside, Elsewhere, Syncs, Starts, Writes, Rest
<1>0. Deletion' = Deletion
  BY <1>1, SameKind
<1>s. ASSUME wk' = wk, made' => made,
             \A c \in Res : (Keeps(c) => Keeps(c)') /\ (Knows(c) => Knows(c)')
      PROVE  Kept'
  <2>1. KeptByLabel => KeptByLabel'
    BY <1>s DEF KeptByLabel
  <2>2. KeptByStatus => KeptByStatus'
    BY <1>s DEF KeptByStatus, Claimed
  <2> QED BY <1>0, <1>1, <1>s, <2>1, <2>2 DEF Kept
<1>2. CASE Elsewhere \/ \E c \in Res : Syncs(c)
  <2>1. UNCHANGED <<obj, wk>> /\ (made' => made)
    BY <1>2 DEF Elsewhere, Syncs, apiObject
  <2>2. \A c \in Res : (Keeps(c) => Keeps(c)') /\ (Knows(c) => Knows(c)')
    BY <2>1 DEF Keeps, Knows, Exists, Claimed
  <2> QED BY <1>s, <2>1, <2>2
<1>3. ASSUME NEW c \in Res, Starts(c)
      PROVE  Kept'
  <2>1. UNCHANGED <<obj, made>> /\ wk = Idle /\ wk'.pc # "release"
    BY <1>3 DEF Starts
  <2>2. \A d \in Res : (Keeps(d) => Keeps(d)') /\ (Knows(d) => Knows(d)')
    BY <2>1 DEF Keeps, Knows, Exists, Claimed
  <2> QED BY <1>1, <2>1, <2>2, KeptSame
<1>4. ASSUME NEW c \in Res, NEW new \in Resource, Writes(c, new)
      PROVE  Kept'
  <2>1. /\ UNCHANGED <<wk, made>> /\ obj[c].life = "live"
        /\ obj' = [obj EXCEPT ![c] = new]
        /\ new.finalizer = obj[c].finalizer /\ new.claimed = obj[c].claimed
        /\ new.told = obj[c].told
        /\ obj[c].finalizer => new.life # "gone"
    BY <1>4 DEF Writes, Live
  <2>2. obj'[c] = new /\ \A d \in Res : d # c => obj'[d] = obj[d]
    BY <2>1 DEF Base, Typed
  <2>3. \A d \in Res : Keeps(d) => Keeps(d)'
    BY <2>1, <2>2 DEF Keeps, Exists
  <2>4. Claimed(new) <=> Claimed(obj[c])
    BY <2>1 DEF Claimed
  <2>5. \A d \in Res : Knows(d) => Knows(d)'
    BY <2>1, <2>2, <2>4 DEF Knows, Exists, Claimed
  <2> QED BY <1>s, <2>1, <2>3, <2>5
<1> QED BY <1>2, <1>3, <1>4 DEF Outside

----------------------------------------------------------------------------
(* The invariant and the theorems.                                          *)

CInv == Base /\ Realised /\ ClaimedOnce /\ Kept

LEMMA CInvStep ==
    ASSUME CInv, [Next]_vars
    PROVE  CInv'
<1>1. Base'
  BY BaseStep DEF CInv
<1>2. CASE Next
  <2>1. Fate \/ Outside
    BY <1>2, Forms DEF CInv, Base
  <2>2. Realised'
    BY <2>1, RealisedStep DEF CInv
  <2>3. CASE Fate
    <3>1. kind' = kind
      BY <2>3 DEF Fate, Loses, GoesOn, Misses, Realises, Deletes, Ends, Stores, Advances,
                  Same
    <3>2. ClaimedOnce'
      BY <2>3, <3>1, ClaimedOnceFate DEF CInv, ClaimedOnce
    <3>3. Kept'
      BY <2>3, KeptFate DEF CInv
    <3> QED BY <1>1, <2>2, <3>2, <3>3 DEF CInv
  <2>4. CASE Outside
    BY <1>1, <2>2, <2>4, ClaimedOnceOutside, KeptOutside DEF CInv
  <2> QED BY <2>1, <2>3, <2>4
<1>3. CASE UNCHANGED vars
  <2>1. UNCHANGED <<kind, obj, wk, made, lost, twice, robbed>>
    BY <1>3 DEF vars, kube, apiObject, history
  <2>2. Deletion' = Deletion
    BY <2>1, SameKind
  <2>3. Realised' /\ ClaimedOnce'
    BY <2>1 DEF CInv, Realised, ClaimedOnce, Claims, Exists
  <2>4. Kept'
    BY <2>1, <2>2 DEF CInv, Kept, KeptByLabel, KeptByStatus, Keeps, Knows, Exists,
                      Claimed
  <2> QED BY <1>1, <2>3, <2>4 DEF CInv
<1> QED BY <1>2, <1>3

\* The inductive invariant holds in every reachable state.
THEOREM ClaimInvariant == Spec => []CInv
<1>1. Init => CInv
  <2> SUFFICES ASSUME Init PROVE CInv
    OBVIOUS
  <2>1. wk = Idle /\ wk.pc = "idle" /\ made = FALSE /\ robbed = FALSE
        /\ \A c \in Res : ~obj[c].claimed
    BY DEF Init, Idle
  <2>2. ~(\A c \in Res : Claims(c))
    BY <2>1 DEF Claims, Res
  <2> QED BY <2>1, <2>2, BaseInit DEF CInv, Realised, ClaimedOnce, Kept
<1>2. CInv /\ [Next]_vars => CInv'
  BY CInvStep
<1> QED BY <1>1, <1>2, PTL DEF Spec

\* The deletion of a software channel or a system group never takes the
\* object of another live resource that has claimed it, unless both came to
\* claim it on a stale copy or by creating it anew (handleDeletion deletes
\* what the status has, fetchExisting looks for another claim).
THEOREM ClaimOthersKeepTheirs == Spec => []OthersKeepTheirs
<1>1. CInv => OthersKeepTheirs
  BY DEF CInv, ClaimedOnce, OthersKeepTheirs, EarlyKinds
<1> QED BY <1>1, ClaimInvariant, PTL

\* When the last resource of a label is gone, without force-delete, nothing
\* that the operator created is left, unless a pass that created or adopted it
\* lost its status and the kind deletes by the status.
THEOREM ClaimNothingLeftBehind == Spec => []NothingLeftBehind
<1>1. CInv => NothingLeftBehind
  <2> SUFFICES ASSUME CInv, made,
                      \A c \in Res : ~Exists(obj[c]) /\ ~obj[c].force
               PROVE  lost /\ Deletion.deletes = "own"
    BY DEF NothingLeftBehind
  <2>1. kind \in Kinds /\ Kept
    BY DEF CInv, Base, Typed
  <2>2. Deletion.deletes \in {"own", "labelled"}
    BY <2>1, KindFacts DEF Kept
  <2>3. Deletion.deletes # "labelled"
    BY <2>1 DEF Kept, KeptByLabel, Keeps
  <2>4. Deletion.deletes = "own" => lost
    BY <2>1 DEF Kept, KeptByStatus, Knows
  <2> QED BY <2>2, <2>3, <2>4
<1> QED BY <1>1, ClaimInvariant, PTL

----------------------------------------------------------------------------
(* The rest of the types: what is missing or used, what Uyuni has that no   *)
(* status tells, and how far a pass is in its script.                       *)

Aside ==
    /\ missing \subseteq References
    /\ used \in [Res -> BOOLEAN] /\ usedSeen \in [Res -> BOOLEAN]
    /\ untold \subseteq Parts /\ owed \subseteq Res

Reach == wk # Idle => wk.n \in 1..(Len(Script) + 1)

LEMMA ScriptDomain == \A k \in Kinds : DOMAIN Scripts[k] = 1..Len(Scripts[k])
<1>1. /\ DOMAIN SoftwareChannel = 1..Len(SoftwareChannel)
      /\ DOMAIN Repository = 1..Len(Repository)
      /\ DOMAIN ActivationKey = 1..Len(ActivationKey)
      /\ DOMAIN SystemGroup = 1..Len(SystemGroup)
      /\ DOMAIN ConfigurationChannel = 1..Len(ConfigurationChannel)
      /\ DOMAIN CustomInfoKey = 1..Len(CustomInfoKey)
  BY DEF SoftwareChannel, Repository, ActivationKey, SystemGroup,
         ConfigurationChannel, CustomInfoKey
<1>2. /\ DOMAIN MaintenanceCalendar = 1..Len(MaintenanceCalendar)
      /\ DOMAIN MaintenanceSchedule = 1..Len(MaintenanceSchedule)
      /\ DOMAIN AutoinstallDistribution = 1..Len(AutoinstallDistribution)
      /\ DOMAIN ManagedProfile = 1..Len(ManagedProfile)
      /\ DOMAIN ImportedProfile = 1..Len(ImportedProfile)
      /\ DOMAIN ExternalProfile = 1..Len(ExternalProfile)
      /\ DOMAIN ImageStore = 1..Len(ImageStore)
  BY DEF MaintenanceCalendar, MaintenanceSchedule, AutoinstallDistribution,
         ManagedProfile, ImportedProfile, ExternalProfile, ImageStore
<1> QED BY <1>1, <1>2, ConstantsAssumption DEF Scripts

\* The parts a step is about are parts of the kind.
LEMMA NowParts ==
    ASSUME Base, At("put")
    PROVE  Now.what \cap Recorded \subseteq Parts
<1>1. kind \in Kinds /\ wk.n \in 1..Len(Scripts[kind])
  BY DEF Base, Typed, InScript, At, Script
<1>2. wk.n \in DOMAIN Scripts[kind]
  BY <1>1, ScriptDomain
<1>3. Now.what \subseteq UNION {Scripts[kind][n].what : n \in DOMAIN Scripts[kind]}
  BY <1>2 DEF Now, Script
<1> QED BY <1>1, <1>3 DEF Parts, PartsOf, Part

\* The changes of untold are all about recorded parts of the kind.
LEMMA ToldParts ==
    ASSUME NEW t \in Resource
    PROVE  DOMAIN t.told \subseteq Parts
  BY DEF Resource

LEMMA LostAside ==
    ASSUME Base, wk # Idle, Lost
    PROVE  untold' \subseteq untold \cup Parts /\ owed' = owed
<1>1. wk.t \in Resource
  BY DEF Base, Typed, Worker
<1> QED BY <1>1, ToldParts DEF Lost

LEMMA SaveAside ==
    ASSUME Base, wk # Idle, NEW t, SaveAndEnd(t)
    PROVE  untold' \subseteq untold \cup Parts /\ owed' = owed
  BY LostAside DEF SaveAndEnd

LEMMA FailAside ==
    ASSUME Base, wk # Idle, Fail
    PROVE  untold' \subseteq untold \cup Parts /\ owed' = owed
  BY LostAside, SaveAside DEF Fail

LEMMA PassAside ==
    ASSUME Base, PassStep
    PROVE  /\ UNCHANGED <<kind, missing, used, usedSeen>>
           /\ untold' \subseteq untold \cup Parts /\ owed' \subseteq owed
<1>1. /\ UNCHANGED <<kind, missing, used, usedSeen>>
      /\ wk # Idle
  BY DEF PassStep, Pass, EnsureFinalizer, AwaitReference, LookUp, CreateObject,
         SaveKey, PutParts, SyncChannelNow, SyncOnCreate, RefreshCalendar,
         RecordServed, StripTrigger, ObserveProfile, SaveReconciled, DeleteObject, ReleaseFinalizer,
         CallFails, DeleteFails, Crash, Quiet, In, At, Idle
<1>2. wk.t \in Resource
  BY <1>1 DEF Base, Typed, Worker
<1>3. CASE EnsureFinalizer \/ SaveKey \/ ReleaseFinalizer
  BY <1>1, <1>3, SaveAside DEF EnsureFinalizer, SaveKey, ReleaseFinalizer
<1>4. CASE AwaitReference \/ ObserveProfile
  BY <1>1, <1>4, SaveAside DEF AwaitReference, ObserveProfile, history
<1>5. CASE LookUp \/ CreateObject
  <2>1. Orphaned(wk.t) \subseteq Parts
    BY <1>2, ToldParts DEF Orphaned
  <2>2. CASE SaveAndEnd(Refused(wk.t)) \/ SaveAndEnd(wk.t)
    BY <1>1, <2>2, SaveAside
  <2> QED BY <1>5, <2>1, <2>2 DEF LookUp, CreateObject, history
<1>6. CASE PutParts
  <2>1. Now.what \cap Recorded \subseteq Parts
    BY <1>6, NowParts DEF PutParts
  <2>2. CASE Fail
    BY <1>1, <2>2, FailAside
  <2> QED BY <1>6, <2>1, <2>2 DEF PutParts, history
<1>7. CASE SyncChannelNow \/ SyncOnCreate
  <2>1. CASE Fail
    BY <1>1, <2>1, FailAside
  <2> QED BY <1>7, <2>1 DEF SyncChannelNow, SyncOnCreate, history
<1>8. CASE RefreshCalendar
  <2>1. CASE Fail
    BY <1>1, <2>1, FailAside
  <2> QED BY <1>1, <1>8, <2>1 DEF RefreshCalendar, RefreshFails, history
<1>9. CASE RecordServed \/ StripTrigger \/ SaveReconciled
  <2>1. CASE Lost
    BY <1>1, <2>1, LostAside
  <2> QED BY <1>1, <1>9, <2>1 DEF RecordServed, StripTrigger, SaveReconciled, history
<1>10. CASE DeleteObject
  <2>1. CASE SaveAndEnd(wk.t)
    BY <1>1, <2>1, SaveAside
  <2> QED BY <1>10, <2>1 DEF DeleteObject
<1>11. CASE CallFails \/ DeleteFails \/ Crash
  BY <1>1, <1>11, LostAside, FailAside DEF CallFails, DeleteFails, Crash
<1> QED BY <1>1, <1>3, <1>4, <1>5, <1>6, <1>7, <1>8, <1>9, <1>10, <1>11
        DEF PassStep, Pass

LEMMA AsideStep ==
    ASSUME Base, Aside, [Next]_vars
    PROVE  Aside'
<1>0. kind' = kind => Parts' = Parts /\ References' = References
  BY DEF Parts, References
<1>1. CASE PassStep
  BY <1>0, <1>1, PassAside DEF Aside
<1>2. CASE User
  <2> PICK c \in Res : \/ Edit(c) \/ Ask(c) \/ Use(c) \/ Unuse(c)
                       \/ (\E f \in BOOLEAN : Delete(c, f))
    BY <1>2 DEF User
  <2>1. UNCHANGED <<kind, missing, usedSeen, untold>>
        /\ owed' \subseteq owed \cup {c}
    BY DEF Edit, Ask, Use, Unuse, Delete, UserWrites, history
  <2>2. used' = used \/ \E b \in BOOLEAN : used' = [used EXCEPT ![c] = b]
    BY DEF Edit, Ask, Use, Unuse, Delete, UserWrites
  <2> QED BY <1>0, <2>1, <2>2 DEF Aside
<1>3. CASE Vanish \/ Reappear
  BY <1>0, <1>3 DEF Vanish, Reappear, Aside, kube, history
<1>4. CASE AdminDeletes \/ SyncEnds
  BY <1>0, <1>4 DEF AdminDeletes, SyncEnds, Aside, kube, history
<1>7. CASE AdminCreates
  <2>1. untold' \subseteq untold \cup Parts /\ kind' = kind
        /\ UNCHANGED <<missing, used, usedSeen, owed>>
    BY <1>7 DEF AdminCreates, kube
  <2> QED BY <1>0, <2>1 DEF Aside
<1>5. ASSUME NEW c \in Res, CacheSync(c) \/ Begin(c)
      PROVE  Aside'
  BY <1>0, <1>5 DEF CacheSync, Begin, Aside, history
<1>6. CASE UNCHANGED vars
  BY <1>0, <1>6 DEF vars, kube, history, Aside
<1> QED BY <1>1, <1>2, <1>3, <1>4, <1>5, <1>6, <1>7 DEF Next, PassStep

LEMMA ReachStep ==
    ASSUME Base, Reach, [Next]_vars
    PROVE  Reach'
<1>0. Len(Script) \in Nat \ {0}
  BY ScriptShape DEF Base, Typed, Script, Shaped
<1>1. CASE Advances
  <2>1. Script' = Script /\ wk'.n = wk.n + 1 /\ wk.n \in 1..Len(Script)
    BY <1>1, StaysInScript, SameKind DEF Advances, Same
  <2> QED BY <1>0, <2>1 DEF Reach
<1>2. CASE Fate
  <2>1. CASE Deletes \/ Misses
    <3>1. wk'.n = wk.n /\ wk # Idle /\ Script' = Script
      BY <2>1, SameKind DEF Deletes, Misses, Same, Worker, Idle
    <3> QED BY <3>1 DEF Reach
  <2>2. CASE Loses \/ \E t \in Resource : Ends(t)
    <3>1. wk' = Idle
      BY <2>2 DEF Loses, Lost, Ends
    <3>2. Idle' = Idle
      BY DEF Idle
    <3> QED BY <3>1, <3>2 DEF Reach
  <2> QED BY <1>1, <1>2, <2>1, <2>2 DEF Fate, GoesOn, Realises, Stores
<1>3. CASE Outside
  <2>1. Script' = Script
    BY <1>3, SameKind DEF Outside, Elsewhere, Syncs, Starts, Writes, Rest
  <2>2. wk' = wk \/ wk'.n = 1
    BY <1>3 DEF Outside, Elsewhere, Syncs, Starts, Writes
  <2>3. 1 \in 1..(Len(Script) + 1)
    BY <1>0
  <2> QED BY <2>1, <2>2, <2>3 DEF Reach, Idle
<1>4. CASE UNCHANGED vars
  <2>1. Script' = Script /\ wk' = wk
    BY <1>4, SameKind DEF vars, kube
  <2> QED BY <2>1 DEF Reach, Idle
<1> QED BY <1>2, <1>3, <1>4, Forms DEF Base

\* Every variable has its type, whatever the script of the kind: a pass never
\* runs over the end of its Reconcile, and what is recorded as untold or
\* missing is a part or a reference of the kind.
THEOREM ClaimTypeOK == Spec => []TypeOK
<1>1. Init => Base /\ Aside /\ Reach
  <2> SUFFICES ASSUME Init PROVE Aside /\ Reach
    BY BaseInit
  <2>1. used \in [Res -> BOOLEAN] /\ usedSeen = used
    BY DEF Init
  <2>2. missing = {} /\ untold = {} /\ owed = {} /\ wk = Idle
    BY DEF Init
  <2> QED BY <2>1, <2>2 DEF Aside, Reach
<1>2. Base /\ Aside /\ Reach /\ [Next]_vars => (Base /\ Aside /\ Reach)'
  BY BaseStep, AsideStep, ReachStep
<1>3. Base /\ Aside /\ Reach => TypeOK
  BY DEF Base, Typed, Aside, Reach, TypeOK, Worker, Object
<1> QED BY <1>1, <1>2, <1>3, PTL DEF Spec

=============================================================================
