---------------------------- MODULE ImagesProofs ----------------------------
(***************************************************************************)
(* Images, for every set of policies and every bound: an ImageBuild is     *)
(* scheduled once, and retention keeps a build to roll back to.            *)
(*                                                                         *)
(* A pass works on a copy of an ImageBuild that may be old.  What makes    *)
(* both properties true is what the stored ImageBuild keeps of its copies  *)
(* (Keeps): only a pass removes one that has the finalizer, only a pass    *)
(* writes its status, and there is one pass at a time.                     *)
(***************************************************************************)
EXTENDS Images, FunctionTheorems, FiniteSetTheorems, WellFoundedInduction, TLAPS

----------------------------------------------------------------------------
(* Largest and smallest numbers.                                           *)

\* Every set of natural numbers has a smallest element.
LEMMA SmallestExists ==
    ASSUME NEW S \in SUBSET Nat, S # {}
    PROVE  \E i \in S : \A j \in S : i <= j
<1>1. \E i \in S : \A j \in S : <<j, i>> \notin OpToRel(<, Nat)
  BY WFMin, NatLessThanWellFounded
<1>2. \A i, j \in Nat : <<j, i>> \notin OpToRel(<, Nat) => i <= j
  BY DEF OpToRel
<1> QED BY <1>1, <1>2

Bounded(S) == \E k \in Nat : \A i \in S : i <= k

\* A finite set of numbers has a bound: a smallest set without one would have
\* one after all, that of the set without one of its elements.
LEMMA FiniteIsBounded ==
    ASSUME NEW S \in SUBSET Nat, IsFiniteSet(S)
    PROVE  Bounded(S)
<1> DEFINE Without == {T \in SUBSET Nat : IsFiniteSet(T) /\ ~Bounded(T)}
           Sizes == {c \in Nat : \E T \in Without : Cardinality(T) = c}
<1>1. SUFFICES ASSUME S \in Without PROVE FALSE
  OBVIOUS
<1>2. Cardinality(S) \in Sizes
  BY <1>1, FS_CardinalityType
<1>3. PICK c \in Sizes : \A d \in Sizes : c <= d
  BY <1>2, SmallestExists
<1>4. PICK T \in Without : Cardinality(T) = c
  BY <1>3
<1>5. PICK x \in T : TRUE
  <2>1. CASE T = {}
    BY <1>4, <2>1 DEF Bounded
  <2> QED BY <2>1
<1>6. T \in SUBSET Nat /\ IsFiniteSet(T) /\ ~Bounded(T) /\ x \in Nat
  BY <1>4, <1>5
<1> DEFINE R == T \ {x}
<1>7. IsFiniteSet(R) /\ Cardinality(R) = Cardinality(T) - 1 /\ Cardinality(R) \in Nat
  BY <1>5, <1>6, FS_RemoveElement, FS_CardinalityType
<1>8. Bounded(R)
  <2>1. SUFFICES ASSUME ~Bounded(R) PROVE FALSE
    OBVIOUS
  <2>2. R \in Without
    BY <1>6, <1>7, <2>1
  <2>3. Cardinality(R) \in Sizes
    BY <1>7, <2>2
  <2> HIDE DEF R
  <2> QED BY <1>3, <1>4, <1>7, <2>3
<1>9. PICK k \in Nat : \A i \in R : i <= k
  BY <1>8 DEF Bounded
<1>10. \E m \in Nat : k <= m /\ x <= m
  <2>1. CASE k <= x
    BY <1>6, <2>1
  <2>2. CASE ~(k <= x)
    BY <1>6, <2>2
  <2> QED BY <2>1, <2>2
<1>11. PICK m \in Nat : k <= m /\ x <= m
  BY <1>10
<1>12. \A i \in T : i <= m
  BY <1>6, <1>9, <1>11
<1> QED BY <1>6, <1>12 DEF Bounded

\* A finite set of numbers has a largest one, and Max is it.
LEMMA MaxIsLargest ==
    ASSUME NEW S \in SUBSET Nat, IsFiniteSet(S), S # {}
    PROVE  Max(S) \in S /\ \A i \in S : i <= Max(S)
<1> DEFINE B == {k \in Nat : \A i \in S : i <= k}
<1>1. B # {}
  BY FiniteIsBounded DEF Bounded
<1>2. PICK k \in B : \A j \in B : k <= j
  BY <1>1, SmallestExists
<1>3. k \in S
  <2>1. SUFFICES ASSUME k \notin S PROVE FALSE
    OBVIOUS
  <2>2. PICK i \in S : TRUE
    OBVIOUS
  <2>3. k # 0 /\ k - 1 \in Nat
    BY <1>2, <2>1, <2>2
  <2>4. k - 1 \in B
    BY <1>2, <2>1, <2>3
  <2> QED BY <1>2, <2>4
<1>4. \E x \in S : \A y \in S : x >= y
  BY <1>2, <1>3
<1> QED BY <1>4 DEF Max

\* Min is the smallest.
LEMMA MinIsSmallest ==
    ASSUME NEW S \in SUBSET Nat, S # {}
    PROVE  Min(S) \in S
BY SmallestExists DEF Min

----------------------------------------------------------------------------
(* Types: first what the profile's side has, then what the builds have.    *)

ProfileTypes ==
    /\ cfg \in Profiles /\ missing \subseteq {"store", "buildHost"}
    /\ prof \in ImageProfile /\ profSeen \in ImageProfile
    /\ wp \in ProfileWorker \cup {Idle}
    /\ held \in [there : BOOLEAN, kiwi : Kiwi \cup {0}, path : 0..MaxGen]
    /\ dropped \subseteq {"build-now", "generation"}
    /\ made \in 0..MaxGen /\ events \in 0..MaxEvents

BuildTypes ==
    /\ build \in [Name -> ImageBuild] /\ buildSeen \in [Name -> ImageBuild]
    /\ wb \in BuildWorker \cup {Idle}
    /\ acts \in Seq(BuildAction) /\ images \subseteq Nat /\ IsFiniteSet(images)
    /\ old \subseteq Name /\ cut \subseteq Nat
    /\ mixed \in BOOLEAN /\ undone \in BOOLEAN /\ revived \in BOOLEAN
    /\ built \in BOOLEAN

LEMMA TypeSplit == TypeOK <=> ProfileTypes /\ BuildTypes
BY DEF TypeOK, ProfileTypes, BuildTypes

LEMMA TypeSplitNext == TypeOK' <=> ProfileTypes' /\ BuildTypes'
BY DEF TypeOK, ProfileTypes, BuildTypes

\* A worker at a step is in a pass.
LEMMA InPass ==
    ASSUME TypeOK
    PROVE  /\ wp.pc # "idle" => /\ wp \in ProfileWorker /\ wp # Idle
                                /\ wp.t \in ImageProfile /\ wp.base \in ImageProfile
           /\ wb.pc # "idle" => /\ wb \in BuildWorker /\ wb # Idle /\ wb.n \in Name
                                /\ wb.t \in ImageBuild /\ wb.base \in ImageBuild
           /\ wb # Idle => wb.pc # "idle"
           /\ wp # Idle => wp.pc # "idle"
BY DEF TypeOK, Idle, ProfileWorker, BuildWorker

LEMMA EventType ==
    ASSUME TypeOK, Event \/ UNCHANGED events
    PROVE  events' \in 0..MaxEvents
<1>1. cfg.events \in 0..MaxEvents /\ events \in 0..MaxEvents /\ MaxEvents \in Nat
  BY ConstantsAssumption DEF TypeOK
<1> QED BY <1>1 DEF Event

LEMMA SaveType ==
    ASSUME TypeOK, NEW t \in ImageProfile, PSave(t)
    PROVE  prof' \in ImageProfile /\ wp' \in ProfileWorker \cup {Idle}
BY DEF TypeOK, PSave

LEMMA GoType ==
    ASSUME TypeOK, wp \in ProfileWorker, NEW t \in ImageProfile,
           NEW pc \in {"created", "update", "recreate", "trigger", "strip", "mirror",
                       "list", "release"},
           PGo(pc, t)
    PROVE  prof' \in ImageProfile /\ wp' \in ProfileWorker \cup {Idle}
BY DEF TypeOK, PGo, ProfileWorker

LEMMA FailType ==
    ASSUME TypeOK, wp \in ProfileWorker, PFail
    PROVE  prof' \in ImageProfile /\ wp' \in ProfileWorker \cup {Idle}
<1>1. wp.t \in ImageProfile
  BY DEF ProfileWorker
<1>2. [wp.t EXCEPT !.ready = FALSE] \in ImageProfile
  BY <1>1 DEF ImageProfile
<1> QED BY <1>2, SaveType DEF PFail

\* A pass over the profile keeps its side's types.
LEMMA ProfilePassTypes ==
    ASSUME TypeOK, ProfilePass
    PROVE  ProfileTypes'
<1>g. prof.gen \in 1..MaxGen /\ MaxGen \in Nat \ {0} /\ 0 \in 0..MaxGen
  BY ConstantsAssumption DEF TypeOK, ImageProfile
<1>q. ASSUME PQuiet
      PROVE  /\ cfg' \in Profiles /\ missing' \subseteq {"store", "buildHost"}
             /\ profSeen' \in ImageProfile
  BY <1>q DEF TypeOK, PQuiet, seen
<1>n. NoProfile \in [there : BOOLEAN, kiwi : Kiwi \cup {0}, path : 0..MaxGen]
  BY <1>g DEF NoProfile
<1>1. CASE PEnsureFinalizer
  <2>1. [wp.t EXCEPT !.fin = TRUE] \in ImageProfile
    BY <1>1, InPass DEF PEnsureFinalizer, PIn, ImageProfile
  <2>2. prof' \in ImageProfile /\ wp' \in ProfileWorker \cup {Idle}
    BY <1>1, <2>1, SaveType DEF PEnsureFinalizer
  <2> QED BY <1>1, <1>q, <2>2 DEF PEnsureFinalizer, PLocal, uyuni, ProfileTypes, TypeOK
<1>2. CASE resolveStoreLabel
  <2>1. prof' \in ImageProfile /\ wp' \in ProfileWorker \cup {Idle}
    BY <1>2, InPass, FailType DEF resolveStoreLabel, PIn
  <2> QED BY <1>2, <1>q, <2>1 DEF resolveStoreLabel, PLocal, uyuni, ProfileTypes, TypeOK
<1>3. CASE EnsureProfile
  <2>1. wp \in ProfileWorker /\ wp.t \in ImageProfile
    BY <1>3, InPass DEF EnsureProfile, PIn
  <2>2. [wp.t EXCEPT !.applied = wp.t.kiwi] \in ImageProfile
    BY <2>1 DEF ImageProfile
  <2>3. [there |-> TRUE, kiwi |-> wp.t.kiwi, path |-> wp.t.gen]
            \in [there : BOOLEAN, kiwi : Kiwi \cup {0}, path : 0..MaxGen]
    BY <1>g, <2>1 DEF ImageProfile
  <2>4. /\ prof' \in ImageProfile /\ wp' \in ProfileWorker \cup {Idle}
        /\ held' \in [there : BOOLEAN, kiwi : Kiwi \cup {0}, path : 0..MaxGen]
    BY <1>3, <1>n, <2>1, <2>2, <2>3, GoType DEF EnsureProfile, CreateImageProfile, TypeOK
  <2> QED BY <1>3, <1>q, <2>4 DEF EnsureProfile, ProfileTypes, TypeOK
<1>4. CASE UpdateImageProfile
  <2>1. wp \in ProfileWorker /\ wp.t \in ImageProfile
    BY <1>4, InPass DEF UpdateImageProfile, PIn
  <2>g. wp.t.gen \in 0..MaxGen
    BY <1>g, <2>1 DEF ImageProfile
  <2>2. [held EXCEPT !.path = wp.t.gen]
            \in [there : BOOLEAN, kiwi : Kiwi \cup {0}, path : 0..MaxGen]
    BY <2>g DEF TypeOK
  <2>3. held' \in [there : BOOLEAN, kiwi : Kiwi \cup {0}, path : 0..MaxGen]
    BY <1>4, <2>2 DEF UpdateImageProfile, TypeOK
  <2>4. prof' \in ImageProfile /\ wp' \in ProfileWorker \cup {Idle}
    BY <1>4, <2>1, GoType, FailType DEF UpdateImageProfile
  <2> QED BY <1>4, <1>q, <2>3, <2>4 DEF UpdateImageProfile, ProfileTypes, TypeOK
<1>5. CASE handleBuildTriggers
  <2>1. wp \in ProfileWorker /\ wp.t \in ImageProfile
    BY <1>5, InPass DEF handleBuildTriggers, PIn
  <2>2. prof' \in ImageProfile /\ wp' \in ProfileWorker \cup {Idle}
    BY <1>5, <2>1, GoType, FailType DEF handleBuildTriggers
  <2>3. made' \in 0..MaxGen
    BY <1>5, <1>g, <2>1 DEF handleBuildTriggers, TypeOK, ImageProfile
  <2>4. dropped' \subseteq {"build-now", "generation"}
    BY <1>5 DEF handleBuildTriggers, TypeOK
  <2> QED BY <1>5, <1>q, <2>2, <2>3, <2>4 DEF handleBuildTriggers, uyuni, ProfileTypes, TypeOK
<1>6. CASE StripProfile
  <2>1. wp \in ProfileWorker /\ wp.t \in ImageProfile /\ prof \in ImageProfile
    BY <1>6, InPass DEF StripProfile, PIn, TypeOK
  <2>2. CASE prof.life = "gone"
    BY <1>6, <1>q, <2>2 DEF StripProfile, uyuni, ProfileTypes, TypeOK
  <2>3. CASE prof.life # "gone"
    <3> DEFINE stored == [prof EXCEPT !.now = FALSE]
    <3>1. stored \in ImageProfile
      BY <2>1 DEF ImageProfile
    <3>2. PatchedProfile(wp.t, stored) \in ImageProfile
      <4> HIDE DEF stored
      <4>1. \A a \in Kiwi \cup {0}, o \in 0..MaxGen, l \in BOOLEAN :
               [stored EXCEPT !.applied = a, !.observed = o, !.last = l] \in ImageProfile
        BY <3>1 DEF ImageProfile
      <4>2. /\ (IF stored.applied = 0 THEN wp.t.applied ELSE stored.applied) \in Kiwi \cup {0}
            /\ (IF stored.observed = 0 THEN wp.t.observed ELSE stored.observed) \in 0..MaxGen
        BY <2>1, <3>1 DEF ImageProfile
      <4>3. (stored.last \/ wp.t.last) \in BOOLEAN
        OBVIOUS
      <4> QED BY <4>1, <4>2, <4>3 DEF PatchedProfile
    <3>3. /\ prof' = stored
          /\ wp' = [wp EXCEPT !.pc = "mirror", !.base = stored,
                              !.t = PatchedProfile(wp.t, stored)]
          /\ dropped' \subseteq {"build-now", "generation"}
      BY <1>6, <2>3 DEF StripProfile, TypeOK
    <3> HIDE DEF stored
    <3>4. wp' \in ProfileWorker
      BY <2>1, <3>1, <3>2, <3>3 DEF ProfileWorker
    <3> QED BY <1>6, <1>q, <3>1, <3>3, <3>4 DEF StripProfile, uyuni, ProfileTypes, TypeOK
  <2> QED BY <2>2, <2>3
<1>7. CASE ReadCreated
  <2>1. prof' \in ImageProfile /\ wp' \in ProfileWorker \cup {Idle}
    BY <1>7, InPass, GoType DEF ReadCreated, PIn
  <2> QED BY <1>7, <1>q, <2>1 DEF ReadCreated, PLocal, uyuni, ProfileTypes, TypeOK
<1>11. CASE MirrorLatestBuild
  <2>1. wp \in ProfileWorker /\ wp.t \in ImageProfile
    BY <1>11, InPass DEF MirrorLatestBuild, PIn
  <2>2. mirrorLatestBuild(wp.t) \in ImageProfile
    BY <2>1 DEF mirrorLatestBuild, ImageProfile
  <2>3. prof' \in ImageProfile /\ wp' \in ProfileWorker \cup {Idle}
    BY <1>11, <2>1, <2>2, GoType DEF MirrorLatestBuild
  <2> QED BY <1>11, <1>q, <2>3 DEF MirrorLatestBuild, PLocal, uyuni, ProfileTypes, TypeOK
<1>12. CASE ListForRetention
  <2>1. wp \in ProfileWorker
    BY <1>12, InPass DEF ListForRetention, PIn
  <2>2. enforceRetention \in SUBSET Name
    BY DEF enforceRetention, BeyondNewest, Finished
  <2>3. wp' \in ProfileWorker /\ prof' = prof
    BY <1>12, <2>1, <2>2 DEF ListForRetention, ProfileWorker
  <2> QED BY <1>12, <1>q, <2>3 DEF ListForRetention, PLocal, uyuni, ProfileTypes, TypeOK
<1>13. CASE PruneBuild
  <2>1. wp \in ProfileWorker
    BY <1>13, InPass DEF PruneBuild, PIn
  <2>2. PICK n \in wp.doomed :
           wp' = [wp EXCEPT !.pc = IF wp.doomed = {n} THEN "save" ELSE "prune",
                            !.doomed = @ \ {n}]
    BY <1>13 DEF PruneBuild
  <2>3. wp' \in ProfileWorker /\ prof' = prof
    BY <1>13, <2>1, <2>2 DEF PruneBuild, ProfileWorker
  <2> QED BY <1>13, <1>q, <2>3 DEF PruneBuild, uyuni, ProfileTypes, TypeOK
<1>8. CASE SaveReconciled
  <2>1. wp \in ProfileWorker /\ wp.t \in ImageProfile
    BY <1>8, InPass DEF SaveReconciled, PIn
  <2>g. wp.t.gen \in 0..MaxGen
    BY <1>g, <2>1 DEF ImageProfile
  <2>2. [wp.t EXCEPT !.observed = wp.t.gen, !.ready = TRUE] \in ImageProfile
    BY <2>1, <2>g DEF ImageProfile
  <2>3. prof' \in ImageProfile /\ wp' \in ProfileWorker \cup {Idle}
    BY <1>8, <2>2, SaveType DEF SaveReconciled
  <2> QED BY <1>8, <1>q, <2>3 DEF SaveReconciled, PLocal, uyuni, ProfileTypes, TypeOK
<1>9. CASE DeleteImageProfile
  <2>1. wp \in ProfileWorker /\ wp.t \in ImageProfile
    BY <1>9, InPass DEF DeleteImageProfile, PIn
  <2>2. prof' \in ImageProfile /\ wp' \in ProfileWorker \cup {Idle}
    BY <1>9, <2>1, GoType DEF DeleteImageProfile
  <2> QED BY <1>9, <1>n, <1>q, <2>2 DEF DeleteImageProfile, ProfileTypes, TypeOK
<1>10. CASE ReleaseProfile
  <2>1. [wp.t EXCEPT !.life = "gone"] \in ImageProfile
    BY <1>10, InPass DEF ReleaseProfile, PIn, ImageProfile
  <2>2. prof' \in ImageProfile /\ wp' \in ProfileWorker \cup {Idle}
    BY <1>10, <2>1, SaveType DEF ReleaseProfile
  <2> QED BY <1>10, <1>q, <2>2 DEF ReleaseProfile, PLocal, uyuni, ProfileTypes, TypeOK
<1> QED BY <1>1, <1>2, <1>3, <1>4, <1>5, <1>6, <1>7, <1>8, <1>9, <1>10, <1>11, <1>12,
           <1>13 DEF ProfilePass

\* Uyuni's actions: a sequence of records.
LEMMA ActionTypes ==
    ASSUME TypeOK
    PROVE  /\ Len(acts) \in Nat /\ DOMAIN acts = 1..Len(acts)
           /\ IsFiniteSet(DOMAIN acts)
           /\ \A a \in DOMAIN acts : acts[a] \in BuildAction /\ a \in Nat /\ a # 0
<1>1. acts \in Seq(BuildAction)
  BY DEF TypeOK
<1>2. Len(acts) \in Nat /\ DOMAIN acts = 1..Len(acts)
  BY <1>1
<1>3. IsFiniteSet(1..Len(acts))
  BY <1>2, FS_Interval
<1> QED BY <1>1, <1>2, <1>3

\* What a step does to the actions: it changes one, or adds one at the end.
LEMMA ActionChange ==
    ASSUME TypeOK, NEW a \in DOMAIN acts, NEW x \in BuildAction,
           acts' = [acts EXCEPT ![a] = x]
    PROVE  /\ acts' \in Seq(BuildAction) /\ DOMAIN acts' = DOMAIN acts
           /\ acts'[a] = x
           /\ \A b \in DOMAIN acts \ {a} : acts'[b] = acts[b]
BY ActionTypes DEF TypeOK

LEMMA ActionAdded ==
    ASSUME TypeOK, NEW x \in BuildAction, acts' = Append(acts, x)
    PROVE  /\ acts' \in Seq(BuildAction)
           /\ DOMAIN acts' = DOMAIN acts \cup {Len(acts) + 1}
           /\ Len(acts) + 1 \notin DOMAIN acts
           /\ Len(acts') = Len(acts) + 1
           /\ acts'[Len(acts) + 1] = x
           /\ \A b \in DOMAIN acts : acts'[b] = acts[b]
BY ActionTypes DEF TypeOK

\* The values of a function on a finite set are finitely many.
LEMMA FinitelyMany ==
    ASSUME NEW S, IsFiniteSet(S), NEW f, DOMAIN f = S, f = [x \in S |-> f[x]]
    PROVE  IsFiniteSet({f[x] : x \in S})
<1> DEFINE T == {f[x] : x \in S}
<1>1. f \in Surjection(S, T)
  BY DEF Surjection
<1> QED BY <1>1, FS_Surjection

LEMMA NamesFinite == IsFiniteSet(Name) /\ 1 \in Name
<1>1. MaxGen \in Nat \ {0}
  BY ConstantsAssumption
<1>2. 1 \in Int /\ MaxGen + 1 \in Int /\ IsFiniteSet(1..(MaxGen + 1))
  BY <1>1, FS_Interval
<1> QED BY <1>1, <1>2 DEF Name

\* A new ImageBuild is younger than all others, and than all for which there
\* is an action.
LEMMA CreatedIsNew ==
    ASSUME TypeOK, NEW t
    PROVE  /\ Created(t) \in ImageBuild
           /\ Created(t) = [NoBuild EXCEPT !.life = "live", !.born = Created(t).born]
           /\ \A n \in Name : build[n].born < Created(t).born
           /\ \A a \in DOMAIN acts : acts[a].born < Created(t).born
<1>1. IsFiniteSet({build[n].born : n \in Name})
  <2> DEFINE f == [n \in Name |-> build[n].born]
  <2>1. IsFiniteSet({f[n] : n \in Name})
    BY NamesFinite, FinitelyMany
  <2> QED BY <2>1
<1>2. IsFiniteSet({acts[a].born : a \in DOMAIN acts})
  <2> DEFINE f == [a \in DOMAIN acts |-> acts[a].born]
  <2>1. IsFiniteSet({f[a] : a \in DOMAIN acts})
    BY ActionTypes, FinitelyMany
  <2> QED BY <2>1
<1>3. IsFiniteSet(Births)
  BY <1>1, <1>2, FS_Union DEF Births
<1>4. \A n \in Name : build[n].born \in Births /\ build[n].born \in Nat
  BY DEF Births, TypeOK, ImageBuild
<1>5. \A a \in DOMAIN acts : acts[a].born \in Births /\ acts[a].born \in Nat
  BY ActionTypes DEF Births, BuildAction
<1>6. Births \in SUBSET Nat
  BY <1>4, <1>5 DEF Births
<1>7. Births # {}
  BY <1>4, NamesFinite
<1>8. Max(Births) \in Nat /\ \A i \in Births : i <= Max(Births)
  BY <1>3, <1>6, <1>7, MaxIsLargest
<1>9. Created(t) = [NoBuild EXCEPT !.life = "live", !.born = 1 + Max(Births)]
  BY DEF Created
<1>10. Created(t).born = 1 + Max(Births)
  BY <1>9 DEF NoBuild
<1>11. Created(t) \in ImageBuild
  <2>1. NoBuild \in ImageBuild
    BY DEF NoBuild, ImageBuild
  <2>2. \A k \in Nat : [NoBuild EXCEPT !.life = "live", !.born = k] \in ImageBuild
    BY <2>1 DEF ImageBuild
  <2>3. 1 + Max(Births) \in Nat
    BY <1>8
  <2> QED BY <1>9, <2>2, <2>3
<1> QED BY <1>4, <1>5, <1>8, <1>9, <1>10, <1>11

\* The numbers that the controller and Uyuni find.
LEMMA NumberTypes ==
    ASSUME TypeOK
    PROVE  /\ NextImage \in Nat \ {0} /\ maxImageID \in Nat
           /\ \A t \in ImageBuild : FindImage(t) \in Nat
<1>1. NextImage \in Nat \ {0}
  <2>1. IsFiniteSet({a \in DOMAIN acts : acts[a].image # 0})
    BY ActionTypes, FS_Subset
  <2>2. Cardinality({a \in DOMAIN acts : acts[a].image # 0}) \in Nat
    BY <2>1, FS_CardinalityType
  <2> QED BY <2>2 DEF NextImage
<1>2. maxImageID \in Nat
  <2>1. IsFiniteSet(images \cup {0}) /\ images \cup {0} \in SUBSET Nat
    BY FS_AddElement DEF TypeOK
  <2> QED BY <2>1, MaxIsLargest DEF maxImageID
<1>3. ASSUME NEW t \in ImageBuild PROVE FindImage(t) \in Nat
  <2> DEFINE above == {i \in images : i > t.base}
  <2>1. above \in SUBSET Nat /\ t.image \in Nat
    BY DEF TypeOK, ImageBuild
  <2>2. above # {} => Min(above) \in Nat
    BY <2>1, MinIsSmallest
  <2> QED BY <2>1, <2>2 DEF FindImage
<1> QED BY <1>1, <1>2, <1>3

LEMMA BuildRecords ==
    /\ NoBuild \in ImageBuild
    /\ \A b \in ImageBuild :
          /\ Deleted(b) \in ImageBuild
          /\ [b EXCEPT !.now = TRUE] \in ImageBuild
          /\ [b EXCEPT !.now = FALSE] \in ImageBuild
          /\ [b EXCEPT !.fin = TRUE] \in ImageBuild
          /\ \A i \in Nat : /\ [b EXCEPT !.base = i] \in ImageBuild
                            /\ [b EXCEPT !.action = i, !.bs = "Scheduled"] \in ImageBuild
                            /\ \A s \in {"Scheduled", "Running", "Succeeded", "Failed"} :
                                  [b EXCEPT !.image = i, !.bs = s] \in ImageBuild
<1>1. NoBuild \in ImageBuild
  BY DEF NoBuild, ImageBuild
<1>2. ASSUME NEW b \in ImageBuild
      PROVE  /\ [b EXCEPT !.life = "deleting"] \in ImageBuild
             /\ [b EXCEPT !.now = TRUE] \in ImageBuild
             /\ [b EXCEPT !.now = FALSE] \in ImageBuild
             /\ [b EXCEPT !.fin = TRUE] \in ImageBuild
  BY DEF ImageBuild
<1>3. ASSUME NEW b \in ImageBuild, NEW i \in Nat
      PROVE  /\ [b EXCEPT !.base = i] \in ImageBuild
             /\ [b EXCEPT !.action = i, !.bs = "Scheduled"] \in ImageBuild
             /\ \A s \in {"Scheduled", "Running", "Succeeded", "Failed"} :
                   [b EXCEPT !.image = i, !.bs = s] \in ImageBuild
  BY DEF ImageBuild
<1> QED BY <1>1, <1>2, <1>3 DEF Deleted

\* A step of the worker of builds, and the write it ends with.
LEMMA BuildWorkerTypes ==
    ASSUME TypeOK, wb \in BuildWorker, NEW t \in ImageBuild
    PROVE  /\ \A pc \in {"strip", "recheck", "baseline", "schedule", "recordNew", "poll",
                         "record", "unimage", "release"} :
                 [wb EXCEPT !.pc = pc, !.t = t] \in BuildWorker
           /\ \A pc \in {"recheck", "poll"} :
                 [wb EXCEPT !.pc = pc, !.t = t, !.base = t] \in BuildWorker
           /\ BWrite(t) => build' \in [Name -> ImageBuild]
           /\ [build EXCEPT ![wb.n] = t] \in [Name -> ImageBuild]
<1>1. /\ \A pc \in {"strip", "recheck", "baseline", "schedule", "recordNew", "poll",
                    "record", "unimage", "release"} :
            [wb EXCEPT !.pc = pc, !.t = t] \in BuildWorker
      /\ \A pc \in {"recheck", "poll"} :
            [wb EXCEPT !.pc = pc, !.t = t, !.base = t] \in BuildWorker
  BY DEF BuildWorker
<1>2. build \in [Name -> ImageBuild] /\ wb.n \in Name
  BY DEF TypeOK, BuildWorker
<1>3. [build EXCEPT ![wb.n] = t] \in [Name -> ImageBuild]
  BY <1>2
<1> QED BY <1>1, <1>2, <1>3 DEF BWrite

ScheduledActionType ==
    wb \in BuildWorker => ScheduledAction \in BuildAction /\ ScheduledAction.image = 0
                          /\ ScheduledAction.n = wb.n /\ ScheduledAction.born = wb.t.born

LEMMA ScheduledActionIs == ScheduledActionType
BY DEF ScheduledActionType, ScheduledAction, BuildAction, BuildWorker, ImageBuild

\* A pass over an ImageBuild keeps the types of its side.
LEMMA BuildPassTypes ==
    ASSUME TypeOK, BuildPass \/ BuildCallFails
    PROVE  BuildTypes'
<1>b. ASSUME wb.pc # "idle" PROVE wb \in BuildWorker /\ wb.n \in Name /\ wb.t \in ImageBuild
  BY <1>b, InPass
<1>q. ASSUME BQuiet
      PROVE  buildSeen' \in [Name -> ImageBuild] /\ undone' \in BOOLEAN
  BY <1>q DEF TypeOK, BQuiet, seen
<1>l. ASSUME BLocal, build' \in [Name -> ImageBuild], wb' \in BuildWorker \cup {Idle}
      PROVE  BuildTypes'
  BY <1>q, <1>l DEF BLocal, TypeOK, BuildTypes
<1>1. CASE AwaitProfile
  <2>1. wb \in BuildWorker /\ wb.n \in Name /\ wb.t \in ImageBuild
    BY <1>1, <1>b DEF AwaitProfile, BIn
  <2>2. [wb.t EXCEPT !.fin = TRUE] \in ImageBuild
    BY <2>1, BuildRecords
  <2>3. build' \in [Name -> ImageBuild] /\ wb' \in BuildWorker \cup {Idle}
    <3>1. CASE wb' = Idle
      BY <1>1, <2>1, <2>2, <3>1, BuildWorkerTypes DEF AwaitProfile, BEnd, BGo, TypeOK
    <3>2. CASE wb' # Idle
      <4>1. PICK pc \in {"strip", "recheck", "poll"} : BGo(pc, wb.t)
        BY <1>1, <3>2 DEF AwaitProfile, BEnd, ScheduleOrPoll
      <4>2. wb' = [wb EXCEPT !.pc = pc, !.t = wb.t] /\ build' = build
        BY <4>1 DEF BGo
      <4> QED BY <2>1, <4>2, BuildWorkerTypes DEF TypeOK
    <3> QED BY <3>1, <3>2
  <2> QED BY <1>1, <1>l, <2>3 DEF AwaitProfile
<1>2. CASE StripBuild
  <2>1. wb \in BuildWorker /\ wb.n \in Name /\ wb.t \in ImageBuild
    BY <1>2, <1>b DEF StripBuild, BIn
  <2>2. CASE build[wb.n].life = "none"
    BY <1>2, <1>l, <2>2 DEF StripBuild, BEnd, TypeOK
  <2>3. CASE build[wb.n].life # "none"
    <3> DEFINE stored == [build[wb.n] EXCEPT !.now = FALSE]
    <3>1. stored \in ImageBuild
      BY <2>1, BuildRecords DEF TypeOK
    <3>2. /\ build' = [build EXCEPT ![wb.n] = stored]
          /\ wb' = [wb EXCEPT !.pc = ScheduleOrPoll(stored), !.t = stored,
                              !.base = stored]
          /\ BLocal
      BY <1>2, <2>3 DEF StripBuild
    <3> HIDE DEF stored
    <3>3. build' \in [Name -> ImageBuild] /\ wb' \in BuildWorker
      BY <2>1, <3>1, <3>2, BuildWorkerTypes DEF ScheduleOrPoll
    <3> QED BY <1>l, <3>2, <3>3
  <2> QED BY <2>2, <2>3
<1>3. CASE Recheck
  <2>1. wb \in BuildWorker /\ wb.n \in Name /\ wb.t \in ImageBuild
    BY <1>3, <1>b DEF Recheck, BIn
  <2>2. build' \in [Name -> ImageBuild] /\ wb' \in BuildWorker \cup {Idle}
    <3>1. BEnd \/ BGo("baseline", wb.t)
      BY <1>3 DEF Recheck
    <3>2. [wb EXCEPT !.pc = "baseline", !.t = wb.t] \in BuildWorker
      BY <2>1, BuildWorkerTypes
    <3> QED BY <3>1, <3>2 DEF BEnd, BGo, TypeOK
  <2>3. build[wb.n].action \in Nat
    BY <2>1 DEF TypeOK, ImageBuild
  <2>4. cut' \subseteq Nat
    BY <1>3, <2>3 DEF Recheck, TypeOK
  <2> QED BY <1>3, <1>q, <2>2, <2>4 DEF Recheck, TypeOK, BuildTypes
<1>10. CASE ListImages
  <2>1. wb \in BuildWorker /\ wb.n \in Name /\ wb.t \in ImageBuild
    BY <1>10, <1>b DEF ListImages, BIn
  <2>2. \A i \in Nat : [wb.t EXCEPT !.base = i] \in ImageBuild
    BY <2>1, BuildRecords
  <2>3. [wb.t EXCEPT !.base = 0] \in ImageBuild /\ [wb.t EXCEPT !.base = maxImageID] \in ImageBuild
    BY <2>2, NumberTypes
  <2>4. build' \in [Name -> ImageBuild] /\ wb' \in BuildWorker \cup {Idle}
    <3>1. \A i \in {0, maxImageID} :
             [wb EXCEPT !.pc = "schedule", !.t = [wb.t EXCEPT !.base = i]] \in BuildWorker
      BY <2>1, <2>3, BuildWorkerTypes
    <3> QED BY <1>10, <3>1 DEF ListImages, BGo, TypeOK
  <2> QED BY <1>10, <1>q, <2>4 DEF ListImages, TypeOK, BuildTypes
<1>4. CASE ScheduleImageBuild
  <2>1. wb \in BuildWorker /\ wb.n \in Name /\ wb.t \in ImageBuild
    BY <1>4, <1>b DEF ScheduleImageBuild, BIn
  <2>2. acts' \in Seq(BuildAction) /\ cut' \subseteq Nat
    BY <1>4, <2>1, ScheduledActionIs, ActionAdded
       DEF ScheduleImageBuild, TypeOK, ScheduledActionType
  <2>3. [wb.t EXCEPT !.action = Len(acts) + 1, !.bs = "Scheduled"] \in ImageBuild
    <3>1. Len(acts) + 1 \in Nat
      BY ActionTypes
    <3> QED BY <2>1, <3>1, BuildRecords
  <2>4. build' \in [Name -> ImageBuild] /\ wb' \in BuildWorker \cup {Idle}
    BY <1>4, <2>1, <2>3, BuildWorkerTypes DEF ScheduleImageBuild, BGo, TypeOK
  <2> QED BY <1>4, <1>q, <2>2, <2>4 DEF ScheduleImageBuild, TypeOK, BuildTypes
<1>5. CASE pollAction
  <2>1. wb \in BuildWorker /\ wb.n \in Name /\ wb.t \in ImageBuild
    BY <1>5, <1>b DEF pollAction, BIn
  <2> DEFINE image == FindImage(wb.t)
             s == BuildStatus(wb.t, image)
  <2>2. image \in Nat
    BY <2>1, NumberTypes
  <2>3. s \in {"Scheduled", "Running", "Succeeded", "Failed"}
    BY DEF BuildStatus
  <2>4. [wb.t EXCEPT !.image = image, !.bs = s] \in ImageBuild
    BY <2>1, <2>2, <2>3, BuildRecords
  <2>5. /\ BGo("record", [wb.t EXCEPT !.image = image, !.bs = s])
        /\ mixed' \in BOOLEAN /\ BQuiet
        /\ UNCHANGED <<acts, images, old, cut, revived, built, events>>
    BY <1>5 DEF pollAction, TypeOK
  <2> HIDE DEF image, s
  <2>6. build' \in [Name -> ImageBuild] /\ wb' \in BuildWorker \cup {Idle}
    BY <2>1, <2>4, <2>5, BuildWorkerTypes DEF BGo, TypeOK
  <2> QED BY <1>q, <2>5, <2>6 DEF TypeOK, BuildTypes
<1>6. CASE RecordBuild
  <2>1. wb \in BuildWorker /\ wb.n \in Name /\ wb.t \in ImageBuild
    BY <1>6, <1>b DEF RecordBuild, BIn
  <2>2. build' \in [Name -> ImageBuild] /\ wb' = Idle
    BY <1>6, <2>1, BuildWorkerTypes DEF RecordBuild
  <2>3. built' \in BOOLEAN /\ revived' \in BOOLEAN
    BY <1>6 DEF RecordBuild, TypeOK
  <2>4. cut' \subseteq Nat
    BY <1>6, <2>1 DEF RecordBuild, TypeOK, ImageBuild
  <2> QED BY <1>6, <1>q, <2>2, <2>3, <2>4 DEF RecordBuild, TypeOK, BuildTypes
<1>7. CASE CleanupBuild
  <2>1. wb \in BuildWorker /\ wb.n \in Name /\ wb.t \in ImageBuild
    BY <1>7, <1>b DEF CleanupBuild, DeleteImage, BIn
  <2>2. build' \in [Name -> ImageBuild] /\ wb' \in BuildWorker \cup {Idle}
    BY <1>7, <2>1, BuildWorkerTypes DEF CleanupBuild, DeleteImage, BGo, TypeOK
  <2>3. acts' \in Seq(BuildAction)
    <3>1. ASSUME NEW a \in DOMAIN acts PROVE [acts[a] EXCEPT !.st = "Failed"] \in BuildAction
      BY ActionTypes DEF BuildAction
    <3>2. CASE NeedsCancel(wb.t) /\ wb.t.action \in DOMAIN acts
               /\ acts' = [acts EXCEPT ![wb.t.action].st = "Failed"]
      BY <3>1, <3>2, ActionChange
    <3>3. CASE acts' = acts
      BY <3>3 DEF TypeOK
    <3>4. CASE wb.t.action \notin DOMAIN acts /\ acts' = [acts EXCEPT ![wb.t.action].st = "Failed"]
      <4>1. acts = [b \in DOMAIN acts |-> acts[b]]
        BY DEF TypeOK
      <4>2. acts' = [b \in DOMAIN acts |-> acts[b]]
        BY <3>4
      <4> QED BY <4>1, <4>2 DEF TypeOK
    <3> QED BY <1>7, <3>2, <3>3, <3>4 DEF CleanupBuild
  <2> QED BY <1>7, <1>q, <2>2, <2>3 DEF CleanupBuild, TypeOK, BuildTypes
<1>11. CASE DeleteImage
  <2>1. wb \in BuildWorker /\ wb.n \in Name /\ wb.t \in ImageBuild
    BY <1>11, <1>b DEF DeleteImage, BIn
  <2>2. build' \in [Name -> ImageBuild] /\ wb' \in BuildWorker \cup {Idle}
    BY <1>11, <2>1, BuildWorkerTypes DEF DeleteImage, BGo, TypeOK
  <2>3. images' \subseteq Nat /\ IsFiniteSet(images')
    <3>1. images \subseteq Nat /\ IsFiniteSet(images) /\ IsFiniteSet(images \ {wb.t.image})
      BY FS_RemoveElement DEF TypeOK
    <3> QED BY <1>11, <3>1 DEF DeleteImage
  <2> QED BY <1>11, <1>q, <2>2, <2>3 DEF DeleteImage, TypeOK, BuildTypes
<1>8. CASE ReleaseBuild
  <2>1. wb \in BuildWorker /\ wb.n \in Name
    BY <1>8, <1>b DEF ReleaseBuild, BIn
  <2>2. build' \in [Name -> ImageBuild] /\ wb' = Idle
    BY <1>8, <2>1, BuildRecords, BuildWorkerTypes DEF ReleaseBuild
  <2> QED BY <1>8, <1>l, <2>2 DEF ReleaseBuild
<1>9. CASE BuildCallFails
  <2>1. wb \in BuildWorker /\ wb.n \in Name /\ wb.t \in ImageBuild
    BY <1>9, <1>b DEF BuildCallFails, BIn
  <2>2. build' \in [Name -> ImageBuild] /\ wb' = Idle
    BY <1>9, <2>1, BuildWorkerTypes DEF BuildCallFails, BEnd, TypeOK
  <2>3. acts' \in Seq(BuildAction) /\ cut' \subseteq Nat
    <3>1. CASE UNCHANGED <<acts, cut>>
      BY <3>1 DEF TypeOK
    <3>2. CASE acts' = Append(acts, ScheduledAction) /\ cut' = cut \cup {Len(acts')}
      <4>1. ScheduledAction \in BuildAction
        BY <2>1, ScheduledActionIs DEF ScheduledActionType
      <4>2. acts' \in Seq(BuildAction) /\ Len(acts') = Len(acts) + 1
        BY <3>2, <4>1, ActionAdded
      <4>3. Len(acts') \in Nat
        BY <4>2, ActionTypes
      <4> QED BY <3>2, <4>2, <4>3 DEF TypeOK
    <3> QED BY <1>9, <3>1, <3>2 DEF BuildCallFails
  <2> QED BY <1>9, <1>q, <2>2, <2>3 DEF BuildCallFails, TypeOK, BuildTypes
<1> QED BY <1>1, <1>2, <1>3, <1>4, <1>5, <1>6, <1>7, <1>8, <1>9, <1>10, <1>11
        DEF BuildPass

----------------------------------------------------------------------------
(* Steps outside a pass over an ImageBuild, by what they do to the builds. *)

ChangedOutside(n) ==
    \/ build'[n] = build[n]
    \/ build[n].life = "live" /\ build'[n] = [build[n] EXCEPT !.now = TRUE]
    \/ /\ build[n].life = "live" /\ build'[n] = Deleted(build[n])
       /\ undone' \/ prof.life = "gone" \/ (PIn("prune") /\ n \in wp.doomed)
    \/ build[n].life = "none" /\ build'[n] = Created(wp.t) /\ PIn("trigger")

\* The user, the cluster and the pass over the profile write ImageBuilds, but
\* not their status, and do not see to Uyuni's actions.
Outside ==
    /\ build' \in [Name -> ImageBuild]
    /\ \A n \in Name : ChangedOutside(n)
    /\ undone' \in BOOLEAN /\ (undone => undone')
    /\ UNCHANGED <<buildSeen, wb, acts, images, old, cut, mixed, revived, built>>

BuildSide == <<build, buildSeen, wb, acts, images, old, cut, mixed, undone, revived,
               built>>

LEMMA AsideIsOutside ==
    ASSUME TypeOK, UNCHANGED BuildSide
    PROVE  Outside
BY DEF TypeOK, BuildSide, Outside, ChangedOutside

\* One ImageBuild is written.
LEMMA OneIsOutside ==
    ASSUME TypeOK, NEW n \in Name, NEW x \in ImageBuild,
           build' = [build EXCEPT ![n] = x],
           build'[n] = x => ChangedOutside(n),
           undone' \in BOOLEAN, undone => undone',
           UNCHANGED <<buildSeen, wb, acts, images, old, cut, mixed, revived, built>>
    PROVE  Outside
<1>1. build' \in [Name -> ImageBuild] /\ build'[n] = x
  BY DEF TypeOK
<1>2. \A m \in Name : m # n => build'[m] = build[m]
  BY DEF TypeOK
<1>3. \A m \in Name : ChangedOutside(m)
  BY <1>1, <1>2 DEF ChangedOutside
<1> QED BY <1>1, <1>3 DEF Outside

\* The pass over the profile: all but two of its steps leave the builds alone.
LEMMA ProfilePassOutside ==
    ASSUME TypeOK, ProfilePass \/ ProfileCallFails
    PROVE  Outside
<1>1. CASE PEnsureFinalizer
  BY <1>1, AsideIsOutside DEF PEnsureFinalizer, PLocal, PQuiet, uyuni, seen, BuildSide
<1>2. CASE resolveStoreLabel
  BY <1>2, AsideIsOutside DEF resolveStoreLabel, PLocal, PQuiet, uyuni, seen, BuildSide
<1>3. CASE EnsureProfile
  BY <1>3, AsideIsOutside DEF EnsureProfile, PQuiet, uyuni, seen, BuildSide
<1>4. CASE UpdateImageProfile
  BY <1>4, AsideIsOutside DEF UpdateImageProfile, PQuiet, uyuni, seen, BuildSide
<1>5. CASE handleBuildTriggers
  <2>1. wp \in ProfileWorker /\ wp.t \in ImageProfile
    BY <1>5, InPass DEF handleBuildTriggers, PIn
  <2> DEFINE n == BuildName(wp.t)
  <2>2. n \in Name
    <3>1. wp.t.gen \in 1..MaxGen /\ MaxGen \in Nat
      BY <2>1, ConstantsAssumption DEF ImageProfile
    <3> QED BY <3>1 DEF BuildName, VersionBuild, GenBuild, Name
  <2>3. UNCHANGED <<buildSeen, wb, acts, images, old, cut, mixed, undone, revived, built>>
    BY <1>5 DEF handleBuildTriggers, PQuiet, uyuni, seen
  <2>4. \/ build' = build
        \/ build[n].life = "none" /\ build' = [build EXCEPT ![n] = Created(wp.t)]
    BY <1>5 DEF handleBuildTriggers
  <2>5. CASE build' = build
    BY <2>3, <2>5, AsideIsOutside DEF BuildSide
  <2>6. CASE build[n].life = "none" /\ build' = [build EXCEPT ![n] = Created(wp.t)]
    <3>1. Created(wp.t) \in ImageBuild
      BY CreatedIsNew
    <3>2. build'[n] = Created(wp.t) => ChangedOutside(n)
      BY <1>5, <2>6 DEF ChangedOutside, handleBuildTriggers
    <3>3. undone' \in BOOLEAN /\ (undone => undone')
      BY <2>3 DEF TypeOK
    <3> HIDE DEF n
    <3> QED BY <2>2, <2>3, <2>6, <3>1, <3>2, <3>3, OneIsOutside
  <2> QED BY <2>4, <2>5, <2>6
<1>6. CASE StripProfile
  BY <1>6, AsideIsOutside DEF StripProfile, PQuiet, uyuni, seen, BuildSide
<1>7. CASE ReadCreated \/ MirrorLatestBuild \/ ListForRetention
  BY <1>7, AsideIsOutside DEF ReadCreated, MirrorLatestBuild, ListForRetention, PLocal, PQuiet,
     uyuni, seen, BuildSide
<1>12. CASE PruneBuild
  <2>1. /\ UNCHANGED <<buildSeen, wb, acts, images, old, cut, mixed, undone, revived, built>>
        /\ PIn("prune")
    BY <1>12 DEF PruneBuild, PQuiet, uyuni, seen
  <2>2. PICK n \in wp.doomed :
           build' = IF build[n].life = "live"
                    THEN [build EXCEPT ![n] = Deleted(build[n])] ELSE build
    BY <1>12 DEF PruneBuild
  <2>3. CASE build' = build
    BY <2>1, <2>3, AsideIsOutside DEF BuildSide
  <2>4. CASE build[n].life = "live" /\ build' = [build EXCEPT ![n] = Deleted(build[n])]
    <3>1. n \in Name
      BY <2>1, InPass DEF PIn, ProfileWorker
    <3>2. Deleted(build[n]) \in ImageBuild
      BY <3>1, BuildRecords DEF TypeOK
    <3>3. build'[n] = Deleted(build[n]) => ChangedOutside(n)
      BY <2>1, <2>4 DEF ChangedOutside
    <3>4. undone' \in BOOLEAN /\ (undone => undone')
      BY <2>1 DEF TypeOK
    <3> QED BY <2>1, <2>4, <3>1, <3>2, <3>3, <3>4, OneIsOutside
  <2> QED BY <2>2, <2>3, <2>4
<1>8. CASE SaveReconciled
  BY <1>8, AsideIsOutside DEF SaveReconciled, PLocal, PQuiet, uyuni, seen, BuildSide
<1>9. CASE DeleteImageProfile
  BY <1>9, AsideIsOutside DEF DeleteImageProfile, PQuiet, uyuni, seen, BuildSide
<1>10. CASE ReleaseProfile
  BY <1>10, AsideIsOutside DEF ReleaseProfile, PLocal, PQuiet, uyuni, seen, BuildSide
<1>11. CASE ProfileCallFails
  BY <1>11, AsideIsOutside DEF ProfileCallFails, PQuiet, uyuni, seen, BuildSide
<1> QED BY <1>1, <1>2, <1>3, <1>4, <1>5, <1>6, <1>7, <1>8, <1>9, <1>10, <1>11, <1>12
        DEF ProfilePass

\* The user and the cluster.
LEMMA UserOutside ==
    ASSUME TypeOK, \/ User \/ Vanish \/ Reappear \/ ProfileSync \/ BeginProfile
                   \/ \E n \in Name : CollectGarbage(n)
    PROVE  Outside
<1>1. ASSUME NEW new, ProfileWrite(new) PROVE Outside
  BY <1>1, AsideIsOutside DEF ProfileWrite, seen, uyuni, history, BuildSide
<1>2. CASE EditProfile \/ BuildNow \/ DeleteProfile
  BY <1>1, <1>2 DEF EditProfile, BuildNow, DeleteProfile
<1>3. ASSUME NEW n \in Name, RebuildNow(n) PROVE Outside
  <2>1. /\ build[n].life = "live" /\ build' = [build EXCEPT ![n] = [build[n] EXCEPT !.now = TRUE]]
        /\ UNCHANGED <<buildSeen, wb, acts, images, old, cut, mixed, undone, revived, built>>
    BY <1>3 DEF RebuildNow, BuildWrite, seen, uyuni
  <2>2. [build[n] EXCEPT !.now = TRUE] \in ImageBuild
    BY BuildRecords DEF TypeOK
  <2> QED BY <2>1, <2>2, OneIsOutside DEF ChangedOutside, TypeOK
<1>4. ASSUME NEW n \in Name, DeleteBuild(n) PROVE Outside
  <2>1. /\ build[n].life = "live" /\ build' = [build EXCEPT ![n] = Deleted(build[n])]
        /\ undone' = TRUE
        /\ UNCHANGED <<buildSeen, wb, acts, images, old, cut, mixed, revived, built>>
    BY <1>4 DEF DeleteBuild, BuildWrite, seen, uyuni
  <2>2. Deleted(build[n]) \in ImageBuild
    BY BuildRecords DEF TypeOK
  <2> QED BY <2>1, <2>2, OneIsOutside DEF ChangedOutside
<1>5. ASSUME NEW n \in Name, CollectGarbage(n) PROVE Outside
  <2>1. /\ prof.life = "gone" /\ build[n].life = "live"
        /\ build' = [build EXCEPT ![n] = Deleted(build[n])]
        /\ UNCHANGED <<buildSeen, wb, acts, images, old, cut, mixed, undone, revived, built>>
    BY <1>5 DEF CollectGarbage, seen, uyuni, history
  <2>2. Deleted(build[n]) \in ImageBuild
    BY BuildRecords DEF TypeOK
  <2> QED BY <2>1, <2>2, OneIsOutside DEF ChangedOutside, TypeOK
<1>6. CASE Vanish \/ Reappear \/ ProfileSync \/ BeginProfile
  BY <1>6, AsideIsOutside
     DEF Vanish, Reappear, ProfileSync, BeginProfile, kube, seen, uyuni, history, BuildSide
<1> QED BY <1>2, <1>3, <1>4, <1>5, <1>6 DEF User

\* Uyuni's build host, and time.
HostStep ==
    /\ UNCHANGED <<build, buildSeen, wb, cut, mixed, undone, revived, built>>
    /\ \/ \E a \in DOMAIN acts :
             /\ acts[a].image = 0
             /\ acts' = [acts EXCEPT ![a] = [acts[a] EXCEPT !.image = NextImage]]
             /\ images' = images \cup {NextImage} /\ old' = old
       \/ \E a \in DOMAIN acts, s \in {"hung", "Completed", "Failed"} :
             /\ acts[a].st \in {"open", "hung"}
             /\ acts' = [acts EXCEPT ![a] = [acts[a] EXCEPT !.st = s]]
             /\ UNCHANGED <<images, old>>
       \/ \E n \in Name : old' = old \cup {n} /\ UNCHANGED <<acts, images>>

LEMMA HostForm ==
    ASSUME TypeOK, BuildHost \/ \E n \in Name : TimePasses(n)
    PROVE  HostStep
<1>1. ASSUME NEW a \in DOMAIN acts, ImageAppears(a) PROVE HostStep
  BY <1>1 DEF ImageAppears, HostStep, kube, seen, history
<1>2. ASSUME NEW a \in DOMAIN acts, ActionEnds(a) \/ Hangs(a) PROVE HostStep
  <2>1. /\ UNCHANGED <<build, buildSeen, wb, cut, mixed, undone, revived, built, images, old>>
        /\ acts[a].st \in {"open", "hung"}
    BY <1>2 DEF ActionEnds, Hangs, kube, seen, history
  <2>2. \/ acts' = [acts EXCEPT ![a] = [acts[a] EXCEPT !.st = "Completed"]]
        \/ acts' = [acts EXCEPT ![a] = [acts[a] EXCEPT !.st = "Failed"]]
        \/ acts' = [acts EXCEPT ![a] = [acts[a] EXCEPT !.st = "hung"]]
    BY <1>2 DEF ActionEnds, Hangs
  <2> QED BY <2>1, <2>2 DEF HostStep
<1>3. ASSUME NEW n \in Name, TimePasses(n) PROVE HostStep
  BY <1>3 DEF TimePasses, HostStep, kube, seen, uyuni, history
<1> QED BY <1>1, <1>2, <1>3 DEF BuildHost

\* What can happen, seen from the builds.
LEMMA StepForm ==
    ASSUME TypeOK, [Next]_vars
    PROVE  \/ Outside \/ HostStep \/ BuildSync \/ \E n \in Name : BeginBuild(n)
           \/ BuildPass \/ BuildCallFails \/ Crash
<1>1. CASE UNCHANGED vars
  BY <1>1, AsideIsOutside DEF vars, kube, seen, uyuni, history, BuildSide
<1> QED BY <1>1, ProfilePassOutside, UserOutside, HostForm DEF Next

\* Every step keeps the types of the builds' side.
LEMMA BuildTypesStep == TypeOK /\ [Next]_vars => BuildTypes'
<1> SUFFICES ASSUME TypeOK, [Next]_vars PROVE BuildTypes'
  OBVIOUS
<1>1. CASE Outside
  BY <1>1 DEF Outside, TypeOK, BuildTypes
<1>2. CASE HostStep
  <2>1. ASSUME NEW a \in DOMAIN acts
        PROVE  /\ [acts[a] EXCEPT !.image = NextImage] \in BuildAction
               /\ \A s \in {"hung", "Completed", "Failed"} :
                     [acts[a] EXCEPT !.st = s] \in BuildAction
    BY ActionTypes, NumberTypes DEF BuildAction
  <2>2. acts' \in Seq(BuildAction)
    BY <1>2, <2>1, ActionChange DEF HostStep, TypeOK
  <2>3. IsFiniteSet(images \cup {NextImage}) /\ images \cup {NextImage} \subseteq Nat
    BY FS_AddElement, NumberTypes DEF TypeOK
  <2>4. images' \subseteq Nat /\ IsFiniteSet(images') /\ old' \subseteq Name
    BY <1>2, <2>3 DEF HostStep, TypeOK
  <2> QED BY <1>2, <2>2, <2>4 DEF HostStep, TypeOK, BuildTypes
<1>3. CASE BuildSync
  BY <1>3 DEF BuildSync, TypeOK, BuildTypes, kube, uyuni, history
<1>4. ASSUME NEW n \in Name, BeginBuild(n) PROVE BuildTypes'
  <2>1. wb' \in BuildWorker
    BY <1>4 DEF BeginBuild, BuildWorker, TypeOK
  <2> QED BY <1>4, <2>1 DEF BeginBuild, TypeOK, BuildTypes, kube, seen, uyuni, history
<1>5. CASE Crash
  <2>1. cut' \subseteq Nat
    <3>1. CASE BIn("recordNew")
      BY <1>5, <3>1, InPass DEF Crash, BIn, TypeOK, ImageBuild
    <3> QED BY <1>5, <3>1 DEF Crash, TypeOK
  <2> QED BY <1>5, <2>1 DEF Crash, TypeOK, BuildTypes, kube, seen, uyuni
<1> QED BY <1>1, <1>2, <1>3, <1>4, <1>5, StepForm, BuildPassTypes

\* Every step keeps the types of the profile's side.
LEMMA ProfileTypesStep == TypeOK /\ [Next]_vars => ProfileTypes'
<1> SUFFICES ASSUME TypeOK, [Next]_vars PROVE ProfileTypes'
  OBVIOUS
<1>u. UNCHANGED <<cfg, prof, profSeen, missing, wp, held, dropped, made>>
      /\ (Event \/ UNCHANGED events) => ProfileTypes'
  BY EventType DEF TypeOK, ProfileTypes
<1>1. ASSUME NEW new \in ImageProfile, ProfileWrite(new) PROVE ProfileTypes'
  BY <1>1, EventType DEF ProfileWrite, seen, uyuni, history, TypeOK, ProfileTypes
<1>2. CASE EditProfile \/ BuildNow \/ DeleteProfile
  <2>1. prof \in ImageProfile /\ MaxGen \in Nat
    BY ConstantsAssumption DEF TypeOK
  <2>2. \A k \in Kiwi : prof.gen < MaxGen =>
           [prof EXCEPT !.gen = @ + 1, !.kiwi = k] \in ImageProfile
    <3>1. prof.gen < MaxGen => prof.gen + 1 \in 1..MaxGen
      BY <2>1 DEF ImageProfile
    <3>2. \A g \in 1..MaxGen, k \in Kiwi : [prof EXCEPT !.gen = g, !.kiwi = k] \in ImageProfile
      BY <2>1 DEF ImageProfile
    <3> QED BY <3>1, <3>2
  <2>3. [prof EXCEPT !.now = TRUE] \in ImageProfile
    BY <2>1 DEF ImageProfile
  <2>4. \A f \in BOOLEAN, l \in {"deleting", "gone"} :
           [prof EXCEPT !.force = f, !.life = l] \in ImageProfile
    BY <2>1 DEF ImageProfile
  <2>5. \A f \in BOOLEAN :
           [prof EXCEPT !.force = f, !.life = IF prof.fin THEN "deleting" ELSE "gone"]
               \in ImageProfile
    BY <2>4
  <2> QED BY <1>1, <1>2, <2>2, <2>3, <2>5 DEF EditProfile, BuildNow, DeleteProfile
<1>3. CASE \E n \in Name : RebuildNow(n) \/ DeleteBuild(n)
  BY <1>3, <1>u DEF RebuildNow, DeleteBuild, BuildWrite, seen, uyuni
<1>4. CASE Vanish \/ Reappear \/ ProfileSync \/ BuildSync
  BY <1>4, EventType
     DEF Vanish, Reappear, ProfileSync, BuildSync, kube, seen, uyuni, history, TypeOK,
         ProfileTypes
<1>5. CASE BuildHost
  BY <1>5, <1>u DEF BuildHost, ImageAppears, ActionEnds, Hangs, kube, seen, uyuni, history
<1>6. CASE BeginProfile
  <2>1. wp' \in ProfileWorker
    BY <1>6 DEF BeginProfile, ProfileWorker, TypeOK
  <2>2. events' \in 0..MaxEvents
    BY <1>6, EventType DEF BeginProfile
  <2> QED BY <1>6, <2>1, <2>2
          DEF BeginProfile, kube, seen, uyuni, history, TypeOK, ProfileTypes
<1>7. CASE BuildPass
  <2>1. BQuiet /\ (Event \/ UNCHANGED events)
    BY <1>7 DEF BuildPass, AwaitProfile, StripBuild, Recheck, ListImages,
                ScheduleImageBuild, pollAction,
                RecordBuild, CleanupBuild, DeleteImage, ReleaseBuild, BLocal
  <2> QED BY <1>u, <2>1 DEF BQuiet, seen
<1>8. CASE ProfileCallFails
  <2>1. wp \in ProfileWorker /\ wp.t \in ImageProfile
    BY <1>8, InPass DEF ProfileCallFails
  <2>2. prof' \in ImageProfile /\ wp' \in ProfileWorker \cup {Idle}
    BY <1>8, <2>1, FailType DEF ProfileCallFails, TypeOK
  <2>3. events' \in 0..MaxEvents
    BY <1>8, EventType DEF ProfileCallFails
  <2> QED BY <1>8, <2>2, <2>3
          DEF ProfileCallFails, PQuiet, seen, uyuni, TypeOK, ProfileTypes
<1>9. CASE BuildCallFails
  BY <1>9, <1>u DEF BuildCallFails, BQuiet, seen
<1>10. CASE Crash
  BY <1>10, EventType DEF Crash, kube, seen, uyuni, TypeOK, ProfileTypes
<1>11. CASE \E n \in Name : CollectGarbage(n) \/ TimePasses(n) \/ BeginBuild(n)
  BY <1>11, <1>u DEF CollectGarbage, TimePasses, BeginBuild, kube, seen, uyuni, history
<1>12. CASE UNCHANGED vars
  BY <1>12, <1>u DEF vars, kube, seen, uyuni, history
<1> QED BY <1>2, <1>3, <1>4, <1>5, <1>6, <1>7, <1>8, <1>9, <1>10, <1>11, <1>12,
           ProfilePassTypes
        DEF Next, User

LEMMA InitTypes == Init => TypeOK
<1> SUFFICES ASSUME Init PROVE TypeOK
  OBVIOUS
<1>1. MaxGen \in Nat \ {0} /\ MaxEvents \in Nat
  BY ConstantsAssumption
<1>2. prof \in ImageProfile /\ profSeen \in ImageProfile
  <2>1. 1 \in 1..MaxGen /\ 0 \in 0..MaxGen
    BY <1>1
  <2> QED BY <2>1 DEF Init, ImageProfile, Kiwi
<1>3. build \in [Name -> ImageBuild] /\ buildSeen \in [Name -> ImageBuild]
  BY BuildRecords DEF Init
<1>4. held \in [there : BOOLEAN, kiwi : Kiwi \cup {0}, path : 0..MaxGen]
  <2>1. 0 \in 0..MaxGen
    BY <1>1
  <2> QED BY <2>1 DEF Init, NoProfile
<1>5. acts \in Seq(BuildAction)
  BY DEF Init
<1>6. IsFiniteSet(images)
  BY FS_EmptySet DEF Init
<1>7. 0 \in 0..MaxGen /\ 0 \in 0..MaxEvents
  BY <1>1
<1> QED BY <1>2, <1>3, <1>4, <1>5, <1>6, <1>7 DEF Init, TypeOK

\* Every variable keeps its type.
THEOREM ImagesTypeOK == Spec => []TypeOK
<1>1. TypeOK /\ [Next]_vars => TypeOK'
  BY ProfileTypesStep, BuildTypesStep, TypeSplitNext
<1> QED BY <1>1, InitTypes, PTL DEF Spec

----------------------------------------------------------------------------
(* Copies of an ImageBuild: the stored one, the informer's, a pass's.      *)

\* A copy without an action has nothing of a build in its status.  One with an
\* action has the finalizer, names an action of its own and, unless builds were
\* mixed up, the image of that action, and says Succeeded of a completed one.
CopyOK(n, x, as, mx) ==
    /\ x.life = "none" => x = NoBuild
    /\ x.life = "deleting" => x.fin
    /\ x.action = 0 => x.bs = "" /\ x.image = 0
    /\ x.action # 0 =>
           /\ x.fin /\ x.bs # ""
           /\ x.action \in DOMAIN as /\ as[x.action].n = n
           /\ mx \/ x.image \in {0, as[x.action].image}
           /\ x.bs = "Succeeded" => as[x.action].st = "Completed"

\* What the stored ImageBuild o keeps of a copy x that had the finalizer.
Keeps(x, o, rv) ==
    /\ o.fin /\ o.born = x.born
    /\ x.action # 0 => o.action = x.action
    /\ x.life = "deleting" => o.life = "deleting"
    /\ x.bs = "Succeeded" => o.bs = "Succeeded"
    /\ x.bs = "Failed" => o.bs = "Failed" \/ rv

CopiesInv ==
    /\ \A n \in Name : CopyOK(n, build[n], acts, mixed) /\ CopyOK(n, buildSeen[n], acts, mixed)
    /\ wb # Idle => CopyOK(wb.n, wb.t, acts, mixed) /\ CopyOK(wb.n, wb.base, acts, mixed)

\* An ImageBuild that had the finalizer when the informer read it is still
\* there, unless it was being deleted.
SeenInv ==
    \A n \in Name :
        /\ buildSeen[n].life = "live" /\ buildSeen[n].fin
               => Keeps(buildSeen[n], build[n], revived)
        /\ buildSeen[n].life = "deleting" /\ build[n].fin
               => Keeps(buildSeen[n], build[n], revived)

Going == wb # Idle /\ wb.pc \notin {"cleanup", "unimage", "release"}
Removing == wb # Idle /\ wb.pc \in {"cleanup", "unimage", "release"}

\* A pass that removes an ImageBuild began after the informer had seen its
\* deletion.
RemovingInv ==
    Removing =>
        /\ wb.t = wb.base /\ wb.base.life = "deleting"
        /\ build[wb.n].fin => Keeps(wb.base, build[wb.n], revived)
        /\ buildSeen[wb.n].life = "live" => ~buildSeen[wb.n].fin

Ended(a) == acts[a].st \in {"Completed", "Failed"}

\* What any other pass knows, step by step.
GoingInv ==
    Going =>
        /\ wb.base.life # "none"
        /\ wb.t.life = wb.base.life /\ wb.t.fin = wb.base.fin
        /\ wb.t.born = wb.base.born
        /\ wb.base.fin => Keeps(wb.base, build[wb.n], revived)
        /\ wb.pc # "profile" => wb.base.fin
        /\ wb.pc \in {"profile", "strip", "poll"} => wb.t = wb.base
        /\ wb.pc = "profile" =>
               /\ wb.base.life = "live"
               /\ ~wb.base.fin /\ buildSeen[wb.n].life = "deleting" => build[wb.n].fin
        /\ wb.pc \in {"recheck", "baseline", "schedule"} => wb.t.action = 0
        /\ wb.pc \in {"recheck", "baseline", "schedule", "recordNew"} => wb.base.action = 0
        /\ wb.pc \in {"baseline", "schedule", "recordNew"} =>
               build[wb.n].action \in {0} \cup cut
        /\ wb.pc = "recordNew" =>
               /\ wb.t.action # 0 /\ wb.t.bs = "Scheduled"
               /\ acts[wb.t.action].born = wb.t.born
        /\ wb.pc \in {"poll", "record"} =>
               wb.t.action = wb.base.action /\ wb.t.action # 0
        /\ wb.pc = "record" =>
               /\ wb.base.bs = "Succeeded" => wb.t.bs = "Succeeded"
               /\ wb.base.bs = "Failed" => wb.t.bs \in {"Failed", "Succeeded"} \/ revived
               /\ wb.t.bs = "Failed" => Ended(wb.t.action) \/ wb.n \in old

\* An ImageBuild given up as Failed has ended, or is late.
LateInv ==
    \A n \in Name : build[n].bs = "Failed" => Ended(build[n].action) \/ n \in old

CopyInv == CopiesInv /\ SeenInv /\ RemovingInv /\ GoingInv /\ LateInv

----------------------------------------------------------------------------
(* Facts about copies.                                                     *)

LEMMA KeepsItself ==
    ASSUME NEW x, x.fin, NEW rv
    PROVE  Keeps(x, x, rv)
BY DEF Keeps

LEMMA KeepsOn ==
    ASSUME NEW x, NEW y, NEW z, NEW r, NEW s, Keeps(x, y, r), Keeps(y, z, s), r => s
    PROVE  Keeps(x, z, s)
BY DEF Keeps

\* Nothing that others write is lost on a copy.
LEMMA KeepsWritten ==
    ASSUME NEW x \in ImageBuild, x.fin, NEW rv
    PROVE  /\ Keeps(x, Deleted(x), rv)
           /\ \A b \in BOOLEAN : Keeps(x, [x EXCEPT !.now = b], rv)
BY DEF Keeps, Deleted, ImageBuild

LEMMA CopyWritten ==
    ASSUME NEW n, NEW x \in ImageBuild, NEW as, NEW mx, CopyOK(n, x, as, mx), x.life # "none"
    PROVE  /\ CopyOK(n, Deleted(x), as, mx)
           /\ \A b \in BOOLEAN : CopyOK(n, [x EXCEPT !.now = b], as, mx)
           /\ CopyOK(n, [x EXCEPT !.fin = TRUE], as, mx)
           /\ \A i \in Nat : CopyOK(n, [x EXCEPT !.base = i], as, mx)
<1>1. CopyOK(n, NoBuild, as, mx)
  BY DEF CopyOK, NoBuild
<1>2. CopyOK(n, Deleted(x), as, mx)
  BY <1>1 DEF CopyOK, Deleted, ImageBuild
<1>3. \A b \in BOOLEAN : CopyOK(n, [x EXCEPT !.now = b], as, mx)
  BY DEF CopyOK, ImageBuild
<1>4. CopyOK(n, [x EXCEPT !.fin = TRUE], as, mx)
  BY DEF CopyOK, ImageBuild
<1>5. \A i \in Nat : CopyOK(n, [x EXCEPT !.base = i], as, mx)
  BY DEF CopyOK, ImageBuild
<1> QED BY <1>2, <1>3, <1>4, <1>5

LEMMA CopyNew ==
    ASSUME TypeOK, NEW n, NEW t, NEW as, NEW mx
    PROVE  /\ CopyOK(n, Created(t), as, mx) /\ CopyOK(n, NoBuild, as, mx)
           /\ ~Created(t).fin /\ ~NoBuild.fin /\ Created(t).life = "live"
           /\ NoBuild.action = 0 /\ NoBuild.bs = "" /\ NoBuild.image = 0
<1>1. /\ Created(t).life = "live" /\ Created(t).fin = FALSE /\ Created(t).action = 0
      /\ Created(t).bs = "" /\ Created(t).image = 0
  BY DEF Created, NoBuild
<1> QED BY <1>1 DEF CopyOK, NoBuild

\* Uyuni's actions are kept: they stay whose they are, their images and ends
\* are final.
ActsKept ==
    /\ DOMAIN acts \subseteq DOMAIN acts'
    /\ \A a \in DOMAIN acts :
           /\ acts'[a].n = acts[a].n /\ acts'[a].born = acts[a].born
           /\ acts[a].image # 0 => acts'[a].image = acts[a].image
           /\ Ended(a) => acts'[a].st = acts[a].st
    /\ mixed => mixed'

LEMMA CopyStays ==
    ASSUME NEW n, NEW x, CopyOK(n, x, acts, mixed), ActsKept
    PROVE  CopyOK(n, x, acts', mixed')
BY DEF CopyOK, ActsKept, Ended

LEMMA ActsKeptStep == TypeOK /\ [Next]_vars => ActsKept
<1> SUFFICES ASSUME TypeOK, [Next]_vars PROVE ActsKept
  OBVIOUS
<1>u. acts' = acts /\ (mixed => mixed') => ActsKept
  BY DEF ActsKept
<1>a. ASSUME NEW x \in BuildAction, acts' = Append(acts, x), mixed' = mixed
      PROVE  ActsKept
  BY <1>a, ActionAdded DEF ActsKept
<1>s. ASSUME NEW a \in DOMAIN acts, NEW s \in {"hung", "Completed", "Failed"}, ~Ended(a),
             acts' = [acts EXCEPT ![a] = [acts[a] EXCEPT !.st = s]], mixed' = mixed
      PROVE  ActsKept
  <2>1. [acts[a] EXCEPT !.st = s] \in BuildAction
    BY ActionTypes DEF BuildAction
  <2>2. /\ DOMAIN acts' = DOMAIN acts /\ acts'[a] = [acts[a] EXCEPT !.st = s]
        /\ \A b \in DOMAIN acts \ {a} : acts'[b] = acts[b]
    BY <1>s, <2>1, ActionChange
  <2>3. /\ acts'[a].n = acts[a].n /\ acts'[a].born = acts[a].born
        /\ acts'[a].image = acts[a].image
    BY <2>2, ActionTypes DEF BuildAction
  <2> QED BY <1>s, <2>2, <2>3 DEF ActsKept
<1>1. CASE Outside \/ BuildSync \/ (\E n \in Name : BeginBuild(n)) \/ Crash
  BY <1>1, <1>u DEF Outside, BuildSync, BeginBuild, Crash, kube, uyuni, history
<1>2. CASE HostStep
  <2>1. ASSUME NEW a \in DOMAIN acts, acts[a].image = 0,
               acts' = [acts EXCEPT ![a] = [acts[a] EXCEPT !.image = NextImage]]
        PROVE  ActsKept
    <3>1. [acts[a] EXCEPT !.image = NextImage] \in BuildAction
      BY ActionTypes, NumberTypes DEF BuildAction
    <3>2. /\ DOMAIN acts' = DOMAIN acts /\ acts'[a] = [acts[a] EXCEPT !.image = NextImage]
          /\ \A b \in DOMAIN acts \ {a} : acts'[b] = acts[b]
      BY <2>1, <3>1, ActionChange
    <3>3. /\ acts'[a].n = acts[a].n /\ acts'[a].born = acts[a].born
          /\ acts'[a].st = acts[a].st
      BY <3>2, ActionTypes DEF BuildAction
    <3> QED BY <1>2, <2>1, <3>2, <3>3 DEF ActsKept, HostStep
  <2>2. ASSUME NEW a \in DOMAIN acts, acts[a].st \in {"open", "hung"}
        PROVE  ~Ended(a)
    BY <2>2 DEF Ended
  <2> QED BY <1>2, <1>u, <1>s, <2>1, <2>2 DEF HostStep
<1>3. CASE BuildPass
  <2>1. CASE ScheduleImageBuild
    <3>1. wb \in BuildWorker
      BY <2>1, InPass DEF ScheduleImageBuild, BIn
    <3> QED BY <1>a, <2>1, <3>1, ScheduledActionIs
            DEF ScheduleImageBuild, ScheduledActionType
  <2>2. CASE CleanupBuild
    <3>1. CASE acts' = acts
      BY <1>u, <2>2, <3>1 DEF CleanupBuild
    <3>2. CASE acts' # acts
      <4>1. /\ acts' = [acts EXCEPT ![wb.t.action] = [acts[wb.t.action] EXCEPT !.st = "Failed"]]
            /\ acts[wb.t.action].st \in {"open", "hung"} /\ mixed' = mixed
        BY <2>2, <3>2 DEF CleanupBuild
      <4>2. wb.t.action \in DOMAIN acts
        <5>1. SUFFICES ASSUME wb.t.action \notin DOMAIN acts PROVE FALSE
          OBVIOUS
        <5>2. acts = [b \in DOMAIN acts |-> acts[b]]
          BY DEF TypeOK
        <5>3. acts' = [b \in DOMAIN acts |-> acts[b]]
          BY <4>1, <5>1
        <5> QED BY <3>2, <5>2, <5>3
      <4> QED BY <1>s, <4>1, <4>2 DEF Ended
    <3> QED BY <3>1, <3>2
  <2>3. CASE \/ AwaitProfile \/ StripBuild \/ Recheck \/ ListImages \/ pollAction
             \/ RecordBuild \/ DeleteImage \/ ReleaseBuild
    BY <1>u, <2>3 DEF AwaitProfile, StripBuild, Recheck, ListImages, pollAction, RecordBuild,
                      DeleteImage, ReleaseBuild, BLocal
  <2> QED BY <1>3, <2>1, <2>2, <2>3 DEF BuildPass
<1>4. CASE BuildCallFails
  <2>1. CASE acts' = acts
    BY <1>4, <1>u, <2>1 DEF BuildCallFails
  <2>2. CASE acts' # acts
    <3>1. BIn("schedule") /\ acts' = Append(acts, ScheduledAction) /\ mixed' = mixed
      BY <1>4, <2>2 DEF BuildCallFails
    <3>2. wb \in BuildWorker
      BY <3>1, InPass DEF BIn
    <3> QED BY <1>a, <3>1, <3>2, ScheduledActionIs DEF ScheduledActionType
  <2> QED BY <2>1, <2>2
<1> QED BY <1>1, <1>2, <1>3, <1>4, StepForm

----------------------------------------------------------------------------
(* What a step does to the stored ImageBuilds.                             *)

StoredKept ==
    \A n \in Name : /\ build[n].fin => Keeps(build[n], build'[n], revived')
                    /\ build'[n].fin => build[n].fin

\* Nobody but a pass gives an ImageBuild its finalizer or its status.
LEMMA OutsideStored ==
    ASSUME TypeOK, CopiesInv, Outside
    PROVE  /\ StoredKept
           /\ \A n \in Name :
                 /\ CopyOK(n, build'[n], acts', mixed')
                 /\ build'[n].action = build[n].action /\ build'[n].bs = build[n].bs
                 /\ build'[n].image = build[n].image
<1> SUFFICES ASSUME NEW n \in Name
             PROVE  /\ build[n].fin => Keeps(build[n], build'[n], revived')
                    /\ build'[n].fin => build[n].fin
                    /\ CopyOK(n, build'[n], acts', mixed')
                    /\ build'[n].action = build[n].action /\ build'[n].bs = build[n].bs
                    /\ build'[n].image = build[n].image
  BY DEF StoredKept
<1>1. /\ build[n] \in ImageBuild /\ CopyOK(n, build[n], acts, mixed)
      /\ acts' = acts /\ mixed' = mixed /\ revived' = revived
  BY DEF TypeOK, CopiesInv, Outside
<1>2. ChangedOutside(n)
  BY DEF Outside
<1>3. CASE build'[n] = build[n]
  BY <1>1, <1>3, KeepsItself
<1>4. CASE build[n].life = "live" /\ build'[n] = [build[n] EXCEPT !.now = TRUE]
  <2>1. /\ CopyOK(n, build'[n], acts, mixed)
        /\ build[n].fin => Keeps(build[n], build'[n], revived)
    <3>1. build[n].life # "none"
      BY <1>4
    <3>2. CopyOK(n, [build[n] EXCEPT !.now = TRUE], acts, mixed)
      BY <1>1, <3>1, CopyWritten
    <3>3. build[n].fin => Keeps(build[n], [build[n] EXCEPT !.now = TRUE], revived)
      BY <1>1, KeepsWritten
    <3> QED BY <1>4, <3>2, <3>3
  <2> QED BY <1>1, <1>4, <2>1 DEF ImageBuild
<1>5. CASE build[n].life = "live" /\ build'[n] = Deleted(build[n])
  <2>1. /\ CopyOK(n, build'[n], acts, mixed)
        /\ build[n].fin => Keeps(build[n], build'[n], revived)
    <3>1. build[n].life # "none"
      BY <1>5
    <3>2. CopyOK(n, Deleted(build[n]), acts, mixed)
      BY <1>1, <3>1, CopyWritten
    <3>3. build[n].fin => Keeps(build[n], Deleted(build[n]), revived)
      BY <1>1, KeepsWritten
    <3> QED BY <1>5, <3>2, <3>3
  <2>2. CASE build[n].fin
    BY <1>1, <1>5, <2>1, <2>2 DEF ImageBuild, Deleted
  <2>3. CASE ~build[n].fin
    <3>1. build'[n] = NoBuild
      BY <1>5, <2>3 DEF Deleted
    <3>2. build[n].action = 0 /\ build[n].bs = "" /\ build[n].image = 0
      BY <1>1, <2>3 DEF CopyOK
    <3>3. /\ build'[n].action = 0 /\ build'[n].bs = "" /\ build'[n].image = 0
      BY <3>1, CopyNew
    <3>5. ~build'[n].fin
      BY <3>1, CopyNew
    <3>4. CopyOK(n, build'[n], acts', mixed')
      BY <1>1, <2>1
    <3> QED BY <2>3, <3>2, <3>3, <3>4, <3>5
  <2> QED BY <2>2, <2>3
<1>6. CASE build[n].life = "none" /\ build'[n] = Created(wp.t)
  <2>1. build[n] = NoBuild
    BY <1>1, <1>6 DEF CopyOK
  <2>2. /\ Created(wp.t).action = 0 /\ Created(wp.t).bs = "" /\ Created(wp.t).image = 0
    BY DEF Created, NoBuild
  <2>3. /\ CopyOK(n, Created(wp.t), acts, mixed) /\ ~Created(wp.t).fin /\ ~NoBuild.fin
    BY CopyNew
  <2>4. build[n].action = 0 /\ build[n].bs = "" /\ build[n].image = 0
    BY <2>1, CopyNew
  <2>6. ~build[n].fin
    BY <2>1, CopyNew
  <2>5. CopyOK(n, build'[n], acts', mixed') /\ ~build'[n].fin
    BY <1>1, <1>6, <2>3
  <2> QED BY <1>6, <2>2, <2>4, <2>5, <2>6
<1> QED BY <1>2, <1>3, <1>4, <1>5, <1>6 DEF ChangedOutside

\* A write at the end of a pass.
LEMMA WriteForm ==
    ASSUME TypeOK, wb \in BuildWorker, NEW t, BWrite(t)
    PROVE  /\ wb.n \in Name
           /\ \A n \in Name : \/ build'[n] = build[n]
                              \/ /\ n = wb.n /\ build[n] = wb.base /\ build'[n] = t
           /\ build[wb.n] = wb.base => build'[wb.n] = t
           /\ build[wb.n] # wb.base => build' = build
BY DEF BWrite, TypeOK, BuildWorker

\* The informer's copies stay earlier states.
LEMMA SeenKept ==
    ASSUME SeenInv, StoredKept, buildSeen' = buildSeen, revived => revived'
    PROVE  SeenInv'
<1> SUFFICES ASSUME NEW n \in Name
             PROVE  /\ buildSeen[n].life = "live" /\ buildSeen[n].fin
                           => Keeps(buildSeen[n], build'[n], revived')
                    /\ buildSeen[n].life = "deleting" /\ build'[n].fin
                           => Keeps(buildSeen[n], build'[n], revived')
  BY DEF SeenInv
<1>1. /\ build[n].fin => Keeps(build[n], build'[n], revived')
      /\ build'[n].fin => build[n].fin
  BY DEF StoredKept
<1>2. ASSUME Keeps(buildSeen[n], build[n], revived)
      PROVE  Keeps(buildSeen[n], build'[n], revived')
  <2>1. build[n].fin
    BY <1>2 DEF Keeps
  <2> QED BY <1>1, <1>2, <2>1, KeepsOn
<1> QED BY <1>1, <1>2 DEF SeenInv

\* What the passes do to the stored ImageBuilds, but for the one that takes the
\* finalizer and the one that lets it go.
LEMMA PassStored ==
    ASSUME TypeOK, CopyInv,
           \/ StripBuild \/ Recheck \/ ListImages \/ ScheduleImageBuild \/ pollAction \/ RecordBuild
           \/ CleanupBuild \/ DeleteImage \/ BuildCallFails
    PROVE  StoredKept
<1>w. wb \in BuildWorker /\ wb # Idle /\ wb.n \in Name /\ wb.t \in ImageBuild /\ wb.base \in ImageBuild
  BY InPass DEF StripBuild, Recheck, ListImages, ScheduleImageBuild, pollAction,
                RecordBuild, CleanupBuild, DeleteImage,
                BuildCallFails, BIn
<1>u. build' = build => StoredKept
  BY KeepsItself DEF StoredKept
<1>1. CASE Recheck \/ ListImages \/ ScheduleImageBuild \/ pollAction \/ CleanupBuild
              \/ DeleteImage
  BY <1>1, <1>u DEF Recheck, ListImages, ScheduleImageBuild, pollAction, CleanupBuild,
                    DeleteImage, BGo, BEnd
<1>2. CASE StripBuild
  <2>1. CASE build[wb.n].life = "none"
    BY <1>2, <1>u, <2>1 DEF StripBuild, BEnd
  <2>2. CASE build[wb.n].life # "none"
    <3>1. build' = [build EXCEPT ![wb.n] = [build[wb.n] EXCEPT !.now = FALSE]]
      BY <1>2, <2>2 DEF StripBuild
    <3>2. \A n \in Name : build'[n] = build[n]
                          \/ build'[n] = [build[n] EXCEPT !.now = FALSE]
      BY <3>1 DEF TypeOK
    <3>3. ASSUME NEW n \in Name
          PROVE  /\ build[n].fin => Keeps(build[n], build'[n], revived')
                 /\ build'[n].fin => build[n].fin
      <4>1. build[n] \in ImageBuild
        BY DEF TypeOK
      <4>2. [build[n] EXCEPT !.now = FALSE].fin = build[n].fin
        BY <4>1 DEF ImageBuild
      <4> QED BY <3>2, <4>1, <4>2, KeepsItself, KeepsWritten
    <3> QED BY <3>3 DEF StoredKept
  <2> QED BY <2>1, <2>2
<1>3. CASE RecordBuild
  <2>1. /\ wb.t.fin = wb.base.fin /\ wb.t.fin /\ wb.t.born = wb.base.born
        /\ wb.t.life = wb.base.life
        /\ wb.base.action # 0 => wb.t.action = wb.base.action
    BY <1>3, <1>w DEF CopyInv, GoingInv, Going, RecordBuild, BIn
  <2>2. wb.base.bs = "Succeeded" => wb.t.bs = "Succeeded"
    BY <1>3, <1>w DEF CopyInv, GoingInv, Going, RecordBuild, BIn, CopiesInv, CopyOK
  <2>3. build[wb.n] = wb.base /\ wb.base.bs = "Failed" => wb.t.bs = "Failed" \/ revived'
    <3>1. wb.pc = "recordNew" => wb.base.bs = ""
      BY <1>w DEF CopyInv, GoingInv, Going, CopiesInv, CopyOK
    <3>2. wb.pc = "record" /\ wb.base.bs = "Failed"
              => wb.t.bs \in {"Failed", "Succeeded"} \/ revived
      BY <1>w DEF CopyInv, GoingInv, Going
    <3> QED BY <1>3, <3>1, <3>2 DEF RecordBuild, BIn
  <2>4. build[wb.n] = wb.base => Keeps(wb.base, wb.t, revived')
    BY <2>1, <2>2, <2>3 DEF Keeps
  <2>5. BWrite(wb.t)
    BY <1>3 DEF RecordBuild
  <2>6. ASSUME NEW n \in Name
        PROVE  /\ build[n].fin => Keeps(build[n], build'[n], revived')
               /\ build'[n].fin => build[n].fin
    <3>1. CASE build'[n] = build[n]
      BY <3>1, KeepsItself
    <3>2. CASE n = wb.n /\ build[n] = wb.base /\ build'[n] = wb.t
      BY <2>1, <2>4, <3>2
    <3> QED BY <1>w, <2>5, <3>1, <3>2, WriteForm
  <2> QED BY <2>6 DEF StoredKept
<1>4. CASE BuildCallFails
  <2>1. CASE BIn("poll")
    BY <1>4, <1>u, <2>1 DEF BuildCallFails, BEnd, BIn
  <2>2. CASE BIn("schedule")
    <3>1. BWrite(wb.t)
      BY <1>4, <2>2 DEF BuildCallFails, BIn
    <3>2. /\ wb.t.fin = wb.base.fin /\ wb.t.born = wb.base.born /\ wb.t.fin
          /\ wb.t.life = wb.base.life /\ wb.base.action = 0 /\ wb.base.bs = ""
      BY <1>w, <2>2 DEF CopyInv, GoingInv, Going, BIn, CopiesInv, CopyOK
    <3>3. Keeps(wb.base, wb.t, revived')
      BY <3>2 DEF Keeps
    <3>4. ASSUME NEW n \in Name
          PROVE  /\ build[n].fin => Keeps(build[n], build'[n], revived')
                 /\ build'[n].fin => build[n].fin
      <4>1. CASE build'[n] = build[n]
        BY <4>1, KeepsItself
      <4>2. CASE n = wb.n /\ build[n] = wb.base /\ build'[n] = wb.t
        BY <3>2, <3>3, <4>2
      <4> QED BY <1>w, <3>1, <4>1, <4>2, WriteForm
    <3> QED BY <3>4 DEF StoredKept
  <2> QED BY <1>4, <2>1, <2>2 DEF BuildCallFails
<1> QED BY <1>1, <1>2, <1>3, <1>4


----------------------------------------------------------------------------
(* Copies are kept: CopyInv is inductive.                                  *)

LEMMA CopiesStep ==
    ASSUME TypeOK, CopyInv, [Next]_vars
    PROVE  CopiesInv'
<1>k. /\ \A n \in Name : /\ CopyOK(n, build[n], acts', mixed')
                         /\ CopyOK(n, buildSeen[n], acts', mixed')
      /\ wb # Idle => /\ CopyOK(wb.n, wb.t, acts', mixed')
                      /\ CopyOK(wb.n, wb.base, acts', mixed')
  BY CopyStays, ActsKeptStep DEF CopyInv, CopiesInv
<1>w. ASSUME wb \in BuildWorker, NEW t, BWrite(t), CopyOK(wb.n, t, acts', mixed')
      PROVE  \A n \in Name : CopyOK(n, build'[n], acts', mixed')
  BY <1>k, <1>w, WriteForm
<1>i. ASSUME wb' = Idle, buildSeen' = buildSeen,
             \A n \in Name : CopyOK(n, build'[n], acts', mixed')
      PROVE  CopiesInv'
  BY <1>k, <1>i DEF CopiesInv
<1>e. wb' = Idle /\ build' = build /\ buildSeen' = buildSeen => CopiesInv'
  BY <1>k, <1>i
<1>g. ASSUME wb # Idle, NEW pc, NEW t, BGo(pc, t), buildSeen' = buildSeen,
             wb \in BuildWorker, CopyOK(wb.n, t, acts', mixed')
      PROVE  CopiesInv'
  <2>1. wb'.n = wb.n /\ wb'.t = t /\ wb'.base = wb.base /\ build' = build
    BY <1>g DEF BGo, BuildWorker
  <2> QED BY <1>g, <1>k, <2>1 DEF CopiesInv
<1>1. CASE Outside
  BY <1>1, <1>k, OutsideStored DEF CopiesInv, CopyInv, Outside
<1>2. CASE HostStep
  BY <1>2, <1>k DEF CopiesInv, HostStep
<1>3. CASE BuildSync
  BY <1>3, <1>k DEF CopiesInv, BuildSync, kube
<1>4. ASSUME NEW n \in Name, BeginBuild(n) PROVE CopiesInv'
  <2>1. wb'.n = n /\ wb'.t = buildSeen[n] /\ wb'.base = buildSeen[n]
    BY <1>4 DEF BeginBuild
  <2> QED BY <1>4, <1>k, <2>1 DEF CopiesInv, BeginBuild, kube, seen
<1>5. CASE Crash
  BY <1>5, <1>e DEF Crash, kube, seen
<1>6. CASE BuildPass
  <2>w. /\ wb \in BuildWorker /\ wb # Idle /\ wb.n \in Name
        /\ wb.t \in ImageBuild /\ wb.base \in ImageBuild
    BY <1>6, InPass DEF BuildPass, AwaitProfile, StripBuild, Recheck, ListImages,
                        ScheduleImageBuild, pollAction, RecordBuild, CleanupBuild, DeleteImage, ReleaseBuild, BIn
  <2>q. buildSeen' = buildSeen
    BY <1>6 DEF BuildPass, AwaitProfile, StripBuild, Recheck, ListImages,
                ScheduleImageBuild, pollAction,
                RecordBuild, CleanupBuild, DeleteImage, ReleaseBuild, BLocal, BQuiet, seen
  <2>1. CASE AwaitProfile
    <3>1. wb.t.life # "none"
      BY <2>1, <2>w DEF AwaitProfile, BIn, CopyInv, GoingInv, Going
    <3>2. CopyOK(wb.n, [wb.t EXCEPT !.fin = TRUE], acts', mixed')
      BY <1>k, <2>w, <3>1, CopyWritten
    <3>3. \/ BEnd
          \/ BWrite([wb.t EXCEPT !.fin = TRUE]) /\ wb' = Idle
          \/ \E pc \in {"strip", "recheck", "poll"} : BGo(pc, wb.t)
      BY <2>1 DEF AwaitProfile, ScheduleOrPoll
    <3> QED BY <1>e, <1>g, <1>i, <1>k, <1>w, <2>q, <2>w, <3>2, <3>3 DEF BEnd
  <2>2. CASE StripBuild
    <3>1. CASE build[wb.n].life = "none"
      BY <1>e, <2>2, <2>q, <3>1 DEF StripBuild, BEnd
    <3>2. CASE build[wb.n].life # "none"
      <4> DEFINE stored == [build[wb.n] EXCEPT !.now = FALSE]
      <4>1. build[wb.n] \in ImageBuild
        BY <2>w DEF TypeOK
      <4>2. CopyOK(wb.n, stored, acts', mixed')
        BY <1>k, <2>w, <3>2, <4>1, CopyWritten
      <4>3. /\ build' = [build EXCEPT ![wb.n] = stored]
            /\ wb' = [wb EXCEPT !.pc = ScheduleOrPoll(stored), !.t = stored,
                                !.base = stored]
        BY <2>2, <3>2 DEF StripBuild
      <4> HIDE DEF stored
      <4>4. wb'.n = wb.n /\ wb'.t = stored /\ wb'.base = stored
        BY <2>w, <4>3 DEF BuildWorker
      <4>5. \A n \in Name : CopyOK(n, build'[n], acts', mixed')
        BY <1>k, <2>w, <4>2, <4>3 DEF TypeOK
      <4> QED BY <1>k, <2>q, <4>2, <4>4, <4>5 DEF CopiesInv
    <3> QED BY <3>1, <3>2
  <2>3. CASE Recheck
    <3>2. BEnd \/ BGo("baseline", wb.t)
      BY <2>3 DEF Recheck
    <3> QED BY <1>e, <1>g, <1>k, <2>q, <2>w, <3>2 DEF BEnd
  <2>9. CASE ListImages
    <3>1. wb.t.life # "none"
      BY <2>9, <2>w DEF ListImages, BIn, CopyInv, GoingInv, Going
    <3>2. \A i \in Nat : CopyOK(wb.n, [wb.t EXCEPT !.base = i], acts', mixed')
      BY <1>k, <2>w, <3>1, CopyWritten
    <3>3. \E i \in Nat : BGo("schedule", [wb.t EXCEPT !.base = i])
      BY <2>9, NumberTypes DEF ListImages
    <3> QED BY <1>g, <2>q, <2>w, <3>2, <3>3
  <2>4. CASE ScheduleImageBuild
    <3> DEFINE a == Len(acts) + 1
               t == [wb.t EXCEPT !.action = a, !.bs = "Scheduled"]
    <3>1. wb.t.life # "none" /\ wb.t.fin /\ wb.t.image = 0
      BY <2>4, <2>w DEF ScheduleImageBuild, BIn, CopyInv, GoingInv, Going, CopiesInv, CopyOK
    <3>2. a \in DOMAIN acts' /\ acts'[a].n = wb.n
      BY <2>4, <2>w, ActionAdded, ScheduledActionIs DEF ScheduleImageBuild, ScheduledActionType
    <3>3. BGo("recordNew", t)
      BY <2>4 DEF ScheduleImageBuild
    <3>4. /\ t.action = a /\ t.bs = "Scheduled" /\ t.life = wb.t.life /\ t.fin = wb.t.fin
          /\ t.image = wb.t.image
      BY <2>w DEF ImageBuild
    <3>6. a # 0
      BY ActionTypes
    <3> HIDE DEF t, a
    <3>5. CopyOK(wb.n, t, acts', mixed')
      BY <3>1, <3>2, <3>4, <3>6 DEF CopyOK
    <3> QED BY <1>g, <2>q, <2>w, <3>3, <3>5
  <2>5. CASE pollAction
    <3> DEFINE image == FindImage(wb.t)
               t == [wb.t EXCEPT !.image = image, !.bs = BuildStatus(wb.t, image)]
    <3>1. /\ wb.t.action # 0 /\ wb.t.life # "none"
      BY <2>5, <2>w DEF pollAction, BIn, CopyInv, GoingInv, Going
    <3>2. /\ BGo("record", t) /\ acts' = acts
          /\ mixed' = (mixed \/ image \notin {0, acts[wb.t.action].image})
      BY <2>5 DEF pollAction
    <3>3. /\ BuildStatus(wb.t, image) # ""
          /\ BuildStatus(wb.t, image) = "Succeeded" => acts[wb.t.action].st = "Completed"
      BY DEF BuildStatus
    <3>4. /\ t.action = wb.t.action /\ t.bs = BuildStatus(wb.t, image) /\ t.life = wb.t.life
          /\ t.fin = wb.t.fin /\ t.image = image
      BY <2>w DEF ImageBuild
    <3> HIDE DEF t, image
    <3>5. CopyOK(wb.n, t, acts', mixed')
      BY <1>k, <2>w, <3>1, <3>2, <3>3, <3>4 DEF CopyOK
    <3> QED BY <1>g, <2>q, <2>w, <3>2, <3>5
  <2>6. CASE RecordBuild
    BY <1>i, <1>k, <1>w, <2>6, <2>q, <2>w DEF RecordBuild
  <2>7. CASE CleanupBuild \/ DeleteImage
    <3>1. \E pc : BGo(pc, wb.t)
      BY <2>7 DEF CleanupBuild, DeleteImage
    <3> QED BY <1>g, <1>k, <2>q, <2>w, <3>1
  <2>8. CASE ReleaseBuild
    <3>1. CopyOK(wb.n, NoBuild, acts', mixed')
      BY CopyNew
    <3> QED BY <1>i, <1>w, <2>8, <2>q, <2>w, <3>1 DEF ReleaseBuild
  <2> QED BY <1>6, <2>1, <2>2, <2>3, <2>4, <2>5, <2>6, <2>7, <2>8, <2>9 DEF BuildPass
<1>7. CASE BuildCallFails
  <2>1. wb \in BuildWorker /\ wb # Idle
    BY <1>7, InPass DEF BuildCallFails, BIn
  <2>2. buildSeen' = buildSeen
    BY <1>7 DEF BuildCallFails, BQuiet, seen
  <2> QED BY <1>7, <1>e, <1>i, <1>k, <1>w, <2>1, <2>2 DEF BuildCallFails, BEnd
<1> QED BY <1>1, <1>2, <1>3, <1>4, <1>5, <1>6, <1>7, StepForm


\* What has happened stays so.
LEMMA HistoryGrows ==
    ASSUME TypeOK, [Next]_vars
    PROVE  (revived => revived') /\ (built => built') /\ (mixed => mixed')
           /\ (undone => undone')
<1>1. CASE Outside \/ HostStep \/ BuildSync \/ (\E n \in Name : BeginBuild(n)) \/ Crash
  BY <1>1 DEF Outside, HostStep, BuildSync, BeginBuild, Crash, history
<1>2. CASE RecordBuild
  <2>1. /\ built' = (built \/ (build[wb.n] = wb.base /\ wb.t.bs = "Succeeded"))
        /\ revived' = (revived \/ (build[wb.n] = wb.base /\ wb.base.bs = "Failed"
                                     /\ wb.t.bs = "Succeeded"))
        /\ mixed' = mixed /\ undone' = undone
    BY <1>2 DEF RecordBuild, BQuiet
  <2> QED BY <2>1
<1>3. CASE pollAction
  <2>1. /\ mixed' = (mixed \/ FindImage(wb.t) \notin {0, acts[wb.t.action].image})
        /\ UNCHANGED <<revived, built, undone>>
    BY <1>3 DEF pollAction, BQuiet
  <2> QED BY <2>1
<1>4. CASE \/ AwaitProfile \/ StripBuild \/ Recheck \/ ListImages \/ ScheduleImageBuild
              \/ CleanupBuild \/ DeleteImage
           \/ ReleaseBuild \/ BuildCallFails
  <2>1. UNCHANGED <<revived, built, mixed, undone>>
    BY <1>4 DEF AwaitProfile, StripBuild, Recheck, ListImages, ScheduleImageBuild,
                CleanupBuild, DeleteImage,
                ReleaseBuild, BuildCallFails, BLocal, BQuiet
  <2> QED BY <2>1
<1> QED BY <1>1, <1>2, <1>3, <1>4, StepForm DEF BuildPass

LEMMA SeenStep ==
    ASSUME TypeOK, CopyInv, [Next]_vars
    PROVE  SeenInv'
<1>1. CASE Outside
  BY <1>1, OutsideStored, SeenKept DEF CopyInv, Outside
<1>2. CASE HostStep \/ (\E n \in Name : BeginBuild(n)) \/ Crash
  <2>1. UNCHANGED <<build, buildSeen, revived>>
    BY <1>2 DEF HostStep, BeginBuild, Crash, kube, seen, history
  <2> QED BY <2>1 DEF CopyInv, SeenInv
<1>3. CASE BuildSync
  BY <1>3, KeepsItself DEF SeenInv, BuildSync, kube
<1>4. CASE \/ StripBuild \/ Recheck \/ ListImages \/ ScheduleImageBuild \/ pollAction
              \/ RecordBuild
           \/ CleanupBuild \/ DeleteImage \/ BuildCallFails
  <2>1. buildSeen' = buildSeen
    BY <1>4 DEF StripBuild, Recheck, ListImages, ScheduleImageBuild, pollAction, RecordBuild,
                CleanupBuild, DeleteImage, BuildCallFails, BLocal, BQuiet, seen
  <2> QED BY <1>4, <2>1, HistoryGrows, PassStored, SeenKept DEF CopyInv
<1>5. CASE AwaitProfile \/ ReleaseBuild
  <2>w. /\ wb \in BuildWorker /\ wb # Idle /\ wb.n \in Name
        /\ wb.t \in ImageBuild /\ wb.base \in ImageBuild
        /\ buildSeen' = buildSeen /\ revived' = revived
    BY <1>5, InPass DEF AwaitProfile, ReleaseBuild, BIn, BLocal, BQuiet, seen
  <2>1. CASE build' = build
    BY <2>1, <2>w DEF CopyInv, SeenInv
  <2>2. CASE AwaitProfile /\ build' # build
    <3>1. /\ BWrite([wb.t EXCEPT !.fin = TRUE]) /\ ~wb.t.fin /\ wb.pc = "profile"
      BY <2>2 DEF AwaitProfile, BEnd, BGo, BIn
    <3>2. build[wb.n] = wb.base
      BY <2>2, <3>1 DEF BWrite
    <3>3. /\ ~build[wb.n].fin /\ buildSeen[wb.n].life # "deleting"
      BY <2>w, <3>1, <3>2 DEF CopyInv, GoingInv, Going
    <3>4. ~(buildSeen[wb.n].life = "live" /\ buildSeen[wb.n].fin)
      BY <2>w, <3>3 DEF CopyInv, SeenInv, Keeps
    <3>5. \A n \in Name : n # wb.n => build'[n] = build[n]
      BY <2>w, <3>1, WriteForm
    <3> QED BY <2>w, <3>3, <3>4, <3>5 DEF CopyInv, SeenInv
  <2>3. CASE ReleaseBuild /\ build' # build
    <3>1. BWrite(NoBuild) /\ wb.pc = "release"
      BY <2>3 DEF ReleaseBuild, BIn
    <3>2. build'[wb.n] = NoBuild
      BY <2>3, <2>w, <3>1, WriteForm DEF BWrite
    <3>3. ~(buildSeen[wb.n].life = "live" /\ buildSeen[wb.n].fin)
      BY <2>w, <3>1 DEF CopyInv, RemovingInv, Removing
    <3>4. ~build'[wb.n].fin
      BY <3>2, CopyNew
    <3>5. \A n \in Name : n # wb.n => build'[n] = build[n]
      BY <2>w, <3>1, WriteForm
    <3> QED BY <2>w, <3>3, <3>4, <3>5 DEF CopyInv, SeenInv
  <2> QED BY <1>5, <2>1, <2>2, <2>3
<1> QED BY <1>1, <1>2, <1>3, <1>4, <1>5, StepForm DEF BuildPass

\* What a pass that goes on knows of the stored ImageBuild.
LEMMA BaseKept ==
    ASSUME TypeOK, CopyInv, [Next]_vars, StoredKept, NEW x, x.fin,
           wb # Idle, Keeps(x, build[wb.n], revived)
    PROVE  Keeps(x, build'[wb.n], revived')
<1>1. wb.n \in Name
  BY InPass
<1>2. build[wb.n].fin
  BY DEF Keeps
<1>3. Keeps(build[wb.n], build'[wb.n], revived')
  BY <1>1, <1>2 DEF StoredKept
<1> QED BY <1>3, HistoryGrows, KeepsOn

\* The pass that removes an ImageBuild.
LEMMA RemovingStep ==
    ASSUME TypeOK, CopyInv, [Next]_vars
    PROVE  RemovingInv'
<1>k. ASSUME StoredKept, Removing
      PROVE  build'[wb.n].fin => Keeps(wb.base, build'[wb.n], revived')
  <2>1. /\ wb # Idle /\ wb.n \in Name /\ wb.base.life = "deleting"
        /\ CopyOK(wb.n, wb.base, acts, mixed)
        /\ build[wb.n].fin => Keeps(wb.base, build[wb.n], revived)
    BY <1>k, InPass DEF Removing, CopyInv, RemovingInv, CopiesInv
  <2>2. wb.base.fin
    BY <2>1 DEF CopyOK
  <2>3. build'[wb.n].fin => build[wb.n].fin
    BY <1>k, <2>1 DEF StoredKept
  <2> QED BY <1>k, <2>1, <2>2, <2>3, BaseKept
<1>1. CASE wb' = wb /\ buildSeen' = buildSeen /\ StoredKept
  BY <1>1, <1>k DEF CopyInv, RemovingInv, Removing
<1>o. CASE Outside
  BY <1>1, <1>o, OutsideStored DEF Outside, CopyInv
<1>h. CASE HostStep
  BY <1>1, <1>h, KeepsItself DEF HostStep, StoredKept
<1>2. CASE BuildSync
  <2>1. UNCHANGED <<build, wb, revived>> /\ buildSeen' = build
    BY <1>2 DEF BuildSync, kube, history
  <2>2. Removing => ~(build[wb.n].life = "live" /\ build[wb.n].fin)
    <3>1. Removing /\ build[wb.n].fin => build[wb.n].life = "deleting"
      BY DEF CopyInv, RemovingInv, Keeps
    <3> QED BY <3>1
  <2> QED BY <2>1, <2>2 DEF CopyInv, RemovingInv, Removing
<1>3. ASSUME NEW n \in Name, BeginBuild(n) PROVE RemovingInv'
  <2>1. /\ wb'.n = n /\ wb'.t = buildSeen[n] /\ wb'.base = buildSeen[n]
        /\ wb'.pc = IF buildSeen[n].life = "deleting" THEN "cleanup" ELSE "profile"
        /\ UNCHANGED <<build, buildSeen, revived>>
    BY <1>3 DEF BeginBuild, kube, seen, history
  <2>2. buildSeen[n].life = "deleting" /\ build[n].fin
            => Keeps(buildSeen[n], build[n], revived)
    BY DEF CopyInv, SeenInv
  <2> QED BY <2>1, <2>2 DEF RemovingInv, Removing
<1>4. CASE Crash
  BY <1>4 DEF Crash, RemovingInv, Removing
<1>5. CASE BuildPass \/ BuildCallFails
  <2>w. wb \in BuildWorker /\ wb # Idle /\ wb.n \in Name
    BY <1>5, InPass DEF BuildPass, AwaitProfile, StripBuild, Recheck, ListImages,
                        ScheduleImageBuild, pollAction, RecordBuild, CleanupBuild, DeleteImage, ReleaseBuild,
                        BuildCallFails, BIn
  <2>1. CASE CleanupBuild \/ DeleteImage
    <3>1. /\ wb'.n = wb.n /\ wb'.t = wb.t /\ wb'.base = wb.base
          /\ wb'.pc \in {"unimage", "release"} /\ buildSeen' = buildSeen /\ build' = build
          /\ wb.pc \in {"cleanup", "unimage"}
      BY <2>1, <2>w DEF CleanupBuild, DeleteImage, BGo, BIn, BQuiet, seen, BuildWorker
    <3>2. Removing /\ StoredKept
      BY <2>w, <2>1, <3>1, PassStored DEF Removing
    <3> QED BY <1>k, <3>1, <3>2 DEF CopyInv, RemovingInv, Removing
  <2>2. CASE ~CleanupBuild /\ ~DeleteImage
    <3>1. \A pc, t : BGo(pc, t) => wb'.pc = pc
      BY <2>w DEF BGo, BuildWorker
    <3>2. CASE StripBuild
      <4>1. BEnd \/ wb'.pc \in {"recheck", "poll"}
        BY <2>w, <3>2 DEF StripBuild, ScheduleOrPoll, BuildWorker
      <4> QED BY <4>1 DEF BEnd, RemovingInv, Removing
    <3>3. CASE \/ AwaitProfile \/ Recheck \/ ListImages \/ ScheduleImageBuild \/ pollAction
               \/ RecordBuild \/ ReleaseBuild \/ BuildCallFails
      <4>1. \/ wb' = Idle
            \/ \E pc \in {"strip", "recheck", "baseline", "schedule", "recordNew",
                           "poll", "record"} :
                  \E t : BGo(pc, t)
        BY <3>3 DEF AwaitProfile, Recheck, ListImages, ScheduleImageBuild, pollAction,
                    RecordBuild,
                    ReleaseBuild, BuildCallFails, BEnd, ScheduleOrPoll
      <4> QED BY <3>1, <4>1 DEF RemovingInv, Removing
    <3> QED BY <1>5, <2>2, <3>2, <3>3 DEF BuildPass
  <2> QED BY <2>1, <2>2
<1> QED BY <1>o, <1>h, <1>2, <1>3, <1>4, <1>5, StepForm


\* A pass that goes on, while others act.
LEMMA GoingAside ==
    ASSUME TypeOK, CopyInv, [Next]_vars, StoredKept, wb' = wb,
           \A n \in Name : build'[n].action = build[n].action,
           buildSeen' \in {buildSeen, build}, old \subseteq old', cut \subseteq cut'
    PROVE  GoingInv'
<1> SUFFICES ASSUME Going PROVE GoingInv'
  BY DEF GoingInv, Going
<1>1. /\ wb # Idle /\ wb.n \in Name
      /\ CopyOK(wb.n, wb.t, acts, mixed) /\ CopyOK(wb.n, build[wb.n], acts, mixed)
  BY InPass DEF Going, CopyInv, CopiesInv
<1>2. wb.base.fin => Keeps(wb.base, build'[wb.n], revived')
  BY <1>1, BaseKept DEF CopyInv, GoingInv
<1>3. build[wb.n].fin => build'[wb.n].fin
  BY <1>1 DEF StoredKept, Keeps
<1>4. ASSUME wb.pc = "profile", ~wb.base.fin, buildSeen'[wb.n].life = "deleting"
      PROVE  build'[wb.n].fin
  <2>1. CASE buildSeen' = buildSeen
    BY <1>3, <1>4, <2>1 DEF CopyInv, GoingInv
  <2>2. CASE buildSeen' = build
    BY <1>1, <1>3, <1>4, <2>2 DEF CopyOK
  <2> QED BY <2>1, <2>2
<1>5. wb.t.action # 0 => /\ acts'[wb.t.action].born = acts[wb.t.action].born
                         /\ Ended(wb.t.action) => Ended(wb.t.action)'
  BY <1>1, ActsKeptStep DEF CopyOK, ActsKept, Ended
<1>6. wb.pc = "record" =>
         /\ wb.base.bs = "Failed" => wb.t.bs \in {"Failed", "Succeeded"} \/ revived'
         /\ wb.t.bs = "Failed" => Ended(wb.t.action)' \/ wb.n \in old'
         /\ wb.t.action # 0
  BY <1>5, HistoryGrows DEF CopyInv, GoingInv
<1>7. wb.pc \in {"baseline", "schedule", "recordNew"} =>
          build'[wb.n].action \in {0} \cup cut'
  BY <1>1 DEF CopyInv, GoingInv
<1>8. wb.pc = "recordNew" => /\ wb.t.action # 0 /\ wb.t.bs = "Scheduled"
                             /\ acts'[wb.t.action].born = wb.t.born
  BY <1>5 DEF CopyInv, GoingInv
<1>9. wb'.n = wb.n /\ wb'.t = wb.t /\ wb'.base = wb.base /\ wb'.pc = wb.pc
  OBVIOUS
<1>10. GoingInv
  BY DEF CopyInv
<1>11. /\ wb.pc = "record" =>
            /\ wb.base.bs = "Succeeded" => wb.t.bs = "Succeeded"
            /\ wb.base.bs = "Failed" => wb.t.bs \in {"Failed", "Succeeded"} \/ revived'
            /\ wb.t.bs = "Failed" => Ended(wb.t.action)' \/ wb.n \in old'
  BY <1>6, <1>10 DEF GoingInv
<1> QED BY <1>2, <1>4, <1>7, <1>8, <1>9, <1>10, <1>11 DEF GoingInv, Ended

\* A step of a pass that goes on with its base.
LEMMA GoingOn ==
    ASSUME TypeOK, CopyInv, wb # Idle, wb \in BuildWorker, NEW pc, NEW t, BGo(pc, t),
           buildSeen' = buildSeen, revived' = revived,
           wb.pc \notin {"cleanup", "unimage", "release"}, wb.base.fin,
           t.life = wb.t.life, t.fin = wb.t.fin, t.born = wb.t.born,
           pc \in {"strip", "recheck", "baseline", "schedule", "recordNew", "poll", "record"},
           pc \in {"strip", "poll"} => t = wb.base,
           pc \in {"recheck", "baseline", "schedule"} => t.action = 0,
           pc \in {"recheck", "baseline", "schedule", "recordNew"} => wb.base.action = 0,
           pc \in {"baseline", "schedule", "recordNew"} =>
               build[wb.n].action \in {0} \cup cut',
           pc = "recordNew" => /\ t.action # 0 /\ t.bs = "Scheduled"
                               /\ acts'[t.action].born = t.born,
           pc \in {"poll", "record"} => t.action = wb.base.action /\ t.action # 0,
           pc = "record" =>
               /\ wb.base.bs = "Succeeded" => t.bs = "Succeeded"
               /\ wb.base.bs = "Failed" => t.bs \in {"Failed", "Succeeded"} \/ revived
               /\ t.bs = "Failed" => \/ acts'[t.action].st \in {"Completed", "Failed"}
                                    \/ wb.n \in old'
    PROVE  GoingInv'
<1>1. /\ wb'.n = wb.n /\ wb'.t = t /\ wb'.base = wb.base /\ wb'.pc = pc
      /\ build' = build
  BY DEF BGo, BuildWorker
<1>2. /\ wb.base.life # "none" /\ t.life = wb.base.life /\ t.fin = wb.base.fin
      /\ t.born = wb.base.born /\ Keeps(wb.base, build[wb.n], revived)
  BY DEF CopyInv, GoingInv, Going
<1> QED BY <1>1, <1>2 DEF GoingInv, Ended


LEMMA GoingStep ==
    ASSUME TypeOK, CopyInv, [Next]_vars
    PROVE  GoingInv'
<1>e. wb' = Idle => GoingInv'
  BY DEF GoingInv, Going
<1>1. CASE Outside
  BY <1>1, OutsideStored, GoingAside DEF CopyInv, Outside
<1>2. CASE HostStep
  <2>1. StoredKept
    BY <1>2, KeepsItself DEF HostStep, StoredKept
  <2> QED BY <1>2, <2>1, GoingAside DEF HostStep
<1>3. CASE BuildSync
  <2>1. StoredKept
    BY <1>3, KeepsItself DEF BuildSync, StoredKept, kube
  <2> QED BY <1>3, <2>1, GoingAside DEF BuildSync, kube, history
<1>4. ASSUME NEW n \in Name, BeginBuild(n) PROVE GoingInv'
  <2>1. /\ wb'.n = n /\ wb'.t = buildSeen[n] /\ wb'.base = buildSeen[n]
        /\ wb'.pc = IF buildSeen[n].life = "deleting" THEN "cleanup" ELSE "profile"
        /\ UNCHANGED <<build, buildSeen, revived>> /\ buildSeen[n].life # "none"
        /\ buildSeen[n] \in ImageBuild
    BY <1>4 DEF BeginBuild, kube, seen, history, TypeOK
  <2>2. CASE buildSeen[n].life = "deleting"
    BY <2>1, <2>2 DEF GoingInv, Going
  <2>3. CASE buildSeen[n].life = "live"
    <3>1. buildSeen[n].fin => Keeps(buildSeen[n], build[n], revived)
      BY <2>3 DEF CopyInv, SeenInv
    <3>2. wb'.pc = "profile"
      BY <2>1, <2>3
    <3> QED BY <2>1, <2>3, <3>1, <3>2 DEF GoingInv, Going
  <2> QED BY <2>1, <2>2, <2>3 DEF ImageBuild
<1>5. CASE Crash
  BY <1>5, <1>e DEF Crash
<1>6. CASE BuildPass
  <2>w. /\ wb \in BuildWorker /\ wb # Idle /\ wb.n \in Name
        /\ wb.t \in ImageBuild /\ wb.base \in ImageBuild
        /\ CopyOK(wb.n, wb.t, acts, mixed)
    BY <1>6, InPass DEF BuildPass, AwaitProfile, StripBuild, Recheck, ListImages,
                        ScheduleImageBuild, pollAction, RecordBuild, CleanupBuild, DeleteImage, ReleaseBuild, BIn,
                        CopyInv, CopiesInv
  <2>q. buildSeen' = buildSeen
    BY <1>6 DEF BuildPass, AwaitProfile, StripBuild, Recheck, ListImages,
                ScheduleImageBuild, pollAction,
                RecordBuild, CleanupBuild, DeleteImage, ReleaseBuild, BLocal, BQuiet, seen
  <2>1. CASE AwaitProfile
    <3>1. CASE wb' = Idle
      BY <1>e, <3>1
    <3>2. CASE wb' # Idle
      <4>1. /\ wb.pc = "profile" /\ wb.t = wb.base /\ wb.t.fin /\ revived' = revived
        BY <2>1, <2>w, <3>2
           DEF AwaitProfile, BEnd, BIn, BLocal, CopyInv, GoingInv, Going
      <4>2. PICK pc \in {"strip", "recheck", "poll"} :
               /\ BGo(pc, wb.t)
               /\ pc = "recheck" => wb.t.action = 0
               /\ pc = "poll" => wb.t.action # 0
        BY <2>1, <3>2 DEF AwaitProfile, BEnd, ScheduleOrPoll
      <4> QED BY <2>q, <2>w, <4>1, <4>2, GoingOn
    <3> QED BY <3>1, <3>2
  <2>2. CASE StripBuild
    <3>1. CASE wb' = Idle
      BY <1>e, <3>1
    <3>2. CASE wb' # Idle
      <4> DEFINE stored == [build[wb.n] EXCEPT !.now = FALSE]
      <4>1. /\ build' = [build EXCEPT ![wb.n] = stored] /\ build[wb.n].life # "none"
            /\ wb' = [wb EXCEPT !.pc = ScheduleOrPoll(stored), !.t = stored,
                                !.base = stored]
        BY <2>2, <3>2 DEF StripBuild, BEnd
      <4>2. build[wb.n] \in ImageBuild
        BY <2>w DEF TypeOK
      <4>3. build[wb.n].fin
        BY <2>2, <2>w DEF StripBuild, BIn, CopyInv, GoingInv, Going, Keeps
      <4>4. /\ stored.life # "none" /\ stored.fin
        BY <4>1, <4>2, <4>3 DEF ImageBuild
      <4> HIDE DEF stored
      <4>5. /\ wb'.n = wb.n /\ wb'.t = stored /\ wb'.base = stored
            /\ wb'.pc = ScheduleOrPoll(stored) /\ build'[wb.n] = stored
        BY <2>w, <4>1 DEF BuildWorker, TypeOK
      <4>6. Keeps(stored, stored, revived')
        BY <4>4, KeepsItself
      <4>7. \/ wb'.pc = "recheck" /\ stored.action = 0
            \/ wb'.pc = "poll" /\ stored.action # 0
        BY <4>5 DEF ScheduleOrPoll
      <4> QED BY <4>4, <4>5, <4>6, <4>7 DEF GoingInv
    <3> QED BY <3>1, <3>2
  <2>3. CASE Recheck
    <3>1. CASE wb' = Idle
      BY <1>e, <3>1
    <3>2. CASE wb' # Idle
      <4>1. BGo("baseline", wb.t) /\ build[wb.n].action \in {0} \cup cut'
        BY <2>3, <3>2 DEF Recheck, BEnd, AlreadyScheduled
      <4>2. /\ wb.pc = "recheck" /\ wb.base.fin /\ wb.t.action = 0 /\ wb.base.action = 0
            /\ revived' = revived
        BY <2>3, <2>w DEF Recheck, BIn, CopyInv, GoingInv, Going
      <4> QED BY <2>q, <2>w, <4>1, <4>2, GoingOn
    <3> QED BY <3>1, <3>2
  <2>8. CASE ListImages
    <3>1. PICK i : BGo("schedule", [wb.t EXCEPT !.base = i])
      BY <2>8 DEF ListImages
    <3>2. /\ wb.pc = "baseline" /\ wb.base.fin /\ wb.t.action = 0 /\ wb.base.action = 0
          /\ build[wb.n].action \in {0} \cup cut' /\ revived' = revived
      BY <2>8, <2>w DEF ListImages, BIn, CopyInv, GoingInv, Going
    <3> DEFINE t == [wb.t EXCEPT !.base = i]
    <3>3. t.life = wb.t.life /\ t.fin = wb.t.fin /\ t.born = wb.t.born /\ t.action = 0
      BY <2>w, <3>2 DEF ImageBuild
    <3> HIDE DEF t
    <3>4. BGo("schedule", t)
      BY <3>1 DEF t
    <3> QED BY <2>q, <2>w, <3>2, <3>3, <3>4, GoingOn
  <2>4. CASE ScheduleImageBuild
    <3> DEFINE a == Len(acts) + 1
               t == [wb.t EXCEPT !.action = a, !.bs = "Scheduled"]
    <3>1. /\ wb.pc = "schedule" /\ wb.base.fin /\ wb.base.action = 0
          /\ build[wb.n].action \in {0} \cup cut' /\ revived' = revived
      BY <2>4, <2>w DEF ScheduleImageBuild, BIn, CopyInv, GoingInv, Going
    <3>2. acts'[a].born = wb.t.born
      BY <2>4, <2>w, ActionAdded, ScheduledActionIs DEF ScheduleImageBuild, ScheduledActionType
    <3>3. BGo("recordNew", t)
      BY <2>4 DEF ScheduleImageBuild
    <3>4. a # 0
      BY ActionTypes
    <3>5. /\ t.life = wb.t.life /\ t.fin = wb.t.fin /\ t.born = wb.t.born
          /\ t.action = a /\ t.bs = "Scheduled"
      BY <2>w DEF ImageBuild
    <3> HIDE DEF t, a
    <3> QED BY <2>q, <2>w, <3>1, <3>2, <3>3, <3>4, <3>5, GoingOn
  <2>5. CASE pollAction
    <3> DEFINE image == FindImage(wb.t)
               s == BuildStatus(wb.t, image)
               t == [wb.t EXCEPT !.image = image, !.bs = s]
    <3>1. /\ wb.pc = "poll" /\ wb.t = wb.base /\ wb.t.action # 0
          /\ wb.base.fin /\ revived' = revived /\ acts' = acts /\ old' = old
          /\ Keeps(wb.base, build[wb.n], revived)
      BY <2>5, <2>w DEF pollAction, BIn, CopyInv, GoingInv, Going
    <3>2. wb.t.bs = "Succeeded" => s = "Succeeded"
      BY <2>w, <3>1 DEF BuildStatus, CopyOK
    <3>3. wb.t.bs = "Failed" => Ended(wb.t.action) \/ wb.n \in old \/ revived
      <4>1. wb.t.bs = "Failed" => build[wb.n].bs = "Failed" \/ revived
        BY <3>1 DEF Keeps
      <4>2. build[wb.n].action = wb.t.action
        BY <3>1 DEF Keeps
      <4> QED BY <2>w, <4>1, <4>2 DEF CopyInv, LateInv
    <3>4. wb.t.bs = "Failed" => s \in {"Failed", "Succeeded"} \/ revived
      BY <3>3 DEF BuildStatus, Ended
    <3>5. s = "Failed" => Ended(wb.t.action) \/ wb.n \in old
      BY DEF BuildStatus, Ended
    <3>6. BGo("record", t)
      BY <2>5 DEF pollAction
    <3>7. /\ t.life = wb.t.life /\ t.fin = wb.t.fin /\ t.born = wb.t.born
          /\ t.action = wb.t.action /\ t.bs = s
      BY <2>w DEF ImageBuild
    <3> HIDE DEF t, s, image
    <3>8. t.bs = "Failed" => \/ acts'[t.action].st \in {"Completed", "Failed"}
                             \/ wb.n \in old'
      BY <3>1, <3>5, <3>7 DEF Ended
    <3> QED BY <2>q, <2>w, <3>1, <3>2, <3>4, <3>6, <3>7, <3>8, GoingOn
  <2>6. CASE RecordBuild \/ ReleaseBuild
    BY <1>e, <2>6 DEF RecordBuild, ReleaseBuild
  <2>7. CASE CleanupBuild \/ DeleteImage
    <3>1. wb'.pc \in {"unimage", "release"}
      BY <2>7, <2>w DEF CleanupBuild, DeleteImage, BGo, BuildWorker
    <3> QED BY <3>1 DEF GoingInv, Going
  <2> QED BY <1>6, <2>1, <2>2, <2>3, <2>4, <2>5, <2>6, <2>7, <2>8 DEF BuildPass
<1>7. CASE BuildCallFails
  BY <1>7, <1>e DEF BuildCallFails, BEnd
<1> QED BY <1>1, <1>2, <1>3, <1>4, <1>5, <1>6, <1>7, StepForm


LEMMA LateStep ==
    ASSUME TypeOK, CopyInv, [Next]_vars
    PROVE  LateInv'
<1>k. ASSUME NEW n \in Name, build'[n].bs = build[n].bs, build'[n].action = build[n].action,
             n \in old => n \in old', build[n].bs = "Failed"
      PROVE  acts'[build'[n].action].st \in {"Completed", "Failed"} \/ n \in old'
  <2>1. build[n].action \in DOMAIN acts /\ (Ended(build[n].action) \/ n \in old)
    BY <1>k DEF CopyInv, CopiesInv, CopyOK, LateInv
  <2> QED BY <1>k, <2>1, ActsKeptStep DEF ActsKept, Ended
<1>a. ASSUME \A n \in Name : build'[n].bs = build[n].bs /\ build'[n].action = build[n].action,
             old \subseteq old'
      PROVE  LateInv'
  BY <1>a, <1>k DEF LateInv, Ended
<1>w. ASSUME wb \in BuildWorker, NEW t, BWrite(t),
             \/ old' = old
             \/ old' = old \ {wb.n} /\ build[wb.n] = wb.base /\ t.bs # "Failed",
             build[wb.n] = wb.base /\ t.bs = "Failed"
                 => acts'[t.action].st \in {"Completed", "Failed"} \/ wb.n \in old
      PROVE  LateInv'
  <2>1. ASSUME NEW n \in Name, build'[n].bs = "Failed"
        PROVE  acts'[build'[n].action].st \in {"Completed", "Failed"} \/ n \in old'
    <3>1. CASE build'[n] = build[n]
      <4>1. build'[n].bs = build[n].bs /\ build'[n].action = build[n].action
        BY <3>1
      <4>2. n \in old => n \in old'
        <5>1. CASE old' = old
          BY <5>1
        <5>2. CASE n = wb.n /\ build[wb.n] = wb.base /\ t.bs # "Failed"
          <6>1. build' = [build EXCEPT ![wb.n] = t] /\ wb.n \in DOMAIN build
            BY <1>w, <5>2 DEF BWrite, TypeOK
          <6> QED BY <2>1, <5>2, <6>1
        <5>3. CASE n # wb.n /\ old' = old \ {wb.n}
          BY <5>3
        <5> QED BY <1>w, <5>1, <5>2, <5>3
      <4> QED BY <1>k, <2>1, <4>1, <4>2
    <3>2. CASE n = wb.n /\ build[n] = wb.base /\ build'[n] = t
      BY <1>w, <2>1, <3>2 DEF Ended
    <3> QED BY <1>w, <3>1, <3>2, WriteForm
  <2> QED BY <2>1 DEF LateInv, Ended
<1>1. CASE Outside
  BY <1>1, <1>a, OutsideStored DEF CopyInv, Outside
<1>2. CASE HostStep \/ BuildSync \/ (\E n \in Name : BeginBuild(n)) \/ Crash
  <2>1. build' = build /\ old \subseteq old'
    BY <1>2 DEF HostStep, BuildSync, BeginBuild, Crash, kube
  <2> QED BY <1>a, <2>1
<1>3. CASE BuildPass \/ BuildCallFails
  <2>w. /\ wb \in BuildWorker /\ wb # Idle /\ wb.n \in Name
        /\ wb.t \in ImageBuild /\ wb.base \in ImageBuild
        /\ CopyOK(wb.n, wb.t, acts, mixed)
    BY <1>3, InPass DEF BuildPass, AwaitProfile, StripBuild, Recheck, ListImages,
                        ScheduleImageBuild, pollAction, RecordBuild, CleanupBuild, DeleteImage, ReleaseBuild,
                        BuildCallFails,
                        BIn, CopyInv, CopiesInv
  <2>1. CASE AwaitProfile
    <3>1. CASE build' = build
      BY <1>a, <2>1, <3>1 DEF AwaitProfile, BLocal
    <3>2. CASE build' # build
      <4> DEFINE t == [wb.t EXCEPT !.fin = TRUE]
      <4>1. /\ BWrite(t) /\ wb.t = wb.base /\ old' = old /\ acts' = acts
        BY <2>1, <2>w, <3>2
           DEF AwaitProfile, BEnd, BGo, BIn, BLocal, CopyInv, GoingInv, Going
      <4>2. t.bs = wb.t.bs /\ t.action = wb.t.action
        BY <2>w DEF ImageBuild
      <4> HIDE DEF t
      <4>3. build[wb.n] = wb.base /\ wb.base.bs = "Failed"
                => Ended(wb.base.action) \/ wb.n \in old
        BY <2>w DEF CopyInv, LateInv
      <4> QED BY <1>w, <2>w, <4>1, <4>2, <4>3 DEF Ended
    <3> QED BY <3>1, <3>2
  <2>2. CASE StripBuild
    <3>1. CASE build' = build
      BY <1>a, <2>2, <3>1 DEF StripBuild, BLocal
    <3>2. CASE build' # build
      <4>1. build' = [build EXCEPT ![wb.n] = [build[wb.n] EXCEPT !.now = FALSE]]
            /\ old' = old
        BY <2>2, <3>2 DEF StripBuild, BEnd, BLocal
      <4>2. build[wb.n] \in ImageBuild
        BY <2>w DEF TypeOK
      <4>3. /\ [build[wb.n] EXCEPT !.now = FALSE].bs = build[wb.n].bs
            /\ [build[wb.n] EXCEPT !.now = FALSE].action = build[wb.n].action
        BY <4>2 DEF ImageBuild
      <4>4. \A n \in Name : build'[n].bs = build[n].bs /\ build'[n].action = build[n].action
        BY <2>w, <4>1, <4>3 DEF TypeOK
      <4> QED BY <1>a, <4>1, <4>4
    <3> QED BY <3>1, <3>2
  <2>3. CASE Recheck \/ ListImages \/ pollAction \/ CleanupBuild \/ DeleteImage
    BY <1>a, <2>3 DEF Recheck, ListImages, pollAction, CleanupBuild, DeleteImage, BGo, BEnd
  <2>4. CASE ScheduleImageBuild
    BY <1>a, <2>4 DEF ScheduleImageBuild, BGo
  <2>5. CASE RecordBuild
    <3>1. BWrite(wb.t) /\ acts' = acts
      BY <2>5 DEF RecordBuild
    <3>3. wb.pc = "recordNew" => wb.t.bs = "Scheduled"
      BY <2>w DEF CopyInv, GoingInv, Going
    <3>4. \/ old' = old
          \/ old' = old \ {wb.n} /\ build[wb.n] = wb.base /\ wb.t.bs # "Failed"
      BY <2>5, <3>3 DEF RecordBuild, BIn
    <3>2. wb.t.bs = "Failed" => Ended(wb.t.action) \/ wb.n \in old
      BY <2>5, <2>w DEF RecordBuild, BIn, CopyInv, GoingInv, Going
    <3> QED BY <1>w, <2>w, <3>1, <3>2, <3>4 DEF Ended
  <2>6. CASE ReleaseBuild
    <3>1. BWrite(NoBuild) /\ old' = old
      BY <2>6 DEF ReleaseBuild, BLocal
    <3>2. NoBuild.bs # "Failed"
      BY DEF NoBuild
    <3> QED BY <1>w, <2>w, <3>1, <3>2
  <2>7. CASE BuildCallFails
    <3>1. CASE build' = build
      BY <1>a, <2>7, <3>1 DEF BuildCallFails
    <3>2. CASE build' # build
      <4>1. BWrite(wb.t) /\ wb.pc = "schedule" /\ old' = old
        BY <2>7, <3>2 DEF BuildCallFails, BEnd, BIn
      <4>2. wb.t.bs = ""
        BY <2>w, <4>1 DEF CopyInv, GoingInv, Going, CopyOK
      <4> QED BY <1>w, <2>w, <4>1, <4>2
    <3> QED BY <3>1, <3>2
  <2> QED BY <1>3, <2>1, <2>2, <2>3, <2>4, <2>5, <2>6, <2>7 DEF BuildPass
<1> QED BY <1>1, <1>2, <1>3, StepForm

LEMMA InitCopies == Init => CopyInv
<1> SUFFICES ASSUME Init PROVE CopyInv
  OBVIOUS
<1>1. TypeOK /\ build = [n \in Name |-> NoBuild] /\ buildSeen = build /\ wb = Idle
  BY InitTypes DEF Init
<1>2. \A n \in Name : CopyOK(n, NoBuild, acts, mixed)
  BY <1>1, CopyNew
<1>3. NoBuild.life = "none" /\ NoBuild.bs = ""
  BY DEF NoBuild
<1> QED BY <1>1, <1>2, <1>3
        DEF CopyInv, CopiesInv, SeenInv, RemovingInv, Removing, GoingInv, Going, LateInv

LEMMA CopyStep == TypeOK /\ CopyInv /\ [Next]_vars => CopyInv'
BY CopiesStep, SeenStep, RemovingStep, GoingStep, LateStep DEF CopyInv

\* Every copy of an ImageBuild, in the API server, in the informer and in a
\* pass, is what the controller made of it, and the stored one keeps what an
\* older copy had.
THEOREM ImagesCopies == Spec => []CopyInv
<1>1. TypeOK /\ CopyInv /\ [Next]_vars => CopyInv'
  BY CopyStep
<1> QED BY <1>1, InitCopies, ImagesTypeOK, PTL DEF Spec


----------------------------------------------------------------------------
(* An ImageBuild is scheduled once.                                        *)

\* An action whose id was neither lost nor hidden is that of the ImageBuild it was made
\* for, or is about to be recorded; and there is one for each.
ActionsInv ==
    /\ \A a \in DOMAIN acts \ cut :
           build[acts[a].n].life # "none" /\ build[acts[a].n].born = acts[a].born
           => \/ build[acts[a].n].action = a
              \/ wb.pc = "recordNew" /\ wb.t.action = a
    /\ \A a, b \in DOMAIN acts \ cut :
           acts[a].n = acts[b].n /\ acts[a].born = acts[b].born => a = b

\* An ImageBuild that is there after a step was there before with its action,
\* or is younger than every action.
SameOrNew(n) ==
    build'[n].life # "none" =>
        \/ /\ build[n].life # "none" /\ build'[n].born = build[n].born
           /\ build'[n].action = build[n].action
        \/ \A a \in DOMAIN acts : acts[a].born # build'[n].born

LEMMA ActionsKept ==
    ASSUME TypeOK, ActionsInv, [Next]_vars,
           DOMAIN acts' \ cut' \subseteq DOMAIN acts \ cut,
           \A n \in Name : SameOrNew(n),
           wb.pc = "recordNew" /\ wb.t.action \notin cut'
               => wb'.pc = "recordNew" /\ wb'.t.action = wb.t.action
    PROVE  ActionsInv'
<1>1. \A a \in DOMAIN acts : acts'[a].n = acts[a].n /\ acts'[a].born = acts[a].born
  BY ActsKeptStep DEF ActsKept
<1>2. \A a \in DOMAIN acts : acts[a].n \in Name
  BY ActionTypes DEF BuildAction
<1>3. ASSUME NEW a \in DOMAIN acts' \ cut',
             build'[acts'[a].n].life # "none", build'[acts'[a].n].born = acts'[a].born
      PROVE  build'[acts'[a].n].action = a \/ (wb'.pc = "recordNew" /\ wb'.t.action = a)
  <2>1. a \in DOMAIN acts \ cut /\ acts[a].n \in Name
    BY <1>2
  <2>2. build'[acts[a].n].life # "none" /\ build'[acts[a].n].born = acts[a].born
    BY <1>1, <1>3, <2>1
  <2>3. /\ build[acts[a].n].life # "none" /\ build'[acts[a].n].born = build[acts[a].n].born
        /\ build'[acts[a].n].action = build[acts[a].n].action
    BY <2>1, <2>2 DEF SameOrNew
  <2>4. build[acts[a].n].action = a \/ (wb.pc = "recordNew" /\ wb.t.action = a)
    BY <2>1, <2>2, <2>3 DEF ActionsInv
  <2> QED BY <1>1, <1>3, <2>1, <2>3, <2>4
<1>4. \A a, b \in DOMAIN acts' \ cut' :
         acts'[a].n = acts'[b].n /\ acts'[a].born = acts'[b].born => a = b
  BY <1>1 DEF ActionsInv
<1> QED BY <1>3, <1>4 DEF ActionsInv

LEMMA SameIsSame ==
    ASSUME TypeOK
    PROVE  /\ build' = build => \A n \in Name : SameOrNew(n)
           /\ \A n \in Name : build'[n] = build[n] => SameOrNew(n)
BY DEF SameOrNew

\* A pass ends with a write that changes neither.
LEMMA WriteIsSame ==
    ASSUME TypeOK, wb \in BuildWorker, NEW t, BWrite(t),
           t.life = "none" \/ (/\ wb.base.life # "none" /\ t.born = wb.base.born
                               /\ t.action = wb.base.action)
    PROVE  \A n \in Name : SameOrNew(n)
BY WriteForm, SameIsSame DEF SameOrNew

LEMMA OutsideIsSame ==
    ASSUME TypeOK, Outside
    PROVE  \A n \in Name : SameOrNew(n)
<1> SUFFICES ASSUME NEW n \in Name PROVE SameOrNew(n)
  OBVIOUS
<1>1. build[n] \in ImageBuild /\ ChangedOutside(n)
  BY DEF TypeOK, Outside
<1>2. CASE build'[n] = build[n]
  BY <1>2, SameIsSame
<1>3. CASE build[n].life = "live" /\ build'[n] = [build[n] EXCEPT !.now = TRUE]
  <2>1. build'[n].born = build[n].born /\ build'[n].action = build[n].action
    BY <1>1, <1>3 DEF ImageBuild
  <2> QED BY <1>3, <2>1 DEF SameOrNew
<1>4. CASE build[n].life = "live" /\ build'[n] = Deleted(build[n])
  <2>1. CASE build[n].fin
    <3>1. build'[n].born = build[n].born /\ build'[n].action = build[n].action
      BY <1>1, <1>4, <2>1 DEF ImageBuild, Deleted
    <3> QED BY <1>4, <3>1 DEF SameOrNew
  <2>2. CASE ~build[n].fin
    <3>1. build'[n] = NoBuild /\ NoBuild.life = "none"
      BY <1>4, <2>2 DEF Deleted, NoBuild
    <3>2. build'[n].life = "none"
      BY <3>1
    <3> QED BY <3>2 DEF SameOrNew
  <2> QED BY <2>1, <2>2
<1>5. CASE build[n].life = "none" /\ build'[n] = Created(wp.t)
  <2>1. \A a \in DOMAIN acts : acts[a].born < Created(wp.t).born /\ acts[a].born \in Nat
    BY CreatedIsNew, ActionTypes DEF BuildAction
  <2>2. \A a \in DOMAIN acts : acts[a].born # Created(wp.t).born
    BY <2>1
  <2> QED BY <1>5, <2>2 DEF SameOrNew
<1> QED BY <1>1, <1>2, <1>3, <1>4, <1>5 DEF ChangedOutside

LEMMA ActionsStep ==
    ASSUME TypeOK, CopyInv, ActionsInv, [Next]_vars
    PROVE  ActionsInv'
<1>1. CASE Outside
  BY <1>1, OutsideIsSame, ActionsKept DEF Outside
<1>2. CASE HostStep
  <2>1. DOMAIN acts' = DOMAIN acts
    BY <1>2 DEF HostStep
  <2> QED BY <1>2, <2>1, SameIsSame, ActionsKept DEF HostStep
<1>3. CASE BuildSync \/ \E n \in Name : BeginBuild(n)
  <2>1. UNCHANGED <<build, acts, cut>> /\ (wb' = wb \/ wb.pc = "idle")
    BY <1>3 DEF BuildSync, BeginBuild, kube, uyuni, history, Idle
  <2> QED BY <2>1, SameIsSame, ActionsKept
<1>4. CASE Crash
  <2>1. UNCHANGED <<build, acts>> /\ cut \subseteq cut'
        /\ (wb.pc = "recordNew" => wb.t.action \in cut')
    BY <1>4 DEF Crash, kube, uyuni, BIn
  <2> QED BY <2>1, SameIsSame, ActionsKept
<1>5. CASE BuildPass \/ BuildCallFails
  <2>w. /\ wb \in BuildWorker /\ wb # Idle /\ wb.n \in Name
        /\ wb.t \in ImageBuild /\ wb.base \in ImageBuild
    BY <1>5, InPass DEF BuildPass, AwaitProfile, StripBuild, Recheck, ListImages,
                        ScheduleImageBuild, pollAction, RecordBuild, CleanupBuild, DeleteImage, ReleaseBuild,
                        BuildCallFails, BIn
  <2>1. CASE AwaitProfile
    <3>1. UNCHANGED <<acts, cut>> /\ wb.pc = "profile"
      BY <2>1 DEF AwaitProfile, BLocal, BIn
    <3>2. CASE build' = build
      BY <3>1, <3>2, SameIsSame, ActionsKept
    <3>3. CASE build' # build
      <4> DEFINE t == [wb.t EXCEPT !.fin = TRUE]
      <4>1. BWrite(t) /\ wb.t = wb.base /\ wb.base.life # "none"
        BY <2>1, <2>w, <3>3 DEF AwaitProfile, BEnd, BGo, BIn, CopyInv, GoingInv, Going
      <4>2. t.born = wb.t.born /\ t.action = wb.t.action
        BY <2>w DEF ImageBuild
      <4> HIDE DEF t
      <4> QED BY <2>w, <3>1, <4>1, <4>2, WriteIsSame, ActionsKept
    <3> QED BY <3>2, <3>3
  <2>2. CASE StripBuild
    <3>1. UNCHANGED <<acts, cut>> /\ wb.pc = "strip"
      BY <2>2 DEF StripBuild, BLocal, BIn
    <3>2. CASE build' = build
      BY <3>1, <3>2, SameIsSame, ActionsKept
    <3>3. CASE build' # build
      <4>1. build' = [build EXCEPT ![wb.n] = [build[wb.n] EXCEPT !.now = FALSE]]
            /\ build[wb.n].life # "none"
        BY <2>2, <3>3 DEF StripBuild, BEnd
      <4>2. build[wb.n] \in ImageBuild
        BY <2>w DEF TypeOK
      <4>3. /\ [build[wb.n] EXCEPT !.now = FALSE].born = build[wb.n].born
            /\ [build[wb.n] EXCEPT !.now = FALSE].action = build[wb.n].action
        BY <4>2 DEF ImageBuild
      <4>4. \A n \in Name : SameOrNew(n)
        BY <2>w, <4>1, <4>3 DEF TypeOK, SameOrNew
      <4> QED BY <3>1, <4>4, ActionsKept
    <3> QED BY <3>2, <3>3
  <2>3. CASE Recheck \/ ListImages \/ pollAction \/ CleanupBuild \/ DeleteImage
    <3>1. build' = build /\ cut \subseteq cut' /\ wb.pc # "recordNew" /\ DOMAIN acts' = DOMAIN acts
      BY <2>3 DEF Recheck, ListImages, pollAction, CleanupBuild, DeleteImage, BGo, BEnd, BIn
    <3> QED BY <3>1, SameIsSame, ActionsKept
  <2>4. CASE ScheduleImageBuild
    <3> DEFINE c == Len(acts) + 1
               t == [wb.t EXCEPT !.action = c, !.bs = "Scheduled"]
    <3>1. /\ wb.pc = "schedule" /\ build[wb.n].action \in {0} \cup cut
          /\ Keeps(wb.base, build[wb.n], revived) /\ wb.t.born = wb.base.born
      BY <2>4, <2>w DEF ScheduleImageBuild, BIn, CopyInv, GoingInv, Going
    <3>2. /\ build[wb.n].born = wb.t.born /\ build[wb.n].life # "none"
      <4>1. CopyOK(wb.n, build[wb.n], acts, mixed)
        BY <2>w DEF CopyInv, CopiesInv
      <4> QED BY <3>1, <4>1, CopyNew DEF Keeps, CopyOK
    <3>3. \A a \in DOMAIN acts \ cut : ~(acts[a].n = wb.n /\ acts[a].born = wb.t.born)
      BY <3>1, <3>2, ActionTypes DEF ActionsInv
    <3>4. /\ DOMAIN acts' = DOMAIN acts \cup {c} /\ c \notin DOMAIN acts
          /\ acts'[c].n = wb.n /\ acts'[c].born = wb.t.born
          /\ \A a \in DOMAIN acts : acts'[a] = acts[a]
      BY <2>4, <2>w, ActionAdded, ScheduledActionIs DEF ScheduleImageBuild, ScheduledActionType
    <3>5. /\ build' = build /\ cut' = cut /\ wb' = [wb EXCEPT !.pc = "recordNew", !.t = t]
      BY <2>4 DEF ScheduleImageBuild, BGo
    <3>6. t.action = c
      BY <2>w DEF ImageBuild
    <3> HIDE DEF t, c
    <3>7. wb'.pc = "recordNew" /\ wb'.t.action = c
      BY <2>w, <3>5, <3>6 DEF BuildWorker
    <3>8. ASSUME NEW a \in DOMAIN acts' \ cut',
                 build'[acts'[a].n].life # "none", build'[acts'[a].n].born = acts'[a].born
          PROVE  build'[acts'[a].n].action = a \/ (wb'.pc = "recordNew" /\ wb'.t.action = a)
      BY <3>1, <3>4, <3>5, <3>7, <3>8 DEF ActionsInv
    <3>9. ASSUME NEW a \in DOMAIN acts' \ cut', NEW b \in DOMAIN acts' \ cut',
                 acts'[a].n = acts'[b].n, acts'[a].born = acts'[b].born
          PROVE  a = b
      BY <3>3, <3>4, <3>5, <3>9 DEF ActionsInv
    <3> QED BY <3>8, <3>9 DEF ActionsInv
  <2>5. CASE RecordBuild
    <3>1. /\ wb.t.life = wb.base.life /\ wb.t.born = wb.base.born /\ wb.base.life # "none"
          /\ wb.pc = "record" => wb.t.action = wb.base.action
          /\ wb.pc = "recordNew" => wb.base.action = 0
      BY <2>5, <2>w DEF RecordBuild, BIn, CopyInv, GoingInv, Going
    <3>2. /\ BWrite(wb.t) /\ acts' = acts /\ wb' = Idle
          /\ cut' = IF wb.pc = "recordNew" /\ build[wb.n] # wb.base
                    THEN cut \cup {wb.t.action} ELSE cut
      BY <2>5 DEF RecordBuild, BIn
    <3>3. CASE wb.pc = "record"
      BY <2>w, <3>1, <3>2, <3>3, WriteIsSame, ActionsKept
    <3>4. CASE wb.pc = "recordNew" /\ build[wb.n] # wb.base
      <4>1. build' = build
        BY <2>w, <3>2, <3>4, WriteForm
      <4> QED BY <3>2, <3>4, <4>1, SameIsSame, ActionsKept
    <3>5. CASE wb.pc = "recordNew" /\ build[wb.n] = wb.base
      <4>1. build'[wb.n] = wb.t /\ \A n \in Name : n # wb.n => build'[n] = build[n]
        BY <2>w, <3>2, <3>5, WriteForm
      <4>2. acts' = acts /\ cut' = cut
        BY <3>2, <3>5
      <4>3. ASSUME NEW a \in DOMAIN acts \ cut,
                   build'[acts[a].n].life # "none", build'[acts[a].n].born = acts[a].born
            PROVE  build'[acts[a].n].action = a
        <5>1. acts[a].n \in Name /\ a # 0
          BY ActionTypes DEF BuildAction
        <5>4. acts[wb.t.action].n = wb.n
          BY <2>w, <3>5 DEF CopyInv, GoingInv, Going, CopiesInv, CopyOK
        <5>2. CASE acts[a].n # wb.n
          BY <4>1, <4>3, <5>1, <5>2, <5>4 DEF ActionsInv
        <5>3. CASE acts[a].n = wb.n
          BY <3>1, <3>5, <4>1, <4>3, <5>1, <5>3 DEF ActionsInv
        <5> QED BY <5>2, <5>3
      <4> QED BY <4>2, <4>3 DEF ActionsInv
    <3> QED BY <2>5, <3>3, <3>4, <3>5 DEF RecordBuild, BIn
  <2>6. CASE ReleaseBuild
    <3>1. BWrite(NoBuild) /\ UNCHANGED <<acts, cut>> /\ wb.pc = "release"
      BY <2>6 DEF ReleaseBuild, BLocal, BIn
    <3>2. NoBuild.life = "none"
      BY DEF NoBuild
    <3> QED BY <2>w, <3>1, <3>2, WriteIsSame, ActionsKept
  <2>7. CASE BuildCallFails
    <3>1. DOMAIN acts' \ cut' \subseteq DOMAIN acts \ cut /\ wb.pc # "recordNew"
      <4>1. CASE UNCHANGED <<acts, cut>>
        BY <2>7, <4>1 DEF BuildCallFails, BIn
      <4>2. CASE wb.pc = "schedule" /\ acts' = Append(acts, ScheduledAction)
                 /\ cut' = cut \cup {Len(acts')}
        BY <2>w, <4>2, ActionAdded, ScheduledActionIs DEF ScheduledActionType
      <4> QED BY <2>7, <4>1, <4>2 DEF BuildCallFails, BIn
    <3>2. \A n \in Name : SameOrNew(n)
      <4>1. CASE build' = build
        BY <4>1, SameIsSame
      <4>2. CASE build' # build
        <5>1. /\ BWrite(wb.t) /\ wb.t.born = wb.base.born /\ wb.base.life # "none"
              /\ wb.t.action = wb.base.action
          BY <2>7, <2>w, <4>2 DEF BuildCallFails, BEnd, BIn, CopyInv, GoingInv, Going
        <5> QED BY <2>w, <5>1, WriteIsSame
      <4> QED BY <4>1, <4>2
    <3> QED BY <3>1, <3>2, ActionsKept
  <2> QED BY <1>5, <2>1, <2>2, <2>3, <2>4, <2>5, <2>6, <2>7 DEF BuildPass
<1> QED BY <1>1, <1>2, <1>3, <1>4, <1>5, StepForm

LEMMA OnceFromActions ==
    ASSUME TypeOK, ActionsInv
    PROVE  ScheduledOnce
<1> SUFFICES ASSUME NEW n \in Name, NEW k \in {acts[a].born : a \in DOMAIN acts}
             PROVE  Cardinality({a \in DOMAIN acts \ cut : acts[a].n = n /\ acts[a].born = k}) <= 1
  BY DEF ScheduledOnce
<1> DEFINE S == {a \in DOMAIN acts \ cut : acts[a].n = n /\ acts[a].born = k}
<1>1. CASE S = {}
  BY <1>1, FS_EmptySet
<1>2. CASE S # {}
  <2>1. PICK a \in S : TRUE
    BY <1>2
  <2>2. S = {a}
    BY <2>1 DEF ActionsInv
  <2> HIDE DEF S
  <2>3. Cardinality(S) = 1
    BY <2>2, FS_Singleton
  <2> QED BY <2>3 DEF S
<1> QED BY <1>1, <1>2

\* An ImageBuild is scheduled in Uyuni once, but for actions whose id was lost
\* with Uyuni's answer or with the status write, or stayed hidden because the
\* read that bypasses the informer failed.  That read, the only pass and the
\* patch that brings the action id back see to it.
THEOREM ImagesScheduledOnce == Spec => []ScheduledOnce
<1>1. Init => ActionsInv
  BY DEF Init, ActionsInv
<1>2. TypeOK /\ CopyInv /\ ActionsInv /\ [Next]_vars => ActionsInv'
  BY ActionsStep
<1>3. TypeOK /\ ActionsInv => ScheduledOnce
  BY OnceFromActions
<1> QED BY <1>1, <1>2, <1>3, ImagesTypeOK, ImagesCopies, PTL DEF Spec


----------------------------------------------------------------------------
(* What a step means for the status of an ImageBuild.                      *)

SameStatus(n) ==
    /\ build'[n].life = build[n].life /\ build'[n].born = build[n].born
    /\ build'[n].action = build[n].action /\ build'[n].bs = build[n].bs

LEMMA SameSameStatus ==
    ASSUME NEW n, build'[n] = build[n]
    PROVE  SameStatus(n)
BY DEF SameStatus

\* A pass records a build, removes an ImageBuild that is being deleted, or
\* leaves the status alone.
LEMMA PassEffect ==
    ASSUME TypeOK, CopyInv, BuildPass \/ BuildCallFails, NEW n \in Name
    PROVE  \/ SameStatus(n)
           \/ /\ build[n].life = "deleting" /\ build'[n] = NoBuild
              /\ ReleaseBuild
           \/ /\ RecordBuild /\ n = wb.n /\ build[n] = wb.base /\ build'[n] = wb.t
              /\ wb.t.life = wb.base.life /\ wb.t.born = wb.base.born
              /\ \/ wb.pc = "record" /\ wb.t.action = wb.base.action
                 \/ wb.pc = "recordNew" /\ wb.t.bs = "Scheduled"
<1>w. /\ wb \in BuildWorker /\ wb # Idle /\ wb.n \in Name
      /\ wb.t \in ImageBuild /\ wb.base \in ImageBuild
      /\ CopyOK(wb.n, wb.t, acts, mixed) /\ CopyOK(wb.n, wb.base, acts, mixed)
  BY InPass DEF BuildPass, AwaitProfile, StripBuild, Recheck, ListImages,
                ScheduleImageBuild, pollAction,
                RecordBuild, CleanupBuild, DeleteImage, ReleaseBuild, BuildCallFails, BIn,
                CopyInv, CopiesInv
<1>u. build'[n] = build[n] => SameStatus(n)
  BY SameSameStatus
<1>1. CASE AwaitProfile
  <2>1. CASE build' = build
    BY <1>u, <2>1
  <2>2. CASE build' # build
    <3> DEFINE t == [wb.t EXCEPT !.fin = TRUE]
    <3>1. BWrite(t) /\ wb.t = wb.base
      BY <1>1, <1>w, <2>2 DEF AwaitProfile, BEnd, BGo, BIn, CopyInv, GoingInv, Going
    <3>2. /\ t.life = wb.t.life /\ t.born = wb.t.born /\ t.action = wb.t.action
          /\ t.bs = wb.t.bs
      BY <1>w DEF ImageBuild
    <3> HIDE DEF t
    <3> QED BY <1>u, <1>w, <3>1, <3>2, WriteForm DEF SameStatus
  <2> QED BY <2>1, <2>2
<1>2. CASE StripBuild
  <2>1. CASE build' = build
    BY <1>u, <2>1
  <2>2. CASE build' # build
    <3> DEFINE x == [build[wb.n] EXCEPT !.now = FALSE]
    <3>1. build' = [build EXCEPT ![wb.n] = x]
      BY <1>2, <2>2 DEF StripBuild, BEnd
    <3>2. build[wb.n] \in ImageBuild
      BY <1>w DEF TypeOK
    <3>3. /\ x.life = build[wb.n].life /\ x.born = build[wb.n].born
          /\ x.action = build[wb.n].action /\ x.bs = build[wb.n].bs
      BY <3>2 DEF ImageBuild
    <3> HIDE DEF x
    <3>4. build'[wb.n] = x /\ (n # wb.n => build'[n] = build[n])
      BY <1>w, <3>1 DEF TypeOK
    <3> QED BY <1>u, <3>3, <3>4 DEF SameStatus
  <2> QED BY <2>1, <2>2
<1>3. CASE Recheck \/ ListImages \/ ScheduleImageBuild \/ pollAction \/ CleanupBuild
              \/ DeleteImage
  <2>1. build' = build
    BY <1>3 DEF Recheck, ListImages, ScheduleImageBuild, pollAction, CleanupBuild,
                DeleteImage, BGo, BEnd
  <2> QED BY <1>u, <2>1
<1>4. CASE RecordBuild
  <2>1. /\ wb.t.life = wb.base.life /\ wb.t.born = wb.base.born
        /\ \/ wb.pc = "record" /\ wb.t.action = wb.base.action
           \/ wb.pc = "recordNew" /\ wb.t.bs = "Scheduled"
    BY <1>4, <1>w DEF RecordBuild, BIn, CopyInv, GoingInv, Going
  <2> QED BY <1>4, <1>u, <1>w, <2>1, WriteForm DEF RecordBuild
<1>5. CASE ReleaseBuild
  <2>1. wb.base.life = "deleting"
    BY <1>5, <1>w DEF ReleaseBuild, BIn, CopyInv, RemovingInv, Removing
  <2> QED BY <1>5, <1>u, <1>w, <2>1, WriteForm DEF ReleaseBuild
<1>6. CASE BuildCallFails
  <2>1. CASE build' = build
    BY <1>u, <2>1
  <2>2. CASE build' # build
    <3>1. BWrite(wb.t) /\ wb.pc = "schedule"
      BY <1>6, <2>2 DEF BuildCallFails, BEnd, BIn
    <3>2. /\ wb.t.life = wb.base.life /\ wb.t.born = wb.base.born
          /\ wb.t.action = 0 /\ wb.base.action = 0
      BY <1>w, <3>1 DEF CopyInv, GoingInv, Going
    <3>3. wb.t.bs = "" /\ wb.base.bs = ""
      BY <1>w, <3>2 DEF CopyOK
    <3> QED BY <1>u, <1>w, <3>1, <3>2, <3>3, WriteForm DEF SameStatus
  <2> QED BY <2>1, <2>2
<1> QED BY <1>1, <1>2, <1>3, <1>4, <1>5, <1>6 DEF BuildPass

\* The others create an ImageBuild, delete one, or leave its status alone.
LEMMA OutsideEffect ==
    ASSUME TypeOK, Outside, NEW n \in Name
    PROVE  \/ SameStatus(n)
           \/ /\ build'[n].life = "live" /\ build'[n].action = 0 /\ build'[n].bs = ""
              /\ build[n].life = "none" /\ PIn("trigger")
           \/ /\ build[n].life = "live" /\ build'[n].life \in {"deleting", "none"}
              /\ build'[n].bs = build[n].bs \/ build'[n].bs = ""
              /\ undone' \/ prof.life = "gone" \/ (PIn("prune") /\ n \in wp.doomed)
              /\ build'[n].life = "deleting" => build'[n].bs = build[n].bs
<1>1. build[n] \in ImageBuild /\ ChangedOutside(n)
  BY DEF TypeOK, Outside
<1>2. CASE build'[n] = build[n]
  BY <1>2, SameSameStatus
<1>3. CASE build[n].life = "live" /\ build'[n] = [build[n] EXCEPT !.now = TRUE]
  BY <1>1, <1>3 DEF SameStatus, ImageBuild
<1>4. CASE /\ build[n].life = "live" /\ build'[n] = Deleted(build[n])
           /\ undone' \/ prof.life = "gone" \/ (PIn("prune") /\ n \in wp.doomed)
  <2>1. CASE build[n].fin
    <3>1. build'[n].life = "deleting" /\ build'[n].bs = build[n].bs
      BY <1>1, <1>4, <2>1 DEF ImageBuild, Deleted
    <3> QED BY <1>4, <3>1
  <2>2. CASE ~build[n].fin
    <3>1. build'[n] = NoBuild /\ NoBuild.life = "none" /\ NoBuild.bs = ""
      BY <1>4, <2>2 DEF Deleted, NoBuild
    <3>2. build'[n].life = "none" /\ build'[n].bs = ""
      BY <3>1
    <3> QED BY <1>4, <3>2
  <2> QED BY <2>1, <2>2
<1>5. CASE build[n].life = "none" /\ build'[n] = Created(wp.t) /\ PIn("trigger")
  <2>1. Created(wp.t).life = "live" /\ Created(wp.t).action = 0 /\ Created(wp.t).bs = ""
    BY DEF Created, NoBuild
  <2> QED BY <1>5, <2>1
<1> QED BY <1>1, <1>2, <1>3, <1>4, <1>5 DEF ChangedOutside


----------------------------------------------------------------------------
(* Whose image is whose.                                                   *)

Imaged == {a \in DOMAIN acts : acts[a].image # 0}

\* Every image was made by one action.
MadeOnce ==
    /\ \A a \in DOMAIN acts : acts[a].image <= Cardinality(Imaged)
    /\ \A a, b \in Imaged : acts[a].image = acts[b].image => a = b

HasImage(a) == acts[a].image \in images \cup {0}

\* Uyuni has the image of every ImageBuild that is not being deleted.
ImagesInv ==
    /\ MadeOnce
    /\ mixed \/ \A n \in Name : build[n].life = "live" /\ build[n].action # 0
                                    => HasImage(build[n].action)
    /\ wb.pc = "recordNew" => HasImage(wb.t.action)

LEMMA MadeOnceKept ==
    ASSUME TypeOK, MadeOnce, DOMAIN acts \subseteq DOMAIN acts',
           \A a \in DOMAIN acts : acts'[a].image = acts[a].image,
           \A a \in DOMAIN acts' \ DOMAIN acts : acts'[a].image = 0
    PROVE  MadeOnce'
<1>1. Imaged' = Imaged
  BY DEF Imaged
<1>2. IsFiniteSet(Imaged)
  BY ActionTypes, FS_Subset DEF Imaged
<1>3. Cardinality(Imaged) \in Nat
  BY <1>2, FS_CardinalityType
<1>4. \A a \in DOMAIN acts' : acts'[a].image <= Cardinality(Imaged)
  BY <1>3 DEF MadeOnce
<1>5. \A a, b \in Imaged : acts'[a].image = acts'[b].image => a = b
  BY DEF MadeOnce, Imaged
<1>6. Cardinality(Imaged)' = Cardinality(Imaged)
  BY <1>1
<1> QED BY <1>1, <1>4, <1>5, <1>6 DEF MadeOnce

LEMMA MadeOnceStep ==
    ASSUME TypeOK, MadeOnce, [Next]_vars
    PROVE  MadeOnce'
<1>u. acts' = acts => MadeOnce'
  BY MadeOnceKept
<1>a. ASSUME wb \in BuildWorker, acts' = Append(acts, ScheduledAction)
      PROVE  MadeOnce'
  BY <1>a, ActionAdded, ScheduledActionIs, MadeOnceKept DEF ScheduledActionType
<1>s. ASSUME NEW a \in DOMAIN acts, NEW s,
             acts' = [acts EXCEPT ![a] = [acts[a] EXCEPT !.st = s]]
      PROVE  MadeOnce'
  <2>1. DOMAIN acts' = DOMAIN acts /\ acts'[a] = [acts[a] EXCEPT !.st = s]
        /\ \A b \in DOMAIN acts \ {a} : acts'[b] = acts[b]
    BY <1>s
  <2>2. acts'[a].image = acts[a].image
    BY <2>1, ActionTypes DEF BuildAction
  <2> QED BY <2>1, <2>2, MadeOnceKept
<1>1. CASE Outside \/ BuildSync \/ (\E n \in Name : BeginBuild(n)) \/ Crash
  BY <1>1, <1>u DEF Outside, BuildSync, BeginBuild, Crash, kube, uyuni, history
<1>2. CASE HostStep
  <2>1. ASSUME NEW a \in DOMAIN acts, acts[a].image = 0,
               acts' = [acts EXCEPT ![a] = [acts[a] EXCEPT !.image = NextImage]]
        PROVE  MadeOnce'
    <3>1. /\ DOMAIN acts' = DOMAIN acts /\ acts'[a] = [acts[a] EXCEPT !.image = NextImage]
          /\ \A b \in DOMAIN acts \ {a} : acts'[b] = acts[b]
      BY <2>1
    <3>2. acts'[a].image = NextImage
      BY <3>1, ActionTypes DEF BuildAction
    <3>3. IsFiniteSet(Imaged) /\ a \notin Imaged
      BY <2>1, ActionTypes, FS_Subset DEF Imaged
    <3>4. Imaged' = Imaged \cup {a}
      BY <3>1, <3>2, NumberTypes DEF Imaged
    <3>5. Cardinality(Imaged') = Cardinality(Imaged) + 1 /\ Cardinality(Imaged) \in Nat
      BY <3>3, <3>4, FS_AddElement, FS_CardinalityType
    <3>6. NextImage = Cardinality(Imaged) + 1
      BY <3>5 DEF NextImage, Imaged
    <3>7. \A b \in DOMAIN acts : acts[b].image \in Nat /\ acts[b].image < NextImage
      BY <3>5, <3>6, ActionTypes DEF MadeOnce, BuildAction
    <3>10. Cardinality(Imaged') = NextImage /\ NextImage \in Nat
      BY <3>5, <3>6
    <3>8. ASSUME NEW b \in DOMAIN acts'
          PROVE  acts'[b].image <= NextImage
      <4>1. CASE b = a
        BY <3>2, <3>10, <4>1
      <4>2. CASE b # a
        <5>1. acts'[b].image = acts[b].image /\ b \in DOMAIN acts
          BY <3>1, <4>2
        <5> QED BY <3>7, <3>10, <5>1
      <4> QED BY <4>1, <4>2
    <3>11. \A b \in DOMAIN acts \ {a} : acts'[b].image = acts[b].image /\ acts[b].image # NextImage
      BY <3>1, <3>7, <3>10
    <3>9. ASSUME NEW b \in Imaged', NEW c \in Imaged', acts'[b].image = acts'[c].image
          PROVE  b = c
      <4>1. b \in Imaged \cup {a} /\ c \in Imaged \cup {a} /\ Imaged \subseteq DOMAIN acts
        BY <3>4 DEF Imaged
      <4> QED BY <3>2, <3>9, <3>11, <4>1 DEF MadeOnce
    <3> QED BY <3>8, <3>9, <3>10 DEF MadeOnce
  <2> QED BY <1>2, <1>s, <1>u, <2>1 DEF HostStep
<1>3. CASE BuildPass
  <2>1. CASE ScheduleImageBuild
    BY <1>a, <2>1, InPass DEF ScheduleImageBuild, BIn
  <2>2. CASE CleanupBuild
    <3>1. CASE acts' = acts
      BY <1>u, <3>1
    <3>2. CASE acts' # acts
      <4>1. acts' = [acts EXCEPT ![wb.t.action] = [acts[wb.t.action] EXCEPT !.st = "Failed"]]
        BY <2>2, <3>2 DEF CleanupBuild
      <4>2. CASE wb.t.action \in DOMAIN acts
        BY <1>s, <4>1, <4>2
      <4>3. CASE wb.t.action \notin DOMAIN acts
        BY <4>1, <4>3, MadeOnceKept
      <4> QED BY <4>2, <4>3
    <3> QED BY <3>1, <3>2
  <2>3. CASE \/ AwaitProfile \/ StripBuild \/ Recheck \/ ListImages \/ pollAction
             \/ RecordBuild \/ DeleteImage \/ ReleaseBuild
    BY <1>u, <2>3 DEF AwaitProfile, StripBuild, Recheck, ListImages, pollAction, RecordBuild,
                      DeleteImage, ReleaseBuild, BLocal
  <2> QED BY <1>3, <2>1, <2>2, <2>3 DEF BuildPass
<1>4. CASE BuildCallFails
  BY <1>4, <1>a, <1>u, InPass DEF BuildCallFails, BIn
<1> QED BY <1>1, <1>2, <1>3, <1>4, StepForm


\* Only the removal of an ImageBuild removes an image.
LEMMA HasImageKept ==
    ASSUME TypeOK, [Next]_vars, ~DeleteImage, NEW a \in DOMAIN acts, HasImage(a)
    PROVE  acts'[a].image \in images' \cup {0}
<1>u. UNCHANGED <<acts, images>> => acts'[a].image \in images' \cup {0}
  BY DEF HasImage
<1>a. ASSUME wb \in BuildWorker, acts' = Append(acts, ScheduledAction), images' = images
      PROVE  acts'[a].image \in images' \cup {0}
  BY <1>a, ActionAdded, ScheduledActionIs DEF ScheduledActionType, HasImage
<1>1. CASE Outside \/ BuildSync \/ (\E n \in Name : BeginBuild(n)) \/ Crash
  BY <1>1, <1>u DEF Outside, BuildSync, BeginBuild, Crash, kube, uyuni, history
<1>2. CASE HostStep
  <2>1. ASSUME NEW b \in DOMAIN acts,
               acts' = [acts EXCEPT ![b] = [acts[b] EXCEPT !.image = NextImage]],
               images' = images \cup {NextImage}
        PROVE  acts'[a].image \in images' \cup {0}
    <3>1. /\ acts'[b] = [acts[b] EXCEPT !.image = NextImage]
          /\ \A c \in DOMAIN acts \ {b} : acts'[c] = acts[c]
      BY <2>1
    <3>2. acts'[b].image = NextImage
      BY <3>1, ActionTypes DEF BuildAction
    <3> QED BY <2>1, <3>1, <3>2 DEF HasImage
  <2>2. ASSUME NEW b \in DOMAIN acts, NEW s,
               acts' = [acts EXCEPT ![b] = [acts[b] EXCEPT !.st = s]], images' = images
        PROVE  acts'[a].image \in images' \cup {0}
    <3>1. /\ acts'[b] = [acts[b] EXCEPT !.st = s]
          /\ \A c \in DOMAIN acts \ {b} : acts'[c] = acts[c]
      BY <2>2
    <3>2. acts'[b].image = acts[b].image
      BY <3>1, ActionTypes DEF BuildAction
    <3> QED BY <2>2, <3>1, <3>2 DEF HasImage
  <2> QED BY <1>2, <1>u, <2>1, <2>2 DEF HostStep
<1>3. CASE BuildPass
  <2>1. CASE ScheduleImageBuild
    BY <1>a, <2>1, InPass DEF ScheduleImageBuild, BIn
  <2>2. CASE \/ AwaitProfile \/ StripBuild \/ Recheck \/ ListImages \/ pollAction
             \/ RecordBuild \/ ReleaseBuild
    BY <1>u, <2>2 DEF AwaitProfile, StripBuild, Recheck, ListImages, pollAction, RecordBuild,
                      ReleaseBuild, BLocal
  <2>3. CASE CleanupBuild
    <3>1. CASE acts' = acts
      BY <1>u, <2>3, <3>1 DEF CleanupBuild
    <3>2. CASE acts' # acts
      <4>1. /\ acts' = [acts EXCEPT ![wb.t.action] = [acts[wb.t.action] EXCEPT !.st = "Failed"]]
            /\ images' = images
        BY <2>3, <3>2 DEF CleanupBuild
      <4>2. CASE a = wb.t.action
        <5>1. acts'[a] = [acts[a] EXCEPT !.st = "Failed"]
          BY <4>1, <4>2
        <5>2. acts[a] \in BuildAction
          BY ActionTypes
        <5> QED BY <4>1, <5>1, <5>2 DEF BuildAction, HasImage
      <4>3. CASE a # wb.t.action
        BY <4>1, <4>3 DEF HasImage
      <4> QED BY <4>2, <4>3
    <3> QED BY <3>1, <3>2
  <2> QED BY <1>3, <2>1, <2>2, <2>3 DEF BuildPass
<1>4. CASE BuildCallFails
  BY <1>4, <1>a, <1>u, InPass DEF BuildCallFails, BIn
<1> QED BY <1>1, <1>2, <1>3, <1>4, StepForm

\* The image that goes with an ImageBuild is not that of another one.
LEMMA CleanupSpares ==
    ASSUME TypeOK, CopyInv, ImagesInv, DeleteImage, ~mixed, NEW n \in Name,
           build[n].life = "live", build[n].action # 0
    PROVE  /\ build[n].action \in DOMAIN acts
           /\ acts'[build[n].action].image \in images' \cup {0}
<1>w. /\ wb \in BuildWorker /\ wb # Idle /\ wb.n \in Name
      /\ wb.t \in ImageBuild /\ wb.t = wb.base /\ wb.base.life = "deleting"
      /\ build[wb.n].fin => Keeps(wb.base, build[wb.n], revived)
      /\ CopyOK(wb.n, wb.t, acts, mixed)
  BY InPass DEF DeleteImage, BIn, CopyInv, RemovingInv, Removing, CopiesInv
<1> DEFINE c == build[n].action
<1>1. c \in DOMAIN acts /\ acts[c].n = n /\ build[n].fin /\ HasImage(c)
  BY DEF CopyInv, CopiesInv, CopyOK, ImagesInv
<1>2. acts' = acts
  BY DEF DeleteImage
<1>3. n # wb.n
  BY <1>1, <1>w DEF Keeps
<1>4. wb.t.image # 0 => /\ wb.t.action \in DOMAIN acts /\ acts[wb.t.action].n = wb.n
                        /\ acts[wb.t.action].image = wb.t.image
  BY <1>w DEF CopyOK
<1>5. wb.t.image = 0 \/ acts[c].image # wb.t.image
  BY <1>1, <1>3, <1>4 DEF ImagesInv, MadeOnce, Imaged
<1>6. images' = images \ {wb.t.image} \/ images' = images
  BY DEF DeleteImage
<1> QED BY <1>1, <1>2, <1>5, <1>6 DEF HasImage

LEMMA ImagesStep ==
    ASSUME TypeOK, CopyInv, ImagesInv, [Next]_vars
    PROVE  ImagesInv'
<1>m. MadeOnce'
  BY MadeOnceStep DEF ImagesInv
<1>d. \A n \in Name : build[n].action # 0 => build[n].action \in DOMAIN acts
  BY DEF CopyInv, CopiesInv, CopyOK
<1>p. wb.pc \in {"record", "recordNew"} => wb.t.action \in DOMAIN acts
  BY InPass DEF CopyInv, CopiesInv, CopyOK, GoingInv, Going
<1>k. ASSUME NEW n \in Name, ~mixed', build'[n].life = "live", build'[n].action # 0,
             build[n].life = "live", build'[n].action = build[n].action
      PROVE  acts'[build'[n].action].image \in images' \cup {0}
  <2>1. build[n].action \in DOMAIN acts /\ ~mixed
    BY <1>d, <1>k, HistoryGrows
  <2>2. HasImage(build[n].action)
    BY <1>k, <2>1 DEF ImagesInv
  <2> QED BY <1>k, <2>1, <2>2, CleanupSpares, HasImageKept
<1>1. ASSUME NEW n \in Name, ~mixed', build'[n].life = "live", build'[n].action # 0
      PROVE  acts'[build'[n].action].image \in images' \cup {0}
  <2>1. CASE build'[n] = build[n] \/ SameStatus(n)
    <3>1. build'[n].life = build[n].life /\ build'[n].action = build[n].action
      BY <2>1 DEF SameStatus
    <3> QED BY <1>1, <1>k, <3>1
  <2>2. CASE Outside
    BY <1>1, <2>1, <2>2, OutsideEffect
  <2>3. CASE HostStep \/ BuildSync \/ (\E m \in Name : BeginBuild(m)) \/ Crash
    BY <2>1, <2>3 DEF HostStep, BuildSync, BeginBuild, Crash, kube
  <2>4. CASE BuildPass \/ BuildCallFails
    <3>1. CASE ReleaseBuild /\ build'[n] = NoBuild
      BY <1>1, <3>1, CopyNew
    <3>2. CASE /\ RecordBuild /\ n = wb.n /\ build[n] = wb.base /\ build'[n] = wb.t
               /\ wb.t.life = wb.base.life
               /\ wb.pc = "record" /\ wb.t.action = wb.base.action
      BY <1>1, <1>k, <3>2
    <3>3. CASE RecordBuild /\ build'[n] = wb.t /\ wb.pc = "recordNew"
      <4>1. ~DeleteImage
        BY <3>3 DEF DeleteImage, BIn
      <4> QED BY <1>p, <3>3, <4>1, HasImageKept DEF ImagesInv
    <3> QED BY <2>1, <2>4, <3>1, <3>2, <3>3, PassEffect
  <2> QED BY <2>2, <2>3, <2>4, StepForm
<1>2. ASSUME wb'.pc = "recordNew"
      PROVE  acts'[wb'.t.action].image \in images' \cup {0}
  <2>1. CASE wb' = wb
    <3>1. ~DeleteImage
      BY <1>2, <2>1 DEF DeleteImage, BIn
    <3> QED BY <1>2, <1>p, <2>1, <3>1, HasImageKept DEF ImagesInv
  <2>2. CASE ScheduleImageBuild
    <3> DEFINE c == Len(acts) + 1
               t == [wb.t EXCEPT !.action = c, !.bs = "Scheduled"]
    <3>1. wb \in BuildWorker /\ wb.t \in ImageBuild
      BY <2>2, InPass DEF ScheduleImageBuild, BIn
    <3>2. acts'[c].image = 0
      BY <2>2, <3>1, ActionAdded, ScheduledActionIs DEF ScheduleImageBuild, ScheduledActionType
    <3>3. wb' = [wb EXCEPT !.pc = "recordNew", !.t = t]
      BY <2>2 DEF ScheduleImageBuild, BGo
    <3>4. t.action = c
      BY <3>1 DEF ImageBuild
    <3> HIDE DEF t, c
    <3>5. wb'.t.action = c
      BY <3>1, <3>3, <3>4 DEF BuildWorker
    <3> QED BY <3>2, <3>5
  <2>3. CASE wb' # wb /\ ~ScheduleImageBuild
    <3>i. Idle.pc # "recordNew"
      BY DEF Idle
    <3>1. CASE Outside \/ HostStep \/ BuildSync
      BY <2>3, <3>1 DEF Outside, HostStep, BuildSync
    <3>2. CASE Crash \/ RecordBuild \/ ReleaseBuild \/ BuildCallFails
      BY <1>2, <3>2, <3>i DEF Crash, RecordBuild, ReleaseBuild, BuildCallFails, BEnd
    <3>3. ASSUME NEW n \in Name, BeginBuild(n) PROVE FALSE
      BY <1>2, <3>3 DEF BeginBuild
    <3>4. CASE AwaitProfile \/ StripBuild \/ Recheck \/ ListImages \/ pollAction
                  \/ CleanupBuild \/ DeleteImage
      <4>1. wb \in BuildWorker
        BY <3>4, InPass DEF AwaitProfile, StripBuild, Recheck, ListImages, pollAction,
                            CleanupBuild, DeleteImage, BIn
      <4>2. \A pc, t : BGo(pc, t) => wb'.pc = pc
        BY <4>1 DEF BGo, BuildWorker
      <4>3. CASE StripBuild
        <5>1. wb' = Idle \/ wb'.pc \in {"recheck", "poll"}
          BY <4>1, <4>3 DEF StripBuild, ScheduleOrPoll, BuildWorker, BEnd
        <5> QED BY <1>2, <3>i, <5>1
      <4>4. CASE AwaitProfile \/ Recheck \/ ListImages \/ pollAction \/ CleanupBuild
                    \/ DeleteImage
        <5>1. \/ wb' = Idle
              \/ \E pc \in {"strip", "recheck", "baseline", "schedule", "poll", "record",
                  "unimage", "release"} :
                    \E t : BGo(pc, t)
          BY <4>4 DEF AwaitProfile, Recheck, ListImages, pollAction, CleanupBuild,
                      DeleteImage, BEnd, ScheduleOrPoll
        <5> QED BY <1>2, <3>i, <4>2, <5>1
      <4> QED BY <3>4, <4>3, <4>4
    <3> QED BY <2>3, <3>1, <3>2, <3>3, <3>4, StepForm DEF BuildPass
  <2> QED BY <2>1, <2>2, <2>3
<1> QED BY <1>m, <1>1, <1>2 DEF ImagesInv, HasImage


LEMMA InitImages == Init => ImagesInv
<1> SUFFICES ASSUME Init PROVE ImagesInv
  OBVIOUS
<1>1. DOMAIN acts = {} /\ wb.pc # "recordNew"
  BY DEF Init, Idle
<1>2. \A n \in Name : build[n] = NoBuild
  BY DEF Init
<1>3. NoBuild.life = "none"
  BY DEF NoBuild
<1>4. \A n \in Name : build[n].life # "live"
  BY <1>2, <1>3
<1> QED BY <1>1, <1>4 DEF ImagesInv, MadeOnce, Imaged

----------------------------------------------------------------------------
(* Retention leaves a build to roll back to.                               *)

\* A pass does not bring a profile back to life.
LifeInv == wp # Idle /\ wp.t.life = "live" => wp.base.life = "live"

LivesOn == LifeInv' /\ (prof'.life = "live" => prof.life = "live")

LEMMA LifeStep ==
    ASSUME TypeOK, LifeInv, [Next]_vars
    PROVE  LivesOn
<1>u. UNCHANGED <<prof, wp>> => LivesOn
  BY DEF LivesOn, LifeInv
<1>i. prof' = prof /\ wp' = Idle => LivesOn
  BY DEF LivesOn, LifeInv
<1>s. ASSUME wp # Idle, NEW t, PSave(t), t.life = "live" => wp.base.life = "live"
      PROVE  LivesOn
  BY <1>s DEF PSave, LivesOn, LifeInv
<1>g. ASSUME wp \in ProfileWorker, wp # Idle, NEW pc, NEW t, PGo(pc, t), t.life = wp.t.life
      PROVE  LivesOn
  <2>1. wp'.t = t /\ wp'.base = wp.base /\ prof' = prof
    BY <1>g DEF PGo, ProfileWorker
  <2> QED BY <1>g, <2>1 DEF LivesOn, LifeInv
<1>f. ASSUME wp \in ProfileWorker, wp # Idle, PFail PROVE LivesOn
  <2>1. [wp.t EXCEPT !.ready = FALSE].life = wp.t.life
    BY <1>f DEF ProfileWorker, ImageProfile
  <2> QED BY <1>f, <1>s, <2>1 DEF PFail, LifeInv
<1>1. CASE User \/ Vanish \/ Reappear \/ ProfileSync \/ BuildSync
  <2>1. (prof' = prof \/ prof.life = "live") /\ wp' = wp
    BY <1>1 DEF User, EditProfile, BuildNow, DeleteProfile, ProfileWrite, RebuildNow,
                DeleteBuild, BuildWrite, Vanish, Reappear, ProfileSync, BuildSync, kube
  <2> QED BY <2>1 DEF LivesOn, LifeInv
<1>2. CASE BuildHost \/ BuildPass \/ BuildCallFails
            \/ \E n \in Name : CollectGarbage(n) \/ TimePasses(n) \/ BeginBuild(n)
  <2>1. CASE BuildPass \/ BuildCallFails
    <3>1. BQuiet
      BY <2>1 DEF BuildPass, AwaitProfile, StripBuild, Recheck, ListImages,
                  ScheduleImageBuild, pollAction,
                  RecordBuild, CleanupBuild, DeleteImage, ReleaseBuild, BLocal, BuildCallFails
    <3> QED BY <1>u, <3>1 DEF BQuiet
  <2> QED BY <1>2, <1>u, <2>1 DEF BuildHost, ImageAppears, ActionEnds, Hangs, CollectGarbage,
                                  TimePasses, BeginBuild, kube
<1>3. CASE BeginProfile
  <2>1. wp'.t = profSeen /\ wp'.base = profSeen /\ prof' = prof
    BY <1>3 DEF BeginProfile, kube
  <2> QED BY <2>1 DEF LivesOn, LifeInv
<1>4. CASE ProfilePass
  <2>w. /\ wp \in ProfileWorker /\ wp # Idle
        /\ wp.t \in ImageProfile /\ wp.base \in ImageProfile /\ prof \in ImageProfile
    BY <1>4, InPass DEF ProfilePass, PEnsureFinalizer, resolveStoreLabel, EnsureProfile,
       UpdateImageProfile, handleBuildTriggers, StripProfile, ReadCreated,
       MirrorLatestBuild, ListForRetention, PruneBuild,
       SaveReconciled, DeleteImageProfile, ReleaseProfile, PIn, TypeOK
  <2>1. CASE PEnsureFinalizer
    <3>1. [wp.t EXCEPT !.fin = TRUE].life = wp.t.life
      BY <2>w DEF ImageProfile
    <3> QED BY <1>s, <2>1, <2>w, <3>1 DEF PEnsureFinalizer, LifeInv
  <2>2. CASE resolveStoreLabel
    BY <1>f, <2>2, <2>w DEF resolveStoreLabel
  <2>3. CASE EnsureProfile
    <3>1. [wp.t EXCEPT !.applied = wp.t.kiwi].life = wp.t.life
      BY <2>w DEF ImageProfile
    <3>2. \/ PGo("created", [wp.t EXCEPT !.applied = wp.t.kiwi])
          \/ PGo("recreate", wp.t) \/ PGo("update", wp.t)
      BY <2>3 DEF EnsureProfile, CreateImageProfile
    <3> QED BY <1>g, <2>w, <3>1, <3>2
  <2>4. CASE UpdateImageProfile
    BY <1>f, <1>g, <2>4, <2>w DEF UpdateImageProfile
  <2>5. CASE handleBuildTriggers
    <3>1. PFail \/ PGo("mirror", wp.t) \/ PGo("strip", wp.t)
      BY <2>5 DEF handleBuildTriggers
    <3> QED BY <1>f, <1>g, <2>w, <3>1
  <2>6. CASE StripProfile
    <3>1. CASE prof.life = "gone"
      BY <1>i, <2>6, <3>1 DEF StripProfile
    <3>2. CASE prof.life # "gone"
      <4> DEFINE stored == [prof EXCEPT !.now = FALSE]
                 t == PatchedProfile(wp.t, stored)
      <4>1. stored.life = prof.life /\ stored \in ImageProfile
        BY <2>w DEF ImageProfile
      <4>2. prof' = stored /\ wp' = [wp EXCEPT !.pc = "mirror", !.base = stored, !.t = t]
        BY <2>6, <3>2 DEF StripProfile
      <4>3. t.life = stored.life
        <5> HIDE DEF stored
        <5> QED BY <4>1 DEF PatchedProfile, ImageProfile
      <4> HIDE DEF stored, t
      <4>4. wp'.t = t /\ wp'.base = stored
        BY <2>w, <4>2 DEF ProfileWorker
      <4> QED BY <4>1, <4>2, <4>3, <4>4 DEF LivesOn, LifeInv
    <3> QED BY <3>1, <3>2
  <2>7. CASE MirrorLatestBuild
    <3>1. mirrorLatestBuild(wp.t).life = wp.t.life
      BY <2>w DEF mirrorLatestBuild, ImageProfile
    <3> QED BY <1>g, <2>7, <2>w, <3>1 DEF MirrorLatestBuild
  <2>11. CASE ReadCreated
    BY <1>g, <2>11, <2>w DEF ReadCreated
  <2>12. CASE ListForRetention \/ PruneBuild
    <3>1. wp'.t = wp.t /\ wp'.base = wp.base /\ prof' = prof
      BY <2>12, <2>w DEF ListForRetention, PruneBuild, ProfileWorker
    <3> QED BY <2>w, <3>1 DEF LivesOn, LifeInv
  <2>8. CASE SaveReconciled
    <3>1. [wp.t EXCEPT !.observed = wp.t.gen, !.ready = TRUE].life = wp.t.life
      BY <2>w DEF ImageProfile
    <3> QED BY <1>s, <2>8, <2>w, <3>1 DEF SaveReconciled, LifeInv
  <2>9. CASE DeleteImageProfile
    BY <1>g, <2>9, <2>w DEF DeleteImageProfile
  <2>10. CASE ReleaseProfile
    <3>1. [wp.t EXCEPT !.life = "gone"].life # "live"
      BY <2>w DEF ImageProfile
    <3> QED BY <1>s, <2>10, <2>w, <3>1 DEF ReleaseProfile
  <2> QED BY <1>4, <2>1, <2>2, <2>3, <2>4, <2>5, <2>6, <2>7, <2>8, <2>9, <2>10, <2>11,
             <2>12 DEF ProfilePass
<1>5. CASE ProfileCallFails
  <2>1. wp \in ProfileWorker /\ wp # Idle
    BY <1>5, InPass DEF ProfileCallFails
  <2>2. PFail \/ (wp' = Idle /\ prof' = prof)
    BY <1>5 DEF ProfileCallFails
  <2> QED BY <1>f, <1>i, <2>1, <2>2
<1>6. CASE Crash
  BY <1>6, <1>i DEF Crash, kube
<1>7. CASE UNCHANGED vars
  BY <1>7, <1>u DEF vars, kube
<1> QED BY <1>1, <1>2, <1>3, <1>4, <1>5, <1>6, <1>7 DEF Next


Succeeded(n) == build[n].life = "live" /\ build[n].bs = "Succeeded"

\* No succeeded build that the informer knows is younger.
Newest(n) == \A m \in Finished("Succeeded") : buildSeen[m].born <= build[n].born

Doomed(n) == PIn("prune") /\ n \in wp.doomed

\* What is about to be pruned has ended, and if it has succeeded a younger one
\* that has is not about to be pruned.
DoomedInv ==
    \A n \in Name : Doomed(n) /\ build[n].life = "live" =>
        /\ build[n].bs \in {"Failed", "Succeeded"}
        /\ build[n].bs = "Succeeded" =>
               \E m \in Name : /\ Succeeded(m) /\ ~Doomed(m)
                               /\ build[m].born > build[n].born

\* Only ImageBuilds that have ended are pruned, and of those that have
\* succeeded one stays that is not older than what the informer knows.
KeptInv ==
    /\ LifeInv
    /\ \A n \in Name : "Succeeded" \in {build[n].bs, buildSeen[n].bs} => built
    /\ prof.life = "live" /\ ~undone /\ ~revived =>
           /\ \A n \in Name : build[n].life = "deleting" => build[n].bs \in {"Failed",
               "Succeeded"}
           /\ built => \E n \in Name : Succeeded(n) /\ Newest(n)
           /\ DoomedInv

\* What retention prunes has ended, and if it has succeeded there is a younger
\* one.
LEMMA PrunedIsOld ==
    ASSUME TypeOK, CopyInv, ~revived, NEW n \in enforceRetention
    PROVE  /\ build[n].bs \in {"Failed", "Succeeded"}
           /\ build[n].bs = "Succeeded" => ~Newest(n)
<1>1. \/ n \in BeyondNewest(Finished("Succeeded"), 1)
      \/ n \in BeyondNewest(Finished("Failed"), 0)
  BY DEF enforceRetention
<1>2. /\ n \in Name /\ buildSeen[n].life = "live" /\ buildSeen[n].bs \in {"Succeeded", "Failed"}
      /\ buildSeen[n].bs = "Succeeded" => n \in BeyondNewest(Finished("Succeeded"), 1)
  BY <1>1 DEF BeyondNewest, Finished
<1>3. buildSeen[n].action # 0 /\ buildSeen[n].fin
  BY <1>2 DEF CopyInv, CopiesInv, CopyOK
<1>4. Keeps(buildSeen[n], build[n], revived)
  BY <1>2, <1>3 DEF CopyInv, SeenInv
<1>5. build[n].bs = buildSeen[n].bs /\ build[n].born = buildSeen[n].born
  BY <1>2, <1>4 DEF Keeps
<1>6. ASSUME build[n].bs = "Succeeded" PROVE ~Newest(n)
  <2> DEFINE S == {m \in Finished("Succeeded") : buildSeen[m].born > buildSeen[n].born}
  <2>1. Cardinality(S) >= 1
    BY <1>2, <1>5, <1>6 DEF BeyondNewest
  <2>2. S # {}
    <3>1. SUFFICES ASSUME S = {} PROVE FALSE
      OBVIOUS
    <3>2. Cardinality(S) = 0
      BY <3>1, FS_EmptySet
    <3> HIDE DEF S
    <3> QED BY <2>1, <3>2
  <2>3. PICK m \in Finished("Succeeded") : buildSeen[m].born > buildSeen[n].born
    BY <2>2
  <2>4. m \in Name /\ buildSeen[m].born \in Nat /\ buildSeen[n].born \in Nat
    BY <1>2, <2>3 DEF Finished, TypeOK, ImageBuild
  <2> QED BY <1>5, <2>3, <2>4 DEF Newest
<1> QED BY <1>2, <1>5, <1>6

\* A build that has succeeded stays so, if it is not about to be pruned.
LEMMA SucceededStays ==
    ASSUME TypeOK, CopyInv, [Next]_vars, ~revived', ~undone', prof.life = "live",
           NEW n \in Name, Succeeded(n), ~Doomed(n)
    PROVE  Succeeded(n)' /\ build'[n].born = build[n].born
<1>1. CASE SameStatus(n)
  BY <1>1 DEF SameStatus, Succeeded
<1>2. CASE Outside
  BY <1>1, <1>2, OutsideEffect DEF Succeeded, Doomed
<1>3. CASE HostStep \/ BuildSync \/ (\E m \in Name : BeginBuild(m)) \/ Crash
  <2>1. build' = build
    BY <1>3 DEF HostStep, BuildSync, BeginBuild, Crash, kube
  <2> QED BY <1>1, <2>1, SameSameStatus
<1>4. CASE BuildPass \/ BuildCallFails
  <2>1. CASE /\ RecordBuild /\ n = wb.n /\ build[n] = wb.base /\ build'[n] = wb.t
             /\ wb.t.life = wb.base.life /\ wb.t.born = wb.base.born
    <3>1. wb.t.bs = "Succeeded"
      <4>1. wb # Idle
        BY <2>1, InPass DEF RecordBuild, BIn
      <4>2. wb.pc = "record" => wb.t.bs = "Succeeded"
        BY <2>1, <4>1 DEF CopyInv, GoingInv, Going, Succeeded
      <4>3. wb.pc # "recordNew"
        BY <2>1, <4>1 DEF CopyInv, GoingInv, Going, CopiesInv, CopyOK, Succeeded
      <4> QED BY <2>1, <4>2, <4>3 DEF RecordBuild, BIn
    <3> QED BY <2>1, <3>1 DEF Succeeded
  <2> QED BY <1>1, <1>4, <2>1, PassEffect DEF Succeeded
<1> QED BY <1>2, <1>3, <1>4, StepForm

\* The youngest of the builds that have succeeded.
LEMMA YoungestExists ==
    ASSUME TypeOK, NEW m \in Name, Succeeded(m)
    PROVE  \E n \in Name : /\ Succeeded(n)
                           /\ \A k \in Name : Succeeded(k) => build[k].born <= build[n].born
<1> DEFINE S == {build[n].born : n \in {k \in Name : Succeeded(k)}}
<1>1. IsFiniteSet(S)
  <2> DEFINE T == {k \in Name : Succeeded(k)}
             f == [n \in T |-> build[n].born]
  <2>1. IsFiniteSet(T)
    BY NamesFinite, FS_Subset
  <2>2. IsFiniteSet({f[n] : n \in T})
    <3> HIDE DEF T
    <3> QED BY <2>1, FinitelyMany
  <2> QED BY <2>2
<1>2. S \in SUBSET Nat /\ S # {}
  <2>1. \A k \in Name : build[k].born \in Nat
    BY DEF TypeOK, ImageBuild
  <2>2. build[m].born \in S
    OBVIOUS
  <2>3. S \in SUBSET Nat
    BY <2>1
  <2> HIDE DEF S
  <2> QED BY <2>2, <2>3
<1>3. Max(S) \in S /\ \A i \in S : i <= Max(S)
  <2> HIDE DEF S
  <2> QED BY <1>1, <1>2, MaxIsLargest
<1>4. PICK n \in Name : Succeeded(n) /\ build[n].born = Max(S)
  BY <1>3
<1> QED BY <1>3, <1>4

\* One of those that have succeeded is the newest and stays.
LEMMA NewestIsSafe ==
    ASSUME TypeOK, DoomedInv, NEW k \in Name, Succeeded(k), Newest(k)
    PROVE  \E n \in Name : Succeeded(n) /\ Newest(n) /\ ~Doomed(n)
<1>1. CASE ~Doomed(k)
  BY <1>1
<1>2. CASE Doomed(k)
  <2>1. PICK m \in Name : Succeeded(m) /\ ~Doomed(m) /\ build[m].born > build[k].born
    BY <1>2 DEF DoomedInv, Succeeded
  <2>2. build[m].born \in Nat /\ build[k].born \in Nat
    BY DEF TypeOK, ImageBuild
  <2>3. \A x \in Finished("Succeeded") : buildSeen[x].born \in Nat
    BY DEF Finished, TypeOK, ImageBuild
  <2>4. Newest(m)
    BY <2>1, <2>2, <2>3 DEF Newest
  <2> QED BY <2>1, <2>4
<1> QED BY <1>1, <1>2

\* Only these steps change what is about to be pruned.
LEMMA DoomedForm ==
    ASSUME TypeOK, [Next]_vars, wp'.pc = "prune"
    PROVE  wp' = wp \/ ListForRetention \/ PruneBuild
<1>i. Idle.pc # "prune"
  BY DEF Idle
<1>1. CASE ProfilePass
  <2>w. wp \in ProfileWorker
    BY <1>1, InPass DEF ProfilePass, PEnsureFinalizer, resolveStoreLabel, EnsureProfile,
       UpdateImageProfile, handleBuildTriggers, StripProfile, ReadCreated,
       MirrorLatestBuild, ListForRetention, PruneBuild,
       SaveReconciled, DeleteImageProfile, ReleaseProfile, PIn
  <2>g. \A pc, t : PGo(pc, t) => wp'.pc = pc
    BY <2>w DEF PGo, ProfileWorker
  <2>1. CASE StripProfile
    <3>1. wp' = Idle \/ wp'.pc = "mirror"
      BY <2>1, <2>w DEF StripProfile, ProfileWorker
    <3> QED BY <1>i, <3>1
  <2>2. CASE ~StripProfile /\ ~ListForRetention /\ ~PruneBuild
    <3>1. \/ wp' = Idle
          \/ \E pc \in {"created", "update", "recreate", "trigger", "strip", "mirror",
                         "list", "release"} : \E t : PGo(pc, t)
      BY <1>1, <2>2 DEF ProfilePass, PEnsureFinalizer, resolveStoreLabel, EnsureProfile,
         CreateImageProfile, UpdateImageProfile, handleBuildTriggers, ReadCreated,
         MirrorLatestBuild, SaveReconciled, DeleteImageProfile, ReleaseProfile,
         PFail, PSave
    <3> QED BY <1>i, <2>g, <3>1
  <2> QED BY <2>1, <2>2
<1>2. CASE ProfileCallFails \/ Crash
  <2>1. wp' = Idle
    BY <1>2 DEF ProfileCallFails, Crash, PFail, PSave
  <2> QED BY <1>i, <2>1
<1>3. CASE BeginProfile
  BY <1>3 DEF BeginProfile
<1>4. CASE BuildPass \/ BuildCallFails
  <2>1. BQuiet
    BY <1>4 DEF BuildPass, AwaitProfile, StripBuild, Recheck, ListImages, ScheduleImageBuild,
                pollAction, RecordBuild, CleanupBuild, DeleteImage, ReleaseBuild, BLocal,
                BuildCallFails
  <2> QED BY <2>1 DEF BQuiet
<1>5. CASE \/ User \/ Vanish \/ Reappear \/ BuildHost \/ ProfileSync \/ BuildSync
           \/ (\E n \in Name : CollectGarbage(n) \/ TimePasses(n) \/ BeginBuild(n))
           \/ UNCHANGED vars
  BY <1>5 DEF User, EditProfile, BuildNow, DeleteProfile, ProfileWrite, RebuildNow, DeleteBuild,
     BuildWrite, Vanish, Reappear, BuildHost, ImageAppears, ActionEnds, Hangs, ProfileSync,
     BuildSync, CollectGarbage, TimePasses, BeginBuild, vars
<1> QED BY <1>1, <1>2, <1>3, <1>4, <1>5 DEF Next

\* What is about to be pruned stays what it was.
LEMMA DoomedStays ==
    ASSUME TypeOK, CopyInv, DoomedInv, [Next]_vars, ~revived', NEW n \in Name,
           Doomed(n), build'[n].life = "live"
    PROVE  /\ build[n].life = "live" /\ build'[n].bs = build[n].bs
           /\ build'[n].born = build[n].born
<1>1. CASE SameStatus(n)
  BY <1>1 DEF SameStatus
<1>2. CASE Outside
  <2>1. ~PIn("trigger")
    BY DEF Doomed, PIn
  <2> QED BY <1>1, <1>2, <2>1, OutsideEffect
<1>3. CASE HostStep \/ BuildSync \/ (\E m \in Name : BeginBuild(m)) \/ Crash
  <2>1. build' = build
    BY <1>3 DEF HostStep, BuildSync, BeginBuild, Crash, kube
  <2> QED BY <1>1, <2>1, SameSameStatus
<1>4. CASE BuildPass \/ BuildCallFails
  <2>1. CASE build'[n] = NoBuild
    <3>1. NoBuild.life = "none"
      BY DEF NoBuild
    <3> QED BY <2>1, <3>1
  <2>2. CASE /\ RecordBuild /\ n = wb.n /\ build[n] = wb.base /\ build'[n] = wb.t
             /\ wb.t.life = wb.base.life /\ wb.t.born = wb.base.born
    <3>0. wb # Idle
      BY <2>2, InPass DEF RecordBuild, BIn
    <3>1. build[n].life = "live" /\ build[n].bs \in {"Failed", "Succeeded"}
      BY <2>2 DEF DoomedInv
    <3>2. wb.pc # "recordNew"
      BY <2>2, <3>0, <3>1 DEF CopyInv, GoingInv, Going, CopiesInv, CopyOK
    <3>3. wb.pc = "record"
      BY <2>2, <3>2 DEF RecordBuild, BIn
    <3>4. /\ wb.base.bs = "Succeeded" => wb.t.bs = "Succeeded"
          /\ wb.base.bs = "Failed" => wb.t.bs \in {"Failed", "Succeeded"} \/ revived
      BY <3>0, <3>3 DEF CopyInv, GoingInv, Going
    <3>5. ~revived /\ ~(wb.base.bs = "Failed" /\ wb.t.bs = "Succeeded")
      BY <2>2, HistoryGrows DEF RecordBuild
    <3> QED BY <2>2, <3>1, <3>4, <3>5
  <2> QED BY <1>1, <1>4, <2>1, <2>2, PassEffect
<1> QED BY <1>2, <1>3, <1>4, StepForm

LEMMA DoomedStep ==
    ASSUME TypeOK, CopyInv, KeptInv, [Next]_vars, ~undone', ~revived', prof'.life = "live"
    PROVE  DoomedInv'
<1>1. prof.life = "live" /\ ~undone /\ ~revived
  BY LifeStep, HistoryGrows DEF KeptInv, LivesOn
<1>2. DoomedInv
  BY <1>1 DEF KeptInv
<1>3. SUFFICES ASSUME NEW n \in Name, wp'.pc = "prune", n \in wp'.doomed,
                      build'[n].life = "live"
               PROVE  /\ build'[n].bs \in {"Failed", "Succeeded"}
                      /\ build'[n].bs = "Succeeded" =>
                             \E m \in Name : /\ build'[m].life = "live"
                                             /\ build'[m].bs = "Succeeded"
                                             /\ ~(wp'.pc = "prune" /\ m \in wp'.doomed)
                                             /\ build'[m].born > build'[n].born
  BY DEF DoomedInv, Doomed, Succeeded, PIn
<1>4. CASE ListForRetention
  <2>1. build' = build /\ wp'.doomed = enforceRetention
    <3>1. wp \in ProfileWorker
      BY <1>4, InPass DEF ListForRetention, PIn
    <3> QED BY <1>4, <3>1 DEF ListForRetention, PLocal, ProfileWorker
  <2>2. /\ build[n].bs \in {"Failed", "Succeeded"}
        /\ build[n].bs = "Succeeded" => ~Newest(n)
    BY <1>1, <1>3, <2>1, PrunedIsOld
  <2>3. ASSUME build[n].bs = "Succeeded"
        PROVE  \E m \in Name : /\ Succeeded(m) /\ m \notin enforceRetention
                               /\ build[m].born > build[n].born
    <3>1. PICK k \in Name : Succeeded(k) /\ Newest(k)
      BY <1>1, <2>3 DEF KeptInv
    <3>2. k \notin enforceRetention
      BY <1>1, <3>1, PrunedIsOld DEF Succeeded
    <3>3. PICK x \in Finished("Succeeded") : ~(buildSeen[x].born <= build[n].born)
      BY <2>2, <2>3 DEF Newest
    <3>4. buildSeen[x].born \in Nat /\ build[n].born \in Nat /\ build[k].born \in Nat
      BY <3>3 DEF Finished, TypeOK, ImageBuild
    <3>5. buildSeen[x].born <= build[k].born
      BY <3>1, <3>3 DEF Newest
    <3> QED BY <3>1, <3>2, <3>3, <3>4, <3>5
  <2> QED BY <2>1, <2>2, <2>3 DEF Succeeded
<1>5. CASE wp' = wp \/ PruneBuild
  <2>1. /\ PIn("prune") /\ n \in wp.doomed /\ wp'.doomed \subseteq wp.doomed
    <3>1. CASE PruneBuild
      <4>1. wp \in ProfileWorker /\ PIn("prune")
        BY <3>1, InPass DEF PruneBuild, PIn
      <4>2. PICK x \in wp.doomed :
               wp' = [wp EXCEPT !.pc = IF wp.doomed = {x} THEN "save" ELSE "prune",
                                !.doomed = wp.doomed \ {x}]
        BY <3>1 DEF PruneBuild
      <4>3. wp'.doomed = wp.doomed \ {x}
        BY <4>1, <4>2 DEF ProfileWorker
      <4> QED BY <1>3, <4>1, <4>3
    <3> QED BY <1>3, <1>5, <3>1 DEF PIn
  <2>2. /\ build[n].life = "live" /\ build'[n].bs = build[n].bs
        /\ build'[n].born = build[n].born
    BY <1>2, <1>3, <2>1, DoomedStays DEF Doomed
  <2>3. build[n].bs \in {"Failed", "Succeeded"}
    BY <1>2, <2>1, <2>2 DEF DoomedInv, Doomed
  <2>4. ASSUME build[n].bs = "Succeeded"
        PROVE  \E m \in Name : /\ build'[m].life = "live" /\ build'[m].bs = "Succeeded"
                               /\ m \notin wp'.doomed
                               /\ build'[m].born > build'[n].born
    <3>1. PICK m \in Name : Succeeded(m) /\ ~Doomed(m) /\ build[m].born > build[n].born
      BY <1>2, <2>1, <2>2, <2>4 DEF DoomedInv, Doomed
    <3>2. Succeeded(m)' /\ build'[m].born = build[m].born
      BY <1>1, <3>1, SucceededStays
    <3>3. m \notin wp'.doomed
      BY <2>1, <3>1 DEF Doomed
    <3> QED BY <2>2, <3>1, <3>2, <3>3 DEF Succeeded
  <2> QED BY <2>2, <2>3, <2>4
<1> QED BY <1>3, <1>4, <1>5, DoomedForm

LEMMA KeptStep ==
    ASSUME TypeOK, CopyInv, KeptInv, [Next]_vars
    PROVE  KeptInv'
<1>l. LifeInv' /\ (prof'.life = "live" => prof.life = "live")
  BY LifeStep DEF KeptInv, LivesOn
<1>h. (revived => revived') /\ (undone => undone') /\ (built => built')
  BY HistoryGrows
<1>r. ASSUME RecordBuild, NEW n \in Name, n = wb.n, build[n] = wb.base, build'[n] = wb.t
      PROVE  /\ wb.t.bs = "Succeeded" => built'
             /\ wb.base.bs = "Failed" /\ wb.t.bs = "Succeeded" => revived'
  BY <1>r DEF RecordBuild
<1>1. ASSUME NEW n \in Name, "Succeeded" \in {build'[n].bs, buildSeen'[n].bs}
      PROVE  built'
  <2>1. CASE "Succeeded" \in {build[n].bs, buildSeen[n].bs}
    BY <1>h, <2>1 DEF KeptInv
  <2>2. CASE "Succeeded" \notin {build[n].bs, buildSeen[n].bs}
    <3>1. ~SameStatus(n) \/ buildSeen' # buildSeen
      BY <1>1, <2>2 DEF SameStatus
    <3>2. CASE Outside
      <4>1. buildSeen' = buildSeen
        BY <3>2 DEF Outside
      <4> QED BY <1>1, <2>2, <3>1, <3>2, <4>1, OutsideEffect
    <3>3. CASE HostStep \/ (\E m \in Name : BeginBuild(m)) \/ Crash
      <4>1. build' = build /\ buildSeen' = buildSeen
        BY <3>3 DEF HostStep, BeginBuild, Crash, kube, seen
      <4> QED BY <3>1, <4>1, SameSameStatus
    <3>4. CASE BuildSync
      BY <1>1, <2>2, <3>4 DEF BuildSync, kube
    <3>5. CASE BuildPass \/ BuildCallFails
      <4>1. buildSeen' = buildSeen
        BY <3>5 DEF BuildPass, AwaitProfile, StripBuild, Recheck, ListImages,
                    ScheduleImageBuild,
                    pollAction, RecordBuild, CleanupBuild, DeleteImage, ReleaseBuild,
                    BuildCallFails,
                    BLocal, BQuiet, seen
      <4>2. build'[n].bs = "Succeeded"
        BY <1>1, <2>2, <4>1
      <4>3. build'[n] # NoBuild
        BY <4>2, CopyNew
      <4> QED BY <1>r, <3>1, <3>5, <4>1, <4>2, <4>3, PassEffect
    <3> QED BY <3>2, <3>3, <3>4, <3>5, StepForm
  <2> QED BY <2>1, <2>2
<1>2. ASSUME prof'.life = "live", ~undone', ~revived', NEW n \in Name,
    build'[n].life = "deleting"
      PROVE  build'[n].bs \in {"Failed", "Succeeded"}
  <2>1. /\ prof.life = "live" /\ ~undone /\ ~revived
        /\ build[n].life = "deleting" => build[n].bs \in {"Failed", "Succeeded"}
    BY <1>2, <1>h, <1>l DEF KeptInv
  <2>2. CASE SameStatus(n)
    BY <1>2, <2>1, <2>2 DEF SameStatus
  <2>3. CASE Outside
    <3>1. DoomedInv
      BY <2>1 DEF KeptInv
    <3> QED BY <1>2, <2>1, <2>2, <2>3, <3>1, OutsideEffect DEF DoomedInv, Doomed
  <2>4. CASE HostStep \/ BuildSync \/ (\E m \in Name : BeginBuild(m)) \/ Crash
    <3>1. build' = build
      BY <2>4 DEF HostStep, BuildSync, BeginBuild, Crash, kube
    <3> QED BY <2>2, <3>1, SameSameStatus
  <2>5. CASE BuildPass \/ BuildCallFails
    <3>1. CASE build'[n] = NoBuild
      <4>1. NoBuild.life = "none"
        BY DEF NoBuild
      <4> QED BY <1>2, <3>1, <4>1
    <3>2. CASE /\ RecordBuild /\ n = wb.n /\ build[n] = wb.base /\ build'[n] = wb.t
               /\ wb.t.life = wb.base.life
      <4>1. wb # Idle /\ wb.base.bs \in {"Failed", "Succeeded"}
        BY <1>2, <2>1, <3>2, InPass DEF RecordBuild, BIn
      <4>2. wb.pc # "recordNew"
        BY <4>1 DEF CopyInv, GoingInv, Going, CopiesInv, CopyOK
      <4> QED BY <2>1, <3>2, <4>1, <4>2 DEF CopyInv, GoingInv, Going, RecordBuild, BIn
    <3> QED BY <2>2, <2>5, <3>1, <3>2, PassEffect
  <2> QED BY <2>3, <2>4, <2>5, StepForm
<1>3. ASSUME prof'.life = "live", ~undone', ~revived', built'
      PROVE  \E n \in Name : Succeeded(n)' /\ Newest(n)'
  <2>1. prof.life = "live" /\ ~undone /\ ~revived
    BY <1>3, <1>h, <1>l
  <2>2. CASE built
    <3>1. PICK n \in Name : Succeeded(n) /\ Newest(n) /\ ~Doomed(n)
      BY <2>1, <2>2, NewestIsSafe DEF KeptInv
    <3>2. Succeeded(n)' /\ build'[n].born = build[n].born
      BY <1>3, <2>1, <3>1, SucceededStays
    <3>3. CASE buildSeen' = buildSeen
      BY <3>1, <3>2, <3>3 DEF Newest, Finished
    <3>4. CASE BuildSync
      <4>1. build' = build /\ buildSeen' = build
        BY <3>4 DEF BuildSync, kube
      <4>2. PICK k \in Name : /\ Succeeded(k)
                              /\ \A m \in Name : Succeeded(m) => build[m].born <= build[k].born
        BY <3>1, YoungestExists
      <4> QED BY <4>1, <4>2 DEF Succeeded, Newest, Finished
    <3>5. buildSeen' = buildSeen \/ BuildSync
      <4>1. BuildPass \/ BuildCallFails => buildSeen' = buildSeen
        BY DEF BuildPass, AwaitProfile, StripBuild, Recheck, ListImages, ScheduleImageBuild,
               pollAction, RecordBuild, CleanupBuild, DeleteImage, ReleaseBuild, BuildCallFails,
               BLocal, BQuiet, seen
      <4>2. Outside \/ HostStep \/ (\E m \in Name : BeginBuild(m)) \/ Crash
                => buildSeen' = buildSeen
        BY DEF Outside, HostStep, BeginBuild, Crash, seen
      <4> QED BY <4>1, <4>2, StepForm
    <3> QED BY <3>3, <3>4, <3>5
  <2>3. CASE ~built
    <3>1. RecordBuild /\ build[wb.n] = wb.base /\ wb.t.bs = "Succeeded" /\ wb.n \in Name
      <4>1. CASE RecordBuild
        <5>1. wb.n \in Name
          BY <4>1, InPass DEF RecordBuild, BIn
        <5> QED BY <1>3, <2>3, <4>1, <5>1 DEF RecordBuild
      <4>2. CASE Outside \/ HostStep \/ BuildSync \/ (\E m \in Name : BeginBuild(m)) \/ Crash
        BY <1>3, <2>3, <4>2 DEF Outside, HostStep, BuildSync, BeginBuild, Crash, history
      <4>3. CASE \/ AwaitProfile \/ StripBuild \/ Recheck \/ ListImages
                    \/ ScheduleImageBuild \/ pollAction
                 \/ CleanupBuild \/ DeleteImage \/ ReleaseBuild \/ BuildCallFails
        BY <1>3, <2>3, <4>3 DEF AwaitProfile, StripBuild, Recheck, ListImages,
                                ScheduleImageBuild,
           pollAction, CleanupBuild, DeleteImage, ReleaseBuild, BuildCallFails, BLocal
      <4> QED BY <4>1, <4>2, <4>3, StepForm DEF BuildPass
    <3>2. build'[wb.n] = wb.t /\ buildSeen' = buildSeen
      <4>1. wb \in BuildWorker
        BY <3>1, InPass DEF RecordBuild, BIn
      <4> QED BY <3>1, <4>1, WriteForm DEF RecordBuild, BQuiet, seen
    <3>3. wb.t.life = wb.base.life /\ wb.base.life # "none"
      <4>1. wb # Idle
        BY <3>1, InPass DEF RecordBuild, BIn
      <4> QED BY <3>1, <4>1 DEF RecordBuild, BIn, CopyInv, GoingInv, Going
    <3>4. wb.base.life # "deleting"
      <4>1. ~(wb.base.bs = "Failed")
        BY <1>3, <1>r, <3>1, <3>2
      <4>2. ~(wb.base.bs = "Succeeded")
        BY <2>3, <3>1 DEF KeptInv
      <4> QED BY <2>1, <3>1, <4>1, <4>2 DEF KeptInv
    <3>5. wb.base \in ImageBuild
      BY <3>1, InPass DEF RecordBuild, BIn
    <3>6. wb.t.life = "live"
      BY <3>3, <3>4, <3>5 DEF ImageBuild
    <3>7. Finished("Succeeded") = {}
      BY <2>3 DEF Finished, KeptInv
    <3>8. Finished("Succeeded")' = {}
      BY <3>2, <3>7 DEF Finished
    <3>9. build'[wb.n].life = "live" /\ build'[wb.n].bs = "Succeeded"
      BY <3>1, <3>2, <3>6
    <3> QED BY <3>1, <3>8, <3>9 DEF Succeeded, Newest
  <2> QED BY <2>2, <2>3
<1>4. ASSUME prof'.life = "live", ~undone', ~revived'
      PROVE  DoomedInv'
  BY <1>4, DoomedStep
<1> QED BY <1>l, <1>1, <1>2, <1>3, <1>4 DEF KeptInv

LEMMA InitKept == Init => KeptInv
<1> SUFFICES ASSUME Init PROVE KeptInv
  OBVIOUS
<1>1. \A n \in Name : build[n] = NoBuild /\ buildSeen[n] = NoBuild
  BY DEF Init
<1>2. NoBuild.life = "none" /\ NoBuild.bs = ""
  BY DEF NoBuild
<1>3. \A n \in Name : build[n].life = "none" /\ build[n].bs = "" /\ buildSeen[n].bs = ""
  BY <1>1, <1>2
<1>4. wp = Idle /\ Idle.pc # "prune"
  BY DEF Init, Idle
<1> QED BY <1>3, <1>4 DEF Init, KeptInv, LifeInv, DoomedInv, Doomed, PIn

LEMMA RollbackFromKept ==
    ASSUME TypeOK, CopyInv, ImagesInv, KeptInv
    PROVE  RollbackKept
<1> SUFFICES ASSUME built, ~undone, ~mixed, ~revived, prof.life = "live"
             PROVE  \E n \in Name : /\ build[n].life = "live" /\ build[n].bs = "Succeeded"
                                    /\ build[n].image \in images \cup {0}
  BY DEF RollbackKept
<1>1. PICK n \in Name : Succeeded(n)
  BY DEF KeptInv
<1>2. /\ build[n].action # 0
      /\ build[n].image \in {0, acts[build[n].action].image}
  BY <1>1 DEF Succeeded, CopyInv, CopiesInv, CopyOK
<1>3. HasImage(build[n].action)
  BY <1>1, <1>2 DEF Succeeded, ImagesInv
<1> QED BY <1>1, <1>2, <1>3 DEF Succeeded, HasImage

\* Once a build has succeeded there is one to roll back to: the newest is never
\* pruned, and its image goes with it alone.
THEOREM ImagesRollbackKept == Spec => []RollbackKept
<1>1. TypeOK /\ CopyInv /\ ImagesInv /\ [Next]_vars => ImagesInv'
  BY ImagesStep
<1>2. TypeOK /\ CopyInv /\ KeptInv /\ [Next]_vars => KeptInv'
  BY KeptStep
<1>3. TypeOK /\ CopyInv /\ ImagesInv /\ KeptInv => RollbackKept
  BY RollbackFromKept
<1> QED BY <1>1, <1>2, <1>3, InitImages, InitKept, ImagesTypeOK, ImagesCopies, PTL DEF Spec

=============================================================================
