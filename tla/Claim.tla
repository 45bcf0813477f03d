------------------------------- MODULE Claim --------------------------------
(***************************************************************************)
(* The reconcilers that keep one object of Uyuni, known by its label, for  *)
(* one resource: SoftwareChannel, Repository, ActivationKey, SystemGroup,  *)
(* ConfigurationChannel, CustomInfoKey, MaintenanceCalendar,               *)
(* MaintenanceSchedule, AutoinstallDistribution, AutoinstallProfile (three *)
(* modes) and ImageStore, each in its internal/controller/*_controller.go. *)
(*                                                                         *)
(* All follow one protocol: take the finalizer, wait for references, look  *)
(* the label up in Uyuni and create or adopt the object, bring its parts   *)
(* in line with the spec, write the status; on deletion remove the object  *)
(* and release the finalizer.  They differ in the order, in what they      *)
(* compare a part with, in which errors save the status, in whether they   *)
(* look for another resource that claims the label, and in what deletion   *)
(* asks.  Those differences are a Script of steps and a few predicates per *)
(* kind; the steps are the actions below.                                  *)
(*                                                                         *)
(* Two resources of one kind have the same label, as nothing at admission  *)
(* forbids.  The spec is abstracted to one value every part should have.   *)
(***************************************************************************)
EXTENDS Naturals, Sequences

CONSTANTS
    Kinds,      \* the kinds to look at
    Contended,  \* those of which there may be two resources of one label
    MaxGen,     \* bound: generations of a spec
    MaxEvents,  \* bound: edits, references undone, failures, crashes, stale
                \*        reads, deletions in Uyuni
    MaxContendedEvents \* the same, for the contended kinds

ASSUME ConstantsAssumption ==
    /\ Kinds \subseteq {"SoftwareChannel", "Repository", "ActivationKey",
           "SystemGroup", "ConfigurationChannel", "CustomInfoKey",
           "MaintenanceCalendar", "MaintenanceSchedule",
           "AutoinstallDistribution", "ManagedProfile", "ImportedProfile",
           "ExternalProfile", "ImageStore"}
    /\ Contended \subseteq Kinds
    /\ MaxGen \in Nat \ {0} /\ MaxEvents \in Nat
    /\ MaxContendedEvents \in Nat

VARIABLES
    kind,     \* the kind of both resources
    obj,      \* the resources in the API server
    cacheOld, \* resources written since the informer's copy of them
    passOld,  \* the pass's resource was written since the version it has read
    cache,    \* the informer's copies
    missing,  \* references that do not resolve now
    used,     \* another resource refers to these
    usedSeen, \* the informer's copy of that
    wk,       \* the controller's worker
    held,     \* the object in Uyuni
    made,     \* history: the operator created the object Uyuni has
    lost,     \* history: a pass created or adopted and its status was not saved
    untold,   \* history: parts whose record in the status is not what Uyuni has
    twice,    \* history: a pass claimed what another resource claims, as its
              \*          informer had not seen it or Uyuni had lost the object
    robbed,   \* history: the deletion of a resource that was not gone yet took
              \*          the object of another live one
    owed,     \* history: resources whose trigger was not served yet
    events    \* disturbances so far

apiObject == <<obj, cacheOld, passOld>>
kube == <<kind, apiObject, used>>
history == <<made, lost, untold, twice, robbed, owed>>
vars == <<kube, cache, missing, usedSeen, wk, held, history, events>>

----------------------------------------------------------------------------
(* Steps of a script.  Errors and waits keep what the pass put into the    *)
(* status where the code calls fail or Status().Update, and lose it where  *)
(* the code only returns the error.                                        *)

Await(r) == [do |-> "await", what |-> {r}, keeps |-> TRUE]
Realise == [do |-> "realise", what |-> {}, keeps |-> TRUE]
Put(parts) == [do |-> "put", what |-> parts, keeps |-> FALSE]
PutOrFail(parts) == [do |-> "put", what |-> parts, keeps |-> TRUE]
Serve(t) == [do |-> "serve", what |-> {t}, keeps |-> t = "refresh-now"]
Record == [do |-> "record", what |-> {}, keeps |-> FALSE]
Strip == [do |-> "strip", what |-> {}, keeps |-> FALSE]
Observe == [do |-> "observe", what |-> {}, keeps |-> TRUE]
Save == [do |-> "save", what |-> {}, keeps |-> FALSE]

----------------------------------------------------------------------------
(* The steps that are functions of their own in the code.                  *)

resolveParentChannel == Await("parentChannel")
resolveRepos == Await("repository")
syncPackageSource == PutOrFail({"packages"})
resolveSSL == Await("secret")
resolveSystemGroups == Await("group")
resolveKeyConfigChannels == Await("configChannel")
reconcileFormulas == PutOrFail({"formulas"})
resolveMembers == Await("member")
resolveGroupConfigChannels == Await("configChannel")
syncRepositoryFiles == PutOrFail({"files"})
resolveCalendar == Await("calendar")
resolveDesiredSystems == Await("system")
resolveChannelLabel == Await("channel")
resolveDistributionLabel == Await("distribution")
resolveChildChannels == Await("channel")
readSecret == Await("secret")
reconcileScripts == PutOrFail({"scripts"})
resolveCredentials == Await("secret")

(* The scripts, from the end of ensureFinalizer to the last status write.  *)

SoftwareChannel ==
    <<resolveParentChannel, Realise, Put({"details"}), resolveRepos,
      Put({"repositories"}), Put({"syncSchedule"}), Serve("sync-now"), Strip,
      Serve("create-sync"), syncPackageSource, Save>>

\* The URL check changes only the Ready condition; the status is saved.
Repository == <<resolveSSL, Realise, Put({"details"}), Save>>

ActivationKey ==
    <<Await("channel"), resolveSystemGroups, resolveKeyConfigChannels, Realise,
      Put({"details"}), Put({"childChannels"}), Put({"entitlements"}),
      Put({"keyConfigChannels"}), Put({"keyGroups"}), Save>>

SystemGroup ==
    <<Realise, Put({"details"}), Await("formula"), reconcileFormulas, Strip,
      resolveMembers, Put({"members"}), resolveGroupConfigChannels,
      Put({"configChannels"}), Save>>

ConfigurationChannel ==
    <<Realise, Put({"details"}), syncRepositoryFiles, Record, Strip, Save>>

CustomInfoKey == <<Realise, PutOrFail({"details"}), Save>>

MaintenanceCalendar ==
    <<Serve("refresh-now"), Record, Strip, Realise, PutOrFail({"details"}), Save>>

MaintenanceSchedule ==
    <<resolveCalendar, Realise, PutOrFail({"details"}), resolveDesiredSystems,
      PutOrFail({"systems"}), Save>>

\* One call updates the tree; the channel it had is only in the status.
AutoinstallDistribution ==
    <<resolveChannelLabel, Realise, PutOrFail({"details", "treeChannel"}), Save>>

\* spec.mode Managed, without kickstartContents.
ManagedProfile ==
    <<resolveDistributionLabel, resolveChildChannels, readSecret, Realise,
      PutOrFail({"options"}), PutOrFail({"profileChannels"}),
      PutOrFail({"variables"}), reconcileScripts, Save>>

\* spec.mode Managed, with kickstartContents: the imported file has the rest.
ImportedProfile ==
    <<resolveDistributionLabel, resolveChildChannels, readSecret, Realise,
      PutOrFail({"contents"}), PutOrFail({"profileChannels"}), Save>>

\* spec.mode External: the profile is Cobbler's, and only observed.
ExternalProfile == <<Observe, Save>>

ImageStore == <<resolveCredentials, Realise, PutOrFail({"options"}), Save>>

Scripts ==
    [SoftwareChannel |-> SoftwareChannel, Repository |-> Repository,
     ActivationKey |-> ActivationKey, SystemGroup |-> SystemGroup,
     ConfigurationChannel |-> ConfigurationChannel,
     CustomInfoKey |-> CustomInfoKey, MaintenanceCalendar |-> MaintenanceCalendar,
     MaintenanceSchedule |-> MaintenanceSchedule,
     AutoinstallDistribution |-> AutoinstallDistribution,
     ManagedProfile |-> ManagedProfile, ImportedProfile |-> ImportedProfile,
     ExternalProfile |-> ExternalProfile, ImageStore |-> ImageStore]

Script == Scripts[kind]

----------------------------------------------------------------------------
(* handleDeletion of each kind: what it deletes, the object that the       *)
(* status says the resource has or whatever has the label, and whether it  *)
(* waits for the resources that refer to this one.                         *)

Own == [deletes |-> "own", waits |-> FALSE]
Labelled == [deletes |-> "labelled", waits |-> FALSE]

DeleteSoftwareChannel == Own
DeleteRepository == [Own EXCEPT !.waits = TRUE]
DeleteActivationKey == Own
DeleteSystemGroup == Own
DeleteConfigurationChannel == Labelled
DeleteCustomInfoKey == [Labelled EXCEPT !.waits = TRUE]
DeleteMaintenanceCalendar == [Labelled EXCEPT !.waits = TRUE]
DeleteMaintenanceSchedule == Labelled
DeleteAutoinstallDistribution == Own
DeleteAutoinstallProfile == Own
DeleteExternalProfile == [deletes |-> "nothing", waits |-> FALSE]
DeleteImageStore == Labelled

Deletions ==
    [SoftwareChannel |-> DeleteSoftwareChannel, Repository |-> DeleteRepository,
     ActivationKey |-> DeleteActivationKey, SystemGroup |-> DeleteSystemGroup,
     ConfigurationChannel |-> DeleteConfigurationChannel,
     CustomInfoKey |-> DeleteCustomInfoKey,
     MaintenanceCalendar |-> DeleteMaintenanceCalendar,
     MaintenanceSchedule |-> DeleteMaintenanceSchedule,
     AutoinstallDistribution |-> DeleteAutoinstallDistribution,
     ManagedProfile |-> DeleteAutoinstallProfile,
     ImportedProfile |-> DeleteAutoinstallProfile,
     ExternalProfile |-> DeleteExternalProfile, ImageStore |-> DeleteImageStore]

Deletion == Deletions[kind]

----------------------------------------------------------------------------
(* What a part is compared with.                                           *)

\* With the object as it was read when it was looked up.
Snapshot == {"details", "childChannels", "entitlements", "keyConfigChannels",
             "keyGroups"}
\* With a fresh read.
Fresh == {"repositories", "syncSchedule", "members", "systems",
          "profileChannels", "variables"}
\* With what the status says was set.
Told == {"packages", "configChannels", "treeChannel", "contents"}
\* With nothing: pushed every time.
Pushed == {"options"}
\* With the names only: what is there stays as it is.
Named == {"scripts"}
\* formulas: with the generation last pushed; files: not at all, they are
\* synchronised the first time, when asked and when the schedule says so.
Other == {"formulas", "files"}

Recorded == Told \cup Other
Part == Snapshot \cup Fresh \cup Recorded \cup Pushed \cup Named
PartsOf == [k \in Kinds |->
    Part \cap UNION {Scripts[k][n].what : n \in DOMAIN Scripts[k]}]
Parts == PartsOf[kind]

ReferencesOf == [k \in Kinds |->
    UNION {Scripts[k][n].what : n \in {m \in DOMAIN Scripts[k] :
                                         Scripts[k][m].do = "await"}}]
References == ReferencesOf[kind]

\* What create sets besides the label.
CreateSets == {"details", "entitlements", "treeChannel", "contents", "options"}

\* Kinds with a trigger annotation: sync-now, refresh-now,
\* apply-formula-values.
Triggered == {"SoftwareChannel", "ConfigurationChannel", "MaintenanceCalendar",
              "SystemGroup"}

\* Kinds whose status gets the id as soon as the object is found; in the
\* others the last write sets it.
ClaimsEarly == {"SoftwareChannel", "Repository", "ActivationKey",
                "SystemGroup", "ConfigurationChannel"}

\* Kinds that refuse a label another resource has claimed.
ChecksOwner == {"SoftwareChannel", "ActivationKey", "SystemGroup",
                "ConfigurationChannel"}

----------------------------------------------------------------------------
(* Objects.                                                                *)

Res == {"a", "b"}
Value == {1, 2}
Rival(c) == CHOOSE d \in Res : d # c

\* claimed, told and observed are the status.
Resource ==
    [life : {"live", "deleting", "gone"}, finalizer : BOOLEAN,
     force : BOOLEAN, val : Value, gen : 1..MaxGen, trigger : BOOLEAN,
     claimed : BOOLEAN, told : [Parts \cap Recorded -> 0..(MaxGen + 1)],
     observed : 0..MaxGen]

NoObject == [st |-> "none", running |-> FALSE, cfg |-> [p \in Parts |-> 0]]
There == held.st = "there"

Idle == [pc |-> "idle"]

Init ==
    /\ kind \in Kinds
    /\ obj \in [Res -> [life : {"live", "gone"}, finalizer : {FALSE},
                        force : {FALSE}, val : Value, gen : {1},
                        trigger : {FALSE}, claimed : {FALSE},
                        told : {[p \in Parts \cap Recorded |-> 0]},
                        observed : {0}]]
    /\ obj["a"].life = "live" /\ obj["a"].val = 1 /\ obj["b"].val = 2
    /\ kind \notin Contended => obj["b"].life = "gone"
    /\ cache = obj /\ cacheOld = {} /\ passOld = FALSE
    /\ missing = {}
    /\ used \in [Res -> {FALSE}] /\ usedSeen = used
    /\ wk = Idle
    /\ held \in {NoObject, [NoObject EXCEPT !.st = "there"]}
    /\ made = FALSE /\ lost = FALSE /\ untold = {} /\ twice = FALSE
    /\ robbed = FALSE /\ owed = {}
    /\ events = 0

Event == /\ events < IF kind \in Contended THEN MaxContendedEvents ELSE MaxEvents
         /\ events' = events + 1

\* A write of another: a new version, for the informer and for the pass.
Overtaken(c) == /\ cacheOld' = cacheOld \cup {c}
                /\ passOld' = (passOld \/ (wk # Idle /\ wk.c = c))

Live(c) == obj[c].life = "live"
Exists(t) == t.life # "gone"
Alone(c) == ~Exists(obj[Rival(c)])

----------------------------------------------------------------------------
(* The user.  The webhooks, where there are any, keep the label fixed.     *)

UserWrites(c, new) ==
    /\ Live(c)
    /\ obj' = [obj EXCEPT ![c] = new] /\ Overtaken(c)
    /\ Event
    /\ UNCHANGED <<kind, used, cache, missing, usedSeen, wk, held, made, lost,
                   untold, twice, robbed>>

Edit(c) == /\ obj[c].gen < MaxGen
           /\ \E v \in Value \ {obj[c].val} :
                  UserWrites(c, [obj[c] EXCEPT !.val = v, !.gen = @ + 1])
           /\ UNCHANGED owed

Ask(c) == /\ kind \in Triggered /\ ~obj[c].trigger
          /\ UserWrites(c, [obj[c] EXCEPT !.trigger = TRUE])
          /\ owed' = owed \cup {c}

\* kubectl delete, after force-delete where the user gave up on Uyuni.
Delete(c, force) ==
    /\ Live(c)
    /\ obj' = [obj EXCEPT ![c].force = force,
                          ![c].life = IF obj[c].finalizer THEN "deleting" ELSE "gone"]
    /\ Overtaken(c)
    /\ IF force THEN Event ELSE UNCHANGED events
    /\ UNCHANGED <<kind, used, cache, missing, usedSeen, wk, held, history>>

\* A resource that refers to c appears, or its reference goes.
Use(c) == /\ Deletion.waits /\ Live(c) /\ ~used[c]
          /\ used' = [used EXCEPT ![c] = TRUE]
          /\ Event
          /\ UNCHANGED <<kind, apiObject, cache, missing, usedSeen, wk, held,
                         history>>

Unuse(c) == /\ used[c]
            /\ used' = [used EXCEPT ![c] = FALSE]
            /\ UNCHANGED <<kind, apiObject, cache, missing, usedSeen, wk, held,
                           history, events>>

User == \E c \in Res : Edit(c) \/ Ask(c) \/ Use(c) \/ Unuse(c)
                       \/ (\E f \in BOOLEAN : Delete(c, f))

----------------------------------------------------------------------------
(* The cluster and Uyuni.                                                  *)

CacheSync(c) == /\ c \in cacheOld \/ usedSeen[c] # used[c]
                /\ cache' = [cache EXCEPT ![c] = obj[c]]
                /\ cacheOld' = cacheOld \ {c}
                /\ usedSeen' = [usedSeen EXCEPT ![c] = used[c]]
                /\ UNCHANGED <<kind, obj, passOld, used, missing, wk, held, history,
                               events>>

\* A referenced resource goes, or comes back.
Vanish == \E r \in References \ missing :
    /\ missing' = missing \cup {r} /\ Event
    /\ UNCHANGED <<kube, cache, usedSeen, wk, held, history>>

Reappear == \E r \in missing :
    /\ missing' = missing \ {r}
    /\ UNCHANGED <<kube, cache, usedSeen, wk, held, history, events>>

\* Someone deletes the object in Uyuni.
AdminDeletes == /\ There
                /\ held' = NoObject /\ made' = FALSE
                /\ Event
                /\ UNCHANGED <<kube, cache, missing, usedSeen, wk, lost, untold,
                               twice, robbed, owed>>

\* Someone makes an object with this label, or makes it again: what a status
\* or the pass's copy tells of the one before is then not what Uyuni has.
AdminCreates ==
    /\ ~There
    /\ held' = [NoObject EXCEPT !.st = "there"] /\ made' = FALSE
    /\ untold' = untold \cup
           {p \in Parts \cap Recorded : \/ \E c \in Res : obj[c].told[p] # 0
                                       \/ (wk # Idle /\ wk.t.told[p] # 0)}
    /\ Event
    /\ UNCHANGED <<kube, cache, missing, usedSeen, wk, lost, twice, robbed, owed>>

\* A repository sync ends.
SyncEnds == /\ held.running
            /\ held' = [held EXCEPT !.running = FALSE]
            /\ UNCHANGED <<kube, cache, missing, usedSeen, wk, history, events>>

----------------------------------------------------------------------------
(* The steps of a pass.  wk.t is the pass's copy, wk.cur the object as     *)
(* looked up, wk.new says that the pass has created or adopted the object, *)
(* wk.created that it has created it, wk.hit that the trigger was served or *)
(* the files were synchronised.  A write must find the resource version the *)
(* pass has read or written last: passOld.                                 *)

Now == Script[wk.n]
At(do) == wk.pc = "step" /\ Now.do = do
In(pc) == wk.pc = pc

\* The status shows that the resource has an object: its id, or the hash of
\* the contents that were imported.
Claimed(t) == t.claimed \/ ("contents" \in DOMAIN t.told /\ t.told["contents"] # 0)

\* The pass's writes to Uyuni that no status tells any more.
Lost ==
    /\ wk' = Idle
    /\ lost' = (lost \/ (wk.new /\ ~Claimed(obj[wk.c])))
    /\ untold' = untold \cup {p \in DOMAIN wk.t.told :
                                wk.t.told[p] # obj[wk.c].told[p]}
    /\ passOld' = FALSE
    /\ UNCHANGED <<obj, cacheOld, made, twice, robbed, owed>>

\* A write of t that nobody else's write came before; one that changes
\* nothing makes no new version.
Written(t) == /\ ~passOld
              /\ obj' = [obj EXCEPT ![wk.c] = t]
              /\ cacheOld' = cacheOld \cup (IF t = obj[wk.c] THEN {} ELSE {wk.c})
              /\ UNCHANGED passOld

\* The pass ends with a write of t, if nobody wrote in between.
SaveAndEnd(t) ==
    \/ /\ Written(t) /\ wk' = Idle
       /\ lost' = (lost \/ (wk.new /\ ~Claimed(t)))
       /\ UNCHANGED <<made, untold, twice, robbed, owed>>
    \/ passOld /\ Lost

\* An error: saved by fail, or only returned.
Fail == IF Now.keeps THEN SaveAndEnd(wk.t) ELSE Lost

Go(t) == /\ wk' = [wk EXCEPT !.n = @ + 1, !.t = t]
         /\ UNCHANGED apiObject

Quiet == UNCHANGED <<kind, used, cache, missing, usedSeen, held, events>>

Begin(c) ==
    /\ wk = Idle /\ Exists(cache[c])
    /\ wk' = [pc |-> IF cache[c].life = "deleting" THEN "delete"
                     ELSE IF cache[c].finalizer THEN "step" ELSE "finalizer",
              c |-> c, n |-> 1, t |-> cache[c],
              cur |-> NoObject, new |-> FALSE, created |-> FALSE, hit |-> FALSE]
    /\ passOld' = (c \in cacheOld)
    /\ IF c \in cacheOld THEN Event ELSE UNCHANGED events
    /\ UNCHANGED <<kind, obj, cacheOld, used, cache, missing, usedSeen, held,
                   history>>

EnsureFinalizer == /\ In("finalizer")
                   /\ SaveAndEnd([wk.t EXCEPT !.finalizer = TRUE])
                   /\ Quiet

AwaitReference ==
    /\ At("await")
    /\ IF Now.what \cap missing = {} THEN Go(wk.t) /\ UNCHANGED history
       ELSE SaveAndEnd(wk.t)
    /\ Quiet

----------------------------------------------------------------------------
(* Create or adopt.                                                        *)

\* mutant: nobody looks for another claim
NobodyElse(t) == FALSE

\* Another resource of this label has an id in its status.
ManagedByOther(t) == kind \in ChecksOwner
                     /\ LET d == cache[Rival(wk.c)] IN Exists(d) /\ d.claimed

\* The status after the lookup.  fetchExisting sets the key before the
\* check, and the status that reports the conflict has it.
Adopted(t) == IF kind \in ClaimsEarly THEN [t EXCEPT !.claimed = TRUE] ELSE t
Refused(t) == IF kind = "ActivationKey" THEN [t EXCEPT !.claimed = TRUE] ELSE t

ClaimedByOther == LET d == obj[Rival(wk.c)] IN Exists(d) /\ d.claimed

Create(t) ==
    /\ held' = [NoObject EXCEPT !.st = "there",
                    !.cfg = [p \in Parts |-> IF p \in CreateSets THEN t.val ELSE 0]]
    /\ made' = TRUE

\* The record of what an object had that is no longer there.
Orphaned(t) == {p \in DOMAIN t.told : t.told[p] # 0 /\ p \notin CreateSets}

\* What create tells the status at once.
Told0(t) == [t EXCEPT !.told = [p \in DOMAIN @ |->
                IF p \in {"contents"} THEN t.val ELSE @[p]]]

\* The object is there: it is adopted, or another resource has claimed it.
\* The list of the other resources is the informer's, and commutes with all
\* that happens in Uyuni after the lookup.
LookUp ==
    /\ At("realise")
    /\ UNCHANGED <<kind, used, cache, missing, usedSeen, held, events>>
    /\ \/ /\ There /\ ManagedByOther(wk.t)
          /\ SaveAndEnd(Refused(wk.t))
       \/ /\ There /\ ~ManagedByOther(wk.t)
          /\ wk' = [wk EXCEPT !.n = @ + 1, !.t = Adopted(wk.t), !.cur = held,
                              !.new = ~wk.t.claimed]
          /\ twice' = (twice \/ (ClaimedByOther /\ cache[Rival(wk.c)] # obj[Rival(wk.c)]))
          /\ UNCHANGED <<apiObject, made, lost, untold, robbed, owed>>
       \/ /\ ~There
          /\ wk' = [wk EXCEPT !.pc = "create"]
          /\ UNCHANGED <<apiObject, history>>

\* Someone else made the object since the lookup: "already exists" is a
\* ChannelLabelConflict, a GroupNameConflict or a failure, saved all the same.
\* The read after create is no step: when it fails the status is saved without
\* the id, which a crash before the next step loses as well.
CreateObject ==
    /\ In("create")
    /\ UNCHANGED <<kind, used, cache, missing, usedSeen, events>>
    /\ \/ There /\ SaveAndEnd(wk.t) /\ UNCHANGED held
       \/ /\ ~There
          /\ Create(wk.t)
          /\ untold' = untold \cup Orphaned(wk.t)
          /\ wk' = [wk EXCEPT !.pc = IF kind = "ActivationKey" THEN "saveKey" ELSE "step",
                              !.n = @ + 1, !.t = Told0(Adopted(wk.t)),
                              !.cur = held', !.new = TRUE, !.created = TRUE]
          /\ twice' = (twice \/ ClaimedByOther)
          /\ UNCHANGED <<apiObject, lost, robbed, owed>>

\* A new activation key: its name is saved, the next pass does the rest.
SaveKey == /\ In("saveKey")
           /\ SaveAndEnd(wk.t)
           /\ Quiet

----------------------------------------------------------------------------
(* Bringing parts in line.                                                 *)

\* Formula data goes out for a new generation or when asked.
applyData(p, t) == t.trigger \/ t.told[p] # t.gen

\* shouldSync: asked, or never before; the schedule is time's choice.
shouldSync(p, t) == t.trigger \/ t.told[p] = 0

Differs(p) ==
    LET t == wk.t
    IN CASE p \in Snapshot -> wk.cur.cfg[p] # t.val
         [] p \in Fresh -> held.cfg[p] # t.val
         [] p \in Told -> t.told[p] # t.val
         [] p \in Pushed -> TRUE
         [] p \in Named -> held.cfg[p] = 0
         [] p = "formulas" -> applyData(p, t)
         [] p = "files" -> shouldSync(p, t)

\* formulas tell their generation, files that they were synchronised.
Tell(t, parts) ==
    [t EXCEPT !.told = [p \in DOMAIN @ |->
        IF p \notin parts THEN @[p]
        ELSE IF p = "formulas" THEN t.gen ELSE t.val]]

\* The status of the other resource tells what this pass changes.
ToldByRival(p) == LET d == obj[Rival(wk.c)] IN Exists(d) /\ d.told[p] # 0

PutParts ==
    /\ At("put")
    /\ UNCHANGED <<kind, used, cache, missing, usedSeen, events>>
    /\ LET must == \E p \in Now.what : Differs(p)
           may == must \/ "files" \in Now.what
       IN \/ /\ ~must
             /\ Go(wk.t)
             /\ UNCHANGED <<held, history>>
          \/ /\ may /\ ~There
             /\ Fail
             /\ UNCHANGED held
          \/ /\ may /\ There
             /\ held' = [held EXCEPT !.cfg = [p \in Parts |->
                            IF p \in Now.what THEN wk.t.val ELSE @[p]]]
             /\ wk' = [wk EXCEPT !.n = @ + 1, !.t = Tell(wk.t, Now.what),
                          !.hit = @ \/ Now.what \cap Other # {}]
             /\ owed' = IF Now.what \cap Other # {} THEN owed \ {wk.c} ELSE owed
             /\ untold' = untold \cup {p \in Now.what \cap Recorded : ToldByRival(p)}
             /\ UNCHANGED <<apiObject, made, lost, twice, robbed>>

----------------------------------------------------------------------------
(* Triggers.                                                               *)

\* A sync that was running when the channel was looked up is not repeated,
\* and the annotation is stripped all the same.
SyncChannelNow ==
    /\ At("serve") /\ Now.what = {"sync-now"}
    /\ UNCHANGED <<kind, used, cache, missing, usedSeen, events>>
    /\ LET asked == wk.t.trigger
       IN \/ /\ ~asked \/ wk.cur.running
             /\ wk' = [wk EXCEPT !.n = @ + 1, !.hit = asked]
             /\ UNCHANGED <<apiObject, held, history>>
          \/ /\ asked /\ ~wk.cur.running /\ There
             /\ held' = [held EXCEPT !.running = TRUE]
             /\ wk' = [wk EXCEPT !.n = @ + 1, !.hit = asked]
             /\ owed' = owed \ {wk.c}
             /\ UNCHANGED <<apiObject, made, lost, untold, twice, robbed>>
          \/ /\ asked /\ ~wk.cur.running /\ ~There
             /\ Fail
             /\ UNCHANGED held

\* After the strip, in the pass that created the channel: spec.sync may ask
\* for a first sync.
SyncOnCreate ==
    /\ At("serve") /\ Now.what = {"create-sync"}
    /\ UNCHANGED <<kind, used, cache, missing, usedSeen, events>>
    /\ LET may == wk.created /\ ~wk.cur.running
       IN \/ Go(wk.t) /\ UNCHANGED <<held, history>>
          \/ /\ may /\ There
             /\ held' = [held EXCEPT !.running = TRUE]
             /\ Go(wk.t)
             /\ UNCHANGED history
          \/ may /\ ~There /\ Fail /\ UNCHANGED held

\* mutant: the error is only logged
RefreshErrorIgnored == /\ wk.t.trigger /\ ~There
                       /\ wk' = [wk EXCEPT !.n = @ + 1, !.hit = TRUE]
                       /\ UNCHANGED <<apiObject, history>>

RefreshFails == wk.t.trigger /\ ~There /\ Fail

\* refresh-now comes before the calendar is looked up: without a calendar it
\* fails, and the pass with it.
RefreshCalendar ==
    /\ At("serve") /\ Now.what = {"refresh-now"}
    /\ Quiet
    /\ \/ /\ ~wk.t.trigger
          /\ Go(wk.t)
          /\ UNCHANGED history
       \/ /\ wk.t.trigger /\ There
          /\ wk' = [wk EXCEPT !.n = @ + 1, !.hit = TRUE]
          /\ owed' = owed \ {wk.c}
          /\ UNCHANGED <<apiObject, made, lost, untold, twice, robbed>>
       \/ RefreshFails

\* The status write between serving a trigger and stripping it.
RecordServed ==
    /\ At("record")
    /\ \/ ~wk.hit /\ Go(wk.t) /\ UNCHANGED history
       \/ /\ wk.hit
          /\ Written(wk.t)
          /\ wk' = [wk EXCEPT !.n = @ + 1]
          /\ UNCHANGED history
       \/ wk.hit /\ passOld /\ Lost
    /\ Quiet

\* The annotation goes with an Update, which leaves the status alone.  After
\* refresh-now the pass ends and asks for another.
StripTrigger ==
    /\ At("strip")
    /\ LET strip == wk.hit /\ wk.t.trigger
           stored == [obj[wk.c] EXCEPT !.trigger = FALSE]
       IN \/ ~strip /\ Go(wk.t) /\ UNCHANGED history
          \/ /\ strip
             /\ Written(stored)
             /\ wk' = IF kind = "MaintenanceCalendar" THEN Idle
                      ELSE [wk EXCEPT !.n = @ + 1, !.t.trigger = FALSE]
             /\ UNCHANGED history
          \/ strip /\ passOld /\ Lost
    /\ Quiet

----------------------------------------------------------------------------
(* The end of a pass.                                                      *)

\* The external profile is there, or the pass waits.
ObserveProfile ==
    /\ At("observe")
    /\ IF There THEN Go(wk.t) /\ UNCHANGED history
       ELSE SaveAndEnd([wk.t EXCEPT !.observed = wk.t.gen])
    /\ Quiet

SaveReconciled ==
    /\ At("save")
    /\ LET t == [wk.t EXCEPT !.claimed = TRUE, !.observed = wk.t.gen]
       IN \/ /\ Written(t) /\ wk' = Idle
             /\ untold' = {p \in untold : held.cfg[p] # t.val \/ ~Alone(wk.c)}
             /\ UNCHANGED <<made, lost, twice, robbed, owed>>
          \/ passOld /\ Lost
    /\ Quiet

----------------------------------------------------------------------------
(* handleDeletion.                                                         *)

\* mutant: a resource counts as its own user
CountsItself == Deletion.waits

\* isInUse, referencingSystems, referencingSchedules: lists of the informer.
InUse == Deletion.waits /\ usedSeen[wk.c]

\* mutant: what has the label but is not in the status stays
OnlyClaimed(t) == Deletion.deletes # "nothing" /\ t.claimed

MustDelete(t) == \/ Deletion.deletes = "labelled"
                 \/ Deletion.deletes = "own" /\ Claimed(t)

DeleteObject ==
    /\ In("delete") /\ ~wk.t.force
    /\ UNCHANGED <<kind, used, cache, missing, usedSeen, events>>
    /\ \/ /\ InUse
          /\ SaveAndEnd(wk.t)
          /\ UNCHANGED held
       \/ /\ ~InUse
          /\ wk' = [wk EXCEPT !.pc = "release"]
          /\ held' = IF MustDelete(wk.t) THEN NoObject ELSE held
          /\ made' = (made /\ ~MustDelete(wk.t))
          /\ LET d == Rival(wk.c)
             IN robbed' = (robbed \/ (/\ MustDelete(wk.t) /\ There
                                      /\ Live(d) /\ obj[d].claimed
                                      /\ Exists(obj[wk.c])))
          /\ UNCHANGED <<apiObject, lost, untold, twice, owed>>

ReleaseFinalizer == /\ In("release") \/ (In("delete") /\ wk.t.force)
                    /\ SaveAndEnd([wk.t EXCEPT !.life = "gone"])
                    /\ Quiet

----------------------------------------------------------------------------
(* Faults.                                                                 *)

\* A call to Uyuni fails, and the pass with it; the lookup of an activation
\* key takes any error for an absence.
CallFails == /\ wk.pc \in {"step", "create"}
             /\ Now.do \in {"realise", "put", "serve"}
             /\ Fail /\ Event
             /\ UNCHANGED <<kind, used, cache, missing, usedSeen, held>>

DeleteFails == /\ In("delete") /\ ~wk.t.force /\ MustDelete(wk.t)
               /\ Lost /\ Event
               /\ UNCHANGED <<kind, used, cache, missing, usedSeen, held>>

Crash == /\ wk # Idle
         /\ Lost /\ Event
         /\ UNCHANGED <<kind, used, cache, missing, usedSeen, held>>

Pass == \/ EnsureFinalizer \/ AwaitReference \/ LookUp \/ CreateObject
        \/ SaveKey \/ PutParts \/ SyncChannelNow \/ RefreshCalendar
        \/ RecordServed \/ StripTrigger \/ SyncOnCreate \/ ObserveProfile
        \/ SaveReconciled \/ DeleteObject \/ ReleaseFinalizer

Next == \/ User \/ Vanish \/ Reappear \/ AdminDeletes \/ AdminCreates
        \/ SyncEnds \/ Pass \/ CallFails \/ DeleteFails \/ Crash
        \/ (\E c \in Res : CacheSync(c) \/ Begin(c))

Spec == Init /\ [][Next]_vars

\* Every pass asks for another (RequeueAfter, or the retry of an error), and
\* the informer catches up.  Nothing is assumed of users, of references or of
\* Uyuni.
FairSpec == /\ Spec /\ WF_vars(Pass)
            /\ \A c \in Res : WF_vars(CacheSync(c)) /\ SF_vars(Begin(c))

----------------------------------------------------------------------------
(* Properties.                                                             *)

\* Every variable has its type.
TypeOK ==
    /\ kind \in Kinds
    /\ obj \in [Res -> Resource] /\ cache \in [Res -> Resource]
    /\ missing \subseteq References
    /\ used \in [Res -> BOOLEAN] /\ usedSeen \in [Res -> BOOLEAN]
    /\ cacheOld \subseteq Res /\ passOld \in BOOLEAN
    /\ wk = Idle \/ /\ wk.t \in Resource
                    /\ wk.n \in 1..(Len(Script) + 1)
    /\ held.st \in {"none", "there"} /\ held.cfg \in [Parts -> Value \cup {0}]
    /\ untold \subseteq Parts /\ owed \subseteq Res

\* Deleting a resource never takes the object of another live one that has
\* claimed it, for the kinds that look for another claim and delete only what
\* they have, unless both came to claim it: on an informer that had not seen
\* the other's claim, or by creating anew what was deleted in Uyuni, where
\* nothing looks for another claim.  A pass that deletes once more, as its
\* informer has not seen the resource go, is not meant: it takes whatever has
\* the label by then.
OthersKeepTheirs ==
    kind \in {"SoftwareChannel", "SystemGroup"} /\ robbed => twice

\* The ChannelLabelConflict check keeps two resources from claiming one
\* label.
LabelClaimedOnce ==
    ~(\A c \in Res : Live(c) /\ obj[c].claimed)

\* When the last resource is gone, without force-delete, nothing the operator
\* created is left, unless a pass created or adopted it and its status was
\* lost: the kinds that delete by the status then leave it.
NothingLeftBehind ==
    (\A c \in Res : ~Exists(obj[c]) /\ ~obj[c].force) /\ made
    => lost /\ Deletion.deletes = "own"

\* The trigger annotations of these kinds, sync-now of a channel aside, are
\* stripped only after what they ask for was done.
OneShot == INSTANCE Trigger WITH
    Asker <- Res,
    asked <- {c \in Res : kind # "SoftwareChannel" /\ Live(c) /\ obj[c].trigger},
    owed <- {c \in owed : kind # "SoftwareChannel" /\ Live(c)}

TriggersServed == OneShot!Spec

\* A sync that was asked for and not submitted still has its annotation.
SyncNotForgotten ==
    \A c \in owed : Live(c) => obj[c].trigger

\* Parts that no pass compares with Uyuni once they are set.
Unwatched == untold \cup Named \cup (Other \cap {"files"})

\* A resource that is alone with its label and has its references gets its
\* object, with all of its parts as the spec has them, and says so; a
\* resource that is deleted and not in use goes.  A calendar that is asked to
\* refresh before it exists is the exception: the refresh fails every pass
\* before the pass could create it.
ClaimsConverge == <>[](\A c \in Res : Alone(c) =>
    /\ Live(c) /\ missing = {} /\ kind # "ExternalProfile"
         /\ ~(kind = "MaintenanceCalendar" /\ obj[c].trigger /\ ~There)
       => /\ There /\ obj[c].claimed /\ obj[c].observed = obj[c].gen
          /\ \A p \in Parts \ Unwatched : held.cfg[p] = obj[c].val
    /\ obj[c].life = "deleting" => used[c])

============================================================================
