------------------------------- MODULE System -------------------------------
(***************************************************************************)
(* One System resource and the machine it describes: the reconciler        *)
(* internal/controller/system_controller.go, which finds or pre-creates    *)
(* the system in Uyuni, serves the reinstall annotation, subscribes        *)
(* channels, applies the other configuration and deletes.  The Cobbler     *)
(* record and the netboot annotation of the same pass are in module        *)
(* Netboot.                                                                *)
(*                                                                         *)
(* What a System configures is an aspect.  Live aspects are compared with  *)
(* what Uyuni holds; told aspects only with what the status says was set;  *)
(* formula data only with the generation it was last pushed for.  The      *)
(* spec is abstracted to one value that every aspect and the channels      *)
(* should have.                                                            *)
(***************************************************************************)
EXTENDS Naturals, Sequences, SequencesExt, FiniteSetsExt

CONSTANTS
    Aspect,     \* the aspects the spec sets
    Ref,        \* references that may come undone
    MaxSystem,  \* bound: systems Uyuni ever has
    MaxGen,     \* bound: generations of the spec
    MaxEvents   \* bound: edits after creation, failures, crashes, stale reads

Told == {"configChannels", "groups", "proxy"}
Live == {"details", "addOns", "customInfo"}
Order == <<"configChannels", "groups", "addOns", "customInfo", "formulas",
           "proxy">>
Refs == {"channel", "configChannel", "group", "customInfoKey", "formula",
         "proxySystem", "proxyFQDN", "profile"}

ASSUME ConstantsAssumption ==
    /\ Aspect \subseteq Told \cup Live \cup {"formulas"}
    /\ Ref \subseteq Refs
    /\ MaxSystem \in Nat \ {0} /\ MaxGen \in Nat \ {0} /\ MaxEvents \in Nat

VARIABLES
    obj,      \* the System in the API server
    cache,    \* the informer's copy of it
    cacheOld, \* obj has been written since that version
    passOld,  \* obj has been written since the version the pass has read
    ready,    \* references that resolve
    late,     \* the adoption deadline has passed
    armed,    \* the workqueue holds the System, now or by a timer
    wk,       \* the controller's worker
    sys,      \* Uyuni: the systems
    acts,     \* Uyuni: the channel changes scheduled, oldest first
    owed,     \* history: a reinstall was asked for and not yet scheduled
    extra,    \* history: a reinstall was scheduled for an annotation served
              \*          and stripped before
    untold,   \* history: aspects whose record in the status is lost or is that
              \*          of another system
    abandoned,\* history: systems whose id the status lost or let go
    events    \* disturbances so far

apiObject == <<obj, cacheOld, passOld>>
kube == <<apiObject, ready, late>>
uyuni == <<sys, acts>>
history == <<owed, extra, untold, abandoned>>
vars == <<kube, cache, armed, wk, uyuni, history, events>>

----------------------------------------------------------------------------
(* Objects.                                                                *)

SystemID == 1..MaxSystem
Value == {1, 2}
Hostname == {"h1", "h2"}        \* "h1" is the machine's own

\* srv, phase, ptt, told, fgen, act and observed are the status; ptt says
\* that phaseTransitionTime is set.
SystemObject ==
    [life : {"live", "deleting", "gone"}, finalizer : BOOLEAN,
     force : BOOLEAN, policy : {"Delete", "Orphan"}, preCreate : BOOLEAN,
     mac : BOOLEAN, hostname : Hostname, val : Value, gen : 1..MaxGen,
     reinstall : BOOLEAN, applyFormulas : BOOLEAN,
     srv : SystemID \cup {0},
     phase : {"", "PreProvisioned", "Reprovisioning", "Reconciled"},
     ptt : BOOLEAN, told : [Aspect \cap Told -> Value \cup {0}],
     fgen : 0..MaxGen, act : Nat, observed : 0..MaxGen]

Machine == [st : {"none", "boot", "salt", "gone"}, host : Hostname \cup {"none"},
            mac : BOOLEAN, sub : Value \cup {0}, repo : Value \cup {0},
            cfg : [Aspect -> Value \cup {0}]]

ChannelAction == [srv : SystemID, ch : Value,
                  st : {"Queued", "Completed", "Failed"}, seen : BOOLEAN]

Absent == [st |-> "none", host |-> "none", mac |-> FALSE, sub |-> 0,
           repo |-> 0, cfg |-> [a \in Aspect |-> 0]]
Removed == [Absent EXCEPT !.st = "gone"]

Alive(i) == i # 0 /\ sys[i].st \in {"boot", "salt"}
Registered == {i \in SystemID : sys[i].st = "salt"}
Fresh == {i \in SystemID : sys[i].st = "none"}
Exists(t) == t.life # "gone"

\* A pass: what it still has to apply is todo.
Worker == [pc : {"finalizer", "find", "notRegistered", "recordProfile", "reinstall",
                 "recordReinstall", "strip", "details", "channels", "aspects",
                 "stripFormulas", "delete", "release"},
           t : SystemObject, boot : BOOLEAN, todo : SUBSET Aspect]
Idle == [pc |-> "idle"]

Init ==
    /\ obj \in [life : {"live"}, finalizer : {FALSE}, force : {FALSE},
                policy : {"Delete"}, preCreate : BOOLEAN,
                mac : BOOLEAN, hostname : {"h1"}, val : {1}, gen : {1},
                reinstall : {FALSE}, applyFormulas : {FALSE}, srv : {0},
                phase : {""}, ptt : {FALSE},
                told : {[a \in Aspect \cap Told |-> 0]}, fgen : {0},
                act : {0}, observed : {0}]
    /\ obj.mac => obj.preCreate
    /\ cache = obj /\ cacheOld = FALSE /\ passOld = FALSE
    /\ ready = Refs
    /\ late = FALSE /\ armed = TRUE
    /\ wk = Idle
    /\ sys = [i \in SystemID |-> Absent]
    /\ acts = <<>>
    /\ owed = FALSE /\ extra = FALSE /\ untold = {} /\ abandoned = {}
    /\ events = 0

Event == events < MaxEvents /\ events' = events + 1

\* A write of another: a new version, for the informer and for the pass.
Overtaken == cacheOld' = TRUE /\ passOld' = (wk.pc # "idle")

----------------------------------------------------------------------------
(* The user.  The webhook (internal/webhook/system_webhook.go) keeps       *)
(* minionId fixed and admits reinstall-now only with spec.autoinstall,     *)
(* which this System has.                                                  *)

\* ValidateUpdate: the identity of the machine never changes.
ValidateUpdate(old, new) ==
    /\ new.preCreate = old.preCreate
    /\ new.mac => new.preCreate

UserWrites(new) ==
    /\ obj.life = "live"
    /\ ValidateUpdate(obj, new)
    /\ obj' = new /\ Overtaken
    /\ Event
    /\ UNCHANGED <<cache, ready, late, armed, wk, uyuni, extra, untold, abandoned>>

Edit == /\ obj.gen < MaxGen
        /\ \E v \in Value \ {obj.val} :
               UserWrites([obj EXCEPT !.val = v, !.gen = @ + 1])
        /\ UNCHANGED owed

Rename == /\ obj.gen < MaxGen
          /\ \E h \in Hostname \ {obj.hostname} :
                 UserWrites([obj EXCEPT !.hostname = h, !.gen = @ + 1])
          /\ UNCHANGED owed

AskReinstall == /\ ~obj.reinstall
                /\ UserWrites([obj EXCEPT !.reinstall = TRUE])
                /\ owed' = TRUE

AskFormulas == /\ ~obj.applyFormulas
               /\ UserWrites([obj EXCEPT !.applyFormulas = TRUE])
               /\ UNCHANGED owed

\* kubectl delete; the policy is Delete, or was edited or overridden by
\* force-delete before.
Delete(force, policy) ==
    /\ obj.life = "live"
    /\ obj' = [obj EXCEPT !.force = force, !.policy = policy,
                          !.life = IF obj.finalizer THEN "deleting" ELSE "gone"]
    /\ Overtaken
    /\ IF force \/ policy = "Orphan" THEN Event ELSE UNCHANGED events
    /\ UNCHANGED <<ready, late, cache, armed, wk, uyuni, history>>

User == Edit \/ Rename \/ AskReinstall \/ AskFormulas
        \/ (\E f \in BOOLEAN, p \in {"Delete", "Orphan"} : Delete(f, p))

----------------------------------------------------------------------------
(* The cluster and Uyuni.                                                  *)

\* The informer catches up; a watch event queues the System.
CacheSync == /\ cacheOld
             /\ cache' = obj /\ cacheOld' = FALSE /\ armed' = TRUE
             /\ UNCHANGED <<obj, passOld, ready, late, wk, uyuni, history, events>>

\* The resource that realises a reference becomes ready; the watches of
\* SetupWithManager queue the System.
Realise == \E r \in Refs \ ready :
    /\ ready' = ready \cup {r} /\ armed' = TRUE
    /\ UNCHANGED <<apiObject, late, cache, wk, uyuni, history, events>>

\* A referenced resource is deleted or not there yet.
Vanish == \E r \in Ref \cap ready :
    /\ ready' = ready \ {r}
    /\ Event
    /\ UNCHANGED <<apiObject, late, cache, armed, wk, uyuni, history>>

DeadlinePasses == /\ obj.ptt /\ ~late
                  /\ late' = TRUE
                  /\ Event
                  /\ UNCHANGED <<apiObject, ready, cache, armed, wk, uyuni, history>>

\* The machine's minion registers.  Uyuni turns the profile that waits for
\* its hardware address or hostname into the registered system.
Register ==
    /\ Registered = {}
    /\ LET waiting == {i \in SystemID :
                         sys[i].st = "boot" /\ (sys[i].mac \/ sys[i].host = "h1")}
       IN \E i \in IF waiting # {} THEN waiting ELSE Fresh :
              sys' = [sys EXCEPT ![i].st = "salt", ![i].host = "h1",
                                 ![i].mac = TRUE]
    /\ UNCHANGED <<kube, cache, armed, wk, acts, history, events>>

\* Someone deletes the system in Uyuni.
AdminDeletes == \E i \in Registered :
    /\ sys' = [sys EXCEPT ![i] = Removed]
    /\ Event
    /\ UNCHANGED <<kube, cache, armed, wk, acts, history>>

\* Minions run their actions in order: a channel change rewrites the repo
\* file or fails.  Only failures count as events.
RunAction(ok) == \E n \in DOMAIN acts :
    /\ acts[n].st = "Queued"
    /\ \A k \in 1..(n - 1) : acts[k].st # "Queued"
    /\ sys[acts[n].srv].st # "boot"
    /\ acts' = [acts EXCEPT ![n].st = IF ok THEN "Completed" ELSE "Failed"]
    /\ sys' = IF ok /\ Alive(acts[n].srv)
              THEN [sys EXCEPT ![acts[n].srv].repo = acts[n].ch] ELSE sys
    /\ IF ok THEN UNCHANGED events ELSE Event
    /\ UNCHANGED <<kube, cache, armed, wk, history>>

\* The minion checks in, after a failed change.
CheckIn == \E n \in DOMAIN acts :
    /\ acts[n].st = "Failed" /\ ~acts[n].seen
    /\ acts' = [acts EXCEPT ![n].seen = TRUE]
    /\ UNCHANGED <<kube, cache, armed, wk, sys, history, events>>

Uyuni == Exists(obj) /\ (Register \/ AdminDeletes \/ CheckIn \/ (\E ok \in BOOLEAN : RunAction(ok)))

----------------------------------------------------------------------------
(* Resolving references (30 seconds later the pass tries again).           *)

resolveChannelRefs == "channel" \in ready
resolveOrderedConfigChannels == "configChannel" \in ready
resolveGroupMembership == "group" \in ready
resolveCustomInfoValues == "customInfoKey" \in ready
syncFormulasAvailable == "formula" \in ready
resolveProfileLabel == "profile" \in ready

\* A proxy is another System, or a Proxy whose FQDN is registered.
resolveProxyID == ready \cap {"proxySystem", "proxyFQDN"} # {}

Resolves(a) ==
    CASE a = "configChannels" -> resolveOrderedConfigChannels
      [] a = "groups" -> resolveGroupMembership
      [] a = "customInfo" -> resolveCustomInfoValues
      [] a = "formulas" -> syncFormulasAvailable
      [] a = "proxy" -> resolveProxyID
      [] OTHER -> TRUE

----------------------------------------------------------------------------
(* The steps of a pass.  wk.t is the pass's copy, wk.boot the entitlement  *)
(* read when the system was looked up.  A write must find the resource     *)
(* version the pass has read or written last: passOld.                     *)

At(pc) == wk.pc = pc
Step(pc, t) == wk' = [wk EXCEPT !.pc = pc, !.t = t]

\* What the pass has set and its copy of the status tells, but not obj.
Unrecorded == {a \in Aspect \cap Told : wk.t.told[a] # obj.told[a]}

\* The pass ends and its copy is not written.
Lost == /\ wk' = Idle
        /\ untold' = untold \cup Unrecorded
        /\ abandoned' = abandoned \cup
               (IF At("recordProfile") THEN {wk.t.srv} \ {0} ELSE {})
        /\ passOld' = FALSE
        /\ UNCHANGED <<obj, cacheOld, owed, extra>>

\* A write of t that nobody else's write came before; one that changes
\* nothing makes no new version.
Written(t) ==
    /\ ~passOld
    /\ obj' = t /\ cacheOld' = (cacheOld \/ t # obj)
    /\ UNCHANGED passOld
    /\ abandoned' = (abandoned \cup ({obj.srv} \ {0})) \ {t.srv}
    /\ UNCHANGED <<owed, extra>>

\* The configuration of another system than before is nobody's record.
NewSystem(t) ==
    IF t.srv = obj.srv \/ (obj.observed = 0 /\ obj.fgen = 0
                             /\ \A a \in DOMAIN obj.told : obj.told[a] = 0)
    THEN untold ELSE Aspect

\* The pass ends with a write of t, if nobody wrote in between.
SaveAndEnd(t) == \/ Written(t) /\ wk' = Idle /\ UNCHANGED untold
                 \/ passOld /\ Lost

\* fail: an Uyuni call fails; what was set so far is saved with the error.
Fail == SaveAndEnd(wk.t)

Quiet == UNCHANGED <<ready, late, cache, armed, uyuni, events>>

Begin ==
    /\ At("idle") /\ armed /\ Exists(cache)
    /\ wk' = [pc |-> IF cache.life = "deleting" THEN "delete"
                     ELSE IF cache.finalizer THEN "find" ELSE "finalizer",
              t |-> cache, boot |-> FALSE, todo |-> {}]
    /\ passOld' = cacheOld
    /\ IF cacheOld THEN Event ELSE UNCHANGED events
    /\ UNCHANGED <<obj, cacheOld, ready, late, cache, armed, uyuni, history>>

EnsureFinalizer == /\ At("finalizer")
                   /\ SaveAndEnd([wk.t EXCEPT !.finalizer = TRUE])
                   /\ Quiet

----------------------------------------------------------------------------
(* Finding the system.                                                     *)

\* A registered system is told by its minion id, one that waits for its
\* machine by its hostname.
systemMatchesSpec(t, i) == sys[i].st = "salt" \/ sys[i].host = t.hostname

\* Lookups by the id in the status, by minion id, by hardware address.
ByMinionID == Registered
ByMAC(t) == IF t.preCreate /\ t.mac
            THEN {i \in SystemID : Alive(i) /\ sys[i].mac /\ systemMatchesSpec(t, i)}
            ELSE {}

\* mutant: a registered minion is not looked up
FindsOnlyProfiles(t) ==
    IF Alive(t.srv) THEN IF systemMatchesSpec(t, t.srv) THEN {t.srv} ELSE {0}
    ELSE IF ByMAC(t) # {} THEN ByMAC(t) ELSE {0}

\* The system found, 0 if none.  A system that no longer matches ends the
\* search: the code returns before the other lookups.
findOrAdopt(t) ==
    IF Alive(t.srv) THEN IF systemMatchesSpec(t, t.srv) THEN {t.srv} ELSE {0}
    ELSE IF ByMinionID # {} THEN ByMinionID
    ELSE IF ByMAC(t) # {} THEN ByMAC(t) ELSE {0}

\* mutant: the annotation goes before the reinstall is scheduled
StripsFirst(t) == IF t.reinstall THEN "strip" ELSE "details"

NextStep(t) == IF t.reinstall THEN "reinstall" ELSE "details"

\* The id is saved before anything is applied.
Find ==
    /\ At("find")
    /\ Quiet
    /\ \E i \in findOrAdopt(wk.t) :
         LET t == [wk.t EXCEPT !.srv = i]
             found == [wk EXCEPT !.pc = NextStep(t), !.t = t,
                                 !.boot = sys[i].st = "boot",
                                 !.todo = Aspect \ {"details"}]
         IN \/ /\ i = 0
               /\ Step("notRegistered",
                       IF Alive(wk.t.srv) THEN t ELSE wk.t)
               /\ UNCHANGED <<apiObject, history>>
            \/ /\ i # 0 /\ i = wk.t.srv
               /\ wk' = found
               /\ UNCHANGED <<apiObject, history>>
            \/ /\ i # 0 /\ i # wk.t.srv
               /\ Written(t)
               /\ wk' = found
               /\ untold' = NewSystem(t)
            \/ /\ i # 0 /\ i # wk.t.srv
               /\ passOld /\ Lost

----------------------------------------------------------------------------
(* handleNotRegistered.                                                    *)

MustCreate(t) == t.preCreate /\ t.phase \notin {"PreProvisioned", "Reprovisioning"}

\* Uyuni refuses a second system of one name or hardware address.
SystemExists(t) == \E i \in SystemID :
    Alive(i) /\ (sys[i].host = t.hostname \/ (t.mac /\ sys[i].mac))

CreateSystemProfile ==
    /\ At("notRegistered") /\ MustCreate(wk.t)
    /\ UNCHANGED <<ready, late, cache, armed, acts, events>>
    /\ \/ /\ SystemExists(wk.t)              \* SystemNameConflict
          /\ SaveAndEnd(wk.t)
          /\ UNCHANGED sys
       \/ /\ ~SystemExists(wk.t)
          /\ \E i \in Fresh :
                /\ \A k \in Fresh : i <= k
                /\ sys' = [sys EXCEPT ![i].st = "boot", ![i].host = wk.t.hostname,
                                      ![i].mac = wk.t.mac]
                /\ Step("recordProfile", [wk.t EXCEPT !.srv = i])
          /\ UNCHANGED <<apiObject, history>>
       \/ /\ ~SystemExists(wk.t) /\ Fresh = {}  \* the bound on systems
          /\ Fail
          /\ UNCHANGED sys

RecordProfile ==
    /\ At("recordProfile")
    /\ UNCHANGED <<ready, cache, armed, uyuni, events>>
    /\ LET t == [wk.t EXCEPT !.phase = "PreProvisioned", !.ptt = TRUE]
       IN \/ Written(t) /\ late' = FALSE /\ wk' = Idle /\ untold' = NewSystem(t)
          \/ passOld /\ Lost /\ UNCHANGED late

\* Past the deadline the pass asks for no other: only a watch event brings
\* the System back.
TimedOut(t) == t.ptt /\ late

AwaitRegistration ==
    /\ At("notRegistered") /\ ~MustCreate(wk.t)
    /\ armed' = ~TimedOut(wk.t)
    /\ SaveAndEnd(wk.t)
    /\ UNCHANGED <<ready, late, cache, uyuni, events>>

----------------------------------------------------------------------------
(* applyConfig: the reinstall annotation.                                  *)

ProvisionSystem ==
    /\ At("reinstall")
    /\ \/ ~resolveProfileLabel /\ SaveAndEnd(wk.t)
       \/ ~Alive(wk.t.srv) /\ Fail
       \/ /\ resolveProfileLabel /\ Alive(wk.t.srv)
          /\ Step("recordReinstall",
                  [wk.t EXCEPT !.phase = "Reprovisioning", !.ptt = TRUE])
          /\ owed' = FALSE
          /\ extra' = (extra \/ ~(owed \/ obj.reinstall))
          /\ UNCHANGED <<apiObject, untold, abandoned>>
    /\ Quiet

RecordReinstall ==
    /\ At("recordReinstall")
    /\ UNCHANGED <<ready, cache, armed, uyuni, events>>
    /\ \/ /\ Written(wk.t)
          /\ late' = FALSE
          /\ Step("strip", wk.t)
          /\ UNCHANGED untold
       \/ passOld /\ Lost /\ UNCHANGED late

\* The annotation goes only after the status is durable.
StripReinstall == /\ At("strip")
                  /\ SaveAndEnd([wk.t EXCEPT !.reinstall = FALSE])
                  /\ Quiet

----------------------------------------------------------------------------
(* applyConfig: details and channels.                                      *)

Set(a) == sys' = [sys EXCEPT ![wk.t.srv].cfg[a] = wk.t.val]
Differs(a) == a \in Aspect /\ sys[wk.t.srv].cfg[a] # wk.t.val

SetSystemDetails ==
    /\ At("details")
    /\ UNCHANGED <<ready, late, cache, armed, acts, events>>
    /\ \/ Differs("details") /\ ~Alive(wk.t.srv) /\ Fail /\ UNCHANGED sys
       \/ /\ Differs("details") => Alive(wk.t.srv)
          /\ IF Differs("details") THEN Set("details") ELSE UNCHANGED sys
          /\ Step("channels", wk.t)
          /\ UNCHANGED <<apiObject, history>>

\* The last tracked change failed and the minion has checked in since.
channelActionFailed(t) ==
    t.act # 0 /\ acts[t.act].st = "Failed" /\ acts[t.act].seen

\* A completed change is no longer tracked.
Untrack(t) == IF t.act # 0 /\ acts[t.act].st = "Completed"
              THEN [t EXCEPT !.act = 0] ELSE t

\* Uyuni records the subscription at once and schedules the change of the
\* minion's repo file.
Subscribe(t) ==
    /\ sys' = [sys EXCEPT ![t.srv].sub = t.val]
    /\ acts' = Append(acts, [srv |-> t.srv, ch |-> t.val, st |-> "Queued",
                             seen |-> FALSE])

MustSchedule(t) == sys[t.srv].sub # t.val \/ channelActionFailed(t)

\* The errors of the two reads, of the base channel and of its children, are
\* swallowed: what was not read counts as not subscribed.
SubscribeChannels == \E unread \in {"nothing", "base", "children"} :
    /\ At("channels")
    /\ UNCHANGED <<ready, late, cache, armed>>
    /\ IF unread = "nothing" THEN UNCHANGED events ELSE Event
    /\ LET t == wk.t
           sub == IF unread = "base" THEN 0 ELSE sys[t.srv].sub
           due == unread = "children" \/ MustSchedule(t)
           go(u) == /\ wk' = [wk EXCEPT !.pc = "aspects", !.t = u, !.boot = FALSE]
                    /\ UNCHANGED <<apiObject, history>>
       IN \/ /\ ~resolveChannelRefs \/ (~Alive(t.srv) /\ ~wk.boot)
             /\ SaveAndEnd(t)
             /\ UNCHANGED uyuni
          \/ /\ resolveChannelRefs
             /\ sub = 0 /\ wk.boot              \* only what needs no minion
             /\ wk' = [wk EXCEPT !.pc = "aspects",
                                   !.todo = @ \cap {"groups", "formulas"}]
             /\ UNCHANGED <<apiObject, uyuni, history>>
          \/ /\ resolveChannelRefs /\ Alive(t.srv)
             /\ sub = 0 /\ ~wk.boot
             /\ Subscribe(t) /\ go(t)
          \/ /\ resolveChannelRefs /\ sub # 0 /\ due
             /\ Subscribe(t)
             /\ go([t EXCEPT !.act = Len(acts) + 1])
          \/ /\ resolveChannelRefs /\ sub # 0 /\ ~due
             /\ go(Untrack(t))
             /\ UNCHANGED uyuni

----------------------------------------------------------------------------
(* applyConfig: the other aspects.                                         *)

\* mutant: the generation is not looked at
AppliesOnlyWhenAsked(t) == t.applyFormulas

\* Formula data is pushed for a new generation or when asked.
applyData(t) == t.gen # t.fgen \/ t.applyFormulas

MustSet(a, t) ==
    CASE a \in Told -> t.told[a] # t.val
      [] a = "formulas" -> applyData(t)
      [] OTHER -> sys[t.srv].cfg[a] # t.val

Recorded(a, t) ==
    CASE a \in Told -> [t EXCEPT !.told[a] = t.val]
      [] a = "formulas" /\ applyData(t) -> [t EXCEPT !.fgen = t.gen]
      [] OTHER -> t

\* What is left to apply is taken in Order.
Foremost(n) == Order[n] \in wk.todo /\ \A k \in 1..(n - 1) : Order[k] \notin wk.todo

ApplyAspect == \E n \in DOMAIN Order :
    /\ At("aspects") /\ Foremost(n)
    /\ UNCHANGED <<ready, late, cache, armed, acts, events>>
    /\ LET a == Order[n]
           t == wk.t
           strip == a = "formulas" /\ t.applyFormulas
       IN \/ /\ ~Resolves(a) /\ ~wk.boot
             /\ SaveAndEnd(t)                   \* waits for the reference
             /\ UNCHANGED sys
          \/ /\ ~Resolves(a) /\ wk.boot
             /\ wk' = [wk EXCEPT !.todo = @ \ {a}]
             /\ UNCHANGED <<apiObject, sys, history>>
          \/ /\ Resolves(a) /\ ~Alive(t.srv) /\ MustSet(a, t)
             /\ Fail
             /\ UNCHANGED sys
          \/ /\ Resolves(a) /\ (Alive(t.srv) \/ ~MustSet(a, t))
             /\ IF MustSet(a, t) THEN Set(a) ELSE UNCHANGED sys
             /\ wk' = [wk EXCEPT !.todo = @ \ {a}, !.t = Recorded(a, t),
                                 !.pc = IF strip THEN "stripFormulas" ELSE @]
             /\ UNCHANGED <<apiObject, history>>

\* The Update that strips apply-formula-values leaves the status alone and
\* reads the stored object back into the copy: what the pass had put into a
\* status field that was already set is gone from the copy.
Reload(t, stored) ==
    LET keep(old, new) == IF old = 0 THEN new ELSE old
    IN [t EXCEPT !.applyFormulas = FALSE,
                 !.told = [a \in DOMAIN @ |-> keep(stored.told[a], @[a])],
                 !.fgen = keep(stored.fgen, @),
                 !.act = keep(stored.act, @)]

StripFormulas ==
    /\ At("stripFormulas")
    /\ LET stored == [obj EXCEPT !.applyFormulas = FALSE]
           t == Reload(wk.t, stored)
       IN \/ /\ Written(stored)
             /\ Step("aspects", t)
             /\ untold' = untold \cup {a \in DOMAIN t.told : t.told[a] # wk.t.told[a]}
          \/ passOld /\ Lost
    /\ Quiet

\* The end of applyConfig: Ready, or waiting for the first registration.
\* (ScheduleHighstate, here, makes the minion run what has been set.)
SaveReconciled ==
    /\ At("aspects") /\ wk.todo = {}
    /\ LET t == IF wk.boot THEN wk.t
                ELSE [wk.t EXCEPT !.phase = "Reconciled", !.observed = wk.t.gen]
       IN \/ /\ Written(t)
             /\ wk' = Idle
             /\ untold' = {a \in untold : sys[t.srv].cfg[a] # t.val
                                         \/ (a \in Told /\ t.told[a] # t.val)}
          \/ passOld /\ Lost
    /\ Quiet

----------------------------------------------------------------------------
(* handleDeletion.                                                         *)

DeleteSystem ==
    /\ At("delete")
    /\ UNCHANGED <<kube, cache, armed, acts, history, events>>
    /\ Step("release", wk.t)
    /\ sys' = IF wk.t.force \/ ~Alive(wk.t.srv) THEN sys
              ELSE IF wk.t.policy = "Delete" THEN [sys EXCEPT ![wk.t.srv] = Removed]
              ELSE [sys EXCEPT ![wk.t.srv].cfg =
                       [a \in DOMAIN @ |-> IF a = "groups" THEN 0 ELSE @[a]]]

ReleaseFinalizer == /\ At("release")
                    /\ SaveAndEnd([wk.t EXCEPT !.life = "gone"])
                    /\ Quiet

----------------------------------------------------------------------------
(* Faults.                                                                 *)

Calls == {"find", "notRegistered", "reinstall", "details", "channels", "aspects"}

\* An Uyuni call fails, and the pass with it.
CallFails == /\ wk.pc \in Calls
             /\ Fail /\ Event
             /\ UNCHANGED <<ready, late, cache, armed, uyuni>>

\* mutant: the error of DeleteSystem is dropped
DeleteErrorIgnored == /\ At("delete") /\ ~wk.t.force
                      /\ wk.t.srv # 0 /\ wk.t.policy = "Delete"
                      /\ Step("release", wk.t) /\ Event
                      /\ UNCHANGED <<kube, cache, armed, uyuni, history>>

\* In handleDeletion only DeleteSystem may fail the pass; nothing is saved.
DeleteFails == /\ At("delete") /\ ~wk.t.force
               /\ wk.t.srv # 0 /\ wk.t.policy = "Delete"
               /\ wk' = Idle /\ passOld' = FALSE /\ Event
               /\ UNCHANGED <<obj, cacheOld, ready, late, cache, armed, uyuni,
                              history>>

Crash == /\ ~At("idle")
         /\ Lost /\ Event
         /\ armed' = TRUE
         /\ UNCHANGED <<ready, late, cache, uyuni>>

Pass == \/ EnsureFinalizer \/ Find \/ CreateSystemProfile \/ RecordProfile
        \/ AwaitRegistration \/ ProvisionSystem \/ RecordReinstall
        \/ StripReinstall \/ SetSystemDetails \/ SubscribeChannels
        \/ ApplyAspect \/ StripFormulas \/ SaveReconciled
        \/ DeleteSystem \/ ReleaseFinalizer

Next == \/ User \/ CacheSync \/ Realise \/ Vanish \/ DeadlinePasses \/ Uyuni
        \/ Begin \/ Pass \/ CallFails \/ DeleteFails \/ Crash

Spec == Init /\ [][Next]_vars

\* The workqueue retries, the informer catches up, and minions run what is
\* scheduled and check in.  Nothing is assumed of users, of registration or
\* of the references.
FairSpec == Spec /\ WF_vars(Pass) /\ WF_vars(CacheSync) /\ SF_vars(Begin)
                 /\ WF_vars(RunAction(TRUE)) /\ WF_vars(CheckIn)

----------------------------------------------------------------------------
(* Properties.                                                             *)

\* Every variable has its type.
TypeOK ==
    /\ obj \in SystemObject /\ cache \in SystemObject
    /\ ready \subseteq Refs
    /\ cacheOld \in BOOLEAN /\ passOld \in BOOLEAN /\ late \in BOOLEAN
    /\ armed \in BOOLEAN /\ owed \in BOOLEAN /\ extra \in BOOLEAN
    /\ wk = Idle \/ (wk \in Worker /\ wk.t.act <= Len(acts))
    /\ sys \in [SystemID -> Machine] /\ acts \in Seq(ChannelAction)
    /\ obj.act <= Len(acts) /\ cache.act <= Len(acts) /\ events \in 0..MaxEvents
    /\ untold \subseteq Aspect /\ abandoned \subseteq SystemID

\* A System that says Reconciled for its current spec has a system in Uyuni
\* with all of that configuration, but for the aspects in untold.  These are
\*  - told aspects set by a pass that crashed or met a conflict (Lost);
\*  - told aspects whose record the Update that strips apply-formula-values
\*    overwrote in the pass's copy, with nothing else going wrong (Reload);
\*  - every aspect, after the status came to name another system, until the
\*    next pass that ends well: the told aspects and the formulas are then
\*    taken for set on a system that never got them (NewSystem).
\* applyConfig's order (apply, then record, then Reconciled) is what keeps the
\* rest true through crashes, failures and stale reads.
ReconciledMeansConfigured ==
    obj.life = "live" /\ obj.phase = "Reconciled" /\ obj.observed = obj.gen
        /\ wk = Idle /\ Alive(obj.srv)
    => \A a \in Aspect \ untold : sys[obj.srv].cfg[a] = obj.val

\* Not true of the code: stripping apply-formula-values takes nothing out of
\* the status that the pass is about to write.
StripKeepsStatus ==
    [][wk.pc = "stripFormulas" /\ wk'.pc = "aspects"
       => wk'.t = [wk.t EXCEPT !.applyFormulas = FALSE]]_vars

\* A reinstall that was asked for and not scheduled still has its annotation:
\* no crash, conflict or stale read makes the operator drop the request.
ReinstallNotForgotten == owed => obj.reinstall

\* reinstall-now is a one-shot trigger: ProvisionSystem serves it.
OneShot == INSTANCE Trigger WITH
    Asker <- {"system"},
    asked <- IF obj.life = "live" /\ obj.reinstall THEN {"system"} ELSE {},
    owed <- IF obj.life = "live" /\ owed THEN {"system"} ELSE {}

\* applyConfig implements what annotations.go says of reinstall-now as far as
\* at least one reinstallation goes: the annotation is stripped after
\* ProvisionSystem has answered this request, and not an earlier one.
ReinstallIsOneShot == OneShot!Spec

\* reinstall-now is a fire-once trigger: once the annotation is served and
\* stripped, nothing schedules that reinstall again.
ReinstallFiresOnce == ~extra

\* With deletionPolicy Delete the system in Uyuni goes before the resource
\* does, and so does every profile the operator pre-created, except those
\* whose id it lost (a crash before the status write) or let go (a rename).
DeletionLeavesNoProfile ==
    obj.life = "gone" /\ obj.policy = "Delete" /\ ~obj.force
    => /\ ~Alive(obj.srv) \/ obj.srv \in abandoned
       /\ {i \in SystemID : sys[i].st = "boot"} \subseteq abandoned

\* The System still has a pass to come and everything it needs, and its
\* status does not name a profile of another hostname than the machine's:
\* such a profile matches the spec and hides the machine.
Managed(i) == /\ obj.life = "live" /\ armed /\ ready = Refs
              /\ sys[i].st = "salt"
              /\ ~(Alive(obj.srv) /\ sys[obj.srv].st = "boot")

\* The newest channel change of a system failed and the status does not name
\* it, so no pass retries it.
Forgotten(i) == LET mine == {n \in DOMAIN acts : acts[n].srv = i}
                IN mine # {} /\ acts[Max(mine)].st = "Failed" /\ obj.act # Max(mine)

\* A registered machine is adopted and gets its configuration, and its repo
\* file its channels, also when a channel change fails and is rescheduled
\* after the next check-in; for the live aspects whatever happened before.
SystemConverges == <>[](\A i \in SystemID : Managed(i) =>
    /\ obj.srv = i
    /\ \A a \in Aspect : sys[i].cfg[a] = obj.val \/ a \in untold \ Live
    /\ sys[i].repo = obj.val \/ Forgotten(i))

\* Not true of the code, for each of the three reasons of untold: whatever was
\* set and lost before, the configuration arrives.  The lists in the status
\* and FormulaDataGeneration are taken for what the system has, whichever
\* system it is.
EverySettingArrives == <>[](\A i \in SystemID : Managed(i) =>
    \A a \in Aspect : sys[i].cfg[a] = obj.val)

============================================================================
