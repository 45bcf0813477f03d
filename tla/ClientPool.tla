----------------------------- MODULE ClientPool -----------------------------
(***************************************************************************)
(* The pool of Uyuni clients (internal/pool/pool.go) shared by all         *)
(* reconcilers, with what keeps it up to date: the UyuniProvider           *)
(* reconciler and its Secret watch, and the Organization reconciler.       *)
(*                                                                         *)
(* A call that misses the cache drops the lock, reads the provider and its *)
(* Secret, logs in, and takes the lock again to insert the client, so      *)
(* invalidations fall between.  A credential is the version of the Secret  *)
(* it was read from.                                                       *)
(***************************************************************************)
EXTENDS Naturals

CONSTANTS
    Caller,       \* reconciler goroutines calling the pool
    Provider,     \* UyuniProvider names
    Orgs,         \* Organization objects
    providerRef,  \* spec.providerRef of each Organization
    Watched,      \* providers whose Secret lives in the operator's namespace
    None,         \* no client, no provider
    MaxChanges    \* bound: changes users make to Secrets and specs

ASSUME ProviderRefAssumption == providerRef \in [Orgs -> Provider]
ASSUME WatchedAssumption == Watched \subseteq Provider
ASSUME NoneAssumption == None \notin Provider
ASSUME ChangesAssumption == MaxChanges \in Nat

VARIABLES
    prov,          \* UyuniProvider objects and the version of their Secret
    org,           \* Organization objects, their Secret, provider snapshot
    cache,         \* Pool.cache
    cobblerCache,  \* Pool.cobblerCache
    orgCache,      \* Pool.orgCache, by Organization and spelling of its name
    job,           \* the pool call each worker is in
    pass,          \* the pass over each Organization
    stuck,         \* Organizations whose passes end before InvalidateOrg: missing
                   \* in Uyuni, another one's duplicate, a refused name
    queue,         \* Secret events not delivered to providersForSecret yet
    raced,         \* history: a call held a client across the last Invalidate,
                   \* or the last event came while the provider was deleted
    changes        \* changes so far

objects == <<prov, org, stuck, changes>>
caches == <<cache, cobblerCache, orgCache>>
poolVars == <<objects, caches, job, pass, queue, raced>>

----------------------------------------------------------------------------

\* A client: whose credentials it logged in with, and their version.
Client == [own : BOOLEAN, cred : Nat]
MaybeClient == Client \cup {None}

\* Organizations are found by metadata.name or, failing that, by spec.name.
Key == Orgs \X {"name", "display"}

OrgEntry == [api : MaybeClient, shares : Provider \cup {None}]
NoEntry == [api |-> None, shares |-> None]

ProviderObject == [live : BOOLEAN, secret : Nat]
OrgObject == [own : BOOLEAN, secret : Nat, snapshot : BOOLEAN]

Job == [pc : {"idle", "org", "resolve", "insert", "insertOrg"},
        kind : {"provider", "cobbler", "org"},
        p : Provider \cup {None}, key : Key \cup {None}, api : MaybeClient,
        shares : Provider \cup {None}]

\* The pass over an Organization: the client it is about to insert, if For found
\* none in the cache.
OrgPass == [pc : {"idle", "insert", "lookup", "save"}, api : MaybeClient]
IdlePass == [pc |-> "idle", api |-> None]

IdleJob == [pc |-> "idle", kind |-> "provider", p |-> None, key |-> None,
            api |-> None, shares |-> None]
Call(pc, kind, p, key) == [IdleJob EXCEPT !.pc = pc, !.kind = kind, !.p = p,
                                          !.key = key]

Change == changes < MaxChanges /\ changes' = changes + 1

ProviderClient(p) == [own |-> FALSE, cred |-> prov[p].secret]
OrgClient(o) == [own |-> TRUE, cred |-> org[o].secret]

----------------------------------------------------------------------------
(* Calls.  A hit returns the cached client and changes nothing.            *)

\* For, Cobbler
For(w, p) ==
    /\ job[w].pc = "idle" /\ cache[p] = None
    /\ job' = [job EXCEPT ![w] = Call("resolve", "provider", p, None)]
    /\ UNCHANGED <<objects, caches, pass, queue, raced>>

Cobbler(w, p) ==
    /\ job[w].pc = "idle" /\ cobblerCache[p] = None
    /\ job' = [job EXCEPT ![w] = Call("resolve", "cobbler", p, None)]
    /\ UNCHANGED <<objects, caches, pass, queue, raced>>

ForOrganization(w, k) ==
    /\ job[w].pc = "idle" /\ orgCache[k].api = None
    /\ job' = [job EXCEPT ![w] = Call("org", "org", providerRef[k[1]], k)]
    /\ UNCHANGED <<objects, caches, pass, queue, raced>>

\* buildForOrg with credentialsSecretRef: the server comes from the provider
\* or from the snapshot in the Organization's status.
BuildOwn(w) ==
    LET o == job[w].key[1] IN
    /\ job[w].pc = "org" /\ org[o].own
    /\ prov[job[w].p].live \/ org[o].snapshot
    /\ job' = [job EXCEPT ![w].pc = "insertOrg", ![w].api = OrgClient(o),
                          ![w].shares = None]
    /\ UNCHANGED <<objects, caches, pass, queue, raced>>

\* buildForOrg without credentials of its own: For(provider), a hit ...
ShareCached(w) ==
    /\ job[w].pc = "org" /\ ~org[job[w].key[1]].own
    /\ cache[job[w].p] # None
    /\ job' = [job EXCEPT ![w].pc = "insertOrg", ![w].api = cache[job[w].p],
                          ![w].shares = job[w].p]
    /\ UNCHANGED <<objects, caches, pass, queue, raced>>

\* ... or a miss.
ShareMiss(w) ==
    /\ job[w].pc = "org" /\ ~org[job[w].key[1]].own
    /\ cache[job[w].p] = None
    /\ job' = [job EXCEPT ![w].pc = "resolve"]
    /\ UNCHANGED <<objects, caches, pass, queue, raced>>

\* resolveCreds and the login.
Resolve(w) ==
    /\ job[w].pc = "resolve" /\ prov[job[w].p].live
    /\ job' = [job EXCEPT ![w].pc = "insert", ![w].api = ProviderClient(job[w].p),
                          ![w].shares = job[w].p]
    /\ UNCHANGED <<objects, caches, pass, queue, raced>>

\* The provider is gone, or its server does not answer: a shared Organization
\* falls back to buildFromSnapshot, which keeps no provider name.
ResolveFromSnapshot(w) ==
    /\ job[w].pc = "resolve" /\ job[w].kind = "org"
    /\ org[job[w].key[1]].snapshot
    /\ job' = [job EXCEPT ![w].pc = "insertOrg", ![w].api = ProviderClient(job[w].p),
                          ![w].shares = None]
    /\ UNCHANGED <<objects, caches, pass, queue, raced>>

\* Every other error is returned to the caller.
CallFails(w) ==
    /\ job[w].pc \in {"org", "resolve"}
    /\ job' = [job EXCEPT ![w] = IdleJob]
    /\ UNCHANGED <<objects, caches, pass, queue, raced>>

Insert(w) ==
    LET p == job[w].p IN
    /\ job[w].pc = "insert"
    /\ IF job[w].kind = "cobbler"
       THEN cobblerCache' = [cobblerCache EXCEPT ![p] = job[w].api] /\ UNCHANGED cache
       ELSE cache' = [cache EXCEPT ![p] = job[w].api] /\ UNCHANGED cobblerCache
    /\ job' = IF job[w].kind = "org" THEN [job EXCEPT ![w].pc = "insertOrg"]
              ELSE [job EXCEPT ![w] = IdleJob]
    /\ UNCHANGED <<objects, orgCache, pass, queue, raced>>

InsertOrg(w) ==
    /\ job[w].pc = "insertOrg"
    /\ orgCache' = [orgCache EXCEPT ![job[w].key] =
                      [api |-> job[w].api, shares |-> job[w].shares]]
    /\ job' = [job EXCEPT ![w] = IdleJob]
    /\ UNCHANGED <<objects, cache, cobblerCache, pass, queue, raced>>

----------------------------------------------------------------------------
(* Invalidation.                                                           *)

\* Entries evicted with the provider: those that share its client.
SharedEvictedNone(p) == [k \in Key |-> orgCache[k]]
SharedEvicted(p) ==
    [k \in Key |-> IF orgCache[k].shares = p THEN NoEntry ELSE orgCache[k]]

Holding(w, p) == job[w].pc \in {"insert", "insertOrg"} /\ job[w].shares = p
PassHolding(o, p) == pass[o].pc = "insert" /\ providerRef[o] = p

Invalidate(p) ==
    /\ cache' = [cache EXCEPT ![p] = None]
    /\ cobblerCache' = [cobblerCache EXCEPT ![p] = None]
    /\ orgCache' = SharedEvicted(p)
    /\ raced' = [raced EXCEPT ![p] = \/ \E w \in Caller : Holding(w, p)
                                  \/ \E o \in Orgs : PassHolding(o, p)]

\* providersForSecret, for a Secret in the operator's namespace.
HandleSecretEvent(p) ==
    /\ p \in queue /\ prov[p].live
    /\ queue' = queue \ {p}
    /\ Invalidate(p)
    /\ UNCHANGED <<objects, job, pass>>

\* While the provider is deleted the event finds no one to invalidate.
MissSecretEvent(p) ==
    /\ p \in queue /\ ~prov[p].live
    /\ queue' = queue \ {p}
    /\ raced' = [raced EXCEPT ![p] = TRUE]
    /\ UNCHANGED <<objects, caches, job, pass>>

\* UyuniProviderReconciler.Reconcile finds the object gone.  While it exists
\* the reconciler only calls For.
ReconcileProviderGone(p) ==
    /\ ~prov[p].live
    /\ Invalidate(p)
    /\ UNCHANGED <<objects, job, pass, queue>>

----------------------------------------------------------------------------
(* OrganizationReconciler.Reconcile, as far as the pool sees it.           *)

OrgMoves(o, pc, next) ==
    pass[o].pc = pc /\ pass' = [pass EXCEPT ![o] = next]

\* For(provider) returns the cached client, and snapshotProvider reads the
\* provider; without one the pass ends in ProviderError ...
OrgForHit(o) ==
    /\ OrgMoves(o, "idle", [IdlePass EXCEPT !.pc = "lookup"])
    /\ cache[providerRef[o]] # None /\ prov[providerRef[o]].live
    /\ UNCHANGED <<objects, caches, job, queue, raced>>

\* ... or For logs in anew.
OrgForMiss(o) ==
    /\ OrgMoves(o, "idle", [pc |-> "insert", api |-> ProviderClient(providerRef[o])])
    /\ cache[providerRef[o]] = None /\ prov[providerRef[o]].live
    /\ UNCHANGED <<objects, caches, job, queue, raced>>

OrgForInsert(o) ==
    /\ OrgMoves(o, "insert", IF prov[providerRef[o]].live
                                THEN [IdlePass EXCEPT !.pc = "lookup"] ELSE IdlePass)
    /\ cache' = [cache EXCEPT ![providerRef[o]] = pass[o].api]
    /\ UNCHANGED <<objects, cobblerCache, orgCache, job, queue, raced>>

\* A status write stores the snapshot with everything else, or conflicts.
WriteSnapshot(o) ==
    /\ org' \in {org, [org EXCEPT ![o].snapshot = TRUE]}
    /\ UNCHANGED <<prov, stuck, changes>>

\* A call to Uyuni fails, the organization is not found, is another one's or
\* keeps its old name: the pass ends before InvalidateOrg.
OrgPassFails(o) ==
    /\ OrgMoves(o, "lookup", IdlePass)
    /\ WriteSnapshot(o)
    /\ UNCHANGED <<caches, job, queue, raced>>

\* InvalidateOrg(namespace/name), at the end of a pass that found or created
\* the organization.
InvalidateOrgNoop(o) == orgCache
InvalidateOrgNil(o) == [orgCache EXCEPT ![<<o, "name">>] = None]
InvalidateOrg(o) == [orgCache EXCEPT ![<<o, "name">>] = NoEntry]

OrgFound(o) ==
    /\ OrgMoves(o, "lookup", [IdlePass EXCEPT !.pc = "save"])
    /\ ~stuck[o]
    /\ orgCache' = InvalidateOrg(o)
    /\ UNCHANGED <<objects, cache, cobblerCache, job, queue, raced>>

OrgSave(o) ==
    /\ OrgMoves(o, "save", IdlePass)
    /\ WriteSnapshot(o)
    /\ UNCHANGED <<caches, job, queue, raced>>

OrgStep(o) == OrgForHit(o) \/ OrgForMiss(o) \/ OrgForInsert(o) \/ OrgSave(o)

----------------------------------------------------------------------------
(* Users.                                                                  *)

RotateSecret(p) ==
    /\ Change
    /\ prov' = [prov EXCEPT ![p].secret = @ + 1]
    /\ queue' = IF p \in Watched THEN queue \cup {p} ELSE queue
    /\ UNCHANGED <<org, stuck, caches, job, pass, raced>>

DeleteProvider(p) ==
    /\ prov[p].live
    /\ Change
    /\ prov' = [prov EXCEPT ![p].live = FALSE]
    /\ UNCHANGED <<org, stuck, caches, job, pass, queue, raced>>

CreateProvider(p) ==
    /\ ~prov[p].live
    /\ prov' = [prov EXCEPT ![p].live = TRUE]
    /\ UNCHANGED <<org, stuck, changes, caches, job, pass, queue, raced>>

RotateOrgSecret(o) ==
    /\ Change
    /\ org' = [org EXCEPT ![o].secret = @ + 1]
    /\ UNCHANGED <<prov, stuck, caches, job, pass, queue, raced>>

\* credentialsSecretRef is set or removed.
ChangeOrgCredentials(o) ==
    /\ Change
    /\ org' = [org EXCEPT ![o].own = ~@]
    /\ UNCHANGED <<prov, stuck, caches, job, pass, queue, raced>>

\* The organization is removed in Uyuni, or its name given to another one; and
\* the damage is repaired.
BreakOrg(o) ==
    /\ ~stuck[o]
    /\ Change
    /\ stuck' = [stuck EXCEPT ![o] = TRUE]
    /\ UNCHANGED <<prov, org, caches, job, pass, queue, raced>>

RepairOrg(o) ==
    /\ stuck[o]
    /\ stuck' = [stuck EXCEPT ![o] = FALSE]
    /\ UNCHANGED <<prov, org, changes, caches, job, pass, queue, raced>>

----------------------------------------------------------------------------

PoolInit ==
    /\ prov = [p \in Provider |-> [live |-> TRUE, secret |-> 0]]
    /\ \E own \in [Orgs -> BOOLEAN] :
           org = [o \in Orgs |-> [own |-> own[o], secret |-> 0, snapshot |-> FALSE]]
    /\ cache = [p \in Provider |-> None]
    /\ cobblerCache = [p \in Provider |-> None]
    /\ orgCache = [k \in Key |-> NoEntry]
    /\ job = [w \in Caller |-> IdleJob]
    /\ pass = [o \in Orgs |-> IdlePass]
    /\ stuck = [o \in Orgs |-> FALSE]
    /\ queue = {}
    /\ raced = [p \in Provider |-> FALSE]
    /\ changes = 0

Step(w) == \/ BuildOwn(w) \/ ShareCached(w) \/ ShareMiss(w) \/ Resolve(w)
           \/ ResolveFromSnapshot(w) \/ CallFails(w) \/ Insert(w) \/ InsertOrg(w)

PoolNext ==
    \/ \E w \in Caller : \/ \E p \in Provider : For(w, p) \/ Cobbler(w, p)
                         \/ \E k \in Key : ForOrganization(w, k)
                         \/ Step(w)
    \/ \E p \in Provider : \/ HandleSecretEvent(p) \/ MissSecretEvent(p)
                           \/ ReconcileProviderGone(p)
                           \/ RotateSecret(p) \/ DeleteProvider(p)
                           \/ CreateProvider(p)
    \/ \E o \in Orgs : \/ OrgStep(o) \/ OrgPassFails(o) \/ OrgFound(o)
                       \/ RotateOrgSecret(o) \/ ChangeOrgCredentials(o)
                       \/ BreakOrg(o) \/ RepairOrg(o)

PoolSpec == PoolInit /\ [][PoolNext]_poolVars

\* Calls return, informers deliver, and Organizations are reconciled again and
\* again; a pass may fail any number of times, but not for ever while nothing is
\* wrong with the organization.
Fairness ==
    /\ \A w \in Caller : WF_poolVars(Step(w))
    /\ \A p \in Provider : WF_poolVars(HandleSecretEvent(p) \/ MissSecretEvent(p))
    /\ \A o \in Orgs : WF_poolVars(OrgStep(o)) /\ SF_poolVars(OrgFound(o))

PoolFairSpec == PoolSpec /\ Fairness
----------------------------------------------------------------------------
(* Properties.                                                             *)

\* Type correctness of the objects, the three caches and the calls in progress.
PoolTypeOK ==
    /\ prov \in [Provider -> ProviderObject]
    /\ org \in [Orgs -> OrgObject]
    /\ cache \in [Provider -> MaybeClient]
    /\ cobblerCache \in [Provider -> MaybeClient]
    /\ orgCache \in [Key -> OrgEntry]
    /\ job \in [Caller -> Job]
    /\ pass \in [Orgs -> OrgPass]
    /\ stuck \in [Orgs -> BOOLEAN]
    /\ queue \subseteq Provider
    /\ raced \in [Provider -> BOOLEAN]
    /\ changes \in Nat

Current(p, c) == c = None \/ c = ProviderClient(p)

Stored(p) ==
    /\ Current(p, cache[p]) /\ Current(p, cobblerCache[p])
    /\ \A k \in Key : orgCache[k].shares = p => Current(p, orgCache[k].api)

\* Once the event of a rotated provider Secret has been handled, every client
\* the pool keeps for that provider - its own, the Cobbler client and those
\* shared by Organizations - has the new credentials, unless a call held a
\* client of that provider while Invalidate ran or the event came while the
\* provider object was deleted.
FreshUnlessRaced ==
    \A p \in Watched : (p \notin queue /\ ~raced[p]) => Stored(p)

\* A client under an Organization's own name that has the wrong identity (the
\* satellite administrator's although the Organization has credentials, or the
\* reverse) or old credentials is dropped by the passes over the Organization,
\* whichever of them fail, as long as the provider is there and the passes can
\* find the organization in Uyuni.
Outdated(k) ==
    LET c == orgCache[k].api IN
    c # None /\ (c.own # org[k[1]].own \/ (c.own /\ c # OrgClient(k[1])))

OrgClientsCatchUp ==
    \A o \in Orgs : Outdated(<<o, "name">>) ~>
        (~Outdated(<<o, "name">>) \/ ~prov[providerRef[o]].live \/ stuck[o])

\* The strengthening that makes FreshUnlessRaced inductive: a client on its
\* way into the cache is current too.
Held(p) == /\ \A w \in Caller : Holding(w, p) => Current(p, job[w].api)
           /\ \A o \in Orgs : PassHolding(o, p) => Current(p, pass[o].api)

\* A call in progress knows its provider, and its key if it is for an
\* Organization.
JobOK ==
    \A w \in Caller :
        /\ job[w].pc # "idle" => job[w].p \in Provider
        /\ job[w].kind = "org" => job[w].key \in Key
        /\ job[w].pc \in {"org", "insertOrg"} => job[w].kind = "org"
        /\ job[w].pc = "insert" => job[w].shares = job[w].p

PoolInv == /\ PoolTypeOK /\ JobOK /\ FreshUnlessRaced
           /\ \A p \in Watched : (p \notin queue /\ ~raced[p]) => Held(p)
----------------------------------------------------------------------------
(* What the comments promise and the code does not keep.                   *)

\* "Invalidate/InvalidateOrg evict entries so the next call rebuilds from fresh
\* credentials", for an Organization referred to by its display name.
EveryOrgClientCatchesUp ==
    \A k \in Key : Outdated(k) ~>
        (~Outdated(k) \/ ~prov[providerRef[k[1]]].live \/ stuck[k[1]])

\* The same comment, for an Organization whose passes end in an error before
\* they reach InvalidateOrg.
StuckOrgCatchesUp ==
    \A o \in Orgs : Outdated(<<o, "name">>) ~>
        (~Outdated(<<o, "name">>) \/ ~prov[providerRef[o]].live)
==============================================================================
