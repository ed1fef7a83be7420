------------------------------ MODULE Sessions ------------------------------
(***************************************************************************)
(* The session server: the cache of per-session proxies (server.py), the   *)
(* registry of what is known about each session (session_registry.py), the *)
(* id bound to each connection (user_session_management.py), the tools     *)
(* that open, fork and switch sessions, and the admin API that observes    *)
(* them (admin.py).                                                        *)
(*                                                                         *)
(* The tools are coroutines on one event loop.  Between two awaits nothing *)
(* else runs, so each such stretch of code is one action; the calls that   *)
(* await in the middle (a download, a fetch) are split there.              *)
(*                                                                         *)
(* There are two clocks.  The cache times an entry from its insertion, on  *)
(* time.monotonic; the registry stamps it a few lines later, on time.time, *)
(* which can be set.  Tick moves both, CacheTick and WallTick one of them. *)
(* The time that passes inside a stretch is in these too: a tick between   *)
(* the insertion and the stamp adds to the age of every session but the    *)
(* new one, and takes from the life of all of them, which is a WallTick    *)
(* before the stretch and a CacheTick after it.  A session that ends       *)
(* between the test and the read of get_proxy fails its call (Lookups):    *)
(* that is the tick and then CallWithoutProxy.                             *)
(***************************************************************************)
EXTENDS TTLCache

CONSTANTS
    Ids,       \* session ids
    Conns,     \* client connections
    Calls,     \* slots for the calls that may be in flight at a time
    Proxies,   \* identities of PyPowsyblMCPServerProxy objects
    NoId       \* "no id bound yet"

ASSUME NoIdAssumption == NoId \notin Ids

VARIABLES
    cache,      \* pypowsybl_proxies: Ids -> Proxies, with TTL and eviction
    data,       \* data[p]: whose calls wrote into proxy p (pages, networks)
    registry,   \* SESSIONS: see below
    bound,      \* bound[n]: the session id in the state of connection n
    call,       \* call[c]: the awaiting call in slot c, or Idle
    fate,       \* history: what became of each id's last proxy, uncounted yet
    lag         \* history: lag[k], what the wall clock has lost to the cache's
                \* since session k was last stored, up to TTL

vars == <<cache, data, registry, bound, call, fate, lag>>

Idle == [conn |-> NoId, sid |-> NoId, proxy |-> NoId]
InFlight == {c \in Calls : call[c] # Idle}

(***************************************************************************)
(* The registry is a record: age[k], the time since created_at of each     *)
(* tracked session, up to TTL (only `age >= ttl` is ever tested), recent,  *)
(* the order of their last_seen times, and estimated, the sessions with    *)
(* created_at_estimated.  Counters and durations are only displayed and    *)
(* are left out.                                                           *)
(***************************************************************************)
Tracked == DOMAIN registry.age

\* A slip: every use makes the session new again.
TouchAsNew(r, k) ==
    LET S == DOMAIN r.age \cup {k}
    IN  [age    |-> [j \in S |-> IF j = k THEN 0 ELSE r.age[j]],
         recent |-> MoveToEnd(r.recent, S, k),
         estimated |-> r.estimated]

\* touch: note that session k is used, and when it is first seen.
Touch(r, k) ==
    LET S == DOMAIN r.age \cup {k}
    IN  [age    |-> [j \in S |-> IF j \in DOMAIN r.age THEN r.age[j] ELSE 0],
         recent |-> MoveToEnd(r.recent, S, k),
         estimated |-> r.estimated]

\* A slip: a call on a connection without a session is recorded too.
RecordAnyCall(r, k) == Touch(r, k)

\* record_call: touch the session bound to the connection, if there is one.
RecordCall(r, k) == IF k = NoId THEN r ELSE Touch(r, k)

IsRegistry(r) ==
    /\ r = [age |-> r.age, recent |-> r.recent, estimated |-> r.estimated]
    /\ DOMAIN r.age \subseteq Ids
    /\ r.age \in [DOMAIN r.age -> 0 .. TTL]
    /\ r.recent \subseteq Ids \X Ids
    /\ r.estimated \subseteq DOMAIN r.age

TypeOK ==
    /\ IsCache(cache, Ids, Proxies)
    /\ data \in [Proxies -> SUBSET Ids]
    /\ IsRegistry(registry)
    /\ bound \in [Conns -> Ids \cup {NoId}]
    /\ call \in [Calls -> [conn : Conns, sid : Ids, proxy : Proxies] \cup {Idle}]
    /\ fate \in [Ids -> {"none", "live", "expired", "evicted"}]
    /\ lag \in [Ids -> 0 .. TTL]

Init ==
    /\ cache = EmptyCache
    /\ data = [p \in Proxies |-> {}]
    /\ registry = [age |-> [k \in {} |-> 0], recent |-> {}, estimated |-> {}]
    /\ bound = [n \in Conns |-> NoId]
    /\ call = [c \in Calls |-> Idle]
    /\ fate = [k \in Ids |-> "none"]
    /\ lag = [k \in Ids |-> 0]

-----------------------------------------------------------------------------
(* History: how the sessions leave the cache, and how far the clocks part. *)

FateOf(k) ==
    CASE k \in Live(cache') -> "live"
      [] k \in Keys(cache') \ Live(cache') -> "expired"
      [] k \in Live(cache) \ Keys(cache') -> "evicted"
      [] OTHER -> fate[k]

\* The step counts no session out.
FatesFollow == fate' = [k \in Ids |-> FateOf(k)]

\* The bookkeeping of a step that counts no session out and takes no time: the
\* clocks are compared from when a session is stored to when it is lost.
Uncounted ==
    /\ FatesFollow
    /\ lag' = [k \in Ids |-> IF \/ fate'[k] \in {"none", "evicted"}
                                \/ fate'[k] = "live" /\ cache'.left[k] = TTL
                             THEN 0 ELSE lag[k]]

-----------------------------------------------------------------------------
(* Session ids and proxies *)

\* An id uuid4() may return: one nobody has heard of.
FreshIds ==
    Ids \ (Keys(cache) \cup Tracked \cup {bound[n] : n \in Conns}
           \cup {call[c].sid : c \in Calls})

\* get_session_id: the id bound to the connection, assigned on first use.
GetSessionId(n, k) ==
    /\ IF bound[n] = NoId THEN k \in FreshIds ELSE k = bound[n]
    /\ bound' = [bound EXCEPT ![n] = k]

\* A newly built proxy: one nothing refers to.
NewProxies ==
    Proxies \ ({cache.val[k] : k \in Keys(cache)} \cup {call[c].proxy : c \in Calls})

\* The contents of the proxies after a step, d of those that are still referred
\* to: the others are freed.
Holding(d) ==
    LET used == {cache'.val[k] : k \in Keys(cache')} \cup {call'[c].proxy : c \in Calls}
    IN  data' = [p \in Proxies |-> IF p \in used THEN d[p] ELSE {}]

\* get_proxy: find the session's proxy or build one, note the use, read it.
GetProxy(k, p) ==
    /\ \/ /\ k \in Live(cache)
          /\ p = cache.val[k]
          /\ cache' = Get(cache, k)
       \/ /\ k \notin Live(cache)
          /\ p \in NewProxies
          /\ cache' = Put(cache, k, p)
    /\ registry' = Touch(registry, k)

-----------------------------------------------------------------------------
(* Tools *)

\* A tool that resolves its session's proxy, reads it or writes into it, and
\* runs to its end without an await; its call is then recorded.  Most tools are
\* like this.
UseSession(n) ==
    \E k \in Ids, p \in Proxies, writes \in BOOLEAN :
       /\ GetSessionId(n, k)
       /\ GetProxy(k, p)
       /\ UNCHANGED call
       /\ Holding(IF writes THEN [data EXCEPT ![p] = @ \cup {k}] ELSE data)
       /\ Uncounted

\* A tool that returns before it resolves a proxy: get_pypowsybl_version, a
\* call refused for its token, its source or its target.
CallWithoutProxy(n) ==
    /\ bound[n] # NoId
    /\ registry' = RecordCall(registry, bound[n])
    /\ UNCHANGED <<cache, data, bound, call>>
    /\ Uncounted

\* get_online_resource, load_network_from_url up to their await: the proxy is
\* resolved first and used after the await.
BeginFetch(c, n) ==
    \E k \in Ids, p \in Proxies :
       /\ call[c] = Idle
       /\ GetSessionId(n, k)
       /\ GetProxy(k, p)
       /\ call' = [call EXCEPT ![c] = [conn |-> n, sid |-> k, proxy |-> p]]
       /\ Holding(data)
       /\ Uncounted

\* A slip: the content goes to the session bound to the connection now.
EndFetchWhereBound(c) ==
    LET f == call[c]
        b == bound[f.conn]
    IN  /\ f # Idle
        /\ registry' = RecordCall(registry, b)
        /\ call' = [call EXCEPT ![c] = Idle]
        /\ UNCHANGED <<cache, bound>>
        /\ Holding(IF b \in Live(cache)
                   THEN [data EXCEPT ![cache.val[b]] = @ \cup {f.sid}] ELSE data)
        /\ Uncounted

\* The download succeeds: its content goes into the proxy resolved before the
\* await, and the call is recorded against the id bound to the connection now.
EndFetch(c) ==
    LET f == call[c]
    IN  /\ f # Idle
        /\ registry' = RecordCall(registry, bound[f.conn])
        /\ call' = [call EXCEPT ![c] = Idle]
        /\ UNCHANGED <<cache, bound>>
        /\ Holding([data EXCEPT ![f.proxy] = @ \cup {f.sid}])
        /\ Uncounted

\* The download fails or the call is cancelled: nothing is saved, the call is
\* recorded all the same (the wrapper records in a finally block).
FailFetch(c) ==
    LET f == call[c]
    IN  /\ f # Idle
        /\ registry' = RecordCall(registry, bound[f.conn])
        /\ call' = [call EXCEPT ![c] = Idle]
        /\ UNCHANGED <<cache, bound>>
        /\ Holding(data)
        /\ Uncounted

\* set_session_id with a valid token: rebind the connection; the call itself
\* is recorded against the new id.
SetSessionId(n, k) ==
    /\ bound' = [bound EXCEPT ![n] = k]
    /\ registry' = RecordCall(registry, k)
    /\ UNCHANGED <<cache, data, call>>
    /\ Uncounted

\* A slip: the fork shares the proxy of its source.
DuplicateSharing(n, src, tgt) ==
    /\ src \in Live(cache)
    /\ UNCHANGED <<bound, call>>
    /\ cache' = Put(Get(cache, src), tgt, cache.val[src])
    /\ Holding(data)
    /\ registry' = RecordCall(Touch(registry, tgt), bound[n])
    /\ Uncounted

\* A slip: the fork is not tracked.
DuplicateUntracked(n, src, tgt) ==
    /\ src \in Live(cache)
    /\ UNCHANGED <<bound, call>>
    /\ \E p \in NewProxies :
          /\ cache' = Put(Get(cache, src), tgt, p)
          /\ Holding([data EXCEPT ![p] = data[cache.val[src]]])
    /\ registry' = RecordCall(registry, bound[n])
    /\ Uncounted

\* duplicate_session with a valid token: copy the source's proxy under the
\* target id and track the target.  Over a live target it takes overwrite; without
\* it the call is refused (CallWithoutProxy).
DuplicateSession(n, src, tgt) ==
    /\ src \in Live(cache)
    /\ UNCHANGED <<bound, call>>
    /\ \E p \in NewProxies :
          /\ cache' = Put(Get(cache, src), tgt, p)
          /\ Holding([data EXCEPT ![p] = data[cache.val[src]]])
    /\ registry' = RecordCall(Touch(registry, tgt), bound[n])
    /\ Uncounted

\* The resources://temp/... handler: it looks the proxy up without creating
\* it, touching the registry or being recorded.
ReadTempResource(n) ==
    \E k \in Ids :
       /\ GetSessionId(n, k)
       /\ cache' = Get(cache, k)
       /\ UNCHANGED <<data, registry, call>>
       /\ Uncounted

\* A client goes away and another connects: the connection state is lost.
Reconnect(n) ==
    /\ bound[n] # NoId
    /\ \A c \in InFlight : call[c].conn # n
    /\ bound' = [bound EXCEPT ![n] = NoId]
    /\ UNCHANGED <<cache, data, registry, call>>
    /\ Uncounted

-----------------------------------------------------------------------------
(* The admin API *)

Gone == Tracked \ Live(cache)
Adopted == Live(cache) \ Tracked

\* A slip: off by one at the end of the TTL.
CountedLongExpired == {k \in Gone : registry.age[k] > TTL}

\* What reconcile adds to expired_total and to evicted_total.
CountedExpired == {k \in Gone : registry.age[k] >= TTL}
CountedEvicted == Gone \ CountedExpired

\* reconcile: reap the expired proxies, count out and forget the sessions the
\* cache has lost, and adopt the ones the registry never saw.
Reconcile ==
    /\ \E order \in SUBSET (Adopted \X Adopted) :
          /\ TotalOrder(order, Adopted)
          /\ registry' =
               [age    |-> [k \in Live(cache) |->
                              IF k \in Tracked THEN registry.age[k] ELSE 0],
                recent |-> Among(registry.recent, Live(cache)) \cup order
                           \cup ((Tracked \ Gone) \X Adopted),
                estimated |-> (registry.estimated \cap Live(cache)) \cup Adopted]
    /\ fate' = [k \in Ids |-> IF k \in Gone THEN "none" ELSE fate[k]]
    /\ lag' = [k \in Ids |-> IF k \in Gone THEN 0 ELSE lag[k]]
    /\ UNCHANGED <<bound, call>>

\* A slip: the cache is reaped and the registry left as it is.
HealthOfCacheOnly ==
    /\ cache' = Expire(cache)
    /\ UNCHANGED <<registry, bound, call>>
    /\ Holding(data)
    /\ Uncounted

\* A slip: the registry is reconciled and the cache not reaped.
HealthOfRegistryOnly ==
    /\ Reconcile
    /\ UNCHANGED <<cache, data>>

\* GET /admin/health.
Health ==
    /\ Reconcile
    /\ cache' = Expire(cache)
    /\ Holding(data)

\* GET /admin/sessions with a valid token: reconcile, then read every live
\* session, the most recently seen first.
AdminSessions ==
    /\ Reconcile
    /\ cache' = [Expire(cache) EXCEPT
                    !.lru = {<<p[2], p[1]>> : p \in registry'.recent}]
    /\ Holding(data)

\* The registry is reconciled by this step.
Polled == Health \/ AdminSessions

\* The ages of the tracked sessions a tick later.
Aged == [registry EXCEPT !.age =
            [k \in Tracked |-> IF @[k] < TTL THEN @[k] + 1 ELSE TTL]]

\* Time passes on both clocks.
Tick ==
    /\ cache' = Elapse(cache)
    /\ registry' = Aged
    /\ UNCHANGED <<data, bound, call, lag>>
    /\ FatesFollow

\* The monotonic clock passes a tick and the wall clock does not: the stretch
\* had not stamped its session yet, or time.time was set back.
CacheTick ==
    /\ cache' = Elapse(cache)
    /\ lag' = [k \in Ids |-> IF k \in Live(cache) /\ lag[k] < TTL
                             THEN lag[k] + 1 ELSE lag[k]]
    /\ UNCHANGED <<data, registry, bound, call>>
    /\ FatesFollow

\* The wall clock passes a tick and the monotonic clock does not.
WallTick ==
    /\ registry' = Aged
    /\ lag' = [k \in Ids |-> IF lag[k] > 0 THEN lag[k] - 1 ELSE 0]
    /\ UNCHANGED <<cache, data, bound, call, fate>>

\* The cache's clock moves in this step.
CacheAges == Tick \/ CacheTick

-----------------------------------------------------------------------------
Next ==
    \/ \E n \in Conns :
          \/ UseSession(n)
          \/ CallWithoutProxy(n)
          \/ \E c \in Calls : BeginFetch(c, n)
          \/ \E k \in Ids : SetSessionId(n, k)
          \/ \E src, tgt \in Ids : DuplicateSession(n, src, tgt)
          \/ ReadTempResource(n)
          \/ Reconnect(n)
    \/ \E c \in Calls : EndFetch(c) \/ FailFetch(c)
    \/ Polled
    \/ CacheAges
    \/ WallTick

Spec == Init /\ [][Next]_vars

\* The monotonic clock runs, and something polls the unauthenticated health route ("it
\* can back a container health check or an uptime probe", admin.py).  Clients
\* owe the server nothing.
FairSpec == Spec /\ WF_vars(CacheAges) /\ WF_vars(Health)

-----------------------------------------------------------------------------
(* Safety *)

\* Two sessions never share a proxy, and a call that is still awaiting holds a
\* proxy that is its own session's or nobody's: what it writes late cannot
\* reach another session, whatever was evicted, forked or rebound meanwhile.
PrivateProxies ==
    /\ \A j, k \in Keys(cache) : cache.val[j] = cache.val[k] => j = k
    /\ \A c \in InFlight, k \in Keys(cache) :
          cache.val[k] = call[c].proxy => k = call[c].sid

\* Every session in the cache is tracked by the registry, so that reconcile
\* never has to adopt one and guess its creation time (session.py:99-100).
CachedAreTracked == Keys(cache) \subseteq Tracked

\* The life the admin API reports, TTL minus the age, is longer than the one the
\* session really has left by no more than the wall clock has lost to the cache's
\* since it was stored: uses, forks and rebirths add nothing to that.
LifeNotOverstated ==
    \A k \in Keys(cache) \cap Tracked :
       TTL - registry.age[k] <= cache.left[k] + lag[k]

\* A session that reached the end of its TTL is counted among those evicted for
\* capacity, "the alarming one" (session_registry.py:144-149), only while its age
\* on the wall clock is short of the TTL by what that clock has lost: never when
\* the clocks agree, however busy, forked or rebound it was.
ExpiryRaisesNoAlarm ==
    [][Polled => \A k \in CountedEvicted :
          fate[k] = "expired" => TTL - registry.age[k] \in 1 .. lag[k]]_vars

\* The sessions as their clients see them: private stores that only their own
\* calls write into and that are lost as a whole.
Store == INSTANCE AbstractSessions
            WITH store <- [k \in Live(cache) |-> data[cache.val[k]]]

StoresArePrivate == Store!Spec

-----------------------------------------------------------------------------
(* Liveness *)

\* A session the cache lost does not stay in the registry: it is counted out
\* at the next poll, unless it is created again.
LostIsReaped ==
    \A k \in Ids : (k \in Tracked /\ k \notin Live(cache))
                     ~> (k \notin Tracked \/ k \in Live(cache))

\* The proxy of an expired session, with the networks it holds, does not stay
\* in memory, even when no client ever calls again.
ExpiredIsReleased ==
    \A k \in Ids, p \in Proxies :
       (k \in Keys(cache) \ Live(cache) /\ cache.val[k] = p)
       ~> ~(k \in Keys(cache) \ Live(cache) /\ cache.val[k] = p)

\* A session ends a TTL after it was created however busy it is: reading an
\* entry does not renew it (docs/monitoring.md:110-112).
BusySessionsEnd ==
    \A k \in Ids, p \in Proxies :
       (k \in Live(cache) /\ cache.val[k] = p)
       ~> ~(k \in Live(cache) /\ cache.val[k] = p)
=============================================================================
