---------------------------- MODULE SessionsProofs ----------------------------
(* The safety of Sessions, and what of its liveness does not take ENABLED, for *)
(* every number of sessions, connections, calls in flight and proxies, every   *)
(* TTL and every capacity.                                                     *)
EXTENDS Sessions, TTLCacheTheorems

-----------------------------------------------------------------------------
(* The registry *)

\* Touching a session tracks it, from age 0 when it is new, and leaves every
\* other session as it was.
LEMMA TouchLemma ==
    ASSUME NEW r, NEW k \in Ids, IsRegistry(r)
    PROVE  /\ IsRegistry(Touch(r, k))
           /\ DOMAIN Touch(r, k).age = DOMAIN r.age \cup {k}
  <1> DEFINE t == Touch(r, k)
             S == DOMAIN r.age \cup {k}
  <1>1. /\ t.age = [j \in S |-> IF j \in DOMAIN r.age THEN r.age[j] ELSE 0]
        /\ t.recent = MoveToEnd(r.recent, S, k)
        /\ t.estimated = r.estimated
        /\ t = [age |-> t.age, recent |-> t.recent, estimated |-> t.estimated]
    BY DEF Touch
  <1> HIDE DEF t
  <1>2. DOMAIN t.age = S
    BY <1>1
  <1>3. t.age \in [S -> 0 .. TTL]
    BY <1>1, TTLAssumption DEF IsRegistry
  <1>4. t.recent \subseteq Ids \X Ids
    BY <1>1 DEF IsRegistry, MoveToEnd
  <1>5. IsRegistry(t)
    BY <1>1, <1>2, <1>3, <1>4 DEF IsRegistry
  <1> QED
    BY <1>2, <1>5 DEF t

\* The ages after a touch.
LEMMA TouchAgeLemma ==
    ASSUME NEW r, NEW k, NEW j
    PROVE  /\ j \in DOMAIN r.age => Touch(r, k).age[j] = r.age[j]
           /\ k \notin DOMAIN r.age => Touch(r, k).age[k] = 0
  BY DEF Touch

\* Recording a call of the session k, or of none.
LEMMA RecordCallLemma ==
    ASSUME NEW r, NEW k \in Ids \cup {NoId}, IsRegistry(r)
    PROVE  /\ IsRegistry(RecordCall(r, k))
           /\ DOMAIN r.age \subseteq DOMAIN RecordCall(r, k).age
  <1>1. CASE k = NoId
    BY <1>1 DEF RecordCall
  <1>2. CASE k # NoId
    BY <1>2, TouchLemma DEF RecordCall
  <1> QED
    BY <1>1, <1>2

\* Recording a call changes no age.
LEMMA RecordCallAgeLemma ==
    ASSUME NEW r, NEW k, NEW j \in DOMAIN r.age
    PROVE  RecordCall(r, k).age[j] = r.age[j]
  BY TouchAgeLemma DEF RecordCall

-----------------------------------------------------------------------------
(* The cache of proxies *)

\* The step leaves the entry of session j as it was.
Same(j) ==
    /\ j \in Keys(cache)
    /\ cache'.val[j] = cache.val[j]
    /\ cache'.left[j] = cache.left[j]

\* The step stores proxy p under k, for a whole TTL unless it was already
\* there, and otherwise only removes sessions.
Stores(k, p) ==
    /\ k \in Keys(cache')
    /\ cache'.val[k] = p
    /\ Same(k) \/ cache'.left[k] = TTL
    /\ \A j \in Keys(cache') : j # k => Same(j)

\* The step only removes sessions.
Sheds == \A j \in Keys(cache') : Same(j)

\* Proxy p is nobody's or session k's.
Owned(k, p) == p \in NewProxies \/ (k \in Keys(cache) /\ p = cache.val[k])

\* Finding or building the proxy of a session stores one under its id: the
\* one it had, or a new one.
LEMMA GetProxyLemma ==
    ASSUME IsCache(cache, Ids, Proxies), IsRegistry(registry),
           NEW k \in Ids, NEW p \in Proxies, GetProxy(k, p)
    PROVE  /\ IsCache(cache', Ids, Proxies)
           /\ Stores(k, p)
           /\ Owned(k, p)
           /\ IsRegistry(registry')
  <1>1. IsRegistry(registry')
    BY TouchLemma DEF GetProxy
  <1>2. CASE k \in Live(cache) /\ p = cache.val[k] /\ cache' = Get(cache, k)
    <2>1. /\ IsCache(cache', Ids, Proxies)
          /\ cache'.val = cache.val
          /\ cache'.left = cache.left
          /\ Keys(cache') = Keys(cache)
      BY <1>2, GetLemma
    <2>2. k \in Keys(cache)
      BY <1>2 DEF Live
    <2> QED
      BY <1>1, <1>2, <2>1, <2>2 DEF Stores, Same, Owned
  <1>3. CASE p \in NewProxies /\ cache' = Put(cache, k, p)
    <2>1. /\ IsCache(cache', Ids, Proxies)
          /\ k \in Keys(cache')
      BY <1>3, PutLemma
    <2>2. cache'.val[k] = p /\ cache'.left[k] = TTL
      BY <1>3, PutNewEntryLemma
    <2>3. ASSUME NEW j \in Keys(cache'), j # k
          PROVE  Same(j)
      BY <1>3, <2>3, PutOldEntryLemma DEF Live, Same
    <2> QED
      BY <1>1, <1>3, <2>1, <2>2, <2>3 DEF Stores, Owned
  <1> QED
    BY <1>2, <1>3 DEF GetProxy

\* Forking a session stores a new proxy under the target's id.
LEMMA DuplicateLemma ==
    ASSUME IsCache(cache, Ids, Proxies), NEW src \in Ids, NEW tgt \in Ids,
           NEW p \in Proxies, cache' = Put(Get(cache, src), tgt, p)
    PROVE  IsCache(cache', Ids, Proxies) /\ Stores(tgt, p)
  <1> DEFINE g == Get(cache, src)
  <1>1. /\ IsCache(g, Ids, Proxies)
        /\ g.val = cache.val
        /\ g.left = cache.left
        /\ Keys(g) = Keys(cache)
    BY GetLemma
  <1> HIDE DEF g
  <1>2. cache' = Put(g, tgt, p)
    BY DEF g
  <1>3. IsCache(cache', Ids, Proxies) /\ tgt \in Keys(cache')
    BY <1>1, <1>2, PutLemma
  <1>4. cache'.val[tgt] = p /\ cache'.left[tgt] = TTL
    BY <1>2, PutNewEntryLemma
  <1>5. ASSUME NEW j \in Keys(cache'), j # tgt
        PROVE  Same(j)
    BY <1>1, <1>2, <1>5, PutOldEntryLemma DEF Live, Same
  <1> QED
    BY <1>3, <1>4, <1>5 DEF Stores

\* Looking a session up stores nothing.
LEMMA LookUpLemma ==
    ASSUME IsCache(cache, Ids, Proxies), NEW k, cache' = Get(cache, k)
    PROVE  IsCache(cache', Ids, Proxies) /\ Sheds
  BY GetLemma DEF Sheds, Same

\* Reaping stores nothing.
LEMMA ReapLemma ==
    ASSUME IsCache(cache, Ids, Proxies), NEW e, e = Expire(cache)
    PROVE  /\ IsCache(e, Ids, Proxies)
           /\ Keys(e) = Live(cache)
           /\ \A j \in Keys(e) : /\ j \in Keys(cache)
                                 /\ e.val[j] = cache.val[j]
                                 /\ e.left[j] = cache.left[j]
  <1>1. IsCache(e, Ids, Proxies) /\ Keys(e) = Live(cache)
    BY ExpireLemma
  <1>2. ASSUME NEW j \in Keys(e)
        PROVE  /\ j \in Keys(cache)
               /\ e.val[j] = cache.val[j]
               /\ e.left[j] = cache.left[j]
    <2>1. j \in Keys(cache) /\ j \in Live(cache)
      BY <1>1 DEF Live
    <2> QED
      BY <2>1, KeepEntryLemma DEF Expire
  <1> QED
    BY <1>1, <1>2

-----------------------------------------------------------------------------
(* Types *)

Fates == {"none", "live", "expired", "evicted"}

\* Every step that counts no session out keeps the history well typed.
LEMMA FatesLemma ==
    ASSUME fate \in [Ids -> Fates], FatesFollow
    PROVE  fate' \in [Ids -> Fates]
  <1>1. \A k \in Ids : FateOf(k) \in Fates
    BY DEF FateOf, Fates
  <1> QED
    BY <1>1 DEF FatesFollow

\* So does one that takes no time.
LEMMA UncountedLemma ==
    ASSUME fate \in [Ids -> Fates], lag \in [Ids -> 0 .. TTL], Uncounted
    PROVE  fate' \in [Ids -> Fates] /\ lag' \in [Ids -> 0 .. TTL]
  <1>1. lag' \in [Ids -> 0 .. TTL]
    BY TTLAssumption DEF Uncounted
  <1> QED
    BY <1>1, FatesLemma DEF Uncounted

\* Freeing proxies keeps what they hold well typed.
LEMMA HoldingLemma ==
    ASSUME NEW d \in [Proxies -> SUBSET Ids], Holding(d)
    PROVE  data' \in [Proxies -> SUBSET Ids]
  BY DEF Holding

\* A poll leaves a registry of the live sessions.
LEMMA ReconcileLemma ==
    ASSUME TypeOK, Reconcile
    PROVE  /\ IsRegistry(registry')
           /\ DOMAIN registry'.age = Live(cache)
           /\ registry'.recent \subseteq Live(cache) \X Live(cache)
           /\ fate' \in [Ids -> Fates]
           /\ lag' \in [Ids -> 0 .. TTL]
  <1>1. PICK order \in SUBSET (Adopted \X Adopted) :
           registry' =
             [age    |-> [k \in Live(cache) |->
                            IF k \in Tracked THEN registry.age[k] ELSE 0],
              recent |-> Among(registry.recent, Live(cache)) \cup order
                         \cup ((Tracked \ Gone) \X Adopted),
              estimated |-> (registry.estimated \cap Live(cache)) \cup Adopted]
    BY DEF Reconcile
  <1>2. /\ registry'.age = [k \in Live(cache) |->
                              IF k \in Tracked THEN registry.age[k] ELSE 0]
        /\ registry'.recent = Among(registry.recent, Live(cache)) \cup order
                              \cup ((Tracked \ Gone) \X Adopted)
        /\ registry'.estimated = (registry.estimated \cap Live(cache)) \cup Adopted
        /\ registry' = [age |-> registry'.age, recent |-> registry'.recent,
                        estimated |-> registry'.estimated]
    BY <1>1
  <1>3. DOMAIN registry'.age = Live(cache)
    BY <1>2
  <1>4. Live(cache) \subseteq Ids
    BY DEF TypeOK, IsCache, Live
  <1>5. registry'.age \in [Live(cache) -> 0 .. TTL]
    BY <1>2, TTLAssumption DEF TypeOK, IsRegistry, Tracked
  <1>6. registry'.recent \subseteq Live(cache) \X Live(cache)
    BY <1>2 DEF TypeOK, IsRegistry, Among, Gone, Adopted
  <1>7. fate' \in [Ids -> Fates]
    BY DEF Reconcile, TypeOK, Fates
  <1>8. registry'.estimated \subseteq Live(cache)
    BY <1>2 DEF Adopted
  <1>9. IsRegistry(registry')
    BY <1>2, <1>3, <1>4, <1>5, <1>6, <1>8 DEF IsRegistry
  <1>10. lag' \in [Ids -> 0 .. TTL]
    BY TTLAssumption DEF Reconcile, TypeOK
  <1> QED
    BY <1>3, <1>6, <1>7, <1>9, <1>10

\* The ages a tick later.
LEMMA AgedLemma ==
    ASSUME TypeOK, registry' = Aged
    PROVE  /\ IsRegistry(registry')
           /\ Tracked' = Tracked
           /\ \A k \in Tracked : registry'.age[k] =
                 IF registry.age[k] < TTL THEN registry.age[k] + 1 ELSE TTL
  <1>1. registry' = [age |-> [k \in Tracked |-> IF registry.age[k] < TTL
                                                THEN registry.age[k] + 1
                                                ELSE TTL],
                     recent |-> registry.recent,
                     estimated |-> registry.estimated]
    BY DEF TypeOK, Aged, IsRegistry
  <1> QED
    BY <1>1, TTLAssumption DEF TypeOK, IsRegistry, Tracked

\* A poll leaves the live sessions in the cache, as they were.
LEMMA PollLemma ==
    ASSUME TypeOK, Polled
    PROVE  /\ IsCache(cache', Ids, Proxies)
           /\ Keys(cache') = Live(cache)
           /\ Sheds
           /\ Reconcile
           /\ Holding(data)
  <1> DEFINE e == Expire(cache)
             read == {<<p[2], p[1]>> : p \in registry'.recent}
  <1>1. /\ IsCache(e, Ids, Proxies)
        /\ Keys(e) = Live(cache)
        /\ \A j \in Keys(e) : /\ j \in Keys(cache)
                              /\ e.val[j] = cache.val[j]
                              /\ e.left[j] = cache.left[j]
    BY ReapLemma DEF TypeOK
  <1>2. CASE Health
    BY <1>1, <1>2 DEF Health, Sheds, Same
  <1>3. CASE AdminSessions
    <2>1. Reconcile /\ Holding(data)
      BY <1>3 DEF AdminSessions
    <2>2. read \subseteq Keys(e) \X Keys(e)
      BY <2>1, <1>1, ReconcileLemma
    <2> HIDE DEF e
    <2>3. cache' = [val |-> e.val, left |-> e.left, lru |-> read]
      BY <1>3, <1>1 DEF AdminSessions, IsCache, e
    <2>4. Keys(cache') = Keys(e)
      BY <2>3 DEF Keys
    <2>5. IsCache(cache', Ids, Proxies)
      BY <1>1, <2>2, <2>3, <2>4 DEF IsCache
    <2>6. Sheds
      BY <1>1, <2>3, <2>4 DEF Sheds, Same
    <2> QED
      BY <1>1, <2>1, <2>4, <2>5, <2>6
  <1> QED
    BY <1>2, <1>3 DEF Polled

\* Every variable starts with its type.
LEMMA TypeInit == Init => TypeOK
  <1> SUFFICES ASSUME Init PROVE TypeOK
    OBVIOUS
  <1>1. IsCache(cache, Ids, Proxies)
    BY DEF Init, EmptyCache, IsCache, Keys
  <1>2. IsRegistry(registry)
    BY DEF Init, IsRegistry
  <1> QED
    BY <1>1, <1>2, TTLAssumption DEF Init, TypeOK

\* Every step keeps every variable in its type.
LEMMA TypeNext == TypeOK /\ [Next]_vars => TypeOK'
  <1> SUFFICES ASSUME TypeOK, [Next]_vars PROVE TypeOK'
    OBVIOUS
  <1> USE DEF TypeOK, Fates
  <1>1. ASSUME NEW n \in Conns, UseSession(n) PROVE TypeOK'
    <2>1. PICK k \in Ids, p \in Proxies, writes \in BOOLEAN :
             /\ GetSessionId(n, k)
             /\ GetProxy(k, p)
             /\ UNCHANGED call
             /\ Holding(IF writes THEN [data EXCEPT ![p] = @ \cup {k}] ELSE data)
             /\ Uncounted
      BY <1>1 DEF UseSession
    <2>2. IsCache(cache', Ids, Proxies) /\ IsRegistry(registry')
      BY <2>1, GetProxyLemma
    <2>3. data' \in [Proxies -> SUBSET Ids]
      BY <2>1, HoldingLemma
    <2>4. bound' \in [Conns -> Ids \cup {NoId}]
      BY <2>1 DEF GetSessionId
    <2> QED
      BY <2>1, <2>2, <2>3, <2>4, UncountedLemma
  <1>2. ASSUME NEW n \in Conns, CallWithoutProxy(n) PROVE TypeOK'
    BY <1>2, RecordCallLemma, UncountedLemma DEF CallWithoutProxy
  <1>3. ASSUME NEW n \in Conns, NEW c \in Calls, BeginFetch(c, n) PROVE TypeOK'
    <2>1. PICK k \in Ids, p \in Proxies :
             /\ GetSessionId(n, k)
             /\ GetProxy(k, p)
             /\ call' = [call EXCEPT ![c] = [conn |-> n, sid |-> k, proxy |-> p]]
             /\ Holding(data)
             /\ Uncounted
      BY <1>3 DEF BeginFetch
    <2>2. IsCache(cache', Ids, Proxies) /\ IsRegistry(registry')
      BY <2>1, GetProxyLemma
    <2>3. data' \in [Proxies -> SUBSET Ids]
      BY <2>1, HoldingLemma
    <2>4. bound' \in [Conns -> Ids \cup {NoId}]
      BY <2>1 DEF GetSessionId
    <2>5. call' \in [Calls -> [conn : Conns, sid : Ids, proxy : Proxies] \cup {Idle}]
      BY <2>1
    <2> QED
      BY <2>1, <2>2, <2>3, <2>4, <2>5, UncountedLemma
  <1>4. ASSUME NEW n \in Conns, NEW k \in Ids, SetSessionId(n, k) PROVE TypeOK'
    BY <1>4, RecordCallLemma, UncountedLemma DEF SetSessionId
  <1>5. ASSUME NEW n \in Conns, NEW src \in Ids, NEW tgt \in Ids,
               DuplicateSession(n, src, tgt)
        PROVE  TypeOK'
    <2>1. PICK p \in NewProxies :
             /\ cache' = Put(Get(cache, src), tgt, p)
             /\ Holding([data EXCEPT ![p] = data[cache.val[src]]])
      BY <1>5 DEF DuplicateSession
    <2>2. p \in Proxies /\ cache.val[src] \in Proxies
      BY <1>5 DEF NewProxies, DuplicateSession, IsCache, Live
    <2>3. IsCache(cache', Ids, Proxies)
      BY <2>1, <2>2, DuplicateLemma
    <2>4. data' \in [Proxies -> SUBSET Ids]
      BY <2>1, <2>2, HoldingLemma
    <2>5. IsRegistry(registry')
      <3>1. IsRegistry(Touch(registry, tgt))
        BY TouchLemma
      <3> QED
        BY <1>5, <3>1, RecordCallLemma DEF DuplicateSession
    <2> QED
      BY <1>5, <2>3, <2>4, <2>5, UncountedLemma DEF DuplicateSession
  <1>6. ASSUME NEW n \in Conns, ReadTempResource(n) PROVE TypeOK'
    <2>1. PICK k \in Ids : GetSessionId(n, k) /\ cache' = Get(cache, k)
      BY <1>6 DEF ReadTempResource
    <2>2. IsCache(cache', Ids, Proxies)
      BY <2>1, LookUpLemma
    <2> QED
      BY <1>6, <2>1, <2>2, UncountedLemma DEF ReadTempResource, GetSessionId
  <1>7. ASSUME NEW n \in Conns, Reconnect(n) PROVE TypeOK'
    BY <1>7, UncountedLemma DEF Reconnect
  <1>8. ASSUME NEW c \in Calls, EndFetch(c) PROVE TypeOK'
    <2>1. call[c] \in [conn : Conns, sid : Ids, proxy : Proxies]
      BY <1>8 DEF EndFetch
    <2>2. data' \in [Proxies -> SUBSET Ids]
      BY <1>8, <2>1, HoldingLemma DEF EndFetch
    <2>3. IsRegistry(registry')
      BY <1>8, <2>1, RecordCallLemma DEF EndFetch
    <2> QED
      BY <1>8, <2>2, <2>3, UncountedLemma DEF EndFetch
  <1>9. ASSUME NEW c \in Calls, FailFetch(c) PROVE TypeOK'
    <2>1. call[c] \in [conn : Conns, sid : Ids, proxy : Proxies]
      BY <1>9 DEF FailFetch
    <2>2. data' \in [Proxies -> SUBSET Ids]
      BY <1>9, HoldingLemma DEF FailFetch
    <2>3. IsRegistry(registry')
      BY <1>9, <2>1, RecordCallLemma DEF FailFetch
    <2> QED
      BY <1>9, <2>2, <2>3, UncountedLemma DEF FailFetch
  <1>10. CASE Polled
    <2>1. IsCache(cache', Ids, Proxies) /\ Reconcile /\ Holding(data)
      BY <1>10, PollLemma
    <2> QED
      BY <2>1, ReconcileLemma, HoldingLemma DEF Reconcile
  <1>11. CASE Tick
    BY <1>11, ElapseLemma, AgedLemma, FatesLemma DEF Tick
  <1>12. CASE CacheTick
    <2>1. lag' \in [Ids -> 0 .. TTL]
      BY <1>12, TTLAssumption DEF CacheTick
    <2> QED
      BY <1>12, <2>1, ElapseLemma, FatesLemma DEF CacheTick
  <1>13. CASE WallTick
    <2>1. lag' \in [Ids -> 0 .. TTL]
      BY <1>13, TTLAssumption DEF WallTick
    <2> QED
      BY <1>13, <2>1, AgedLemma DEF WallTick
  <1>14. CASE UNCHANGED vars
    BY <1>14 DEF vars, IsCache, IsRegistry, Keys
  <1> QED
    BY <1>1, <1>2, <1>3, <1>4, <1>5, <1>6, <1>7, <1>8, <1>9, <1>10, <1>11,
       <1>12, <1>13, <1>14 DEF Next, CacheAges

\* Every variable always has its type.
THEOREM TypeCorrect == Spec => []TypeOK
  BY TypeInit, TypeNext, PTL DEF Spec

-----------------------------------------------------------------------------
(* Isolation *)

\* The step starts no call but, maybe, one of session k that holds proxy p.
Starts(k, p) ==
    \A c \in Calls :
       \/ call'[c] = call[c]
       \/ call'[c].sid = k /\ call'[c].proxy = p

\* Storing under k a proxy that nothing else refers to, for a call of session k
\* if any, keeps the proxies private.
LEMMA StoresPrivate ==
    ASSUME PrivateProxies, NEW k \in Ids, NEW p \in Proxies, Stores(k, p),
           Owned(k, p), Starts(k, p)
    PROVE  PrivateProxies'
  <1>1. ASSUME NEW j \in Keys(cache'), j # k
        PROVE  /\ j \in Keys(cache)
               /\ cache'.val[j] = cache.val[j]
               /\ cache'.val[j] # p
    BY <1>1 DEF Stores, Same, Owned, NewProxies, PrivateProxies
  <1>2. ASSUME NEW i \in Keys(cache'), NEW j \in Keys(cache'),
               cache'.val[i] = cache'.val[j]
        PROVE  i = j
    BY <1>1, <1>2 DEF Stores, PrivateProxies
  <1>3. ASSUME NEW c \in Calls, call'[c] # Idle, NEW j \in Keys(cache'),
               cache'.val[j] = call'[c].proxy
        PROVE  j = call'[c].sid
    <2>1. CASE call'[c].sid = k /\ call'[c].proxy = p
      BY <1>1, <1>3, <2>1
    <2>2. CASE call'[c] = call[c]
      <3>1. c \in InFlight
        BY <1>3, <2>2 DEF InFlight
      <3>2. CASE j # k
        BY <1>1, <1>3, <2>2, <3>1, <3>2 DEF PrivateProxies
      <3>3. CASE j = k
        BY <1>3, <2>2, <3>1, <3>3 DEF Stores, Owned, NewProxies, PrivateProxies
      <3> QED
        BY <3>2, <3>3
    <2> QED
      BY <2>1, <2>2 DEF Starts
  <1> QED
    BY <1>2, <1>3 DEF PrivateProxies, InFlight

\* Removing sessions and ending calls keeps the proxies private.
LEMMA ShedsPrivate ==
    ASSUME PrivateProxies, Sheds,
           \A c \in Calls : call'[c] = call[c] \/ call'[c] = Idle
    PROVE  PrivateProxies'
  BY DEF PrivateProxies, Sheds, Same, InFlight

\* No step makes a proxy shared, or a waiting call's proxy somebody else's.
LEMMA PrivateNext == TypeOK /\ PrivateProxies /\ [Next]_vars => PrivateProxies'
  <1> SUFFICES ASSUME TypeOK, PrivateProxies, [Next]_vars PROVE PrivateProxies'
    OBVIOUS
  <1>0. IsCache(cache, Ids, Proxies) /\ IsRegistry(registry)
    BY DEF TypeOK
  <1>1. ASSUME NEW n \in Conns, UseSession(n) PROVE PrivateProxies'
    <2>1. PICK k \in Ids, p \in Proxies : GetProxy(k, p) /\ UNCHANGED call
      BY <1>1 DEF UseSession
    <2>2. Stores(k, p) /\ Owned(k, p)
      BY <1>0, <2>1, GetProxyLemma
    <2>3. Starts(k, p)
      BY <2>1 DEF Starts
    <2> QED
      BY <2>2, <2>3, StoresPrivate
  <1>2. ASSUME NEW n \in Conns, NEW c \in Calls, BeginFetch(c, n)
        PROVE  PrivateProxies'
    <2>1. PICK k \in Ids, p \in Proxies :
             /\ GetProxy(k, p)
             /\ call' = [call EXCEPT ![c] = [conn |-> n, sid |-> k, proxy |-> p]]
      BY <1>2 DEF BeginFetch
    <2>2. Starts(k, p)
      BY <2>1 DEF Starts, TypeOK
    <2>3. Stores(k, p) /\ Owned(k, p)
      BY <1>0, <2>1, GetProxyLemma
    <2> QED
      BY <2>2, <2>3, StoresPrivate
  <1>3. ASSUME NEW n \in Conns, NEW src \in Ids, NEW tgt \in Ids,
               DuplicateSession(n, src, tgt)
        PROVE  PrivateProxies'
    <2>1. PICK p \in NewProxies : cache' = Put(Get(cache, src), tgt, p)
      BY <1>3 DEF DuplicateSession
    <2>2. p \in Proxies
      BY DEF NewProxies
    <2>3. Starts(tgt, p)
      BY <1>3 DEF DuplicateSession, Starts
    <2>4. Stores(tgt, p) /\ Owned(tgt, p)
      BY <1>0, <2>1, <2>2, DuplicateLemma DEF Owned
    <2> QED
      BY <2>2, <2>3, <2>4, StoresPrivate
  <1>4. ASSUME NEW n \in Conns, ReadTempResource(n) PROVE PrivateProxies'
    BY <1>0, <1>4, LookUpLemma, ShedsPrivate DEF ReadTempResource
  <1>5. ASSUME NEW c \in Calls, EndFetch(c) \/ FailFetch(c) PROVE PrivateProxies'
    <2>1. cache' = cache /\ \A d \in Calls : call'[d] = call[d] \/ call'[d] = Idle
      BY <1>5 DEF EndFetch, FailFetch, TypeOK
    <2> QED
      BY <2>1, ShedsPrivate DEF Sheds, Same
  <1>6. CASE Polled
    BY <1>6, PollLemma, ShedsPrivate DEF Reconcile
  <1>7. CASE CacheAges \/ WallTick
    <2>1. Keys(cache') = Keys(cache) /\ cache'.val = cache.val /\ call' = call
      BY <1>0, <1>7, ElapseLemma DEF CacheAges, Tick, CacheTick, WallTick
    <2> QED
      BY <2>1 DEF PrivateProxies, InFlight
  <1>8. ASSUME NEW n \in Conns,
               \/ CallWithoutProxy(n)
               \/ \E k \in Ids : SetSessionId(n, k)
               \/ Reconnect(n)
        PROVE  PrivateProxies'
    BY <1>8, ShedsPrivate
       DEF CallWithoutProxy, SetSessionId, Reconnect, Sheds, Same
  <1>9. CASE UNCHANGED vars
    BY <1>9, ShedsPrivate DEF vars, Sheds, Same
  <1> QED
    BY <1>1, <1>2, <1>3, <1>4, <1>5, <1>6, <1>7, <1>8, <1>9 DEF Next

\* Two sessions never share a proxy, and a call that has been waiting can
\* only write into a proxy of its own session or of nobody, whatever was
\* evicted, expired, forked or rebound while it waited.
THEOREM SessionsAreIsolated == Spec => []PrivateProxies
  <1>1. Init => PrivateProxies
    BY DEF Init, EmptyCache, Keys, PrivateProxies, InFlight
  <1> QED
    BY <1>1, TypeInit, TypeNext, PrivateNext, PTL DEF Spec

-----------------------------------------------------------------------------
(* Accounting *)

\* The inductive form of CachedAreTracked and LifeNotOverstated.
Accounted ==
    \A k \in Keys(cache) :
       /\ k \in Tracked
       /\ TTL <= registry.age[k] + cache.left[k] + lag[k]

\* The step forgets no lag of a session that it leaves in the cache.
KeepsLag == \A k \in Keys(cache') : lag'[k] = lag[k] \/ cache'.left[k] = TTL

\* The step forgets no session, and makes none older.
Remembers ==
    \A k \in Tracked : k \in Tracked' /\ registry'.age[k] = registry.age[k]

\* Only a poll counts sessions out, and only the clocks take time.
LEMMA CountedLemma ==
    ASSUME [Next]_vars, ~Polled, ~CacheAges, ~WallTick
    PROVE  Uncounted \/ UNCHANGED vars
  <1>1. ASSUME NEW n \in Conns, UseSession(n) PROVE Uncounted
    BY <1>1 DEF UseSession
  <1>2. ASSUME NEW n \in Conns, NEW c \in Calls, BeginFetch(c, n) PROVE Uncounted
    BY <1>2 DEF BeginFetch
  <1>3. ASSUME NEW n \in Conns,
               \/ CallWithoutProxy(n)
               \/ \E k \in Ids : SetSessionId(n, k)
               \/ ReadTempResource(n)
               \/ Reconnect(n)
        PROVE  Uncounted
    BY <1>3 DEF CallWithoutProxy, SetSessionId, ReadTempResource, Reconnect
  <1>4. ASSUME NEW n \in Conns, NEW src \in Ids, NEW tgt \in Ids,
               DuplicateSession(n, src, tgt)
        PROVE  Uncounted
    BY <1>4 DEF DuplicateSession
  <1>5. ASSUME NEW c \in Calls, EndFetch(c) \/ FailFetch(c) PROVE Uncounted
    BY <1>5 DEF EndFetch, FailFetch
  <1> QED
    BY <1>1, <1>2, <1>3, <1>4, <1>5 DEF Next

\* A step that takes no time keeps the lags of the sessions it leaves there.
LEMMA LagIsKept ==
    ASSUME TypeOK, TypeOK', Uncounted \/ UNCHANGED vars
    PROVE  KeepsLag
  <1> SUFFICES ASSUME Uncounted, NEW k \in Keys(cache')
               PROVE  lag'[k] = lag[k] \/ cache'.left[k] = TTL
    BY DEF KeepsLag, vars
  <1>1. k \in Ids
    BY DEF TypeOK, IsCache
  <1>2. fate'[k] = FateOf(k)
    BY <1>1 DEF Uncounted, FatesFollow
  <1>3. fate'[k] = "live" \/ fate'[k] = "expired"
    BY <1>2 DEF FateOf
  <1> QED
    BY <1>1, <1>3 DEF Uncounted


\* A step that forgets no session, and stores tracked ones for a whole TTL,
\* keeps the cached sessions accounted.
LEMMA RemembersLemma ==
    ASSUME TypeOK, TypeOK', Accounted, Remembers, KeepsLag,
           \A j \in Keys(cache') : Same(j) \/ (j \in Tracked' /\ cache'.left[j] = TTL)
    PROVE  Accounted'
  <1> SUFFICES ASSUME NEW k \in Keys(cache')
               PROVE  /\ k \in Tracked'
                      /\ TTL <= registry'.age[k] + cache'.left[k] + lag'[k]
    BY DEF Accounted
  <1>0. lag'[k] \in 0 .. TTL /\ (lag'[k] = lag[k] \/ cache'.left[k] = TTL)
    BY DEF KeepsLag, TypeOK, IsCache
  <1>1. CASE Same(k) /\ lag'[k] = lag[k]
    BY <1>1 DEF Same, Accounted, Remembers
  <1>2. CASE k \in Tracked' /\ cache'.left[k] = TTL
    <2>1. registry'.age[k] \in Nat
      BY <1>2 DEF TypeOK, IsRegistry, Tracked
    <2> QED
      BY <1>0, <1>2, <2>1, TTLAssumption
  <1>3. Same(k) => k \in Tracked'
    BY DEF Same, Accounted, Remembers
  <1> QED
    BY <1>0, <1>1, <1>2, <1>3

\* A touch, with the step's own lemma on what it stores.
LEMMA TouchRemembers ==
    ASSUME TypeOK, NEW k \in Ids, registry' = Touch(registry, k)
    PROVE  Remembers /\ k \in Tracked'
  BY TouchLemma, TouchAgeLemma DEF TypeOK, Remembers, Tracked

\* Recording a call forgets no session.
LEMMA RecordCallRemembers ==
    ASSUME TypeOK, NEW k \in Ids \cup {NoId}, registry' = RecordCall(registry, k)
    PROVE  Remembers
  BY RecordCallLemma, RecordCallAgeLemma DEF TypeOK, Remembers, Tracked

\* Every action but the polls and the ticks forgets no session, and tracks the
\* one it stores.
LEMMA ToolsRemember ==
    ASSUME TypeOK, TypeOK', Accounted, [Next]_vars, ~Polled, ~CacheAges, ~WallTick
    PROVE  Remembers /\ Accounted'
  <1>0. IsCache(cache, Ids, Proxies) /\ IsRegistry(registry) /\ KeepsLag
    BY CountedLemma, LagIsKept DEF TypeOK
  <1>1. ASSUME NEW k \in Ids, NEW p \in Proxies, GetProxy(k, p)
        PROVE  Remembers /\ Accounted'
    <2>1. Stores(k, p)
      BY <1>0, <1>1, GetProxyLemma
    <2>2. Remembers /\ k \in Tracked'
      BY <1>1, TouchRemembers DEF GetProxy
    <2> QED
      BY <1>0, <2>1, <2>2, RemembersLemma DEF Stores
  <1>2. ASSUME NEW n \in Conns, UseSession(n) PROVE Remembers /\ Accounted'
    BY <1>1, <1>2 DEF UseSession
  <1>3. ASSUME NEW n \in Conns, NEW c \in Calls, BeginFetch(c, n)
        PROVE  Remembers /\ Accounted'
    BY <1>1, <1>3 DEF BeginFetch
  <1>4. ASSUME NEW n \in Conns, NEW src \in Ids, NEW tgt \in Ids,
               DuplicateSession(n, src, tgt)
        PROVE  Remembers /\ Accounted'
    <2>1. PICK p \in NewProxies : cache' = Put(Get(cache, src), tgt, p)
      BY <1>4 DEF DuplicateSession
    <2>2. Stores(tgt, p)
      BY <1>0, <2>1, DuplicateLemma DEF NewProxies
    <2> DEFINE t == Touch(registry, tgt)
    <2>3. IsRegistry(t) /\ DOMAIN t.age = Tracked \cup {tgt}
      BY <1>0, TouchLemma DEF Tracked
    <2>4. \A j \in Tracked : t.age[j] = registry.age[j]
      BY TouchAgeLemma DEF Tracked
    <2>5. bound[n] \in Ids \cup {NoId} /\ registry' = RecordCall(t, bound[n])
      BY <1>4 DEF DuplicateSession, TypeOK
    <2> HIDE DEF t
    <2>6. DOMAIN t.age \subseteq Tracked'
      BY <2>3, <2>5, RecordCallLemma DEF Tracked
    <2>7. \A j \in Tracked : registry'.age[j] = registry.age[j]
      BY <2>3, <2>4, <2>5, RecordCallAgeLemma
    <2>8. Remembers /\ tgt \in Tracked'
      BY <2>3, <2>6, <2>7 DEF Remembers
    <2> QED
      BY <1>0, <2>2, <2>8, RemembersLemma DEF Stores
  <1>5. ASSUME NEW n \in Conns, ReadTempResource(n) PROVE Remembers /\ Accounted'
    <2>1. Remembers
      BY <1>5 DEF ReadTempResource, Remembers, Tracked
    <2>2. Sheds
      BY <1>0, <1>5, LookUpLemma DEF ReadTempResource
    <2> QED
      BY <1>0, <2>1, <2>2, RemembersLemma DEF Sheds
  <1>6. ASSUME cache' = cache, NEW k \in Ids \cup {NoId},
               registry' = RecordCall(registry, k)
        PROVE  Remembers /\ Accounted'
    BY <1>0, <1>6, RecordCallRemembers, RemembersLemma DEF Same
  <1>7. ASSUME NEW n \in Conns, CallWithoutProxy(n) PROVE Remembers /\ Accounted'
    BY <1>6, <1>7 DEF CallWithoutProxy, TypeOK
  <1>8. ASSUME NEW n \in Conns, NEW k \in Ids, SetSessionId(n, k)
        PROVE  Remembers /\ Accounted'
    BY <1>6, <1>8 DEF SetSessionId
  <1>9. ASSUME NEW c \in Calls, EndFetch(c) \/ FailFetch(c)
        PROVE  Remembers /\ Accounted'
    <2>1. call[c] \in [conn : Conns, sid : Ids, proxy : Proxies]
      BY <1>9 DEF EndFetch, FailFetch, TypeOK
    <2>2. bound[call[c].conn] \in Ids \cup {NoId}
      BY <2>1 DEF TypeOK
    <2> QED
      BY <1>6, <1>9, <2>2 DEF EndFetch, FailFetch
  <1>10. ASSUME cache' = cache, registry' = registry PROVE Remembers /\ Accounted'
    <2>1. Remembers
      BY <1>10 DEF Remembers, Tracked
    <2> QED
      BY <1>0, <1>10, <2>1, RemembersLemma DEF Same
  <1>11. ASSUME NEW n \in Conns, Reconnect(n) PROVE Remembers /\ Accounted'
    BY <1>10, <1>11 DEF Reconnect
  <1>12. CASE UNCHANGED vars
    BY <1>10, <1>12 DEF vars
  <1> QED
    BY <1>2, <1>3, <1>4, <1>5, <1>7, <1>8, <1>9, <1>11, <1>12 DEF Next

\* Every step keeps the cached sessions tracked, and their ages safe.
LEMMA AccountedNext == TypeOK /\ TypeOK' /\ Accounted /\ [Next]_vars => Accounted'
  <1> SUFFICES ASSUME TypeOK, TypeOK', Accounted, [Next]_vars PROVE Accounted'
    OBVIOUS
  <1>1. CASE Polled
    <2>1. Reconcile /\ Sheds /\ Keys(cache') = Live(cache)
      BY <1>1, PollLemma
    <2>2. /\ Tracked' = Live(cache)
          /\ \A k \in Live(cache) : k \in Tracked => registry'.age[k] = registry.age[k]
          /\ \A k \in Live(cache) : lag'[k] = lag[k]
      BY <2>1 DEF Reconcile, Tracked, Gone, TypeOK, IsCache, Live
    <2> QED
      BY <2>1, <2>2 DEF Accounted, Sheds, Same
  <1>2. CASE CacheAges \/ WallTick
    <2>1. ASSUME NEW k \in Keys(cache')
          PROVE  k \in Tracked' /\ TTL <= registry'.age[k] + cache'.left[k] + lag'[k]
      <3>1. /\ Keys(cache') = Keys(cache)
            /\ \/ cache'.left[k] = cache.left[k]
               \/ cache'.left[k] = IF cache.left[k] = 0 THEN 0 ELSE cache.left[k] - 1
        BY <1>2, <2>1, ElapseLemma DEF CacheAges, Tick, CacheTick, WallTick, TypeOK
      <3>2. k \in Keys(cache) /\ k \in Tracked /\ k \in Ids
        BY <2>1, <3>1 DEF Accounted, TypeOK, IsCache
      <3>3. /\ TTL <= registry.age[k] + cache.left[k] + lag[k]
            /\ cache.left[k] \in 0 .. TTL
            /\ registry.age[k] \in 0 .. TTL
            /\ lag[k] \in 0 .. TTL
        BY <3>2 DEF Accounted, TypeOK, IsCache, IsRegistry, Tracked
      <3>4. CASE Tick
        <4>1. /\ k \in Tracked'
              /\ registry'.age[k] =
                   IF registry.age[k] < TTL THEN registry.age[k] + 1 ELSE TTL
              /\ lag' = lag
          BY <3>2, <3>4, AgedLemma DEF Tick
        <4> QED
          BY <3>1, <3>3, <4>1, TTLAssumption
      <3>5. CASE CacheTick
        <4>1. registry' = registry
          BY <3>5 DEF CacheTick
        <4>2. cache.left[k] = 0 => k \notin Live(cache)
          BY DEF Live
        <4>3. lag'[k] = IF k \in Live(cache) /\ lag[k] < TTL THEN lag[k] + 1 ELSE lag[k]
          BY <3>2, <3>5 DEF CacheTick
        <4>4. cache.left[k] > 0 => k \in Live(cache)
          BY <3>2 DEF Live
        <4> QED
          BY <3>1, <3>2, <3>3, <4>1, <4>2, <4>3, <4>4, TTLAssumption DEF Tracked
      <3>6. CASE WallTick
        <4>1. /\ k \in Tracked'
              /\ registry'.age[k] =
                   IF registry.age[k] < TTL THEN registry.age[k] + 1 ELSE TTL
              /\ cache' = cache
          BY <3>2, <3>6, AgedLemma DEF WallTick
        <4>2. lag'[k] = IF lag[k] > 0 THEN lag[k] - 1 ELSE 0
          BY <3>2, <3>6 DEF WallTick
        <4> QED
          BY <3>3, <4>1, <4>2, TTLAssumption
      <3> QED
        BY <1>2, <3>4, <3>5, <3>6 DEF CacheAges
    <2> QED
      BY <2>1 DEF Accounted
  <1> QED
    BY <1>1, <1>2, ToolsRemember

\* The cached sessions are always tracked, and their ages safe.
LEMMA AccountedInv == Spec => [](TypeOK /\ Accounted)
  <1>1. Init => Accounted
    BY DEF Init, EmptyCache, Keys, Accounted
  <1> QED
    BY <1>1, TypeInit, TypeNext, AccountedNext, PTL DEF Spec

\* Every session in the cache is tracked: reconcile never adopts one, and so
\* never has to guess when it was created.
THEOREM NoSessionIsAdopted == Spec => []CachedAreTracked
  <1>1. Accounted => CachedAreTracked
    BY DEF Accounted, CachedAreTracked
  <1> QED
    BY <1>1, AccountedInv, PTL

\* The life reported for a session exceeds the one it has left by no more than
\* the wall clock has lost to the cache's since the session was stored.
THEOREM ReportedLifeIsSafe == Spec => []LifeNotOverstated
  <1>1. TypeOK /\ Accounted => LifeNotOverstated
    <2> SUFFICES ASSUME TypeOK, Accounted, NEW k \in Keys(cache) \cap Tracked
                 PROVE  TTL - registry.age[k] <= cache.left[k] + lag[k]
      BY DEF LifeNotOverstated
    <2>1. /\ cache.left[k] \in 0 .. TTL
          /\ registry.age[k] \in 0 .. TTL
          /\ lag[k] \in 0 .. TTL
      BY DEF TypeOK, IsCache, IsRegistry, Tracked
    <2> QED
      BY <2>1, TTLAssumption DEF Accounted
  <1> QED
    BY <1>1, AccountedInv, PTL

\* A session whose last proxy reached the end of its TTL is still tracked, and
\* its age says so, but for what the wall clock has lost.
ExpiredAreOld ==
    \A k \in Ids : fate[k] = "expired" => /\ k \notin Live(cache)
                                          /\ k \in Tracked
                                          /\ TTL <= registry.age[k] + lag[k]

\* Every step keeps the sessions that expired uncounted old enough.
LEMMA ExpiredAreOldNext ==
    TypeOK /\ TypeOK' /\ Accounted /\ Accounted' /\ ExpiredAreOld /\ [Next]_vars
    => ExpiredAreOld'
  <1> SUFFICES ASSUME TypeOK, TypeOK', Accounted, Accounted', ExpiredAreOld,
                      [Next]_vars, NEW k \in Ids, fate'[k] = "expired"
               PROVE  /\ k \notin Live(cache')
                      /\ k \in Tracked'
                      /\ TTL <= registry'.age[k] + lag'[k]
    BY DEF ExpiredAreOld
  <1>1. CASE Polled
    <2>1. /\ Reconcile
          /\ Keys(cache') = Live(cache)
      BY <1>1, PollLemma
    <2>2. fate[k] = "expired" /\ k \notin Gone
      BY <2>1 DEF Reconcile, TypeOK
    <2> QED
      BY <2>2 DEF ExpiredAreOld, Gone
  <1>2. CASE FatesFollow /\ ~Polled /\ ~WallTick
    <2>1. fate'[k] = FateOf(k)
      BY <1>2 DEF FatesFollow
    <2>2. k \notin Live(cache')
      BY <2>1 DEF FateOf
    <2>3. CASE k \in Keys(cache')
      <3>1. cache'.left[k] \in 0 .. TTL /\ ~(cache'.left[k] > 0)
        BY <2>2, <2>3 DEF Live, TypeOK, IsCache
      <3>2. /\ k \in Tracked'
            /\ TTL <= registry'.age[k] + cache'.left[k] + lag'[k]
        BY <2>3 DEF Accounted
      <3>3. registry'.age[k] \in 0 .. TTL /\ lag'[k] \in 0 .. TTL
        BY <3>2 DEF TypeOK, IsRegistry, Tracked
      <3> QED
        BY <2>2, <3>1, <3>2, <3>3, TTLAssumption
    <2>4. CASE k \notin Keys(cache')
      <3>1. fate[k] = "expired"
        BY <2>1, <2>2, <2>4 DEF FateOf
      <3>2. /\ k \in Tracked /\ k \notin Live(cache)
            /\ TTL <= registry.age[k] + lag[k]
        BY <3>1 DEF ExpiredAreOld
      <3>3. registry.age[k] \in 0 .. TTL /\ lag[k] \in 0 .. TTL
        BY <3>2 DEF TypeOK, IsRegistry, Tracked
      <3>4. CASE Tick
        BY <2>2, <3>2, <3>3, <3>4, AgedLemma, TTLAssumption DEF Tick
      <3>5. CASE CacheTick
        <4>1. registry' = registry /\ lag'[k] = lag[k]
          BY <3>2, <3>5 DEF CacheTick
        <4> QED
          BY <2>2, <3>2, <4>1 DEF Tracked
      <3>6. CASE Uncounted /\ ~CacheAges /\ ~WallTick /\ ~Polled
        <4>1. Remembers
          BY <3>6, ToolsRemember
        <4>2. lag'[k] = lag[k]
          BY <3>6 DEF Uncounted
        <4> QED
          BY <2>2, <3>2, <4>1, <4>2 DEF Remembers
      <3>7. CASE UNCHANGED vars
        BY <2>2, <3>2, <3>7 DEF vars, Tracked
      <3> QED
        BY <1>2, <3>4, <3>5, <3>6, <3>7, CountedLemma DEF CacheAges
    <2> QED
      BY <2>3, <2>4
  <1>3. CASE WallTick
    <2>1. /\ fate[k] = "expired" /\ cache' = cache
          /\ lag'[k] = IF lag[k] > 0 THEN lag[k] - 1 ELSE 0
      BY <1>3 DEF WallTick
    <2>2. /\ k \in Tracked /\ k \notin Live(cache)
          /\ TTL <= registry.age[k] + lag[k]
      BY <2>1 DEF ExpiredAreOld
    <2>3. registry.age[k] \in 0 .. TTL /\ lag[k] \in 0 .. TTL
      BY <2>2 DEF TypeOK, IsRegistry, Tracked
    <2>4. /\ k \in Tracked'
          /\ registry'.age[k] =
               IF registry.age[k] < TTL THEN registry.age[k] + 1 ELSE TTL
      BY <1>3, <2>2, AgedLemma DEF WallTick
    <2>5. k \notin Live(cache')
      BY <2>1, <2>2
    <2> QED
      BY <2>1, <2>2, <2>3, <2>4, <2>5, TTLAssumption
  <1>4. CASE UNCHANGED vars
    <2>1. fate[k] = "expired" /\ cache' = cache /\ registry' = registry /\ lag' = lag
      BY <1>4 DEF vars
    <2> QED
      BY <2>1 DEF ExpiredAreOld, Tracked
  <1> QED
    BY <1>1, <1>2, <1>3, <1>4, CountedLemma DEF CacheAges, Tick, CacheTick, Uncounted

\* A session that reached the end of its TTL is counted among those evicted for
\* capacity only while its age on the wall clock is short of the TTL, by no more
\* than that clock has lost to the cache's: never when it has lost nothing.
THEOREM ExpiryNeverAlarms == Spec => ExpiryRaisesNoAlarm
  <1>1. Init => ExpiredAreOld
    BY DEF Init, ExpiredAreOld
  <1>2. TypeOK /\ ExpiredAreOld /\ [Next]_vars
        => [Polled => \A k \in CountedEvicted :
              fate[k] = "expired" => TTL - registry.age[k] \in 1 .. lag[k]]_vars
    <2> SUFFICES ASSUME TypeOK, ExpiredAreOld, NEW k \in CountedEvicted,
                        fate[k] = "expired"
                 PROVE  TTL - registry.age[k] \in 1 .. lag[k]
      OBVIOUS
    <2>1. k \in Tracked /\ ~(registry.age[k] >= TTL)
      BY DEF CountedEvicted, CountedExpired, Gone
    <2>2. k \in Ids
      BY <2>1 DEF TypeOK, IsRegistry, Tracked
    <2>3. TTL <= registry.age[k] + lag[k]
      BY <2>2 DEF ExpiredAreOld
    <2>4. registry.age[k] \in 0 .. TTL /\ lag[k] \in 0 .. TTL
      BY <2>1, <2>2 DEF TypeOK, IsRegistry, Tracked
    <2> QED
      BY <2>1, <2>3, <2>4, TTLAssumption
  <1>3. Init => Accounted
    BY DEF Init, EmptyCache, Keys, Accounted
  <1> QED
    BY <1>1, <1>2, <1>3, TypeInit, TypeNext, AccountedNext, ExpiredAreOldNext, PTL
       DEF Spec, ExpiryRaisesNoAlarm

-----------------------------------------------------------------------------
(* Private stores *)

\* A proxy that nothing refers to holds nothing, so that a session that gets it
\* starts empty.
Freed == \A p \in NewProxies : data[p] = {}

\* Freeing what nothing refers to leaves the rest as it is, and new proxies empty.
LEMMA HeldLemma ==
    ASSUME NEW d, Holding(d), IsCache(cache', Ids, Proxies)
    PROVE  /\ Freed'
           /\ \A j \in Keys(cache') : data'[cache'.val[j]] = d[cache'.val[j]]
  <1>1. ASSUME NEW p \in NewProxies' PROVE data'[p] = {}
    BY <1>1 DEF Holding, NewProxies
  <1>2. ASSUME NEW j \in Keys(cache') PROVE data'[cache'.val[j]] = d[cache'.val[j]]
    <2>1. cache'.val[j] \in Proxies
      BY <1>2 DEF IsCache
    <2> QED
      BY <1>2, <2>1 DEF Holding
  <1> QED
    BY <1>1, <1>2 DEF Freed

\* Every step frees what it no longer refers to, or changes nothing of it.
LEMMA FreedNext == TypeOK' /\ Freed /\ [Next]_vars => Freed'
  <1> SUFFICES ASSUME TypeOK', Freed, [Next]_vars PROVE Freed'
    OBVIOUS
  <1>1. ASSUME NEW d, Holding(d) PROVE Freed'
    BY <1>1, HeldLemma DEF TypeOK
  <1>2. ASSUME cache'.val = cache.val, call' = call, data' = data PROVE Freed'
    BY <1>2 DEF Freed, NewProxies, Keys
  <1>3. ASSUME NEW n \in Conns,
               \/ UseSession(n)
               \/ \E c \in Calls : BeginFetch(c, n)
               \/ \E src, tgt \in Ids : DuplicateSession(n, src, tgt)
        PROVE  Freed'
    BY <1>1, <1>3 DEF UseSession, BeginFetch, DuplicateSession
  <1>4. ASSUME NEW n \in Conns,
               \/ CallWithoutProxy(n)
               \/ \E k \in Ids : SetSessionId(n, k)
               \/ Reconnect(n)
        PROVE  Freed'
    BY <1>2, <1>4 DEF CallWithoutProxy, SetSessionId, Reconnect
  <1>5. ASSUME NEW n \in Conns, ReadTempResource(n) PROVE Freed'
    BY <1>2, <1>5 DEF ReadTempResource, Get
  <1>6. ASSUME NEW c \in Calls, EndFetch(c) \/ FailFetch(c) PROVE Freed'
    BY <1>1, <1>6 DEF EndFetch, FailFetch
  <1>7. CASE Polled
    BY <1>1, <1>7 DEF Polled, Health, AdminSessions
  <1>8. CASE CacheAges \/ WallTick
    <2>1. CASE Tick
      BY <1>2, <2>1 DEF Tick, Elapse
    <2>2. CASE CacheTick
      BY <1>2, <2>2 DEF CacheTick, Elapse
    <2>3. CASE WallTick
      BY <1>2, <2>3 DEF WallTick
    <2> QED
      BY <1>8, <2>1, <2>2, <2>3 DEF CacheAges
  <1>9. CASE UNCHANGED vars
    BY <1>2, <1>9 DEF vars
  <1> QED
    BY <1>3, <1>4, <1>5, <1>6, <1>7, <1>8, <1>9 DEF Next

\* The step leaves the store of session j, if j is still alive, as it was.
Keeps(j) ==
    j \in Live(cache') => /\ j \in Live(cache)
                          /\ data'[cache'.val[j]] = data[cache.val[j]]

\* A step that keeps every store, but those it loses.
LEMMA LoseStep ==
    ASSUME \A j \in Live(cache') : Keeps(j)
    PROVE  Store!Next
  BY DEF Keeps, Store!Next, Store!Lose, Store!Existing, Store!Only

\* A step in which session k finds its store or gets an empty one, and writes W.
LEMMA UseStep ==
    ASSUME NEW k \in Ids, k \in Live(cache'),
           \A j \in Live(cache') : j # k => Keeps(j),
           NEW W \in SUBSET {k},
           data'[cache'.val[k]] =
              (IF k \in Live(cache) THEN data[cache.val[k]] ELSE {}) \cup W
    PROVE  Store!Next
  <1> DEFINE S == Live(cache')
             old == [j \in S |-> IF j \in Live(cache) THEN data[cache.val[j]] ELSE {}]
             new == [j \in S |-> data'[cache'.val[j]]]
  <1>1. new = [old EXCEPT ![k] = @ \cup W]
    BY DEF Keeps
  <1>2. Store!Existing' = S /\ Store!Existing = Live(cache)
    BY DEF Store!Existing
  <1>3. Store!Only(Store!Existing') = old
    BY DEF Store!Existing, Store!Only
  <1>4. S \ {k} \subseteq Live(cache)
    BY DEF Keeps
  <1>5. Store!Use(k)
    BY <1>1, <1>2, <1>3, <1>4 DEF Store!Use
  <1> QED
    BY <1>5 DEF Store!Next

\* A step in which session t becomes a copy of session s.
LEMMA ForkStep ==
    ASSUME NEW s \in Ids, NEW t \in Ids, s \in Live(cache), t \in Live(cache'),
           \A j \in Live(cache') : j # t => Keeps(j),
           data'[cache'.val[t]] = data[cache.val[s]]
    PROVE  Store!Next
  <1> DEFINE S == Live(cache')
             old == [j \in S |-> IF j \in Live(cache) THEN data[cache.val[j]] ELSE {}]
             new == [j \in S |-> data'[cache'.val[j]]]
  <1>1. new = [old EXCEPT ![t] = data[cache.val[s]]]
    BY DEF Keeps
  <1>2. Store!Existing' = S /\ Store!Existing = Live(cache)
    BY DEF Store!Existing
  <1>3. Store!Only(Store!Existing') = old
    BY DEF Store!Existing, Store!Only
  <1>4. S \ {t} \subseteq Live(cache)
    BY DEF Keeps
  <1>5. Store!Fork(s, t)
    BY <1>1, <1>2, <1>3, <1>4 DEF Store!Fork
  <1> QED
    BY <1>5 DEF Store!Next

\* A session that the step leaves in the cache keeps its store, unless the step
\* writes into its proxy.
LEMMA KeepsLemma ==
    ASSUME TypeOK', NEW d, Holding(d), NEW j, Same(j) \/ j \notin Live(cache'),
           d[cache.val[j]] = data[cache.val[j]]
    PROVE  Keeps(j)
  <1> SUFFICES ASSUME j \in Live(cache') PROVE Keeps(j)
    BY DEF Keeps
  <1>1. j \in Keys(cache') /\ Same(j)
    BY DEF Live
  <1>2. j \in Live(cache)
    BY <1>1 DEF Same, Live
  <1>3. data'[cache'.val[j]] = d[cache'.val[j]]
    BY <1>1, HeldLemma DEF TypeOK
  <1> QED
    BY <1>1, <1>2, <1>3 DEF Keeps, Same

\* Finding or building the proxy p of session k, and maybe writing into it, is a
\* use of its store.
LEMMA GetProxyStep ==
    ASSUME TypeOK, TypeOK', PrivateProxies, Freed, NEW k \in Ids, NEW p \in Proxies,
           GetProxy(k, p), NEW W \in SUBSET {k},
           Holding([data EXCEPT ![p] = @ \cup W])
    PROVE  Store!Next
  <1> DEFINE d == [data EXCEPT ![p] = @ \cup W]
  <1>1. Stores(k, p) /\ Owned(k, p)
    BY GetProxyLemma DEF TypeOK
  <1>2. \A j \in Keys(cache) : j # k => cache.val[j] # p
    BY <1>1 DEF Owned, NewProxies, PrivateProxies
  <1>3. ASSUME NEW j \in Live(cache'), j # k PROVE Keeps(j)
    <2>1. Same(j)
      BY <1>1, <1>3 DEF Stores, Live
    <2>2. d[cache.val[j]] = data[cache.val[j]]
      BY <1>2, <1>3, <2>1 DEF Same, TypeOK, IsCache
    <2> QED
      BY <2>1, <2>2, KeepsLemma
  <1>4. k \in Live(cache')
    <2>1. CASE k \in Live(cache) /\ cache' = Get(cache, k)
      BY <2>1, GetLemma DEF TypeOK
    <2>2. CASE cache' = Put(cache, k, p)
      BY <1>1, <2>2, PutNewEntryLemma, TTLAssumption DEF Stores, Live
    <2> QED
      BY <2>1, <2>2 DEF GetProxy
  <1>5. data'[p] = data[p] \cup W
    <2>1. d[p] = data[p] \cup W
      BY DEF TypeOK
    <2> HIDE DEF d
    <2>2. IsCache(cache', Ids, Proxies) /\ Holding(d)
      BY DEF TypeOK, d
    <2>3. \A j \in Keys(cache') : data'[cache'.val[j]] = d[cache'.val[j]]
      BY <2>2, HeldLemma
    <2> QED
      BY <1>1, <2>1, <2>3 DEF Stores
  <1>6. data[p] = IF k \in Live(cache) THEN data[cache.val[k]] ELSE {}
    BY DEF GetProxy, Freed
  <1>7. data'[cache'.val[k]] =
           (IF k \in Live(cache) THEN data[cache.val[k]] ELSE {}) \cup W
    BY <1>1, <1>5, <1>6 DEF Stores
  <1> QED
    BY <1>3, <1>4, <1>7, UseStep

\* Every step of the server is a step of the private stores, or changes none.
LEMMA StoreNext ==
    TypeOK /\ TypeOK' /\ PrivateProxies /\ Freed /\ [Next]_vars
    => [Store!Next]_([k \in Live(cache) |-> data[cache.val[k]]])
  <1> SUFFICES ASSUME TypeOK, TypeOK', PrivateProxies, Freed, [Next]_vars
               PROVE  Store!Next \/ UNCHANGED [k \in Live(cache) |-> data[cache.val[k]]]
    OBVIOUS
  <1>1. ASSUME Holding(data), Sheds PROVE Store!Next
    <2>1. ASSUME NEW j \in Live(cache') PROVE Keeps(j)
      <3>1. Same(j)
        BY <1>1, <2>1 DEF Sheds, Live
      <3> QED
        BY <1>1, <3>1, KeepsLemma
    <2> QED
      BY <2>1, LoseStep
  <1>2. ASSUME data' = data, cache'.val = cache.val, Live(cache') \subseteq Live(cache)
        PROVE  Store!Next
    BY <1>2, LoseStep DEF Keeps
  <1>3. ASSUME NEW n \in Conns, UseSession(n) PROVE Store!Next
    <2>1. PICK k \in Ids, p \in Proxies, writes \in BOOLEAN :
             /\ GetProxy(k, p)
             /\ Holding(IF writes THEN [data EXCEPT ![p] = @ \cup {k}] ELSE data)
      BY <1>3 DEF UseSession
    <2> DEFINE W == IF writes THEN {k} ELSE {}
    <2>2. Holding([data EXCEPT ![p] = @ \cup W])
      <3>1. data = [data EXCEPT ![p] = @ \cup {}]
        BY DEF TypeOK
      <3> QED
        BY <2>1, <3>1
    <2>3. W \in SUBSET {k}
      OBVIOUS
    <2> HIDE DEF W
    <2> QED
      BY <2>1, <2>2, <2>3, GetProxyStep
  <1>4. ASSUME NEW n \in Conns, NEW c \in Calls, BeginFetch(c, n) PROVE Store!Next
    <2>1. PICK k \in Ids, p \in Proxies : GetProxy(k, p) /\ Holding(data)
      BY <1>4 DEF BeginFetch
    <2> DEFINE W == {}
    <2>2. Holding([data EXCEPT ![p] = @ \cup W])
      <3>1. data = [data EXCEPT ![p] = @ \cup W]
        BY DEF TypeOK
      <3> QED
        BY <2>1, <3>1
    <2>3. W \in SUBSET {k}
      OBVIOUS
    <2> HIDE DEF W
    <2> QED
      BY <2>1, <2>2, <2>3, GetProxyStep
  <1>5. ASSUME NEW n \in Conns, NEW src \in Ids, NEW tgt \in Ids,
               DuplicateSession(n, src, tgt)
        PROVE  Store!Next
    <2> DEFINE d(p) == [data EXCEPT ![p] = data[cache.val[src]]]
    <2>1. PICK p \in NewProxies :
             cache' = Put(Get(cache, src), tgt, p) /\ Holding(d(p))
      BY <1>5 DEF DuplicateSession
    <2>2. p \in Proxies /\ \A j \in Keys(cache) : cache.val[j] # p
      BY DEF NewProxies
    <2>3. Stores(tgt, p)
      BY <2>1, <2>2, DuplicateLemma DEF TypeOK
    <2>4. ASSUME NEW j \in Live(cache'), j # tgt PROVE Keeps(j)
      <3>1. Same(j)
        BY <2>3, <2>4 DEF Stores, Live
      <3>2. d(p)[cache.val[j]] = data[cache.val[j]]
        BY <2>2, <3>1 DEF Same, TypeOK, IsCache
      <3> QED
        BY <2>1, <3>1, <3>2, KeepsLemma
    <2>5. tgt \in Live(cache')
      BY <2>1, <2>3, PutNewEntryLemma, TTLAssumption DEF Stores, Live
    <2>6. d(p)[p] = data[cache.val[src]]
      BY <2>2 DEF TypeOK
    <2>7. data'[cache'.val[tgt]] = data[cache.val[src]]
      <3> HIDE DEF d
      <3>1. IsCache(cache', Ids, Proxies)
        BY DEF TypeOK
      <3>2. \A j \in Keys(cache') : data'[cache'.val[j]] = d(p)[cache'.val[j]]
        BY <2>1, <3>1, HeldLemma
      <3> QED
        BY <2>3, <2>6, <3>2 DEF Stores
    <2> QED
      BY <1>5, <2>4, <2>5, <2>7, ForkStep DEF DuplicateSession
  <1>6. ASSUME NEW n \in Conns, ReadTempResource(n) PROVE Store!Next
    BY <1>2, <1>6, GetLemma DEF ReadTempResource, TypeOK
  <1>7. ASSUME NEW n \in Conns,
               \/ CallWithoutProxy(n)
               \/ \E k \in Ids : SetSessionId(n, k)
               \/ Reconnect(n)
        PROVE  Store!Next
    BY <1>2, <1>7 DEF CallWithoutProxy, SetSessionId, Reconnect
  <1>8. ASSUME NEW c \in Calls, EndFetch(c) PROVE Store!Next
    <2> DEFINE f == call[c]
               d == [data EXCEPT ![f.proxy] = @ \cup {f.sid}]
    <2>1. cache' = cache /\ Holding(d) /\ c \in InFlight
      BY <1>8 DEF EndFetch, InFlight
    <2>2. f \in [conn : Conns, sid : Ids, proxy : Proxies]
      BY <2>1 DEF InFlight, TypeOK
    <2>3. \A j \in Live(cache) : j \in Keys(cache) /\ cache.val[j] \in Proxies
      BY DEF Live, TypeOK, IsCache
    <2>4. ASSUME NEW j \in Live(cache'), cache.val[j] # f.proxy PROVE Keeps(j)
      <3>1. Same(j)
        BY <2>1, <2>3, <2>4 DEF Same
      <3>2. d[cache.val[j]] = data[cache.val[j]]
        BY <2>1, <2>3, <2>4 DEF TypeOK
      <3> QED
        BY <2>1, <3>1, <3>2, KeepsLemma
    <2>5. CASE f.sid \in Live(cache) /\ cache.val[f.sid] = f.proxy
      <3>1. ASSUME NEW j \in Live(cache'), j # f.sid PROVE Keeps(j)
        BY <2>1, <2>3, <2>4, <3>1 DEF PrivateProxies
      <3>2. data'[f.proxy] = d[f.proxy]
        <4> HIDE DEF d, f
        <4>1. IsCache(cache', Ids, Proxies)
          BY DEF TypeOK
        <4>2. \A j \in Keys(cache') : data'[cache'.val[j]] = d[cache'.val[j]]
          BY <2>1, <4>1, HeldLemma
        <4> QED
          BY <2>1, <2>3, <2>5, <4>2
      <3>3. data'[cache'.val[f.sid]] = data[cache.val[f.sid]] \cup {f.sid}
        BY <2>1, <2>2, <2>5, <3>2 DEF TypeOK
      <3> QED
        BY <2>1, <2>2, <2>5, <3>1, <3>3, UseStep
    <2>6. CASE ~(f.sid \in Live(cache) /\ cache.val[f.sid] = f.proxy)
      <3>1. \A j \in Live(cache') : cache.val[j] # f.proxy
        BY <2>1, <2>3, <2>6 DEF PrivateProxies
      <3> QED
        BY <2>4, <3>1, LoseStep
    <2> QED
      BY <2>5, <2>6
  <1>9. ASSUME NEW c \in Calls, FailFetch(c) PROVE Store!Next
    BY <1>1, <1>9 DEF FailFetch, Sheds, Same
  <1>10. CASE Polled
    BY <1>1, <1>10, PollLemma
  <1>11. CASE CacheAges
    <2>1. /\ cache'.val = cache.val /\ Keys(cache') = Keys(cache)
          /\ \A k \in Keys(cache) :
                cache'.left[k] = IF cache.left[k] = 0 THEN 0 ELSE cache.left[k] - 1
      BY <1>11, ElapseLemma DEF CacheAges, Tick, CacheTick, TypeOK
    <2>2. \A k \in Keys(cache) : cache.left[k] \in 0 .. TTL
      BY DEF TypeOK, IsCache
    <2>3. Live(cache') \subseteq Live(cache)
      BY <2>1, <2>2, TTLAssumption DEF Live
    <2> QED
      BY <1>2, <1>11, <2>1, <2>3 DEF CacheAges, Tick, CacheTick
  <1>12. CASE WallTick
    BY <1>2, <1>12 DEF WallTick
  <1>13. CASE UNCHANGED vars
    BY <1>13 DEF vars, Live, Keys
  <1> QED
    BY <1>3, <1>4, <1>5, <1>6, <1>7, <1>8, <1>9, <1>10, <1>11, <1>12, <1>13 DEF Next

\* The server implements private stores, one for each session: only the calls of
\* a session write into its store, a fork is a copy, and a store is lost as a
\* whole or not at all.
THEOREM StoresAreRefined == Spec => StoresArePrivate
  <1>1. Init => Store!Init
    BY DEF Init, EmptyCache, Live, Keys, Store!Init
  <1>2. Init => PrivateProxies /\ Freed
    BY DEF Init, EmptyCache, Keys, PrivateProxies, InFlight, Freed, NewProxies
  <1> QED
    BY <1>1, <1>2, TypeInit, TypeNext, PrivateNext, FreedNext, StoreNext, PTL
       DEF Spec, StoresArePrivate, Store!Spec

-----------------------------------------------------------------------------
(* What has to happen *)

\* A session the cache has lost and the registry still counts.
Lost(k) == k \in Tracked /\ k \notin Live(cache)

\* An expired proxy that the cache still holds.
Unreleased(k, p) == k \in Keys(cache) \ Live(cache) /\ cache.val[k] = p

\* Session k lives, with proxy p; and it has n ticks left.
Lives(k, p) == k \in Live(cache) /\ cache.val[k] = p
LivesFor(k, p, n) == Lives(k, p) /\ cache.left[k] = n

\* A poll leaves neither a lost session in the registry nor a dead entry in the
\* cache.
LEMMA PollClears ==
    ASSUME TypeOK, Health, NEW k \in Ids
    PROVE  ~Lost(k)' /\ \A p \in Proxies : ~Unreleased(k, p)'
  <1>1. /\ IsCache(cache', Ids, Proxies)
        /\ Keys(cache') = Live(cache)
        /\ \A j \in Keys(cache') : Same(j)
    BY PollLemma DEF Polled, Sheds
  <1>2. Live(cache') = Live(cache)
    BY <1>1 DEF Same, Live
  <1>3. Tracked' = Live(cache)
    BY ReconcileLemma DEF Health, Tracked
  <1> QED
    BY <1>1, <1>2, <1>3 DEF Lost, Unreleased

\* A session the cache lost is counted out, or created again, under the fairness
\* of FairSpec, as long as a poll that changes something is possible while a
\* lost session is counted.
THEOREM LossesAreReaped ==
    FairSpec /\ [](Gone # {} => ENABLED <<Health>>_vars) => LostIsReaped
  <1> SUFFICES ASSUME NEW k \in Ids
               PROVE  FairSpec /\ [](Gone # {} => ENABLED <<Health>>_vars) =>
                        ((k \in Tracked /\ k \notin Live(cache))
                            ~> (k \notin Tracked \/ k \in Live(cache)))
    BY DEF LostIsReaped
  <1>1. Lost(k) => Gone # {}
    BY DEF Lost, Gone
  <1>2. TypeOK /\ <<Health>>_vars => ~Lost(k)'
    BY PollClears
  <1>3. Lost(k) <=> k \in Tracked /\ k \notin Live(cache)
    BY DEF Lost
  <1>4. ~Lost(k) <=> k \notin Tracked \/ k \in Live(cache)
    BY DEF Lost
  <1> QED
    BY <1>1, <1>2, <1>3, <1>4, TypeCorrect, PTL DEF FairSpec

\* The proxy of an expired session is released, also when no client ever calls
\* again, under the fairness of FairSpec, as long as a poll that changes something
\* is possible while a dead entry is stored.
THEOREM ProxiesAreReleased ==
    FairSpec /\ [](Keys(cache) # Live(cache) => ENABLED <<Health>>_vars) => ExpiredIsReleased
  <1> SUFFICES ASSUME NEW k \in Ids, NEW p \in Proxies
               PROVE  FairSpec /\ [](Keys(cache) # Live(cache) => ENABLED <<Health>>_vars) =>
                        ((k \in Keys(cache) \ Live(cache) /\ cache.val[k] = p)
                          ~> ~(k \in Keys(cache) \ Live(cache) /\ cache.val[k] = p))
    BY DEF ExpiredIsReleased
  <1>1. Unreleased(k, p) => Keys(cache) # Live(cache)
    BY DEF Unreleased
  <1>2. TypeOK /\ <<Health>>_vars => ~Unreleased(k, p)'
    BY PollClears
  <1>3. Unreleased(k, p) <=> k \in Keys(cache) \ Live(cache) /\ cache.val[k] = p
    BY DEF Unreleased
  <1> QED
    BY <1>1, <1>2, <1>3, TypeCorrect, PTL DEF FairSpec

\* A session that goes on living with its proxy has the life it had, unless the
\* cache's clock ticks: whatever stores a session for a whole TTL gives it a new proxy.
LEMMA OnlyTicksTakeLife ==
    ASSUME TypeOK, [Next]_vars, ~CacheAges, NEW k \in Ids, NEW p \in Proxies,
           Lives(k, p), Lives(k, p)'
    PROVE  cache'.left[k] = cache.left[k]
  <1>0. /\ IsCache(cache, Ids, Proxies) /\ IsRegistry(registry)
        /\ k \in Keys(cache) /\ k \in Live(cache) /\ cache.val[k] = p
        /\ k \in Keys(cache') /\ cache'.val[k] = p
    BY DEF TypeOK, Lives, Live
  <1>1. CASE cache' = cache
    BY <1>1
  <1>2. CASE Sheds
    BY <1>0, <1>2 DEF Sheds, Same
  <1>3. ASSUME NEW j \in Ids, NEW q \in NewProxies, NEW c, IsCache(c, Ids, Proxies),
               c.left = cache.left, cache' = Put(c, j, q)
        PROVE  cache'.left[k] = cache.left[k]
    <2>1. q # p
      BY <1>0 DEF NewProxies
    <2>2. k # j
      BY <1>0, <1>3, <2>1, PutNewEntryLemma
    <2> QED
      BY <1>0, <1>3, <2>2, PutOldEntryLemma
  <1>4. ASSUME NEW j \in Ids, NEW q \in Proxies, GetProxy(j, q)
        PROVE  cache'.left[k] = cache.left[k]
    <2>1. CASE cache' = Get(cache, j)
      BY <1>0, <2>1, GetLemma
    <2>2. CASE q \in NewProxies /\ cache' = Put(cache, j, q)
      BY <1>0, <1>3, <2>2
    <2> QED
      BY <1>4, <2>1, <2>2 DEF GetProxy
  <1>5. ASSUME NEW n \in Conns,
               UseSession(n) \/ \E c \in Calls : BeginFetch(c, n)
        PROVE  cache'.left[k] = cache.left[k]
    BY <1>4, <1>5 DEF UseSession, BeginFetch
  <1>6. ASSUME NEW n \in Conns, NEW src \in Ids, NEW tgt \in Ids,
               DuplicateSession(n, src, tgt)
        PROVE  cache'.left[k] = cache.left[k]
    <2>1. PICK q \in NewProxies : cache' = Put(Get(cache, src), tgt, q)
      BY <1>6 DEF DuplicateSession
    <2>2. IsCache(Get(cache, src), Ids, Proxies) /\ Get(cache, src).left = cache.left
      BY <1>0, GetLemma
    <2> QED
      BY <1>3, <2>1, <2>2
  <1>7. ASSUME NEW n \in Conns, ReadTempResource(n) PROVE Sheds
    BY <1>0, <1>7, LookUpLemma DEF ReadTempResource
  <1>8. ASSUME NEW n \in Conns,
               CallWithoutProxy(n) \/ (\E j \in Ids : SetSessionId(n, j)) \/ Reconnect(n)
        PROVE  cache' = cache
    BY <1>8 DEF CallWithoutProxy, SetSessionId, Reconnect
  <1>9. ASSUME NEW c \in Calls, EndFetch(c) \/ FailFetch(c) PROVE cache' = cache
    BY <1>9 DEF EndFetch, FailFetch
  <1>10. CASE Polled
    BY <1>2, <1>10, PollLemma
  <1>11. CASE WallTick
    BY <1>1, <1>11 DEF WallTick
  <1>12. CASE UNCHANGED vars
    BY <1>1, <1>12 DEF vars
  <1> QED
    BY <1>1, <1>2, <1>5, <1>6, <1>7, <1>8, <1>9, <1>10, <1>11, <1>12 DEF Next

\* However busy a session is, the life it has left comes to an end or gets
\* shorter, whatever it is now: each stage of BusySessionsEnd, under the
\* fairness of FairSpec, as long as the cache's clock can tick while a session lives.
THEOREM BusySessionsGrowOld ==
    FairSpec /\ [](Live(cache) # {} => ENABLED <<CacheAges>>_vars) =>
       \A k \in Ids, p \in Proxies, n \in 1 .. TTL :
          LivesFor(k, p, n) ~> (~Lives(k, p) \/ \E m \in 1 .. n - 1 : LivesFor(k, p, m))
  <1> DEFINE Older(k, p, n) == ~Lives(k, p) \/ \E m \in 1 .. n - 1 : LivesFor(k, p, m)
  <1> SUFFICES ASSUME NEW k \in Ids, NEW p \in Proxies, NEW n \in 1 .. TTL
               PROVE  FairSpec /\ [](Live(cache) # {} => ENABLED <<CacheAges>>_vars) =>
                        (LivesFor(k, p, n) ~> Older(k, p, n))
    OBVIOUS
  <1>1. LivesFor(k, p, n) => Live(cache) # {}
    BY DEF LivesFor, Lives
  <1>2. TypeOK /\ TypeOK' /\ LivesFor(k, p, n) /\ [Next]_vars /\ ~CacheAges
          => LivesFor(k, p, n)' \/ Older(k, p, n)'
    BY OnlyTicksTakeLife DEF LivesFor
  <1>3. TypeOK /\ TypeOK' /\ LivesFor(k, p, n) /\ CacheAges => Older(k, p, n)'
    <2> SUFFICES ASSUME TypeOK, TypeOK', LivesFor(k, p, n), CacheAges, Lives(k, p)'
                 PROVE  \E m \in 1 .. n - 1 : LivesFor(k, p, m)'
      OBVIOUS
    <2>1. k \in Keys(cache) /\ cache.left[k] = n
      BY DEF LivesFor, Lives, Live
    <2>2. cache'.left[k] = n - 1
      BY <2>1, TTLAssumption, ElapseLemma DEF CacheAges, Tick, CacheTick, TypeOK
    <2>3. cache'.left[k] > 0
      BY DEF Lives, Live
    <2> QED
      BY <2>2, <2>3, TTLAssumption DEF LivesFor
  <1> HIDE DEF Older
  <1> QED
    BY <1>1, <1>2, <1>3, TypeCorrect, PTL DEF FairSpec, Spec
=============================================================================
