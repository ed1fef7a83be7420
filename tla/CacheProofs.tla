----------------------------- MODULE CacheProofs -----------------------------
(* The safety of ThreadSafeTTLCache, for every set of keys and values, every  *)
(* TTL and every capacity.                                                    *)
EXTENDS ThreadSafeTTLCache, TTLCacheTheorems

(***************************************************************************)
(* What the cache holds is what was stored, for as long as it has to       *)
(* (Faithful); the order of use tells which key was used last (Recent) and *)
(* always has a first one, so that an eviction does make room (Sized).     *)
(***************************************************************************)
Typed ==
    /\ TypeOK
    /\ last \in [Names -> Values]
    /\ since \in [Names -> 0 .. TTL]

Sized == IsFiniteSet(Keys(cache)) /\ Bounded

Faithful ==
    \A k \in Keys(cache) : cache.val[k] = last[k] /\ since[k] + cache.left[k] = TTL

Recent == mru \in Keys(cache) => \A j \in Keys(cache) \ {mru} : <<j, mru>> \in cache.lru

CSafe == Typed /\ Sized /\ Faithful /\ ReadsLatest /\ Recent

-----------------------------------------------------------------------------
(* The methods *)

LEMMA Basics ==
    ASSUME CSafe
    PROVE  /\ IsCache(cache, Names, Values) /\ TotalOrder(cache.lru, Keys(cache))
           /\ IsFiniteSet(Keys(cache)) /\ Cardinality(Keys(cache)) <= MaxSize
           /\ Keys(cache) \subseteq Names /\ Live(cache) \subseteq Keys(cache)
           /\ \A k \in Keys(cache) : /\ cache.val[k] \in Values /\ cache.val[k] = last[k]
                                     /\ cache.left[k] \in 0 .. TTL
                                     /\ since[k] + cache.left[k] = TTL
           /\ \A k \in Live(cache) : since[k] < TTL
           /\ last \in [Names -> Values] /\ since \in [Names -> 0 .. TTL]
  <1>1. /\ IsCache(cache, Names, Values) /\ TotalOrder(cache.lru, Keys(cache))
        /\ last \in [Names -> Values] /\ since \in [Names -> 0 .. TTL]
    BY DEF CSafe, Typed, TypeOK
  <1>2. IsFiniteSet(Keys(cache)) /\ Cardinality(Keys(cache)) <= MaxSize
    BY DEF CSafe, Sized, Bounded
  <1>3. Keys(cache) \subseteq Names /\ Live(cache) \subseteq Keys(cache)
    BY <1>1 DEF IsCache, Live
  <1>4. \A k \in Keys(cache) : /\ cache.val[k] \in Values /\ cache.val[k] = last[k]
                               /\ cache.left[k] \in 0 .. TTL
                               /\ since[k] + cache.left[k] = TTL
    BY <1>1 DEF IsCache, CSafe, Faithful
  <1>5. \A k \in Live(cache) : since[k] < TTL
    <2> TAKE k \in Live(cache)
    <2>1. k \in Keys(cache) /\ cache.left[k] > 0
      BY DEF Live
    <2>2. cache.left[k] \in 0 .. TTL /\ since[k] \in 0 .. TTL /\ since[k] + cache.left[k] = TTL
      BY <1>1, <1>3, <1>4, <2>1
    <2> QED
      BY <2>1, <2>2, TTLAssumption
  <1> QED
    BY <1>1, <1>2, <1>3, <1>4, <1>5

\* Some entries go, those of the keys in R on demand.
LEMMA ShedStep ==
    ASSUME CSafe, NEW S, NEW R \in SUBSET Names, S \cap R = {},
           cache' = Keep(cache, S), last' = last,
           since' = [k \in Names |-> IF k \in R THEN TTL ELSE since[k]],
           mru' \in {mru, Miss},
           result' \in {Miss} \cup (Names \X Values), ReadsLatest'
    PROVE  CSafe'
  <1>1. /\ IsCache(cache', Names, Values) /\ Keys(cache') = Keys(cache) \cap S
        /\ TotalOrder(cache'.lru, Keys(cache'))
    BY Basics, KeepLemma, KeepOrder
  <1>2. IsFiniteSet(Keys(cache')) /\ Cardinality(Keys(cache')) <= MaxSize
    <2>1. /\ IsFiniteSet(Keys(cache')) /\ Cardinality(Keys(cache')) <= Cardinality(Keys(cache))
          /\ Cardinality(Keys(cache')) \in Nat /\ Cardinality(Keys(cache)) \in Nat
      BY <1>1, Basics, FS_Subset, FS_CardinalityType
    <2> QED
      BY <2>1, Basics, MaxSizeAssumption
  <1>3. Typed'
    BY <1>1, Basics, TTLAssumption DEF Typed, TypeOK
  <1>4. Faithful'
    <2> SUFFICES ASSUME NEW k \in Keys(cache')
                 PROVE  cache'.val[k] = last'[k] /\ since'[k] + cache'.left[k] = TTL
      BY DEF Faithful
    <2>1. k \in Keys(cache) /\ k \in S /\ k \notin R /\ k \in Names
      BY <1>1, Basics
    <2>2. cache'.val[k] = cache.val[k] /\ cache'.left[k] = cache.left[k]
      BY <2>1, KeepEntryLemma
    <2> QED
      BY <2>1, <2>2, Basics
  <1>5. Recent'
    <2>1. Miss \notin Keys(cache')
      BY <1>1, Basics, NamesAssumption DEF Miss
    <2>2. cache'.lru = Among(cache.lru, S)
      BY DEF Keep
    <2> QED
      BY <1>1, <2>1, <2>2 DEF Recent, CSafe, Among
  <1> QED
    BY <1>2, <1>3, <1>4, <1>5 DEF CSafe, Sized, Bounded

LEMMA StoreStep ==
    ASSUME CSafe, NEW k \in Names, NEW v \in Values,
           cache' = Put(cache, k, v), Stored(k, v), result' \in {Miss, <<k, v>>}
    PROVE  CSafe'
  <1>1. /\ IsCache(cache', Names, Values)
        /\ IsFiniteSet(Keys(cache')) /\ Cardinality(Keys(cache')) <= MaxSize
        /\ TotalOrder(cache'.lru, Keys(cache'))
        /\ \A j \in Keys(cache') \ {k} : <<j, k>> \in cache'.lru
    BY Basics, PutLemma, PutOrder
  <1>2. /\ last' = [last EXCEPT ![k] = v] /\ since' = [since EXCEPT ![k] = 0] /\ mru' = k
    BY DEF Stored
  <1>3. Typed'
    <2>1. result' \in {Miss} \cup (Names \X Values)
      OBVIOUS
    <2> QED
      BY <1>1, <1>2, <2>1, Basics, TTLAssumption DEF Typed, TypeOK
  <1>4. Faithful'
    <2> SUFFICES ASSUME NEW j \in Keys(cache')
                 PROVE  cache'.val[j] = last'[j] /\ since'[j] + cache'.left[j] = TTL
      BY DEF Faithful
    <2>1. CASE j = k
      BY <1>2, <2>1, PutNewEntryLemma, Basics, TTLAssumption
    <2>2. CASE j # k
      <3>1. /\ j \in Live(cache) /\ cache'.val[j] = cache.val[j]
            /\ cache'.left[j] = cache.left[j]
        BY <2>2, Basics, PutOldEntryLemma
      <3> QED
        BY <1>2, <2>2, <3>1, Basics
    <2> QED
      BY <2>1, <2>2
  <1>5. ReadsLatest'
    <2>1. CASE result' = Miss
      BY <2>1 DEF ReadsLatest
    <2>2. CASE result' = <<k, v>>
      <3>1. result'[1] = k /\ result'[2] = v
        BY <2>2
      <3>2. last'[k] = v /\ since'[k] = 0
        BY <1>2, Basics
      <3> QED
        BY <3>1, <3>2, TTLAssumption DEF ReadsLatest
    <2> QED
      BY <2>1, <2>2
  <1> QED
    BY <1>1, <1>2, <1>3, <1>4, <1>5 DEF CSafe, Sized, Bounded, Recent

LEMMA GetStep == ASSUME CSafe, NEW k \in Names, GetItem(k) PROVE CSafe'
  <1>1. /\ k \in Live(cache) /\ cache' = Get(cache, k)
        /\ result' = <<k, cache.val[k]>> /\ mru' = k /\ last' = last /\ since' = since
    BY DEF GetItem, ReadBack
  <1>2. /\ IsCache(cache', Names, Values) /\ Keys(cache') = Keys(cache)
        /\ cache'.val = cache.val /\ cache'.left = cache.left
        /\ TotalOrder(cache'.lru, Keys(cache'))
        /\ \A j \in Keys(cache) \ {k} : <<j, k>> \in cache'.lru
    <2>1. IsCache(cache, Names, Values) /\ TotalOrder(cache.lru, Keys(cache))
      BY Basics
    <2>2. /\ IsCache(cache', Names, Values) /\ Keys(cache') = Keys(cache)
          /\ cache'.val = cache.val /\ cache'.left = cache.left
      BY <1>1, <2>1, GetLemma
    <2>3. /\ TotalOrder(cache'.lru, Keys(cache))
          /\ \A j \in Keys(cache) \ {k} : <<j, k>> \in cache'.lru
      BY <1>1, <2>1, GetOrder
    <2> QED
      BY <2>2, <2>3
  <1>3. result' \in Names \X Values /\ result'[1] = k /\ result'[2] = cache.val[k]
    BY <1>1, Basics
  <1>4. ReadsLatest'
    BY <1>1, <1>3, Basics DEF ReadsLatest
  <1>5. Typed'
    <2>1. result' \in {Miss} \cup (Names \X Values)
      BY <1>3
    <2> QED
      BY <1>1, <1>2, <2>1, Basics DEF Typed, TypeOK
  <1>6. Sized' /\ Faithful' /\ Recent'
    BY <1>1, <1>2, Basics DEF Sized, Bounded, Faithful, Recent
  <1> QED
    BY <1>4, <1>5, <1>6 DEF CSafe

LEMMA ScanStep == ASSUME CSafe, ScanItems PROVE CSafe'
  <1>1. PICK order : /\ ScanOrder(cache, order) /\ cache' = Scan(cache, order)
                     /\ \E k \in Live(cache) :
                           /\ \A j \in Live(cache) \ {k} : <<j, k>> \in order
                           /\ mru' = k
    BY DEF ScanItems
  <1>2. result' = Miss /\ last' = last /\ since' = since
    BY DEF ScanItems
  <1>3. /\ IsCache(cache', Names, Values)
        /\ cache'.val = cache.val /\ Keys(cache') = Keys(cache) /\ cache'.left = cache.left
        /\ TotalOrder(cache'.lru, Keys(cache'))
    <2>1. cache'.val = cache.val /\ cache'.left = cache.left
      BY <1>1, Basics DEF Scan, IsCache
    <2> QED
      BY <1>1, <2>1, Basics, ScanLemma, ScanOrderLemma DEF Keys
  <1>4. Recent'
    <2>1. PICK k \in Live(cache) : /\ \A j \in Live(cache) \ {k} : <<j, k>> \in order
                                   /\ mru' = k
      BY <1>1
    <2>2. /\ order \subseteq cache'.lru
          /\ \A j \in Keys(cache) \ Live(cache) : <<j, k>> \in cache'.lru
      BY <1>1, <2>1, Basics, ScanOrderLemma
    <2>3. \A j \in Keys(cache) \ {k} : <<j, k>> \in cache'.lru
      BY <2>1, <2>2
    <2> QED
      BY <1>3, <2>1, <2>3 DEF Recent
  <1>5. Typed'
    BY <1>2, <1>3, Basics DEF Typed, TypeOK
  <1> QED
    BY <1>2, <1>3, <1>4, <1>5, Basics DEF CSafe, Sized, Bounded, Faithful, ReadsLatest

LEMMA TickStep == ASSUME CSafe, Tick PROVE CSafe'
  <1>1. /\ cache' = Elapse(cache) /\ result' = Miss /\ last' = last /\ mru' = mru
        /\ since' = [k \in Names |-> IF since[k] < TTL THEN since[k] + 1 ELSE TTL]
    BY DEF Tick
  <1>2. /\ IsCache(cache', Names, Values) /\ cache'.val = cache.val
        /\ Keys(cache') = Keys(cache)
        /\ \A k \in Keys(cache) :
              cache'.left[k] = IF cache.left[k] = 0 THEN 0 ELSE cache.left[k] - 1
    BY <1>1, Basics, ElapseLemma
  <1>3. cache'.lru = cache.lru
    BY <1>1, Basics DEF Elapse, IsCache
  <1>4. \A k \in Names : since[k] \in 0 .. TTL
    BY Basics
  <1>5. since' \in [Names -> 0 .. TTL]
    BY <1>1, <1>4, TTLAssumption
  <1>6. Faithful'
    <2> SUFFICES ASSUME NEW k \in Keys(cache)
                 PROVE  cache'.val[k] = last'[k] /\ since'[k] + cache'.left[k] = TTL
      BY <1>2 DEF Faithful
    <2>1. k \in Names /\ since[k] \in 0 .. TTL /\ cache.left[k] \in 0 .. TTL
      BY Basics
    <2>2. since[k] + cache.left[k] = TTL /\ cache.val[k] = last[k]
      BY Basics
    <2> QED
      BY <1>1, <1>2, <2>1, <2>2, TTLAssumption
  <1>7. Typed'
    BY <1>1, <1>2, <1>3, <1>5, Basics DEF Typed, TypeOK
  <1> QED
    BY <1>1, <1>2, <1>3, <1>6, <1>7, Basics DEF CSafe, Sized, Bounded, ReadsLatest, Recent

\* What del, pop, popitem and expire have in common.
LEMMA RemoveSteps ==
    ASSUME CSafe,
           (\E k \in Names : DelItem(k) \/ Pop(k)) \/ PopItem \/ Clear \/ Reap
    PROVE  CSafe'
  <1>m. Miss \in {mru, Miss} /\ mru \in {mru, Miss}
    OBVIOUS
  <1>1. ASSUME NEW k \in Names, DelItem(k) PROVE CSafe'
    <2>1. cache' = Keep(cache, Keys(cache) \ {k}) /\ result' = Miss
      BY <1>1 DEF DelItem, Remove
    <2>2. ReadsLatest'
      BY <2>1 DEF ReadsLatest
    <2> QED
      BY <1>1, <1>m, <2>1, <2>2, ShedStep DEF DelItem, Removed
  <1>2. ASSUME NEW k \in Names, Pop(k) PROVE CSafe'
    <2>1. /\ cache' = Keep(cache, Keys(cache) \ {k}) /\ result' = <<k, cache.val[k]>>
          /\ k \in Keys(cache) /\ last' = last
      BY <1>2, Basics DEF Pop, Remove, Removed
    <2>2. Keys(cache') = Keys(cache) \cap (Keys(cache) \ {k})
      BY <2>1, Basics, KeepLemma
    <2>3. result' \in Names \X Values /\ result'[1] = k /\ result'[2] = last[k]
      BY <2>1, Basics
    <2>4. ReadsLatest'
      BY <2>1, <2>2, <2>3 DEF ReadsLatest
    <2> QED
      BY <1>2, <1>m, <2>1, <2>3, <2>4, ShedStep DEF Pop, Removed
  <1>3. CASE PopItem
    <2> DEFINE e == Expire(cache)
               k == LeastRecentlyUsed(e)
    <2>1. /\ Keys(e) # {} /\ cache' = Keep(e, Keys(e) \ {k}) /\ result' = <<k, e.val[k]>>
          /\ Removed({k})
      BY <1>3 DEF PopItem, Remove
    <2>2. /\ IsCache(e, Names, Values) /\ Keys(e) = Live(cache)
          /\ TotalOrder(e.lru, Keys(e))
      BY Basics, ExpireLemma, KeepOrder DEF Expire
    <2>3. k \in Live(cache) /\ k \in Keys(cache) /\ k \in Names
      BY <2>1, <2>2, Basics, FirstLemma
    <2>4. e.val[k] = cache.val[k]
      BY <2>3, KeepEntryLemma DEF Expire
    <2>5. cache' = Keep(cache, Live(cache) \ {k})
      <3>1. Keys(e) \cap (Keys(e) \ {k}) = Keys(cache) \cap (Live(cache) \ {k})
        BY <2>2, Basics
      <3>2. \A j \in Live(cache) \ {k} : e.val[j] = cache.val[j] /\ e.left[j] = cache.left[j]
        BY Basics, KeepEntryLemma DEF Expire
      <3>3. Among(e.lru, Keys(e) \ {k}) = Among(cache.lru, Live(cache) \ {k})
        BY <2>2 DEF Expire, Keep, Among
      <3> HIDE DEF e, k
      <3> QED
        BY <2>1, <2>2, <3>1, <3>2, <3>3 DEF Keep
    <2>6. Keys(cache') = Keys(cache) \cap (Live(cache) \ {k})
      BY <2>5, Basics, KeepLemma
    <2>7. result' \in Names \X Values /\ result'[1] = k /\ result'[2] = last[k]
      BY <2>1, <2>3, <2>4, Basics
    <2> HIDE DEF e, k
    <2>8. ReadsLatest'
      BY <2>1, <2>6, <2>7 DEF ReadsLatest, Removed
    <2> QED
      BY <1>m, <2>1, <2>3, <2>5, <2>7, <2>8, ShedStep DEF Removed
  <1>4. CASE Clear
    <2>1. cache' = Keep(cache, {}) /\ result' = Miss /\ Removed(Names)
      BY <1>4 DEF Clear
    <2>2. ReadsLatest'
      BY <2>1 DEF ReadsLatest
    <2> QED
      BY <1>m, <2>1, <2>2, ShedStep DEF Removed
  <1>5. CASE Reap
    <2>1. /\ cache' = Keep(cache, Live(cache)) /\ result' = Miss
          /\ last' = last /\ since' = since /\ mru' = mru
      BY <1>5 DEF Reap, Expire, NoUse
    <2>2. since' = [j \in Names |-> IF j \in {} THEN TTL ELSE since[j]]
      BY <2>1, Basics
    <2>3. ReadsLatest'
      BY <2>1 DEF ReadsLatest
    <2> QED
      <3> DEFINE R == {}
      <3>1. R \in SUBSET Names /\ Live(cache) \cap R = {}
        OBVIOUS
      <3>2. since' = [j \in Names |-> IF j \in R THEN TTL ELSE since[j]]
        BY <2>2
      <3> HIDE DEF R
      <3> QED
        BY <1>m, <2>1, <2>3, <3>1, <3>2, ShedStep
  <1> QED
    BY <1>1, <1>2, <1>3, <1>4, <1>5

LEMMA CSafeStep == CSafe /\ [Next]_vars => CSafe'
  <1> SUFFICES ASSUME CSafe, [Next]_vars PROVE CSafe'
    OBVIOUS
  <1>1. ASSUME NEW k \in Names, GetMissing(k) PROVE CSafe'
    <2>1. cache' = cache /\ result' = Miss /\ UNCHANGED <<last, since, mru>>
      BY <1>1 DEF GetMissing, Get, NoUse
    <2> QED
      BY <2>1 DEF CSafe, Typed, TypeOK, Sized, Bounded, Faithful, ReadsLatest, Recent
  <1>2. ASSUME NEW k \in Names, NEW v \in Values, SetItem(k, v) \/ SetDefault(k, v)
        PROVE  CSafe'
    <2>1. CASE GetItem(k)
      BY <2>1, GetStep
    <2>2. CASE /\ cache' = Put(cache, k, v) /\ Stored(k, v)
               /\ result' \in {Miss, <<k, v>>}
      BY <2>2, StoreStep
    <2> QED
      BY <1>2, <2>1, <2>2 DEF SetItem, SetDefault
  <1>3. CASE UNCHANGED vars
    BY <1>3 DEF vars, CSafe, Typed, TypeOK, Sized, Bounded, Faithful, ReadsLatest, Recent
  <1> QED
    BY <1>1, <1>2, <1>3, GetStep, RemoveSteps, ScanStep, TickStep DEF Next

LEMMA CSafeInit == Init => CSafe
  <1> SUFFICES ASSUME Init PROVE CSafe
    OBVIOUS
  <1>1. Keys(cache) = {} /\ cache.lru = {} /\ IsCache(cache, Names, Values)
    BY DEF Init, EmptyCache, Keys, IsCache
  <1>2. IsFiniteSet(Keys(cache)) /\ Cardinality(Keys(cache)) = 0
    BY <1>1, FS_EmptySet
  <1> QED
    BY <1>1, <1>2, TTLAssumption, MaxSizeAssumption
    DEF Init, CSafe, Typed, TypeOK, TotalOrder, Sized, Bounded, Faithful, ReadsLatest, Recent

LEMMA CSafeAlways == Spec => []CSafe
  BY CSafeInit, CSafeStep, PTL DEF Spec

\* A cache stays a cache, and its order of use a total one.
THEOREM CacheTypeCorrect == Spec => []TypeOK
  <1>1. CSafe => TypeOK
    BY DEF CSafe, Typed
  <1> QED
    BY <1>1, CSafeAlways, PTL

\* It never holds more entries than it has room for.
THEOREM CacheIsBounded == Spec => []Bounded
  <1>1. CSafe => Bounded
    BY DEF CSafe, Sized
  <1> QED
    BY <1>1, CSafeAlways, PTL

\* A read never serves an overwritten or an expired value.
THEOREM ReadsAreLatest == Spec => []ReadsLatest
  <1>1. CSafe => ReadsLatest
    BY DEF CSafe
  <1> QED
    BY <1>1, CSafeAlways, PTL

-----------------------------------------------------------------------------
(* Which entries a step may lose *)

\* A step loses a live entry on demand, or for room and then the one used
\* longest ago.
LEMMA LossLemma ==
    ASSUME CSafe, [Next]_vars, NEW j \in Live(cache), j \notin Keys(cache')
    PROVE  \/ since'[j] = TTL
           \/ /\ Cardinality(Live(cache)) = MaxSize
              /\ \E k \in Live(cache') : k \notin Live(cache)
              /\ \A i \in Live(cache) \ {j} : <<j, i>> \in cache.lru
  <1> DEFINE P == \/ since'[j] = TTL
                  \/ /\ Cardinality(Live(cache)) = MaxSize
                     /\ \E k \in Live(cache') : k \notin Live(cache)
                     /\ \A i \in Live(cache) \ {j} : <<j, i>> \in cache.lru
  <1>1. j \in Keys(cache) /\ j \in Names /\ IsCache(cache, Names, Values)
    BY Basics
  <1>2. ASSUME NEW k \in Names, NEW v \in Values, cache' = Put(cache, k, v) PROVE P
    <2>1. k \notin Live(cache) /\ Cardinality(Live(cache)) = MaxSize
          /\ \A i \in Live(cache) \ {j} : <<j, i>> \in cache.lru
      BY <1>2, Basics, PutOrder
    <2>2. k \in Live(cache')
      <3>1. k \in Keys(Put(cache, k, v))
        BY <1>1, PutLemma
      <3>2. Live(Put(cache, k, v)) = Keys(Put(cache, k, v))
        BY <1>1, PutIsLiveLemma
      <3> QED
        BY <1>2, <3>1, <3>2
    <2> QED
      BY <2>1, <2>2
  <1>3. ASSUME Keys(cache') = Keys(cache) PROVE P
    BY <1>1, <1>3
  <1>4. ASSUME NEW k \in Names, GetItem(k) \/ GetMissing(k) PROVE P
    BY <1>1, <1>3, <1>4, GetLemma DEF GetItem, GetMissing
  <1>5. ASSUME NEW k \in Names, NEW v \in Values, SetItem(k, v) \/ SetDefault(k, v) PROVE P
    BY <1>2, <1>4, <1>5 DEF SetItem, SetDefault
  <1>6. ASSUME NEW k \in Names, DelItem(k) \/ Pop(k) PROVE P
    <2>1. cache' = Keep(cache, Keys(cache) \ {k}) /\ Removed({k})
      BY <1>6 DEF DelItem, Pop, Remove
    <2>2. Keys(cache') = Keys(cache) \cap (Keys(cache) \ {k})
      BY <1>1, <2>1, KeepLemma
    <2>3. j = k
      BY <1>1, <2>2
    <2> QED
      BY <1>1, <2>1, <2>3 DEF Removed
  <1>7. CASE PopItem
    <2> DEFINE e == Expire(cache)
    <2>1. PICK k : cache' = Keep(e, Keys(e) \ {k}) /\ Removed({k})
      BY <1>7 DEF PopItem, Remove
    <2>2. IsCache(e, Names, Values) /\ Keys(e) = Live(cache)
      BY <1>1, ExpireLemma
    <2>3. Keys(cache') = Keys(e) \cap (Keys(e) \ {k})
      BY <2>1, <2>2, KeepLemma
    <2>4. j = k
      BY <2>2, <2>3
    <2> QED
      BY <1>1, <2>1, <2>4 DEF Removed
  <1>8. CASE Clear
    BY <1>1, <1>8 DEF Clear, Removed
  <1>9. CASE Reap
    BY <1>1, <1>9, ExpireLemma DEF Reap
  <1>10. CASE ScanItems
    <2>1. PICK order : ScanOrder(cache, order) /\ cache' = Scan(cache, order)
      BY <1>10 DEF ScanItems
    <2>2. cache'.val = cache.val
      BY <1>1, <2>1, ScanLemma
    <2> QED
      BY <1>3, <2>2 DEF Keys
  <1>11. CASE Tick
    BY <1>1, <1>3, <1>11, ElapseLemma DEF Tick
  <1>12. CASE UNCHANGED vars
    BY <1>3, <1>12 DEF vars
  <1> QED
    BY <1>4, <1>5, <1>6, <1>7, <1>8, <1>9, <1>10, <1>11, <1>12 DEF Next

\* A live entry goes only on demand, or to let a new key into a full cache.
THEOREM LossesMakeRoom == Spec => LosesOnlyForRoom
  <1> DEFINE A == \A k \in Live(cache) :
                     k \notin Keys(cache')
                     => \/ since'[k] = TTL /\ since[k] < TTL
                        \/ /\ Cardinality(Live(cache)) = MaxSize
                           /\ \E j \in Live(cache') : j \notin Live(cache)
  <1>1. ASSUME CSafe, [Next]_vars PROVE [A]_vars
    BY <1>1, LossLemma, Basics
  <1> QED
    BY <1>1, CSafeAlways, PTL DEF Spec, LosesOnlyForRoom

\* With room for two, the entry used last is never the one that goes.
THEOREM LastUsedIsKept == Spec => LastUsedSurvives
  <1> DEFINE A == MaxSize > 1 /\ mru \in Live(cache) /\ since'[mru] < TTL
                  => mru \in Keys(cache')
  <1>1. ASSUME CSafe, [Next]_vars, MaxSize > 1, mru \in Live(cache), since'[mru] < TTL,
               mru \notin Keys(cache')
        PROVE  FALSE
    <2>1. ~(since'[mru] = TTL)
      BY <1>1, TTLAssumption
    <2>2. /\ Cardinality(Live(cache)) = MaxSize
          /\ \A i \in Live(cache) \ {mru} : <<mru, i>> \in cache.lru
      <3>1. mru \in Live(cache) /\ mru \notin Keys(cache')
        BY <1>1
      <3> QED
        BY <1>1, <2>1, <3>1, LossLemma
    <2>3. PICK i \in Live(cache) : i # mru
      <3>1. SUFFICES ASSUME Live(cache) = {mru} PROVE FALSE
        BY <1>1
      <3> QED
        BY <1>1, <2>2, <3>1, FS_Singleton
    <2>4. /\ i \in Keys(cache) /\ mru \in Keys(cache)
          /\ <<mru, i>> \in cache.lru /\ <<i, mru>> \in cache.lru
      BY <1>1, <2>2, <2>3, Basics DEF CSafe, Recent
    <2> QED
      BY <1>1, <2>4, Basics DEF TotalOrder
  <1>2. ASSUME CSafe, [Next]_vars PROVE [A]_vars
    BY <1>1, <1>2
  <1> QED
    BY <1>2, CSafeAlways, PTL DEF Spec, LastUsedSurvives
=============================================================================
