-------------------------- MODULE TTLCacheTheorems --------------------------
(* What each cache operation does to the stored keys, their values and the  *)
(* time they have left, and to the order of use, for every cache.           *)
EXTENDS TTLCache, FiniteSetTheorems, TLAPS

\* Keeping some entries of a cache leaves a cache (expire, del and the eviction
\* of the least recently used).
LEMMA KeepLemma ==
    ASSUME NEW c, NEW K, NEW V, NEW S, IsCache(c, K, V)
    PROVE  /\ IsCache(Keep(c, S), K, V)
           /\ Keys(Keep(c, S)) = Keys(c) \cap S
  <1> DEFINE d == Keep(c, S)
  <1>1. /\ d.val = [k \in Keys(c) \cap S |-> c.val[k]]
        /\ d.left = [k \in Keys(c) \cap S |-> c.left[k]]
        /\ d.lru = Among(c.lru, S)
        /\ d = [val |-> d.val, left |-> d.left, lru |-> d.lru]
    BY DEF Keep
  <1>2. Keys(d) = Keys(c) \cap S
    BY <1>1 DEF Keys
  <1>3. /\ d.val \in [Keys(d) -> V]
        /\ d.left \in [Keys(d) -> 0 .. TTL]
    BY <1>1, <1>2 DEF IsCache
  <1>4. d.lru \subseteq Keys(d) \X Keys(d)
    BY <1>1, <1>2 DEF IsCache, Among
  <1> QED
    BY <1>1, <1>2, <1>3, <1>4 DEF IsCache

\* An entry that is kept is what it was.
LEMMA KeepEntryLemma ==
    ASSUME NEW c, NEW S, NEW j \in Keys(c), j \in S
    PROVE  /\ Keep(c, S).val[j] = c.val[j]
           /\ Keep(c, S).left[j] = c.left[j]
  BY DEF Keep

\* Reading a key changes neither what is stored nor how long it lives.
LEMMA GetLemma ==
    ASSUME NEW c, NEW K, NEW V, NEW k, IsCache(c, K, V)
    PROVE  /\ IsCache(Get(c, k), K, V)
           /\ Get(c, k).val = c.val
           /\ Get(c, k).left = c.left
           /\ Keys(Get(c, k)) = Keys(c)
           /\ Live(Get(c, k)) = Live(c)
  <1>1. CASE k \notin Live(c)
    BY <1>1 DEF Get
  <1>2. CASE k \in Live(c)
    <2> DEFINE d == [val |-> c.val, left |-> c.left,
                     lru |-> MoveToEnd(c.lru, Keys(c), k)]
    <2>1. Get(c, k) = d
      BY <1>2 DEF Get, IsCache
    <2>2. MoveToEnd(c.lru, Keys(c), k) \subseteq Keys(c) \X Keys(c)
      BY <1>2 DEF MoveToEnd, IsCache, Live
    <2>3. /\ d.val = c.val /\ d.left = c.left
          /\ d = [val |-> d.val, left |-> d.left, lru |-> d.lru]
          /\ d.lru = MoveToEnd(c.lru, Keys(c), k)
      OBVIOUS
    <2>4. Keys(d) = Keys(c) /\ Live(d) = Live(c)
      BY <2>3 DEF Keys, Live
    <2>5. IsCache(d, K, V)
      BY <2>2, <2>3, <2>4 DEF IsCache
    <2> QED
      BY <2>1, <2>3, <2>4, <2>5
  <1> QED
    BY <1>1, <1>2

\* Reaping leaves the live entries.
LEMMA ExpireLemma ==
    ASSUME NEW c, NEW K, NEW V, IsCache(c, K, V)
    PROVE  IsCache(Expire(c), K, V) /\ Keys(Expire(c)) = Live(c)
  <1>1. Keys(c) \cap Live(c) = Live(c)
    BY DEF Live
  <1>2. IsCache(Keep(c, Live(c)), K, V)
    BY KeepLemma
  <1>3. Keys(Keep(c, Live(c))) = Keys(c) \cap Live(c)
    BY KeepLemma
  <1> QED
    BY <1>1, <1>2, <1>3 DEF Expire

\* Making room keeps live entries only, and the key's own entry if it has a
\* live one.
LEMMA MakeRoomLemma ==
    ASSUME NEW c, NEW K, NEW V, NEW k, IsCache(c, K, V)
    PROVE  /\ IsCache(MakeRoom(c, k), K, V)
           /\ Keys(MakeRoom(c, k)) \subseteq Live(c)
           /\ k \in Live(c) => Keys(MakeRoom(c, k)) = Live(c)
  <1> DEFINE e == Expire(c)
             S == Keys(e) \ {LeastRecentlyUsed(e)}
  <1>1. IsCache(e, K, V) /\ Keys(e) = Live(c)
    BY ExpireLemma
  <1>2. MakeRoom(c, k) = IF k \in Keys(e) \/ Cardinality(Keys(e)) < MaxSize
                         THEN e ELSE Keep(e, S)
    BY DEF MakeRoom
  <1> HIDE DEF e
  <1>3. IsCache(Keep(e, S), K, V) /\ Keys(Keep(e, S)) = Keys(e) \cap S
    BY <1>1, KeepLemma
  <1>4. Keys(e) \cap S \subseteq Live(c)
    BY <1>1
  <1> HIDE DEF S
  <1> QED
    BY <1>1, <1>2, <1>3, <1>4

\* The entries left after making room are what they were.
LEMMA MakeRoomEntryLemma ==
    ASSUME NEW c, NEW K, NEW V, NEW k, NEW j, IsCache(c, K, V),
           j \in Keys(MakeRoom(c, k))
    PROVE  /\ MakeRoom(c, k).val[j] = c.val[j]
           /\ MakeRoom(c, k).left[j] = c.left[j]
  <1> DEFINE e == Expire(c)
             S == Keys(e) \ {LeastRecentlyUsed(e)}
  <1>1. IsCache(e, K, V) /\ Keys(e) = Live(c)
    BY ExpireLemma
  <1>2. MakeRoom(c, k) = IF k \in Keys(e) \/ Cardinality(Keys(e)) < MaxSize
                         THEN e ELSE Keep(e, S)
    BY DEF MakeRoom
  <1>3. j \in Live(c)
    BY MakeRoomLemma
  <1>4. j \in Keys(c)
    BY <1>3 DEF Live
  <1>5. e.val[j] = c.val[j] /\ e.left[j] = c.left[j]
    BY <1>3, <1>4, KeepEntryLemma DEF Expire
  <1> HIDE DEF e
  <1>6. CASE MakeRoom(c, k) = e
    BY <1>5, <1>6
  <1>7. CASE MakeRoom(c, k) = Keep(e, S)
    <2>1. Keys(Keep(e, S)) = Keys(e) \cap S
      BY <1>1, KeepLemma
    <2>2. j \in Keys(e) /\ j \in S
      BY <1>7, <2>1
    <2>3. Keep(e, S).val[j] = e.val[j] /\ Keep(e, S).left[j] = e.left[j]
      BY <2>2, KeepEntryLemma
    <2> QED
      BY <1>5, <1>7, <2>3
  <1> QED
    BY <1>2, <1>6, <1>7

\* Storing a key gives a cache with that key, and live entries of the old one.
LEMMA PutLemma ==
    ASSUME NEW c, NEW K, NEW V, NEW k, NEW v,
           IsCache(c, K, V), k \in K, v \in V
    PROVE  /\ IsCache(Put(c, k, v), K, V)
           /\ Keys(Put(c, k, v)) \subseteq Live(c) \cup {k}
           /\ k \in Live(c) => Keys(Put(c, k, v)) = Live(c)
           /\ k \in Keys(Put(c, k, v))
  <1> DEFINE r == MakeRoom(c, k)
             S == Keys(r) \cup {k}
             d == Put(c, k, v)
  <1>1. /\ IsCache(r, K, V)
        /\ Keys(r) \subseteq Live(c)
        /\ k \in Live(c) => Keys(r) = Live(c)
    BY MakeRoomLemma
  <1>2. /\ d.val = [j \in S |-> IF j = k THEN v ELSE r.val[j]]
        /\ d.left = [j \in S |-> IF j = k THEN TTL ELSE r.left[j]]
        /\ d.lru = MoveToEnd(r.lru, S, k)
        /\ d = [val |-> d.val, left |-> d.left, lru |-> d.lru]
        /\ Keys(d) = S
    BY DEF Put, Keys
  <1> HIDE DEF r, d
  <1>3. /\ d.val \in [S -> V]
        /\ d.left \in [S -> 0 .. TTL]
    BY <1>1, <1>2, TTLAssumption DEF IsCache
  <1>4. d.lru \subseteq S \X S
    BY <1>1, <1>2 DEF IsCache, MoveToEnd
  <1>5. IsCache(d, K, V)
    <2>1. S \subseteq K
      BY <1>1 DEF IsCache
    <2> QED
      BY <1>2, <1>3, <1>4, <2>1 DEF IsCache
  <1> QED
    BY <1>1, <1>2, <1>5 DEF d

\* The key's new entry holds the new value and a whole TTL.
LEMMA PutNewEntryLemma ==
    ASSUME NEW c, NEW k, NEW v
    PROVE  Put(c, k, v).val[k] = v /\ Put(c, k, v).left[k] = TTL
  BY DEF Put, Keys

\* The other entries are live ones of the old cache, as they were.
LEMMA PutOldEntryLemma ==
    ASSUME NEW c, NEW K, NEW V, NEW k, NEW v, NEW j, IsCache(c, K, V),
           j \in Keys(Put(c, k, v)), j # k
    PROVE  /\ j \in Live(c)
           /\ Put(c, k, v).val[j] = c.val[j]
           /\ Put(c, k, v).left[j] = c.left[j]
  <1> DEFINE r == MakeRoom(c, k)
             S == Keys(r) \cup {k}
             d == Put(c, k, v)
  <1>1. /\ d.val = [i \in S |-> IF i = k THEN v ELSE r.val[i]]
        /\ d.left = [i \in S |-> IF i = k THEN TTL ELSE r.left[i]]
        /\ Keys(d) = S
    BY DEF Put, Keys
  <1>2. j \in Keys(r)
    BY <1>1
  <1>3. j \in Live(c)
    BY <1>2, MakeRoomLemma
  <1>4. r.val[j] = c.val[j] /\ r.left[j] = c.left[j]
    BY <1>2, MakeRoomEntryLemma
  <1> HIDE DEF r, d
  <1> QED
    BY <1>1, <1>2, <1>3, <1>4 DEF d

\* No entry of a cache that has just been stored into is expired.
LEMMA PutIsLiveLemma ==
    ASSUME NEW c, NEW K, NEW V, NEW k, NEW v, IsCache(c, K, V)
    PROVE  Live(Put(c, k, v)) = Keys(Put(c, k, v))
  <1> SUFFICES ASSUME NEW j \in Keys(Put(c, k, v))
               PROVE  Put(c, k, v).left[j] > 0
    BY DEF Live
  <1>1. CASE j = k
    BY <1>1, PutNewEntryLemma, TTLAssumption
  <1>2. CASE j # k
    <2>1. Put(c, k, v).left[j] = c.left[j] /\ j \in Live(c)
      BY <1>2, PutOldEntryLemma
    <2> QED
      BY <2>1 DEF Live
  <1> QED
    BY <1>1, <1>2

\* A tick removes nothing: it takes one tick off what every entry has left.
LEMMA ElapseLemma ==
    ASSUME NEW c, NEW K, NEW V, NEW k, IsCache(c, K, V)
    PROVE  /\ IsCache(Elapse(c), K, V)
           /\ Elapse(c).val = c.val
           /\ Keys(Elapse(c)) = Keys(c)
           /\ k \in Keys(c) =>
                 Elapse(c).left[k] = IF c.left[k] = 0 THEN 0 ELSE c.left[k] - 1
  <1> DEFINE d == Elapse(c)
  <1>1. /\ d.val = c.val
        /\ d.left = [i \in Keys(c) |-> IF c.left[i] = 0 THEN 0 ELSE c.left[i] - 1]
        /\ d.lru = c.lru
        /\ d = [val |-> d.val, left |-> d.left, lru |-> d.lru]
    BY DEF Elapse, IsCache
  <1> HIDE DEF d
  <1>2. Keys(d) = Keys(c)
    BY <1>1 DEF Keys
  <1>3. d.left \in [Keys(c) -> 0 .. TTL]
    BY <1>1, TTLAssumption DEF IsCache
  <1>4. IsCache(d, K, V)
    BY <1>1, <1>2, <1>3 DEF IsCache
  <1> QED
    BY <1>1, <1>2, <1>4 DEF d

\* Removing a key removes that key only.
LEMMA RemoveLemma ==
    ASSUME NEW c, NEW K, NEW V, NEW k, IsCache(c, K, V)
    PROVE  /\ IsCache(Remove(c, k), K, V)
           /\ Live(Remove(c, k)) = Live(c) \ {k}
           /\ \A j \in Live(c) \ {k} : /\ Remove(c, k).val[j] = c.val[j]
                                       /\ Remove(c, k).left[j] = c.left[j]
  <1> DEFINE S == Keys(c) \ {k}
             d == Remove(c, k)
  <1>1. d = Keep(c, S)
    BY DEF Remove
  <1>2. IsCache(d, K, V) /\ Keys(d) = Keys(c) \ {k}
    BY <1>1, KeepLemma
  <1>3. \A j \in Keys(c) \ {k} : d.val[j] = c.val[j] /\ d.left[j] = c.left[j]
    BY <1>1, KeepEntryLemma
  <1> HIDE DEF d
  <1>4. Live(d) = Live(c) \ {k}
    BY <1>2, <1>3 DEF Live
  <1> QED
    BY <1>2, <1>3, <1>4 DEF d, Live

\* Going through the entries changes neither what is stored nor how long it
\* lives.
LEMMA ScanLemma ==
    ASSUME NEW c, NEW K, NEW V, NEW order, IsCache(c, K, V), ScanOrder(c, order)
    PROVE  /\ IsCache(Scan(c, order), K, V)
           /\ Scan(c, order).val = c.val
           /\ Live(Scan(c, order)) = Live(c)
  <1> DEFINE dead == Keys(c) \ Live(c)
             lru == Among(c.lru, dead) \cup (dead \X Live(c)) \cup order
             d == [val |-> c.val, left |-> c.left, lru |-> lru]
  <1>1. Scan(c, order) = d
    <2>1. c = [val |-> c.val, left |-> c.left, lru |-> c.lru]
      BY DEF IsCache
    <2>2. Scan(c, order) = [c EXCEPT !.lru = lru]
      BY DEF Scan
    <2> HIDE DEF lru
    <2> QED
      BY <2>1, <2>2
  <1>2. lru \subseteq Keys(c) \X Keys(c)
    BY DEF IsCache, Among, Live, ScanOrder, TotalOrder
  <1> HIDE DEF lru
  <1>3. /\ d.val = c.val /\ d.left = c.left /\ d.lru = lru
        /\ d = [val |-> d.val, left |-> d.left, lru |-> d.lru]
    OBVIOUS
  <1>4. Keys(d) = Keys(c) /\ Live(d) = Live(c)
    BY <1>3 DEF Keys, Live
  <1>5. IsCache(d, K, V)
    BY <1>2, <1>3, <1>4 DEF IsCache
  <1> QED
    BY <1>1, <1>3, <1>4, <1>5

-----------------------------------------------------------------------------
(* The order of use *)

\* The entry that a cache evicts is one of its own, used before all the others.
LEMMA FirstLemma ==
    ASSUME NEW c, TotalOrder(c.lru, Keys(c)), Keys(c) # {}
    PROVE  /\ LeastRecentlyUsed(c) \in Keys(c)
           /\ \A j \in Keys(c) \ {LeastRecentlyUsed(c)} : <<LeastRecentlyUsed(c), j>> \in c.lru
  <1>1. \E k \in Keys(c) : \A j \in Keys(c) \ {k} : <<k, j>> \in c.lru
    BY DEF TotalOrder
  <1> QED
    BY <1>1 DEF LeastRecentlyUsed

\* Some of the members of an order stand in an order.
LEMMA AmongOrder ==
    ASSUME NEW order, NEW S, NEW R, TotalOrder(order, S)
    PROVE  TotalOrder(Among(order, R), S \cap R)
  <1>1. Among(order, R) \subseteq (S \cap R) \X (S \cap R)
    BY DEF TotalOrder, Among
  <1>2. \A j, k \in S \cap R :
           <<j, k>> \in Among(order, R) <=> <<j, k>> \in order
    BY DEF Among
  <1>3. ASSUME NEW T \in SUBSET (S \cap R), T # {}
        PROVE  \E k \in T : \A j \in T \ {k} : <<k, j>> \in Among(order, R)
    <2>1. PICK k \in T : \A j \in T \ {k} : <<k, j>> \in order
      BY <1>3 DEF TotalOrder
    <2> QED
      BY <1>2, <2>1
  <1> QED
    BY <1>1, <1>2, <1>3 DEF TotalOrder

\* The entries that are kept stay in their order.
LEMMA KeepOrder ==
    ASSUME NEW c, NEW S, TotalOrder(c.lru, Keys(c))
    PROVE  TotalOrder(Keep(c, S).lru, Keys(Keep(c, S)))
  <1>1. Keep(c, S).lru = Among(c.lru, S) /\ Keys(Keep(c, S)) = Keys(c) \cap S
    BY DEF Keep, Keys
  <1> QED
    BY <1>1, AmongOrder

\* Moving a member to the end, or adding one there, keeps the order.
LEMMA MoveOrder ==
    ASSUME NEW order, NEW S, NEW k, TotalOrder(order, S)
    PROVE  LET m == MoveToEnd(order, S \cup {k}, k)
           IN  /\ TotalOrder(m, S \cup {k})
               /\ \A j \in S \ {k} : <<j, k>> \in m
  <1> DEFINE m == MoveToEnd(order, S \cup {k}, k)
  <1>1. m \subseteq (S \cup {k}) \X (S \cup {k})
    BY DEF MoveToEnd, TotalOrder
  <1>2. \A i, j \in S \ {k} : <<i, j>> \in m <=> <<i, j>> \in order
    BY DEF MoveToEnd
  <1>3. \A j \in S \ {k} : <<j, k>> \in m
    BY DEF MoveToEnd
  <1>4. \A j \in S \cup {k} : <<k, j>> \notin m
    BY DEF MoveToEnd
  <1> HIDE DEF m
  <1>5. \A i, j \in S \cup {k} : ~(<<i, j>> \in m /\ <<j, i>> \in m)
    <2> TAKE i, j \in S \cup {k}
    <2>1. CASE i = k \/ j = k
      BY <1>4, <2>1
    <2>2. CASE i \in S \ {k} /\ j \in S \ {k}
      BY <1>2, <2>2 DEF TotalOrder
    <2> QED
      BY <2>1, <2>2
  <1>6. ASSUME NEW T \in SUBSET (S \cup {k}), T # {}
        PROVE  \E i \in T : \A j \in T \ {i} : <<i, j>> \in m
    <2>1. CASE T = {k}
      BY <2>1
    <2>2. CASE T # {k}
      <3>1. T \ {k} # {} /\ T \ {k} \in SUBSET S
        BY <1>6, <2>2
      <3>2. PICK i \in T \ {k} : \A j \in (T \ {k}) \ {i} : <<i, j>> \in order
        BY <3>1 DEF TotalOrder
      <3>3. \A j \in T \ {i} : <<i, j>> \in m
        BY <1>2, <1>3, <3>1, <3>2
      <3> QED
        BY <3>3
    <2> QED
      BY <2>1, <2>2
  <1> QED
    <2>1. TotalOrder(m, S \cup {k})
      BY <1>1, <1>5, <1>6 DEF TotalOrder
    <2> QED
      BY <1>3, <2>1 DEF m

\* Reading a live key puts it last.
LEMMA GetOrder ==
    ASSUME NEW c, NEW K, NEW V, NEW k, IsCache(c, K, V), TotalOrder(c.lru, Keys(c))
    PROVE  /\ TotalOrder(Get(c, k).lru, Keys(c))
           /\ k \in Live(c) => \A j \in Keys(c) \ {k} : <<j, k>> \in Get(c, k).lru
           /\ k \notin Live(c) => Get(c, k) = c
  <1>1. CASE k \in Live(c)
    <2>1. Get(c, k).lru = MoveToEnd(c.lru, Keys(c), k)
      BY <1>1 DEF Get, IsCache
    <2>2. Keys(c) = Keys(c) \cup {k}
      BY <1>1 DEF Live
    <2> QED
      BY <1>1, <2>1, <2>2, MoveOrder
  <1>2. CASE k \notin Live(c)
    BY <1>2 DEF Get
  <1> QED
    BY <1>1, <1>2

\* Going through the entries puts the last one last.
LEMMA ScanOrderLemma ==
    ASSUME NEW c, NEW K, NEW V, NEW order, IsCache(c, K, V), TotalOrder(c.lru, Keys(c)),
           ScanOrder(c, order)
    PROVE  /\ TotalOrder(Scan(c, order).lru, Keys(c))
           /\ order \subseteq Scan(c, order).lru
           /\ \A j \in Keys(c) \ Live(c), k \in Live(c) : <<j, k>> \in Scan(c, order).lru
  <1> DEFINE dead == Keys(c) \ Live(c)
             m == Among(c.lru, dead) \cup (dead \X Live(c)) \cup order
  <1>1. Scan(c, order).lru = m
    BY DEF Scan, IsCache
  <1>2. Live(c) \subseteq Keys(c) /\ TotalOrder(order, Live(c))
    BY DEF Live, ScanOrder
  <1>3. TotalOrder(Among(c.lru, dead), dead)
    <2>1. Keys(c) \cap dead = dead
      OBVIOUS
    <2> QED
      BY <2>1, AmongOrder
  <1>4. m \subseteq Keys(c) \X Keys(c)
    BY <1>2, <1>3 DEF TotalOrder
  <1>5. \A j, k \in Keys(c) : ~(<<j, k>> \in m /\ <<k, j>> \in m)
    BY <1>2, <1>3 DEF TotalOrder
  <1>6. ASSUME NEW T \in SUBSET Keys(c), T # {}
        PROVE  \E k \in T : \A j \in T \ {k} : <<k, j>> \in m
    <2>1. CASE T \cap dead # {}
      <3>1. PICK k \in T \cap dead :
               \A j \in (T \cap dead) \ {k} : <<k, j>> \in Among(c.lru, dead)
        BY <1>3, <2>1 DEF TotalOrder
      <3> QED
        BY <3>1
    <2>2. CASE T \cap dead = {}
      <3>1. T \in SUBSET Live(c)
        BY <2>2
      <3> QED
        BY <1>2, <1>6, <3>1 DEF TotalOrder
    <2> QED
      BY <2>1, <2>2
  <1> QED
    BY <1>1, <1>4, <1>5, <1>6 DEF TotalOrder

-----------------------------------------------------------------------------
(* What storing does to the number of entries and to their order *)

\* Making room makes room for one entry, and costs a live one only when the
\* cache is full of them: the one used before all the others.
LEMMA RoomLemma ==
    ASSUME NEW c, NEW K, NEW V, NEW k, IsCache(c, K, V),
           TotalOrder(c.lru, Keys(c)),
           IsFiniteSet(Keys(c)), Cardinality(Keys(c)) <= MaxSize
    PROVE  LET r == MakeRoom(c, k)
           IN  /\ IsFiniteSet(Keys(r) \cup {k})
               /\ Cardinality(Keys(r) \cup {k}) <= MaxSize
               /\ TotalOrder(r.lru, Keys(r))
               /\ \A j \in Live(c) : j \notin Keys(r) =>
                     /\ k \notin Live(c) /\ Cardinality(Live(c)) = MaxSize
                     /\ \A i \in Live(c) \ {j} : <<j, i>> \in c.lru
  <1> DEFINE e == Expire(c)
             u == LeastRecentlyUsed(e)
             r == MakeRoom(c, k)
  <1>1. /\ IsCache(e, K, V) /\ Keys(e) = Live(c) /\ Live(c) \subseteq Keys(c)
        /\ TotalOrder(e.lru, Keys(e)) /\ e.lru \subseteq c.lru
    BY ExpireLemma, KeepOrder DEF Expire, Keep, Among, Live
  <1>2. /\ IsFiniteSet(Keys(e)) /\ Cardinality(Keys(e)) \in Nat
        /\ Cardinality(Keys(e)) <= MaxSize
    <2>1. /\ IsFiniteSet(Keys(e)) /\ Cardinality(Keys(e)) <= Cardinality(Keys(c))
          /\ Cardinality(Keys(e)) \in Nat /\ Cardinality(Keys(c)) \in Nat
      BY <1>1, FS_Subset, FS_CardinalityType
    <2> QED
      BY <2>1, MaxSizeAssumption
  <1>3. r = IF k \in Keys(e) \/ Cardinality(Keys(e)) < MaxSize
            THEN e ELSE Keep(e, Keys(e) \ {u})
    BY DEF MakeRoom
  <1> HIDE DEF e, u, r
  <1>4. CASE k \in Keys(e) \/ Cardinality(Keys(e)) < MaxSize
    <2>1. r = e
      BY <1>3, <1>4
    <2>2. /\ IsFiniteSet(Keys(e) \cup {k})
          /\ Cardinality(Keys(e) \cup {k}) =
                IF k \in Keys(e) THEN Cardinality(Keys(e)) ELSE Cardinality(Keys(e)) + 1
      BY <1>2, FS_AddElement
    <2>3. Cardinality(Keys(e) \cup {k}) <= MaxSize
      BY <1>2, <1>4, <2>2, MaxSizeAssumption
    <2> QED
      BY <1>1, <2>1, <2>2, <2>3 DEF r
  <1>5. CASE k \notin Keys(e) /\ ~(Cardinality(Keys(e)) < MaxSize)
    <2>1. Cardinality(Keys(e)) = MaxSize /\ Keys(e) # {}
      BY <1>2, <1>5, MaxSizeAssumption, FS_EmptySet
    <2>2. /\ u \in Keys(e)
          /\ \A i \in Keys(e) \ {u} : <<u, i>> \in e.lru
      BY <1>1, <2>1, FirstLemma DEF u
    <2>3. /\ Keys(r) = Keys(e) \ {u}
          /\ TotalOrder(r.lru, Keys(r))
      <3>1. r = Keep(e, Keys(e) \ {u})
        BY <1>3, <1>5
      <3> QED
        <4>1. Keys(Keep(e, Keys(e) \ {u})) = Keys(e) \cap (Keys(e) \ {u})
          BY <1>1, KeepLemma
        <4>2. TotalOrder(Keep(e, Keys(e) \ {u}).lru, Keys(Keep(e, Keys(e) \ {u})))
          BY <1>1, KeepOrder
        <4> QED
          BY <3>1, <4>1, <4>2
    <2>4. /\ IsFiniteSet(Keys(r)) /\ Cardinality(Keys(r)) = MaxSize - 1
          /\ k \notin Keys(r)
      BY <1>2, <1>5, <2>1, <2>2, <2>3, FS_RemoveElement
    <2>5. IsFiniteSet(Keys(r) \cup {k}) /\ Cardinality(Keys(r) \cup {k}) = MaxSize
      <3>1. Cardinality(Keys(r) \cup {k}) = Cardinality(Keys(r)) + 1
        BY <2>4, FS_AddElement
      <3> QED
        BY <2>4, <3>1, MaxSizeAssumption, FS_AddElement
    <2>6. \A j \in Live(c) : j \notin Keys(r) => j = u
      BY <1>1, <2>3
    <2> QED
      BY <1>1, <1>5, <2>1, <2>2, <2>3, <2>5, <2>6, MaxSizeAssumption DEF r
  <1> QED
    BY <1>4, <1>5

\* Storing an entry puts it last, keeps the cache within its size, and costs
\* another live one only when the cache is full of them.
LEMMA PutOrder ==
    ASSUME NEW c, NEW K, NEW V, NEW k, NEW v, IsCache(c, K, V),
           TotalOrder(c.lru, Keys(c)),
           IsFiniteSet(Keys(c)), Cardinality(Keys(c)) <= MaxSize
    PROVE  LET d == Put(c, k, v)
           IN  /\ IsFiniteSet(Keys(d)) /\ Cardinality(Keys(d)) <= MaxSize
               /\ TotalOrder(d.lru, Keys(d))
               /\ \A j \in Keys(d) \ {k} : <<j, k>> \in d.lru
               /\ \A j \in Live(c) : j \notin Keys(d) =>
                     /\ k \notin Live(c) /\ Cardinality(Live(c)) = MaxSize
                     /\ \A i \in Live(c) \ {j} : <<j, i>> \in c.lru
  <1> DEFINE r == MakeRoom(c, k)
             d == Put(c, k, v)
  <1>1. Keys(d) = Keys(r) \cup {k} /\ d.lru = MoveToEnd(r.lru, Keys(r) \cup {k}, k)
    BY DEF Put, Keys
  <1>2. /\ IsFiniteSet(Keys(r) \cup {k})
        /\ Cardinality(Keys(r) \cup {k}) <= MaxSize
        /\ TotalOrder(r.lru, Keys(r))
        /\ \A j \in Live(c) : j \notin Keys(r) =>
              /\ k \notin Live(c) /\ Cardinality(Live(c)) = MaxSize
              /\ \A i \in Live(c) \ {j} : <<j, i>> \in c.lru
    BY RoomLemma
  <1> HIDE DEF r, d
  <1>3. /\ TotalOrder(MoveToEnd(r.lru, Keys(r) \cup {k}, k), Keys(r) \cup {k})
        /\ \A j \in Keys(r) \ {k} : <<j, k>> \in MoveToEnd(r.lru, Keys(r) \cup {k}, k)
    BY <1>2, MoveOrder
  <1> QED
    BY <1>1, <1>2, <1>3 DEF d
=============================================================================
