------------------------------ MODULE TTLCache ------------------------------
(***************************************************************************)
(* The value of a `ThreadSafeTTLCache` (utils/cachetools.py) and what its  *)
(* methods do to it.  The wrapper delegates to `cachetools.TTLCache` under *)
(* an RLock, so every method is one atomic function from cache to cache.   *)
(*                                                                         *)
(* A cache is a record:                                                    *)
(*   val   what each stored key maps to, a function whose domain is the    *)
(*         set of stored keys, the expired ones not yet reaped included;   *)
(*   left  for each stored key the clock ticks left before its TTL ends,   *)
(*         0 once it has expired.  The code stores an absolute deadline    *)
(*         and compares it with the clock: only the difference matters;    *)
(*   lru   the order of last use: <<j, k>> means j was used before k.      *)
(***************************************************************************)
EXTENDS Naturals, FiniteSets

CONSTANTS
    TTL,      \* ticks an entry lives, counted from its insertion
    MaxSize   \* the number of entries beyond which one is evicted

ASSUME TTLAssumption == TTL \in Nat \ {0}
ASSUME MaxSizeAssumption == MaxSize \in Nat \ {0}

EmptyCache == [val  |-> [k \in {} |-> 0],
               left |-> [k \in {} |-> 0],
               lru  |-> {}]

Keys(c) == DOMAIN c.val

\* A slip: the expired entries not yet reaped are still found.
StoredKeys(c) == Keys(c)

\* The keys for which `key in cache` is true: stored and not expired.
Live(c) == {k \in Keys(c) : c.left[k] > 0}

\* The order in which the keys of S stand when k becomes the last of them.
MoveToEnd(order, S, k) ==
    {p \in order : k \notin {p[1], p[2]}} \cup ((S \ {k}) \X {k})

Among(order, S) == {p \in order : p[1] \in S /\ p[2] \in S}

\* The cache with only its entries in S.
Keep(c, S) == [val  |-> [k \in Keys(c) \cap S |-> c.val[k]],
               left |-> [k \in Keys(c) \cap S |-> c.left[k]],
               lru  |-> Among(c.lru, S)]

\* A slip: entries in their last tick are reaped as well.
ExpireEarly(c) == Keep(c, {k \in Live(c) : c.left[k] > 1})

\* expire(): reap the entries whose TTL has ended.
Expire(c) == Keep(c, Live(c))

\* The entry the cache evicts when it is full.
LeastRecentlyUsed(c) ==
    CHOOSE k \in Keys(c) : \A j \in Keys(c) \ {k} : <<k, j>> \in c.lru

\* A slip: a read is not a use.
GetWithoutUse(c, k) == c

\* A slip: a read starts the entry's TTL again.
GetRenewing(c, k) == IF k \in Live(c) THEN [c EXCEPT !.left[k] = TTL] ELSE c

\* c[k] and get(k): reading a live entry makes it the most recently used one
\* and leaves its TTL alone; reading anything else changes nothing.
Get(c, k) ==
    IF k \in Live(c) THEN [c EXCEPT !.lru = MoveToEnd(@, Keys(c), k)] ELSE c

\* What setting k makes room with: the dead entries go first, then the least
\* recently used one when a new key would not fit.
MakeRoom(c, k) ==
    LET e == Expire(c)
    IN  IF k \in Keys(e) \/ Cardinality(Keys(e)) < MaxSize
        THEN e
        ELSE Keep(e, Keys(e) \ {LeastRecentlyUsed(e)})

\* A slip: the entry is stored and no room is made for it.
PutWithoutRoom(c, k, v) ==
    LET S == Keys(c) \cup {k}
    IN  [val  |-> [j \in S |-> IF j = k THEN v ELSE c.val[j]],
         left |-> [j \in S |-> IF j = k THEN TTL ELSE c.left[j]],
         lru  |-> MoveToEnd(c.lru, S, k)]

\* c[k] = v: (re)inserting an entry starts its TTL again.
Put(c, k, v) ==
    LET r == MakeRoom(c, k)
        S == Keys(r) \cup {k}
    IN  [val  |-> [j \in S |-> IF j = k THEN v ELSE r.val[j]],
         left |-> [j \in S |-> IF j = k THEN TTL ELSE r.left[j]],
         lru  |-> MoveToEnd(r.lru, S, k)]

\* A slip: the entry goes and keeps its place in the order of use.
RemoveValueOnly(c, k) == [Keep(c, Keys(c) \ {k}) EXCEPT !.lru = c.lru]

\* del c[k], pop(k, default): explicit removal.
Remove(c, k) == Keep(c, Keys(c) \ {k})

\* order is a strict order of the members of S one after the other (S being
\* finite): any of them have a first one.
TotalOrder(order, S) ==
    /\ order \subseteq S \X S
    /\ \A j, k \in S : ~(<<j, k>> \in order /\ <<k, j>> \in order)
    /\ \A T \in SUBSET S : T # {} =>
          \E k \in T : \A j \in T \ {k} : <<k, j>> \in order

\* An order in which a cache may iterate: oldest insertion first.  Entries
\* stored within the same tick stand in either order.
ScanOrder(c, order) ==
    /\ TotalOrder(order, Live(c))
    /\ \A j, k \in Live(c) : c.left[j] < c.left[k] => <<j, k>> \in order

\* items() and values() read every live entry, in that order.
Scan(c, order) ==
    LET dead == Keys(c) \ Live(c)
    IN  [c EXCEPT !.lru = Among(c.lru, dead) \cup (dead \X Live(c)) \cup order]

\* One tick of the clock.
Elapse(c) ==
    [c EXCEPT !.left = [k \in Keys(c) |-> IF @[k] = 0 THEN 0 ELSE @[k] - 1]]

\* c is a cache of values in V under keys in K.
IsCache(c, K, V) ==
    /\ c = [val |-> c.val, left |-> c.left, lru |-> c.lru]
    /\ Keys(c) \subseteq K
    /\ c.val \in [Keys(c) -> V]
    /\ c.left \in [Keys(c) -> 0 .. TTL]
    /\ c.lru \subseteq Keys(c) \X Keys(c)
=============================================================================
