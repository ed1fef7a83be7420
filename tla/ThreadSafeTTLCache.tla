------------------------- MODULE ThreadSafeTTLCache -------------------------
(***************************************************************************)
(* One `ThreadSafeTTLCache` and the threads that call its methods: every   *)
(* method holds the RLock for its whole body, so a call is one action.     *)
(***************************************************************************)
EXTENDS TTLCache

CONSTANTS
    Names,    \* the keys callers use
    Values    \* what they store

ASSUME NamesAssumption == <<>> \notin Names

VARIABLES
    cache,
    result,   \* <<key, value>> returned by the last read, <<>> otherwise
    last,     \* history: the value last stored under each key
    since,    \* history: ticks since then, up to TTL
    mru       \* history: the key last stored or read, <<>> once removed

vars == <<cache, result, last, since, mru>>

Miss == <<>>

TypeOK ==
    /\ IsCache(cache, Names, Values)
    /\ TotalOrder(cache.lru, Keys(cache))
    /\ result \in {Miss} \cup (Names \X Values)

Init ==
    /\ cache = EmptyCache
    /\ result = Miss
    /\ last \in [Names -> Values]
    /\ since = [k \in Names |-> TTL]
    /\ mru = Miss

-----------------------------------------------------------------------------
(* History bookkeeping *)

Stored(k, v) ==
    /\ last' = [last EXCEPT ![k] = v]
    /\ since' = [since EXCEPT ![k] = 0]
    /\ mru' = k

ReadBack(k) ==
    /\ mru' = k
    /\ UNCHANGED <<last, since>>

Removed(K) ==
    /\ since' = [k \in Names |-> IF k \in K THEN TTL ELSE since[k]]
    /\ mru' = IF mru \in K THEN Miss ELSE mru
    /\ UNCHANGED last

NoUse == UNCHANGED <<last, since, mru>>

-----------------------------------------------------------------------------
(* The methods *)

\* __getitem__ and get on a stored, unexpired key.
GetItem(k) ==
    /\ k \in Live(cache)
    /\ cache' = Get(cache, k)
    /\ result' = <<k, cache.val[k]>>
    /\ ReadBack(k)

\* The same on any other key: a KeyError, or the default.
GetMissing(k) ==
    /\ k \notin Live(cache)
    /\ cache' = Get(cache, k)
    /\ result' = Miss
    /\ NoUse

SetItem(k, v) ==
    /\ cache' = Put(cache, k, v)
    /\ result' = Miss
    /\ Stored(k, v)

\* setdefault: read the key when it is there, store the default otherwise.
SetDefault(k, v) ==
    \/ GetItem(k)
    \/ /\ k \notin Live(cache)
       /\ cache' = Put(cache, k, v)
       /\ result' = <<k, v>>
       /\ Stored(k, v)

\* __delitem__ and pop: an absent key is a KeyError, or the default.  A pop
\* reads the key before it deletes it.
DelItem(k) ==
    /\ k \in Keys(cache)
    /\ cache' = Remove(cache, k)
    /\ result' = Miss
    /\ Removed({k})

Pop(k) ==
    /\ k \in Live(cache)
    /\ cache' = Remove(cache, k)
    /\ result' = <<k, cache.val[k]>>
    /\ Removed({k})

\* popitem: reap the dead entries, then remove the least recently used one.
PopItem ==
    LET e == Expire(cache)
        k == LeastRecentlyUsed(e)
    IN  /\ Keys(e) # {}
        /\ cache' = Remove(e, k)
        /\ result' = <<k, e.val[k]>>
        /\ Removed({k})

Clear ==
    /\ Keys(cache) # {}
    /\ cache' = Keep(cache, {})
    /\ result' = Miss
    /\ Removed(Names)

\* expire, and __len__ and __bool__, which expire before they count.
Reap ==
    /\ cache' = Expire(cache)
    /\ result' = Miss
    /\ NoUse

\* values and items read every entry; keys and __iter__ read none.
ScanItems ==
    \E order \in SUBSET (Live(cache) \X Live(cache)) :
       /\ ScanOrder(cache, order)
       /\ cache' = Scan(cache, order)
       /\ \E k \in Live(cache) :
             /\ \A j \in Live(cache) \ {k} : <<j, k>> \in order
             /\ mru' = k
       /\ result' = Miss
       /\ UNCHANGED <<last, since>>

Tick ==
    /\ cache' = Elapse(cache)
    /\ since' = [k \in Names |-> IF since[k] < TTL THEN since[k] + 1 ELSE TTL]
    /\ result' = Miss
    /\ UNCHANGED <<last, mru>>

Next ==
    \/ \E k \in Names :
          \/ GetItem(k)
          \/ GetMissing(k)
          \/ DelItem(k)
          \/ Pop(k)
          \/ \E v \in Values : SetItem(k, v) \/ SetDefault(k, v)
    \/ PopItem
    \/ Clear
    \/ Reap
    \/ ScanItems
    \/ Tick

Spec == Init /\ [][Next]_vars

-----------------------------------------------------------------------------
(* What the rest of the server relies on *)

\* The cache never holds more than maxsize entries, whatever the order of
\* insertions, expiries and overwrites.
Bounded == Cardinality(Keys(cache)) <= MaxSize

\* A read returns the value last stored under its key, and only while the TTL
\* counted from that store runs: no stale and no expired value is ever served.
ReadsLatest ==
    result # Miss => /\ result[2] = last[result[1]]
                     /\ since[result[1]] < TTL \/ result[1] \notin Keys(cache)

\* An unexpired entry leaves the cache only by an explicit removal, or because
\* a key that was not in a full cache is stored: overwriting a key, reading one
\* and reaping dead entries never evict a live one.
LosesOnlyForRoom ==
    [][\A k \in Live(cache) :
          k \notin Keys(cache')
          => \/ since'[k] = TTL /\ since[k] < TTL
             \/ /\ Cardinality(Live(cache)) = MaxSize
                /\ \E j \in Live(cache') : j \notin Live(cache)]_vars

\* The entry used last is never the one evicted to make room, provided the
\* cache has room for two: reads count as uses.
LastUsedSurvives ==
    [][MaxSize > 1 /\ mru \in Live(cache) /\ since'[mru] < TTL
          => mru \in Keys(cache')]_vars
=============================================================================
