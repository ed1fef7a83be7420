\* Two sessions for one place; no symmetry, which would be unsound for liveness.
\* Ticks of half a TTL, so that the ages of the cache and of the registry can
\* part, and a session be lost, or noticed, before, at and after the end of its
\* TTL.  No call awaits here: one that ends late touches the registry as
\* CallWithoutProxy does.
CONSTANTS
    Ids = {s1, s2}
    Conns = {n1}
    Calls = {}
    Proxies = {p1, p2}
    NoId = NoId
    TTL = 2
    MaxSize = 1
SPECIFICATION FairSpec
INVARIANTS CachedAreTracked LifeNotOverstated
PROPERTIES ExpiryRaisesNoAlarm LostIsReaped ExpiredIsReleased BusySessionsEnd
