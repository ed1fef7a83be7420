\* Two threads, for one session or two, and a cache with room for one of them.
\* No symmetry: liveness is checked.
CONSTANTS
    TTL = 2
    MaxSize = 1
    Ids = {s1, s2}
    Workers = {w1, w2}
    Proxies = {p1, p2, p3}
    Nothing = Nothing
SPECIFICATION Spec
INVARIANTS TypeOK UndisturbedCallsKeepTheProxy
PROPERTIES ReconcileSparesTheLiving TrackedAgain
