\* Three sessions compete for two places while a fetch is in flight: it can be
\* evicted, expired, forked over or rebound before it ends.  A TTL of one tick
\* is enough: isolation does not depend on ages.  Four proxies always leave a
\* free one (two cached, one held by the call).
CONSTANTS
    Ids = {s1, s2, s3}
    Conns = {n1}
    Calls = {c1}
    Proxies = {p1, p2, p3, p4}
    NoId = NoId
    TTL = 1
    MaxSize = 2
SPECIFICATION Spec
SYMMETRY Symmetry
INVARIANTS TypeOK PrivateProxies
PROPERTIES StoresArePrivate
