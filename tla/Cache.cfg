\* One more key than the cache holds, so that storing evicts; a TTL of two
\* ticks, so that entries of different ages live together.
CONSTANTS
    Names = {k1, k2, k3}
    Values = {v1, v2}
    TTL = 2
    MaxSize = 2
SPECIFICATION Spec
SYMMETRY Symmetry
INVARIANTS TypeOK Bounded ReadsLatest
PROPERTIES LosesOnlyForRoom LastUsedSurvives
