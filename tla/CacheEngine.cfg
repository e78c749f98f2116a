SPECIFICATION CacheSpec
CONSTANTS
    Workers = {w1, w2}
    Ops = {o1, o2, o3}
    Keys = {k1, k2}
    Cap = 1
    Ttl = 1
    MaxTime = 1
SYMMETRY Symmetry
INVARIANTS
    IndexBounded
    WrittenIsFound
CHECK_DEADLOCK FALSE
