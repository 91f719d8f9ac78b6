\* One read under way while a mutation is acknowledged.
SPECIFICATION Spec
CONSTANTS
    Reads = {r1, r2}
    Writes = {w1}
    Silent = {}
    Events = {}
    Keys = {k1}
    MaxEntries = 1
    Ttl = 2
    MaxTime = 1
INVARIANTS
    NothingGoesStale
CHECK_DEADLOCK FALSE
