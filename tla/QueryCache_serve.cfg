\* Two reads of two keys, two mutations (one of them silent), and a change that
\* Slurm makes by itself.
SPECIFICATION Spec
CONSTANTS
    Reads = {r1, r2}
    Writes = {w1, w2}
    Silent = {w2}
    Events = {e1}
    Keys = {k1, k2}
    MaxEntries = 1
    Ttl = 1
    MaxTime = 2
SYMMETRY CacheSymmetry
INVARIANTS
    IInv
    OwnWritesAreSeen
    Bounded
PROPERTIES
    HitsAreRecent
CHECK_DEADLOCK FALSE
