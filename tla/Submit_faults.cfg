\* Three concurrent calls; probes fail, sacct lags, answers get lost, scancel works.
SPECIFICATION Spec
CONSTANTS
    Calls = {c1, c2, c3}
    Earlier = {j0}
    MaxConcurrent = 2
    Faults = {"probe", "lag", "lost"}
    None = None
SYMMETRY CallSymmetry
INVARIANTS
    IInv
    CeilingKept
CHECK_DEADLOCK FALSE
