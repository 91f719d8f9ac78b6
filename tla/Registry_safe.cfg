\* Three instances register at once and their clients may time out; no script is killed.
SPECIFICATION Spec
CONSTANTS
    Writers = {w1, w2, w3}
    Earlier = {j0}
    MaxEntries = 3
    LockAttempts = 2
    RegisterAttempts = 2
    Faults = {}
    None = None
SYMMETRY WriterSymmetry
INVARIANTS
    TypeOK
    MutualExclusion
    VerdictsHold
    IInv
    NeverOverLimit
PROPERTIES
    CommitReplacesCheckedVersion
    ImplementsLedger
CHECK_DEADLOCK FALSE
