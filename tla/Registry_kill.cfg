\* Two instances; either script may be killed at any step.
SPECIFICATION FairSpec
CONSTANTS
    Writers = {w1, w2}
    Earlier = {j0}
    MaxEntries = 3
    LockAttempts = 3
    RegisterAttempts = 2
    Faults = {"kill"}
    None = None
INVARIANTS
    VerdictsHold
PROPERTIES
    RecordsSurvive
    CallsReturn
    DeadLockYields
CHECK_DEADLOCK FALSE
