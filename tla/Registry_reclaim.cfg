\* One script was killed while it held the lock; two others then find its old lock.
SPECIFICATION Spec
CONSTANTS
    Writers = {w1, w2, w3}
    Earlier = {j0}
    MaxEntries = 4
    LockAttempts = 2
    RegisterAttempts = 1
    Faults = {"kill"}
    None = None
PROPERTIES
    RecordsSurvive
CHECK_DEADLOCK FALSE
