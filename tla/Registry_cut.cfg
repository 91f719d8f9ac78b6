\* A client goes away before its payload has gone through.
SPECIFICATION Spec
CONSTANTS
    Writers = {w1, w2}
    Earlier = {j0}
    MaxEntries = 3
    LockAttempts = 2
    RegisterAttempts = 1
    Faults = {"cut"}
    None = None
PROPERTIES
    RecordsSurvive
CHECK_DEADLOCK FALSE
