\* Three calls, with and without refresh; one ssh call fails somewhere.
SPECIFICATION Spec
CONSTANTS
    Calls = {c1, c2, c3}
    Ttl = 1
    GiveUpAfter = 1
    MaxTime = 3
    SubmitLeaves = {"queued"}
    MaxFailures = 1
    None = None
SYMMETRY ProbeSymmetry
INVARIANTS
    IInv
    DuplicatesNeedFailures
    RefreshIsNew
    FactsOfCompletedJobs
PROPERTIES
    CachedFactsAge
CHECK_DEADLOCK FALSE
