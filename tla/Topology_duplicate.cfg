\* Two calls; one ssh call fails while a probe job is queued.
SPECIFICATION Spec
CONSTANTS
    Calls = {c1, c2}
    Ttl = 1
    GiveUpAfter = 1
    MaxTime = 2
    SubmitLeaves = {}
    MaxFailures = 1
    None = None
INVARIANTS
    NoDuplicateProbe
CHECK_DEADLOCK FALSE
