\* Two calls for two slots that two jobs of an earlier session may still hold, alive or
\* cancelled; denied callers come again, requests are cancelled, rollbacks fail, answers
\* get lost.
SPECIFICATION FairSpec
CONSTANTS
    Calls = {c1, c2}
    Earlier = {j0, j1}
    MaxConcurrent = 2
    Faults = {"lost", "abort", "rollback"}
    None = None
INVARIANTS
    AnswersHold
    LeaksAreKnown
PROPERTIES
    EveryCallIsServed
CHECK_DEADLOCK FALSE
