\* squeue fails once after sbatch, and sacct does not have the job yet.
SPECIFICATION Spec
CONSTANTS
    Calls = {c1, c2}
    Earlier = {j0}
    MaxConcurrent = 2
    Faults = {"probe", "lag"}
    None = None
INVARIANTS
    NoSilentLeak
CHECK_DEADLOCK FALSE
