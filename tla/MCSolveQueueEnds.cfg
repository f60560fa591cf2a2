CONSTANTS
    Workers = {w1, w2}
    N = 2
    CrashPoints = {"get", "commit"}
SPECIFICATION FairSpec
PROPERTIES
    RunEnds
\* A run whose parent waits in stop.set() for a process that is gone really stops there.
CHECK_DEADLOCK FALSE
