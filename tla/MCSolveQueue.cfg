CONSTANTS
    Workers = {w1, w2}
    N = 2
    CrashPoints = {"boot", "check", "get", "read", "taken", "solve", "commit", "leave0", "leave3"}
SPECIFICATION Spec
INVARIANTS
    ReportedOnce
    DoneIsCommitted
    OutcomeNamesItsTask
    QueueNeverStarves
    EveryTaskReported
PROPERTY KeepsLedger
\* A run whose parent waits in stop.set() for a process that is gone really stops there.
CHECK_DEADLOCK FALSE
