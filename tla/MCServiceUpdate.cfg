CONSTANTS
    Requests = {r1, r2}
    Updater = updater
    Pool = 2
    NewCode = {2}
    MaxRev = 2
    MaxFailures = 1
    MaySignal = TRUE
SPECIFICATION FairSpec
INVARIANTS
    NoSolveDuringUpdate
    ChecksAreSeen
PROPERTIES
    DrainEnds
    CatchesUp
\* A process that was told to shut down leaves.
CHECK_DEADLOCK FALSE
