CONSTANTS
    Clients = {c1, c2}
    Official = {a, b}
    Uploaded = {u}
    WarmWorker = warm
    CanCrash = TRUE
    MaxSolves = 2
SPECIFICATION FairSpec
INVARIANTS
    AnswersAreTheirs
    NoOrphanSolve
    OneSolvePerJob
    NoWorkerLeaks
PROPERTY RequestsReturn
\* The threads rest when the bound of solves is reached.
CHECK_DEADLOCK FALSE
