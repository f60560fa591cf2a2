CONSTANTS
    Clients = {c1, c2}
    Official = {a, b}
    Uploaded = {}
    WarmWorker = warm
    CanCrash = FALSE
    MaxSolves = 2
SPECIFICATION Spec
INVARIANT MemoryExitIsSmooth
CHECK_DEADLOCK FALSE
