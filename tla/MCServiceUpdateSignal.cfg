CONSTANTS
    Requests = {r1}
    Updater = updater
    Pool = 1
    NewCode = {1}
    MaxRev = 1
    MaxFailures = 0
    MaySignal = TRUE
SPECIFICATION FairSpec
PROPERTY SignalsShutDown
CHECK_DEADLOCK FALSE
