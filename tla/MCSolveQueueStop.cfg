CONSTANTS
    Workers = {w1, w2}
    N = 1
    CrashPoints = {}
SPECIFICATION FairSpec
PROPERTY StopRequestEndsTheRun
CHECK_DEADLOCK FALSE
