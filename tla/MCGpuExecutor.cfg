CONSTANTS
    a1 = a1
    a2 = a2
    b = b
    w = w
    songA = songA
    songB = songB
    songW = songW
    Tasks = {a1, a2, b}
    Warm = w
    SongOf <- MCSongOf
    Nothing = none
    Torn = torn
    Runs = 2
    Generations = 2
    MaxImproving = 1
    MaxFaults = 2
    MaxCalls = 3
    MayHang = TRUE
    HeadLen = 3
    Box <- MCBox
    GemBudget = 4
    MaxStat = 9
    Curves <- MCCurves
    GaSongs <- MCGaSongs
    Lanes = 2
    MemoSize = 3
    FmRun = 2
    HeuristicK = 1
    TournamentK = 2
    MaxGenomes = 3
    TopRows = 2
SPECIFICATION MCSpec
INVARIANTS
    AnswersAreTheirs
    AbortIsHonoured
    WinnersAreExact
    TablesHoldTheBest
PROPERTY CallsEnd
