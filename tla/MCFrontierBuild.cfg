CONSTANTS
    Notes <- MCNotes
    Cores = 2
    RamLevels = {1, 3, 20}
    Measured = {0, 9, 10}
    TasksPerWorker = 1
    StallPolls = 2
    MaxDeaths = 1
    Nobody = nobody
    Songs <- MCSongs
    ReducerThreads = 2
    SampleFactors <- MCFactors
    HeadLen = 3
    Box <- MCBox
    PerfectWindows <- MCWindows
    FramePhases <- MCPhases
    GemBudget = 5
    MaxStat = 9
    Tile = 2
    Curves <- MCCurves
    GemSongs <- MCGemSongs
    SearchWorkers = 2
SPECIFICATION Spec
INVARIANTS
    EachSongOnce
    FitsTheBudget
    FrontierIsExact
    EveryRowHasATrace
    TablesFitTheBudget
    SearchIsExact
    PlansAddUp
    GamesScoreTheirSurface
    WinnersAreTheBest
PROPERTY
    PrebuildEnds
CHECK_DEADLOCK FALSE
