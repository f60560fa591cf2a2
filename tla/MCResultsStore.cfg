CONSTANTS
    Songs = {s1, s2}
    Hashes = {h1, h2}
    Limit = 1
    Scores = {1, 3}
    FgScores = {2, 4}
    MaxStores = 3
SYMMETRY Symmetry
SPECIFICATION Spec
INVARIANTS
    RowsAreValid
    ScoresReplay
    MetaBoardIsTheTop
PROPERTIES
    BestNeverFalls
    NumbersStay
CHECK_DEADLOCK FALSE
