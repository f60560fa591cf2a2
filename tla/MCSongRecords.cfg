CONSTANTS
    Workers = {w1, w2}
    Songs = {s1, s2}
    Epsilon = 1
    Top = 3
    MaxStores = 3
SYMMETRY Symmetry
SPECIFICATION Spec
INVARIANTS
    RecordsCountedOnce
\* A session ends when it has done its stores.
CHECK_DEADLOCK FALSE
