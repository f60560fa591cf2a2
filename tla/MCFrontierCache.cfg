CONSTANTS
    p1 = p1
    p2 = p2
    c1 = c1
    c2 = c2
    s1 = s1
    s2 = s2
    Procs = {p1, p2}
    Charts = {c1, c2}
    Songs = {s1, s2}
    SongOf <- MCSongOf
    Keys = {k1, k2}
    None = none
    DriftSample = 1
    MaxOps = 3
    MaxFaults = 1
SYMMETRY ProcsAlike
SPECIFICATION Spec
INVARIANTS
    ServedInFull
    
PROPERTY
    BundlesOnlyGrow
