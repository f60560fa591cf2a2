--------------------------- MODULE MCSongRecords ---------------------------
EXTENDS SongRecords, TLC

\* Nothing tells the workers or the songs from each other.
Symmetry == Permutations(Workers) \cup Permutations(Songs)
=============================================================================
