--------------------------- MODULE MCResultsStore ---------------------------
EXTENDS ResultsStore, TLC

\* Nothing tells the songs or the loadouts from each other.
Symmetry == Permutations(Songs) \cup Permutations(Hashes)
=============================================================================
