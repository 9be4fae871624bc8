------------------------- MODULE MCDailyCollection -------------------------
EXTENDS DailyCollection, TLC

Symmetry == Permutations(Versions) \cup Permutations(Collectors)
=============================================================================
