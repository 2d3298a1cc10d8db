---------------------------- MODULE MCDiagnostics ----------------------------
EXTENDS Diagnostics, TLC

MCQueries == {1, 3, NoNumber}

Swaps == Permutations(Hubs)
=============================================================================
