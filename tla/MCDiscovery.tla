---------------------------- MODULE MCDiscovery ----------------------------
EXTENDS Discovery, TLC

Swaps == Permutations(Computers)
=============================================================================
