--------------------------- MODULE MCMediaSession ---------------------------
EXTENDS MediaSession, TLC
Swaps == Permutations(Sides)
=============================================================================
