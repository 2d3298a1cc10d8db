------------------------- MODULE MCPairedPeerStore -------------------------
EXTENDS PairedPeerStore, TLC

\* Entries that can be written within the bound of the clock.
MCValue == [Devices \X Intents -> 0 .. MaxTime + TrustDuration]

Swaps == Permutations(Calls) \cup Permutations(Devices)
=============================================================================
