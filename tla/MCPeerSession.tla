--------------------------- MODULE MCPeerSession ---------------------------
EXTENDS PeerSession
=============================================================================
