----------------------------- MODULE MCPeerLife -----------------------------
EXTENDS PeerLife
ConnSymmetry == Permutations(Conns \ Outgoing)
==============================================================================
