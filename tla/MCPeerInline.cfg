CONSTANTS
  Conns = {c1, c2, c3}
  NoConn = NoConn
  SendLoop = SendLoop
  INVALID_PEER_ID = INVALID_PEER_ID
  PsAllocNum = 1
  PpAllocNum = 1
  SingleThread = TRUE
  MaxObjects = 4
  MaxSends = 1
  MaxDisc = 1
  Outgoing = {c3}
SPECIFICATION Spec
SYMMETRY ConnSymmetry
INVARIANTS NotReused PoolApart PidsApart
CHECK_DEADLOCK FALSE
