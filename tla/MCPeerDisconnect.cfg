CONSTANTS
  Conns = {c1, c2}
  NoConn = NoConn
  SendLoop = SendLoop
  INVALID_PEER_ID = INVALID_PEER_ID
  PsAllocNum = 1
  PpAllocNum = 1
  SingleThread = FALSE
  MaxObjects = 3
  MaxSends = 0
  MaxDisc = 1
  Outgoing = {}
SPECIFICATION Spec
PROPERTIES DisconnectsTheAsked
CHECK_DEADLOCK FALSE
