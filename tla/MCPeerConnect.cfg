CONSTANTS
  Conns = {c1}
  NoConn = NoConn
  SendLoop = SendLoop
  INVALID_PEER_ID = INVALID_PEER_ID
  PsAllocNum = 1
  PpAllocNum = 1
  SingleThread = FALSE
  MaxObjects = 2
  MaxSends = 0
  MaxDisc = 0
  Outgoing = {c1}
SPECIFICATION FairSpec
PROPERTIES ConnectIsAnswered
CHECK_DEADLOCK FALSE
