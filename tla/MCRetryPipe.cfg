CONSTANTS
  Size = 3
  Messages = {1, 2, 3, 4, 5, 6}
  NoMessage = NoMessage
SPECIFICATION FairSpec
INVARIANTS TypeOK NoneLostNoneTwice OvertakenOnlyIfStalled
PROPERTIES ImplementsMailbox AllDelivered
CHECK_DEADLOCK FALSE
