CONSTANTS
  Messages = {1, 2}
  BodySize = 2
SPECIFICATION Spec
INVARIANTS ArrivesWhole
CHECK_DEADLOCK FALSE
