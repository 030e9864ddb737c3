CONSTANTS
  Size = 4
  Values = {a, b}
  Raw = Raw
  MaxStores = 9
SPECIFICATION FairSpec
INVARIANTS TypeOK NoDataRace SlotsExact IndInv
PROPERTIES HintsHold ImplementsFifo ImplementsFairFifo
CHECK_DEADLOCK FALSE
