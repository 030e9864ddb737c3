CONSTANTS
  AllocNum = 2
  Objects = {o1, o2}
  Null = Null
  MaxSize = 4
SPECIFICATION Spec
INVARIANTS TypeOK FreeExact ListExact
PROPERTIES OrderKept ImplementsIdTable
CHECK_DEADLOCK FALSE
