CONSTANTS
  Size = 2
  CBatch = 2
  Maxes = {1}
  PyBatch = 2
  Counts = {0, 1}
  MaxHead = 3
SPECIFICATION Spec
INVARIANTS
  TypeOK
  AtMostLimit
  ReadIsPrinted
  ReadHasData
  RowsNumbered
PROPERTY
  SignalsStop
