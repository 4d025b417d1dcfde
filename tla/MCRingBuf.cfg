CONSTANTS
  Size = 2
  NWords = 2
  Tasks = {t1, t2}
  Fds = {f1, f2}
  MaxArgs = {1, 2}
  MaxHead = 5
SPECIFICATION Spec
INVARIANTS
  TypeOK
  IInv
  WindowIntact
  InOrder
  OnlyOverwrittenLost
  DroppedExact
PROPERTY ImplementsStream
