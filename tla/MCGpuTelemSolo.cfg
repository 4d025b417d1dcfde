CONSTANTS
  t1 = t1
  t2 = t2
  f1 = f1
  f2 = f2
  Size = 2
  Tasks = {t1}
  Fds = {f1}
  Owner <- SoloFile
  Counts = {0, 1, 3}
  MaxHead = 5
SPECIFICATION FairSpec
INVARIANTS
  TypeOK
  ReadNeverEmpty
  DeliveredInOrder
  LossExplained
  PollinMeansReadable
PROPERTIES
  ImplementsDevice
  BlockedReturns
  SignalEndsCall
