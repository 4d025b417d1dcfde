CONSTANTS
  Slots = {0, 1}
  Readings <- AroundLimits
  U32 = 16
  U64 = 256
  Mega = 10
  Answers = {0, 3}
SPECIFICATION ValidateSpec
INVARIANTS
  ValidateTypeOK
  ProbeFindsFirst
  SampleIsOwn
  ShownIsRead
  TableSound
