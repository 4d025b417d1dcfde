CONSTANTS
  MinMs = 2
  MaxRing = 16
  Half = 8
  Sizes = {0, 1, 2, 3, 4, 5, 8, 9, 15, 16, 17}
  Intervals = {0, 1, 2, 3, 5}
  Work = 2
  Late = 1
SPECIFICATION Spec
INVARIANTS
  TypeOK
  RingSizeFits
  NeverTooFast
  KeepsInterval
PROPERTY
  TunedWithoutReload
