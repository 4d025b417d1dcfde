CONSTANTS
  MinMs = 2
  MaxRing = 16
  Half = 8
  Sizes = {2}
  Intervals = {2, 3, 8}
  Work = 1
  Late = 1
SPECIFICATION Spec
PROPERTY TunedWithoutReload
