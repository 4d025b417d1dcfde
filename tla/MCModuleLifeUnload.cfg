CONSTANTS
  Files = {a, b}
  CanFail = {"ring", "region", "cdev", "class", "device", "thread"}
  StopInterrupts = TRUE
SPECIFICATION Spec
INVARIANT UnloadWakesReaders
