CONSTANTS
  Files = {a, b}
  CanFail = {"ring", "region", "cdev", "class", "device", "thread"}
  StopInterrupts = FALSE
SPECIFICATION FairSpec
PROPERTY ExitEnds
