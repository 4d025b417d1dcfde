CONSTANTS
  Files = {f, g}
  CanFail = {"ring", "region", "cdev", "class", "device", "thread"}
  StopInterrupts = TRUE
  Admins = {a, b}
  PipeBreaks = FALSE
SPECIFICATION ScriptsSpec
PROPERTY UnloadedIsTrue
