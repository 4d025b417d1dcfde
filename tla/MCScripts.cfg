CONSTANTS
  Files = {f, g}
  CanFail = {"ring", "region", "cdev", "class", "device", "thread"}
  StopInterrupts = TRUE
  Admins = {a, b}
  PipeBreaks = TRUE
SPECIFICATION ScriptsFairSpec
INVARIANTS
  ScriptsTypeOK
  Balanced
  PushHasRing
  FilesKeepModule
  LoadedIsOwn
PROPERTY
  ScriptsEnd
