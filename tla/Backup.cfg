CONSTANTS
  Files = {f1, f2}
  Options <- EveryOption
  MaxVersion = 1
  MaxTime = 2
  Unreliable = TRUE
  Crashes = TRUE
SPECIFICATION Spec
INVARIANTS FreshBackup
PROPERTIES CopyNeverLost Terminates
CHECK_DEADLOCK FALSE
