CONSTANTS
  Procs = {1, 2, 3}
  Paths <- Names
  Trees <- SomeTrees
  Calls <- SomeCalls
SPECIFICATION Spec
INVARIANTS TypeOK CallsSucceed MovedFileKept
PROPERTIES CallsEnd
CHECK_DEADLOCK FALSE
