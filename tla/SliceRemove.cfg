CONSTANTS
  Elems = {0, 1, 2}
  MaxLen = 3
  MaxCalls = 2
SPECIFICATION Spec
INVARIANT RemovesEvery
CHECK_DEADLOCK FALSE
