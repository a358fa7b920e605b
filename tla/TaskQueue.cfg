CONSTANTS
  Workers = {w1, w2, w3}
  PoolSize = 2
  NTasks = 4
SPECIFICATION QueueSpec
INVARIANTS CompletedMeansAllOnce NoTaskTwice
PROPERTIES EventuallyCompleted
CHECK_DEADLOCK FALSE
