CONSTANTS
  Children = {c1}
  NoPid = NoPid
  MaxDuration = 3
  Stops = FALSE
  Handlers = FALSE
SPECIFICATION FairSpec
PROPERTY TimeoutMeansNotExited
