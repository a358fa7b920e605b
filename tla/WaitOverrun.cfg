CONSTANTS
  Children = {c1, c2}
  NoPid = NoPid
  MaxDuration = 2
  Stops = FALSE
  Handlers = FALSE
SPECIFICATION FairSpec
PROPERTY WaitForReturns
