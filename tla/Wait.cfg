CONSTANTS
  Children = {c1, c2}
  NoPid = NoPid
  MaxDuration = 2
  Stops = TRUE
  Handlers = TRUE
SPECIFICATION FairSpec
INVARIANTS TypeOK BlocksOnlyAfterForeignSignal StatusIsTargets
PROPERTIES CallersMask ReturnsUnlessForeignSignal
