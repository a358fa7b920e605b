CONSTANTS
  IntMax = 15
  MaxFd = 4
  MsPerSec = 4
  NsPerMs = 3
  SecPerMin = 3
  MinPerHour = 3
  HoursPerDay = 2
  RepMax = 16
  MaxText = 4
  MaxDuration = 700
  Zones <- MCZones
  Walls <- MCWalls
  Elems = {0, 1, 2}
  MaxLen = 3
  MaxCalls = 2
  MaxPid = 3
  Programs <- MCPrograms
  AtStart <- MCAtStart
  NoProgram = NoProgram
  MaxEvents = 4
  Callers = {c1, c2}
  MaxOpens = 4
  MaxFaults = 2
  MaxOutput = 6
  MaxToken = 3
  Capacity = 2
  MaxSignals = 3
  ByTerm = {Ignored, 0, 3}
  ByUsr1 = {Ignored, 138}
  ByItself = {0, 5}
  Ignored = Ignored
  Workers = {t1, t2}
SPECIFICATION PartsSpec
INVARIANTS 
  TextsReadBack TimesReadBack UtcTimeRight StdioAsAsked PagesPartition
  ResultsRight FoundRanIt FindsAll PortOpenOnce LinesBeforeEmpty ExitMeansEnded
PROPERTIES ChangedInside ReturnsIfRestFits TermEnds JoinReturns
CHECK_DEADLOCK FALSE
