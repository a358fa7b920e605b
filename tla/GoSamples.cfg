CONSTANTS
  Samples = {"ChannelSize", "ChannelPop", "ChannelPopForRange", "ChannelForSelect",
    "ChannelRangeAndHidenSize", "ChannelWithGoroutine", "ChannelRaceInSelect", "ChannelClose",
    "CancelContext", "CancelContextM", "TimeoutContext", "CancelContextCancelParent",
    "CancelContextCancelChild", "DoRepeatedJob", "DoBlockingJob", "SelectDefault",
    "SelectFor", "SelectRace"}
  Many = 6
  Buffered = 2
SPECIFICATION Spec
INVARIANTS ChannelsOK TestSawAll
PROPERTIES NothingAfterDone EverythingEnds
CHECK_DEADLOCK FALSE
