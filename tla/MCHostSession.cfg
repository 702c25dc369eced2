SPECIFICATION FairSpec
CONSTANTS
  PairCount = 2
  TimedRuns = 1
  TableSize = 1
  FrameSize = 4
  ResultSize = 1
  Capacities = {6, 7, 11}
  Contiguities = {4, 8}
  HandleCounts = {2, 3, 4}
  MaxMisplaced = 1
  MaxErrors = 1
INVARIANTS
  SentIsBuilt
  ValidatedIsDelivered
  NothingLeaked
  StorageMatchesMode
  AutoTakesFirstThatFits
  ChannelBuffersHeld
PROPERTY
  HostEnds
CHECK_DEADLOCK FALSE
