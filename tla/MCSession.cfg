\* One or two pairs, sessions behind each other and behind a second table, and
\* a reset at any clock.
CONSTANTS
  N = 4
  NoProfile = NoProfile
  p1 = p1
  p2 = p2
  MinBatch = 1
  MaxBatch = 2
  MaxDigits = 1
  EvalMetaDepth = 16
  BvMetaDepth = 32
  Latency = 8
  Profiles = {p1, p2}
  MaxPairCount = 2
  Tables <- MCTables
  Counts <- MCSmallCounts
  Faults = {}
  MaxResets = 1
  MaxFrames = 4
SPECIFICATION Spec
INVARIANTS WordCountsAgree
PROPERTIES ImplementsSession
