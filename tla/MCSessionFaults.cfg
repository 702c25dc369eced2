\* Truncated, overlong and refused frames at any word of any frame.
CONSTANTS
  N = 2
  NoProfile = NoProfile
  p1 = p1
  p2 = p2
  MinBatch = 1
  MaxBatch = 2
  MaxDigits = 1
  EvalMetaDepth = 16
  BvMetaDepth = 32
  Latency = 8
  Profiles = {p1, p2}
  MaxPairCount = 2
  Tables <- MCTables
  Counts <- MCSmallCounts
  Faults = {"value", "short", "long"}
  MaxResets = 0
  MaxFrames = 3
SPECIFICATION Spec
INVARIANTS ChildNeverErrs PairOutputSeen ChildRests
PROPERTIES TableHeldInSession
