\* A truncated frame with the next one right behind it.
CONSTANTS
  N = 2
  NoProfile = NoProfile
  MinBatch = 1
  MaxBatch = 2
  MaxDigits = 2
  EvalMetaDepth = 16
  BvMetaDepth = 32
  Latency = 8
  Profiles = {p1}
  Counts <- MCCounts
  Faults = {"short"}
  Settle = FALSE
  Readiness = {TRUE, FALSE}
  MaxFrames = 3
  MaxResets = 0
SPECIFICATION Spec
INVARIANTS EvalResultTargetsOccupiedBank
