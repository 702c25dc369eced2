\* The multiplier latency and queue depths of the source, batches below its
\* least one, four coefficients so that each bank is used twice, two
\* batches behind each other, and a reset at any clock.
CONSTANTS
  N = 4
  NoProfile = NoProfile
  MinBatch = 1
  MaxBatch = 2
  MaxDigits = 2
  EvalMetaDepth = 16
  BvMetaDepth = 32
  Latency = 8
  Profiles = {p1}
  Counts <- MCCounts
  Faults = {}
  Settle = FALSE
  Readiness = {TRUE, FALSE}
  MaxFrames = 3
  MaxResets = 1
SPECIFICATION FairSpec
INVARIANTS TypeOK LandsOnlyInFillingBank
  CountersAgree DrainedBankHeld
PROPERTIES ImplementsStream BatchDelivered
