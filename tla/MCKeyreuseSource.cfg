\* The least batch the source accepts with its multiplier latency, any gaps in
\* the input, a receiver that is always ready.  The metadata queues are the
\* least deep that suffice, well below the 16 and 32 of the source.
CONSTANTS
  N = 4
  NoProfile = NoProfile
  MinBatch = 8
  MaxBatch = 8
  MaxDigits = 2
  EvalMetaDepth = 3
  BvMetaDepth = 9
  Latency = 8
  Profiles = {p1}
  Counts <- MCSourceCounts
  Faults = {}
  Settle = FALSE
  Readiness = {TRUE}
  MaxFrames = 3
  MaxResets = 0
SPECIFICATION Spec
INVARIANTS NeverWaitsForBank CreditsNeverStall
