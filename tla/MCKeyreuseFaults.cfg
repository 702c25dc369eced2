\* Every malformed frame the core answers with protocol_error; the sender lets
\* the core drain before it sends the next one.
CONSTANTS
  N = 2
  NoProfile = NoProfile
  MinBatch = 1
  MaxBatch = 2
  MaxDigits = 2
  EvalMetaDepth = 16
  BvMetaDepth = 32
  Latency = 8
  Profiles = {p1, p2}
  Counts <- MCSmallCounts
  Faults = {"value", "short", "long", "order"}
  Settle = TRUE
  Readiness = {TRUE, FALSE}
  MaxFrames = 4
  MaxResets = 0
SPECIFICATION Spec
INVARIANTS StreamExact FramesStayAligned
  MetadataInStep
