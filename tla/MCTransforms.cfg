SPECIFICATION Spec
CONSTANTS
  Profiles <- MCProfiles
  Scalars = {2}
  Triples = 2
  Latency = 3
  MaxStarts = 2
  Towers <- MCTowers
INVARIANTS
  CellIsPartialTransform
  ValidationSucceeds
  SchedulesAgree
  SnapshotsAgree
  TransformExact
  ReadsSettled
CHECK_DEADLOCK FALSE
