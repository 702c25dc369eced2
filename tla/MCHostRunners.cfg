SPECIFICATION FairSpec
CONSTANTS
  Programs <- MCPrograms
  TowerModuli <- MCTowerModuli
  TowerRoots <- MCTowerRoots
  RelinTowers = 4
  TimedRuns = 1
  MaxFailures = 1
  Coefficients = 2
  Digits = 2
  CiphertextCounts = {1, 2}
  MinCiphertexts = 2
INVARIANTS
  ReadsFreshRow
  ResultsComplete
  BuffersSafe
  PreparedExact
  FramesFeedCores
PROPERTY
  RunnersEnd
CHECK_DEADLOCK FALSE
