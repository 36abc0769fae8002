CONSTANTS
  N = 4
  Blocks <- BlockIds
  Start = 1
  Null = 0
  CFGS <- CanonicalCfgs
  INDEX_VALUES = 4
  INITIAL_MARKS <- MarkTables
  INITIAL_MARKERS <- DfsMarkers
SPECIFICATION WalksSpec
INVARIANTS
  SlotsFilledFromTheEnd
  RpoAssertHolds
  RpoCorrect
  BackwardEdgesCloseCycles
  FoundOnce
  DfsCorrect
\* The walks end.
CHECK_DEADLOCK FALSE
