CONSTANTS
  N = 4
  MAX_EDGES = 6
  Blocks <- BlockIds
  Start = 1
  Null = 0
  CFGS <- SparseCfgs
  INDEX_VALUES = 12
  MAX_MARKER_INDEX = 12
  MAX_BUILDS = 3
SPECIFICATION FairSpec
INVARIANTS
  DominatedBlocksCorrect
  ImmediateDominatorsCorrect
  DominatorsComeFirst
  MarkersGivenBack
  BuildNeedsConnectedGraph
PROPERTY BuildTerminates
\* The program ends, or no build is left.
CHECK_DEADLOCK FALSE
