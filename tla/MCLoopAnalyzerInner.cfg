CONSTANTS
  N = 4
  MAX_EDGES = 7
  Blocks <- BlockIds
  Start = 1
  Null = 0
  Root = 100
  CFGS <- SparseCfgs
  INDEX_VALUES = 16
  MAX_MARKER_INDEX = 16
SPECIFICATION LoopSpec
INVARIANT InnerLoopIsInner
\* The analysis ends.
CHECK_DEADLOCK FALSE
