CONSTANTS
  N = 2
  MAX_EDGES = 4
  Blocks <- BlockIds
  Start = 1
  Null = 0
  CFGS <- ConnectedCfgs
  INDEX_VALUES = 12
  MAX_MARKER_INDEX = 12
  MAX_BUILDS = 1
SPECIFICATION Spec
INVARIANT UnreachableNotReached
CHECK_DEADLOCK FALSE
