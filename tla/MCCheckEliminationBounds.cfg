CONSTANTS
  MAX_INSNS = 3
  MAX_REFS = 1
  MAX_OTHERS = 1
  A = A
  B = B
  C = C
  Blocks <- ThreeBlocks
  RpoVector <- Order
  Dominances <- ForkOrChain
  Values = {x, y, z}
SPECIFICATION CheckSpec
INVARIANT EqualBoundsChecked
CHECK_DEADLOCK FALSE
