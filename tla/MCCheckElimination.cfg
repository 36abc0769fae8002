CONSTANTS
  MAX_INSNS = 5
  MAX_REFS = 2
  MAX_OTHERS = 1
  A = A
  B = B
  C = C
  Blocks <- ThreeBlocks
  RpoVector <- Order
  Dominances <- ForkOrChain
  Values = {x, y}
SPECIFICATION CheckSpec
INVARIANTS
  UsesDominated
  ReferenceStillChecked
  DominatedChecksGone
  NextInsnStays
SYMMETRY ValueSymmetry
\* The pass ends.
CHECK_DEADLOCK FALSE
