CONSTANTS
  WIDTH = 4
  HALF_WIDTH = 2
  MAX_OPERATIONS = 2
  MAX_USES = 0
  MAX_ARGUMENTS = 0
  MAX_RUNS = 1
  Starts <- Mc_ShiftStarts
  Environments <- Mc_Environments
SPECIFICATION PeepholesSpec
INVARIANT
  OperandsInFront
