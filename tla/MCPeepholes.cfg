CONSTANTS
  WIDTH = 4
  HALF_WIDTH = 2
  MAX_OPERATIONS = 3
  MAX_USES = 1
  MAX_ARGUMENTS = 3
  MAX_RUNS = 2
  Starts <- Mc_Starts
  Environments <- Mc_Environments
SPECIFICATION PeepholesSpec
INVARIANTS
  ValuesPreserved
  OperandsInPlace
  LostUsersExplained
  NothingLeft
PROPERTIES
  VisitsAdvance
