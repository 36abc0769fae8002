CONSTANTS
  MAX_INSNS = 4
  MAX_PHIS = 1
  MAX_INPUTS = 2
  Blocks = {b1, b2}
SPECIFICATION DefUseSpec
INVARIANTS
  DefUseTypeOK
  InputsAsMeant
  NoRemovedInput
  UsersMatchInputs
  DependencyFound
SYMMETRY BlockSymmetry
CHECK_DEADLOCK FALSE
