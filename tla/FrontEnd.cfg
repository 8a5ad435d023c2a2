CONSTANTS
  TextLength = 4
  ChainLength = 3
  Texts <- MCTextLines
  Programs <- MCPrograms
  Chains <- MCChains
SPECIFICATION Spec
INVARIANTS
  TokensAreLongest
  ProgramsReadBack
  ChainsKeepOrder
CHECK_DEADLOCK FALSE
