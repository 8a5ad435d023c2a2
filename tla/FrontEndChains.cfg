CONSTANTS
  TextLength = 1
  ChainLength = 2
  Texts = {}
  Programs = {}
  Chains <- MCChains
SPECIFICATION Spec
INVARIANTS
  ChainsAccepted
CHECK_DEADLOCK FALSE
