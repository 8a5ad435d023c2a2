CONSTANTS
  Images <- MCImages
  Main <- MCMain
  Names <- MCNames
  MaxInt = 3
  MaxHostCalls = 4
  MaxDepth = 3
  MaxOperands = 4
SPECIFICATION MCSpec
CHECK_DEADLOCK FALSE
INVARIANTS Repeatable
PROPERTIES HaltStopsAllLoops RunsEnd
