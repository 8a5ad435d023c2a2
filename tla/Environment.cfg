SPECIFICATION Spec
CONSTANTS
  x = x
  Nothing = Nothing
  Names <- MCNames
  Params <- MCParams
  Functions <- MCFunctions
  Classes <- MCClasses
  Plugins <- MCPlugins
  Provides <- MCProvides
  Natives <- MCNatives
  Bodies = {b1, b2}
  Values = {v1, v2}
  MaxFrames = 2
  MaxLoads = 2
SYMMETRY Symmetry
CHECK_DEADLOCK FALSE
INVARIANTS DanglingOnlyIfHandedOver
PROPERTIES FunctionsStay OuterScopesUntouched
