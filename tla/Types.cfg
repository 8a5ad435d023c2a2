SPECIFICATION Spec
CONSTANTS
  TypeNames <- MCTypeNames
  Lower <- MCLower
  BuiltinTypes <- MCBuiltinTypes
  Signatures <- MCSignatures
  Natives <- MCNatives
  None = None
  MaxTypes = 3
  MaxMethods = 2
  MaxScopes = 2
  InterfaceMethods <- MCInterfaceMethods
  Arguments <- MCArguments
  ParameterLists <- MCParameterLists
  IntBits = 3
  CharBits = 5
  Doubles <- MCDoubles
  Methods <- MCMethods
  Subtypes <- MCSubtypes
  Instances <- MCInstances
  TypeVariables <- MCTypeVariables
  SomeExpressions <- MCExpressions
  SourceValues <- MCSourceValues
  NoCharacter = 0
  Blank = 1
  Plus = 2
  Minus = 3
  Zero = 4
  TrueText <- MCTrueText
  FalseText <- MCFalseText
  Known <- MCKnown
  Guard <- MCGuard
  ParametersOfTypes <- MCParametersOfTypes
  TypeLists <- MCTypeLists
  SomeTypes <- MCSomeTypes
  SomePatterns <- MCSomePatterns
  SomeValues <- MCSomeValues
CHECK_DEADLOCK FALSE
INVARIANTS SearchesFind ReadsBack InferredIsEvaluated PlainOnlyReads BindingsSolve
PROPERTIES MethodsGoToTheirClass
