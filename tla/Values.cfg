SPECIFICATION ValuesSpec
CONSTANTS
  IntBits = 4
  CharBits = 3
  Doubles <- MCDoubles
  Methods <- MCMethods
  Blanks = {0}
  NoCharacter = 0
  Blank = 0
  Zero = 10
  Plus = 20
  Minus = 21
  Point = 22
  Colon = 23
  Open = 24
  Close = 25
  LetterD = 26
  LetterF = 27
  LetterS = 28
  TrueText <- MCTrueText
  FalseText <- MCFalseText
  Layouts <- MCLayouts
  ArgumentLists <- MCArgumentLists
  Keywords <- MCKeywords
  Operands <- MCOperands
  Texts <- MCTexts
  Arrays <- MCArrays
  Dicts <- MCDicts
  Names = {x, y}
  Keys <- MCKeys
  Nothing = 0
  MaxCells = 4
  MaxLength = 2
CHECK_DEADLOCK FALSE
INVARIANTS OneOwner OperatorsAgree TextsAgree
