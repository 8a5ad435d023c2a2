CONSTANTS
  a = a
  b = b
  Coroutines <- MCCoroutines
  Priority <- MCPriority
  Clients = {c1}
  MaxCalls = 2
  None = None
  m1 = m1
  m2 = m2
  here = here
  std = std
  s1 = s1
  s2 = s2
  a1 = a1
  a2 = a2
  p1 = p1
  p2 = p2
  Names = {m1, m2}
  Files <- MCFiles
  Locked <- MCLocked
  Dirs = {here, std}
  DefaultDirs <- MCDefaultDirs
  Aliases = {alias}
  Symbols = {sym}
  SymbolValues = {val}
  Scopes = {s1, s2}
  Nothing = Nothing
  MaxDependencies = 2
  Addresses = {a1, a2}
  Pointers = {p1, p2}
  Null = Null
  PoolSize = 1
  Wrap = 4
  MaxHistory = 1
SPECIFICATION MCSpec
SYMMETRY Symmetry
CHECK_DEADLOCK FALSE
INVARIANTS NoCallLost RunsOnce VerdictsAgree ValuesAccountedFor
PROPERTY NamespacesKeepSymbols
