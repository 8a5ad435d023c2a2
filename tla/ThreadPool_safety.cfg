CONSTANTS
  Tasks = {t1, t2}
  Clients = {c1, c2}
  MaxThreads = 2
  MaxQueueSize = 1
  None = None
SYMMETRY Symmetry
SPECIFICATION Spec
CHECK_DEADLOCK FALSE
INVARIANTS OutcomeBeforeCompletion NoLostCompletion ShutdownQuiesces
PROPERTY ImplementsLifecycle
