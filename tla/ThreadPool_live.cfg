CONSTANTS
  Tasks = {t1, t2}
  Clients = {c1}
  MaxThreads = 2
  MaxQueueSize = 1
  None = None
SPECIFICATION SteadySpec
CHECK_DEADLOCK FALSE
PROPERTIES QueuedTaskCompletes
