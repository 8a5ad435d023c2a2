CONSTANTS
  Promises = {p1}
  Jobs = {j1}
  c1 = c1
  Clients = {c1}
  MaxThreads = 2
  Threads <- MCThreads
  Thens = {r1}
  Catches = {}
  Finallys = {}
  MayThrow = {r1}
  None = None
SPECIFICATION FairSpec
CHECK_DEADLOCK FALSE
INVARIANTS TaskAgreesWithPromise CallbacksRunOnce NoLostSettlement
PROPERTIES SubmittedFinishes AwaitedSettles
