CONSTANTS
  ByteBase = 2
  MemorySize = 5
  BufferSize = 2
  MaxElapsed = 3
  MaxIds = 3
  MaxWrites = 5
SPECIFICATION MCSpec
CHECK_DEADLOCK FALSE
INVARIANTS WritesReadBack ConnectionsNotReused
PROPERTIES DueInterruptRaised
