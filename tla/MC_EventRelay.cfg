CONSTANTS
  f1 = f1
  f2 = f2
  Order <- MCOrder
  Buffers = 2
  Nobody = Nobody
  Faults = TRUE
SPECIFICATION Spec
\* Every file may be closed for good.
CHECK_DEADLOCK FALSE
INVARIANTS
  TypeOK
  WatchesOwnFile
PROPERTIES
  WaiterIsWoken
  WatchEnds
