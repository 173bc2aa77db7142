CONSTANTS
  f1 = f1
  f2 = f2
  Order <- MCOrder
  Buffers = 1
  Nobody = Nobody
  Faults = FALSE
SPECIFICATION Spec
\* Every file may be closed for good.
CHECK_DEADLOCK FALSE
PROPERTIES
  WaiterIsWoken
