CONSTANTS
  Files = {f1, f2}
  Clients = {c1, c2}
  Handles = {h1, h2}
  Sizes = {1, 2}
  Granule = 2
  Limit = 3
  MaxObjects = 3
  MaxUntracked = 0
  Lingers = TRUE
  System = System
  None = None
SYMMETRY Symmetry
SPECIFICATION Spec
\* Every file may be closed for good.
CHECK_DEADLOCK FALSE
INVARIANTS
  CardWithinLimit
