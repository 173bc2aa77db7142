CONSTANTS
  PageSize = 2
  WordSize = 32
  Size = 12
  Lengths <- MCLengths
SPECIFICATION Spec
INVARIANTS
  TypeOK
  Exclusive
  NothingLost
  NoFragmentation
PROPERTIES
  HolderIsHeard
  DoubleFreeRefused
  ImplementsPool
