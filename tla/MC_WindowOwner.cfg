CONSTANTS
  PageSize = 2
  WordSize = 64
  g1 = g1
  c1 = c1
  d1 = d1
  d2 = d2
  m1 = m1
  b1 = b1
  Files <- MCFiles
  Kind <- MCKind
  Memories <- MCMemories
  Length <- MCLength
  CacheOf <- MCCacheOf
  Buffers <- MCBuffers
  ZoneSize <- MCZoneSize
  Mappings = {v1, v2}
  MaxPages = 3
  MaxId = 2
  None = None
  Faults = FALSE
  MapTwice = FALSE
  Forks = FALSE
  Together <- MCTogether
  MaxLeaks = 0
SYMMETRY Symmetry
SPECIFICATION Spec
\* Every file may be closed for good.
CHECK_DEADLOCK FALSE
INVARIANTS
  OnePlacementForAll
