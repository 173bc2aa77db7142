CONSTANTS
  a1 = a1
  a2 = a2
  d1 = d1
  d2 = d2
  d3 = d3
  CtlFiles = {ctl, ctl2}
  UvmFiles = {uvm}
  DrmFiles = {drm}
  Descriptors = {d1, d2, d3}
  Addresses = {a1, a2}
  Clients = {c1}
  Layouts <- MCLayouts
  Counts = {0, 1, 2, 5, 6}
  MaxBytes = 5
  Word = 2
  MustProve = TRUE
  NoFd = NoFd
  Block = Block
  Junk = Junk
  None = None
SYMMETRY Symmetry
SPECIFICATION Spec
\* Every descriptor may be closed for good.
CHECK_DEADLOCK FALSE
INVARIANTS
  BuffersMatchTheBlock
  CallerGetsItsOwnBack
PROPERTY HostSeesItsOwn
