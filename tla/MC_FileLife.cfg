CONSTANTS
  h1 = h1
  h2 = h2
  t1 = t1
  t2 = t2
  CtlFiles = {ctl}
  GpuFiles = {gpu}
  UvmFiles = {uvm, uvm2}
  DrmFiles = {drm, drm2}
  Handles = {uvm, uvm2}
  Clients = {c1}
  Devices = {d1}
  Objects = {h1, h2}
  Regions <- MCRegions
  Banks <- MCBanks
  MaxRuns = 2
  MaxPages = 3
  Threads = {t1, t2}
  Addresses = {2, 4}
  MaxPins = 1
  MaxLine = 2
  Ids = {1, 2, 3}
  MaxId = 3
  MaxGems = 2
  Together = {{ctl, gpu}, {uvm, uvm2}, {drm, drm2}}
  MaxLost = 1
  VmmRefuses = TRUE
  Page = 1
  PoolAlign = 2
  ApertureLen = 6
  PoolMaxLen = 3
  MaxPools = 3
  MaxPoolBytes = 6
  HvaMin = 2
  HvaMax = 8
  None = None
SYMMETRY Symmetry
SPECIFICATION SpecLife
\* Every file may be closed for good.
CHECK_DEADLOCK FALSE
INVARIANTS
  ProxyKeepsItsObject
  PoolsApart
  SearchIsExhaustive
  PagesStayPinned
  RegisteredIsHeld
  NothingOutlivesItsFile
  PoolShowsItself
PROPERTY ImplementsAperture
