CONSTANTS
  h1 = h1
  h2 = h2
  c1 = c1
  c2 = c2
  Handles = {h1, h2}
  Clients = {c1, c2}
  DescIds = {1, 2}
  ProdUsages <- MCProd
  ConsUsages <- MCCons
  LockUsages <- MCLock
  Sizes = {1}
  GpuSecure = FALSE
CONSTRAINT MCBound
SYMMETRY MCSymmetry
SPECIFICATION Spec
INVARIANTS
  RefsCounted
  NothingLost
  LockedIsMapped
  Coherent
CHECK_DEADLOCK FALSE
