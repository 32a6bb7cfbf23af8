SPECIFICATION FairSpec
CONSTANTS
  c1 = c1
  c2 = c2
  Sessions = {c1, c2}
  First = c1
  Kernels = {1, 2}
  Jobs <- MCJobs
  MaxCells = 2
  MaxActive = 1
  MaxFaults = 1
  Allowed = {}
INVARIANTS CellExact KernelsOwned
PROPERTY CallReturns
CHECK_DEADLOCK FALSE
