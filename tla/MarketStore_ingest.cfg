SPECIFICATION Spec
CONSTANTS
  Scale = 4
  Par = 3
  ResendWindow = 2
  ResendRun = 1
  Loaders = {l1, l2}
  Archived <- MCArchived
  Runs <- MCRuns
  Traded <- MCTraded
  Late <- MCLate
  Actions <- MCActions
  Known <- MCKnown
  ArchiveLines <- MCArchiveLines
  Universe <- MCUniverse
  PolyMessages <- MCPolyMessages
  OrderMessages <- MCOrderMessages
  Assignments <- MCAssignments
  PolyMarkets <- MCPolyMarkets
  KalshiMarkets <- MCKalshiMarkets
  Mantissa = 4
  Allowed = {}
  MaxSent = 4
  MaxArrivals = 4
  MaxRecords = 2
  MaxOrders = 4
  MaxAttempts = 2
  MaxFailures = 1
SYMMETRY Symmetry
INVARIANTS CaptureExact LoadedOnce ReadBack SettledExact
CHECK_DEADLOCK FALSE
