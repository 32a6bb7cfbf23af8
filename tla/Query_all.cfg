SPECIFICATION Spec
CONSTANTS
  TargetRows = 2
  MergeChunk = 2
  RowGroup = 1
  ShortMax = 2
  MaxDistinct = 2
  SmallBelow = 2
  GroupAt = 3
  MaxSegments = 3
  Budget = 2
  Inputs <- MCInputs
  Ranges <- MCRanges
  Filters <- MCFilters
  Pins <- MCPins
  Cutoffs <- MCCutoffs
  MaxSeq = 4
  MaxWork = 4
INVARIANTS ScanExact SidecarsTransparent NoLookAhead TailExact 
CHECK_DEADLOCK FALSE
