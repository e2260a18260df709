SPECIFICATION MCSpec
CONSTANTS
  Engines = {e1, e2}
  Sequences = {s1}
  Pools = {p1, p2}
  Null = Null
  PageSize = 4
  CapacityMin = 8
  CapacityMax = 16
  CompileCapacity = 16
  Requests = {3, 5, 14, 17}
  MaxNesting = 2
  Monitored = FALSE
  SizeBits = 8
  TreebinShift = 3
  NTreebins = 4
  PoolSizes = {32, 60, 96, 100, 108}
  StateSize = 4
  SegmentWords = 1
  PoolWords = 3
  PageWords = 4
  Granularity = 16
  MmapThreshold = 16
  TrimThreshold = 20
  Asks = {1, 5, 8, 17, 19, 240}
  MaxBlocks = 9
  Histories <- MCHistories
  MaxCalls = 3
INVARIANTS
  NoUseAfterFree
  CapacityFits
  HeapIsWellFormed
  BlocksKeepTheirData
  PoolIsTheLimit
  FitIsFound
PROPERTIES
  LossIsReported
