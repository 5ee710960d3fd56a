SPECIFICATION Spec
CONSTANTS
  Workers = 2
  OrderCap = 1
  FillCap = 1
  BookCap = 1
  DbCap = 1
  BatchSize = 2
  SnapshotEvery = 2
  MaxOrders = 2
  MaxFills = 2
  MaxMoves = 1
  MaxFailures = 0
  FillPartition <- SamePartition
INVARIANT CacheTracksBook
CHECK_DEADLOCK FALSE
