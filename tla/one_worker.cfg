SPECIFICATION FairSpec
CONSTANTS
  Workers = 1
  OrderCap = 1
  FillCap = 1
  BookCap = 1
  DbCap = 1
  BatchSize = 2
  SnapshotEvery = 2
  MaxOrders = 3
  MaxFills = 2
  MaxMoves = 0
  MaxFailures = 0
  FillPartition <- SamePartition
PROPERTY PipelineDrains
CHECK_DEADLOCK FALSE
