SPECIFICATION FairSpec
CONSTANTS
  Workers = 2
  OrderCap = 1
  FillCap = 1
  BookCap = 1
  DbCap = 1
  BatchSize = 2
  SnapshotEvery = 2
  MaxOrders = 3
  MaxFills = 2
  MaxMoves = 0
  MaxFailures = 1
  FillPartition <- SamePartition
INVARIANTS TypeOK LeaderKeepsServing SinksInOrder
PROPERTIES ImplementsFillQueue PipelineDrains ProcessEnds
CHECK_DEADLOCK FALSE
