SPECIFICATION FairSpec
CONSTANTS
  id1 = id1
  id2 = id2
  id3 = id3
  id4 = id4
  pod1 = pod1
  pod2 = pod2
  Pods = {pod1}
  Ids = {id1, id2, id3}
  Partitions = {1, 2}
  Prices = {1}
  MaxPrice = 9
  Quantities = {1}
  NoPrice = NoPrice
  NoSnapshot = NoSnapshot
  SnapshotEvery = 2
  MaxOrders = 2
  MaxExpired = 2
  MaxStops = 2
  MaxFailures = 1
INVARIANTS AppliedOnce DepthIsReplay RestoredConsistent
PROPERTIES CatchesUp
CHECK_DEADLOCK FALSE
