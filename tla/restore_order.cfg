SPECIFICATION Spec
CONSTANTS
  id1 = id1
  id2 = id2
  id3 = id3
  id4 = id4
  pod1 = pod1
  pod2 = pod2
  Pods = {pod1}
  Ids = {id1, id2, id3, id4}
  Partitions = {1}
  Prices = {1}
  MaxPrice = 9
  Quantities = {1}
  NoPrice = NoPrice
  NoSnapshot = NoSnapshot
  SnapshotEvery = 2
  MaxOrders = 4
  MaxExpired = 0
  MaxStops = 1
  MaxFailures = 0
INVARIANT RestoredInTimeOrder
CHECK_DEADLOCK FALSE
