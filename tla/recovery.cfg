SPECIFICATION Spec
CONSTANTS
  id1 = id1
  id2 = id2
  id3 = id3
  id4 = id4
  pod1 = pod1
  pod2 = pod2
  Pods = {pod1, pod2}
  Ids = {id1, id2, id3}
  Partitions = {1}
  Prices = {1}
  MaxPrice = 9
  Quantities = {1, 2}
  NoPrice = NoPrice
  NoSnapshot = NoSnapshot
  SnapshotEvery = 2
  MaxOrders = 3
  MaxExpired = 0
  MaxStops = 1
  MaxFailures = 1
INVARIANTS
  TypeOK
  AppliedOnce
  DepthIsReplay
  RestoredConsistent
CONSTRAINT Representative
SYMMETRY PodSymmetry
CHECK_DEADLOCK FALSE
