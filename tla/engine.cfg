SPECIFICATION FairSpec
CONSTANTS
  id1 = id1
  id2 = id2
  id3 = id3
  Ids = {id1, id2, id3}
  Prices = {0, 1}
  MaxPrice = 1
  Quantities = {0, 1, 2}
  MaxSequence = 1
  NoPrice = NoPrice
  NoOrder = NoOrder
CONSTRAINT Representative
INVARIANTS
  TypeOK
  NeverCrossed
  FillsConserved
  FillsHonourLimits
  BookConsistent
  TimePriority
PROPERTIES
  PriceTimePriority
  ImplementsPriceTimeBook
  CallsReturn
