SPECIFICATION FairSpec
CONSTANTS
  reader = reader
  sleeper = sleeper
  Clients = {reader, sleeper}
  Readers = {reader}
  Cap = 2
  Buffer = 1
  MaxPublished = 4
  MaxPings = 1
INVARIANTS TypeOK NoGap GaugeExact
PROPERTIES ReadersServed GoneReleased
CHECK_DEADLOCK FALSE
