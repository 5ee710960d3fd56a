SPECIFICATION FairSpec
CONSTANTS
  clob0 = clob0
  clob1 = clob1
  Pods = {clob0, clob1}
  NoPod = NoPod
  LeaseDuration = 15
  RenewInterval = 5
  RetryInterval = 3
  BootWait = 4
  WatchInterval = 2
  MaxDelay = 1
  MaxRestart = 2
  MaxDown = 18
  ProbeGrace = 6
  MaxFaults = 2
PROPERTY WritePathExclusive
