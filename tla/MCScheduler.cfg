SPECIFICATION FairSpec
CONSTANTS
  t1 = t1
  t2 = t2
  Tasks <- OneTask
  Global <- OneTask
  Every <- None
  Period <- Period2
  retryDelays <- LongRetry
  catchUpWindow = 0
  maxCatchUpScan = 0
  DrainTimeout = 1
  MaxRuns = 2
  MaxClock = 3
  MaxTriggers = 1
  MaxToggles = 1
  MaxExits = 1
  MaxFaults = 1
CHECK_DEADLOCK FALSE
INVARIANTS NeverLate InterruptedMarked
PROPERTY StopTerminates
