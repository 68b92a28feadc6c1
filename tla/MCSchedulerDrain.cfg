SPECIFICATION Spec
CONSTANTS
  t1 = t1
  t2 = t2
  Tasks <- OneTask
  Global <- None
  Every <- None
  Period <- Period2
  retryDelays <- OneRetry
  catchUpWindow = 0
  maxCatchUpScan = 0
  DrainTimeout = 1
  MaxRuns = 1
  MaxClock = 2
  MaxTriggers = 1
  MaxToggles = 0
  MaxExits = 0
  MaxFaults = 0
CHECK_DEADLOCK FALSE
INVARIANT StoppedMeansIdle
