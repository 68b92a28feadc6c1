SPECIFICATION Spec
CONSTANTS
  t1 = t1
  t2 = t2
  Tasks <- TwoTasks
  Global <- None
  Every <- None
  Period <- Periods
  retryDelays <- OneRetry
  catchUpWindow = 3
  maxCatchUpScan = 4
  DrainTimeout = 0
  MaxRuns = 2
  MaxClock = 5
  MaxTriggers = 0
  MaxToggles = 0
  MaxExits = 1
  MaxFaults = 0
CHECK_DEADLOCK FALSE
INVARIANTS OccurrenceOnce DrainWaits RetryBudget
