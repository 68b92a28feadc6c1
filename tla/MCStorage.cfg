SPECIFICATION StorageSpec
CONSTANTS
  w1 = w1
  w2 = w2
  w3 = w3
  u1 = u1
  l1 = l1
  l2 = l2
  q1 = q1
  Writes <- ThreeWrites
  MaxOutages = 2
  MaxErrors = 1
  MayClose = TRUE
  Hours = 2
  Sundays <- SecondDay
  Firsts <- NoDays
  NewYears <- NoDays
  Retention <- WeeklyPolicy
  DefaultCap = 0
  Existing <- Yesterday
  Members <- TwoMembers
  MaxClock = 3
  MaxStarts = 2
  MaxRestores = 1
  MaxFaults = 1
  Settings = {"off", "on", "blank"}
  Default = "off"
  Corrected <- BlankIsOff
  Accepted = {"blank"}
  Updates <- OneUpdate
  Reloads <- TwoReloads
  Readers <- OneReader
  MaxSaves = 1
  MaxEdits = 1
  MaxFailures = 1
  MaxKeys = 2
SYMMETRY Symmetry
CHECK_DEADLOCK FALSE
INVARIANTS NothingLost AppliedOnce GoodBackupRemains LimitsHold RestoreFaithful 
