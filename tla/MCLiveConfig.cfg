SPECIFICATION OnSpec
CONSTANTS
  u1 = u1
  l1 = l1
  Settings = {"off", "on", "blank"}
  Default = "off"
  Corrected <- BlankIsOff
  Accepted = {"blank"}
  Updates <- OneUpdate
  Reloads <- OneReload
  Readers <- Nobody
  MaxSaves = 0
  MaxEdits = 1
  MaxFailures = 1
  MaxKeys = 2
CHECK_DEADLOCK FALSE
INVARIANT KeyGeneratedOnce
