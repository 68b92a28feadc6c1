SPECIFICATION FairSpec
CONSTANTS
  w1 = w1
  Writes <- OneWrite
  MaxOutages = 1
  MaxErrors = 0
  MayClose = FALSE
CHECK_DEADLOCK FALSE
PROPERTY QueuedWritesRetried
