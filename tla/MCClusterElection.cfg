SPECIFICATION FairSpec
CONSTANTS
  Nodes <- TwoNodes
  Threshold = 1
  MayBeLate = FALSE
  MaxEvents = 4
CHECK_DEADLOCK FALSE
INVARIANTS OnePrimary OnePrimaryRow LiveIsCandidate
PROPERTY TakesOver
