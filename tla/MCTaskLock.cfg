SPECIFICATION FairSpec
CONSTANTS
  n1 = n1
  n2 = n2
  r1 = r1
  r2 = r2
  r3 = r3
  NoNode = NoNode
  NoRow = NoRow
  Nodes <- MCNodes
  Runs <- MCRuns
  home <- MCHome
  LockTimeout = 2
  MaxClock = 4
  LastFault = 1
INVARIANTS MutualExclusion NoOrphanLock
PROPERTIES NoSilentTakeover ImplementsExclusiveTask OrphanRecovered
