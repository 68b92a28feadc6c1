SPECIFICATION Spec
CONSTANTS
  n1 = n1
  n2 = n2
  r1 = r1
  r2 = r2
  r3 = r3
  NoNode = NoNode
  NoRow = NoRow
  Nodes <- MCNodes
  Runs <- OverlappingRuns
  home <- OverlappingHome
  LockTimeout = 2
  MaxClock = 3
  LastFault = 0
INVARIANT OneNodeOnly
