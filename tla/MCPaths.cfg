SPECIFICATION PathsSpec
CONSTANTS
  \* unicast
  Nodes = {1, 2, 3, 4}
  tc_myself = 1
  MaxCost = 3
  RouteBroken = 15
  EdgeSets <- MCEdgeSets
  NbrSets <- MCNbrSets
  \* multicast
  BmfSetups <- MCBmfSetups
  BmfPackets <- MCBmfPackets
  MaxOffered = 1
  HistoryHold = 4
  MaxDelay = 1
INVARIANTS
  CandidateExact
  ShortestPaths
  SpfTree
  ReachedHasNextHop
  DeliveredOnce
PROPERTIES
  PacketReaches
CHECK_DEADLOCK FALSE
