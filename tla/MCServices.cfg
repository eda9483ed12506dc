SPECIFICATION ServicesSpec
CONSTANTS
  \* neighbors
  addrA = addrA
  addrB = addrB
  addrC = addrC
  NoAddr = NoAddr
  Addrs = {addrA, addrB, addrC}
  Ifs = {1, 2}
  Links <- MCLinks
  Objs = {1, 2, 3}
  Surroundings <- MCSurroundings
  MaxRenames = 3
  MidClaims <- MCMids
  \* output
  OutConfigs <- MCOutConfigs
  OutMax <- MCOutMax
  OutTables <- MCOutTables
  ForwardSizes = {12, 20}
  \* duplicates
  Originators = {o1}
  HalfSeq = 5
  ArrayBits = 4
  DupMaxTooLow = 3
  Vtime = 2
  HalfTime = 8
  StartNow = 12
  MaxNow = 0
  \* trees
  AvlNodes = {1, 2, 3, 4, 5, 6, 7, 8, 9}
  AvlKey <- MCAvlKey
  NoNode = 0
  \* stamps
  SecureNodes = {1, 2}
  MaxChallenges = 4
INVARIANTS
  NeighborsConsistent
  OutputComplete
  ArrayIsHistory
  TreeBalanced
  ValidatedOnce
PROPERTIES
  NewNeverBlocked
  OnlyFirstRepeats
  KeptWhileHeard
  TreeIsSortedList
CHECK_DEADLOCK FALSE
