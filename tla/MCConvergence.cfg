SPECIFICATION ConvergenceSpec
CONSTANTS
  \* links
  Vtime = 4
  HoldTime = 2
  HelloInt = 2
  Jitter = 1
  \* flooding
  Routers = {1, 2, 3, 4, 5}
  Orig = 1
  Setups <- MCSetups
  BufferSize = 2
  \* uplinks
  HnaGroups <- MCHnaGroups
  PingGroups = {1}
INVARIANTS
  LinkSound
  FloodBounded
PROPERTIES
  LinksConverge
  AllInformed
  UplinkFollows
CHECK_DEADLOCK FALSE
