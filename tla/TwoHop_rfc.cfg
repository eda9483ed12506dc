SPECIFICATION ReceivedSpec
CONSTANTS
  \* relays
  NbrOrder <- MCNbrOrder
  TwoHops <- MCTwoHops
  Coverage = 1
  LINK_COST_BROKEN = 6
  Hellos <- MCHellos
  LinkCosts = {1, 6}
  Wills <- MCWills
  MaxHellos = 3
  \* parts
  HalfSeq = 4
  AddrBits = 3
  Self = 1
  Nodes = {1, 2, 3, 4, 5, 6}
  Denied = {0}
  Adjacent = {6}
  Gateways = {}
  Nets = {}
  Qualities = {1}
  IfAddr <- MCIfAddr
  SeqWindow = 3
  AnsnWindow = 3
  SeqWindowMult = 1
  AnsnWindowMult = 1
  MaxIgnored = 8
  Orig = 6
  AdvSets <- PartSets
  PerMessage = 2
  FirstSeq = 6
  RestartSeqs = {1}
  Reorders = TRUE
  Loses = TRUE
  Copies = 2
  MaxLag = 3
  MaxChanges = 2
  MaxSends = 4
  MaxLosses = 0
  MaxFlight = 3
INVARIANT RfcCovers
CHECK_DEADLOCK FALSE
