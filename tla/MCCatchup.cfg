SPECIFICATION CatchupSpec
CONSTANTS
  HalfSeq = 3
  AddrBits = 3
  Self = 1
  Nodes = {1, 2, 3, 6}
  Denied = {0}
  Adjacent = {6}
  Gateways = {}
  Nets = {}
  Qualities = {1}
  IfAddr <- MCIfAddr
  SeqWindow = 1
  AnsnWindow = 1
  SeqWindowMult = 1
  AnsnWindowMult = 2
  MaxIgnored = 1
  Orig = 6
  AdvSets <- OneEach
  PerMessage = 4
  FirstSeq = 2
  RestartSeqs = {}
  Reorders = FALSE
  Loses = TRUE
  Copies = 1
  MaxLag = 3
  MaxChanges = 2
  MaxSends = 0
  MaxLosses = 1
  MaxFlight = 1
  \* interfaces
  IfSetups <- MCIfSetups
INVARIANT InterfacesSound
PROPERTIES
  ViewCatchesUp
  InterfacesFollow
CHECK_DEADLOCK FALSE
