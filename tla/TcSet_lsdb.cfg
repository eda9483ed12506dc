SPECIFICATION Spec
CONSTANTS
  HalfSeq = 4
  AddrBits = 3
  Self = 1
  Nodes = {1, 2, 3}
  Denied = {0}
  Adjacent = {2}
  Gateways = {3}
  Nets = {100}
  Qualities = {1}
  IfAddr <- PlainIfAddr
  SeqWindow = 1
  AnsnWindow = 1
  SeqWindowMult = 2
  AnsnWindowMult = 2
  MaxIgnored = 1
  Numbers <- TwoNumbers
  Borders <- ClosedOrOpen
  Lists <- SomeLists
INVARIANTS LsdbConsistent
PROPERTY ChangesFlagged
