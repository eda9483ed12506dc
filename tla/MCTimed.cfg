SPECIFICATION TimedSpec
CONSTANTS
  \* timers
  TimerBlocks = {1, 2}
  TimerWheelSlots = 3
  ClockHalf = 9
  MaxGap = 2
  Rels = {3}
  JitterPct = 50
  \* sockets
  Descriptors = {3, 4}
  Directions = {"read"}
  MaxEntries = 3
  MaxSelects = 2
  \* gateways
  Gateways = {1, 2}
  GwConfigs <- MCGwConfigs
  GwCosts = {1}
  OtherNodes = 9
  GwStableCount = 1
  \* qualities
  PlcLinks = {1, 2}
  IfMode <- MCIfMode
  MainAddrLinks = {1, 2}
  LqWindow = 2
  QuickstartInit = 1
  PacketsPerTick = 1
  SeqDistances = {2, 3}
  SeqJump = 2
  NeighborHello = 1
  OwnHello = 1
  ForeignLqs = {255}
  AgedForeignLqs = {0, 25, 255}
  Adapters = {1}
  PlcRates = {100}
  AgedLinks = {1}
  LqAging = 3276
  QuickstartAging = 16383
  QuickstartSteps = 12
  LossesToBreak = 57
INVARIANTS
  LinkQualitySound
PROPERTIES
  TimersServe
  SocketsServed
  GatewayChosen
CHECK_DEADLOCK FALSE
