SPECIFICATION PluginsSpec
CONSTANTS
  \* zebra
  ZebraDsts = {1, 2}
  ZebraPrefixes = {1}
  MaxSessions = 2
  MaxInbox = 2
  \* names
  Announcers = {1, 2}
  NameSetups <- MCNameSetups
  NAMESERVER_COUNT = 2
  MaxNames = 2
  \* sockets
  BmfSetups <- MCBmfSetups
  MaxRestarts = 3
  \* clients and viewers
  TxtClients = {1, 2}
  TxtSetups <- MCTxtSetups
  TxtTables <- MCTxtTables
  Viewers = {1, 2}
  ForeignViewers = {}
  GraphTables <- MCGraphTables
  MaxGraphChanges = 2
  \* front end
  FrontEnds = {1, 2}
  ForeignFrontEnds = {2}
  FeDests = {1, 2}
  FeGateways = {1}
  BuffWords = 5
  RouteWords = 3
  NetWords = 2
  OlsrWords = {1}
  MaxFeMessages = 5
  GuiAddresses = {1, 2, 3}
  GuiMain = 1
  GuiMessages <- MCGuiMessages
  MAXPACKS = 2
  SweepDelay = 1
  MaxGuiTime = 2
INVARIANTS
  ZebraInSync
  NamesFollow
  BmfRestartsCleanly
  ViewsInStep
CHECK_DEADLOCK FALSE
