SPECIFICATION OutSpec
CONSTANTS
  OutConfigs <- MCOutConfigs
  OutMax <- MCOutMax
  OutTables <- MCOutTables
  ForwardSizes = {12, 20}
INVARIANT HelloNeverExits
CHECK_DEADLOCK FALSE
