SPECIFICATION Spec
CONSTANTS
  a1 = a1
  a2 = a2
  net = net
  none = none
  Originators = {1, 2}
  Dsts <- MCDsts
  Advertised <- MCAdvertised
  DefaultDst = net
  Results <- MCResults
  Topologies <- MCTopologies
  NoRoute = none
  NatNum = 1
  NatDen = 2
  Setups <- MCSetups
INVARIANT SettledIsCurrent
CHECK_DEADLOCK FALSE
