SPECIFICATION Spec
CONSTANTS
  Nodes <- MCNodes
  Fuel = 12
  InitialTrees <- MCTrees
  Grants <- MCGrants
  GuestCalls <- MCCalls
  MaxData = 3
  MaxFd = 7
  SymlinkMax = 3
  Stdin <- MCStdin
INVARIANTS TypeOK RightsWithinCeiling WalksStayBeneath StdinIsConsumedOnceDelivered
PROPERTIES RefusedCallsChangeNothing AppendNeverOverwrites CallsReturn RefinesCapabilities
CHECK_DEADLOCK FALSE
