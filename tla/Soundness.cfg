SPECIFICATION LoadSpec
CONSTANTS
  Scenes <- AllScenes
  Files <- AllFiles
  Digests <- MCDigests
  MaxCtrlDepth = 4
  MaxLocals = 8
INVARIANTS TypeOK SlotsReadAsWritten StackFitsItsTyping SubtypesStandIn NumbersAreRead PassesAgree AcceptedModulesAreWhole NoValueOfADisabledProposal RootPolicyHolds
CHECK_DEADLOCK FALSE
