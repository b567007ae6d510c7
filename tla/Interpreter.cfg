SPECIFICATION Spec
CONSTANTS
  Programs <- AllPrograms
  MaxCallDepth = 4
  MaxIterations = 3
  MaxExnBoxes = 1
INVARIANTS TypeOK LabelsMatchTheText NoInternalTrap CaughtErrorsLeaveNothing DepthCountsActiveCalls TablesPairOpeners
PROPERTIES ExceptionsLandWhereTheTextSays HandlersFindTheirOperands InvocationsEnd
CHECK_DEADLOCK FALSE
