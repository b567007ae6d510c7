SPECIFICATION Spec
CONSTANTS
  Programs <- TailCaller
  MaxCallDepth = 3
  MaxIterations = 2
  MaxExnBoxes = 1
INVARIANTS TrapsLeaveABacktrace
CHECK_DEADLOCK FALSE
