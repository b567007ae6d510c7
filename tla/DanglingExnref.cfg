SPECIFICATION Spec
CONSTANTS
  Programs <- TwoExports
  MaxCallDepth = 3
  MaxIterations = 2
  MaxExnBoxes = 1
INVARIANTS ExnrefsAreInRange
CHECK_DEADLOCK FALSE
