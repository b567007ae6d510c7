SPECIFICATION Spec
CONSTANTS
  Scenes <- ExactFieldScenes
  MaxCtrlDepth = 4
INVARIANTS NoWriteLandsInANarrowerField
CHECK_DEADLOCK FALSE
