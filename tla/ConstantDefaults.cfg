SPECIFICATION Spec
CONSTANTS
  Scenes <- DefaultedScenes
  MaxCtrlDepth = 4
INVARIANTS ConstantsAreTypedAsInBodies
CHECK_DEADLOCK FALSE
