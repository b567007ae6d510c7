SPECIFICATION Spec
CONSTANTS
  Modules <- FailingModules
  Types <- MCTypes
  SubType <- MCSubType
  SigOf <- MCSigOf
  MaxInstances = 3
  MaxMemoryPages = 1
  MaxTableElems = 3
  MaxGcObjects = 2
  MaxCallDepth = 2
  PageCap = 4
  Operands = {0, 1}
INVARIANTS
  TypeOK
  ReferencesAreLive
  ObjectsKnowTheirModule
  LimitsHold
PROPERTIES
  NothingIsTakenBack
CHECK_DEADLOCK FALSE
