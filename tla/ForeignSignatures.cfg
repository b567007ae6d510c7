SPECIFICATION Spec
CONSTANTS
  Modules <- SpellingModules
  Types <- MCTypes
  SubType <- MCSubType
  SigOf <- MCSigOf
  MaxInstances = 3
  MaxMemoryPages = 1
  MaxTableElems = 3
  MaxGcObjects = 2
  MaxCallDepth = 3
  PageCap = 4
  Operands = {0, 1}
INVARIANT
  CalleesHaveTheCallersType
CHECK_DEADLOCK FALSE
