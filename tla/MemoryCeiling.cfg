SPECIFICATION Spec
CONSTANTS
  Modules <- MemoryModules
  Types <- MCTypes
  SubType <- MCSubType
  SigOf <- MCSigOf
  MaxInstances = 2
  MaxMemoryPages = 2
  MaxTableElems = 1
  MaxGcObjects = 2
  MaxCallDepth = 2
  PageCap = 4
  Operands = {1}
INVARIANT MemoryCeilingIsPerInstance
CHECK_DEADLOCK FALSE
