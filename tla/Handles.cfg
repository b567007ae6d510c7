SPECIFICATION Spec
CONSTANTS
  Modules <- MCModules
  Wide = 16
  MaxCalls = 5
  MaxStores = 2
  MaxLinkers = 1
  MaxEnvs = 2
  MaxInstances = 2
  MaxHandles = 1
  MaxDefs = 2
  MaxDepth = 2
INVARIANTS TypeOK HandlesNameTheirObject FinalizersRunOnce NamesMeanTheirLastDefinition TrapsCarryTheirMessage
CHECK_DEADLOCK FALSE
