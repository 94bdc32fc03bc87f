CONSTANTS
  Sources <- MCSources
  Files <- MCFiles
  VarOrder <- MCVarOrder
  Prefix <- MCPrefix
  MaxDepth = 16
SPECIFICATION Spec
INVARIANTS TypeOK ProtosKept InstancesApart InstancesRight ExceptionsReal
