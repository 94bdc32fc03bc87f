CONSTANTS
  Sources <- SharedList
  Files <- MCFiles
  VarOrder <- MCVarOrder
  Prefix <- MCPrefix
  MaxDepth = 16
SPECIFICATION Spec
INVARIANT ProtosKept
