CONSTANTS
  Sources <- BracedVariable
  Files <- MCFiles
  VarOrder <- MCVarOrder
  Prefix <- MCPrefix
  MaxDepth = 16
SPECIFICATION Spec
INVARIANT ExceptionsReal
