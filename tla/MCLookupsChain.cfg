CONSTANTS
  Paths <- MCNumericPaths
  Sources <- MCNumericSources
  MaxDepth = 8
SPECIFICATION Spec
INVARIANT ChainsOfExpressions
