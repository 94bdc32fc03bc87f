CONSTANTS
  Values <- MCValues
  Operands <- MCNumbers
  NoValue <- MCNoValue
  f <- MCf
  Discarded = 100
  MaxTokens = 9
SPECIFICATION Spec
INVARIANTS TypeOK AssertionsHold OperatorsOrdered ResultRight
