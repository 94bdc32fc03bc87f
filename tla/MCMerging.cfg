CONSTANTS
  Sources <- MCSources
  KeyOrder <- MCKeyOrder
SPECIFICATION Spec
INVARIANTS TypeOK PendingMapsKept MergedRight ResultRight RefusedRight
