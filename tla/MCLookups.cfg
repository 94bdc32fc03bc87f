CONSTANTS
  Paths <- MCPaths
  Sources <- MCSources
  MaxDepth = 8
SPECIFICATION FairSpec
INVARIANTS TypeOK ResolvedRight CycleIsReal MissingKeyIsReal RecursionEnds ListsHomogeneous
PROPERTIES EvaluationSucceeds Terminates
