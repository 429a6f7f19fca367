SPECIFICATION Spec
CONSTANTS
  Types <- MCTypes
  Def <- MCDef
  Depth <- MCDepth
  Literal <- MCLiteral
  Counts = {1, 2}
  MaxVariables = 2
  Strangers = {"Pair"}
INVARIANTS
  StackedVectorsHaveArrays
CHECK_DEADLOCK FALSE
