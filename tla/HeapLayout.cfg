SPECIFICATION Spec
CONSTANTS
  Types <- MCTypes
  Def <- MCDef
  Depth <- MCDepth
  Literal <- MCLiteral
  Counts = {1, 2}
  MaxVariables = 2
  Strangers = {"Pair"}
INVARIANTS
  TypeOK
  
  OnlyHandlesLeak
  EachItsOwnArray
CHECK_DEADLOCK FALSE
