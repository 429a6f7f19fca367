SPECIFICATION Spec
CONSTANTS
  NumRows = 3
  NumColumns = 1
  FieldWidth <- OneIntColumn
  IntWidth = 1
  CellValues = {a, b}
  Garbage = garbage
  GarbageInts <- GarbageIds
  Ids <- InRange
  Statements <- AllStatements
PROPERTIES CrunchMovesRows
CHECK_DEADLOCK FALSE
