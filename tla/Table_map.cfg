SPECIFICATION Spec
CONSTANTS
  NumRows = 3
  NumColumns = 2
  FieldWidth <- TwoIntColumns
  IntWidth = 1
  CellValues = {a}
  Garbage = garbage
  GarbageInts <- GarbageIds
  Ids <- OneOutOfRange
  Statements <- AllButCrunch
INVARIANTS TypeOK UniqueIds
PROPERTIES ImplementsMap StatementsKeepPromise
CHECK_DEADLOCK FALSE
