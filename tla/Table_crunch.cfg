SPECIFICATION Spec
CONSTANTS
  NumRows = 4
  NumColumns = 1
  FieldWidth <- OneIntColumn
  IntWidth = 1
  CellValues = {a}
  Garbage = garbage
  GarbageInts <- GarbageIds
  Ids <- LowIds
  Statements <- InsertReadDeleteCrunch
PROPERTIES StrayOnlyWhenFull CrunchPacks CrunchKeepsElements
CHECK_DEADLOCK FALSE
