SPECIFICATION FairSpec
CONSTANTS
  r = r
  a = a
  b = b
  x = x
  y = y
  f = f
  Slabs <- ThreeSlabs
  Root = r
  NoSlab = null
  Aliases = {x, y}
  Names = {f}
  Files <- SmallFiles
INVARIANTS TypeOK CreatedOnce VerdictIsRight SuccessIsComplete
PROPERTIES ReturnsOrNoParser
CHECK_DEADLOCK FALSE
