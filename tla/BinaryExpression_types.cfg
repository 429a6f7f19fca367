SPECIFICATION Spec
CONSTANTS
  Operators = {1, 5}
  TermTypes = {"INT"}
  MaxOperators = 3
  MaxBuilds = 1
INVARIANT OperandsMatch
CHECK_DEADLOCK FALSE
