SPECIFICATION Spec
CONSTANTS
  Operators = {1, 3, 4, 5}
  TermTypes = {"INT", "FLOAT", "TRUTH"}
  MaxOperators = 4
  MaxBuilds = 3
INVARIANTS TypeOK KeepsOrder NeighboursGrouped NumbersTyped BuildsSettle
CHECK_DEADLOCK FALSE
