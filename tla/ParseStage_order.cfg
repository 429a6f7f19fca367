SPECIFICATION Spec
CONSTANTS
  Class <- EightClasses
  Slab <- TwoSlabs
  Programs <- SmallPrograms
  MaxDepth = 9
INVARIANTS MembersAreFound
CHECK_DEADLOCK FALSE
