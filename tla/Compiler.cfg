SPECIFICATION Spec
CONSTANTS
  Words <- MCWords
  Sources <- MCSources
  LibPaths = 2
  Roots <- MCRoots
  Texts <- MCTexts
INVARIANTS
  TypeOK
  ExecutableIsCurrent
  LinkFailureHasCause
  AttachedIsNeighbour
PROPERTY
  SessionEnds
