SPECIFICATION Spec
CONSTANTS
  MaxTokens = 6
INVARIANTS
  TypeOK
  BlocksTerminated
  VerifiedWhenTidy
  ReadsLiveStorage
  OneStorePerDeclaration
  StackGivenBack
PROPERTIES
  ImplementsSource
  KeepsPerforming
CHECK_DEADLOCK FALSE
