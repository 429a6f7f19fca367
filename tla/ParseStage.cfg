SPECIFICATION Spec
CONSTANTS
  Class <- EightClasses
  Slab <- TwoSlabs
  Programs <- SmallPrograms
  MaxDepth = 9
INVARIANTS TypeOK SuccessIsSound CalleesFirst CrashHasCause FailureHasCause
PROPERTIES SoundProgramsParse
CHECK_DEADLOCK FALSE
