SPECIFICATION Spec
CONSTANTS
  Programs <- MCPrograms
  IntBits = 5
  SmallBits = 3
  Inputs <- MCInputs
  NotYet = NotYet
INVARIANTS RangesHold NilBoundsNeverRead
PROPERTY LoopsMakeProgress
