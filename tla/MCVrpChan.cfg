SPECIFICATION Spec
CONSTANTS
  Programs <- ChannelLoops
  IntBits = 5
  SmallBits = 3
  Inputs <- MCInputs
  NotYet = NotYet
INVARIANTS UnbufferedIsUnbuffered
