CONSTANTS
  N = 5
  NoBlock = NoBlock
  Cells = {1, 2}
  MaxLen = 6
  Data = {1, 2}
  Programs <- MCPrograms
SPECIFICATION FinishSpec
INVARIANTS
  DominatesIsRight
  FrontierIsRight
  LoopsAreNatural
  ValuesPreserved
  BookkeepingIsExact
