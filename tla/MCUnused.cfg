CONSTANTS
  None = none
  Programs <- MCPrograms
SPECIFICATION Spec
INVARIANTS
  ReportIsExact
  ReportedCanGo
