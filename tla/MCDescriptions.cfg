CONSTANTS
  a = a
  b = b
  c = c
  Funcs = {a, b, c}
  Jobs = {t1, t2}
  NoJob = NoJob
  Effect = Effect
  MaxGets = 1
  Programs <- MCPrograms
SPECIFICATION Spec
INVARIANTS
  SingleWriter
  WaitsDescend
  GetIsDeterministic
PROPERTIES
  CallGraphFrozen
  PublishedIsFinal
  GetReturns
