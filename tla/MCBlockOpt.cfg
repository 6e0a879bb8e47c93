CONSTANTS
  N = 4
  Nil = nil
  MaxCuts = 1
  Functions <- MCFunctions
SPECIFICATION Spec
INVARIANTS
  GraphIsConsistent
  StaleTreeIsSound
  BehaviourPreserved
PROPERTY
  Terminates
