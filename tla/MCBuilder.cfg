SPECIFICATION Spec
CONSTANTS
  Translation <- MCTranslation
  Meaning <- MCMeaning
  Programs <- MCPrograms
  MaxAnswers = 6
  MaxQuiet = 8
  MaxLoops = 20
INVARIANTS
  BuiltCodeIsTheSource
  BuiltCodeIsSane
  SuggestionsKeepBehaviour
CHECK_DEADLOCK FALSE
