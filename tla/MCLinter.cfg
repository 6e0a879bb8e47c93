CONSTANTS
  CheckerSeq <- MCCheckerSeq
  ChecksOf <- MCChecksOf
  NilChecks = {"SA3"}
  Places = {1, 2, 3, 4}
  FileOf <- MCFileOf
  LineOf <- MCLineOf
  Patterns = {"sa1", "sa2", "sa", "u1"}
  MatchedBy <- MCMatchedBy
  PrefixOf <- MCPrefixOf
  Prefix <- MCPrefix
  NoCheck = ""
  Sources <- MCSources
  Globs <- MCGlobs
  Commands <- MCCommands
  MaxProblems <- MCMaxProblems
SPECIFICATION Spec
INVARIANTS
  LintIsExact
  CleanExit
PROPERTIES
  WaitIsBarrier
  Terminates
