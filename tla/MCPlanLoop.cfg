SPECIFICATION Spec
CONSTANTS
  a = a
  b = b
  x = x
  y = y
  Absent = Absent
  None = None
  Paths <- MCPaths
  Snippets <- MCSnippets
  Trees <- MCTrees
  Patches <- MCPatches
  MaxRounds = 3
  MaxUserEdits = 1
INVARIANTS
  TypeOK
  PatchLostOnlyPastDeveloper
  DoneIsTested
PROPERTIES
  WrittenIsReviewed
  CheckedIsWritten
  CappedPlanEnds
CHECK_DEADLOCK FALSE
