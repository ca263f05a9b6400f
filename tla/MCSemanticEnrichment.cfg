SPECIFICATION FairSpec
CONSTANTS
  Contents = {"both", "none"}
  Candidates <- MCCandidates
  Foreign = {9}
  MaxItems = 1
  Compilers = {ts}
  NoCompiler = NoCompiler
  None = None
  Modes = {"off", "project", "required"}
  LiveEdits = TRUE
  Reinstalls = TRUE
INVARIANTS RowsAnswer
PROPERTIES FailureLeavesNoTrace RunEnds
