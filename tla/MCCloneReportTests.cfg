SPECIFICATION Spec
CONSTANTS
  NoTree = NoTree
  NoHash = NoHash
  OperatorLabels <- MCOperatorLabels
  ArgumentRoles <- MCArgumentRoles
  WordLength <- MCWordLength
  NameRatio <- MCNameRatio
  EditProductLimit = 400
  Facts <- MCFacts
  Functions <- MCFunctions
  Signatures <- MCSignatures
  Bodies <- MCBodies
  CallParts <- MCCallParts
  Limits <- MCLimits
  SplitTest = TRUE
  Paths <- MCPaths
  PytestPaths = {}
  PytestWords = {}
  StopTokens <- MCStopTokens
  BoundaryTokens <- MCBoundaryTokens
  MaxFunctions = 5
INVARIANT
  TestsStayApart
