SPECIFICATION Spec
CONSTANTS
  NoTree = NoTree
  NoHash = NoHash
  OperatorLabels <- MCOperatorLabels
  ArgumentRoles <- MCArgumentRoles
  WordLength <- MCWordLength
  NameRatio <- MCNameRatio
  EditProductLimit = 120
  Statements <- MCStatements
  Facts <- MCFacts
  OperatorTwins <- MCOperatorTwins
  Signatures <- MCSignatures
  MaxStatements <- MCMaxStatements
INVARIANTS
  MeasuredExactly
  SkeletonCovers
  NoRelationLost
  OperatorChangeSeen
  EitherOrder
