SPECIFICATION Spec
CONSTANTS
  AssessmentPolicy <- DefaultThresholds
  DetectionPolicy <- DefaultDetection
  FitPolicy <- DefaultFit
  PayoffPolicy <- DefaultPayoff
  SemanticRoleCapPolicy <- DefaultSemanticCaps
  SemanticEvidencePolicy <- DefaultSemanticEvidence
  RelationEvidencePolicy <- DefaultRelationEvidence
  StructuralPolicy <- DefaultStructural
  PairPolicy <- DefaultPair
  RelationAssessmentPolicy <- DefaultRelationAssessment
  BlockPolicy <- DefaultBlock
  Member <- MCMember
  PytestPaths = {}
  PytestWords = {}
  Symbols <- MCSymbols
  Literals <- MCLiterals
  DriftMinOverlap = 5000
  Definitions <- MCDefinitions
  Layouts <- MCLayouts
  Bodies <- MCBodies
  Runs <- MCRuns
  Compare <- MCCompare
  Answers <- MCAnswers
  Asked <- MCAsked
INVARIANTS EveryTargetRepresented DuplicatesReported EditsSpareRequiredSurface DivergentClonesStay ConstantsAgree
PROPERTIES DoubtAddsNoEdit
CHECK_DEADLOCK FALSE
