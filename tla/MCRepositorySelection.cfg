SPECIFICATION Spec
CONSTANTS
  Texts <- MCTexts
  Globs <- MCGlobs
  Spanning <- MCSpanning
  Accepts <- MCAccepts
  Wrong = Wrong
  Outside = Outside
  None = None
  Sites <- MCSites
  Contents <- MCContents
  Analysed <- MCAnalysed
  Unsupported <- MCUnsupported
  Layers <- MCLayers
  Ignores <- MCIgnores
  GitIgnores <- MCGitIgnores
  Options <- MCOptions
  MaxDeviations = 3
INVARIANTS ExplainAgrees OnlyMatchedSkipped ExcludedStaysOut DoctorForetells CompleteMeansCovered
