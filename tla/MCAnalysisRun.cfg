SPECIFICATION FairSpec
CONSTANTS
  a1 = a1
  a2 = a2
  c1 = c1
  readme = readme
  agent = agent
  bundle = bundle
  raw = raw
  k1 = k1
  Analyzers = {a1, a2}
  Clearers = {c1}
  Public = {readme, agent}
  Bundle = bundle
  Internal = {raw}
  Directories = {agent, raw}
  WriteOrder <- MCWriteOrder
  PublishOrder <- MCPublishOrder
  Keys = {k1}
  MaxRuns = 2
  None = None
  Absent = Absent
  Torn = Torn
  Spoilt = Spoilt
INVARIANTS MutualExclusion ReportsWhole UnpublishedLeavesReports
PROPERTIES ImplementsSerialCommands LocksAreFreed
