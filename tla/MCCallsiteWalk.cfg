SPECIFICATION Spec
CONSTANTS
  Names <- MCNames
  LastName <- MCLastName
  Unresolved = {"?.h"}
  Factories = {"make", "build"}
  CacheNames = {"cache"}
  CacheMethods = {"cache.set"}
  PipelineNames = {"xs.map", "map"}
  RegisterNames = {"app.on", "on"}
  NoName = "no-name"
  Languages = {"python", "ecmascript"}
  Calls <- MCCalls
  Statements <- MCStatements
  MaxStatements = 4
  MaxDepth = 2
INVARIANTS
  ScopesLexical
  CallsCounted
  EvidenceReal
CHECK_DEADLOCK FALSE
