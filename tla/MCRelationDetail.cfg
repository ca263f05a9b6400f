SPECIFICATION Spec
CONSTANTS
  py = py
  ts = ts
  js = js
  old = old
  new = new
  Files = {py, ts, js}
  Python = {py}
  Pairs <- MCPairs
  Versions = {old, new}
  Gone = Gone
  Empty = Empty
  Bare = Bare
  None = None
  MaxEdits = 2
  MaxRuns = 2
INVARIANTS NothingMixed UnracedExact
PROPERTIES OneDetailPerRun
CHECK_DEADLOCK FALSE
