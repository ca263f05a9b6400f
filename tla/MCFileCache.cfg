SPECIFICATION Spec
CONSTANTS
  py = py
  ts = ts
  old = old
  new = new
  bad = bad
  Files = {py, ts}
  Order <- MCOrder
  Versions = {old, new, bad}
  Broken = {bad}
  PolicyFiles = {py}
  Clock = "fine"
  MaxEdits = 2
  MaxRuns = 2
  Gone = Gone
  None = None
INVARIANTS CacheSound
PROPERTIES ImplementsUncached
SYMMETRY Interchangeable
CHECK_DEADLOCK FALSE
