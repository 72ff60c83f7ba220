SPECIFICATION FairSpec
CONSTANTS
  Photos = {p1, p2}
  Sessions = {s1}
  p1 = p1
  p2 = p2
  s1 = s1
  None = None
  Faults = {"draft", "marks", "scan", "read"}
  LateGestures = FALSE
  Scans = TRUE
  MaxRevision = 2
  MaxStored = 3
  MaxGroup = 2
PROPERTY KeepsPromise
PROPERTY Autosaved
CHECK_DEADLOCK FALSE
