SPECIFICATION Spec
CONSTANTS
  Photos = {p1, p2}
  Sessions = {s1, s2}
  p1 = p1
  p2 = p2
  s1 = s1
  s2 = s2
  None = None
  Faults = {"draft", "delete", "marks", "commit", "read"}
  LateGestures = TRUE
  Scans = FALSE
  MaxRevision = 2
  MaxStored = 4
  MaxGroup = 1
SYMMETRY Symmetry
INVARIANT TypeOK
INVARIANT SavedIsStored
 
INVARIANT MarksWereDecided
INVARIANT BlockedHasNoHistory
INVARIANT NothingOutlives
INVARIANT PendingIsOneFinish
INVARIANT DraftIsOnItsStack
PROPERTY UnmarkWaitsForSession
PROPERTY KeepsPromise
CHECK_DEADLOCK FALSE
