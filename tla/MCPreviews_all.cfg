SPECIFICATION Spec
CONSTANTS
  c1 = c1  c2 = c2  m1 = m1  m2 = m2
  Canvases = {c1, c2}
  Members = {m1, m2}
  None = None
  Sizes = {"small", "large", "full"}
  Weight <- Grain
  Budget = 4
  Workers = 1
  Unreadable <- Broken
  Generations = {1, 2}
  PrefetchInFlight = 1
  MaxEvents = 2
  MaxVersion = 1
INVARIANTS PixelsAreOfTheSource CacheKeepsItsBudget NothingSeenIsForgotten
CHECK_DEADLOCK FALSE
