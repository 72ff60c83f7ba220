SPECIFICATION FairSpec
CONSTANTS
  r1 = r1  r2 = r2
  Photos = {1, 2}
  Raws = {2}
  Drawn = {r1, r2}
  Whole = Whole
  None = None
  MaxPending = 2
INVARIANT RememberedIsWritten
PROPERTIES ClosesInformed SequenceEnds
