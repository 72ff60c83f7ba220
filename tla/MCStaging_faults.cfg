SPECIFICATION FairSpec
CONSTANTS
  m1 = m1  m2 = m2  m3 = m3  p1 = p1  p2 = p2
  Ops = {o1}
  Groups = {p1, p2}
  Members = {m1, m2, m3}
  GroupOf <- PairAndSingle
  Touchable = {m1, m3}
  RaceWindow = FALSE
  None = None
INVARIANT TypeOK
INVARIANT NothingOverwritten
INVARIANT TrashedWhole
INVARIANT TrashedRecordIsTrue
INVARIANT CompletedIsComplete
INVARIANT JournalTrailsByOneRename
INVARIANT StagedFilesAreListed
PROPERTY TrashedIsFinal
PROPERTY EveryRunEnds
\* An operation that is over leaves nothing to do.
CHECK_DEADLOCK FALSE
