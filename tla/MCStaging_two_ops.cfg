SPECIFICATION Spec
CONSTANTS
  m1 = m1  m2 = m2  m3 = m3  p1 = p1  p2 = p2
  Ops = {o1, o2}
  Groups = {p1}
  Members = {m1, m2}
  GroupOf <- OnePair
  Touchable = {m1}
  RaceWindow = TRUE
  None = None
PROPERTY UncertainIsOutOfReach
PROPERTY ImplementsDisposal
\* An operation that is over leaves nothing to do.
CHECK_DEADLOCK FALSE
