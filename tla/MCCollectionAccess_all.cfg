SPECIFICATION FairSpec
CONSTANTS
  a = a  b = b  d = d  e = e
  Instances = {a, b}
  Dirs = {d, e}
  None = None
  OpenFaults = {"first"}
  MaxScans <- Uneven
  MaxChanges = 1
INVARIANT OneWriter
PROPERTIES WriterKeepsInventory ScansEnd
CHECK_DEADLOCK FALSE
