SPECIFICATION Spec
CONSTANTS
  a = a  b = b  d = d  e = e
  Instances = {a, b}
  Dirs = {d, e}
  None = None
  OpenFaults = {}
  MaxScans <- Even
  MaxChanges = 0
PROPERTY ReadersStoreNothing
CHECK_DEADLOCK FALSE
