SPECIFICATION Spec
CONSTANTS
  a = a  b = b  d = d  e = e
  Instances = {a, b}
  Dirs = {d, e}
  None = None
  OpenFaults = {"later"}
  MaxScans <- Even
  MaxChanges = 0
INVARIANT OneWriter
CHECK_DEADLOCK FALSE
