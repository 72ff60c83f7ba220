SPECIFICATION Spec
CONSTANTS
  Files <- Names
  Stem <- StemOf
  Role <- RoleOf
  Folded <- Lower
  None = None
  Symlinks = {}
  SidecarsEnabled = FALSE
  Touchable <- Disturbed
  MaxChanges = 2
INVARIANT OperableAreApart
PROPERTY MovesWhatWasMeant
CHECK_DEADLOCK FALSE
