SPECIFICATION Spec
CONSTANTS
  None = None
  VersusSelections <- OnlyThree
  WallSelections = {}
  MaxRevision = 3
PROPERTIES PanePressedIsPaneGone
