SPECIFICATION Spec
CONSTANTS
  None = None
  VersusSelections <- UpToFive
  WallSelections <- UpToThree
  MaxRevision = 5
INVARIANTS ContractKept DraftIsReadable BracketNeverStalls PlayedInRounds PanesShowTheMatch
PROPERTY TilePressedIsTileGone
