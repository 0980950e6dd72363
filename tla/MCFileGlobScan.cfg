SPECIFICATION Spec
CONSTANTS
  Files <- MCFiles
  Texts <- MCTexts
  MessageLike = {3}
  TextsWithRows = {0, 3}
  TokensIntact = TRUE
  MaxFsChanges = 2
  MaxLost = 2
  None = None
INVARIANTS InScanOrder NoFileDropped
PROPERTIES TokenAdvances ImplementsContract ScanEnds
CHECK_DEADLOCK FALSE
