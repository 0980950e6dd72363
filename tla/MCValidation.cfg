SPECIFICATION Spec
CONSTANTS
  Headers <- MCHeaders
  Amounts <- MCAmounts
  Pieces <- MCPieces
  MinorUnit <- MCMinorUnit
  MaxPieces = 6
  None = None
INVARIANTS SoundIsOk OkIsReadSound
CHECK_DEADLOCK FALSE
