SPECIFICATION FieldSpec
CONSTANTS
  Ibans <- MCIbans
  Fields <- MCFields
  MaxInt32 = 99
  MaxTokens = 4
INVARIANTS
  ChecksTheNumber SlipsAreFound
  WholeFieldsRead CutOffInventsNothing AsciiNeverPanics PartyLosesNothing
  ReadAccountIsChecked EndToEndOfItsMarker
CHECK_DEADLOCK FALSE
