SPECIFICATION FieldSpec
CONSTANTS
  Ibans <- MCIbans
  Fields <- MCFields
  MaxInt32 = 99
  MaxTokens = 4
INVARIANTS NeverPanics
CHECK_DEADLOCK FALSE
