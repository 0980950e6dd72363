SPECIFICATION Spec
CONSTANTS
  Written <- MCWritten
  Amounts <- MCAmounts
  MaxMantissa = 255
  MaxScale = 3
  MoneyScale = 2
  Limit = 1000
  Codes = {"20", "30"}
  Words = {"RENT"}
  MaxPieces = 5
INVARIANTS AngleMarkersSplit
CHECK_DEADLOCK FALSE
