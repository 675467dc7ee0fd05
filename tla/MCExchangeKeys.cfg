CONSTANTS
  Blank = "blank"
  Cases <- MCCases
  Statuses = {200, 503, 99}
  MaxChunks = 2
  GridSize = 2
  Scale = 4
  Faces = 16
SPECIFICATION ExchangeSpec
CHECK_DEADLOCK FALSE
INVARIANT DifferentNeverMatch
