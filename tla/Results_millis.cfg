SPECIFICATION ResultSpec
CONSTANTS
  None = None
  Cells <- MCCells
  RowCount = 2
  MaxIters = 1
  MaxSize = 2
  MaxDepth = 3
  MaxLost = 1
  MillisPerSecond = 14
  MicrosPerMilli = 10
  NanosPerMicro = 10
  DaySeconds = 24
  DateBias = 8388608
  Mantissa <- MCMantissa
  Fraction <- MCFraction
  Ulps <- MCUlps
INVARIANTS TimestampsReadBack
CHECK_DEADLOCK FALSE
