SPECIFICATION JointSpec
CONSTANTS
  None = None
  Unset = Unset
  Varied <- MCVaried
  Profiles <- MCProfiles
  MaxCalls = 1
  Cells <- MCCells
  RowCount = 2
  MaxIters = 1
  MaxSize = 2
  MaxDepth = 3
  MaxLost = 1
  MillisPerSecond = 14
  MicrosPerMilli = 10
  NanosPerMicro = 10
  DaySeconds = 24
  DateBias = 8388608
  Mantissa <- MCMantissa
  Fraction <- MCFraction
  Ulps <- MCUlps
  Contents <- MCKeyspaces
  Metas = {m1, m2}
  MaxVersions = 2
CHECK_DEADLOCK FALSE
INVARIANTS
  InForce
  NamesForIdentity
  ObjectsGivenBack
  RowsAlive
  ReadsOwnRow
  DecodersAccounted
  ReadsBack
  TimestampLossBounded
  OneSnapshot
  FindsWhatItNeeds
  Recreates
PROPERTIES
  RaisesChangeNothing
