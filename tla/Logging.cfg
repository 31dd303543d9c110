\* Two goroutines, four calls, channels of one record, two old files, two
\* starts.
SPECIFICATION FairSpec
CONSTANTS
  Configurations <- MCConfigurations
  Goroutine = {g1, g2}
  Level <- MCLevel
  LogBufferLength = 1
  MaxOld = 2
  MaxCalls = 4
  MaxBoots = 2
  None = None
INVARIANTS
  TypeOK
  FileComplete
  LinesCounted
  DispatchComplete
PROPERTIES
  LogOnlyGrows
  LogCallReturns
CHECK_DEADLOCK FALSE
