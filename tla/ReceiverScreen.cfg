SPECIFICATION FairSpec
CONSTANTS
  MaxInFlight = 1
  MaxEpoch = 3
  MaxExports = 2
CHECK_DEADLOCK FALSE
INVARIANTS TypeOK SessionSound ScreenSound
PROPERTIES FileIsKept SessionsEnd
