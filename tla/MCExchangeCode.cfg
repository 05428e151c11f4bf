\* The code the phone shows cannot always be entered.
SPECIFICATION Spec
CONSTANTS
  MaxU32 = 1000000000
  MaxSize = 2000000000
  MaxSafe = 1000000000
  MaxSegments = 20
  MinMargin = 4194304
  FallbackBudget = 1500000
  MaxRetained = 1
  MaxResumeRanges = 2
  RangeBlobBytes = 4
  VarintBase = 2
  Files <- MCFiles
  Settings <- MCSettings
  Malformed = Malformed
  Window <- MCWindow
  Devices <- MCDevices
  MaxSessions = 1
  photo = photo
  retouched = retouched
SYMMETRY MCSymmetry
INVARIANTS
  CodeCanBeEntered
CHECK_DEADLOCK FALSE
