SPECIFICATION FairSpec
CONSTANTS
  p = p
  q = q
  Segments = {1, 2}
  Plans = {p, q}
  Size <- SameSize
  Compressed = {q}
  MaxOpens = 2
  MaxCrashes = 1
  ResumeFlags = {TRUE}
  Overlap = FALSE
  Faults = {"create", "truncate", "reserve", "checkpoint", "write", "sink", "read", "hash"}
  Zero = Zero
  Torn = Torn
  NoPlan = NoPlan
CHECK_DEADLOCK FALSE
INVARIANTS TypeOK ResumeIsTrue NothingHeldAfterwards EndsAsTold
PROPERTIES ResumePointStays EveryCallEnds
