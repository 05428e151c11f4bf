SPECIFICATION Spec
CONSTANTS
  K = 2
  RepairIds <- MCRepairIds
  Neighbors <- MCNeighbors
  SegmentCount = 3
  RepairPerSegment = 1
  ManifestInterval = 5
  MaxResumeRanges = 1
  DedupeCapacity = 2
  MaxActiveSegments = 1
  MaxPendingEquations = 1
  MaxPendingNeighborRefs = 8
  MaxSenderSessions = 2
  MaxReceiverSessions = 2
CHECK_DEADLOCK FALSE
INVARIANTS TypeOK CompletionIsReal ResumeSkipsNothing
PROPERTY RecoveryWorks
