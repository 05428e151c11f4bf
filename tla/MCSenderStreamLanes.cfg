SPECIFICATION FairSpec
CONSTANTS
  RecordLength <- MCRecordLength
  Lanes = 2
  SegmentCount = 3
  SymbolsPerSegment = 2
  RepairPerSegment = 0
  ManifestInterval = 4
  Capacity = 2
  Prefetch = 1
  Compressions = {FALSE}
  MaxFaults = 0
PROPERTY KeepsShowing
CHECK_DEADLOCK FALSE
