SPECIFICATION FairSpec
CONSTANTS
  RecordLength <- MCRecordLength
  Lanes = 1
  SegmentCount = 3
  SymbolsPerSegment = 2
  RepairPerSegment = 1
  ManifestInterval = 4
  Capacity = 3
  Prefetch = 3
  Compressions = {TRUE, FALSE}
  MaxFaults = 2
INVARIANT TypeOK
INVARIANT ShownIsRight
PROPERTY KeepsShowing
PROPERTY ControlsAreObeyed
CHECK_DEADLOCK FALSE
