SPECIFICATION Spec
CONSTANTS
  K = 4
  RepairIds <- FourBlockRepairs
  Neighbors <- FourBlockNeighbors
  MaxPendingEquations = 3
  MaxPendingNeighborRefs = 6
  MaxTrackedRepairIds = 2
INVARIANTS TypeOK EquationsSound CapsCostNothingElse
PROPERTIES KeepsPromise RippleEnds
