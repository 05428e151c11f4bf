\* Two files of the same shape, one session a launch, two launches.
SPECIFICATION Spec
CONSTANTS
  K = 2
  RepairIds = {2}
  Neighbors <- MCNeighbors
  Files = {"a", "b"}
  Shape <- MCShape
  Label <- MCLabel
  Padding <- MCPadding
  MaxSeen = 3
  MaxUnsolved = 1
  LastSeq = 2
  MaxSessions = 2
  MaxWindows = 2
  MaxLaunches = 2
  MaxResets = 1
  MaxMounts = 2
  Uses = {"phone", "desktop", "loopback"}
  MaxTroubles = 1
INVARIANTS
  TypeOK
  VerdictsAreTrue
PROPERTY NothingOutlives
CHECK_DEADLOCK FALSE
