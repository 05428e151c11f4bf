SPECIFICATION Spec
CONSTANTS
  \* Two selections, so that one can overtake the other.
  Selects = {1, 2}
  MayReopen = TRUE
INVARIANTS TypeOK SessionsAccountedFor
PROPERTY WaitingEnds
CHECK_DEADLOCK FALSE
