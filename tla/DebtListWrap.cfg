CONSTANTS
  Threads = {1, 2}
  MaxNodes = 4
  GenMod = 2
  Ops <- Wrap_Ops
  MaxCalls <- Late_Calls
  MaxLives <- Wrap_Lives
  Late = {1, 2}
  NONE = NONE
  IDLE = IDLE
  REPLACEMENT = REPLACEMENT
SPECIFICATION Spec
CHECK_DEADLOCK FALSE
INVARIANTS TypeOK UniqueOwner ReservationCount
