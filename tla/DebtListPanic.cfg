CONSTANTS
  Threads = {1, 2}
  MaxNodes = 3
  GenMod = 2
  Ops <- Wrap_Ops
  MaxCalls <- Wrap_Calls
  MaxLives <- Wrap_Lives
  Late = {}
  NONE = NONE
  IDLE = IDLE
  REPLACEMENT = REPLACEMENT
SPECIFICATION Spec
CHECK_DEADLOCK FALSE
INVARIANTS NoPanic
