CONSTANTS
  Threads = {1, 2, 3}
  MaxNodes = 3
  GenMod = 8
  Ops <- Once_Ops
  MaxCalls <- Again_Calls
  MaxLives <- Again_Lives
  Late = {}
  NONE = NONE
  IDLE = IDLE
  REPLACEMENT = REPLACEMENT
SPECIFICATION Spec
CHECK_DEADLOCK FALSE
INVARIANTS HelpsSameTransaction
