CONSTANTS
  Threads = {1, 2, 3}
  MaxNodes = 3
  GenMod = 8
  Ops <- Once_Ops
  MaxCalls <- Once_Calls
  MaxLives <- Once_Lives
  Late = {}
  NONE = NONE
  IDLE = IDLE
  REPLACEMENT = REPLACEMENT
SPECIFICATION Spec
CHECK_DEADLOCK FALSE
INVARIANTS UniqueOwner WalkComplete CooldownDrains HelpsSameTransaction StartsIdle
