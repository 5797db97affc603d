CONSTANTS
  N = 2
  DEBT_SLOT_CNT = 0
  USE_FAST = TRUE
  Ptrs = {p1}
  Null = Null
  Nullable = TRUE
  Storages = {s1}
  InitPtrs <- OneEach
  HandleIds = {h1}
  Ops <- Live_Ops
  MaxCalls <- Live_Calls
  GenMod = 4
  NONE = NONE
  IDLE = IDLE
SPECIFICATION FairSpec
CHECK_DEADLOCK FALSE
PROPERTIES WritersFinish
