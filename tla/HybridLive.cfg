CONSTANTS
  N = 2
  DEBT_SLOT_CNT = 0
  USE_FAST = FALSE
  Ptrs = {p1}
  Null = Null
  Nullable = TRUE
  Storages = {s1}
  InitPtrs <- OneEach
  HandleIds = {h1, h2}
  Ops <- Again_Ops
  MaxCalls <- Again_Calls
  GenMod = 4
  NONE = NONE
  IDLE = IDLE
SPECIFICATION Spec
CHECK_DEADLOCK FALSE
INVARIANTS AssertsHold
PROPERTIES ReadersWaitFree WritersFinishAlone LoadFresh
