CONSTANTS
  N = 3
  DEBT_SLOT_CNT = 1
  USE_FAST = TRUE
  Ptrs = {p1, p2, p3}
  Null = Null
  Nullable = FALSE
  Storages = {s1, s2}
  InitPtrs <- OneEach
  HandleIds = {h1}
  Ops <- Two3_Ops
  MaxCalls <- Two3_Calls
  GenMod = 4
  NONE = NONE
  IDLE = IDLE
SYMMETRY Symmetry
SPECIFICATION Spec
CHECK_DEADLOCK FALSE
PROPERTIES LoadFresh
