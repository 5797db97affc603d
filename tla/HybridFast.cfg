CONSTANTS
  N = 2
  DEBT_SLOT_CNT = 1
  USE_FAST = TRUE
  Ptrs = {p1, p2, p3}
  Null = Null
  Nullable = FALSE
  Storages = {s1}
  InitPtrs <- OneEach
  HandleIds = {h1, h2}
  Ops <- Fast_Ops
  MaxCalls <- Fast_Calls
  GenMod = 0
  NONE = NONE
  IDLE = IDLE
SYMMETRY Symmetry
SPECIFICATION Spec
CHECK_DEADLOCK FALSE
INVARIANTS Conservation NoDangling
PROPERTIES LoadFresh
