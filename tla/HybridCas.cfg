CONSTANTS
  N = 2
  DEBT_SLOT_CNT = 1
  USE_FAST = TRUE
  Ptrs = {p1, p2}
  Null = Null
  Nullable = TRUE
  Storages = {s1}
  InitPtrs <- OneEach
  HandleIds = {h1}
  Ops <- Cas_Ops
  MaxCalls <- Cas_Calls
  GenMod = 4
  NONE = NONE
  IDLE = IDLE
SYMMETRY Symmetry
SPECIFICATION Spec
CHECK_DEADLOCK FALSE
INVARIANTS Conservation NoDangling
PROPERTIES LoadFresh
