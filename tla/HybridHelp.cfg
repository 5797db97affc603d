CONSTANTS
  N = 3
  DEBT_SLOT_CNT = 0
  USE_FAST = FALSE
  Ptrs = {p1, p2, p3, p4}
  Null = Null
  Nullable = FALSE
  Storages = {s1, s2}
  InitPtrs <- OneEach
  HandleIds = {h1}
  Ops <- Help_Ops
  MaxCalls <- Help_Calls
  GenMod = 0
  NONE = NONE
  IDLE = IDLE
SYMMETRY Symmetry
SPECIFICATION Spec
CHECK_DEADLOCK FALSE
INVARIANTS TypeOK Conservation NoDangling EnvelopeExclusive
PROPERTIES LoadFresh
