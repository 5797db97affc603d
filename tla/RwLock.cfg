CONSTANTS
  N = 3
  Types <- All_Types
  Ptrs = {p1, p2}
  Null = Null
  NONE = NONE
  Ops <- RwLock_Ops
  MaxCalls <- RwLock_Calls
SPECIFICATION Spec
CHECK_DEADLOCK FALSE
INVARIANT TypeOK
PROPERTIES Implements CallsReturn
