CONSTANTS
  Threads = {1, 2}
  Roles <- ClientRoles
  Ptrs = {p1, p2, p3, p4, p5}
  Null = Null
  NONE = NONE
  Fields = {"a", "b"}
  Nullable = TRUE
  Ops <- Client_Ops
  MaxCalls <- Client_Calls
  Accesses <- Some_Accesses
SPECIFICATION ClientSpec
CHECK_DEADLOCK FALSE
INVARIANTS RcuOnce RcuLockFree CacheFresh GuardStable
SYMMETRY Symmetry
