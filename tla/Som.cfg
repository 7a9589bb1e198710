SPECIFICATION Spec
CONSTANTS
  Clients = {c1, c2}
  Blocks = {1, 2}
  Names = {ld, lib}
  Loader = ld
  MaxSlots = 3
  Settings <- MCSettings
  NULL = NULL
SYMMETRY Symmetry
INVARIANTS ManagerInv LibrariesInv
PROPERTY KeptIdle
CHECK_DEADLOCK FALSE
