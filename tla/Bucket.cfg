\* Five channels compete for the slots of a bucket that has grown once.
SPECIFICATION Spec
CONSTANTS
  Items = {a, b, c, d, e}
  NULL = NULL
  Extra = 4
  Pointer = 8
  MaxSlots = 4
INVARIANTS
  TypeOK
  ViewExact
CHECK_DEADLOCK TRUE
