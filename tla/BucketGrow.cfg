\* The bucket grows a second time, for the fifth channel.
SPECIFICATION Spec
CONSTANTS
  Items = {a, b, c, d, e}
  NULL = NULL
  Extra = 4
  Pointer = 8
  MaxSlots = 8
INVARIANT
  SlotsAllocated
