\* Three objects are constructed and destroyed in any order, and any step may fail.
\* The program ends when all are gone.
SPECIFICATION Spec
CONSTANTS
  Objects = {a, b, c}
  Flavours = {"alsa", "embedded"}
  NULL = NULL
INVARIANTS
  TypeOK
  ApiWhileUsed
  UpExactly
  FreedOnce
CHECK_DEADLOCK FALSE
