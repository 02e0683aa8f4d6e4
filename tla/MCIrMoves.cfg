SPECIFICATION Spec
CONSTANTS
  x = x
  y = y
  z = z
  Names <- MCNames
  Addressed <- MCAddressed
  Parameter = x
  Kinds = {"block", "while", "define", "assign", "read", "compute"}
  Shadowing = FALSE
  MaxNest = 6
  MaxSize = 6
  MaxWrites = 3
  Registers = 2
INVARIANT MovesAreParallel
CHECK_DEADLOCK FALSE
