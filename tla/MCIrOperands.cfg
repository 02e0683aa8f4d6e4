SPECIFICATION Spec
CONSTANTS
  x = x
  y = y
  z = z
  Names <- MCNames
  Addressed <- MCAddressed
  Parameter = x
  Kinds = {"block", "while", "return", "break", "read", "compute"}
  Shadowing = FALSE
  MaxNest = 6
  MaxSize = 6
  MaxWrites = 0
  Registers = 2
INVARIANT OperandsAreWritten
CHECK_DEADLOCK FALSE
