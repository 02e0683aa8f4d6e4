SPECIFICATION Spec
CONSTANTS
  x = x
  y = y
  z = z
  Names <- MCNames
  Addressed <- MCAddressed
  Parameter = x
  Kinds = {"block", "if", "while", "define", "assign", "return", "break", "continue", "read", "nested"}
  Shadowing = TRUE
  MaxNest = 6
  MaxSize = 6
  MaxWrites = 3
  Registers = 2
INVARIANT LookupsAreLexical
CHECK_DEADLOCK FALSE
