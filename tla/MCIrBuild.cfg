SPECIFICATION Spec
CONSTANTS
  x = x
  y = y
  z = z
  Names <- MCNames
  Addressed <- MCAddressed
  Parameter = x
  Kinds = {"block", "if", "while", "define", "assign", "return", "break", "continue", "read", "compute"}
  Shadowing = FALSE
  MaxNest = 6
  MaxSize = 6
  MaxWrites = 3
  Registers = 2
INVARIANTS
  TypeOK
  LookupsAreLexical
  VariablesFlow
  
CHECK_DEADLOCK FALSE
