CONSTANTS
  Operations = {"-", "*", "+", "not", "and"}
  MaxTokens = 8
SPECIFICATION Spec
INVARIANTS
  TypeOK
  TreesFollowTable
  RejectsOnlyErrors
CHECK_DEADLOCK FALSE
