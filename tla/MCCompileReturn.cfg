SPECIFICATION Spec
CONSTANTS
  a = a
  Names <- MCNames
  NoName = NoName
  MaxWidth = 2
  Families <- MCReturns
INVARIANTS
  ReturnedIntact
CHECK_DEADLOCK FALSE
