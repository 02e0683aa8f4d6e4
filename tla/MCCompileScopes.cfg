SPECIFICATION Spec
CONSTANTS
  a = a
  Names <- MCNames
  NoName = NoName
  MaxWidth = 1
  Families <- MCFamilies
INVARIANTS
  TypeOK
  Balanced
  LiveSlots
  JumpsBalanced
  LabelsAreLexical
CHECK_DEADLOCK FALSE
