CONSTANTS
  HeapSize = 10
  HSize = 1
  FSize = 1
  MaxHoles = 2
  Sizes = {0, 1, 3}
  Words <- MCWords
SPECIFICATION Spec
INVARIANTS
  TypeOK
  TagsIntact
  Tiling
  NoAdjacentHoles
  FreeRunsAreHoles
  AbortsOnlyWhenIndexFull
PROPERTIES
  ImplementsAllocator
CHECK_DEADLOCK FALSE
