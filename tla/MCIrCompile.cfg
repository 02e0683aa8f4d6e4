SPECIFICATION Spec
CONSTANTS
  Width = 12
  Homes = {"r8", "r12"}
  Data <- MCData
  Kinds <- MCKinds
  Beyond = {}
INVARIANTS
  TypeOK
  ValueArrives
  OthersUntouched
  CallerKeeps
  TextIsEncodable
CHECK_DEADLOCK FALSE
