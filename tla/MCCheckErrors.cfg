CONSTANTS
  p = p
  q = q
  Compilers <- MCCompilers
  Piped = p
  Capacity = 4
  Outputs <- MCOutputs
  Old <- MCOld
  Block = 2
  PathDirs = 2
  MaxBytes = 5
  CheckCommands <- MCCheckCommands
  BuildCommands <- MCBuildCommands
  Environments <- MCEnvironments
  BuildJobs <- MCBuildJobs
SPECIFICATION Spec
INVARIANTS
  TypeOK
  ReadsWhole
  OutputIsOwn
  LeavesNoTemp
PROPERTIES
  ReturnsExactlyWhenItFits
CHECK_DEADLOCK FALSE
