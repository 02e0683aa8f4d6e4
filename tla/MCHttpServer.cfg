CONSTANTS
  MaxConnections = 2
  Conns <- MCConns
  c1 = c1
  c2 = c2
  c3 = c3
  FdLimit = 3
  Requests = {"whole", "gone", "noLength", "cutShort", "exits", "hangs"}
  ForkMayFail = TRUE
  NoConn = NoConn
SPECIFICATION FairSpec
INVARIANTS
  TypeOK
  OneResponderPerSlot
  AnswersItsClient
  KeepsOnlyFinished
PROPERTIES
  SpinsOnlyWhenAllHeld
  EveryClientServed
CHECK_DEADLOCK FALSE
