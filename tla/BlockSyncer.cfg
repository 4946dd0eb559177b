SPECIFICATION FairSpec
CONSTANTS
  main = main  second = second
  Client = {main, second}
  Nil = Nil
  RestartOnError = TRUE
  SyncStartTries = 2
  MaxConnections = 2
INVARIANTS
  TypeOK
  AtMostOneOpen
PROPERTIES
  StaysInSync
  CloseReturns
  HandlersEnd
CHECK_DEADLOCK FALSE
