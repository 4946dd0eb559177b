SPECIFICATION Spec
CONSTANTS
  main = main  second = second
  Client = {main}
  Nil = Nil
  RestartOnError = TRUE
  SyncStartTries = 2
  MaxConnections = 3
INVARIANT NoConnectionAfterClose
CHECK_DEADLOCK FALSE
