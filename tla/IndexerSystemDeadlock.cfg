SPECIFICATION FairSpec
CONSTANTS
  main = main  second = second
  a1 = a1  a2 = a2  a3 = a3  b1 = b1  b2 = b2  c3 = c3  c4 = c4
  o = o
  Block = {a1, a2}
  Origin = o
  Nil = Nil
  Parent <- MCParent
  Ancestors <- MCAncestors
  Slot <- MCSlot
  BlocksOfInterest = {a1}
  StartingBlockPoint = Nil
  ConfirmationBlockCount = 1
  Client = {main}
  RestartOnError = TRUE
  SyncStartTries = 1
  MaxConnections = 2
  CloseWaits = TRUE
PROPERTY CloseReturns
CHECK_DEADLOCK FALSE
