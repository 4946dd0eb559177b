SPECIFICATION FairSpec
CONSTANTS
  a1 = a1  a2 = a2  a3 = a3  a4 = a4  a5 = a5  a6 = a6
  b3 = b3  b4 = b4  b5 = b5  b6 = b6
  c4 = c4  c5 = c5
  o = o
  Block = {a1, a2, a3, a4, a5, a6, b3, b4, b5, b6, c4, c5}
  Origin = o
  Nil = Nil
  Parent <- MCParent
  Ancestors <- MCAncestors
  Slot <- MCSlot
  BlocksOfInterest = {a2, a3, b3}
  StartingBlockPoint = a1
  ConfirmationBlockCount = 2
  RestartOnError = TRUE
  SyncStartTries = 3
  MaxInflight = 3
  MaxFaults = 3
INVARIANTS
  TypeOK
  MemoryMatchesDisk
  NoTxLost
  ConfirmedIsChain
  FatalIsJustified
PROPERTIES
  ConfirmedIsBuried
  ImplementsConfirmedLog
  CatchesUp
CHECK_DEADLOCK FALSE
