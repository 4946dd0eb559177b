SPECIFICATION Spec
CONSTANTS
  a1 = a1  a2 = a2  a3 = a3  a4 = a4  a5 = a5  a6 = a6
  b3 = b3  b4 = b4  b5 = b5  b6 = b6
  c4 = c4  c5 = c5
  o = o
  Block = {a1, a2, a3, a4, a5, a6, b3, b4, b5, b6, c4, c5}
  Origin = o
  Nil = Nil
  Parent <- MCParent
  Ancestors <- MCAncestors
  Slot <- MCSlotFromZero
  BlocksOfInterest = {a1, a2}
  StartingBlockPoint = Nil
  ConfirmationBlockCount = 2
  RestartOnError = TRUE
  SyncStartTries = 3
  MaxInflight = 1
  MaxFaults = 1
INVARIANT FatalIsJustified
CHECK_DEADLOCK FALSE
