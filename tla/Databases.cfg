SPECIFICATION Spec
CONSTANTS
  Base = 2
  SlotWidth = 2
  HashSize = 1
  IndexWidth = 1
  Slots = {1, 2}
  TxInputs <- MCTxInputs
  AddressOf <- MCAddressOf
  Nowhere = "nowhere"
  MaxTxs = 2
  SoftDeletesOwn = {"bbolt"}
  Absent = Absent
INVARIANTS
  ProcessedInOrder
  StoredTogether
  QueriesAgree
PROPERTY ImplementsDatabase
CHECK_DEADLOCK FALSE
