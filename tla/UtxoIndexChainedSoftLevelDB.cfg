SPECIFICATION Spec
CONSTANTS
  t1 = t1  t2 = t2  t3 = t3  t4 = t4  t5 = t5  t6 = t6
  before = before
  own1 = own1  own2 = own2  own3 = own3
  foreign1 = foreign1  foreign2 = foreign2  foreign3 = foreign3
  watched = watched  other = other
  Tx = {t1, t2, t3, t4, t5, t6}
  Invalid = {}
  Output = {before, own1, own2, own3, foreign1, foreign2, foreign3}
  Address = {watched, other}
  Nowhere = Nowhere
  Zero = Zero
  Spends <- MCSpends
  Creates <- MCCreates
  AddressOf <- MCAddressOf
  Configs <- MCSoftLevelDB
  ChainedConfigs <- MCSoftLevelDB
  MaxBlockSize = 2
INVARIANT IndexMatchesLedger
CHECK_DEADLOCK FALSE
