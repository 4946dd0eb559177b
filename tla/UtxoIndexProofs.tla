-------------------------- MODULE UtxoIndexProofs ---------------------------
(***************************************************************************)
(* Proofs about module UtxoIndex, for any ledger, any configurations and   *)
(* blocks of any size.                                                     *)
(***************************************************************************)
EXTENDS UtxoIndex, TLAPS

-----------------------------------------------------------------------------
\* Types.

LEMMA ConfigType ==
  ASSUME config \in Configs
  PROVE  /\ config \in Config
         /\ config.backend \in {"bbolt", "leveldb"}
         /\ config.SoftDeleteUtxo \in BOOLEAN
         /\ config.KeepAllTxOutputsInDB \in BOOLEAN
         /\ config.AddressCheck \in SUBSET {"inputs", "outputs"}
         /\ config.addressesOfInterest \in SUBSET Address
<1>1. config \in Config
  BY UtxoAssumption
<1>2. QED
  BY <1>1 DEF Config

\* The transactions of a block are from the ledger.
LEMMA BlockType ==
  ASSUME NEW n \in 1..MaxBlockSize, NEW block \in [1..n -> Tx]
  PROVE  /\ n \in Nat \ {0}
         /\ Len(block) = n
         /\ TxsOf(block) \subseteq Tx
         /\ \A tx \in TxsOf(block) : \E i \in 1..n : tx = block[i]
         /\ \A i \in 1..n : block[i] \in TxsOf(block)
<1>1. n \in Nat \ {0}
  BY UtxoAssumption
<1>2. Len(block) = n
  BY <1>1
<1>3. QED
  BY <1>1, <1>2 DEF TxsOf

\* The ledger after a block.
LEMMA LedgerGrows ==
  ASSUME TypeOK, NEW n \in 1..MaxBlockSize, NEW block \in [1..n -> Tx],
         ProcessConfirmedBlock(block)
  PROVE  /\ blocks' = blocks + 1 /\ blocks' \in Nat
         /\ height' \in [Tx -> 0..blocks']
         /\ onChain' = onChain \cup TxsOf(block)
         /\ \A t \in TxsOf(block) : height'[t] = blocks + 1
         /\ \A t \in Tx \ TxsOf(block) : height'[t] = height[t]
         /\ config' = config
<1> DEFINE txs == TxsOf(block)
<1>1. /\ blocks' = blocks + 1
      /\ height' = [t \in Tx |-> IF t \in txs THEN blocks + 1 ELSE height[t]]
      /\ config' = config
  BY DEF ProcessConfirmedBlock
<1>2. txs \subseteq Tx
  BY BlockType
<1>3. blocks \in Nat /\ height \in [Tx -> 0..blocks]
  BY DEF TypeOK
<1>4. height' \in [Tx -> 0..blocks']
  BY <1>1, <1>3
<1>5. onChain' = onChain \cup txs
  BY <1>1, <1>2, <1>3 DEF onChain
<1>6. QED
  BY <1>1, <1>2, <1>3, <1>4, <1>5

LEMMA CreateTxType ==
  ASSUME NEW tx \in Tx
  PROVE  createTx(tx) \in [tx : Tx, resolved : SUBSET Output]
BY UtxoAssumption DEF createTx

LEMMA TypeIsKept ==
  ASSUME TypeOK, NEW n \in 1..MaxBlockSize, NEW block \in [1..n -> Tx],
         ProcessConfirmedBlock(block)
  PROVE  TypeOK'
<1> DEFINE txs == TxsOf(block)
           ofInterest == filterTxsOfInterest(txs)
           added == AddTxOutputs(getTxOutputs(txs, ofInterest), dbTxOutputs)
           State == {"missing", "unspent", "used"}
<1>1. ofInterest \subseteq Tx
  BY BlockType DEF filterTxsOfInterest
<1>2. dbTxs' \subseteq [tx : Tx, resolved : SUBSET Output]
  BY <1>1, CreateTxType DEF ProcessConfirmedBlock, TypeOK
<1>3. added \in [Output -> State]
  BY DEF AddTxOutputs, TypeOK
<1>4. RemoveTxOutputs(getTxInputs(txs, ofInterest), added) \in [Output -> State]
  <2> SUFFICES ASSUME NEW outputs, NEW store \in [Output -> State], NEW found
               PROVE  Removed(outputs, store, found) \in [Output -> State]
    BY <1>3 DEF RemoveTxOutputs, bboltRemoveTxOutputs, leveldbRemoveTxOutputs
  <2> QED
    BY DEF Removed
<1>5. dbTxOutputs' \in [Output -> State]
  BY <1>4 DEF ProcessConfirmedBlock
<1>6. QED
  BY <1>2, <1>5, LedgerGrows DEF TypeOK

\* The database writes stay within their types (ProcessConfirmedBlock and the
\* transaction writers it calls).
THEOREM TypeCorrect == Spec => []TypeOK
<1>1. Init => TypeOK
  BY DEF Init, TypeOK
<1>2. TypeOK /\ [Next]_vars => TypeOK'
  <2>1. ASSUME TypeOK, Next PROVE TypeOK'
    BY <2>1, TypeIsKept DEF Next
  <2>2. ASSUME TypeOK, UNCHANGED vars PROVE TypeOK'
    BY <2>2 DEF vars, TypeOK
  <2>3. QED
    BY <2>1, <2>2
<1>3. QED
  BY <1>1, <1>2, PTL DEF Spec

-----------------------------------------------------------------------------
\* The ledger.

LEMMA UnspentWhenValid ==
  ASSUME Invalid = {}, NEW txs
  PROVE  /\ CreatedUnspent(txs) = Created(txs) \ Spent(txs)
         /\ Unspent(txs) = (Created(txs) \cup Genesis) \ Spent(txs)
<1>1. txs \ Invalid = txs
  OBVIOUS
<1>2. QED
  BY <1>1 DEF Unspent, CreatedUnspent

LEMMA CreatedSpentUnion ==
  ASSUME NEW txs, NEW more
  PROVE  /\ Created(txs \cup more) = Created(txs) \cup Created(more)
         /\ Spent(txs \cup more) = Spent(txs) \cup Spent(more)
BY DEF Created, Spent

\* No two transactions create the same output.
LEMMA CreatedApart ==
  ASSUME NEW txs \in SUBSET Tx, NEW more \in SUBSET Tx, txs \cap more = {}
  PROVE  Created(txs) \cap Created(more) = {} /\ Created(txs) \cap Genesis = {}
BY UtxoAssumption DEF Created, Genesis

\* A block is new to the ledger and spends what the ledger has; only where the
\* configuration is tried with such blocks does it spend what it creates.
LEMMA BlockOnLedger ==
  ASSUME Invalid = {}, TypeOK, LedgerIsSound,
         NEW n \in 1..MaxBlockSize, NEW block \in [1..n -> Tx], IsBlock(block)
  PROVE  LET txs == TxsOf(block)
         IN /\ txs \in SUBSET Tx
            /\ txs \cap onChain = {}
            /\ Spent(txs) \cap Spent(onChain) = {}
            /\ Spent(txs) \subseteq Genesis \cup Created(onChain) \cup Created(txs)
            /\ Created(txs) \cap Created(onChain) = {}
            /\ Created(txs) \cap Spent(onChain) = {}
            /\ config \notin ChainedConfigs => Spent(txs) \cap Created(txs) = {}
<1> DEFINE txs == TxsOf(block)
           earlier(i) == onChain \cup {block[j] : j \in 1..(i - 1)}
<1>1. n \in Nat \ {0} /\ Len(block) = n /\ txs \subseteq Tx /\ onChain \subseteq Tx
  BY BlockType DEF onChain
<1>2. ASSUME NEW i \in 1..n
      PROVE  /\ block[i] \notin onChain
             /\ Spends[block[i]] \cap Spent(onChain) = {}
             /\ Spends[block[i]] \subseteq Genesis \cup Created(onChain) \cup Created(txs)
             /\ config \notin ChainedConfigs =>
                  Spends[block[i]] \subseteq Genesis \cup Created(onChain)
  <2>1. /\ block[i] \notin earlier(i)
        /\ Spends[block[i]] \subseteq Unspent(earlier(i))
        /\ config \in ChainedConfigs \/ Spends[block[i]] \subseteq Unspent(onChain)
    BY <1>1 DEF IsBlock
  <2> DEFINE before == {block[j] : j \in 1..(i - 1)}
  <2>2. before \subseteq txs
    BY <1>1 DEF TxsOf
  <2>3. Created(before) \subseteq Created(txs)
    BY <2>2 DEF Created
  <2> HIDE DEF before
  <2>4. Unspent(onChain \cup before) \subseteq
          (Genesis \cup Created(onChain) \cup Created(txs)) \ Spent(onChain)
    <3>1. Unspent(onChain \cup before) =
            (Created(onChain \cup before) \cup Genesis) \ Spent(onChain \cup before)
      BY UnspentWhenValid
    <3>2. /\ Created(onChain \cup before) = Created(onChain) \cup Created(before)
          /\ Spent(onChain \cup before) = Spent(onChain) \cup Spent(before)
      BY CreatedSpentUnion
    <3>3. QED
      BY <2>3, <3>1, <3>2
  <2>5. Unspent(onChain) \subseteq Genesis \cup Created(onChain)
    BY UnspentWhenValid
  <2>6. QED
    BY <2>1, <2>4, <2>5 DEF before
<1>3. txs \cap onChain = {}
  BY <1>1, <1>2 DEF TxsOf
<1>4. /\ Spent(txs) \cap Spent(onChain) = {}
      /\ Spent(txs) \subseteq Genesis \cup Created(onChain) \cup Created(txs)
      /\ config \notin ChainedConfigs => Spent(txs) \subseteq Genesis \cup Created(onChain)
  <2>1. ASSUME NEW o \in Spent(txs)
        PROVE  /\ o \notin Spent(onChain)
               /\ o \in Genesis \cup Created(onChain) \cup Created(txs)
               /\ config \notin ChainedConfigs => o \in Genesis \cup Created(onChain)
    <3>1. PICK i \in 1..n : o \in Spends[block[i]]
      BY <1>1 DEF Spent, TxsOf
    <3>2. QED
      BY <1>2, <3>1
  <2>2. QED
    BY <2>1
<1>5. Created(txs) \cap Created(onChain) = {} /\ Created(txs) \cap Genesis = {}
  BY <1>1, <1>3, CreatedApart
<1>6. Created(txs) \cap Spent(onChain) = {}
  BY <1>5 DEF LedgerIsSound
<1>7. QED
  BY <1>1, <1>3, <1>4, <1>5, <1>6

\* What the outputs of a transaction's earlier blocks are, after one more block.
LEMMA CreatedBeforeBlock ==
  ASSUME TypeOK, NEW n \in 1..MaxBlockSize, NEW block \in [1..n -> Tx],
         ProcessConfirmedBlock(block), TxsOf(block) \cap onChain = {}
  PROVE  /\ \A tx \in onChain : CreatedBefore(tx)' = CreatedBefore(tx)
         /\ \A tx \in TxsOf(block) : CreatedBefore(tx)' = Created(onChain)
<1> DEFINE txs == TxsOf(block)
<1>1. /\ blocks \in Nat /\ height \in [Tx -> 0..blocks]
      /\ txs \subseteq Tx /\ onChain \subseteq Tx
  BY BlockType DEF TypeOK, onChain
<1>2. /\ onChain' = onChain \cup txs
      /\ \A t \in txs : height'[t] = blocks + 1
      /\ \A t \in onChain : height'[t] = height[t] /\ height[t] \in 0..blocks
  BY <1>1, LedgerGrows
<1>3. ASSUME NEW tx \in onChain
      PROVE  {t \in onChain' : height'[t] < height'[tx]} =
             {t \in onChain : height[t] < height[tx]}
  BY <1>1, <1>2
<1>4. ASSUME NEW tx \in txs
      PROVE  {t \in onChain' : height'[t] < height'[tx]} = onChain
  BY <1>1, <1>2
<1>5. QED
  BY <1>3, <1>4 DEF CreatedBefore, Created

-----------------------------------------------------------------------------
\* One block stored.

\* What the proofs below have of a block: the state before it is sound, the
\* ledger accepts it and the indexer has stored it.
BlockStored(n, block) ==
  /\ Invalid = {} /\ ChainedConfigsKeepAll
  /\ TypeOK /\ LedgerIsSound /\ UsedIsSpent
  /\ IndexMatchesLedger /\ KnownTxsStored /\ InputsAreResolved
  /\ n \in 1..MaxBlockSize /\ block \in [1..n -> Tx]
  /\ IsBlock(block) /\ ProcessConfirmedBlock(block)

LEMMA StoredBlockFacts ==
  ASSUME NEW n, NEW block, BlockStored(n, block)
  PROVE  LET txs == TxsOf(block)
         IN /\ txs \in SUBSET Tx
            /\ txs \cap onChain = {}
            /\ Spent(txs) \cap Spent(onChain) = {}
            /\ Spent(txs) \subseteq Genesis \cup Created(onChain) \cup Created(txs)
            /\ Created(txs) \cap Created(onChain) = {}
            /\ Created(txs) \cap Spent(onChain) = {}
            /\ config \notin ChainedConfigs => Spent(txs) \cap Created(txs) = {}
            /\ onChain' = onChain \cup txs
            /\ config' = config
            /\ Created(onChain') = Created(onChain) \cup Created(txs)
            /\ Spent(onChain') = Spent(onChain) \cup Spent(txs)
BY BlockOnLedger, LedgerGrows, CreatedSpentUnion DEF BlockStored

\* The database knows an output a block spends as unspent or not at all; it
\* knows it when the output was created under the index and is kept.
LEMMA SpentOutputsInDB ==
  ASSUME NEW n, NEW block, BlockStored(n, block), ChecksBothSides,
         NEW o \in Spent(TxsOf(block))
  PROVE  /\ o \in Output
         /\ dbTxOutputs[o] \in {"missing", "unspent"}
         /\ dbTxOutputs[o] = "unspent" <=> o \in Created(onChain) /\ IsKept(o)
<1>1. o \in Output
  BY StoredBlockFacts, UtxoAssumption DEF Spent
<1>2. o \notin Spent(onChain)
  BY StoredBlockFacts
<1>3. dbTxOutputs[o] \in {"missing", "unspent"}
  BY <1>1, <1>2 DEF BlockStored, TypeOK, UsedIsSpent
<1>4. CreatedUnspent(onChain) = Created(onChain) \ Spent(onChain)
  BY UnspentWhenValid DEF BlockStored
<1>5. dbTxOutputs[o] = "unspent" <=> o \in LedgerOutputs
  BY <1>1 DEF BlockStored, IndexMatchesLedger
<1>6. QED
  BY <1>1, <1>2, <1>3, <1>4, <1>5 DEF LedgerOutputs

\* isTxInputOfInterest looks up the inputs in the database, and so sees those
\* of the outputs of interest that earlier blocks have created.
LEMMA FilterIsTouchesInterest ==
  ASSUME NEW n, NEW block, BlockStored(n, block), ChecksBothSides
  PROVE  filterTxsOfInterest(TxsOf(block)) =
         {tx \in TxsOf(block) : TouchesInterest(tx, Created(onChain))}
<1>1. config.addressesOfInterest \in SUBSET Address
  BY ConfigType DEF BlockStored, TypeOK
<1>2. ASSUME NEW tx \in TxsOf(block)
      PROVE  isTxInputOfInterest(tx) <=>
             \E o \in Spends[tx] \cap Created(onChain) : IsOfInterest(AddressOf[o])
  <2>1. \A o \in Spends[tx] : o \in Spent(TxsOf(block))
    BY DEF Spent
  <2>2. ASSUME NEW o \in Spends[tx]
        PROVE  ~GetTxOutput(o).IsUsed /\ IsOfInterest(GetTxOutput(o).Address) <=>
               o \in Created(onChain) /\ IsOfInterest(AddressOf[o])
    <3>1. /\ dbTxOutputs[o] \in {"missing", "unspent"}
          /\ dbTxOutputs[o] = "unspent" <=> o \in Created(onChain) /\ IsKept(o)
      BY <2>1, SpentOutputsInDB
    <3>2. CASE dbTxOutputs[o] = "missing"
      <4>1. GetTxOutput(o).Address = Nowhere
        BY <3>2 DEF GetTxOutput
      <4>2. ~IsOfInterest(Nowhere)
        BY <1>1, UtxoAssumption DEF IsOfInterest
      <4>3. QED
        BY <3>1, <3>2, <4>1, <4>2 DEF IsKept
    <3>3. CASE dbTxOutputs[o] = "unspent"
      BY <3>1, <3>3 DEF GetTxOutput
    <3>4. QED
      BY <3>1, <3>2, <3>3
  <2>3. QED
    BY <2>2 DEF isTxInputOfInterest
<1>3. QED
  BY <1>2 DEF filterTxsOfInterest, TouchesInterest

\* getTxOutputs adds every output of the block that is kept, and no other.
LEMMA AddedOutputs ==
  ASSUME NEW n, NEW block, BlockStored(n, block), ChecksBothSides
  PROVE  LET txs == TxsOf(block)
         IN getTxOutputs(txs, filterTxsOfInterest(txs)) = {o \in Created(txs) : IsKept(o)}
<1> DEFINE txs == TxsOf(block)
           ofInterest == filterTxsOfInterest(txs)
<1>1. CASE config.KeepAllTxOutputsInDB \/ config.addressesOfInterest = {}
  BY <1>1 DEF getTxOutputs, IsKept
<1>2. CASE ~(config.KeepAllTxOutputsInDB \/ config.addressesOfInterest = {})
  <2>1. config.AddressCheck = {"inputs", "outputs"}
    BY <1>2 DEF ChecksBothSides
  <2>2. \A tx \in txs : isTxOutputOfInterest(tx) => tx \in ofInterest
    BY <2>1 DEF filterTxsOfInterest
  <2>3. ofInterest \subseteq txs
    BY DEF filterTxsOfInterest
  <2>4. {o \in Created(ofInterest) : IsOfInterest(AddressOf[o])} =
        {o \in Created(txs) : IsOfInterest(AddressOf[o])}
    BY <2>2, <2>3 DEF Created, isTxOutputOfInterest
  <2>5. QED
    BY <1>2, <2>4 DEF getTxOutputs, IsKept
<1>3. QED
  BY <1>1, <1>2

\* Of the outputs in the database after adding, getTxInputs removes exactly
\* those the block spends.
LEMMA RemovedOutputs ==
  ASSUME NEW n, NEW block, BlockStored(n, block), ChecksBothSides
  PROVE  LET txs == TxsOf(block)
             ofInterest == filterTxsOfInterest(txs)
             removed == getTxInputs(txs, ofInterest)
         IN /\ removed \subseteq Spent(txs)
            /\ \A o \in Spent(txs) :
                 /\ IsKept(o)
                 /\ o \in Created(txs) \/ dbTxOutputs[o] = "unspent"
                 => o \in removed
<1> DEFINE txs == TxsOf(block)
           ofInterest == filterTxsOfInterest(txs)
           removed == getTxInputs(txs, ofInterest)
<1>1. ofInterest \subseteq txs
  BY DEF filterTxsOfInterest
<1>2. removed \subseteq Spent(txs)
  BY <1>1 DEF getTxInputs, Spent
<1>3. CASE config.KeepAllTxOutputsInDB
  BY <1>2, <1>3 DEF getTxInputs
<1>4. CASE config.addressesOfInterest = {}
  <2>1. ofInterest = txs
    BY <1>4 DEF filterTxsOfInterest
  <2>2. QED
    BY <1>2, <2>1 DEF getTxInputs
<1>5. CASE ~config.KeepAllTxOutputsInDB /\ config.addressesOfInterest # {}
  <2> SUFFICES ASSUME NEW o \in Spent(txs), IsKept(o),
                      o \in Created(txs) \/ dbTxOutputs[o] = "unspent"
               PROVE  o \in removed
    BY <1>2
  <2>1. config \notin ChainedConfigs
    BY <1>5 DEF BlockStored, ChainedConfigsKeepAll
  <2>2. dbTxOutputs[o] = "unspent"
    BY <2>1, StoredBlockFacts
  <2>3. o \in Created(onChain)
    BY <2>2, SpentOutputsInDB
  <2>4. IsOfInterest(AddressOf[o])
    BY <1>5 DEF IsKept
  <2>5. PICK tx \in txs : o \in Spends[tx]
    BY DEF Spent
  <2>6. TouchesInterest(tx, Created(onChain))
    <3>1. config.AddressCheck = {"inputs", "outputs"}
      BY <1>5 DEF ChecksBothSides
    <3>2. QED
      BY <2>3, <2>4, <2>5, <3>1 DEF TouchesInterest
  <2>7. tx \in ofInterest
    BY <2>6, FilterIsTouchesInterest
  <2>8. QED
    BY <1>5, <2>5, <2>7 DEF getTxInputs, Spent
<1>6. QED
  BY <1>3, <1>4, <1>5

\* The database after the removal: an output is unspent when it was so after
\* the adding and is not among the removed, used only when it was or is removed.
LEMMA OutputsAfterBlock ==
  ASSUME NEW n, NEW block, BlockStored(n, block)
  PROVE  LET txs == TxsOf(block)
             ofInterest == filterTxsOfInterest(txs)
             outputs == getTxOutputs(txs, ofInterest)
             removed == getTxInputs(txs, ofInterest)
         IN \A o \in Output :
              /\ dbTxOutputs'[o] = "used" => dbTxOutputs[o] = "used" \/ o \in removed
              /\ dbTxOutputs'[o] = "unspent" <=>
                   /\ o \in outputs \/ dbTxOutputs[o] = "unspent"
                   /\ o \notin removed
<1> DEFINE txs == TxsOf(block)
           ofInterest == filterTxsOfInterest(txs)
           outputs == getTxOutputs(txs, ofInterest)
           removed == getTxInputs(txs, ofInterest)
           added == AddTxOutputs(outputs, dbTxOutputs)
<1>1. dbTxOutputs' = RemoveTxOutputs(removed, added)
  BY DEF BlockStored, ProcessConfirmedBlock
<1>2. ofInterest \subseteq txs
  BY DEF filterTxsOfInterest
<1>3. removed \subseteq Spent(txs) /\ outputs \subseteq Created(txs)
  BY <1>2 DEF getTxInputs, getTxOutputs, Spent, Created
<1> SUFFICES \A o \in Output :
               /\ dbTxOutputs'[o] = "used" => dbTxOutputs[o] = "used" \/ o \in removed
               /\ dbTxOutputs'[o] = "unspent" <=>
                    /\ o \in outputs \/ dbTxOutputs[o] = "unspent"
                    /\ o \notin removed
  OBVIOUS
<1> HIDE DEF outputs, removed
<1>4. \A o \in Output : added[o] = IF o \in outputs THEN "unspent" ELSE dbTxOutputs[o]
  BY DEF AddTxOutputs
<1>5. config.SoftDeleteUtxo \in BOOLEAN /\ config.backend \in {"bbolt", "leveldb"}
  BY ConfigType DEF BlockStored, TypeOK
<1> HIDE DEF added
<1>6. CASE config.backend = "bbolt" \/ ~config.SoftDeleteUtxo
  <2>1. \A o \in Output :
          dbTxOutputs'[o] =
            CASE o \in removed /\ ~config.SoftDeleteUtxo -> "missing"
              [] o \in removed /\ config.SoftDeleteUtxo /\ added[o] # "missing" -> "used"
              [] OTHER -> added[o]
    <3>1. CASE config.backend = "bbolt"
      BY <1>1, <3>1 DEF RemoveTxOutputs, bboltRemoveTxOutputs, Removed
    <3>2. CASE config.backend # "bbolt" /\ ~config.SoftDeleteUtxo
      BY <1>1, <3>2 DEF RemoveTxOutputs, leveldbRemoveTxOutputs, Removed
    <3>3. QED
      BY <1>6, <3>1, <3>2
  <2>2. QED
    BY <1>4, <1>5, <2>1
<1>7. CASE config.backend = "leveldb" /\ config.SoftDeleteUtxo
  <2>1. \A o \in Output :
          dbTxOutputs'[o] =
            IF o \in removed /\ dbTxOutputs[o] # "missing" THEN "used" ELSE added[o]
    BY <1>1, <1>7 DEF RemoveTxOutputs, leveldbRemoveTxOutputs, Removed
  <2>2. config \notin ChainedConfigs
    BY <1>7 DEF BlockStored, ChainedConfigsKeepAll
  <2>3. removed \cap outputs = {}
    BY <1>3, <2>2, StoredBlockFacts
  <2>4. \A o \in Output : dbTxOutputs[o] \in {"missing", "unspent", "used"}
    BY DEF BlockStored, TypeOK
  <2>5. QED
    BY <1>4, <2>1, <2>3, <2>4
<1>8. QED
  BY <1>5, <1>6, <1>7

LEMMA LedgerIsSoundKept ==
  ASSUME NEW n, NEW block, BlockStored(n, block)
  PROVE  LedgerIsSound'
BY StoredBlockFacts DEF BlockStored, LedgerIsSound

LEMMA UsedIsSpentKept ==
  ASSUME NEW n, NEW block, BlockStored(n, block)
  PROVE  UsedIsSpent'
<1> DEFINE txs == TxsOf(block)
<1>1. getTxInputs(txs, filterTxsOfInterest(txs)) \subseteq Spent(txs)
  BY DEF getTxInputs, Spent, filterTxsOfInterest
<1>2. QED
  BY <1>1, OutputsAfterBlock, StoredBlockFacts DEF BlockStored, UsedIsSpent

LEMMA IndexMatchesLedgerKept ==
  ASSUME NEW n, NEW block, BlockStored(n, block)
  PROVE  IndexMatchesLedger'
<1> DEFINE txs == TxsOf(block)
           ofInterest == filterTxsOfInterest(txs)
           outputs == getTxOutputs(txs, ofInterest)
           removed == getTxInputs(txs, ofInterest)
<1>1. config' = config
  BY StoredBlockFacts
<1>2. ChecksBothSides' <=> ChecksBothSides
  BY <1>1 DEF ChecksBothSides
<1> SUFFICES ASSUME ChecksBothSides
             PROVE  {o \in Output : dbTxOutputs'[o] = "unspent"} = LedgerOutputs'
  BY <1>2 DEF IndexMatchesLedger
<1>3. \A o : IsKept(o)' <=> IsKept(o)
  BY <1>1 DEF IsKept, IsOfInterest
<1>4. CreatedUnspent(onChain)' =
        (Created(onChain) \cup Created(txs)) \ (Spent(onChain) \cup Spent(txs))
  <2>1. Invalid = {}
    BY DEF BlockStored
  <2>2. CreatedUnspent(onChain') = Created(onChain') \ Spent(onChain')
    BY <2>1, UnspentWhenValid
  <2>3. QED
    BY <2>2, StoredBlockFacts DEF CreatedUnspent, Created, Spent
<1>5. CreatedUnspent(onChain) = Created(onChain) \ Spent(onChain)
  BY UnspentWhenValid DEF BlockStored
<1>6. Created(onChain) \subseteq Output /\ Created(txs) \subseteq Output
  BY StoredBlockFacts, UtxoAssumption DEF Created, onChain
<1>7. \A o \in Output :
        dbTxOutputs[o] = "unspent" <=>
          o \in Created(onChain) /\ o \notin Spent(onChain) /\ IsKept(o)
  BY <1>5 DEF BlockStored, IndexMatchesLedger, LedgerOutputs
<1>8. outputs = {o \in Created(txs) : IsKept(o)}
  BY AddedOutputs
<1>9. /\ removed \subseteq Spent(txs)
      /\ \A o \in Spent(txs) :
           IsKept(o) /\ (o \in Created(txs) \/ dbTxOutputs[o] = "unspent") => o \in removed
  BY RemovedOutputs
<1>10. \A o \in Output :
         dbTxOutputs'[o] = "unspent" <=>
           (o \in outputs \/ dbTxOutputs[o] = "unspent") /\ o \notin removed
  BY OutputsAfterBlock
<1>11. Created(txs) \cap Spent(onChain) = {}
  BY StoredBlockFacts
<1> HIDE DEF txs, ofInterest, outputs, removed
<1>12. \A o \in Output :
         dbTxOutputs'[o] = "unspent" <=>
           /\ o \in Created(onChain) \cup Created(txs)
           /\ o \notin Spent(onChain) \cup Spent(txs)
           /\ IsKept(o)
  BY <1>7, <1>8, <1>9, <1>10, <1>11
<1>13. LedgerOutputs' = {o \in CreatedUnspent(onChain)' : IsKept(o)}
  BY <1>3 DEF LedgerOutputs
<1>14. QED
  BY <1>4, <1>6, <1>12, <1>13

LEMMA KnownTxsStoredKept ==
  ASSUME NEW n, NEW block, BlockStored(n, block)
  PROVE  KnownTxsStored'
<1> DEFINE txs == TxsOf(block)
<1>1. config' = config /\ onChain' = onChain \cup txs
  BY StoredBlockFacts
<1>2. ChecksBothSides' <=> ChecksBothSides
  BY <1>1 DEF ChecksBothSides
<1> SUFFICES ASSUME ChecksBothSides
             PROVE  {r.tx : r \in dbTxs'} =
                    {tx \in onChain' : TouchesInterest(tx, CreatedBefore(tx))'}
  BY <1>2 DEF KnownTxsStored
<1>3. /\ \A tx \in onChain : CreatedBefore(tx)' = CreatedBefore(tx)
      /\ \A tx \in txs : CreatedBefore(tx)' = Created(onChain)
  BY CreatedBeforeBlock, StoredBlockFacts DEF BlockStored
<1>4. \A tx \in onChain :
        TouchesInterest(tx, CreatedBefore(tx))' <=> TouchesInterest(tx, CreatedBefore(tx))
  BY <1>1, <1>3 DEF TouchesInterest, isTxOutputOfInterest, IsOfInterest
<1>5. \A tx \in txs :
        TouchesInterest(tx, CreatedBefore(tx))' <=> TouchesInterest(tx, Created(onChain))
  BY <1>1, <1>3 DEF TouchesInterest, isTxOutputOfInterest, IsOfInterest
<1>6. {r.tx : r \in dbTxs} = {tx \in onChain : TouchesInterest(tx, CreatedBefore(tx))}
  BY DEF BlockStored, KnownTxsStored
<1>7. dbTxs' = dbTxs \cup {createTx(tx) : tx \in filterTxsOfInterest(txs)}
  BY DEF BlockStored, ProcessConfirmedBlock
<1>8. filterTxsOfInterest(txs) = {tx \in txs : TouchesInterest(tx, Created(onChain))}
  BY FilterIsTouchesInterest
<1>9. \A tx : createTx(tx).tx = tx
  BY DEF createTx
<1>10. {r.tx : r \in dbTxs'} = {r.tx : r \in dbTxs} \cup filterTxsOfInterest(txs)
  BY <1>7, <1>9
<1>11. QED
  BY <1>1, <1>4, <1>5, <1>6, <1>8, <1>10

LEMMA InputsAreResolvedKept ==
  ASSUME NEW n, NEW block, BlockStored(n, block)
  PROVE  InputsAreResolved'
<1> DEFINE txs == TxsOf(block)
<1>1. config' = config
  BY StoredBlockFacts
<1>2. ChecksBothSides' <=> ChecksBothSides
  BY <1>1 DEF ChecksBothSides
<1> SUFFICES ASSUME ChecksBothSides, NEW r \in dbTxs'
             PROVE  r.resolved = {o \in Spends[r.tx] \cap CreatedBefore(r.tx)' : IsKept(o)'}
  BY <1>2 DEF InputsAreResolved
<1>3. \A o : IsKept(o)' <=> IsKept(o)
  BY <1>1 DEF IsKept, IsOfInterest
<1>4. /\ \A tx \in onChain : CreatedBefore(tx)' = CreatedBefore(tx)
      /\ \A tx \in txs : CreatedBefore(tx)' = Created(onChain)
  BY CreatedBeforeBlock, StoredBlockFacts DEF BlockStored
<1>5. CASE r \in dbTxs
  <2>1. r.tx \in onChain
    BY <1>5 DEF BlockStored, KnownTxsStored
  <2>2. r.resolved = {o \in Spends[r.tx] \cap CreatedBefore(r.tx) : IsKept(o)}
    BY <1>5 DEF BlockStored, InputsAreResolved
  <2>3. QED
    BY <1>3, <1>4, <2>1, <2>2
<1>6. CASE r \notin dbTxs
  <2>1. PICK tx \in filterTxsOfInterest(txs) : r = createTx(tx)
    BY <1>6 DEF BlockStored, ProcessConfirmedBlock
  <2>2. tx \in txs
    BY <2>1 DEF filterTxsOfInterest
  <2>3. /\ r.tx = tx
        /\ r.resolved = {o \in Spends[tx] : GetTxOutput(o).Address # Nowhere}
    BY <2>1 DEF createTx
  <2>4. ASSUME NEW o \in Spends[tx]
        PROVE  GetTxOutput(o).Address # Nowhere <=> o \in Created(onChain) /\ IsKept(o)
    <3>1. o \in Spent(txs)
      BY <2>2 DEF Spent
    <3>2. /\ o \in Output
          /\ dbTxOutputs[o] \in {"missing", "unspent"}
          /\ dbTxOutputs[o] = "unspent" <=> o \in Created(onChain) /\ IsKept(o)
      BY <3>1, SpentOutputsInDB
    <3>3. AddressOf[o] # Nowhere
      BY <3>2, UtxoAssumption
    <3>4. QED
      BY <3>2, <3>3 DEF GetTxOutput
  <2>5. QED
    BY <1>3, <1>4, <2>2, <2>3, <2>4
<1>7. QED
  BY <1>5, <1>6

-----------------------------------------------------------------------------
\* The inductive invariant.  IndexMatchesLedger needs LedgerIsSound, so that a
\* block creates nothing that is spent already, and UsedIsSpent, so that the
\* inputs of a block are not taken for used; the two about the transactions
\* need IndexMatchesLedger, for they come from the database.
IndexInv ==
  /\ TypeOK
  /\ LedgerIsSound
  /\ UsedIsSpent
  /\ IndexMatchesLedger
  /\ KnownTxsStored
  /\ InputsAreResolved

LEMMA NothingOnChainFirst ==
  ASSUME Init
  PROVE  onChain = {} /\ Created(onChain) = {} /\ Spent(onChain) = {}
<1>1. onChain = {}
  BY DEF Init, onChain
<1>2. QED
  BY <1>1 DEF Created, Spent

LEMMA IndexInvInit == Init => IndexInv
<1> SUFFICES ASSUME Init PROVE IndexInv
  OBVIOUS
<1>1. TypeOK
  BY DEF Init, TypeOK
<1>2. LedgerIsSound
  BY NothingOnChainFirst DEF LedgerIsSound
<1>3. UsedIsSpent
  BY DEF Init, UsedIsSpent
<1>4. IndexMatchesLedger
  <2>1. onChain \ Invalid = {}
    BY NothingOnChainFirst
  <2>2. LedgerOutputs = {}
    BY <2>1 DEF LedgerOutputs, CreatedUnspent, Created
  <2>3. {o \in Output : dbTxOutputs[o] = "unspent"} = {}
    BY DEF Init
  <2>4. QED
    BY <2>2, <2>3 DEF IndexMatchesLedger
<1>5. KnownTxsStored
  BY NothingOnChainFirst DEF Init, KnownTxsStored
<1>6. InputsAreResolved
  BY DEF Init, InputsAreResolved
<1>7. QED
  BY <1>1, <1>2, <1>3, <1>4, <1>5, <1>6 DEF IndexInv

LEMMA IndexInvNext ==
  ASSUME Invalid = {}, ChainedConfigsKeepAll
  PROVE  IndexInv /\ [Next]_vars => IndexInv'
<1>1. ASSUME IndexInv, Next
      PROVE  IndexInv'
  <2>1. PICK n \in 1..MaxBlockSize :
          \E block \in [1..n -> Tx] : IsBlock(block) /\ ProcessConfirmedBlock(block)
    BY <1>1 DEF Next
  <2>2. PICK block \in [1..n -> Tx] : IsBlock(block) /\ ProcessConfirmedBlock(block)
    BY <2>1
  <2>3. BlockStored(n, block)
    BY <1>1, <2>2 DEF BlockStored, IndexInv
  <2>4. TypeOK'
    BY <1>1, <2>2, TypeIsKept DEF IndexInv
  <2>5. QED
    BY <2>3, <2>4, LedgerIsSoundKept, UsedIsSpentKept, IndexMatchesLedgerKept,
       KnownTxsStoredKept, InputsAreResolvedKept DEF IndexInv
<1>2. ASSUME IndexInv, UNCHANGED vars
      PROVE  IndexInv'
  <2> USE <1>2 DEF vars
  <2>1. onChain' = onChain
    BY DEF onChain
  <2>2. /\ ChecksBothSides' <=> ChecksBothSides
        /\ \A o : IsKept(o)' <=> IsKept(o)
        /\ \A tx : CreatedBefore(tx)' = CreatedBefore(tx)
    BY <2>1 DEF ChecksBothSides, IsKept, IsOfInterest, CreatedBefore
  <2>3. TypeOK' /\ LedgerIsSound' /\ UsedIsSpent'
    BY <2>1 DEF IndexInv, TypeOK, LedgerIsSound, UsedIsSpent
  <2>4. IndexMatchesLedger'
    BY <2>1, <2>2 DEF IndexInv, IndexMatchesLedger, LedgerOutputs
  <2>5. KnownTxsStored'
    BY <2>1, <2>2 DEF IndexInv, KnownTxsStored, TouchesInterest, isTxOutputOfInterest,
                      IsOfInterest
  <2>6. InputsAreResolved'
    BY <2>2 DEF IndexInv, InputsAreResolved
  <2>7. QED
    BY <2>3, <2>4, <2>5, <2>6 DEF IndexInv
<1>3. QED
  BY <1>1, <1>2

\* Where no script fails, and blocks spend what they create only if every
\* output is kept and found by the writer, the database has as unspent what
\* the ledger has: the adding and removing of any number of blocks of any size
\* (processConfirmedBlock with getTxOutputs, getTxInputs and either writer).
THEOREM IndexIsLedger ==
  ASSUME Invalid = {}, ChainedConfigsKeepAll
  PROVE  Spec => []IndexMatchesLedger
<1>1. IndexInv => IndexMatchesLedger
  BY DEF IndexInv
<1>2. QED
  BY <1>1, IndexInvInit, IndexInvNext, PTL DEF Spec

\* The transactions stored are those that pay to an address of interest or
\* spend what an earlier block paid to one (filterTxsOfInterest).
THEOREM InterestIsStored ==
  ASSUME Invalid = {}, ChainedConfigsKeepAll
  PROVE  Spec => []KnownTxsStored
<1>1. IndexInv => KnownTxsStored
  BY DEF IndexInv
<1>2. QED
  BY <1>1, IndexInvInit, IndexInvNext, PTL DEF Spec

\* A stored transaction resolves exactly the inputs that earlier blocks have
\* created and the index has kept (createTx).
THEOREM StoredInputsResolved ==
  ASSUME Invalid = {}, ChainedConfigsKeepAll
  PROVE  Spec => []InputsAreResolved
<1>1. IndexInv => InputsAreResolved
  BY DEF IndexInv
<1>2. QED
  BY <1>1, IndexInvInit, IndexInvNext, PTL DEF Spec

\* With bbolt, whose keys read back as what was stored, an owner who asks for
\* the unspent outputs of an address of interest gets the ledger's answer
\* (GetAllTxOutputs).
THEOREM BBoltAnswersQueries ==
  ASSUME Invalid = {}, ChainedConfigsKeepAll, \A c \in Configs : c.backend = "bbolt"
  PROVE  Spec => []QueryMatchesLedger
<1>1. IndexInv => QueryMatchesLedger
  <2> SUFFICES ASSUME IndexInv, ChecksBothSides,
                      NEW address \in config.addressesOfInterest
               PROVE  GetAllTxOutputs(address, TRUE) =
                      {o \in LedgerOutputs : AddressOf[o] = address}
    BY DEF QueryMatchesLedger
  <2>1. config.backend = "bbolt"
    BY DEF IndexInv, TypeOK
  <2>2. \A o \in Output : dbTxOutputs[o] \in {"missing", "unspent", "used"}
    BY DEF IndexInv, TypeOK
  <2>3. GetAllTxOutputs(address, TRUE) =
        {o \in Output : dbTxOutputs[o] = "unspent" /\ AddressOf[o] = address}
    BY <2>1, <2>2 DEF GetAllTxOutputs, InputOfKey
  <2>4. {o \in Output : dbTxOutputs[o] = "unspent"} = LedgerOutputs
    BY DEF IndexInv, IndexMatchesLedger
  <2>5. QED
    BY <2>3, <2>4
<1>2. QED
  BY <1>1, IndexInvInit, IndexInvNext, PTL DEF Spec

=============================================================================
