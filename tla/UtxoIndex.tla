----------------------------- MODULE UtxoIndex ------------------------------
(***************************************************************************)
(* What core/block_indexer.go stores of the transactions of the confirmed  *)
(* blocks, through the transaction writers of db/bbolt and db/leveldb.     *)
(*                                                                         *)
(* The ledger is external: a block is a list of transactions, each to      *)
(* spend outputs that exist and are unspent at its place in the block.  A  *)
(* block may hold a transaction whose script fails, which is in the block  *)
(* for its collateral: its inputs stay unspent and its outputs never are.  *)
(* Only the blocks the indexer confirms are here; module ChainFollower     *)
(* says which they are.  An output stands for its TxInput (the hash and    *)
(* the index that identify it) as well as for its TxOutput (the address).  *)
(***************************************************************************)
EXTENDS Naturals, Sequences, FiniteSets

CONSTANTS
  Tx,                  \* the transactions the ledger may contain
  Invalid,             \* those whose script fails, IsValid() is false
  Output,              \* their outputs and those from before the index
  Address,
  Nowhere,             \* the address of Go's zero TxOutput
  Zero,                \* Go's zero TxInput
  Spends,              \* the outputs a transaction spends
  Creates,             \* the outputs a transaction creates
  AddressOf,           \* the address of an output
  Configs,             \* the configurations to be tried
  ChainedConfigs,      \* those tried with blocks that spend what they create
  MaxBlockSize         \* bound: transactions of a block

\* NewBlockIndexer panics when neither side of a transaction is checked.
Config == [backend : {"bbolt", "leveldb"},
           SoftDeleteUtxo : BOOLEAN,
           KeepAllTxOutputsInDB : BOOLEAN,
           AddressCheck : SUBSET {"inputs", "outputs"} \ {{}},
           addressesOfInterest : SUBSET Address]

ASSUME UtxoAssumption ==
  /\ Zero \notin Output
  /\ Nowhere \notin Address
  /\ Invalid \subseteq Tx
  /\ Spends \in [Tx -> SUBSET Output]
  /\ Creates \in [Tx -> SUBSET Output]
  /\ \A t, u \in Tx : t # u => Creates[t] \cap Creates[u] = {}
  /\ AddressOf \in [Output -> Address]
  /\ Configs \subseteq Config
  /\ ChainedConfigs \subseteq Configs
  /\ MaxBlockSize \in Nat \ {0}

VARIABLES
  config,      \* the configuration, which never changes
  blocks,      \* the ledger: how many blocks there are so far
  height,      \* the ledger: the block a transaction is in, 0 when in none yet
  dbTxOutputs, \* on disk: "unspent", "used", or "missing" when there is none
  dbTxs        \* on disk: the transactions of interest, unprocessed or not

vars == <<config, blocks, height, dbTxOutputs, dbTxs>>

onChain == {t \in Tx : height[t] > 0}

Created(txs) == UNION {Creates[t] : t \in txs}
Spent(txs) == UNION {Spends[t] : t \in txs}

\* The outputs that existed before the index was started.
Genesis == Output \ Created(Tx)

\* What the ledger has unspent after the transactions.
CreatedUnspent(txs) == Created(txs \ Invalid) \ Spent(txs \ Invalid)
Unspent(txs) == CreatedUnspent(txs) \cup (Genesis \ Spent(txs \ Invalid))

TxsOf(block) == {block[i] : i \in 1..Len(block)}

\* A list of transactions the ledger accepts as its next block.
IsBlock(block) ==
  \A i \in 1..Len(block) :
     LET earlier == onChain \cup {block[j] : j \in 1..(i - 1)}
     IN /\ block[i] \notin earlier
        /\ Spends[block[i]] \subseteq Unspent(earlier)
        /\ config \in ChainedConfigs \/ Spends[block[i]] \subseteq Unspent(onChain)

IsOfInterest(address) == address \in config.addressesOfInterest

-----------------------------------------------------------------------------
\* Reading the database.

\* GetTxOutput: the zero TxOutput has no address and is not used.
GetTxOutput(output) ==
  IF dbTxOutputs[output] = "missing"
    THEN [Address |-> Nowhere, IsUsed |-> FALSE]
    ELSE [Address |-> AddressOf[output], IsUsed |-> dbTxOutputs[output] = "used"]

\* The key an output is stored under read back as a TxInput.  In leveldb it
\* carries the prefix of its bucket, which NewTxInputFromBytes refuses, and
\* the error is dropped.
InputOfKey(output) == IF config.backend = "bbolt" THEN output ELSE Zero

\* The inputs GetAllTxOutputs lists.
GetAllTxOutputs(address, onlyNotUsed) ==
  {InputOfKey(output) : output \in
     {o \in Output : /\ dbTxOutputs[o] # "missing"
                     /\ AddressOf[o] = address
                     /\ ~(onlyNotUsed /\ dbTxOutputs[o] = "used")}}

-----------------------------------------------------------------------------
\* Storing a confirmed block.

isTxOutputOfInterest(tx) == \E o \in Creates[tx] : IsOfInterest(AddressOf[o])

isTxInputOfInterest(tx) ==
  \E o \in Spends[tx] :
     ~GetTxOutput(o).IsUsed /\ IsOfInterest(GetTxOutput(o).Address)

\* Mutant: with outputs checked the inputs are never looked at.
FilterOneSide(txs) ==
  {tx \in txs :
     \/ config.addressesOfInterest = {}
     \/ "outputs" \in config.AddressCheck /\ isTxOutputOfInterest(tx)
     \/ config.AddressCheck = {"inputs"} /\ isTxInputOfInterest(tx)}

filterTxsOfInterest(txs) ==
  {tx \in txs :
     \/ config.addressesOfInterest = {}
     \/ "outputs" \in config.AddressCheck /\ isTxOutputOfInterest(tx)
     \/ "inputs" \in config.AddressCheck /\ isTxInputOfInterest(tx)}

\* Mutant: an input that is not in the database becomes the zero input.
CreateTxWithZeroInputs(tx) ==
  [tx |-> tx,
   resolved |-> {IF GetTxOutput(o).Address # Nowhere THEN o ELSE Zero : o \in Spends[tx]}]

\* The inputs createTx finds in the database.
createTx(tx) ==
  [tx |-> tx,
   resolved |-> {o \in Spends[tx] : GetTxOutput(o).Address # Nowhere}]

\* Mutant: only the outputs of interest are kept, whatever the configuration.
OutputsOfInterest(txs, ofInterest) ==
  {o \in Created(txs) : IsOfInterest(AddressOf[o])}

\* The outputs to save; all of them when there is no address of interest.
getTxOutputs(txs, ofInterest) ==
  IF config.KeepAllTxOutputsInDB \/ config.addressesOfInterest = {}
    THEN Created(txs)
    ELSE {o \in Created(ofInterest) : IsOfInterest(AddressOf[o])}

\* Mutant: only the transactions of interest spend anything.
InputsOfInterest(txs, ofInterest) == Spent(ofInterest)

\* The outputs to remove.
getTxInputs(txs, ofInterest) ==
  IF config.KeepAllTxOutputsInDB THEN Spent(txs) ELSE Spent(ofInterest)

AddTxOutputs(outputs, store) ==
  [o \in Output |-> IF o \in outputs THEN "unspent" ELSE store[o]]

\* A hard delete removes the outputs, a soft one marks those it finds.
Removed(outputs, store, found) ==
  [o \in Output |->
     CASE o \in outputs /\ ~config.SoftDeleteUtxo -> "missing"
       [] o \in outputs /\ config.SoftDeleteUtxo /\ found[o] # "missing" -> "used"
       [] OTHER -> store[o]]

\* bbolt finds what the transaction has written so far.
bboltRemoveTxOutputs(outputs, store) == Removed(outputs, store, store)

\* leveldb finds only what was there before the batch.
leveldbRemoveTxOutputs(outputs, store) == Removed(outputs, store, dbTxOutputs)

RemoveTxOutputs(outputs, store) ==
  IF config.backend = "bbolt" THEN bboltRemoveTxOutputs(outputs, store)
                              ELSE leveldbRemoveTxOutputs(outputs, store)

Init ==
  /\ config \in Configs
  /\ blocks = 0
  /\ height = [t \in Tx |-> 0]
  /\ dbTxOutputs = [o \in Output |-> "missing"]
  /\ dbTxs = {}

\* One database transaction, all or nothing; a failed one changes nothing.
ProcessConfirmedBlock(block) ==
  LET txs == TxsOf(block)
      ofInterest == filterTxsOfInterest(txs)
  IN /\ dbTxs' = dbTxs \cup {createTx(tx) : tx \in ofInterest}
     /\ dbTxOutputs' = RemoveTxOutputs(getTxInputs(txs, ofInterest),
                                       AddTxOutputs(getTxOutputs(txs, ofInterest), dbTxOutputs))
     /\ blocks' = blocks + 1
     /\ height' = [t \in Tx |-> IF t \in txs THEN blocks + 1 ELSE height[t]]
     /\ UNCHANGED config

Next ==
  \E n \in 1..MaxBlockSize : \E block \in [1..n -> Tx] :
     IsBlock(block) /\ ProcessConfirmedBlock(block)

Spec == Init /\ [][Next]_vars

-----------------------------------------------------------------------------
TypeOK ==
  /\ config \in Configs
  /\ blocks \in Nat
  /\ height \in [Tx -> 0..blocks]
  /\ dbTxOutputs \in [Output -> {"missing", "unspent", "used"}]
  /\ dbTxs \subseteq [tx : Tx, resolved : SUBSET Output]

\* The outputs the configuration asks to keep.
IsKept(output) ==
  \/ config.KeepAllTxOutputsInDB
  \/ config.addressesOfInterest = {}
  \/ IsOfInterest(AddressOf[output])

\* With one side of a transaction unchecked and the other outputs dropped, the
\* index is not meant to follow an address through both.
ChecksBothSides ==
  \/ config.KeepAllTxOutputsInDB
  \/ config.addressesOfInterest = {}
  \/ config.AddressCheck = {"inputs", "outputs"}

\* The outputs of interest the ledger has: created under the index, not spent.
LedgerOutputs == {o \in CreatedUnspent(onChain) : IsKept(o)}

\* What the database has as unspent is what is unspent on the ledger, block
\* after block, whichever backend, way of deleting and set of outputs to keep
\* is configured (block_indexer.go, "add all needed outputs, remove used ones
\* in db tx").
IndexMatchesLedger ==
  ChecksBothSides => {o \in Output : dbTxOutputs[o] = "unspent"} = LedgerOutputs

\* The owner of an address of interest who asks for its unspent outputs gets
\* the ledger's answer, every output under its own hash and index.
QueryMatchesLedger ==
  ChecksBothSides =>
    \A address \in config.addressesOfInterest :
       GetAllTxOutputs(address, TRUE) = {o \in LedgerOutputs : AddressOf[o] = address}

\* The ledger's view of a transaction of interest: it pays to an address of
\* interest or spends one of the outputs, if such an address received it.
TouchesInterest(tx, outputs) ==
  \/ config.addressesOfInterest = {}
  \/ "outputs" \in config.AddressCheck /\ isTxOutputOfInterest(tx)
  \/ /\ "inputs" \in config.AddressCheck
     /\ \E o \in Spends[tx] \cap outputs : IsOfInterest(AddressOf[o])

\* The outputs created under the index, in blocks before the transaction's.
CreatedBefore(tx) == Created({t \in onChain : height[t] < height[tx]})

\* The stored transactions are exactly those with an address of interest in
\* their inputs or outputs (README, "Address Specification").
TxsOfInterestStored ==
  ChecksBothSides =>
    {r.tx : r \in dbTxs} = {tx \in onChain : TouchesInterest(tx, Output \ Genesis)}

\* The same, but for the inputs a block itself has created, which
\* isTxInputOfInterest cannot find: no other transaction is missed, however
\* many blocks lie between an output and its spending, and no other is stored.
KnownTxsStored ==
  ChecksBothSides =>
    {r.tx : r \in dbTxs} = {tx \in onChain : TouchesInterest(tx, CreatedBefore(tx))}

\* A stored transaction names the address of every input that an earlier block
\* has created and the index has kept (createTx), although by then later
\* blocks may have spent others.
InputsAreResolved ==
  ChecksBothSides =>
    \A r \in dbTxs :
       r.resolved = {o \in Spends[r.tx] \cap CreatedBefore(r.tx) : IsKept(o)}

-----------------------------------------------------------------------------
\* The conjuncts of the inductive invariant that are no property by themselves.

\* What is spent on the ledger was there before the index or created on it.
LedgerIsSound == Spent(onChain) \subseteq Genesis \cup Created(onChain)

\* A soft delete marks what is spent.
UsedIsSpent == \A o \in Output : dbTxOutputs[o] = "used" => o \in Spent(onChain)

\* Where a block may spend what it creates, every output is kept and a writer
\* finds what it has added.
ChainedConfigsKeepAll ==
  \A c \in ChainedConfigs :
     /\ c.KeepAllTxOutputsInDB \/ c.addressesOfInterest = {}
     /\ c.backend = "bbolt" \/ ~c.SoftDeleteUtxo
=============================================================================
