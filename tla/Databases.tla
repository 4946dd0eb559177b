------------------------------ MODULE Databases ------------------------------
(***************************************************************************)
(* db/db.go: a program has one of the two databases, by its name, and uses *)
(* it through the interface of core/database.go.  Either one keeps the     *)
(* promises of module Database.                                            *)
(***************************************************************************)
EXTENDS Data

CONSTANT Absent   \* see LevelDB

\* It is none of the values.
ASSUME AbsentAssumption ==
  /\ Absent \notin Slots \cup Tx \cup Block
  /\ Absent \notin Output

VARIABLES
  backend,   \* which database it is
  latestBlockPointBucket, confirmedBlocks, txOutputsBucket,
  unprocessedTxsBucket, processedTxsBucket,   \* bbolt
  db, batch,                                  \* leveldb
  handed     \* the transactions the consumer has read and not yet marked

bboltVars == <<latestBlockPointBucket, confirmedBlocks, txOutputsBucket,
               unprocessedTxsBucket, processedTxsBucket>>
leveldbVars == <<db, batch>>
vars == <<backend, bboltVars, leveldbVars, handed>>

BBoltDatabase == INSTANCE BBolt
LevelDBDatabase == INSTANCE LevelDB

IsBBolt == backend = "bbolt"

\* NewDatabaseInit; the database of the other name is never opened.
Init ==
  /\ backend \in {"bbolt", "leveldb"}
  /\ BBoltDatabase!Init
  /\ LevelDBDatabase!Init

Next ==
  \/ IsBBolt /\ BBoltDatabase!Next /\ UNCHANGED <<backend, leveldbVars>>
  \/ ~IsBBolt /\ LevelDBDatabase!Next /\ UNCHANGED <<backend, bboltVars>>

Spec == Init /\ [][Next]_vars

-----------------------------------------------------------------------------
\* Calls of the interface go to the database there is.

GetUnprocessedConfirmedTxs(maxCnt) ==
  IF IsBBolt THEN BBoltDatabase!GetUnprocessedConfirmedTxs(maxCnt)
             ELSE LevelDBDatabase!GetUnprocessedConfirmedTxs(maxCnt)

GetLatestConfirmedBlocks(maxCnt) ==
  IF IsBBolt THEN BBoltDatabase!GetLatestConfirmedBlocks(maxCnt)
             ELSE LevelDBDatabase!GetLatestConfirmedBlocks(maxCnt)

GetConfirmedBlocksFrom(slot, maxCnt) ==
  IF IsBBolt THEN BBoltDatabase!GetConfirmedBlocksFrom(slot, maxCnt)
             ELSE LevelDBDatabase!GetConfirmedBlocksFrom(slot, maxCnt)

GetTxOutput(input) ==
  IF IsBBolt THEN BBoltDatabase!GetTxOutput(input) ELSE LevelDBDatabase!GetTxOutput(input)

-----------------------------------------------------------------------------
Promised == INSTANCE Database WITH
  store <- IF IsBBolt THEN BBoltDatabase!Store ELSE LevelDBDatabase!Store

\* Buckets of keyed values, and one store with prefixes and batches, are the
\* sets of module Database: no key stands for two values, a transaction acts
\* as a whole and in the order of its calls whatever a consumer did since its
\* operations read the store, and not at all when it fails.
ImplementsDatabase == Promised!Spec

\* See module Database.
ProcessedInOrder == Promised!ProcessedInOrder
StoredTogether == Promised!StoredTogether

Outputs(result) == [i \in DOMAIN result |-> result[i].Output]

\* Cursors over byte keys meet the values of one kind in the order of the
\* chain, and what is stored is found again, whatever limits are set.  Of the
\* inputs leveldb lists nothing is said here, see QueryMatchesLedger in module
\* UtxoIndex.
QueriesAgree ==
  /\ \A maxCnt \in 0..2 :
       /\ GetUnprocessedConfirmedTxs(maxCnt) = Promised!GetUnprocessedConfirmedTxs(maxCnt)
       /\ GetLatestConfirmedBlocks(maxCnt) = Promised!GetLatestConfirmedBlocks(maxCnt)
       /\ \A slot \in Slots \cup {0} :
            GetConfirmedBlocksFrom(slot, maxCnt) = Promised!GetConfirmedBlocksFrom(slot, maxCnt)
  /\ \A input \in TxInputs : GetTxOutput(input) = Promised!GetTxOutput(input)
  /\ \A address \in Address \cup {Nowhere}, onlyNotUsed \in BOOLEAN :
       LET promised == Promised!GetAllTxOutputs(address, onlyNotUsed)
       IN IF IsBBolt
            THEN BBoltDatabase!GetAllTxOutputs(address, onlyNotUsed) = promised
            ELSE Outputs(promised) \in
                   {Outputs(r) : r \in LevelDBDatabase!GetAllTxOutputs(address, onlyNotUsed)}
=============================================================================
