------------------------------- MODULE LevelDB -------------------------------
(***************************************************************************)
(* db/leveldb: one ordered store for everything, where the first bytes of  *)
(* a key name its bucket.  A writer reads the store as it is and collects  *)
(* what is to change in a batch, which the library writes as a whole: an   *)
(* operation does not see those before it, and the process may die or the  *)
(* consumer may read and mark between the batch and its write.             *)
(*                                                                         *)
(* A bucket's prefix is one digit and its separator another.               *)
(***************************************************************************)
EXTENDS Data

CONSTANT Absent   \* what a batch leaves under a key it deletes

VARIABLES
  db,      \* values by key
  batch,   \* <<>>, or <<b>> with the batch to be written: values by key
  handed   \* the transactions the consumer has read and not yet marked

vars == <<db, batch, handed>>

txOutputsBucket        == <<1>>
latestBlockPointBucket == <<2>>
processedTxsBucket     == <<3>>
unprocessedTxsBucket   == <<4>>
confirmedBlocks        == <<5>>

Init == db = <<>> /\ batch = <<>> /\ handed = {}

bucketKey(bucket, key) == bucket \o <<0>> \o key

OutputKey(input) == bucketKey(txOutputsBucket, TxInputKey(input))

\* util.BytesPrefix.
Prefixed(bucket) == {k \in DOMAIN db : IsPrefix(bucket, k)}

Deletions(keys) == [k \in keys |-> Absent]

\* batch.Put of values that have their own keys in a bucket.
Puts(bucket, values, Key(_)) ==
  [k \in {bucketKey(bucket, Key(v)) : v \in values} |->
     CHOOSE v \in values : bucketKey(bucket, Key(v)) = k]

\* b, and c where b says nothing.
Over(b, c) == [k \in DOMAIN b \cup DOMAIN c |-> IF k \in DOMAIN b THEN b[k] ELSE c[k]]

Written(b) ==
  LET all == Over(b, db) IN [k \in {l \in DOMAIN all : all[l] # Absent} |-> all[k]]

-----------------------------------------------------------------------------
\* What an operation puts into the batch.
Operation(c) ==
  CASE c.call = "SetLatestBlockPoint" -> [k \in {latestBlockPointBucket} |-> c.slot]
    [] c.call = "AddConfirmedBlock" -> Puts(confirmedBlocks, {c.block}, BlockKey)
    [] c.call = "AddConfirmedTxs" -> Puts(unprocessedTxsBucket, c.txs, TxKey)
    [] c.call = "AddTxOutputs" ->
         [k \in {OutputKey(i) : i \in c.inputs} |->
            TxOutput(CHOOSE i \in c.inputs : OutputKey(i) = k, c.slot)]
    [] c.call = "RemoveTxOutputs" /\ ~c.softDelete ->
         Deletions({OutputKey(i) : i \in c.inputs})
    [] c.call = "RemoveTxOutputs" /\ c.softDelete ->
         [k \in {OutputKey(i) : i \in c.inputs} \cap DOMAIN db |->
            [db[k] EXCEPT !.IsUsed = TRUE]]
    [] c.call = "DeleteAllTxOutputsPhysically" -> Deletions(Prefixed(txOutputsBucket))

\* The operations one after the other; the last one on a key counts.
BatchOf(calls) ==
  LET On(k) == {i \in DOMAIN calls : k \in DOMAIN Operation(calls[i])}
  IN [k \in UNION {DOMAIN Operation(calls[i]) : i \in DOMAIN calls} |->
        Operation(calls[Max(On(k))])[k]]

\* Mutant: the first operation writes to the store and not to the batch.
ExecuteUnbatched(calls) ==
  /\ batch = <<>>
  /\ db' = Written(BatchOf(<<Head(calls)>>))
  /\ batch' = <<BatchOf(Tail(calls))>>
  /\ UNCHANGED handed

\* Execute up to its db.Write.
Execute(calls) ==
  /\ batch = <<>>
  /\ batch' = <<BatchOf(calls)>>
  /\ UNCHANGED <<db, handed>>

Write ==
  /\ batch # <<>>
  /\ db' = Written(Head(batch))
  /\ batch' = <<>>
  /\ UNCHANGED handed

\* The write fails, or the process dies before it.
WriteFails ==
  /\ batch # <<>>
  /\ batch' = <<>>
  /\ UNCHANGED <<db, handed>>

-----------------------------------------------------------------------------
\* Queries, with an iterator that goes forward, backward or from a key.

Values(keys) ==
  LET sorted == Sorted(keys, Below) IN [i \in DOMAIN sorted |-> db[sorted[i]]]

GetLatestBlockPoint ==
  IF latestBlockPointBucket \in DOMAIN db THEN db[latestBlockPointBucket] ELSE 0

GetTxOutput(input) ==
  IF OutputKey(input) \in DOMAIN db THEN db[OutputKey(input)] ELSE ZeroTxOutput

GetUnprocessedConfirmedTxs(maxCnt) ==
  Limited(Values(Prefixed(unprocessedTxsBucket)), maxCnt)

GetLatestConfirmedBlocks(maxCnt) ==
  Limited(Reverse(Values(Prefixed(confirmedBlocks))), maxCnt)

\* Mutant: Seek is given a key without its bucket.
SeekWithoutBucket(slot, maxCnt) ==
  Limited(Values({k \in Prefixed(confirmedBlocks) : ~Below(k, SlotNumberToKey(slot))}), maxCnt)

GetConfirmedBlocksFrom(slot, maxCnt) ==
  LET first == bucketKey(confirmedBlocks, SlotNumberToKey(slot))
  IN Limited(Values({k \in Prefixed(confirmedBlocks) : ~Below(k, first)}), maxCnt)

\* The answers there may be: an input is made of a key with its prefix, and
\* sort.Slice leaves outputs it finds equal in any order.
GetAllTxOutputs(address, onlyNotUsed) ==
  LET found == {k \in Prefixed(txOutputsBucket) :
                  db[k].Address = address /\ ~(onlyNotUsed /\ db[k].IsUsed)}
      Result(keys) == [i \in DOMAIN keys |->
                         [Input |-> NewTxInputFromBytes(keys[i]), Output |-> db[keys[i]]]]
      BySlot(result) == \A i, j \in DOMAIN result :
                          i < j => result[i].Output.Slot <= result[j].Output.Slot
  IN {r \in {Result(keys) : keys \in SetToSeqs(found)} : BySlot(r)}

-----------------------------------------------------------------------------
\* The consumer, see module Database.

ReadUnprocessed(maxCnt) ==
  /\ handed = {}
  /\ handed' = ToSet(GetUnprocessedConfirmedTxs(maxCnt))
  /\ UNCHANGED <<db, batch>>

MarkConfirmedTxsProcessed ==
  /\ handed # {}
  /\ db' = Written(Over(Puts(processedTxsBucket, handed, TxKey),
                        Deletions({bucketKey(unprocessedTxsBucket, TxKey(t)) : t \in handed})))
  /\ handed' = {}
  /\ UNCHANGED batch

ConsumerFails ==
  /\ handed # {}
  /\ handed' = {}
  /\ UNCHANGED <<db, batch>>

Next ==
  \/ \E calls \in Calls(GetLatestBlockPoint, "leveldb" \in SoftDeletesOwn) : Execute(calls)
  \/ Write
  \/ WriteFails
  \/ \E maxCnt \in 0..2 : ReadUnprocessed(maxCnt)
  \/ MarkConfirmedTxsProcessed
  \/ ConsumerFails

Spec == Init /\ [][Next]_vars

-----------------------------------------------------------------------------
ValuesOf(bucket) == {db[k] : k \in Prefixed(bucket)}

Stored == {i \in TxInputs : OutputKey(i) \in DOMAIN db}

\* What the store says, in the terms of module Database.
Store ==
  [point |-> GetLatestBlockPoint,
   blocks |-> ValuesOf(confirmedBlocks),
   outputs |-> [i \in Stored |-> db[OutputKey(i)]],
   unprocessed |-> ValuesOf(unprocessedTxsBucket),
   processed |-> ValuesOf(processedTxsBucket)]
=============================================================================
