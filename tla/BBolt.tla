-------------------------------- MODULE BBolt --------------------------------
(***************************************************************************)
(* db/bbolt: a bucket per kind of value, a function from keys to values    *)
(* that is read in the order of its keys.  An Update or a View of the      *)
(* library is atomic, and an Update sees what it has written so far.       *)
(***************************************************************************)
EXTENDS Data

VARIABLES
  latestBlockPointBucket, confirmedBlocks, txOutputsBucket,
  unprocessedTxsBucket, processedTxsBucket,
  handed   \* the transactions the consumer has read and not yet marked

buckets == <<latestBlockPointBucket, confirmedBlocks, txOutputsBucket,
             unprocessedTxsBucket, processedTxsBucket>>
vars == <<buckets, handed>>

defaultKey == <<>>

Init ==
  /\ latestBlockPointBucket = <<>>
  /\ confirmedBlocks = <<>>
  /\ txOutputsBucket = <<>>
  /\ unprocessedTxsBucket = <<>>
  /\ processedTxsBucket = <<>>
  /\ handed = {}

Delete(bucket, keys) == [k \in DOMAIN bucket \ keys |-> bucket[k]]

\* Put one value after the other; the last one under a key stays.
PutAll(bucket, values, Key(_)) ==
  LET new == {Key(v) : v \in values}
  IN [k \in DOMAIN bucket \cup new |->
        IF k \in new THEN CHOOSE v \in values : Key(v) = k ELSE bucket[k]]

-----------------------------------------------------------------------------
\* The operations of a writer, each on the buckets as the one before left
\* them.  Only the outputs are written by two of them.

Keys(inputs) == {TxInputKey(i) : i \in inputs}

ApplyToOutputs(bucket, c) ==
  CASE c.call = "AddTxOutputs" ->
         [k \in DOMAIN bucket \cup Keys(c.inputs) |->
            IF k \in Keys(c.inputs) THEN TxOutput(NewTxInputFromBytes(k), c.slot)
                                    ELSE bucket[k]]
    [] c.call = "RemoveTxOutputs" /\ ~c.softDelete -> Delete(bucket, Keys(c.inputs))
    [] c.call = "RemoveTxOutputs" /\ c.softDelete ->
         [k \in DOMAIN bucket |->
            IF k \in Keys(c.inputs) THEN [bucket[k] EXCEPT !.IsUsed = TRUE] ELSE bucket[k]]
    [] c.call = "DeleteAllTxOutputsPhysically" -> <<>>
    [] OTHER -> bucket

\* The arguments of all calls of one name.
Arguments(calls, name, Argument(_)) ==
  UNION {Argument(calls[i]) : i \in {j \in DOMAIN calls : calls[j].call = name}}

\* The outputs as the first n calls leave them.
OutputsAfter(bucket, calls) ==
  LET after[n \in 0..Len(calls)] ==
        IF n = 0 THEN bucket ELSE ApplyToOutputs(after[n - 1], calls[n])
  IN after

\* What the calls put into the buckets that only one of them writes.
PointsOf(calls) == Arguments(calls, "SetLatestBlockPoint", LAMBDA c : {c.slot})
BlocksOf(calls) == Arguments(calls, "AddConfirmedBlock", LAMBDA c : {c.block})
TransactionsOf(calls) == Arguments(calls, "AddConfirmedTxs", LAMBDA c : c.txs)

Execute(calls) ==
  /\ txOutputsBucket' = OutputsAfter(txOutputsBucket, calls)[Len(calls)]
  /\ latestBlockPointBucket' =
       PutAll(latestBlockPointBucket, PointsOf(calls), LAMBDA slot : defaultKey)
  /\ confirmedBlocks' = PutAll(confirmedBlocks, BlocksOf(calls), BlockKey)
  /\ unprocessedTxsBucket' = PutAll(unprocessedTxsBucket, TransactionsOf(calls), TxKey)
  /\ UNCHANGED <<processedTxsBucket, handed>>

-----------------------------------------------------------------------------
\* Queries, with a cursor that goes forward, backward or from a key.

Ascending(bucket) ==
  LET keys == Sorted(DOMAIN bucket, Below) IN [i \in DOMAIN keys |-> bucket[keys[i]]]

GetLatestBlockPoint ==
  IF latestBlockPointBucket = <<>> THEN 0 ELSE latestBlockPointBucket[defaultKey]

GetTxOutput(input) ==
  IF TxInputKey(input) \in DOMAIN txOutputsBucket
    THEN txOutputsBucket[TxInputKey(input)] ELSE ZeroTxOutput

\* Mutant: the cursor goes backward.
UnprocessedFromLast(maxCnt) == Limited(Reverse(Ascending(unprocessedTxsBucket)), maxCnt)

GetUnprocessedConfirmedTxs(maxCnt) == Limited(Ascending(unprocessedTxsBucket), maxCnt)

GetLatestConfirmedBlocks(maxCnt) ==
  Limited(Reverse(Ascending(confirmedBlocks)), maxCnt)

GetConfirmedBlocksFrom(slot, maxCnt) ==
  LET from == {k \in DOMAIN confirmedBlocks : ~Below(k, SlotNumberToKey(slot))}
  IN Limited(Ascending([k \in from |-> confirmedBlocks[k]]), maxCnt)

GetAllTxOutputs(address, onlyNotUsed) ==
  SortTxInputOutputs(
    {[Input |-> NewTxInputFromBytes(k), Output |-> txOutputsBucket[k]] : k \in
       {l \in DOMAIN txOutputsBucket :
          /\ txOutputsBucket[l].Address = address
          /\ ~(onlyNotUsed /\ txOutputsBucket[l].IsUsed)}})

-----------------------------------------------------------------------------
\* The consumer, see module Database.

ReadUnprocessed(maxCnt) ==
  /\ handed = {}
  /\ handed' = ToSet(GetUnprocessedConfirmedTxs(maxCnt))
  /\ UNCHANGED buckets

\* Mutant: only the last of several transactions is moved.
MarkLastOnly ==
  LET last == {t \in handed : \A u \in handed : ~Below(TxKey(t), TxKey(u))}
  IN /\ handed # {}
     /\ unprocessedTxsBucket' = Delete(unprocessedTxsBucket, {TxKey(t) : t \in handed})
     /\ processedTxsBucket' = PutAll(processedTxsBucket, last, TxKey)
     /\ handed' = {}
     /\ UNCHANGED <<latestBlockPointBucket, confirmedBlocks, txOutputsBucket>>

MarkConfirmedTxsProcessed ==
  /\ handed # {}
  /\ unprocessedTxsBucket' = Delete(unprocessedTxsBucket, {TxKey(t) : t \in handed})
  /\ processedTxsBucket' = PutAll(processedTxsBucket, handed, TxKey)
  /\ handed' = {}
  /\ UNCHANGED <<latestBlockPointBucket, confirmedBlocks, txOutputsBucket>>

ConsumerFails ==
  /\ handed # {}
  /\ handed' = {}
  /\ UNCHANGED buckets

Next ==
  \/ \E calls \in Calls(GetLatestBlockPoint, "bbolt" \in SoftDeletesOwn) : Execute(calls)
  \/ \E maxCnt \in 0..2 : ReadUnprocessed(maxCnt)
  \/ MarkConfirmedTxsProcessed
  \/ ConsumerFails

Spec == Init /\ [][Next]_vars

-----------------------------------------------------------------------------
ValuesOf(bucket) == {bucket[k] : k \in DOMAIN bucket}

\* What the buckets say, in the terms of module Database.
Store ==
  [point |-> GetLatestBlockPoint,
   blocks |-> ValuesOf(confirmedBlocks),
   outputs |-> [i \in {NewTxInputFromBytes(k) : k \in DOMAIN txOutputsBucket} |->
                  txOutputsBucket[TxInputKey(i)]],
   unprocessed |-> ValuesOf(unprocessedTxsBucket),
   processed |-> ValuesOf(processedTxsBucket)]
=============================================================================
