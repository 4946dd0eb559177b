------------------------------ MODULE Database -------------------------------
(***************************************************************************)
(* What core.Database promises: sets of blocks, transactions and outputs,  *)
(* changed by transactions that happen as a whole and in the order of      *)
(* their calls, with queries that answer in the order of the chain.        *)
(*                                                                         *)
(* The indexer writes; a consumer reads transactions it has to process,    *)
(* works on them, and marks them, while the indexer goes on.  Either may   *)
(* fail at any time.                                                       *)
(***************************************************************************)
EXTENDS Data

VARIABLES
  store,   \* point, blocks, outputs by TxInput, unprocessed and processed txs
  handed   \* the transactions the consumer has read and not yet marked

vars == <<store, handed>>

Init ==
  /\ store = [point |-> 0, blocks |-> {}, outputs |-> <<>>, unprocessed |-> {},
              processed |-> {}]
  /\ handed = {}

WithAdded(outputs, inputs, slot) ==
  [i \in DOMAIN outputs \cup inputs |->
     IF i \in inputs THEN TxOutput(i, slot) ELSE outputs[i]]

WithUsed(outputs, inputs) ==
  [i \in DOMAIN outputs |-> [outputs[i] EXCEPT !.IsUsed = @ \/ i \in inputs]]

Without(outputs, inputs) == [i \in DOMAIN outputs \ inputs |-> outputs[i]]

\* One call of a writer.
Apply(s, c) ==
  CASE c.call = "SetLatestBlockPoint" -> [s EXCEPT !.point = c.slot]
    [] c.call = "AddConfirmedBlock" -> [s EXCEPT !.blocks = @ \cup {c.block}]
    [] c.call = "AddConfirmedTxs" -> [s EXCEPT !.unprocessed = @ \cup c.txs]
    [] c.call = "AddTxOutputs" -> [s EXCEPT !.outputs = WithAdded(@, c.inputs, c.slot)]
    [] c.call = "RemoveTxOutputs" /\ c.softDelete ->
         [s EXCEPT !.outputs = WithUsed(@, c.inputs)]
    [] c.call = "RemoveTxOutputs" /\ ~c.softDelete ->
         [s EXCEPT !.outputs = Without(@, c.inputs)]
    [] OTHER -> [s EXCEPT !.outputs = <<>>]   \* DeleteAllTxOutputsPhysically

\* A transaction; one that fails changes nothing.
Execute(calls) ==
  /\ store' = FoldLeft(Apply, store, calls)
  /\ UNCHANGED handed

-----------------------------------------------------------------------------
\* Queries.

IsBefore(t, u) == t.BlockSlot < u.BlockSlot \/ (t.BlockSlot = u.BlockSlot /\ t.Indx < u.Indx)

GetUnprocessedConfirmedTxs(maxCnt) == Limited(Sorted(store.unprocessed, IsBefore), maxCnt)

GetLatestConfirmedBlocks(maxCnt) ==
  Limited(Sorted(store.blocks, LAMBDA b, c : b.Slot > c.Slot), maxCnt)

GetConfirmedBlocksFrom(slot, maxCnt) ==
  Limited(Sorted({b \in store.blocks : b.Slot >= slot}, LAMBDA b, c : b.Slot < c.Slot), maxCnt)

GetTxOutput(input) ==
  IF input \in DOMAIN store.outputs THEN store.outputs[input] ELSE ZeroTxOutput

GetAllTxOutputs(address, onlyNotUsed) ==
  SortTxInputOutputs(
    {[Input |-> i, Output |-> store.outputs[i]] : i \in
       {j \in DOMAIN store.outputs :
          /\ store.outputs[j].Address = address
          /\ ~(onlyNotUsed /\ store.outputs[j].IsUsed)}})

-----------------------------------------------------------------------------
\* The consumer.

ReadUnprocessed(maxCnt) ==
  /\ handed = {}
  /\ handed' = ToSet(GetUnprocessedConfirmedTxs(maxCnt))
  /\ UNCHANGED store

MarkConfirmedTxsProcessed ==
  /\ handed # {}
  /\ store' = [store EXCEPT !.unprocessed = @ \ handed, !.processed = @ \cup handed]
  /\ handed' = {}

\* The consumer dies or its marking fails; it will read again.
ConsumerFails ==
  /\ handed # {}
  /\ handed' = {}
  /\ UNCHANGED store

Next ==
  \/ \E calls \in Calls(store.point, SoftDeletesOwn # {}) : Execute(calls)
  \/ \E maxCnt \in 0..2 : ReadUnprocessed(maxCnt)
  \/ MarkConfirmedTxsProcessed
  \/ ConsumerFails

Spec == Init /\ [][Next]_vars

-----------------------------------------------------------------------------
\* Portions of any size, read while the indexer adds more, are processed in
\* the order of the chain and none is skipped: whatever is processed comes
\* before whatever is not (main.go, "Tx has been processed").
ProcessedInOrder ==
  \A t \in store.processed, u \in store.unprocessed : IsBefore(t, u)

\* A block is stored with its transactions and with the latest point or not
\* at all, and a transaction only changes sides: none is lost or repeated
\* however the consumer's reading and marking meet the indexer's writing.
StoredTogether ==
  /\ store.unprocessed \cup store.processed = UNION {TxsOf(b) : b \in store.blocks}
  /\ store.unprocessed \cap store.processed = {}
  /\ \A b \in store.blocks : b.Slot <= store.point
  /\ store.point # 0 => \E b \in store.blocks : b.Slot = store.point
=============================================================================
