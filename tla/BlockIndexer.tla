---------------------------- MODULE BlockIndexer ----------------------------
(***************************************************************************)
(* The block indexer of core/block_indexer.go with the database it writes  *)
(* and the confirmed-block handler of main.go.                             *)
(*                                                                         *)
(* Headers wait in unconfirmedBlocks until ConfirmationBlockCount further  *)
(* headers have followed; the oldest is then fetched, stored in one        *)
(* database transaction and handed to the handler.  Every method holds     *)
(* bi.mutex from its first to its last line, so each is one action, with   *)
(* one exception: RollForwardFunc calls the handler after its database     *)
(* transaction, and the process may die in between.  handlerCall is the    *)
(* block the handler is working on, and no method runs until it returns.   *)
(*                                                                         *)
(* The queue is the list of module BoundedQueue, which the ring buffer of  *)
(* module CircularQueue implements.  A header and its block are one value, *)
(* and so are a block and the transactions of interest in it.              *)
(***************************************************************************)
EXTENDS Integers, Sequences

CONSTANTS
  Block,                   \* the blocks a node can serve
  Origin,                  \* the point before the first block, BlockPoint{}
  Nil,                     \* Go's nil
  Slot,                    \* the slot of a block; Origin has slot 0
  BlocksOfInterest,        \* the blocks with transactions of interest
  StartingBlockPoint,      \* from the configuration, may be Nil
  ConfirmationBlockCount   \* from the configuration

Point == Block \cup {Origin}

\* With a count of 0 RollForwardFunc would fetch the block of a nil header.
ASSUME IndexerAssumption ==
  /\ Origin \notin Block
  /\ Nil \notin Point
  /\ Slot \in [Point -> Nat]
  /\ Slot[Origin] = 0
  /\ BlocksOfInterest \subseteq Block
  /\ StartingBlockPoint \in Point \cup {Nil}
  /\ ConfirmationBlockCount \in Nat \ {0}

VARIABLES
  latestBlockPoint,    \* in memory: the newest confirmed block
  unconfirmedBlocks,   \* in memory: headers that wait, oldest first
  handlerCall,         \* the confirmed block the handler is given, or Nil
  dbLatestBlockPoint,  \* on disk: the newest confirmed block, or Nil
  dbConfirmedBlocks,   \* on disk: the confirmed block stored for a slot
  dbUnprocessedTxs,    \* on disk: blocks whose transactions wait for the handler
  dbProcessedTxs       \* on disk: blocks whose transactions were processed

memVars == <<latestBlockPoint, unconfirmedBlocks, handlerCall>>
dbVars == <<dbLatestBlockPoint, dbConfirmedBlocks, dbUnprocessedTxs, dbProcessedTxs>>
indexerVars == <<memVars, dbVars>>

\* CardanoBlock.Key: the slot alone is the key of a confirmed block.
SlotNumbers == {Slot[block] : block \in Block}

StartPoint == IF StartingBlockPoint = Nil THEN Origin ELSE StartingBlockPoint
ResumePoint == IF dbLatestBlockPoint = Nil THEN StartPoint ELSE dbLatestBlockPoint

\* Mutant: the queue counts as full one header early.
IsFullEarly == Len(unconfirmedBlocks) >= ConfirmationBlockCount - 1

IsFull == Len(unconfirmedBlocks) = ConfirmationBlockCount

NewBlockIndexer ==
  /\ latestBlockPoint = Nil
  /\ unconfirmedBlocks = <<>>
  /\ handlerCall = Nil
  /\ dbLatestBlockPoint = Nil
  /\ dbConfirmedBlocks = [slot \in SlotNumbers |-> Nil]
  /\ dbUnprocessedTxs = {}
  /\ dbProcessedTxs = {}

-----------------------------------------------------------------------------
\* The methods.  A method waits for the mutex, which RollForwardFunc keeps
\* until the handler returns.

Reset ==
  /\ handlerCall = Nil
  /\ latestBlockPoint' = ResumePoint
  /\ unconfirmedBlocks' = <<>>
  /\ UNCHANGED <<handlerCall, dbVars>>

\* Mutant: a header is queued without asking whether the queue has room.
QueueHeaderAlways(header) ==
  /\ handlerCall = Nil
  /\ unconfirmedBlocks' = Append(unconfirmedBlocks, header)
  /\ UNCHANGED <<latestBlockPoint, handlerCall, dbVars>>

\* RollForwardFunc while the queue has room.
QueueHeader(header) ==
  /\ handlerCall = Nil
  /\ ~IsFull
  /\ unconfirmedBlocks' = Append(unconfirmedBlocks, header)
  /\ UNCHANGED <<latestBlockPoint, handlerCall, dbVars>>

\* One database transaction: the block, the latest point, the transactions.
ProcessConfirmedBlock(block) ==
  /\ dbConfirmedBlocks' = [dbConfirmedBlocks EXCEPT ![Slot[block]] = block]
  /\ dbLatestBlockPoint' = block
  /\ dbUnprocessedTxs' = dbUnprocessedTxs \cup (BlocksOfInterest \cap {block})
  /\ UNCHANGED dbProcessedTxs

\* Mutant: the new header is pushed before the oldest one is popped, and the
\* full queue refuses it.
ConfirmFirstPushThenPop(header) ==
  LET first == Head(unconfirmedBlocks)
  IN /\ handlerCall = Nil
     /\ IsFull
     /\ ProcessConfirmedBlock(first)
     /\ latestBlockPoint' = first
     /\ unconfirmedBlocks' = Tail(unconfirmedBlocks)
     /\ handlerCall' = first

\* RollForwardFunc with a full queue: the oldest header becomes final.
ConfirmFirst(header) ==
  LET first == Head(unconfirmedBlocks)
  IN /\ handlerCall = Nil
     /\ IsFull
     /\ ProcessConfirmedBlock(first)
     /\ latestBlockPoint' = first
     /\ unconfirmedBlocks' = Append(Tail(unconfirmedBlocks), header)
     /\ handlerCall' = first

\* Mutant: the point in memory moves before the database transaction, which
\* fails.
RollForwardFailsLate ==
  /\ handlerCall = Nil
  /\ IsFull
  /\ latestBlockPoint' = Head(unconfirmedBlocks)
  /\ UNCHANGED <<unconfirmedBlocks, handlerCall, dbVars>>

\* Mutant: the block is stored outside the transaction that fails.
RollForwardFailsHalfway ==
  LET first == Head(unconfirmedBlocks)
  IN /\ handlerCall = Nil
     /\ IsFull
     /\ dbConfirmedBlocks' = [dbConfirmedBlocks EXCEPT ![Slot[first]] = first]
     /\ UNCHANGED <<memVars, dbLatestBlockPoint, dbUnprocessedTxs, dbProcessedTxs>>

\* RollForwardFunc with a full queue: the block cannot be fetched, a read of
\* the database fails or the transaction does.  The new header is dropped.
RollForwardFails ==
  /\ handlerCall = Nil
  /\ IsFull
  /\ UNCHANGED indexerVars

\* Mutant: SetCount(indx) instead of SetCount(indx + 1).
RollBackBelowUnconfirmed(point) ==
  /\ handlerCall = Nil
  /\ \E i \in 1..Len(unconfirmedBlocks) :
        /\ unconfirmedBlocks[i] = point
        /\ \A j \in 1..(i - 1) : unconfirmedBlocks[j] # point
        /\ unconfirmedBlocks' = SubSeq(unconfirmedBlocks, 1, i - 1)
  /\ UNCHANGED <<latestBlockPoint, handlerCall, dbVars>>

RollBackToUnconfirmed(point) ==
  /\ handlerCall = Nil
  /\ \E i \in 1..Len(unconfirmedBlocks) :
        /\ unconfirmedBlocks[i] = point
        /\ \A j \in 1..(i - 1) : unconfirmedBlocks[j] # point
        /\ unconfirmedBlocks' = SubSeq(unconfirmedBlocks, 1, i)
  /\ UNCHANGED <<latestBlockPoint, handlerCall, dbVars>>

IsUnconfirmed(point) ==
  \E i \in 1..Len(unconfirmedBlocks) : unconfirmedBlocks[i] = point

RollBackToConfirmed(point) ==
  /\ handlerCall = Nil
  /\ ~IsUnconfirmed(point)
  /\ point = latestBlockPoint
  /\ unconfirmedBlocks' = <<>>
  /\ UNCHANGED <<latestBlockPoint, handlerCall, dbVars>>

\* Mutant: a rollback to the confirmed point itself is refused.
RollBackRefusedToo(point) ==
  /\ handlerCall = Nil
  /\ ~IsUnconfirmed(point)
  /\ UNCHANGED indexerVars

\* The fatal error: a confirmed block should not have been confirmed.
RollBackRefused(point) ==
  /\ handlerCall = Nil
  /\ ~IsUnconfirmed(point)
  /\ point # latestBlockPoint
  /\ UNCHANGED indexerVars

\* Mutant: only the block of this call is marked, everything is cleared.
HandlerMarksItsBlock ==
  /\ handlerCall # Nil
  /\ dbProcessedTxs' = dbProcessedTxs \cup (dbUnprocessedTxs \cap {handlerCall})
  /\ dbUnprocessedTxs' = {}
  /\ handlerCall' = Nil
  /\ UNCHANGED <<latestBlockPoint, unconfirmedBlocks, dbLatestBlockPoint, dbConfirmedBlocks>>

\* The handler of main.go reads everything unprocessed and marks all of it.
HandlerReturns ==
  /\ handlerCall # Nil
  /\ dbProcessedTxs' = dbProcessedTxs \cup dbUnprocessedTxs
  /\ dbUnprocessedTxs' = {}
  /\ handlerCall' = Nil
  /\ UNCHANGED <<latestBlockPoint, unconfirmedBlocks, dbLatestBlockPoint, dbConfirmedBlocks>>

HandlerFails ==
  /\ handlerCall # Nil
  /\ handlerCall' = Nil
  /\ UNCHANGED <<latestBlockPoint, unconfirmedBlocks, dbVars>>

\* The process ends, in the middle of a handler call too, and starts again.
ProcessRestarts ==
  /\ latestBlockPoint' = Nil
  /\ unconfirmedBlocks' = <<>>
  /\ handlerCall' = Nil
  /\ UNCHANGED dbVars

-----------------------------------------------------------------------------
\* The blocks on disk.
Confirmed == {dbConfirmedBlocks[slot] : slot \in SlotNumbers} \ {Nil}

IndexerTypeOK ==
  /\ latestBlockPoint \in Point \cup {Nil}
  /\ unconfirmedBlocks \in Seq(Block)
  /\ Len(unconfirmedBlocks) <= ConfirmationBlockCount
  /\ handlerCall \in Block \cup {Nil}
  /\ dbLatestBlockPoint \in Block \cup {Nil}
  /\ dbConfirmedBlocks \in [SlotNumbers -> Block \cup {Nil}]
  /\ dbUnprocessedTxs \subseteq Block
  /\ dbProcessedTxs \subseteq Block

\* The point in memory, against which a rollback is judged, is the point the
\* indexer would resume from after a restart: memory never runs ahead of a
\* transaction that failed and never lags behind one that succeeded.
MemoryMatchesDisk == latestBlockPoint # Nil => latestBlockPoint = ResumePoint

\* A transaction of interest of a confirmed block is either waiting for the
\* handler or processed, and never both: the handler failing or the process
\* dying between the database transaction and the handler loses none, and
\* none is handed out again once it is marked.
NoTxLost ==
  /\ dbUnprocessedTxs \cup dbProcessedTxs = Confirmed \cap BlocksOfInterest
  /\ dbUnprocessedTxs \cap dbProcessedTxs = {}
=============================================================================
