------------------------- MODULE BlockIndexerProofs -------------------------
(***************************************************************************)
(* What every specification that drives the methods of module BlockIndexer *)
(* needs of them: their types, what they do to the queue, and that the     *)
(* point in memory stays the point on disk.                                *)
(***************************************************************************)
EXTENDS BlockIndexer, SequenceTheorems, TLAPS

LEMMA IndexerConstants ==
  /\ ConfirmationBlockCount \in Nat /\ ConfirmationBlockCount # 0
  /\ Nil \notin Point /\ Nil \notin Block /\ Origin \in Point /\ Block \subseteq Point
  /\ StartPoint \in Point
BY IndexerAssumption DEF Point, StartPoint

LEMMA ResumePointType == IndexerTypeOK => ResumePoint \in Point
BY IndexerConstants DEF IndexerTypeOK, ResumePoint

-----------------------------------------------------------------------------
LEMMA QueueTypes ==
  ASSUME IndexerTypeOK, NEW header \in Block, QueueHeader(header)
  PROVE  IndexerTypeOK'
BY IndexerConstants DEF QueueHeader, IsFull, IndexerTypeOK, dbVars

\* The queue of a step that confirms its first header.
LEMMA ConfirmedFirst ==
  ASSUME IndexerTypeOK, NEW header \in Block, ConfirmFirst(header)
  PROVE  /\ unconfirmedBlocks \in Seq(Block)
         /\ Len(unconfirmedBlocks) = ConfirmationBlockCount
         /\ unconfirmedBlocks # <<>>
         /\ Head(unconfirmedBlocks) \in Block
         /\ Head(unconfirmedBlocks) = unconfirmedBlocks[1]
         /\ unconfirmedBlocks' \in Seq(Block)
         /\ Len(unconfirmedBlocks') = ConfirmationBlockCount
         /\ \A i \in 1..ConfirmationBlockCount :
               unconfirmedBlocks'[i] = IF i = ConfirmationBlockCount
                                         THEN header ELSE unconfirmedBlocks[i + 1]
<1>1. /\ unconfirmedBlocks \in Seq(Block)
      /\ Len(unconfirmedBlocks) = ConfirmationBlockCount
      /\ unconfirmedBlocks # <<>>
  BY IndexerConstants DEF ConfirmFirst, IsFull, IndexerTypeOK
<1>2. /\ Head(unconfirmedBlocks) \in Block
      /\ Head(unconfirmedBlocks) = unconfirmedBlocks[1]
      /\ Tail(unconfirmedBlocks) \in Seq(Block)
      /\ Len(Tail(unconfirmedBlocks)) = ConfirmationBlockCount - 1
      /\ \A i \in 1..(ConfirmationBlockCount - 1) :
            Tail(unconfirmedBlocks)[i] = unconfirmedBlocks[i + 1]
  BY <1>1, HeadTailProperties, IndexerConstants
<1>3. unconfirmedBlocks' = Append(Tail(unconfirmedBlocks), header)
  BY DEF ConfirmFirst
<1>4. QED
  BY <1>1, <1>2, <1>3, IndexerConstants

LEMMA ConfirmTypes ==
  ASSUME IndexerTypeOK, NEW header \in Block, ConfirmFirst(header)
  PROVE  IndexerTypeOK'
<1>1. /\ Head(unconfirmedBlocks) \in Block
      /\ unconfirmedBlocks' \in Seq(Block)
      /\ Len(unconfirmedBlocks') = ConfirmationBlockCount
  BY ConfirmedFirst
<1>2. /\ dbLatestBlockPoint' \in Block \cup {Nil}
      /\ dbConfirmedBlocks' \in [SlotNumbers -> Block \cup {Nil}]
      /\ dbUnprocessedTxs' \subseteq Block
      /\ dbProcessedTxs' \subseteq Block
  BY <1>1 DEF ConfirmFirst, ProcessConfirmedBlock, IndexerTypeOK
<1>3. latestBlockPoint' \in Point \cup {Nil} /\ handlerCall' \in Block \cup {Nil}
  BY <1>1, IndexerConstants DEF ConfirmFirst
<1>4. QED
  BY <1>1, <1>2, <1>3, IndexerConstants DEF IndexerTypeOK

\* What a rollback to a queued header leaves in the queue.
LEMMA CutQueue ==
  ASSUME IndexerTypeOK, NEW point, RollBackToUnconfirmed(point)
  PROVE  \E i \in 1..Len(unconfirmedBlocks) :
            /\ unconfirmedBlocks[i] = point
            /\ unconfirmedBlocks' \in Seq(Block)
            /\ Len(unconfirmedBlocks') = i
            /\ \A j \in 1..i : unconfirmedBlocks'[j] = unconfirmedBlocks[j]
<1>1. PICK i \in 1..Len(unconfirmedBlocks) :
        /\ unconfirmedBlocks[i] = point
        /\ unconfirmedBlocks' = SubSeq(unconfirmedBlocks, 1, i)
  BY DEF RollBackToUnconfirmed
<1>2. unconfirmedBlocks \in Seq(Block)
  BY DEF IndexerTypeOK
<1>3. QED
  BY <1>1, <1>2

LEMMA CutTypes ==
  ASSUME IndexerTypeOK, NEW point, RollBackToUnconfirmed(point)
  PROVE  IndexerTypeOK'
<1>1. /\ unconfirmedBlocks' \in Seq(Block)
      /\ Len(unconfirmedBlocks') <= Len(unconfirmedBlocks)
      /\ Len(unconfirmedBlocks') \in Nat /\ Len(unconfirmedBlocks) \in Nat
  BY CutQueue DEF IndexerTypeOK
<1>2. QED
  BY <1>1, IndexerConstants DEF RollBackToUnconfirmed, IndexerTypeOK, dbVars

-----------------------------------------------------------------------------
\* Any call of a method, as every specification that uses them makes it.
IndexerStep ==
  \/ UNCHANGED indexerVars
  \/ Reset
  \/ ProcessRestarts
  \/ \E header \in Block : QueueHeader(header) \/ ConfirmFirst(header)
  \/ \E point \in Point : RollBackToUnconfirmed(point) \/ RollBackToConfirmed(point)
  \/ HandlerReturns
  \/ HandlerFails

LEMMA IndexerTypeKept ==
  ASSUME IndexerTypeOK, IndexerStep
  PROVE  IndexerTypeOK'
<1> USE IndexerConstants DEF dbVars
<1>1. CASE UNCHANGED indexerVars
  BY <1>1 DEF indexerVars, memVars, IndexerTypeOK
<1>2. CASE Reset
  BY <1>2, ResumePointType DEF Reset, IndexerTypeOK
<1>3. CASE ProcessRestarts
  BY <1>3 DEF ProcessRestarts, IndexerTypeOK
<1>4. CASE \E header \in Block : QueueHeader(header) \/ ConfirmFirst(header)
  BY <1>4, QueueTypes, ConfirmTypes
<1>5. CASE \E point \in Point : RollBackToUnconfirmed(point) \/ RollBackToConfirmed(point)
  <2>1. ASSUME NEW point \in Point, RollBackToConfirmed(point)
        PROVE  IndexerTypeOK'
    BY <2>1 DEF RollBackToConfirmed, IndexerTypeOK
  <2>2. QED
    BY <1>5, <2>1, CutTypes
<1>6. CASE HandlerReturns \/ HandlerFails
  BY <1>6 DEF HandlerReturns, HandlerFails, IndexerTypeOK
<1>7. QED
  BY <1>1, <1>2, <1>3, <1>4, <1>5, <1>6 DEF IndexerStep

LEMMA MemoryKept ==
  ASSUME IndexerTypeOK, MemoryMatchesDisk, IndexerStep
  PROVE  MemoryMatchesDisk'
<1> USE DEF MemoryMatchesDisk, ResumePoint, dbVars
<1>1. CASE UNCHANGED indexerVars
  BY <1>1 DEF indexerVars, memVars
<1>2. CASE Reset \/ ProcessRestarts
  BY <1>2 DEF Reset, ProcessRestarts
<1>3. ASSUME NEW header \in Block, QueueHeader(header)
      PROVE  MemoryMatchesDisk'
  BY <1>3 DEF QueueHeader
<1>4. ASSUME NEW header \in Block, ConfirmFirst(header)
      PROVE  MemoryMatchesDisk'
  <2>1. Head(unconfirmedBlocks) \in Block
    BY <1>4, ConfirmedFirst
  <2>2. QED
    BY <1>4, <2>1, IndexerConstants DEF ConfirmFirst, ProcessConfirmedBlock
<1>5. ASSUME NEW point \in Point, RollBackToUnconfirmed(point) \/ RollBackToConfirmed(point)
      PROVE  MemoryMatchesDisk'
  BY <1>5 DEF RollBackToUnconfirmed, RollBackToConfirmed
<1>6. CASE HandlerReturns \/ HandlerFails
  BY <1>6 DEF HandlerReturns, HandlerFails
<1>7. QED
  BY <1>1, <1>2, <1>3, <1>4, <1>5, <1>6 DEF IndexerStep
=============================================================================
