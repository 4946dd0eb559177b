------------------------ MODULE ChainFollowerProofs -------------------------
(***************************************************************************)
(* Proofs about module ChainFollower, for every block tree, every number   *)
(* of confirmations and any number of faults and messages in flight.       *)
(***************************************************************************)
EXTENDS ChainFollower, BlockIndexerProofs

LEMMA Constants ==
  /\ ConfirmationBlockCount \in Nat /\ ConfirmationBlockCount # 0
  /\ SyncStartTries \in Nat /\ SyncStartTries # 0
  /\ MaxFaults \in Nat
  /\ Nil \notin Point /\ Nil \notin Block /\ Origin \in Point /\ Block \subseteq Point
  /\ StartPoint \in Point
BY IndexerConstants, SessionAssumption

-----------------------------------------------------------------------------
\* Type correctness.

LEMMA HeadMessage ==
  ASSUME TypeOK, inflight # <<>>
  PROVE  /\ Head(inflight) \in Message
         /\ Head(inflight).point \in Point
         /\ Head(inflight).type = "forward" => Head(inflight).point \in Block
         /\ Tail(inflight) \in Seq(Message)
BY Constants DEF TypeOK, Message

\* Which steps touch the indexer at all.  The node's steps, a failed try, a
\* lost session and the refused calls leave it as it is.
LEMMA IndexerSteps ==
  ASSUME [Next]_vars
  PROVE  \/ UNCHANGED indexerVars
         \/ Reset
         \/ ProcessRestarts
         \/ RollForward
         \/ RollBackward
         \/ HandlerReturns
         \/ HandlerFails
<1>1. ASSUME NEW block \in Block, NodeAdopts(block)
      PROVE  UNCHANGED indexerVars
  BY <1>1 DEF NodeAdopts
<1>2. CASE NodeRollsForward \/ NodeRollsBackward
  BY <1>2 DEF NodeRollsForward, NodeRollsBackward, NodeSends
<1>3. CASE ConnectFails \/ ConnectionLost \/ RollForwardError \/ RollBackwardFatal
  BY <1>3 DEF ConnectFails, ConnectionLost, RollForwardError, RollForwardFails,
              RollBackwardFatal, RollBackRefused
<1>4. CASE Connect \/ IntersectNotFound \/ Restart \/ HandlerSucceeds \/ HandlerError
  BY <1>4 DEF Connect, IntersectNotFound, Restart, HandlerSucceeds, HandlerError
<1>5. CASE UNCHANGED vars
  BY <1>5 DEF vars
<1>6. QED
  BY <1>1, <1>2, <1>3, <1>4, <1>5 DEF Next

LEMMA IsIndexerStep ==
  ASSUME TypeOK, [Next]_vars
  PROVE  IndexerStep
<1>1. CASE RollForward
  BY <1>1, HeadMessage DEF RollForward, Receives, IndexerStep
<1>2. CASE RollBackward
  BY <1>2, HeadMessage DEF RollBackward, Receives, IndexerStep
<1>3. QED
  BY <1>1, <1>2, IndexerSteps DEF IndexerStep

\* The node's and the session's part of it.
LEMMA SessionTypeStep ==
  ASSUME TypeOK, TriesLeft, [Next]_vars
  PROVE  /\ tip' \in Point
         /\ served' \in Point
         /\ inflight' \in Seq(Message)
         /\ session' \in {"down", "up", "stopped"}
         /\ tries' \in 0..SyncStartTries
         /\ refused' \in Message \cup {Nil}
         /\ faults' \in 0..MaxFaults
         /\ TriesLeft'
<1> USE Constants DEF TypeOK, TriesLeft, nodeVars, sessionVars
<1>1. ASSUME NEW block \in Block, NodeAdopts(block)
      PROVE  tip' \in Point
  BY <1>1 DEF NodeAdopts
<1>2. ASSUME NEW message \in Message, NodeSends(message)
      PROVE  inflight' \in Seq(Message) /\ served' \in Point
  BY <1>2 DEF NodeSends, Message
<1>3. CASE NodeRollsForward
  <2>1. PICK block \in Block : NodeSends(Forward(block))
    BY <1>3 DEF NodeRollsForward
  <2>2. Forward(block) \in Message
    BY DEF Forward, Message
  <2>3. QED
    BY <1>2, <2>1, <2>2 DEF NodeSends
<1>4. CASE NodeRollsBackward
  <2>1. PICK point \in Point : NodeSends(Backward(point))
    BY <1>4 DEF NodeRollsBackward
  <2>2. Backward(point) \in Message
    BY DEF Backward, Message
  <2>3. QED
    BY <1>2, <2>1, <2>2 DEF NodeSends
<1>5. CASE Connect
  <2>1. ToCommonPoint(ResumePoint) \in Point
    BY ResumePointType DEF ToCommonPoint
  <2>2. <<Backward(ToCommonPoint(ResumePoint))>> \in Seq(Message)
    BY <2>1 DEF Backward, Message
  <2>3. QED
    BY <1>5, <2>1, <2>2 DEF Connect
<1>6. CASE IntersectNotFound
  BY <1>6 DEF IntersectNotFound, TryFails
<1>7. CASE ConnectFails
  BY <1>7 DEF ConnectFails, TryFails
<1>8. CASE ConnectionLost
  BY <1>8 DEF ConnectionLost, SessionFails
<1>9. CASE Restart
  BY <1>9 DEF Restart
<1>10. CASE RollForward \/ RollBackward
  <2>1. inflight # <<>> /\ Handled
    BY <1>10 DEF RollForward, RollBackward, Receives
  <2>2. Tail(inflight) \in Seq(Message)
    BY <2>1, HeadMessage
  <2>3. QED
    BY <2>1, <2>2 DEF Handled
<1>11. CASE RollForwardError
  BY <1>11 DEF RollForwardError, SessionFails, Receives
<1>12. CASE RollBackwardFatal
  BY <1>12, HeadMessage DEF RollBackwardFatal, Receives
<1>13. CASE HandlerSucceeds
  BY <1>13 DEF HandlerSucceeds
<1>14. CASE HandlerError
  <2>1. faults' \in 0..MaxFaults
    BY <1>14 DEF HandlerError
  <2>2. CASE session = "up" /\ SessionFails
    BY <2>1, <2>2 DEF SessionFails
  <2>3. CASE UNCHANGED <<nodeVars, sessionVars>>
    BY <2>1, <2>3
  <2>4. QED
    BY <1>14, <2>2, <2>3 DEF HandlerError
<1>15. CASE UNCHANGED vars
  BY <1>15 DEF vars
<1>16. ASSUME NEW block \in Block, NodeAdopts(block)
       PROVE  UNCHANGED <<served, sessionVars, faults>>
  BY <1>16 DEF NodeAdopts
<1>17. QED
  BY <1>1, <1>3, <1>4, <1>5, <1>6, <1>7, <1>8, <1>9, <1>10, <1>11, <1>12, <1>13, <1>14,
     <1>15, <1>16 DEF Next

\* Every variable keeps its type.
THEOREM TypeCorrect == Spec => []TypeOK
<1>1. Init => TypeOK /\ TriesLeft
  BY Constants DEF Init, NewBlockIndexer, IndexerTypeOK, TypeOK, TriesLeft
<1>2. TypeOK /\ TriesLeft /\ [Next]_vars => TypeOK' /\ TriesLeft'
  BY IsIndexerStep, IndexerTypeKept, SessionTypeStep DEF TypeOK
<1>3. QED
  BY <1>1, <1>2, PTL DEF Spec

-----------------------------------------------------------------------------
\* Memory and disk.

\* The point in memory is the one on disk.
THEOREM MemoryFollowsDisk == Spec => []MemoryMatchesDisk
<1>1. Init => MemoryMatchesDisk
  BY DEF Init, NewBlockIndexer, MemoryMatchesDisk
<1>2. TypeOK /\ MemoryMatchesDisk /\ [Next]_vars => MemoryMatchesDisk'
  BY IsIndexerStep, MemoryKept DEF TypeOK
<1>3. QED
  BY <1>1, <1>2, TypeCorrect, PTL DEF Spec

-----------------------------------------------------------------------------
\* The indexer and the messages in flight are in step.

LEMMA CursorIsLast ==
  ASSUME IndexerTypeOK, Len(unconfirmedBlocks) # 0
  PROVE  Cursor = unconfirmedBlocks[Len(unconfirmedBlocks)]
BY DEF Cursor, IndexerTypeOK

\* A header that extends the last one keeps the queue a chain, and so does a
\* step that makes its first header final.
LEMMA ChainGrows ==
  ASSUME IndexerTypeOK, QueueIsChain, latestBlockPoint # Nil,
         NEW header \in Block, Parent[header] = Cursor,
         QueueHeader(header) \/ ConfirmFirst(header)
  PROVE  QueueIsChain' /\ Cursor' = header /\ latestBlockPoint' # Nil
<1> DEFINE u == unconfirmedBlocks
           n == Len(unconfirmedBlocks)
<1>1. u \in Seq(Block) /\ n \in Nat
  BY DEF IndexerTypeOK
<1>2. Parent[header] = IF n = 0 THEN latestBlockPoint ELSE u[n]
  BY <1>1 DEF Cursor
<1>3. CASE QueueHeader(header)
  <2>1. u' = Append(u, header) /\ latestBlockPoint' = latestBlockPoint
    BY <1>3 DEF QueueHeader
  <2>2. /\ u' \in Seq(Block) /\ Len(u') = n + 1 /\ u'[n + 1] = header
        /\ \A i \in 1..n : u'[i] = u[i]
    BY <1>1, <2>1
  <2>3. ASSUME NEW i \in 1..(n + 1)
        PROVE  Parent[u'[i]] = IF i = 1 THEN latestBlockPoint ELSE u'[i - 1]
    <3>1. CASE i = n + 1
      BY <1>1, <1>2, <2>2, <3>1
    <3>2. CASE i # n + 1
      BY <1>1, <2>2, <3>2 DEF QueueIsChain, IsChainFrom
    <3>3. QED
      BY <3>1, <3>2
  <2>4. Cursor' = header
    BY <1>1, <2>2 DEF Cursor
  <2>5. QED
    BY <2>1, <2>2, <2>3, <2>4 DEF QueueIsChain, IsChainFrom
<1>4. CASE ConfirmFirst(header)
  <2> DEFINE k == ConfirmationBlockCount
  <2>1. /\ n = k /\ k \in Nat /\ k # 0
        /\ Head(u) = u[1] /\ u[1] \in Block
        /\ u' \in Seq(Block) /\ Len(u') = k
        /\ \A i \in 1..k : u'[i] = IF i = k THEN header ELSE u[i + 1]
    BY <1>4, ConfirmedFirst, Constants
  <2>2. latestBlockPoint' = u[1] /\ latestBlockPoint' # Nil
    BY <1>4, <2>1, Constants DEF ConfirmFirst
  <2>3. ASSUME NEW i \in 1..k
        PROVE  Parent[u'[i]] = IF i = 1 THEN u[1] ELSE u'[i - 1]
    <3>1. CASE i = k
      BY <1>2, <2>1, <3>1
    <3>2. CASE i # k
      <4>1. i + 1 \in 1..n /\ i + 1 # 1 /\ u'[i] = u[i + 1]
        BY <2>1, <3>2
      <4>2. Parent[u[i + 1]] = u[i]
        BY <4>1 DEF QueueIsChain, IsChainFrom
      <4>3. i # 1 => u'[i - 1] = u[i]
        BY <2>1, <3>2
      <4>4. QED
        BY <4>1, <4>2, <4>3
    <3>3. QED
      BY <3>1, <3>2
  <2>4. Cursor' = header
    BY <2>1 DEF Cursor
  <2>5. QED
    BY <2>1, <2>2, <2>3, <2>4 DEF QueueIsChain, IsChainFrom
<1>5. QED
  BY <1>3, <1>4

\* A rollback the indexer follows keeps a prefix of the queue.
LEMMA ChainIsCut ==
  ASSUME IndexerTypeOK, QueueIsChain, latestBlockPoint # Nil, NEW point,
         RollBackToUnconfirmed(point) \/ RollBackToConfirmed(point)
  PROVE  QueueIsChain' /\ Cursor' = point /\ latestBlockPoint' # Nil
<1>1. CASE RollBackToUnconfirmed(point)
  <2>1. PICK i \in 1..Len(unconfirmedBlocks) :
          /\ unconfirmedBlocks[i] = point
          /\ unconfirmedBlocks' \in Seq(Block)
          /\ Len(unconfirmedBlocks') = i
          /\ \A j \in 1..i : unconfirmedBlocks'[j] = unconfirmedBlocks[j]
    BY <1>1, CutQueue
  <2>2. Len(unconfirmedBlocks) \in Nat /\ latestBlockPoint' = latestBlockPoint
    BY <1>1 DEF IndexerTypeOK, RollBackToUnconfirmed
  <2>3. Cursor' = point
    BY <2>1, <2>2 DEF Cursor
  <2>4. QED
    BY <2>1, <2>2, <2>3 DEF QueueIsChain, IsChainFrom
<1>2. CASE RollBackToConfirmed(point)
  BY <1>2 DEF RollBackToConfirmed, QueueIsChain, IsChainFrom, Cursor
<1>3. QED
  BY <1>1, <1>2

\* Once the first message is handled as sent, the others are still in step.
LEMMA InStepAfter ==
  ASSUME TypeOK, SessionInStep, session = "up", inflight # <<>>, Handled,
         Cursor' = Head(inflight).point, latestBlockPoint' # Nil
  PROVE  SessionInStep' /\ \A i \in 1..(Len(inflight) - 1) : Before(i)' = Before(i + 1)
<1>1. /\ inflight \in Seq(Message) /\ Len(inflight) \in Nat /\ Len(inflight) # 0
      /\ inflight' = Tail(inflight) /\ served' = served
      /\ Head(inflight) = inflight[1]
  BY DEF TypeOK, Handled, nodeVars
<1>2. /\ Len(inflight') = Len(inflight) - 1
      /\ \A i \in 1..(Len(inflight) - 1) : inflight'[i] = inflight[i + 1]
  BY <1>1
<1>3. ASSUME NEW i \in 1..Len(inflight)
      PROVE  Before(i)' = Before(i + 1)
  <2>1. CASE i = 1
    BY <1>1, <2>1 DEF Before
  <2>2. CASE i # 1
    <3>1. i - 1 \in 1..(Len(inflight) - 1) /\ (i - 1) + 1 = i /\ (i + 1) - 1 = i /\ i + 1 # 1
      BY <1>1, <2>2
    <3>2. QED
      BY <1>2, <2>2, <3>1 DEF Before
  <2>3. QED
    BY <2>1, <2>2
<1>4. ASSUME NEW i \in 1..Len(inflight'), inflight'[i].type = "forward"
      PROVE  Parent[inflight'[i].point] = Before(i)'
  <2>1. i \in 1..Len(inflight) /\ i + 1 \in 1..Len(inflight) /\ inflight'[i] = inflight[i + 1]
    BY <1>1, <1>2
  <2>2. Parent[inflight[i + 1].point] = Before(i + 1)
    BY <1>4, <2>1 DEF SessionInStep
  <2>3. QED
    BY <1>3, <2>1, <2>2
<1>5. served' = Before(Len(inflight) + 1)'
  <2>1. served = inflight[Len(inflight)].point
    BY <1>1 DEF SessionInStep, Before
  <2>2. CASE Len(inflight) = 1
    BY <1>1, <1>2, <2>1, <2>2 DEF Before
  <2>3. CASE Len(inflight) # 1
    <3>1. inflight'[Len(inflight')] = inflight[Len(inflight)] /\ Len(inflight') # 0
      BY <1>1, <1>2, <2>3
    <3>2. QED
      BY <1>1, <1>2, <2>1, <3>1 DEF Before
  <2>4. QED
    BY <2>2, <2>3
<1>6. \A i \in 1..(Len(inflight) - 1) : i \in 1..Len(inflight)
  BY <1>1
<1>7. SessionInStep'
  BY <1>4, <1>5 DEF SessionInStep
<1>8. QED
  BY <1>3, <1>6, <1>7

\* What the node sends next extends what it has sent.
LEMMA InStepWith ==
  ASSUME TypeOK, SessionInStep, NEW message \in Message, NodeSends(message),
         message.type = "forward" => Parent[message.point] = served
  PROVE  /\ SessionInStep'
         /\ Len(inflight') = Len(inflight) + 1
         /\ inflight'[Len(inflight) + 1] = message
         /\ \A i \in 1..Len(inflight) : inflight'[i] = inflight[i]
         /\ \A i \in 1..(Len(inflight) + 1) : Before(i)' = Before(i)
<1>1. /\ inflight \in Seq(Message) /\ Len(inflight) \in Nat
      /\ inflight' = Append(inflight, message)
      /\ served' = message.point
      /\ session = "up" /\ session' = "up"
      /\ UNCHANGED indexerVars
  BY DEF TypeOK, NodeSends
<1>2. /\ Len(inflight') = Len(inflight) + 1
      /\ inflight'[Len(inflight) + 1] = message
      /\ \A i \in 1..Len(inflight) : inflight'[i] = inflight[i]
  BY <1>1
<1>3. Cursor' = Cursor /\ latestBlockPoint' = latestBlockPoint
  BY <1>1 DEF indexerVars, memVars, Cursor
<1>4. ASSUME NEW i \in 1..(Len(inflight) + 1)
      PROVE  Before(i)' = Before(i)
  <2>1. i # 1 => i - 1 \in 1..Len(inflight)
    BY <1>1
  <2>2. QED
    BY <1>2, <1>3, <2>1 DEF Before
<1>5. ASSUME NEW i \in 1..(Len(inflight) + 1), inflight'[i].type = "forward"
      PROVE  Parent[inflight'[i].point] = Before(i)'
  <2>1. Len(inflight) + 1 \in 1..(Len(inflight) + 1)
    BY <1>1
  <2>2. CASE i = Len(inflight) + 1
    BY <1>1, <1>2, <1>4, <1>5, <2>2 DEF SessionInStep
  <2>3. CASE i # Len(inflight) + 1
    BY <1>1, <1>2, <1>4, <1>5, <2>3 DEF SessionInStep
  <2>4. QED
    BY <2>2, <2>3
<1>6. served' = inflight'[Len(inflight')].point
  BY <1>1, <1>2
<1>7. SessionInStep'
  BY <1>1, <1>2, <1>3, <1>5, <1>6 DEF SessionInStep, Before
<1>8. QED
  BY <1>2, <1>4, <1>7

LEMMA ChainStep ==
  ASSUME TypeOK, QueueIsChain, SessionInStep, [Next]_vars
  PROVE  QueueIsChain' /\ SessionInStep'
<1> USE Constants
<1>1. IndexerTypeOK
  BY DEF TypeOK
<1>2. UNCHANGED <<latestBlockPoint, unconfirmedBlocks>> => QueueIsChain'
  BY DEF QueueIsChain, IsChainFrom
<1>3. UNCHANGED indexerVars => QueueIsChain'
  BY <1>2 DEF indexerVars, memVars
<1>4. UNCHANGED <<latestBlockPoint, unconfirmedBlocks, served, inflight, session>>
        => SessionInStep'
  BY DEF SessionInStep, Before, Cursor
<1>5. ASSUME NEW block \in Block, NodeAdopts(block)
      PROVE  QueueIsChain' /\ SessionInStep'
  BY <1>3, <1>4, <1>5 DEF NodeAdopts, sessionVars, indexerVars, memVars
<1>6. CASE NodeRollsForward
  <2>1. PICK block \in Block : Parent[block] = served /\ NodeSends(Forward(block))
    BY <1>6 DEF NodeRollsForward
  <2>2. Forward(block) \in Message /\ Forward(block).point = block
    BY DEF Forward, Message, TypeOK
  <2>3. SessionInStep'
    BY <2>1, <2>2, InStepWith
  <2>4. QED
    BY <1>3, <2>1, <2>3 DEF NodeSends
<1>7. CASE NodeRollsBackward
  <2>1. PICK point \in Point : NodeSends(Backward(point))
    BY <1>7 DEF NodeRollsBackward
  <2>2. Backward(point) \in Message /\ Backward(point).type # "forward"
    BY DEF Backward, Message, TypeOK
  <2>3. SessionInStep'
    BY <2>1, <2>2, InStepWith
  <2>4. QED
    BY <1>3, <2>1, <2>3 DEF NodeSends
<1>8. CASE Connect
  <2> DEFINE point == ToCommonPoint(ResumePoint)
  <2>1. /\ latestBlockPoint' = ResumePoint /\ ResumePoint # Nil
        /\ unconfirmedBlocks' = <<>>
        /\ inflight' = <<Backward(point)>>
        /\ served' = point
    BY <1>1, <1>8, ResumePointType DEF Connect, Reset
  <2>2. /\ Len(inflight') = 1
        /\ inflight'[1].type = "backward"
        /\ inflight'[1].point = point
    BY <2>1 DEF Backward
  <2>3. QueueIsChain'
    BY <2>1 DEF QueueIsChain, IsChainFrom
  <2>4. SessionInStep'
    BY <2>1, <2>2 DEF SessionInStep, Before
  <2>5. QED
    BY <2>3, <2>4
<1>9. CASE IntersectNotFound \/ (ConnectFails /\ Reset)
  <2>1. latestBlockPoint' = ResumePoint /\ ResumePoint # Nil /\ unconfirmedBlocks' = <<>>
    BY <1>1, <1>9, ResumePointType DEF IntersectNotFound, Reset
  <2>2. session' # "up"
    BY <1>9 DEF IntersectNotFound, ConnectFails, TryFails
  <2>3. QED
    BY <2>1, <2>2 DEF QueueIsChain, IsChainFrom, SessionInStep
<1>10. CASE \/ ConnectFails /\ UNCHANGED indexerVars
            \/ ConnectionLost
            \/ RollForwardError
            \/ RollBackwardFatal
  <2>1. UNCHANGED indexerVars
    BY <1>10 DEF ConnectionLost, RollForwardError, RollForwardFails, RollBackwardFatal,
                 RollBackRefused
  <2>2. session' # "up"
    BY <1>10 DEF ConnectFails, TryFails, ConnectionLost, RollForwardError, SessionFails,
                 RollBackwardFatal
  <2>3. QED
    BY <1>3, <2>1, <2>2 DEF SessionInStep
<1>11. CASE Restart
  BY <1>11 DEF Restart, ProcessRestarts, QueueIsChain, IsChainFrom, SessionInStep
<1>12. CASE RollForward
  <2> DEFINE header == Head(inflight).point
  <2>1. session = "up" /\ inflight # <<>> /\ Handled /\ header \in Block
    BY <1>12, HeadMessage DEF RollForward, Receives
  <2>2. Parent[header] = Cursor /\ latestBlockPoint # Nil
    <3>1. 1 \in 1..Len(inflight) /\ Head(inflight) = inflight[1]
      BY <2>1 DEF TypeOK
    <3>2. QED
      BY <1>12, <2>1, <3>1 DEF RollForward, Receives, SessionInStep, Before
  <2>3. QueueHeader(header) \/ ConfirmFirst(header)
    BY <1>12 DEF RollForward
  <2>4. QueueIsChain' /\ Cursor' = header /\ latestBlockPoint' # Nil
    BY <1>1, <2>1, <2>2, <2>3, ChainGrows
  <2>5. QED
    BY <2>1, <2>4, InStepAfter
<1>13. CASE RollBackward
  <2> DEFINE point == Head(inflight).point
  <2>1. session = "up" /\ inflight # <<>> /\ Handled /\ latestBlockPoint # Nil
    BY <1>13 DEF RollBackward, Receives, SessionInStep
  <2>2. RollBackToUnconfirmed(point) \/ RollBackToConfirmed(point)
    BY <1>13 DEF RollBackward
  <2>3. QueueIsChain' /\ Cursor' = point /\ latestBlockPoint' # Nil
    BY <1>1, <2>1, <2>2, ChainIsCut
  <2>4. QED
    BY <2>1, <2>3, InStepAfter
<1>14. CASE HandlerSucceeds
  BY <1>2, <1>4, <1>14 DEF HandlerSucceeds, HandlerReturns, nodeVars, sessionVars
<1>15. CASE HandlerError
  <2>1. UNCHANGED <<latestBlockPoint, unconfirmedBlocks>>
    BY <1>15 DEF HandlerError, HandlerFails
  <2>2. session' # "up"
    BY <1>15 DEF HandlerError, SessionFails, sessionVars
  <2>3. QED
    BY <1>2, <2>1, <2>2 DEF SessionInStep
<1>16. CASE UNCHANGED vars
  BY <1>3, <1>4, <1>16 DEF vars, nodeVars, sessionVars, indexerVars, memVars
<1>17. QED
  BY <1>5, <1>6, <1>7, <1>8, <1>9, <1>10, <1>11, <1>12, <1>13, <1>14, <1>15, <1>16
     DEF Next, ConnectFails

LEMMA InStep == Spec => [](QueueIsChain /\ SessionInStep)
<1>1. Init => QueueIsChain /\ SessionInStep
  BY DEF Init, NewBlockIndexer, QueueIsChain, IsChainFrom, SessionInStep
<1>2. TypeOK /\ QueueIsChain /\ SessionInStep /\ [Next]_vars
        => QueueIsChain' /\ SessionInStep'
  BY ChainStep
<1>3. QED
  BY <1>1, <1>2, TypeCorrect, PTL DEF Spec

\* A block becomes final only under a chain of descendants of the configured
\* length: in no step does the stored point change otherwise.
THEOREM FinalBlocksAreBuried == Spec => ConfirmedIsBuried
<1>1. TypeOK /\ QueueIsChain' /\ [Next]_vars
        => [dbLatestBlockPoint' # dbLatestBlockPoint =>
              /\ Len(unconfirmedBlocks') = ConfirmationBlockCount
              /\ IsChainFrom(dbLatestBlockPoint', unconfirmedBlocks')]_vars
  <2> SUFFICES ASSUME TypeOK, QueueIsChain', [Next]_vars,
                      dbLatestBlockPoint' # dbLatestBlockPoint
               PROVE  /\ Len(unconfirmedBlocks') = ConfirmationBlockCount
                      /\ IsChainFrom(dbLatestBlockPoint', unconfirmedBlocks')
    OBVIOUS
  <2>1. RollForward
    <3>1. CASE UNCHANGED indexerVars
      BY <3>1 DEF indexerVars, dbVars
    <3>2. CASE Reset \/ ProcessRestarts \/ RollBackward \/ HandlerReturns \/ HandlerFails
      BY <3>2 DEF Reset, ProcessRestarts, RollBackward, RollBackToUnconfirmed,
                  RollBackToConfirmed, HandlerReturns, HandlerFails, dbVars
    <3>3. QED
      BY <3>1, <3>2, IndexerSteps
  <2>2. Head(inflight).point \in Block /\ IndexerTypeOK
    BY <2>1, HeadMessage DEF RollForward, Receives, TypeOK
  <2>3. ConfirmFirst(Head(inflight).point)
    BY <2>1 DEF RollForward, QueueHeader, dbVars
  <2>4. Len(unconfirmedBlocks') = ConfirmationBlockCount
    BY <2>2, <2>3, ConfirmedFirst
  <2>5. dbLatestBlockPoint' = latestBlockPoint'
    BY <2>3 DEF ConfirmFirst, ProcessConfirmedBlock
  <2>6. QED
    BY <2>4, <2>5 DEF QueueIsChain
<1>2. QED
  BY <1>1, TypeCorrect, InStep, PTL DEF Spec, ConfirmedIsBuried

-----------------------------------------------------------------------------
\* What is on disk, when slots increase along a chain.

LEMMA Tree ==
  /\ \A b \in Block : Parent[b] \in Point /\ Upto(b) = {b} \cup Upto(Parent[b])
  /\ \A b \in Block : Ancestors[b] = Upto(Parent[b])
  /\ \A p \in Point : Upto(p) \subseteq Point /\ p \in Upto(p) /\ p \notin Ancestors[p]
  /\ \A p \in Point : \A q \in Ancestors[p] : Upto(q) \subseteq Ancestors[p]
  /\ \A p \in Point : \A q \in Upto(p) : Upto(q) \subseteq Upto(p)
<1>1. Block \subseteq Point
  BY Constants
<1>2. QED
  BY <1>1, TreeAssumption DEF Upto

\* A block confirmed on top of the stored ones gets a slot of its own.
LEMMA ConfirmOnDisk ==
  ASSUME SlotsIncrease, IndexerTypeOK, MemoryMatchesDisk, QueueIsChain,
         StoredBySlot, StartIsBelow, ConfirmedIsChain,
         latestBlockPoint # Nil, NEW header \in Block, ConfirmFirst(header)
  PROVE  /\ Head(unconfirmedBlocks) \in Block
         /\ Parent[Head(unconfirmedBlocks)] = ResumePoint
         /\ Head(unconfirmedBlocks) \notin Confirmed
         /\ ResumePoint' = Head(unconfirmedBlocks)
         /\ Confirmed' = Confirmed \cup {Head(unconfirmedBlocks)}
         /\ StoredBySlot' /\ StartIsBelow' /\ ConfirmedIsChain'
<1> DEFINE first == Head(unconfirmedBlocks)
<1>1. first \in Block /\ first = unconfirmedBlocks[1] /\ Len(unconfirmedBlocks) >= 1
  BY ConfirmedFirst, Constants
<1>2. /\ dbConfirmedBlocks' = [dbConfirmedBlocks EXCEPT ![Slot[first]] = first]
      /\ dbLatestBlockPoint' = first
  BY DEF ConfirmFirst, ProcessConfirmedBlock
<1>3. /\ dbConfirmedBlocks \in [SlotNumbers -> Block \cup {Nil}]
      /\ Slot[first] \in SlotNumbers
      /\ Slot[first] \in Nat
      /\ ResumePoint \in Point
      /\ Slot[ResumePoint] \in Nat
      /\ SlotNumbers \subseteq Nat
  BY <1>1, Constants, IndexerAssumption, ResumePointType DEF IndexerTypeOK, SlotNumbers
<1>4. Parent[first] = ResumePoint
  <2>1. 1 \in 1..Len(unconfirmedBlocks)
    BY <1>1 DEF IndexerTypeOK
  <2>2. Parent[unconfirmedBlocks[1]] = latestBlockPoint
    BY <2>1 DEF QueueIsChain, IsChainFrom
  <2>3. QED
    BY <1>1, <2>2 DEF MemoryMatchesDisk
<1>5. Slot[ResumePoint] < Slot[first]
  BY <1>1, <1>4 DEF SlotsIncrease
<1>6. dbConfirmedBlocks[Slot[first]] = Nil
  BY <1>3, <1>5 DEF StoredBySlot
<1>7. \A slot \in SlotNumbers :
         dbConfirmedBlocks'[slot] = IF slot = Slot[first] THEN first ELSE dbConfirmedBlocks[slot]
  BY <1>2, <1>3
<1>8. ResumePoint' = first
  BY <1>1, <1>2, Constants DEF ResumePoint
<1>9. Confirmed' = Confirmed \cup {first}
  <2>1. ASSUME NEW b \in Confirmed'
        PROVE  b \in Confirmed \cup {first}
    BY <1>7 DEF Confirmed
  <2>2. ASSUME NEW b \in Confirmed
        PROVE  b \in Confirmed'
    <3>1. PICK slot \in SlotNumbers : b = dbConfirmedBlocks[slot] /\ b # Nil
      BY DEF Confirmed
    <3>2. b = dbConfirmedBlocks'[slot]
      BY <1>6, <1>7, <3>1
    <3>3. QED
      BY <3>1, <3>2 DEF Confirmed
  <2>3. first \in Confirmed'
    <3>1. first # Nil /\ first = dbConfirmedBlocks'[Slot[first]]
      BY <1>1, <1>3, <1>7, Constants
    <3>2. QED
      BY <1>3, <3>1 DEF Confirmed
  <2>4. QED
    BY <2>1, <2>2, <2>3
<1>10. first \notin Upto(StartPoint)
  <2>1. SUFFICES ASSUME first \in Upto(StartPoint)
                 PROVE  FALSE
    OBVIOUS
  <2>2. Upto(StartPoint) \subseteq Upto(ResumePoint)
    BY <1>3, Tree DEF StartIsBelow
  <2>3. first \in Ancestors[first]
    BY <1>1, <1>4, <2>1, <2>2, Tree
  <2>4. QED
    BY <1>1, <2>3, Tree, Constants
<1>11. Upto(first) = {first} \cup Upto(ResumePoint)
  BY <1>1, <1>4, Tree
<1>12. first \notin Confirmed
  <2>1. first \notin Upto(ResumePoint)
    BY <1>1, <1>4, Tree, Constants
  <2>2. QED
    BY <2>1 DEF ConfirmedIsChain
<1>13. ConfirmedIsChain'
  <2>1. Confirmed' = Upto(ResumePoint') \ Upto(StartPoint)
    BY <1>8, <1>9, <1>10, <1>11 DEF ConfirmedIsChain
  <2>2. QED
    BY <2>1 DEF ConfirmedIsChain, Upto, StartPoint
<1>14. StartIsBelow'
  <2>1. StartPoint \in Upto(ResumePoint')
    BY <1>8, <1>11 DEF StartIsBelow
  <2>2. QED
    BY <2>1 DEF StartIsBelow, Upto, StartPoint
<1>15. StoredBySlot'
  BY <1>3, <1>5, <1>7, <1>8 DEF StoredBySlot
<1>16. QED
  BY <1>1, <1>4, <1>8, <1>9, <1>12, <1>13, <1>14, <1>15

DiskInvariant == StoredBySlot /\ StartIsBelow /\ ConfirmedIsChain

\* The only step that changes the stored blocks.
LEMMA DiskStep ==
  ASSUME TypeOK, MemoryMatchesDisk, QueueIsChain, SessionInStep, [Next]_vars
  PROVE  \/ /\ UNCHANGED <<dbLatestBlockPoint, dbConfirmedBlocks>>
            /\ \/ UNCHANGED <<dbUnprocessedTxs, dbProcessedTxs>>
               \/ HandlerReturns
         \/ /\ latestBlockPoint # Nil
            /\ \E header \in Block : ConfirmFirst(header)
<1>1. CASE UNCHANGED indexerVars
  BY <1>1 DEF indexerVars, dbVars
<1>2. CASE Reset \/ ProcessRestarts \/ RollBackward \/ HandlerFails
  BY <1>2 DEF Reset, ProcessRestarts, RollBackward, RollBackToUnconfirmed,
              RollBackToConfirmed, HandlerFails, dbVars
<1>3. CASE HandlerReturns
  BY <1>3 DEF HandlerReturns
<1>4. CASE RollForward
  <2>1. Head(inflight).point \in Block /\ latestBlockPoint # Nil
    BY <1>4, HeadMessage DEF RollForward, Receives, SessionInStep
  <2>2. QED
    BY <1>4, <2>1 DEF RollForward, QueueHeader, dbVars
<1>5. QED
  BY <1>1, <1>2, <1>3, <1>4, IndexerSteps

LEMMA InitialDisk == Init => DiskInvariant /\ Confirmed = {} /\ ResumePoint = StartPoint
<1> SUFFICES ASSUME Init
             PROVE  DiskInvariant /\ Confirmed = {} /\ ResumePoint = StartPoint
  OBVIOUS
<1>1. ResumePoint = StartPoint
  BY DEF Init, NewBlockIndexer, ResumePoint
<1>2. Confirmed = {}
  BY DEF Init, NewBlockIndexer, Confirmed
<1>3. StoredBySlot
  BY DEF Init, NewBlockIndexer, StoredBySlot
<1>4. StartIsBelow /\ ConfirmedIsChain
  BY <1>1, <1>2, Tree, Constants DEF StartIsBelow, ConfirmedIsChain
<1>5. QED
  BY <1>1, <1>2, <1>3, <1>4 DEF DiskInvariant

\* The stored blocks are those of one chain, from the configured start to the
\* point of the next resumption.
THEOREM ConfirmedStaysChain ==
  ASSUME SlotsIncrease
  PROVE  Spec => [](StoredBySlot /\ StartIsBelow /\ ConfirmedIsChain)
<1>1. Init => DiskInvariant
  BY InitialDisk
<1>2. TypeOK /\ MemoryMatchesDisk /\ QueueIsChain /\ SessionInStep /\ DiskInvariant /\ [Next]_vars
        => DiskInvariant'
  <2> SUFFICES ASSUME TypeOK, MemoryMatchesDisk, QueueIsChain, SessionInStep,
                      DiskInvariant, [Next]_vars
               PROVE  DiskInvariant'
    OBVIOUS
  <2> USE DEF DiskInvariant
  <2>1. CASE UNCHANGED <<dbLatestBlockPoint, dbConfirmedBlocks>>
    BY <2>1 DEF StoredBySlot, StartIsBelow, ConfirmedIsChain, Confirmed, ResumePoint,
                Upto, StartPoint
  <2>2. CASE latestBlockPoint # Nil /\ \E header \in Block : ConfirmFirst(header)
    BY <2>2, SlotsIncrease, ConfirmOnDisk DEF TypeOK
  <2>3. QED
    BY <2>1, <2>2, DiskStep
<1>3. QED
  BY <1>1, <1>2, TypeCorrect, MemoryFollowsDisk, InStep, PTL DEF Spec, DiskInvariant

\* The stored blocks are a log that only grows, one child at a time.
THEOREM FollowerImplementsLog ==
  ASSUME SlotsIncrease
  PROVE  Spec => ImplementsConfirmedLog
<1>1. Init => Log!Init
  BY InitialDisk DEF Log!Init
<1>2. TypeOK /\ MemoryMatchesDisk /\ QueueIsChain /\ SessionInStep /\ DiskInvariant /\ [Next]_vars
        => [Log!Next]_(Log!vars)
  <2> SUFFICES ASSUME TypeOK, MemoryMatchesDisk, QueueIsChain, SessionInStep,
                      DiskInvariant, [Next]_vars
               PROVE  [Log!Next]_(Log!vars)
    OBVIOUS
  <2> USE DEF DiskInvariant
  <2>1. CASE UNCHANGED <<dbLatestBlockPoint, dbConfirmedBlocks>>
    BY <2>1 DEF Log!vars, Confirmed, ResumePoint, StartPoint
  <2>2. CASE latestBlockPoint # Nil /\ \E header \in Block : ConfirmFirst(header)
    <3>1. PICK header \in Block : ConfirmFirst(header)
      BY <2>2
    <3>2. Log!Finalise(Head(unconfirmedBlocks)) /\ Head(unconfirmedBlocks) \in Block
      BY <2>2, <3>1, SlotsIncrease, ConfirmOnDisk DEF TypeOK, Log!Finalise
    <3>3. QED
      BY <3>2 DEF Log!Next
  <2>3. QED
    BY <2>1, <2>2, DiskStep
<1>3. QED
  BY <1>1, <1>2, TypeCorrect, MemoryFollowsDisk, InStep, ConfirmedStaysChain, SlotsIncrease, PTL
     DEF Spec, DiskInvariant, ImplementsConfirmedLog, Log!Spec

\* The same under the invariant's name, for the modules that instantiate this one.
LEMMA DiskStaysSound ==
  ASSUME SlotsIncrease
  PROVE  Spec => []DiskInvariant
  BY ConfirmedStaysChain, SlotsIncrease, PTL DEF DiskInvariant

\* Every transaction of interest of a final block stays waiting or processed.
THEOREM NoTxIsLost ==
  ASSUME SlotsIncrease
  PROVE  Spec => []NoTxLost
<1>1. Init => NoTxLost
  BY InitialDisk DEF Init, NewBlockIndexer, NoTxLost
<1>2. TypeOK /\ MemoryMatchesDisk /\ QueueIsChain /\ SessionInStep /\ DiskInvariant
        /\ NoTxLost /\ [Next]_vars => NoTxLost'
  <2> SUFFICES ASSUME TypeOK, MemoryMatchesDisk, QueueIsChain, SessionInStep,
                      DiskInvariant, NoTxLost, [Next]_vars
               PROVE  NoTxLost'
    OBVIOUS
  <2> USE DEF DiskInvariant, NoTxLost
  <2>1. CASE /\ UNCHANGED <<dbLatestBlockPoint, dbConfirmedBlocks>>
             /\ UNCHANGED <<dbUnprocessedTxs, dbProcessedTxs>> \/ HandlerReturns
    <3>1. Confirmed' = Confirmed
      BY <2>1 DEF Confirmed
    <3>2. QED
      BY <2>1, <3>1 DEF HandlerReturns
  <2>2. CASE latestBlockPoint # Nil /\ \E header \in Block : ConfirmFirst(header)
    <3> DEFINE first == Head(unconfirmedBlocks)
    <3>1. PICK header \in Block : ConfirmFirst(header)
      BY <2>2
    <3>2. Confirmed' = Confirmed \cup {first} /\ first \notin Confirmed
      BY <2>2, <3>1, SlotsIncrease, ConfirmOnDisk DEF TypeOK
    <3>3. /\ dbUnprocessedTxs' = dbUnprocessedTxs \cup (BlocksOfInterest \cap {first})
          /\ dbProcessedTxs' = dbProcessedTxs
      BY <3>1 DEF ConfirmFirst, ProcessConfirmedBlock
    <3>4. QED
      BY <3>2, <3>3
  <2>3. QED
    BY <2>1, <2>2, DiskStep
<1>3. QED
  BY <1>1, <1>2, TypeCorrect, MemoryFollowsDisk, InStep, ConfirmedStaysChain, SlotsIncrease, PTL
     DEF Spec, DiskInvariant

-----------------------------------------------------------------------------
\* A fatal error, when slots increase along a chain.

\* The queue and the header that extends it.
LEMMA CoveredWith ==
  ASSUME IndexerTypeOK, QueueCoversAncestors, latestBlockPoint # Nil,
         NEW header \in Block, Parent[header] = Cursor,
         NEW i \in 1..(Len(unconfirmedBlocks) + 1)
  PROVE  Upto(Append(unconfirmedBlocks, header)[i]) =
           {Append(unconfirmedBlocks, header)[j] : j \in 1..i} \cup Upto(latestBlockPoint)
<1> DEFINE u == unconfirmedBlocks
           n == Len(unconfirmedBlocks)
           v == Append(unconfirmedBlocks, header)
<1>1. /\ u \in Seq(Block) /\ n \in Nat
      /\ v[n + 1] = header
      /\ \A j \in 1..n : v[j] = u[j]
  BY DEF IndexerTypeOK
<1>2. \A k \in 1..n : {v[j] : j \in 1..k} = {u[j] : j \in 1..k}
  BY <1>1
<1>3. CASE i # n + 1
  <2>1. i \in 1..n /\ v[i] = u[i]
    BY <1>1, <1>3
  <2>2. QED
    BY <1>2, <2>1 DEF QueueCoversAncestors
<1>4. CASE i = n + 1
  <2>1. Upto(header) = {header} \cup Upto(Cursor)
    BY Tree
  <2>2. {v[j] : j \in 1..(n + 1)} = {header} \cup {v[j] : j \in 1..n}
    <3>1. 1..(n + 1) = {n + 1} \cup 1..n
      BY <1>1
    <3>2. QED
      BY <1>1, <3>1
  <2>3. Upto(Cursor) = {v[j] : j \in 1..n} \cup Upto(latestBlockPoint)
    <3>1. CASE n = 0
      BY <1>1, <3>1 DEF Cursor
    <3>2. CASE n # 0
      <4>1. n \in 1..n /\ Cursor = u[n]
        BY <1>1, <3>2, CursorIsLast
      <4>2. QED
        BY <1>2, <4>1 DEF QueueCoversAncestors
    <3>3. QED
      BY <3>1, <3>2
  <2>4. QED
    BY <1>1, <1>4, <2>1, <2>2, <2>3
<1>5. QED
  BY <1>3, <1>4

LEMMA CoverGrows ==
  ASSUME IndexerTypeOK, QueueCoversAncestors, latestBlockPoint # Nil,
         NEW header \in Block, Parent[header] = Cursor,
         QueueHeader(header) \/ ConfirmFirst(header)
  PROVE  QueueCoversAncestors'
<1> DEFINE u == unconfirmedBlocks
           n == Len(unconfirmedBlocks)
           v == Append(unconfirmedBlocks, header)
<1>1. /\ u \in Seq(Block) /\ n \in Nat
      /\ v \in Seq(Block) /\ Len(v) = n + 1
      /\ v[n + 1] = header /\ \A j \in 1..n : v[j] = u[j]
  BY DEF IndexerTypeOK
<1>2. \A i \in 1..(n + 1) : Upto(v[i]) = {v[j] : j \in 1..i} \cup Upto(latestBlockPoint)
  BY CoveredWith
<1>3. CASE QueueHeader(header)
  <2>1. u' = v /\ latestBlockPoint' = latestBlockPoint
    BY <1>3 DEF QueueHeader
  <2>2. Len(unconfirmedBlocks') = n + 1
    BY <1>1, <2>1
  <2>3. \A i \in 1..(n + 1) :
           Upto(unconfirmedBlocks'[i]) = {unconfirmedBlocks'[j] : j \in 1..i}
                                           \cup Upto(latestBlockPoint)
    BY <1>2, <2>1
  <2>4. QED
    BY <2>1, <2>2, <2>3 DEF QueueCoversAncestors, Upto
<1>4. CASE ConfirmFirst(header)
  <2> DEFINE k == ConfirmationBlockCount
  <2>1. /\ n = k /\ k \in Nat /\ k # 0
        /\ Head(u) = u[1] /\ u[1] = v[1]
        /\ u' \in Seq(Block) /\ Len(u') = k
        /\ \A i \in 1..k : u'[i] = v[i + 1]
    BY <1>1, <1>4, ConfirmedFirst, Constants
  <2>2. latestBlockPoint' = v[1]
    BY <1>4, <2>1 DEF ConfirmFirst
  <2>3. Upto(v[1]) = {v[1]} \cup Upto(latestBlockPoint)
    <3>1. {v[j] : j \in 1..1} = {v[1]}
      OBVIOUS
    <3>2. 1 \in 1..(n + 1)
      BY <1>1
    <3>3. QED
      BY <1>2, <3>1, <3>2
  <2>4. ASSUME NEW i \in 1..k
        PROVE  Upto(u'[i]) = {u'[j] : j \in 1..i} \cup Upto(v[1])
    <3>1. i + 1 \in 1..(n + 1)
      BY <2>1
    <3>2. {v[j] : j \in 1..(i + 1)} = {v[1]} \cup {u'[j] : j \in 1..i}
      <4>1. ASSUME NEW j \in 1..(i + 1)
            PROVE  v[j] \in {v[1]} \cup {u'[l] : l \in 1..i}
        <5>1. CASE j = 1
          BY <5>1
        <5>2. CASE j # 1
          <6>1. j - 1 \in 1..i /\ j - 1 \in 1..k /\ (j - 1) + 1 = j
            BY <2>1, <5>2
          <6>2. u'[j - 1] = v[j]
            BY <2>1, <6>1
          <6>3. QED
            BY <6>1, <6>2
        <5>3. QED
          BY <5>1, <5>2
      <4>2. ASSUME NEW j \in 1..i
            PROVE  u'[j] \in {v[l] : l \in 1..(i + 1)}
        <5>1. j + 1 \in 1..(i + 1) /\ u'[j] = v[j + 1]
          BY <2>1
        <5>2. QED
          BY <5>1
      <4>3. v[1] \in {v[l] : l \in 1..(i + 1)}
        OBVIOUS
      <4>4. QED
        BY <4>1, <4>2, <4>3
    <3>3. QED
      BY <1>2, <2>1, <2>3, <3>1, <3>2
  <2>5. QED
    BY <2>1, <2>2, <2>4 DEF QueueCoversAncestors, Upto
<1>5. QED
  BY <1>3, <1>4

LEMMA CoverIsCut ==
  ASSUME IndexerTypeOK, QueueCoversAncestors, NEW point,
         RollBackToUnconfirmed(point) \/ RollBackToConfirmed(point)
  PROVE  QueueCoversAncestors'
<1>1. CASE RollBackToUnconfirmed(point)
  <2>1. PICK i \in 1..Len(unconfirmedBlocks) :
          /\ unconfirmedBlocks' \in Seq(Block)
          /\ Len(unconfirmedBlocks') = i
          /\ \A j \in 1..i : unconfirmedBlocks'[j] = unconfirmedBlocks[j]
    BY <1>1, CutQueue
  <2>2. Len(unconfirmedBlocks) \in Nat /\ latestBlockPoint' = latestBlockPoint
    BY <1>1 DEF IndexerTypeOK, RollBackToUnconfirmed
  <2>3. ASSUME NEW j \in 1..i
        PROVE  Upto(unconfirmedBlocks'[j]) =
                 {unconfirmedBlocks'[l] : l \in 1..j} \cup Upto(latestBlockPoint)
    <3>1. j \in 1..Len(unconfirmedBlocks) /\ \A l \in 1..j : l \in 1..i
      BY <2>1, <2>2
    <3>2. {unconfirmedBlocks'[l] : l \in 1..j} = {unconfirmedBlocks[l] : l \in 1..j}
      BY <2>1, <3>1
    <3>3. QED
      BY <2>1, <3>1, <3>2 DEF QueueCoversAncestors
  <2>4. QED
    BY <2>1, <2>2, <2>3 DEF QueueCoversAncestors, Upto
<1>2. CASE RollBackToConfirmed(point)
  BY <1>2 DEF RollBackToConfirmed, QueueCoversAncestors
<1>3. QED
  BY <1>1, <1>2

LEMMA CoverStep ==
  ASSUME TypeOK, SessionInStep, QueueCoversAncestors, [Next]_vars
  PROVE  QueueCoversAncestors'
<1>1. IndexerTypeOK
  BY DEF TypeOK
<1>2. UNCHANGED <<latestBlockPoint, unconfirmedBlocks>> => QueueCoversAncestors'
  BY DEF QueueCoversAncestors, Upto
<1>3. CASE UNCHANGED indexerVars \/ HandlerReturns \/ HandlerFails
  BY <1>2, <1>3 DEF indexerVars, memVars, HandlerReturns, HandlerFails
<1>4. CASE Reset \/ ProcessRestarts
  BY <1>4 DEF Reset, ProcessRestarts, QueueCoversAncestors
<1>5. CASE RollForward
  <2> DEFINE header == Head(inflight).point
  <2>1. header \in Block /\ inflight # <<>> /\ session = "up"
    BY <1>5, HeadMessage DEF RollForward, Receives
  <2>2. 1 \in 1..Len(inflight) /\ Head(inflight) = inflight[1]
    BY <2>1 DEF TypeOK
  <2>3. Parent[header] = Cursor /\ latestBlockPoint # Nil
    BY <1>5, <2>1, <2>2 DEF RollForward, Receives, SessionInStep, Before
  <2>4. QED
    BY <1>1, <1>5, <2>1, <2>3, CoverGrows DEF RollForward
<1>6. CASE RollBackward
  BY <1>1, <1>6, CoverIsCut DEF RollBackward
<1>7. QED
  BY <1>3, <1>4, <1>5, <1>6, IndexerSteps

\* The rollbacks in flight undo no more than the node's change of chain.
LEMMA ShortStep ==
  ASSUME SlotsIncrease, TypeOK, QueueIsChain, SessionInStep, RollbacksAreShort, [Next]_vars
  PROVE  RollbacksAreShort'
<1> USE Constants
<1>1. IndexerTypeOK
  BY DEF TypeOK
<1>2. UNCHANGED <<latestBlockPoint, unconfirmedBlocks, inflight, session>>
        => RollbacksAreShort'
  BY DEF RollbacksAreShort, Before, Cursor, IsNewestCommon, Upto
<1>3. ASSUME NEW block \in Block, NodeAdopts(block)
      PROVE  RollbacksAreShort'
  BY <1>2, <1>3 DEF NodeAdopts, sessionVars, indexerVars, memVars
<1>4. ASSUME NEW message \in Message, NodeSends(message),
             message.type = "forward" => Parent[message.point] = served,
             message.type = "backward" => IsNewestCommon(message.point, served, message.tip)
      PROVE  RollbacksAreShort'
  <2>1. /\ Len(inflight') = Len(inflight) + 1
        /\ inflight'[Len(inflight) + 1] = message
        /\ \A i \in 1..Len(inflight) : inflight'[i] = inflight[i]
        /\ \A i \in 1..(Len(inflight) + 1) : Before(i)' = Before(i)
    BY <1>4, InStepWith
  <2>2. session = "up" /\ Len(inflight) \in Nat /\ served = Before(Len(inflight) + 1)
    BY <1>4 DEF NodeSends, TypeOK, SessionInStep
  <2>3. ASSUME NEW i \in 1..(Len(inflight) + 1), inflight'[i].type = "backward"
        PROVE  IsNewestCommon(inflight'[i].point, Before(i), inflight'[i].tip)
    <3>1. CASE i = Len(inflight) + 1
      BY <1>4, <2>1, <2>2, <2>3, <3>1
    <3>2. CASE i # Len(inflight) + 1
      <4>1. i \in 1..Len(inflight) /\ inflight'[i] = inflight[i]
        BY <2>1, <2>2, <3>2
      <4>2. QED
        BY <2>2, <2>3, <4>1 DEF RollbacksAreShort
    <3>3. QED
      BY <3>1, <3>2
  <2>4. \A i \in 1..Len(inflight') : inflight'[i].type = "backward" =>
           IsNewestCommon(inflight'[i].point, Before(i)', inflight'[i].tip)
    BY <2>1, <2>3
  <2>5. QED
    BY <2>4 DEF RollbacksAreShort, IsNewestCommon, Upto
<1>5. CASE NodeRollsForward
  <2>1. PICK block \in Block : Parent[block] = served /\ NodeSends(Forward(block))
    BY <1>5 DEF NodeRollsForward
  <2>2. /\ Forward(block) \in Message
        /\ Forward(block).point = block /\ Forward(block).type = "forward"
    BY DEF Forward, Message, TypeOK
  <2>3. QED
    BY <1>4, <2>1, <2>2
<1>6. CASE NodeRollsBackward
  <2>1. PICK point \in Point : IsNewestCommon(point, served, tip) /\ NodeSends(Backward(point))
    BY <1>6 DEF NodeRollsBackward
  <2>2. /\ Backward(point) \in Message /\ Backward(point).type = "backward"
        /\ Backward(point).point = point /\ Backward(point).tip = tip
    BY DEF Backward, Message, TypeOK
  <2>3. QED
    BY <1>4, <2>1, <2>2
<1>7. CASE Connect
  <2> DEFINE point == ToCommonPoint(ResumePoint)
  <2>1. ResumePoint \in Point
    BY <1>1, ResumePointType
  <2>2. point = ResumePoint
    <3>1. CASE ResumePoint \in Block
      <4>1. Slot[Parent[ResumePoint]] < Slot[ResumePoint]
        BY <3>1 DEF SlotsIncrease
      <4>2. Slot[ResumePoint] \in Nat /\ Slot[Parent[ResumePoint]] \in Nat
        BY <2>1, <3>1, IndexerAssumption, Tree
      <4>3. QED
        BY <4>1, <4>2 DEF ToCommonPoint
    <3>2. CASE ResumePoint = Origin
      BY <3>2 DEF ToCommonPoint
    <3>3. QED
      BY <2>1, <3>1, <3>2 DEF Point
  <2>3. IsNewestCommon(point, point, tip)
    <3>1. point \in Upto(tip)
      BY <1>7 DEF Connect
    <3>2. ASSUME NEW q \in Upto(point)
          PROVE  point \notin Ancestors[q]
      <4>1. q = point \/ q \in Ancestors[point]
        BY DEF Upto
      <4>2. point \notin Ancestors[point]
        BY <2>1, <2>2, Tree
      <4>3. q \in Ancestors[point] => Ancestors[q] \subseteq Ancestors[point]
        BY <2>1, <2>2, TreeAssumption
      <4>4. QED
        BY <4>1, <4>2, <4>3
    <3>3. QED
      BY <2>1, <2>2, <3>1, <3>2, Tree DEF IsNewestCommon
  <2>4. /\ latestBlockPoint' = ResumePoint
        /\ unconfirmedBlocks' = <<>>
        /\ inflight' = <<Backward(point)>>
    BY <1>7 DEF Connect, Reset
  <2>5. /\ Len(inflight') = 1
        /\ inflight'[1].point = point
        /\ inflight'[1].tip = tip
        /\ Cursor' = point
    BY <2>2, <2>4 DEF Backward, Cursor
  <2>6. QED
    BY <2>3, <2>5 DEF RollbacksAreShort, Before, IsNewestCommon, Upto
<1>8. CASE IntersectNotFound \/ ConnectFails \/ ConnectionLost \/ RollForwardError
             \/ RollBackwardFatal \/ Restart
  <2>1. session' # "up"
    BY <1>8 DEF IntersectNotFound, ConnectFails, TryFails, ConnectionLost, RollForwardError,
                SessionFails, RollBackwardFatal, Restart
  <2>2. QED
    BY <2>1 DEF RollbacksAreShort
<1>9. CASE RollForward \/ RollBackward
  <2> DEFINE point == Head(inflight).point
  <2>1. session = "up" /\ inflight # <<>> /\ Handled /\ latestBlockPoint # Nil
    BY <1>9 DEF RollForward, RollBackward, Receives, SessionInStep
  <2>2. Cursor' = point /\ latestBlockPoint' # Nil
    <3>1. CASE RollForward
      <4>1. point \in Block
        BY <2>1, <3>1, HeadMessage DEF RollForward, Receives
      <4>2. 1 \in 1..Len(inflight) /\ Head(inflight) = inflight[1]
        BY <2>1 DEF TypeOK
      <4>3. Parent[point] = Cursor
        BY <2>1, <3>1, <4>2 DEF RollForward, Receives, SessionInStep, Before
      <4>4. QED
        BY <1>1, <2>1, <3>1, <4>1, <4>3, ChainGrows DEF RollForward
    <3>2. CASE RollBackward
      BY <1>1, <2>1, <3>2, ChainIsCut DEF RollBackward
    <3>3. QED
      BY <1>9, <3>1, <3>2
  <2>3. \A i \in 1..(Len(inflight) - 1) : Before(i)' = Before(i + 1)
    BY <2>1, <2>2, InStepAfter
  <2>4. /\ Len(inflight) \in Nat
        /\ Len(inflight') = Len(inflight) - 1
        /\ \A i \in 1..(Len(inflight) - 1) : inflight'[i] = inflight[i + 1]
    BY <2>1 DEF Handled, TypeOK
  <2>5. ASSUME NEW i \in 1..Len(inflight'), inflight'[i].type = "backward"
        PROVE  IsNewestCommon(inflight'[i].point, Before(i)', inflight'[i].tip)
    <3>1. i \in 1..(Len(inflight) - 1) /\ i + 1 \in 1..Len(inflight)
      BY <2>4
    <3>2. inflight'[i] = inflight[i + 1] /\ Before(i)' = Before(i + 1)
      BY <2>3, <2>4, <3>1
    <3>3. QED
      BY <2>1, <2>5, <3>1, <3>2 DEF RollbacksAreShort
  <2>6. QED
    BY <2>5 DEF RollbacksAreShort, IsNewestCommon, Upto
<1>10. CASE HandlerSucceeds
  BY <1>2, <1>10 DEF HandlerSucceeds, HandlerReturns, sessionVars
<1>11. CASE HandlerError
  <2>1. session' # "up"
    BY <1>11 DEF HandlerError, SessionFails, sessionVars
  <2>2. QED
    BY <2>1 DEF RollbacksAreShort
<1>12. CASE UNCHANGED vars
  BY <1>2, <1>12 DEF vars, sessionVars, indexerVars, memVars
<1>13. QED
  BY <1>3, <1>5, <1>6, <1>7, <1>8, <1>9, <1>10, <1>11, <1>12 DEF Next

\* A refused rollback ends the session until the program is run again.
LEMMA RefusedStep ==
  ASSUME TypeOK, QueueIsChain, SessionInStep, QueueCoversAncestors, RollbacksAreShort,
         RefusedStops, FatalIsJustified, [Next]_vars
  PROVE  RefusedStops' /\ FatalIsJustified'
<1> USE Constants
<1>1. /\ refused' = refused /\ session' = session /\ latestBlockPoint' = latestBlockPoint
        => RefusedStops' /\ FatalIsJustified'
  BY DEF RefusedStops, FatalIsJustified, Upto
<1>2. refused' = refused /\ session # "stopped" => RefusedStops' /\ FatalIsJustified'
  BY DEF RefusedStops, FatalIsJustified
<1>3. CASE RollBackwardFatal
  <2> DEFINE m == Head(inflight)
             point == Head(inflight).point
  <2>1. /\ session = "up" /\ inflight # <<>> /\ m.type = "backward"
        /\ refused' = m /\ session' = "stopped"
        /\ point # latestBlockPoint /\ ~IsUnconfirmed(point)
        /\ latestBlockPoint' = latestBlockPoint
    BY <1>3 DEF RollBackwardFatal, Receives, RollBackRefused, indexerVars, memVars
  <2>2. 1 \in 1..Len(inflight) /\ m = inflight[1]
    BY <2>1 DEF TypeOK
  <2>3. /\ point \in Upto(Cursor)
        /\ \A q \in Upto(Cursor) \cap Upto(m.tip) : point \notin Ancestors[q]
    BY <2>1, <2>2 DEF RollbacksAreShort, IsNewestCommon, Before
  <2>4. latestBlockPoint # Nil /\ latestBlockPoint \in Point /\ unconfirmedBlocks \in Seq(Block)
    BY <2>1 DEF SessionInStep, TypeOK, IndexerTypeOK
  <2>5. Upto(Cursor) = {unconfirmedBlocks[j] : j \in 1..Len(unconfirmedBlocks)}
                         \cup Upto(latestBlockPoint)
    <3>1. CASE unconfirmedBlocks = <<>>
      BY <3>1 DEF Cursor
    <3>2. CASE unconfirmedBlocks # <<>>
      <4>1. Len(unconfirmedBlocks) \in 1..Len(unconfirmedBlocks)
        BY <2>4, <3>2
      <4>2. QED
        BY <3>2, <4>1 DEF Cursor, QueueCoversAncestors
    <3>3. QED
      BY <3>1, <3>2
  <2>6. point \in Ancestors[latestBlockPoint]
    BY <2>1, <2>3, <2>5 DEF IsUnconfirmed, Upto
  <2>7. latestBlockPoint \in Upto(Cursor)
    BY <2>4, <2>5, Tree
  <2>8. latestBlockPoint \notin Upto(m.tip)
    BY <2>3, <2>6, <2>7
  <2>9. QED
    BY <2>1, <2>8 DEF RefusedStops, FatalIsJustified, Upto
<1>4. CASE Restart
  BY <1>4 DEF Restart, RefusedStops, FatalIsJustified
<1>5. CASE Connect \/ IntersectNotFound \/ ConnectFails \/ ConnectionLost \/ RollForward
             \/ RollForwardError \/ RollBackward
  <2>1. refused' = refused /\ session # "stopped"
    BY <1>5 DEF Connect, IntersectNotFound, ConnectFails, TryFails, ConnectionLost, RollForward,
                RollForwardError, SessionFails, RollBackward, Receives, Handled
  <2>2. QED
    BY <1>2, <2>1
<1>6. ASSUME NEW block \in Block, NodeAdopts(block)
      PROVE  RefusedStops' /\ FatalIsJustified'
  BY <1>1, <1>6 DEF NodeAdopts, sessionVars, indexerVars, memVars
<1>7. CASE NodeRollsForward \/ NodeRollsBackward
  BY <1>1, <1>7 DEF NodeRollsForward, NodeRollsBackward, NodeSends, indexerVars, memVars
<1>8. CASE HandlerSucceeds
  BY <1>1, <1>8 DEF HandlerSucceeds, HandlerReturns, sessionVars
<1>9. CASE HandlerError
  <2>1. latestBlockPoint' = latestBlockPoint /\ refused' = refused
    BY <1>9 DEF HandlerError, HandlerFails, SessionFails, sessionVars
  <2>2. CASE session = "up"
    BY <1>2, <2>1, <2>2
  <2>3. CASE session # "up"
    BY <1>1, <1>9, <2>1, <2>3 DEF HandlerError, sessionVars
  <2>4. QED
    BY <2>2, <2>3
<1>10. CASE UNCHANGED vars
  BY <1>1, <1>10 DEF vars, sessionVars, indexerVars, memVars
<1>11. QED
  BY <1>3, <1>4, <1>5, <1>6, <1>7, <1>8, <1>9, <1>10 DEF Next

\* The indexer gives up on a rollback only if the node has left its latest
\* confirmed block.
THEOREM FatalErrorsAreJustified ==
  ASSUME SlotsIncrease
  PROVE  Spec => []FatalIsJustified
<1> DEFINE Inv == QueueCoversAncestors /\ RollbacksAreShort /\ RefusedStops /\ FatalIsJustified
<1>1. Init => Inv
  BY Constants DEF Init, NewBlockIndexer, QueueCoversAncestors, RollbacksAreShort,
                   RefusedStops, FatalIsJustified
<1>2. TypeOK /\ QueueIsChain /\ SessionInStep /\ Inv /\ [Next]_vars => Inv'
  BY SlotsIncrease, CoverStep, ShortStep, RefusedStep
<1>3. Inv => FatalIsJustified
  OBVIOUS
<1> HIDE DEF Inv
<1>4. QED
  BY <1>1, <1>2, <1>3, TypeCorrect, InStep, PTL DEF Spec
=============================================================================
