--------------------------- MODULE ChainFollower ----------------------------
(***************************************************************************)
(* The indexer following a Cardano node: module BlockIndexer, the sessions *)
(* core/block_syncer.go opens for it, and the node at the other end of the *)
(* ChainSync protocol.                                                     *)
(*                                                                         *)
(* The node is external.  It serves the chain that ends in its tip and may *)
(* at any moment adopt a higher one.  Within a session it keeps the last   *)
(* point it sent; it sends the next block of its chain or, when the point  *)
(* is no longer on that chain, a rollback to the newest point that is.     *)
(* Messages of a session arrive in order and are lost when it ends.        *)
(*                                                                         *)
(* A session is opened by one try of Sync.  What the goroutines of the     *)
(* syncer do around it (locks, channels, Close) is left to the syncer.     *)
(***************************************************************************)
EXTENDS BlockIndexer, FiniteSets

CONSTANTS
  Parent,          \* the point a block extends
  Ancestors,       \* every point below a point
  RestartOnError,  \* from the configuration
  SyncStartTries,  \* from the configuration, 4 when it gives none
  MaxInflight,     \* bound: messages the node sends ahead
  MaxFaults        \* bound: failures, lost connections and process restarts

\* Blocks form a tree and Ancestors is the transitive closure of Parent.
ASSUME TreeAssumption ==
  /\ Parent \in [Block -> Point]
  /\ Ancestors \in [Point -> SUBSET Point]
  /\ Ancestors[Origin] = {}
  /\ \A b \in Block : Ancestors[b] = {Parent[b]} \cup Ancestors[Parent[b]]
  /\ \A p \in Point : \A q \in Ancestors[p] : Ancestors[q] \subseteq Ancestors[p]
  /\ \A p \in Point : p \notin Ancestors[p]

ASSUME SessionAssumption ==
  /\ RestartOnError \in BOOLEAN
  /\ SyncStartTries \in Nat \ {0}
  /\ MaxInflight \in Nat \ {0}
  /\ MaxFaults \in Nat

\* Slots increase along every chain and the first block is past slot 0.
SlotsIncrease == \A b \in Block : Slot[Parent[b]] < Slot[b]

VARIABLES
  tip,       \* the node: the end of the chain it has adopted
  served,    \* the node: the last point sent in this session
  inflight,  \* messages sent in this session and not yet delivered
  session,   \* "down", "up", or "stopped" when Sync is not tried again
  tries,     \* failed tries of the current call of Sync
  refused,   \* the rollback that stopped the indexer with a fatal error, or Nil
  faults     \* how many faults have happened

nodeVars == <<tip, served>>
sessionVars == <<inflight, session, tries, refused>>
vars == <<indexerVars, nodeVars, sessionVars, faults>>

Upto(point) == {point} \cup Ancestors[point]

\* p is the newest point that lies on the chain below a and on that below b.
IsNewestCommon(p, a, b) ==
  /\ p \in Upto(a) \cap Upto(b)
  /\ \A q \in Upto(a) \cap Upto(b) : p \notin Ancestors[q]

\* The first header extends the point and every other the one before it.
IsChainFrom(point, headers) ==
  \A i \in 1..Len(headers) :
     Parent[headers[i]] = IF i = 1 THEN point ELSE headers[i - 1]

Forward(block) == [type |-> "forward", point |-> block, tip |-> tip]
Backward(point) == [type |-> "backward", point |-> point, tip |-> tip]
Message ==
  [type : {"forward"}, point : Block, tip : Point]
    \cup [type : {"backward"}, point : Point, tip : Point]

\* BlockPoint.ToCommonPoint: every point at slot 0 is taken for the origin.
ToCommonPoint(point) == IF Slot[point] = 0 THEN Origin ELSE point

Init ==
  /\ NewBlockIndexer
  /\ tip \in Point
  /\ served = Origin
  /\ inflight = <<>>
  /\ session = "down"
  /\ tries = 0
  /\ refused = Nil
  /\ faults = 0

-----------------------------------------------------------------------------
\* The node.

NodeAdopts(block) ==
  /\ Cardinality(Ancestors[block]) > Cardinality(Ancestors[tip])
  /\ tip' = block
  /\ UNCHANGED <<indexerVars, served, sessionVars, faults>>

NodeSends(message) ==
  /\ session = "up"
  /\ Len(inflight) < MaxInflight
  /\ inflight' = Append(inflight, message)
  /\ served' = message.point
  /\ UNCHANGED <<indexerVars, tip, session, tries, refused, faults>>

NodeRollsForward ==
  \E block \in Block :
     /\ block \in Upto(tip)
     /\ Parent[block] = served
     /\ NodeSends(Forward(block))

NodeRollsBackward ==
  /\ served \notin Upto(tip)
  /\ \E point \in Point :
        /\ IsNewestCommon(point, served, tip)
        /\ NodeSends(Backward(point))

-----------------------------------------------------------------------------
\* The tries of Sync.

\* One try succeeds: the node finds the point the indexer resumes from and
\* starts the session with a rollback to it.
Connect ==
  LET point == ToCommonPoint(ResumePoint)
  IN /\ session = "down"
     /\ point \in Upto(tip)
     /\ Reset
     /\ served' = point
     /\ inflight' = <<Backward(point)>>
     /\ session' = "up"
     /\ tries' = 0
     /\ UNCHANGED <<tip, refused, faults>>

\* One try fails; the last one ends Sync, whose error stops the program.
TryFails ==
  /\ session = "down"
  /\ tries' = tries + 1
  /\ session' = IF tries + 1 = SyncStartTries THEN "stopped" ELSE "down"
  /\ UNCHANGED <<nodeVars, inflight, refused>>

\* The node does not have the point the indexer resumes from.
IntersectNotFound ==
  /\ TryFails
  /\ ToCommonPoint(ResumePoint) \notin Upto(tip)
  /\ Reset
  /\ UNCHANGED faults

\* The node cannot be reached, Reset cannot read the database, or the
\* connection is lost after Reset.
ConnectFails ==
  /\ TryFails
  /\ faults < MaxFaults
  /\ faults' = faults + 1
  /\ UNCHANGED indexerVars \/ Reset

\* An error ends the session; errorHandler calls Sync again if it may.
SessionFails ==
  /\ inflight' = <<>>
  /\ session' = IF RestartOnError THEN "down" ELSE "stopped"
  /\ UNCHANGED <<nodeVars, tries, refused>>

ConnectionLost ==
  /\ session = "up"
  /\ faults < MaxFaults
  /\ faults' = faults + 1
  /\ SessionFails
  /\ UNCHANGED indexerVars

\* main returns or is killed and is run again.
Restart ==
  /\ faults < MaxFaults
  /\ faults' = faults + 1
  /\ ProcessRestarts
  /\ session' = "down"
  /\ inflight' = <<>>
  /\ tries' = 0
  /\ refused' = Nil
  /\ UNCHANGED nodeVars

-----------------------------------------------------------------------------
\* The callbacks of a session, one message at a time.

Receives(type) ==
  /\ session = "up"
  /\ inflight # <<>>
  /\ Head(inflight).type = type

Handled ==
  /\ inflight' = Tail(inflight)
  /\ UNCHANGED <<nodeVars, session, tries, refused, faults>>

RollForward ==
  /\ Receives("forward")
  /\ LET header == Head(inflight).point
     IN QueueHeader(header) \/ ConfirmFirst(header)
  /\ Handled

RollForwardError ==
  /\ Receives("forward")
  /\ faults < MaxFaults
  /\ faults' = faults + 1
  /\ RollForwardFails
  /\ SessionFails

RollBackward ==
  /\ Receives("backward")
  /\ LET point == Head(inflight).point
     IN RollBackToUnconfirmed(point) \/ RollBackToConfirmed(point)
  /\ Handled

RollBackwardFatal ==
  /\ Receives("backward")
  /\ RollBackRefused(Head(inflight).point)
  /\ refused' = Head(inflight)
  /\ session' = "stopped"
  /\ inflight' = <<>>
  /\ UNCHANGED <<nodeVars, tries, faults>>

HandlerSucceeds ==
  /\ HandlerReturns
  /\ UNCHANGED <<nodeVars, sessionVars, faults>>

\* The handler's error is the callback's, if the session is still there.
HandlerError ==
  /\ HandlerFails
  /\ faults < MaxFaults
  /\ faults' = faults + 1
  /\ \/ session = "up" /\ SessionFails
     \/ session # "up" /\ UNCHANGED <<nodeVars, sessionVars>>

Next ==
  \/ \E block \in Block : NodeAdopts(block)
  \/ NodeRollsForward
  \/ NodeRollsBackward
  \/ Connect
  \/ IntersectNotFound
  \/ ConnectFails
  \/ ConnectionLost
  \/ Restart
  \/ RollForward
  \/ RollForwardError
  \/ RollBackward
  \/ RollBackwardFatal
  \/ HandlerSucceeds
  \/ HandlerError

Spec == Init /\ [][Next]_vars

\* The node answers, the callbacks and the handler return and Sync is tried
\* again after its delay.  No fault and no change of the chain is promised.
Fairness ==
  /\ WF_vars(NodeRollsForward)
  /\ WF_vars(NodeRollsBackward)
  /\ WF_vars(Connect)
  /\ WF_vars(IntersectNotFound)
  /\ WF_vars(RollForward)
  /\ WF_vars(RollBackward)
  /\ WF_vars(RollBackwardFatal)
  /\ WF_vars(HandlerSucceeds)

FairSpec == Spec /\ Fairness

-----------------------------------------------------------------------------
\* The conjuncts of the inductive invariant that are no property by themselves.

\* Where the indexer stands, and where it will stand once the first i - 1
\* messages in flight are handled.
Cursor ==
  IF unconfirmedBlocks = <<>> THEN latestBlockPoint
                              ELSE unconfirmedBlocks[Len(unconfirmedBlocks)]
Before(i) == IF i = 1 THEN Cursor ELSE inflight[i - 1].point

\* The last failed try is the one that stops the indexer.
TriesLeft == session # "stopped" => tries < SyncStartTries

QueueIsChain ==
  /\ latestBlockPoint = Nil => unconfirmedBlocks = <<>>
  /\ IsChainFrom(latestBlockPoint, unconfirmedBlocks)

\* What is in flight leads from where the indexer stands to the point the
\* node has served last.
SessionInStep ==
  session = "up" =>
    /\ latestBlockPoint # Nil
    /\ \A i \in 1..Len(inflight) :
          inflight[i].type = "forward" => Parent[inflight[i].point] = Before(i)
    /\ served = Before(Len(inflight) + 1)

\* The stored blocks have the slots they are stored under, the newest last.
StoredBySlot ==
  \A slot \in SlotNumbers :
     dbConfirmedBlocks[slot] # Nil =>
       /\ Slot[dbConfirmedBlocks[slot]] = slot
       /\ slot <= Slot[ResumePoint]

StartIsBelow == StartPoint \in Upto(ResumePoint)

\* Below a queued header lie the headers queued before it and the points up
\* to the confirmed one.
QueueCoversAncestors ==
  \A i \in 1..Len(unconfirmedBlocks) :
     Upto(unconfirmedBlocks[i]) =
       {unconfirmedBlocks[j] : j \in 1..i} \cup Upto(latestBlockPoint)

RollbacksAreShort ==
  session = "up" =>
    \A i \in 1..Len(inflight) :
       inflight[i].type = "backward" =>
         IsNewestCommon(inflight[i].point, Before(i), inflight[i].tip)

RefusedStops == refused # Nil => session = "stopped"

-----------------------------------------------------------------------------
TypeOK ==
  /\ IndexerTypeOK
  /\ tip \in Point
  /\ served \in Point
  /\ inflight \in Seq(Message)
  /\ session \in {"down", "up", "stopped"}
  /\ tries \in 0..SyncStartTries
  /\ refused \in Message \cup {Nil}
  /\ faults \in 0..MaxFaults

\* The blocks stored as confirmed are exactly those between the configured
\* start and the point the indexer would resume from: reorganisations, lost
\* sessions, failed tries and restarts leave no gap and no block of a fork
\* (README, "Restart Resilience").
ConfirmedIsChain == Confirmed = Upto(ResumePoint) \ Upto(StartPoint)

\* In the step that makes a block final the indexer holds a chain of
\* ConfirmationBlockCount descendants of it, served in this session and not
\* rolled back (README, "Configurable Block Confirmation").
ConfirmedIsBuried ==
  [][dbLatestBlockPoint' # dbLatestBlockPoint =>
       /\ Len(unconfirmedBlocks') = ConfirmationBlockCount
       /\ IsChainFrom(dbLatestBlockPoint', unconfirmedBlocks')]_vars

\* The indexer gives up on a rollback only when the node has left the latest
\* confirmed block: the tip announced with the rollback does not extend it.
FatalIsJustified == refused # Nil => latestBlockPoint \notin Upto(refused.tip)

\* On disk the indexer keeps a log of final blocks that only grows, one child
\* at a time (module ConfirmedLog).
Log == INSTANCE ConfirmedLog WITH head <- ResumePoint, final <- Confirmed
ImplementsConfirmedLog == Log!Spec

\* Every block of the node's chain with ConfirmationBlockCount descendants.
IsDeep(block) ==
  Cardinality(Ancestors[block]) + ConfirmationBlockCount <= Cardinality(Ancestors[tip])

CaughtUp == {b \in Upto(tip) \ Upto(StartPoint) : IsDeep(b)} \subseteq Confirmed

\* Unless it stops, the indexer ends up with every deep enough block of the
\* node's chain confirmed, after any faults and reorganisations.
CatchesUp == <>[](session = "stopped" \/ CaughtUp)
=============================================================================
