------------------------ MODULE IndexerSystemProofs -------------------------
(***************************************************************************)
(* Proofs about module IndexerSystem: first what the syncer's and the      *)
(* indexer's invariants say of the system, then that it implements module  *)
(* ChainFollower, for one client and a library that waits for the callback *)
(* of a connection it closes: which session the mapping sees in a state,   *)
(* what the steps of the system do to it, and what the theorems of module  *)
(* ChainFollowerProofs say of the system.                                  *)
(***************************************************************************)
EXTENDS IndexerSystem, BlockIndexerProofs, FiniteSetTheorems, WellFoundedInduction

SyncerProofs == INSTANCE BlockSyncerProofs

-----------------------------------------------------------------------------
\* The syncer within the system.

LEMMA SyncerAssumed == SyncerProofs!SyncerAssumption
BY SystemAssumption
   DEF Syncer!SyncerAssumption, Syncer!Connection, Syncer!Thread,
       SyncerProofs!SyncerAssumption, SyncerProofs!Connection, SyncerProofs!Thread

\* The instance the proofs of module BlockSyncer are taken from is the syncer.
LEMMA SameSyncStep == \A t : Syncer!SyncStep(t) <=> SyncerProofs!SyncStep(t)
<1>1. \A t : Syncer!CheckClosed(t) <=> SyncerProofs!CheckClosed(t)
  BY DEF Syncer!CheckClosed, SyncerProofs!CheckClosed, Syncer!Goto, SyncerProofs!Goto,
         Syncer!AfterSync, SyncerProofs!AfterSync, Syncer!sharedVars,
         SyncerProofs!sharedVars, Syncer!connVars, SyncerProofs!connVars, Syncer!Thread,
         SyncerProofs!Thread, Syncer!Connection, SyncerProofs!Connection
<1>2. \A t : Syncer!TakeLock(t) <=> SyncerProofs!TakeLock(t)
  BY DEF Syncer!TakeLock, SyncerProofs!TakeLock, Syncer!Goto, SyncerProofs!Goto,
         Syncer!connVars, SyncerProofs!connVars, Syncer!Thread, SyncerProofs!Thread,
         Syncer!Connection, SyncerProofs!Connection
<1>3. \A t : Syncer!CloseOldConnection(t) <=> SyncerProofs!CloseOldConnection(t)
  BY DEF Syncer!CloseOldConnection, SyncerProofs!CloseOldConnection, Syncer!Goto,
         SyncerProofs!Goto, Syncer!closeConnectionNoLock,
         SyncerProofs!closeConnectionNoLock, Syncer!connVars, SyncerProofs!connVars,
         Syncer!sharedVars, SyncerProofs!sharedVars, Syncer!Thread, SyncerProofs!Thread,
         Syncer!Connection, SyncerProofs!Connection
<1>4. \A t : Syncer!Dial(t) <=> SyncerProofs!Dial(t)
  BY DEF Syncer!Dial, SyncerProofs!Dial, Syncer!Goto, SyncerProofs!Goto, Syncer!Thread,
         SyncerProofs!Thread, Syncer!Connection, SyncerProofs!Connection
<1>5. \A t : Syncer!StartSyncing(t) <=> SyncerProofs!StartSyncing(t)
  BY DEF Syncer!StartSyncing, SyncerProofs!StartSyncing, Syncer!AfterSync,
         SyncerProofs!AfterSync, Syncer!connVars, SyncerProofs!connVars, Syncer!Thread,
         SyncerProofs!Thread, Syncer!Connection, SyncerProofs!Connection
<1>6. \A t : Syncer!TryFails(t) <=> SyncerProofs!TryFails(t)
  BY DEF Syncer!TryFails, SyncerProofs!TryFails, Syncer!Goto, SyncerProofs!Goto,
         Syncer!connVars, SyncerProofs!connVars, Syncer!Thread, SyncerProofs!Thread,
         Syncer!Connection, SyncerProofs!Connection
<1>7. \A t : Syncer!DelayTry(t) <=> SyncerProofs!DelayTry(t)
  BY DEF Syncer!DelayTry, SyncerProofs!DelayTry, Syncer!Goto, SyncerProofs!Goto,
         Syncer!AfterSync, SyncerProofs!AfterSync, Syncer!sharedVars,
         SyncerProofs!sharedVars, Syncer!connVars, SyncerProofs!connVars, Syncer!Thread,
         SyncerProofs!Thread, Syncer!Connection, SyncerProofs!Connection
<1>8. QED
  BY <1>1, <1>2, <1>3, <1>4, <1>5, <1>6, <1>7
     DEF Syncer!SyncStep, SyncerProofs!SyncStep

LEMMA SameHandlerStep == \A c : Syncer!HandlerStep(c) <=> SyncerProofs!HandlerStep(c)
<1>1. \A c : Syncer!StopWatching(c) <=> SyncerProofs!StopWatching(c)
  BY DEF Syncer!StopWatching, SyncerProofs!StopWatching, Syncer!Goto, SyncerProofs!Goto,
         Syncer!sharedVars, SyncerProofs!sharedVars, Syncer!connVars,
         SyncerProofs!connVars, Syncer!Thread, SyncerProofs!Thread, Syncer!Connection,
         SyncerProofs!Connection
<1>2. \A c : Syncer!TakeError(c) <=> SyncerProofs!TakeError(c)
  BY DEF Syncer!TakeError, SyncerProofs!TakeError, Syncer!Goto, SyncerProofs!Goto,
         Syncer!sharedVars, SyncerProofs!sharedVars, Syncer!Thread, SyncerProofs!Thread,
         Syncer!Connection, SyncerProofs!Connection
<1>3. \A c : Syncer!DelaySync(c) <=> SyncerProofs!DelaySync(c)
  BY DEF Syncer!DelaySync, SyncerProofs!DelaySync, Syncer!Goto, SyncerProofs!Goto,
         Syncer!sharedVars, SyncerProofs!sharedVars, Syncer!connVars,
         SyncerProofs!connVars, Syncer!Thread, SyncerProofs!Thread, Syncer!Connection,
         SyncerProofs!Connection
<1>4. \A c : Syncer!Report(c) <=> SyncerProofs!Report(c)
  BY DEF Syncer!Report, SyncerProofs!Report, Syncer!Goto, SyncerProofs!Goto,
         Syncer!sharedVars, SyncerProofs!sharedVars, Syncer!connVars,
         SyncerProofs!connVars, Syncer!Thread, SyncerProofs!Thread, Syncer!Connection,
         SyncerProofs!Connection
<1>5. QED
  BY <1>1, <1>2, <1>3, <1>4
     DEF Syncer!HandlerStep, SyncerProofs!HandlerStep

LEMMA SameClientStep ==
  \A t : Syncer!Signal(t) \/ Syncer!ReadError(t) \/ Syncer!CloseStep(t) <=>
        SyncerProofs!Signal(t) \/ SyncerProofs!ReadError(t) \/ SyncerProofs!CloseStep(t)
<1>1. \A t : Syncer!Signal(t) <=> SyncerProofs!Signal(t)
  BY DEF Syncer!Signal, SyncerProofs!Signal, Syncer!Goto, SyncerProofs!Goto,
         Syncer!sharedVars, SyncerProofs!sharedVars, Syncer!connVars,
         SyncerProofs!connVars, Syncer!Thread, SyncerProofs!Thread, Syncer!Connection,
         SyncerProofs!Connection
<1>2. \A t : Syncer!ReadError(t) <=> SyncerProofs!ReadError(t)
  BY DEF Syncer!ReadError, SyncerProofs!ReadError, Syncer!Goto, SyncerProofs!Goto,
         Syncer!sharedVars, SyncerProofs!sharedVars, Syncer!connVars,
         SyncerProofs!connVars, Syncer!Thread, SyncerProofs!Thread, Syncer!Connection,
         SyncerProofs!Connection
<1>3. \A t : Syncer!Close(t) <=> SyncerProofs!Close(t)
  BY DEF Syncer!Close, SyncerProofs!Close, Syncer!Goto, SyncerProofs!Goto, Syncer!connVars,
         SyncerProofs!connVars, Syncer!Thread, SyncerProofs!Thread, Syncer!Connection,
         SyncerProofs!Connection
<1>4. \A t : Syncer!CloseLastConnection(t) <=> SyncerProofs!CloseLastConnection(t)
  BY DEF Syncer!CloseLastConnection, SyncerProofs!CloseLastConnection, Syncer!Goto,
         SyncerProofs!Goto, Syncer!closeConnectionNoLock,
         SyncerProofs!closeConnectionNoLock, Syncer!connVars, SyncerProofs!connVars,
         Syncer!Thread, SyncerProofs!Thread, Syncer!Connection, SyncerProofs!Connection
<1>5. QED
  BY <1>1, <1>2, <1>3, <1>4
     DEF Syncer!CloseStep, SyncerProofs!CloseStep

LEMMA SameSyncer ==
  /\ UNCHANGED SyncerProofs!vars <=> UNCHANGED syncerVars
  /\ Syncer!Init <=> SyncerProofs!Init
  /\ Syncer!Next <=> SyncerProofs!Next
<1> USE DEF Syncer!Connection, SyncerProofs!Connection, Syncer!Thread, SyncerProofs!Thread
<1>1. UNCHANGED SyncerProofs!vars <=> UNCHANGED syncerVars
  BY DEF SyncerProofs!vars, SyncerProofs!sharedVars, SyncerProofs!connVars, syncerVars
<1>2. Syncer!Init <=> SyncerProofs!Init
  BY DEF Syncer!Init, SyncerProofs!Init
<1>3. \A c, error : Syncer!ConnectionFails(c, error) <=> SyncerProofs!ConnectionFails(c, error)
  BY DEF Syncer!ConnectionFails, SyncerProofs!ConnectionFails,
         Syncer!sharedVars, SyncerProofs!sharedVars
<1>4. Syncer!Next <=> SyncerProofs!Next
  BY <1>3, SameSyncStep, SameHandlerStep, SameClientStep DEF Syncer!Next, SyncerProofs!Next
<1>5. QED
  BY <1>1, <1>2, <1>4

\* What is invariant of the syncer (module BlockSyncerProofs).
SyncerInv ==
  /\ Syncer!TypeOK
  /\ Syncer!LockIsHeld
  /\ Syncer!TriesLeft
  /\ Syncer!HandlersAreNew
  /\ Syncer!ClosedBeforeDial
  /\ Syncer!AtMostOneOpen

LEMMA SameSyncerInv == SyncerInv <=> SyncerProofs!SyncerInv
<1> USE DEF Syncer!Connection, SyncerProofs!Connection, Syncer!Thread, SyncerProofs!Thread
<1>1. Syncer!TypeOK <=> SyncerProofs!TypeOK
  BY DEF Syncer!TypeOK, SyncerProofs!TypeOK, Syncer!Place, SyncerProofs!Place
<1>2. Syncer!LockIsHeld <=> SyncerProofs!LockIsHeld
  BY DEF Syncer!LockIsHeld, SyncerProofs!LockIsHeld, Syncer!HasLock, SyncerProofs!HasLock
<1>3. Syncer!TriesLeft <=> SyncerProofs!TriesLeft
  BY DEF Syncer!TriesLeft, SyncerProofs!TriesLeft, Syncer!MayTry, SyncerProofs!MayTry
<1>4. Syncer!HandlersAreNew <=> SyncerProofs!HandlersAreNew
  BY DEF Syncer!HandlersAreNew, SyncerProofs!HandlersAreNew
<1>5. /\ Syncer!ClosedBeforeDial <=> SyncerProofs!ClosedBeforeDial
      /\ Syncer!AtMostOneOpen <=> SyncerProofs!AtMostOneOpen
  BY DEF Syncer!ClosedBeforeDial, SyncerProofs!ClosedBeforeDial, Syncer!AtMostOneOpen,
         SyncerProofs!AtMostOneOpen, Syncer!Open, SyncerProofs!Open
<1>6. QED
  BY <1>1, <1>2, <1>3, <1>4, <1>5 DEF SyncerInv, SyncerProofs!SyncerInv

LEMMA SameSyncerInvNext == SyncerInv' <=> SyncerProofs!SyncerInv'
BY SameSyncerInv, PTL

LEMMA SyncerInvInit == Syncer!Init => SyncerInv
BY SyncerProofs!InitInv, SyncerAssumed, SameSyncer, SameSyncerInv

LEMMA SyncerInvNext == SyncerInv /\ [Syncer!Next]_syncerVars => SyncerInv'
<1>1. SyncerProofs!SyncerInv /\ [SyncerProofs!Next]_(SyncerProofs!vars) => SyncerProofs!SyncerInv'
  BY SyncerProofs!InvIsInductive, SyncerAssumed
<1>2. QED
  BY <1>1, SameSyncer, SameSyncerInv, SameSyncerInvNext

-----------------------------------------------------------------------------
\* Types, whatever the library and however many clients.

LEMMA SystemConstants ==
  /\ MaxConnections \in Nat /\ Connection = 1..MaxConnections
  /\ Thread = Client \cup Connection /\ Client \cap Connection = {}
  /\ SyncStartTries \in Nat \ {0}
  /\ RestartOnError \in BOOLEAN /\ CloseWaits \in BOOLEAN
  /\ Nil \notin Thread
  /\ Follower!Point = Point
  /\ Parent \in [Block -> Point]
  /\ Ancestors \in [Point -> SUBSET Point]
BY SystemAssumption
   DEF Syncer!SyncerAssumption, Follower!TreeAssumption, Connection, Thread,
       Syncer!Connection, Syncer!Thread, Point, Follower!Point

LEMMA MessageTypes ==
  ASSUME tip \in Point
  PROVE  /\ \A block \in Block : Follower!Forward(block) \in Follower!Message
         /\ \A point \in Point : Follower!Backward(point) \in Follower!Message
         /\ \A message \in Follower!Message :
              /\ message.point \in Point
              /\ message.type \in {"forward", "backward"}
              /\ message.type = "forward" => message.point \in Block
BY SystemConstants DEF Follower!Forward, Follower!Backward, Follower!Message, Point

Callback ==
  [place : {"idle"} \cup Running \cup Over,
   message : Follower!Message \cup {Nil},
   retriever : Connection \cup {Nil}]

\* A callback that is called, moves or reads bs.connection.
LEMMA CallbackTypes ==
  ASSUME callback \in [Connection -> Callback], NEW c \in Connection
  PROVE  /\ \A message \in Follower!Message : Called(message) \in Callback
         /\ \A place \in {"idle"} \cup Running \cup Over :
              [callback EXCEPT ![c].place = place] \in [Connection -> Callback]
         /\ \A place \in {"idle"} \cup Running \cup Over : \A d \in Connection \cup {Nil} :
              [callback EXCEPT ![c].place = place, ![c].retriever = d]
                \in [Connection -> Callback]
<1>1. \A message \in Follower!Message : Called(message) \in Callback
  BY DEF Called, Callback, Running
<1>2. callback[c] \in Callback
  OBVIOUS
<1>3. \A place \in {"idle"} \cup Running \cup Over :
        [callback EXCEPT ![c].place = place] \in [Connection -> Callback]
  BY <1>2 DEF Callback
<1>4. \A place \in {"idle"} \cup Running \cup Over : \A d \in Connection \cup {Nil} :
        [callback EXCEPT ![c].place = place, ![c].retriever = d] \in [Connection -> Callback]
  BY <1>2 DEF Callback
<1>5. QED
  BY <1>1, <1>3, <1>4

\* A callback with its message, as the indexer gets it.
LEMMA CalledMessage ==
  ASSUME MessageIsThere, tip \in Point, NEW c \in Connection,
         callback[c].place \in Running
  PROVE  /\ callback[c].message \in Follower!Message
         /\ callback[c].message.point \in Point
         /\ callback[c].message.type = "forward" => callback[c].message.point \in Block
BY MessageTypes DEF MessageIsThere, Running

\* What the steps of the system are to the indexer.
LEMMA IsIndexerStep ==
  ASSUME TypeOK, MessageIsThere, [Next]_vars
  PROVE  IndexerStep
<1>1. ASSUME NEW c \in Connection, CallbackStep(c)
      PROVE  IndexerStep
  <2>1. CASE ReadConnection(c)
    BY <2>1 DEF ReadConnection, IndexerStep
  <2>2. CASE RollForward(c)
    <3>1. callback[c].message.point \in Block
      BY <2>2, CalledMessage DEF RollForward, ToIndexer, IsAt, Running, TypeOK
    <3>2. QED
      BY <2>2, <3>1 DEF RollForward, RollForwardFails, IndexerStep
  <2>3. CASE RollBackward(c)
    <3>1. callback[c].message.point \in Point
      BY <2>3, CalledMessage DEF RollBackward, ToIndexer, IsAt, Running, TypeOK
    <3>2. QED
      BY <2>3, <3>1 DEF RollBackward, RollBackRefused, IndexerStep
  <2>4. CASE HandlerEnds(c)
    BY <2>4 DEF HandlerEnds, IndexerStep
  <2>5. QED
    BY <1>1, <2>1, <2>2, <2>3, <2>4 DEF CallbackStep
<1>2. ASSUME NEW t, SyncStep(t) \/ CloseStep(t)
      PROVE  IndexerStep
  BY <1>2 DEF SyncStep, CloseStep, SyncerAlone, EndsSession, StartSyncing, TryFails, IndexerStep
<1>4. ASSUME NEW block \in Block, NodeAdopts(block)
      PROVE  IndexerStep
  BY <1>4 DEF NodeAdopts, IndexerStep
<1>5. CASE NodeSendsNext
  BY <1>5 DEF NodeSendsNext, NodeSends, IndexerStep
<1>6. CASE UNCHANGED vars
  BY <1>6 DEF vars, IndexerStep
<1>7. QED
  BY <1>1, <1>2, <1>4, <1>5, <1>6 DEF Next, SyncerAlone, IndexerStep

\* What they are to the syncer.
LEMMA IsSyncerStep ==
  ASSUME TypeOK, [Next]_vars
  PROVE  [Syncer!Next]_syncerVars
<1>1. ASSUME NEW c \in Connection, CallbackStep(c)
      PROVE  [Syncer!Next]_syncerVars
  <2>1. ASSUME NEW error \in {"retry", "fatal"}, ReturnsError(c, error)
        PROVE  [Syncer!Next]_syncerVars
    BY <2>1 DEF ReturnsError, Syncer!Next, Connection
  <2>2. QED
    BY <1>1, <2>1 DEF CallbackStep, ReadConnection, RollForward, RollBackward, HandlerEnds, Returns
<1>2. ASSUME NEW t \in Thread, SyncStep(t)
      PROVE  Syncer!Next
  <2>1. Syncer!SyncStep(t)
    BY <1>2 DEF SyncStep, SyncerAlone, EndsSession, StartSyncing, TryFails, Syncer!SyncStep
  <2>2. QED
    BY <2>1 DEF Syncer!Next, Thread
<1>3. ASSUME NEW t \in Client, CloseStep(t)
      PROVE  Syncer!Next
  BY <1>3 DEF CloseStep, SyncerAlone, EndsSession, Syncer!CloseStep, Syncer!Next
<1>4. ASSUME NEW t \in Client, SyncerAlone(Syncer!Signal(t) \/ Syncer!ReadError(t))
      PROVE  Syncer!Next
  BY <1>4 DEF SyncerAlone, Syncer!Next
<1>5. ASSUME NEW c \in Connection,
             SyncerAlone(Syncer!ConnectionFails(c, "retry")) \/ SyncerAlone(Syncer!HandlerStep(c))
      PROVE  Syncer!Next
  BY <1>5 DEF SyncerAlone, Syncer!Next, Connection
<1>6. CASE (\E block \in Block : NodeAdopts(block)) \/ NodeSendsNext \/ UNCHANGED vars
  BY <1>6 DEF NodeAdopts, NodeSendsNext, NodeSends, vars
<1>7. QED
  BY <1>1, <1>2, <1>3, <1>4, <1>5, <1>6 DEF Next

\* The types of what is neither the indexer's nor the syncer's.
SystemTypes ==
  /\ tip \in Point
  /\ served \in Point
  /\ callback \in [Connection -> Callback]
  /\ MessageIsThere

\* A connection is called with a message.
LEMMA CallKeepsTypes ==
  ASSUME SystemTypes, NEW c \in Connection, NEW message \in Follower!Message,
         callback' = [callback EXCEPT ![c] = Called(message)],
         served' \in Point, tip' = tip
  PROVE  SystemTypes'
<1>1. Called(message) \in Callback /\ Called(message).message = message
  BY CallbackTypes DEF SystemTypes, Called
<1>2. callback' \in [Connection -> Callback]
  BY <1>1 DEF SystemTypes
<1>3. \A m : m \in Follower!Message' <=> m \in Follower!Message
  BY DEF Follower!Message
<1>4. MessageIsThere'
  BY <1>1, <1>3 DEF SystemTypes, MessageIsThere
<1>5. QED
  BY <1>2, <1>4 DEF SystemTypes

\* A callback with a message goes on to another place, and one without ends.
LEMMA MoveKeepsTypes ==
  ASSUME SystemTypes, NEW c \in Connection, NEW place \in {"idle"} \cup Running \cup Over,
         place \in {"idle", "ended"} \/ callback[c].place \notin {"idle", "ended"},
         \/ callback' = [callback EXCEPT ![c].place = place]
         \/ \E d \in Connection \cup {Nil} :
              callback' = [callback EXCEPT ![c].place = place, ![c].retriever = d],
         served' = served, tip' = tip
  PROVE  SystemTypes'
<1>1. callback' \in [Connection -> Callback]
  <2>1. callback \in [Connection -> Callback]
    BY DEF SystemTypes
  <2>2. CASE callback' = [callback EXCEPT ![c].place = place]
    BY <2>1, <2>2, CallbackTypes
  <2>3. ASSUME NEW d \in Connection \cup {Nil},
               callback' = [callback EXCEPT ![c].place = place, ![c].retriever = d]
        PROVE  callback' \in [Connection -> Callback]
    BY <2>1, <2>3, CallbackTypes
  <2>4. QED
    BY <2>2, <2>3
<1>2. \A m : m \in Follower!Message' <=> m \in Follower!Message
  BY DEF Follower!Message
<1>3. /\ \A d \in Connection \ {c} : callback'[d] = callback[d]
      /\ callback'[c].place = place /\ callback'[c].message = callback[c].message
  BY DEF SystemTypes, Callback
<1>4. MessageIsThere'
  BY <1>2, <1>3 DEF SystemTypes, MessageIsThere
<1>5. QED
  BY <1>1, <1>4 DEF SystemTypes

LEMMA SystemTypesKept ==
  ASSUME IndexerTypeOK, SystemTypes, SyncerInv, [Next]_vars
  PROVE  SystemTypes'
<1>0. /\ connection \in Connection \cup {Nil}
      /\ tip \in Point /\ callback \in [Connection -> Callback]
  BY DEF SyncerInv, Syncer!TypeOK, SystemTypes, Connection
<1>1. ASSUME UNCHANGED <<nodeVars, callback>>
      PROVE  SystemTypes'
  BY <1>1 DEF nodeVars, SystemTypes, MessageIsThere, Follower!Message
<1>2. ASSUME NEW block \in Block, NodeAdopts(block)
      PROVE  SystemTypes'
  BY <1>2 DEF NodeAdopts, SystemTypes, MessageIsThere, Follower!Message, Point
<1>3. CASE NodeSendsNext
  <2>1. ASSUME NEW message \in Follower!Message, NodeSends(message)
        PROVE  SystemTypes'
    <3>1. connection \in Connection
      BY <2>1 DEF NodeSends, Started
    <3>2. message.point \in Point
      BY <1>0, MessageTypes
    <3>3. QED
      BY <2>1, <3>1, <3>2, CallKeepsTypes DEF NodeSends
  <2>2. QED
    BY <1>0, <1>3, <2>1, MessageTypes DEF NodeSendsNext
<1>4. ASSUME NEW c \in Connection, CallbackStep(c)
      PROVE  SystemTypes'
  <2>1. CASE ReadConnection(c)
    <3>1. callback' = [callback EXCEPT ![c].place = "mutex", ![c].retriever = connection]
      BY <2>1 DEF ReadConnection
    <3>2. QED
      BY <1>0, <2>1, <3>1, MoveKeepsTypes DEF ReadConnection, IsAt, Running, nodeVars
  <2>2. ASSUME NEW place \in {"idle", "handler", "failed", "fatal"}, Moves(c, place),
               callback[c].place \in Running, UNCHANGED nodeVars
        PROVE  SystemTypes'
    BY <2>2, MoveKeepsTypes DEF Moves, Running, Over, nodeVars
  <2>3. QED
    BY <1>4, <2>1, <2>2
       DEF CallbackStep, RollForward, RollBackward, HandlerEnds, Returns, ReturnsError,
           ToIndexer, IsAt, Running
<1>5. ASSUME UNCHANGED nodeVars,
             IF connection = Nil THEN UNCHANGED callback
             ELSE LET place == callback[connection].place
                  IN callback' = [callback EXCEPT ![connection].place =
                                    IF place = "idle" THEN "ended" ELSE place]
      PROVE  SystemTypes'
  <2>1. CASE connection = Nil
    BY <1>1, <1>5, <2>1
  <2>2. CASE connection # Nil
    <3>1. connection \in Connection
      BY <1>0, <2>2
    <3>2. callback[connection].place \in {"idle"} \cup Running \cup Over
      BY <1>0, <3>1 DEF Callback
    <3>3. QED
      BY <1>5, <2>2, <3>1, <3>2, MoveKeepsTypes DEF Over, nodeVars
  <2>3. QED
    BY <2>1, <2>2
<1>6. ASSUME NEW t \in Thread, StartSyncing(t)
      PROVE  SystemTypes'
  <2> DEFINE point == Follower!ToCommonPoint(ResumePoint)
  <2>1. point \in Point
    BY ResumePointType, IndexerConstants DEF Follower!ToCommonPoint
  <2>2. connection \in Connection
    BY <1>6 DEF StartSyncing, Syncer!StartSyncing, SyncerInv, Syncer!HandlersAreNew,
                Thread, Connection
  <2>3. QED
    BY <1>0, <1>6, <2>1, <2>2, MessageTypes, CallKeepsTypes DEF StartSyncing
<1>7. QED
  BY <1>1, <1>2, <1>3, <1>4, <1>5, <1>6
     DEF Next, SyncStep, CloseStep, SyncerAlone, EndsSession, TryFails, vars

LEMMA InitTypes == Init => IndexerTypeOK /\ SystemTypes /\ SyncerInv
<1> SUFFICES ASSUME Init PROVE IndexerTypeOK /\ SystemTypes /\ SyncerInv
  OBVIOUS
<1>1. SyncerInv
  BY SyncerInvInit DEF Init
<1>2. IndexerTypeOK
  BY IndexerConstants DEF Init, NewBlockIndexer, IndexerTypeOK
<1>3. SystemTypes
  BY DEF Init, Idle, SystemTypes, Callback, MessageIsThere, Point
<1>4. QED
  BY <1>1, <1>2, <1>3

LEMMA TypesAreOK ==
  IndexerTypeOK /\ SystemTypes /\ SyncerInv => TypeOK /\ MessageIsThere
BY DEF SystemTypes, Callback, SyncerInv, TypeOK

LEMMA TypesKept ==
  IndexerTypeOK /\ SystemTypes /\ SyncerInv /\ [Next]_vars
    => IndexerTypeOK' /\ SystemTypes' /\ SyncerInv'
BY TypesAreOK, IsIndexerStep, IsSyncerStep, IndexerTypeKept, SystemTypesKept, SyncerInvNext

\* Every variable keeps its type with any number of clients and either kind of
\* library: a callback has a message of the node when it needs one, and the
\* queue of the indexer keeps its bound.
THEOREM TypeCorrect == Spec => []TypeOK
<1>1. IndexerTypeOK /\ SystemTypes /\ SyncerInv => TypeOK
  BY TypesAreOK
<1>2. QED
  BY <1>1, InitTypes, TypesKept, PTL DEF Spec

\* The syncer's connections in the system as in module BlockSyncer.
THEOREM SystemImplementsSyncer == Spec => Syncer!Spec /\ []Syncer!AtMostOneOpen
<1>1. Init => Syncer!Init
  BY DEF Init
<1>2. IndexerTypeOK /\ SystemTypes /\ SyncerInv /\ [Next]_vars => [Syncer!Next]_syncerVars
  BY TypesAreOK, IsSyncerStep
<1>3. [Syncer!Next]_syncerVars => [Syncer!Next]_(Syncer!vars)
  BY DEF syncerVars, Syncer!vars, Syncer!sharedVars, Syncer!connVars
<1>4. SyncerInv => Syncer!AtMostOneOpen
  BY DEF SyncerInv
<1>5. QED
  BY <1>1, <1>2, <1>3, <1>4, InitTypes, TypesKept, PTL DEF Spec, Syncer!Spec

-----------------------------------------------------------------------------
\* One session at a time, for one client and a library that waits for the
\* callback.
SessionInv ==
  /\ OneSyncs
  /\ RetriesAllowed
  /\ NewestIsCurrent
  /\ OneSession
  /\ ErrorsAreLate
  /\ FatalEnds
  /\ FetchesFromItsSession

SystemInv ==
  /\ IndexerTypeOK
  /\ SystemTypes
  /\ SyncerInv
  /\ SessionInv

LEMMA Numbers == \A c \in Connection : c \in Nat /\ c > 0 /\ c <= MaxConnections
BY SystemConstants

\* What the steps below need of the types and of the syncer's invariant.
LEMMA SystemTyped ==
  ASSUME SystemInv
  PROVE  /\ pc \in [Thread -> Syncer!Place]
         /\ tries \in [Thread -> 0..SyncStartTries]
         /\ isOpen \in [Connection -> BOOLEAN]
         /\ connError \in [Connection -> {Nil, "retry", "fatal"}]
         /\ callback \in [Connection -> Callback]
BY DEF SystemInv, SystemTypes, SyncerInv, Syncer!TypeOK, Connection, Thread

LEMMA SystemFacts ==
  ASSUME SystemInv
  PROVE  /\ connection \in Connection \cup {Nil}
         /\ dialled \in 0..MaxConnections
         /\ \A c \in Connection : c > dialled => pc[c] = "not started"
         /\ \A c \in Connection : isOpen[c] => c = connection
         /\ \A t, u \in Thread : pc[t] = "start" /\ pc[u] \in {"dial", "start"} => u = t
         /\ \A t \in Thread : pc[t] = "start" =>
              connection \in Connection /\ pc[connection] = "not started"
BY DEF SystemInv, SystemTypes, SyncerInv, Syncer!TypeOK, Syncer!HandlersAreNew,
       Syncer!AtMostOneOpen, Syncer!Open, Syncer!LockIsHeld, Syncer!HasLock, Connection, Thread

LEMMA SystemNumbers ==
  ASSUME SystemInv
  PROVE  /\ dialled \in Nat /\ dialled <= MaxConnections
         /\ MaxConnections \in Nat /\ SyncStartTries \in Nat
<1>1. dialled \in 0..MaxConnections
  BY SystemFacts
<1>2. MaxConnections \in Nat /\ SyncStartTries \in Nat
  BY SystemConstants
<1>3. QED
  BY <1>1, <1>2

\* The newest connection is bs.connection, and the only session that goes on.
LEMMA NewestSession ==
  ASSUME SystemInv, NEW c \in Started
  PROVE  /\ c \in Connection /\ c \in Nat /\ connection \in Connection
         /\ connection = dialled /\ c <= connection
         /\ callback[c].place \notin Over => c = connection /\ tries[c] = 0
<1>1. c \in Connection /\ pc[c] # "not started"
  BY DEF Started
<1>2. c \in Nat /\ c > 0 /\ dialled \in Nat
  BY <1>1, Numbers, SystemNumbers
<1>3. ~(c > dialled)
  BY <1>1, SystemFacts
<1>4. c <= dialled /\ dialled # 0
  BY <1>2, <1>3
<1>5. connection = dialled
  BY <1>4 DEF SystemInv, SessionInv, NewestIsCurrent
<1>6. callback[c].place \notin Over => c = connection /\ tries[c] = 0
  BY DEF SystemInv, SessionInv, OneSession
<1>7. connection \in Connection
  <2>1. connection \in Connection \cup {Nil} /\ dialled \in 0..MaxConnections
    BY SystemFacts
  <2>2. connection \in 1..MaxConnections
    BY <1>4, <1>5, <2>1, SystemConstants
  <2>3. QED
    BY <2>2, SystemConstants
<1>8. QED
  BY <1>1, <1>2, <1>4, <1>5, <1>6, <1>7

LEMMA RunningSession ==
  ASSUME SystemInv, NEW c \in Connection, callback[c].place \in Running
  PROVE  c \in Started /\ c = connection /\ tries[c] = 0
<1>1. c \in Started
  BY DEF SystemInv, SessionInv, OneSession, Running
<1>2. QED
  BY <1>1, NewestSession DEF Running, Over

\* A callback that goes on to another place keeps all else.
LEMMA PlaceMoves ==
  ASSUME callback \in [Connection -> Callback], NEW c \in Connection, NEW place,
         callback' = [callback EXCEPT ![c].place = place]
  PROVE  \A d \in Connection :
            /\ callback'[d].place = IF d = c THEN place ELSE callback[d].place
            /\ callback'[d].message = callback[d].message
            /\ callback'[d].retriever = callback[d].retriever
BY DEF Callback

\* What CloseOldConnection, Close and all that do not concern the callbacks do
\* to them: one that is idle may end with its connection.
SessionsEnd ==
  \A c \in Connection :
     /\ callback'[c].retriever = callback[c].retriever
     /\ callback'[c].message = callback[c].message
     /\ \/ callback'[c].place = callback[c].place
        \/ callback[c].place = "idle" /\ callback'[c].place = "ended"

\* A thread moves, and may close the connection; its session ends with that.
LEMMA ThreadMoves ==
  ASSUME SystemInv, NEW t \in Thread, NEW place \in Syncer!Place,
         pc' = [pc EXCEPT ![t] = place],
         pc[t] \notin {"not started", "done"}, place \notin {"not started", "start"},
         place \in Trying => pc[t] \in Trying \/ (pc[t] = "delay sync" /\ t \in Connection),
         place = "delay sync" => RestartOnError,
         place = "dial" => \A c \in Started : callback'[c].place \in Over,
         place \notin {"watch", "done"} => t \in Client \/ ~isOpen[t],
         t \in FatalErrors => place \in {"report", "done"},
         isOpen' \in [Connection -> BOOLEAN], connError' \in [Connection -> {Nil, "retry", "fatal"}],
         \A c \in Connection : /\ isOpen'[c] => isOpen[c]
                               /\ connError'[c] \in {connError[c], Nil},
         \/ tries' = tries
         \/ pc[t] \in {"dial", "start"} /\ tries' = [tries EXCEPT ![t] = @ + 1],
         SessionsEnd,
         UNCHANGED <<connection, dialled>>
  PROVE  SessionInv'
<1>0. /\ pc \in [Thread -> Syncer!Place]
      /\ tries \in [Thread -> 0..SyncStartTries]
      /\ isOpen \in [Connection -> BOOLEAN]
      /\ connError \in [Connection -> {Nil, "retry", "fatal"}]
      /\ callback \in [Connection -> Callback]
      /\ Thread = Client \cup Connection /\ Client \cap Connection = {}
      /\ SyncStartTries \in Nat /\ dialled \in Nat
      /\ \A c \in Connection : c \in Nat
  <2>1. SyncStartTries \in Nat /\ dialled \in Nat
    BY SystemNumbers
  <2>2. /\ pc \in [Thread -> Syncer!Place]
        /\ tries \in [Thread -> 0..SyncStartTries]
        /\ isOpen \in [Connection -> BOOLEAN]
        /\ connError \in [Connection -> {Nil, "retry", "fatal"}]
        /\ callback \in [Connection -> Callback]
    BY SystemTyped
  <2>3. Thread = Client \cup Connection /\ Client \cap Connection = {}
    BY SystemConstants
  <2>4. \A c \in Connection : c \in Nat
    BY Numbers
  <2>5. QED
    BY <2>1, <2>2, <2>3, <2>4
<1> USE <1>0
<1>1. \A u \in Thread : pc'[u] = IF u = t THEN place ELSE pc[u]
  OBVIOUS
<1>2. Started' = Started
  BY <1>1 DEF Started
<1>3. Started \subseteq Connection
  BY DEF Started
<1>4. \A c \in Connection :
        /\ callback'[c].retriever = callback[c].retriever
        /\ callback'[c].place = callback[c].place \/
             (callback[c].place = "idle" /\ callback'[c].place = "ended")
  BY DEF SessionsEnd
<1>5. FatalErrors' = FatalErrors
  BY <1>2, <1>3, <1>4 DEF FatalErrors
<1>6. \A c \in Connection : tries'[c] = tries[c] \/ (c = t /\ pc[t] \in {"dial", "start"})
  OBVIOUS
<1>7. OneSyncs'
  <2>1. ASSUME NEW c \in Started, NEW d \in Started, c < d
        PROVE  pc'[c] = "done"
    <3>1. pc[c] = "done"
      BY <2>1 DEF SystemInv, SessionInv, OneSyncs
    <3>2. QED
      BY <1>1, <1>3, <3>1
  <2>2. ASSUME Started # {}, NEW u \in Client
        PROVE  pc'[u] \notin Trying
    <3>1. pc[u] \notin Trying
      BY <2>2 DEF SystemInv, SessionInv, OneSyncs
    <3>2. QED
      BY <1>1, <3>1
  <2>3. QED
    BY <1>2, <2>1, <2>2 DEF OneSyncs
<1>8. RetriesAllowed'
  BY <1>1 DEF SystemInv, SessionInv, RetriesAllowed
<1>9. NewestIsCurrent'
  BY DEF SystemInv, SessionInv, NewestIsCurrent
<1>10. OneSession'
  <2>1. ASSUME NEW c \in Connection \ Started
        PROVE  callback'[c].place \in {"idle", "ended"} /\ tries'[c] = 0
    BY <1>4, <1>6 DEF SystemInv, SessionInv, OneSession, Started
  <2>2. ASSUME NEW c \in Started
        PROVE  callback'[c].place \in Over \/ (c = connection' /\ tries'[c] = 0)
    BY <1>3, <1>4, <1>6 DEF SystemInv, SessionInv, OneSession, Over
  <2>3. ASSUME NEW u \in Thread, pc'[u] \in {"dial", "start"}, NEW c \in Started
        PROVE  callback'[c].place \in Over
    BY <1>1, <1>3, <1>4, <2>3 DEF SystemInv, SessionInv, OneSession, Over
  <2>4. QED
    BY <1>2, <2>1, <2>2, <2>3 DEF OneSession
<1>11. ErrorsAreLate'
  <2>1. \A c \in Connection :
          /\ isOpen[c] => connError[c] = Nil /\ pc[c] \in {"not started", "watch", "done"}
          /\ c > dialled => connError[c] = Nil
    BY DEF SystemInv, SessionInv, ErrorsAreLate
  <2>2. ASSUME NEW c \in Connection, isOpen'[c]
        PROVE  connError'[c] = Nil /\ pc'[c] \in {"not started", "watch", "done"}
    <3>1. isOpen[c] /\ connError'[c] \in {connError[c], Nil}
      BY <2>2
    <3>2. connError[c] = Nil /\ pc[c] \in {"not started", "watch", "done"}
      BY <2>1, <3>1
    <3>3. CASE c = t
      BY <1>1, <3>1, <3>2, <3>3
    <3>4. CASE c # t
      BY <1>1, <3>1, <3>2, <3>4
    <3>5. QED
      BY <3>3, <3>4
  <2>3. ASSUME NEW c \in Connection, c > dialled
        PROVE  connError'[c] = Nil
    BY <2>1, <2>3
  <2>4. QED
    BY <2>2, <2>3 DEF ErrorsAreLate
<1>12. FatalEnds'
  <2> SUFFICES ASSUME NEW c \in FatalErrors
               PROVE  /\ pc'[c] \in {"watch", "report", "done"}
                      /\ ~isOpen'[c] /\ connError'[c] \in {Nil, "fatal"}
                      /\ \A d \in Started : d <= c
    BY <1>2, <1>5 DEF FatalEnds
  <2>1. c \in Connection
    BY <1>3 DEF FatalErrors
  <2>2. /\ pc[c] \in {"watch", "report", "done"}
        /\ ~isOpen[c] /\ connError[c] \in {Nil, "fatal"}
        /\ \A d \in Started : d <= c
    BY DEF SystemInv, SessionInv, FatalEnds
  <2>3. ~isOpen'[c] /\ connError'[c] \in {Nil, "fatal"}
    BY <2>1, <2>2
  <2>4. pc'[c] \in {"watch", "report", "done"}
    <3>1. CASE c = t
      BY <1>1, <3>1
    <3>2. CASE c # t
      BY <1>1, <2>1, <2>2, <3>2
    <3>3. QED
      BY <3>1, <3>2
  <2>5. QED
    BY <2>2, <2>3, <2>4
<1>13. FetchesFromItsSession'
  BY <1>4 DEF SystemInv, SessionInv, FetchesFromItsSession
<1>14. QED
  BY <1>7, <1>8, <1>9, <1>10, <1>11, <1>12, <1>13 DEF SessionInv

LEMMA OpenIsNewest ==
  ASSUME SystemInv, NEW c \in Connection, isOpen[c]
  PROVE  c = connection /\ c = dialled
<1>1. c = connection
  BY SystemFacts
<1>2. c # Nil
  BY SystemConstants
<1>3. connection = IF dialled = 0 THEN Nil ELSE dialled
  BY DEF SystemInv, SessionInv, NewestIsCurrent
<1>4. CASE dialled = 0
  BY <1>1, <1>2, <1>3, <1>4
<1>5. CASE dialled # 0
  BY <1>1, <1>3, <1>5
<1>6. QED
  BY <1>4, <1>5

\* A callback of a session that is not over goes on, and does not fail with the
\* fatal error.
LEMMA CallbackMoves ==
  ASSUME SystemInv, NEW c \in Started, callback[c].place \notin Over,
         callback'[c].place # "fatal",
         callback'[c].retriever \in {callback[c].retriever, Nil, c},
         \A d \in Connection \ {c} : callback'[d] = callback[d],
         UNCHANGED syncerVars
  PROVE  SessionInv'
<1>1. /\ c \in Connection /\ c = connection /\ tries[c] = 0
      /\ c \in Nat
  BY NewestSession
<1>2. Started' = Started /\ Started \subseteq Connection
  BY DEF Started, syncerVars
<1>3. FatalErrors' = FatalErrors
  BY <1>1, <1>2 DEF FatalErrors, Over
<1>4. /\ OneSyncs' /\ RetriesAllowed' /\ NewestIsCurrent' /\ ErrorsAreLate'
  BY <1>2 DEF SystemInv, SessionInv, OneSyncs, RetriesAllowed, NewestIsCurrent, ErrorsAreLate,
              syncerVars
<1>5. OneSession'
  <2>1. \A d \in Connection \ Started : callback'[d].place \in {"idle", "ended"} /\ tries'[d] = 0
    BY <1>1 DEF SystemInv, SessionInv, OneSession, syncerVars
  <2>2. \A d \in Started : callback'[d].place \in Over \/ (d = connection' /\ tries'[d] = 0)
    BY <1>1, <1>2 DEF SystemInv, SessionInv, OneSession, syncerVars
  <2>3. \A t \in Thread : pc[t] \notin {"dial", "start"}
    BY DEF SystemInv, SessionInv, OneSession
  <2>4. QED
    BY <1>2, <2>1, <2>2, <2>3 DEF OneSession, syncerVars
<1>6. FatalEnds'
  BY <1>2, <1>3 DEF SystemInv, SessionInv, FatalEnds, syncerVars
<1>7. FetchesFromItsSession'
  BY <1>1 DEF SystemInv, SessionInv, FetchesFromItsSession
<1>8. QED
  BY <1>4, <1>5, <1>6, <1>7 DEF SessionInv

\* The open connection ends with an error, its callback's if that was running.
LEMMA SessionFails ==
  ASSUME SystemInv, NEW c \in Connection, NEW error \in {"retry", "fatal"}, isOpen[c],
         isOpen' = [isOpen EXCEPT ![c] = FALSE],
         connError' = [connError EXCEPT ![c] = error],
         UNCHANGED <<connection, dialled, pc, tries>>,
         \A d \in Connection : callback'[d].retriever = callback[d].retriever,
         \A d \in Connection \ {c} : callback'[d].place = callback[d].place,
         \/ error = "retry" /\ callback'[c].place = callback[c].place
         \/ callback[c].place \in Running /\ callback'[c].place =
              IF error = "fatal" THEN "fatal" ELSE "failed"
  PROVE  SessionInv'
<1>1. /\ isOpen \in [Connection -> BOOLEAN]
      /\ connError \in [Connection -> {Nil, "retry", "fatal"}]
  BY SystemTyped
<1>2. c = connection /\ c <= dialled /\ c \in Nat /\ dialled \in Nat
  BY OpenIsNewest, Numbers, SystemNumbers
<1>3. Started' = Started /\ Started \subseteq Connection
  BY DEF Started
<1>4. \A d \in Connection :
         /\ isOpen'[d] <=> isOpen[d] /\ d # c
         /\ connError'[d] = IF d = c THEN error ELSE connError[d]
  BY <1>1
<1>5. callback[c].place \in Running => c \in Started
  BY DEF SystemInv, SessionInv, OneSession, Running
<1>6. OneSyncs' /\ RetriesAllowed' /\ NewestIsCurrent'
  BY <1>3 DEF SystemInv, SessionInv, OneSyncs, RetriesAllowed, NewestIsCurrent
<1>7. OneSession'
  <2>1. \A d \in Connection : callback'[d].place = callback[d].place \/
           (d \in Started /\ callback'[d].place \in Over)
    BY <1>5 DEF Over
  <2>2. \A d \in Connection \ Started : callback'[d].place \in {"idle", "ended"} /\ tries'[d] = 0
    BY <2>1 DEF SystemInv, SessionInv, OneSession
  <2>3. \A d \in Started : callback'[d].place \in Over \/ (d = connection' /\ tries'[d] = 0)
    BY <1>3, <2>1 DEF SystemInv, SessionInv, OneSession
  <2>4. \A t \in Thread : pc'[t] \in {"dial", "start"} =>
          \A d \in Started : callback'[d].place \in Over
    BY <1>3, <2>1 DEF SystemInv, SessionInv, OneSession
  <2>5. QED
    BY <1>3, <2>2, <2>3, <2>4 DEF OneSession
<1>8. ErrorsAreLate'
  <2>1. ASSUME NEW d \in Connection
        PROVE  /\ isOpen'[d] => connError'[d] = Nil /\ pc'[d] \in {"not started", "watch", "done"}
               /\ d > dialled' => connError'[d] = Nil
    <3>1. /\ isOpen[d] => connError[d] = Nil /\ pc[d] \in {"not started", "watch", "done"}
          /\ d > dialled => connError[d] = Nil
      BY DEF SystemInv, SessionInv, ErrorsAreLate
    <3>2. CASE d = c
      <4>1. ~isOpen'[d]
        BY <1>4, <3>2
      <4>2. dialled' = dialled
        OBVIOUS
      <4>3. ~(d > dialled')
        BY <1>2, <3>2, <4>2
      <4>4. QED
        BY <4>1, <4>3
    <3>3. CASE d # c
      BY <1>4, <3>1, <3>3
    <3>4. QED
      BY <3>2, <3>3
  <2>2. QED
    BY <2>1 DEF ErrorsAreLate
<1>9. FatalEnds'
  <2> SUFFICES ASSUME NEW d \in FatalErrors'
               PROVE  /\ pc'[d] \in {"watch", "report", "done"}
                      /\ ~isOpen'[d] /\ connError'[d] \in {Nil, "fatal"}
                      /\ \A e \in Started' : e <= d
    BY DEF FatalEnds
  <2>1. d \in Started /\ d \in Connection /\ callback'[d].place = "fatal"
    BY <1>3 DEF FatalErrors
  <2>2. CASE d \in FatalErrors
    <3>1. /\ pc[d] \in {"watch", "report", "done"}
          /\ ~isOpen[d] /\ connError[d] \in {Nil, "fatal"}
          /\ \A e \in Started : e <= d
      BY <2>2 DEF SystemInv, SessionInv, FatalEnds
    <3>2. QED
      BY <1>3, <1>4, <2>1, <3>1
  <2>3. CASE d \notin FatalErrors
    <3>1. d = c /\ error = "fatal"
      BY <2>1, <2>3 DEF FatalErrors
    <3>2. pc[d] \in {"watch", "done"}
      BY <2>1, <3>1 DEF SystemInv, SessionInv, ErrorsAreLate, Started
    <3>3. \A e \in Started : e <= connection
      BY NewestSession
    <3>4. QED
      BY <1>2, <1>3, <1>4, <3>1, <3>2, <3>3
  <2>4. QED
    BY <2>2, <2>3
<1>10. FetchesFromItsSession'
  BY DEF SystemInv, SessionInv, FetchesFromItsSession
<1>11. QED
  BY <1>6, <1>7, <1>8, <1>9, <1>10 DEF SessionInv

LEMMA NewConnection ==
  ASSUME SystemInv, NEW t \in Thread, Syncer!Dial(t), UNCHANGED callback
  PROVE  SessionInv'
<1> DEFINE d == dialled + 1
<1>1. /\ d \in Connection /\ d \in Nat /\ d > dialled /\ dialled' = d /\ d # 0
      /\ connection' = d /\ UNCHANGED <<connError, tries, callback>>
  <2>1. dialled \in Nat /\ dialled < MaxConnections /\ MaxConnections \in Nat
    BY SystemNumbers DEF Syncer!Dial
  <2>2. d \in 1..MaxConnections
    BY <2>1
  <2>3. QED
    BY <2>1, <2>2, SystemConstants DEF Syncer!Dial
<1>2. /\ pc \in [Thread -> Syncer!Place] /\ pc' = [pc EXCEPT ![t] = "start"]
      /\ isOpen \in [Connection -> BOOLEAN] /\ isOpen' = [isOpen EXCEPT ![d] = TRUE]
  BY SystemTyped DEF Syncer!Dial, Syncer!Goto
<1>3. pc[t] = "dial" /\ pc[d] = "not started" /\ connError[d] = Nil
  BY <1>1, SystemFacts DEF Syncer!Dial, SystemInv, SessionInv, ErrorsAreLate
<1>4. /\ \A u \in Thread : pc'[u] = IF u = t THEN "start" ELSE pc[u]
      /\ \A c \in Connection : isOpen'[c] <=> isOpen[c] \/ c = d
  BY <1>2
<1> HIDE DEF d
<1>5. Started \subseteq Connection /\ Connection \subseteq Thread /\ Client \subseteq Thread
  BY SystemConstants DEF Started
<1>6. Started' = Started
  BY <1>3, <1>4, <1>5 DEF Started
<1>7. FatalErrors' = FatalErrors
  BY <1>1, <1>6 DEF FatalErrors
<1>8. \A c \in Started : callback[c].place \in Over
  BY <1>3 DEF SystemInv, SessionInv, OneSession
<1>9. OneSyncs'
  BY <1>3, <1>4, <1>5, <1>6 DEF SystemInv, SessionInv, OneSyncs, Trying
<1>10. RetriesAllowed'
  BY <1>3, <1>4, <1>5 DEF SystemInv, SessionInv, RetriesAllowed, Trying
<1>11. NewestIsCurrent'
  BY <1>1 DEF NewestIsCurrent
<1>12. OneSession'
  BY <1>1, <1>6, <1>8 DEF SystemInv, SessionInv, OneSession
<1>13. ErrorsAreLate'
  <2>1. ASSUME NEW c \in Connection
        PROVE  /\ isOpen'[c] => connError'[c] = Nil /\ pc'[c] \in {"not started", "watch", "done"}
               /\ c > dialled' => connError'[c] = Nil
    <3>1. /\ isOpen[c] => connError[c] = Nil /\ pc[c] \in {"not started", "watch", "done"}
          /\ c > dialled => connError[c] = Nil
      BY DEF SystemInv, SessionInv, ErrorsAreLate
    <3>2. c > dialled' => c > dialled
      BY <1>1, SystemNumbers, Numbers
    <3>3. QED
      BY <1>1, <1>3, <1>4, <1>5, <3>1, <3>2
  <2>2. QED
    BY <2>1 DEF ErrorsAreLate
<1>14. FatalEnds'
  <2>1. ASSUME NEW c \in FatalErrors
        PROVE  c # t /\ c # d /\ c \in Connection
    BY <1>3, <1>5 DEF SystemInv, SessionInv, FatalEnds, FatalErrors, Started
  <2>2. QED
    BY <1>1, <1>4, <1>5, <1>6, <1>7, <2>1 DEF SystemInv, SessionInv, FatalEnds
<1>15. FetchesFromItsSession'
  BY <1>1 DEF SystemInv, SessionInv, FetchesFromItsSession
<1>16. QED
  BY <1>9, <1>10, <1>11, <1>12, <1>13, <1>14, <1>15 DEF SessionInv

\* When a session may start all others are over, and none of them with the
\* fatal error; it is the first one, or the newest errorHandler starts it.
LEMMA BeforeStart ==
  ASSUME SystemInv, NEW main, Client = {main}, NEW t \in Thread, pc[t] = "start"
  PROVE  /\ connection \in Connection \ Started
         /\ connection \in Nat /\ connection # t
         /\ tries[connection] = 0
         /\ \A c \in Started : /\ callback[c].place \in Over
                               /\ c < connection
                               /\ c # t => pc[c] = "done" /\ c < t
         /\ FatalErrors = {}
         /\ t \in Started \/ (Started = {} /\ t = main)
<1>1. /\ connection \in Connection /\ pc[connection] = "not started"
      /\ connection \in Nat /\ connection # t
  BY SystemFacts, Numbers
<1>2. connection \notin Started /\ tries[connection] = 0
  BY <1>1 DEF Started, SystemInv, SessionInv, OneSession
<1>3. \A c \in Started : callback[c].place \in Over
  BY DEF SystemInv, SessionInv, OneSession
<1>4. \A c \in Started : c \in Connection /\ c \in Nat /\ c < connection
  <2> SUFFICES ASSUME NEW c \in Started
               PROVE  c \in Connection /\ c \in Nat /\ c < connection
    OBVIOUS
  <2>1. c \in Connection /\ c \in Nat /\ c <= connection
    BY NewestSession
  <2>2. c # connection
    BY <1>2
  <2>3. connection \in Nat
    BY <1>1
  <2>4. QED
    BY <2>1, <2>2, <2>3
<1>5. t \in Started \/ (Started = {} /\ t = main)
  <2>1. CASE t \in Client
    BY <2>1 DEF SystemInv, SessionInv, OneSyncs, Trying
  <2>2. CASE t \in Connection
    BY <2>2 DEF Started
  <2>3. QED
    BY <2>1, <2>2, SystemConstants
<1>6. ASSUME NEW c \in Started, c # t
      PROVE  pc[c] = "done" /\ c < t
  <2>1. t \in Started /\ t \in Nat /\ c \in Nat
    BY <1>4, <1>5, <1>6
  <2>2. ~(t < c)
    BY <2>1 DEF SystemInv, SessionInv, OneSyncs
  <2>3. c < t
    BY <1>6, <2>1, <2>2
  <2>4. QED
    BY <2>1, <2>3 DEF SystemInv, SessionInv, OneSyncs
<1>7. ASSUME NEW c \in FatalErrors
      PROVE  FALSE
  <2>1. /\ c \in Started /\ pc[c] \in {"watch", "report", "done"}
        /\ \A d \in Started : d <= c
    BY DEF FatalErrors, SystemInv, SessionInv, FatalEnds
  <2>2. c # t /\ t \in Started /\ c \in Nat /\ t \in Nat
    BY <1>4, <1>5, <2>1
  <2>3. t <= c /\ c < t
    BY <1>6, <2>1, <2>2
  <2>4. QED
    BY <2>2, <2>3
<1>8. QED
  BY <1>1, <1>2, <1>3, <1>4, <1>5, <1>6, <1>7

LEMMA NewSession ==
  ASSUME SystemInv, NEW main, Client = {main}, NEW t \in Thread, Syncer!StartSyncing(t),
         callback'[connection].place \in {"lock", "mutex"},
         callback'[connection].retriever = Nil,
         \A c \in Connection \ {connection} : callback'[c] = callback[c]
  PROVE  SessionInv'
<1> DEFINE k == connection
<1>1. /\ pc[t] = "start" /\ UNCHANGED <<connection, isOpen, connError, dialled, tries>>
      /\ pc' = [pc EXCEPT ![k] = "watch", ![t] = Syncer!AfterSync(t, FALSE)]
  BY DEF Syncer!StartSyncing, Syncer!connVars
<1>2. /\ k \in Connection \ Started
      /\ k \in Nat /\ k # t
      /\ tries[k] = 0
      /\ \A c \in Started : /\ callback[c].place \in Over
                            /\ c < k
                            /\ c # t => pc[c] = "done" /\ c < t
      /\ FatalErrors = {}
      /\ t \in Started \/ (Started = {} /\ t = main)
  BY <1>1, BeforeStart
<1>3. /\ Syncer!AfterSync(t, FALSE) \in {"waiting", "done"}
      /\ t \in Connection => Syncer!AfterSync(t, FALSE) = "done"
  BY SystemConstants DEF Syncer!AfterSync, Syncer!Connection, Connection
<1>4. \A u \in Thread :
        pc'[u] = IF u = t THEN Syncer!AfterSync(t, FALSE) ELSE IF u = k THEN "watch" ELSE pc[u]
  <2>1. pc \in [Thread -> Syncer!Place] /\ k \in Thread
    BY <1>2, SystemTyped, SystemConstants
  <2>2. QED
    BY <1>1, <2>1
<1>5. \A c \in Connection \ {k} : callback'[c] = callback[c]
  OBVIOUS
<1>6. Started \subseteq Connection /\ Connection \subseteq Thread /\ Client \subseteq Thread
  BY SystemConstants DEF Started
<1>7. Started' = Started \cup {k}
  <2>1. ASSUME NEW c \in Connection
        PROVE  pc'[c] # "not started" <=> pc[c] # "not started" \/ c = k
    <3>1. CASE c = t
      BY <1>1, <1>3, <1>4, <1>6, <3>1
    <3>2. CASE c # t
      BY <1>4, <1>6, <3>2
    <3>3. QED
      BY <3>1, <3>2
  <2>2. k \in Connection
    BY <1>2
  <2>3. QED
    BY <2>1, <2>2 DEF Started
<1>8. callback'[k].place \notin Over /\ callback'[k].retriever = Nil
  BY DEF Over
<1> HIDE DEF k
<1>9. OneSyncs'
  <2>1. ASSUME NEW c \in Started', NEW d \in Started', c < d
        PROVE  pc'[c] = "done"
    <3>1. c \in Started
      <4>1. d \in Started => d < k
        BY <1>2
      <4>2. c \in Nat /\ d \in Nat /\ k \in Nat
        BY <1>2, <1>6, <1>7, Numbers
      <4>3. c # k
        BY <1>7, <2>1, <4>1, <4>2
      <4>4. QED
        BY <1>7, <4>3
    <3>2. CASE c = t
      BY <1>3, <1>4, <1>6, <3>1, <3>2
    <3>3. CASE c # t
      BY <1>2, <1>4, <1>6, <3>1, <3>3
    <3>4. QED
      BY <3>2, <3>3
  <2>2. ASSUME NEW u \in Client
        PROVE  pc'[u] \notin Trying
    <3>1. CASE u = t
      BY <1>3, <1>4, <1>6, <3>1 DEF Trying
    <3>2. CASE u # t
      <4>1. Started # {} /\ u \in Thread
        BY <1>2, <1>6, <3>2
      <4>2. pc[u] \notin Trying
        BY <4>1 DEF SystemInv, SessionInv, OneSyncs
      <4>3. QED
        BY <1>4, <3>2, <4>1, <4>2 DEF Trying
    <3>3. QED
      BY <3>1, <3>2
  <2>3. QED
    BY <2>1, <2>2 DEF OneSyncs
<1>10. RetriesAllowed'
  BY <1>3, <1>4, <1>6 DEF SystemInv, SessionInv, RetriesAllowed, Trying
<1>11. NewestIsCurrent'
  BY <1>1 DEF SystemInv, SessionInv, NewestIsCurrent
<1>12. OneSession'
  <2>1. \A c \in Connection \ Started' : callback'[c].place \in {"idle", "ended"} /\ tries'[c] = 0
    BY <1>1, <1>5, <1>7 DEF SystemInv, SessionInv, OneSession
  <2>2. \A c \in Started' : callback'[c].place \in Over \/ (c = connection' /\ tries'[c] = 0)
    BY <1>1, <1>2, <1>5, <1>6, <1>7 DEF k
  <2>3. \A u \in Thread : pc'[u] \notin {"dial", "start"}
    <3>1. \A u \in Thread : u # t => pc[u] \notin {"dial", "start"}
      BY <1>1, SystemFacts
    <3>2. QED
      BY <1>3, <1>4, <3>1
  <2>4. QED
    BY <2>1, <2>2, <2>3 DEF OneSession
<1>13. ErrorsAreLate'
  <2>1. ASSUME NEW c \in Connection
        PROVE  /\ isOpen'[c] => connError'[c] = Nil /\ pc'[c] \in {"not started", "watch", "done"}
               /\ c > dialled' => connError'[c] = Nil
    <3>1. /\ isOpen[c] => connError[c] = Nil /\ pc[c] \in {"not started", "watch", "done"}
          /\ c > dialled => connError[c] = Nil
      BY DEF SystemInv, SessionInv, ErrorsAreLate
    <3>2. UNCHANGED <<isOpen, connError, dialled>>
      BY <1>1
    <3>3. pc'[c] = pc[c] \/ pc'[c] \in {"watch", "done"}
      BY <1>3, <1>4, <1>6
    <3>4. QED
      BY <3>1, <3>2, <3>3
  <2>2. QED
    BY <2>1 DEF ErrorsAreLate
<1>14. FatalEnds'
  <2>1. FatalErrors' = {}
    BY <1>2, <1>5, <1>6, <1>7, <1>8 DEF FatalErrors, Over
  <2>2. QED
    BY <2>1 DEF FatalEnds
<1>15. FetchesFromItsSession'
  BY <1>5, <1>8 DEF SystemInv, SessionInv, FetchesFromItsSession
<1>16. QED
  BY <1>9, <1>10, <1>11, <1>12, <1>13, <1>14, <1>15 DEF SessionInv

\* The threads that do not call a connection and do not fail move as the
\* program goes.
LEMMA TriesMoveOn ==
  ASSUME SystemInv, SessionsEnd, NEW t \in Thread,
         \/ Syncer!CheckClosed(t)
         \/ Syncer!TakeLock(t)
         \/ Syncer!TryFails(t)
         \/ Syncer!DelayTry(t)
  PROVE  SessionInv'
<1>1. /\ pc \in [Thread -> Syncer!Place] /\ isOpen \in [Connection -> BOOLEAN]
      /\ connError \in [Connection -> {Nil, "retry", "fatal"}]
  BY SystemTyped
<1>2. PICK place \in {"lock", "close old", "delay try", "try", "closing", "waiting",
                      "report", "done"} :
        /\ pc' = [pc EXCEPT ![t] = place]
        /\ place \in {"closing", "waiting"} => t \in Client
        /\ place = "report" => t \in Connection
  BY SystemConstants
     DEF Syncer!CheckClosed, Syncer!TakeLock, Syncer!TryFails, Syncer!DelayTry, Syncer!Goto,
         Syncer!AfterSync, Syncer!Connection, Connection, Thread, Syncer!Thread
<1>3. /\ pc[t] \in Trying
      /\ UNCHANGED <<connection, isOpen, connError, dialled>>
      /\ \/ tries' = tries
         \/ pc[t] \in {"dial", "start"} /\ tries' = [tries EXCEPT ![t] = @ + 1]
  BY DEF Syncer!CheckClosed, Syncer!TakeLock, Syncer!TryFails, Syncer!DelayTry,
         Syncer!connVars, Syncer!sharedVars, Trying
<1>4. t \in Client \/ ~isOpen[t]
  BY <1>3, SystemConstants DEF SystemInv, SessionInv, ErrorsAreLate, Trying
<1>5. t \notin FatalErrors
  BY <1>3 DEF SystemInv, SessionInv, FatalEnds, Trying
<1>6. place \in Syncer!Place
  BY DEF Syncer!Place
<1>7. QED
  BY <1>1, <1>2, <1>3, <1>4, <1>5, <1>6, ThreadMoves DEF Trying

\* closeConnectionNoLock with a library that waits ends the last session.
LEMMA LastSessionEnds ==
  ASSUME SystemInv, CloseWaits,
         IF connection = Nil THEN UNCHANGED callback
         ELSE LET place == callback[connection].place
              IN /\ CloseWaits => place \notin Running
                 /\ callback' = [callback EXCEPT ![connection].place =
                                   IF place = "idle" THEN "ended" ELSE place]
  PROVE  /\ SessionsEnd
         /\ \A c \in Started : callback'[c].place \in Over
<1>1. callback \in [Connection -> Callback] /\ connection \in Connection \cup {Nil}
  BY SystemTyped, SystemFacts
<1>2. CASE connection = Nil
  <2>1. Started = {}
    BY <1>2, NewestSession, SystemConstants
  <2>2. QED
    BY <1>2, <2>1 DEF SessionsEnd
<1>3. CASE connection # Nil
  <2> DEFINE place == callback[connection].place
             newPlace == IF place = "idle" THEN "ended" ELSE place
  <2>1. connection \in Connection
    BY <1>1, <1>3
  <2>2. place \in {"idle"} \cup Over
    BY <1>1, <1>3, <2>1 DEF Callback
  <2>3. callback' = [callback EXCEPT ![connection].place = newPlace]
    BY <1>3
  <2> HIDE DEF newPlace
  <2>4. \A d \in Connection :
           /\ callback'[d].place = IF d = connection THEN newPlace ELSE callback[d].place
           /\ callback'[d].message = callback[d].message
           /\ callback'[d].retriever = callback[d].retriever
    BY <1>1, <2>1, <2>3, PlaceMoves
  <2>5. SessionsEnd
    BY <2>4 DEF SessionsEnd, newPlace
  <2>6. ASSUME NEW c \in Started
        PROVE  callback'[c].place \in Over
    <3>1. c \in Connection /\ (callback[c].place \notin Over => c = connection)
      BY NewestSession
    <3>2. QED
      BY <2>2, <2>4, <3>1 DEF newPlace, Over
  <2>7. QED
    BY <2>5, <2>6
<1>4. QED
  BY <1>2, <1>3

LEMMA Closing ==
  ASSUME SystemInv, SessionsEnd, \A c \in Started : callback'[c].place \in Over,
         NEW t \in Thread,
         Syncer!CloseOldConnection(t) \/ (t \in Client /\ Syncer!CloseLastConnection(t))
  PROVE  SessionInv'
<1>1. /\ pc \in [Thread -> Syncer!Place] /\ isOpen \in [Connection -> BOOLEAN]
      /\ connError \in [Connection -> {Nil, "retry", "fatal"}]
      /\ connection \in Connection \cup {Nil}
  BY SystemTyped, SystemFacts
<1>2. PICK place \in {"dial", "done"} : pc' = [pc EXCEPT ![t] = place]
  BY DEF Syncer!CloseOldConnection, Syncer!CloseLastConnection, Syncer!Goto
<1>3. /\ pc[t] = "close old" \/ (t \in Client /\ pc[t] = "close last")
      /\ place = "dial" => pc[t] = "close old"
      /\ UNCHANGED <<connection, dialled, tries>>
      /\ Syncer!closeConnectionNoLock
  <2>1. pc'[t] = place
    BY <1>1, <1>2
  <2>2. CASE Syncer!CloseOldConnection(t)
    BY <2>2 DEF Syncer!CloseOldConnection, Syncer!closeConnectionNoLock, Syncer!connVars,
                Syncer!sharedVars
  <2>3. CASE t \in Client /\ Syncer!CloseLastConnection(t)
    BY <1>1, <2>1, <2>3
       DEF Syncer!CloseLastConnection, Syncer!closeConnectionNoLock, Syncer!connVars,
           Syncer!Goto
  <2>4. QED
    BY <2>2, <2>3
<1>4. /\ isOpen' \in [Connection -> BOOLEAN]
      /\ connError' \in [Connection -> {Nil, "retry", "fatal"}]
      /\ \A c \in Connection : /\ isOpen'[c] => isOpen[c]
                               /\ connError'[c] \in {connError[c], Nil}
  <2>1. CASE connection = Nil
    BY <1>1, <1>3, <2>1 DEF Syncer!closeConnectionNoLock, Syncer!connVars
  <2>2. CASE connection # Nil
    <3>1. /\ isOpen' = [isOpen EXCEPT ![connection] = FALSE]
          /\ \/ connError' = [connError EXCEPT ![connection] = Nil]
             \/ connError' = connError
      BY <1>3, <2>2 DEF Syncer!closeConnectionNoLock
    <3>2. QED
      BY <1>1, <3>1
  <2>3. QED
    BY <2>1, <2>2
<1>5. t \in Client \/ ~isOpen[t]
  BY <1>3, SystemConstants DEF SystemInv, SessionInv, ErrorsAreLate
<1>6. t \notin FatalErrors
  <2>1. pc[t] \notin {"watch", "report", "done"}
    BY <1>3
  <2>2. QED
    BY <2>1 DEF SystemInv, SessionInv, FatalEnds
<1>7. place \in Syncer!Place /\ (place \in Trying => pc[t] \in Trying)
  BY <1>2, <1>3 DEF Syncer!Place, Trying
<1>8. pc[t] \notin {"not started", "done"} /\ place \notin {"not started", "start", "delay sync"}
  BY <1>2, <1>3
<1>9. QED
  BY <1>2, <1>3, <1>4, <1>5, <1>6, <1>7, <1>8, ThreadMoves

\* errorHandler, and what a client does besides Sync and closing.
LEMMA OthersMoveOn ==
  ASSUME SystemInv, SessionsEnd, NEW t \in Thread,
         \/ t \in Connection /\ Syncer!HandlerStep(t)
         \/ t \in Client /\ (Syncer!Signal(t) \/ Syncer!ReadError(t) \/ Syncer!Close(t))
  PROVE  SessionInv'
<1>1. /\ pc \in [Thread -> Syncer!Place] /\ isOpen \in [Connection -> BOOLEAN]
      /\ connError \in [Connection -> {Nil, "retry", "fatal"}]
  BY SystemTyped
<1>2. ASSUME t \in Connection, Syncer!StopWatching(t) \/ Syncer!Report(t) \/ Syncer!DelaySync(t)
      PROVE  SessionInv'
  <2>1. PICK place \in {"done", "try"} :
          /\ pc' = [pc EXCEPT ![t] = place]
          /\ pc[t] \in {"watch", "report", "delay sync"}
          /\ place = "try" => pc[t] = "delay sync"
    BY <1>2 DEF Syncer!StopWatching, Syncer!Report, Syncer!DelaySync, Syncer!Goto
  <2>2. UNCHANGED <<connection, isOpen, connError, dialled, tries>>
    BY <1>2 DEF Syncer!StopWatching, Syncer!Report, Syncer!DelaySync, Syncer!connVars,
                Syncer!sharedVars
  <2>3. place = "try" => ~isOpen[t] /\ t \notin FatalErrors
    BY <1>2, <2>1 DEF SystemInv, SessionInv, ErrorsAreLate, FatalEnds
  <2>4. place \in Syncer!Place
    BY <2>1 DEF Syncer!Place
  <2>5. QED
    BY <1>1, <1>2, <2>1, <2>2, <2>3, <2>4, ThreadMoves DEF Trying
<1>3. ASSUME t \in Connection, Syncer!TakeError(t)
      PROVE  SessionInv'
  <2> DEFINE place == IF connError[t] # "fatal" /\ RestartOnError THEN "delay sync" ELSE "report"
  <2>1. /\ pc[t] = "watch" /\ connError[t] # Nil
        /\ pc' = [pc EXCEPT ![t] = place]
        /\ connError' = [connError EXCEPT ![t] = Nil]
        /\ UNCHANGED <<connection, isOpen, dialled, tries>>
    BY <1>3 DEF Syncer!TakeError, Syncer!Goto, Syncer!sharedVars
  <2>2. /\ connError' \in [Connection -> {Nil, "retry", "fatal"}]
        /\ \A c \in Connection : connError'[c] \in {connError[c], Nil}
    BY <1>1, <1>3, <2>1
  <2>3. ~isOpen[t]
    BY <1>3, <2>1 DEF SystemInv, SessionInv, ErrorsAreLate
  <2>4. t \in FatalErrors => place = "report"
    BY <2>1 DEF SystemInv, SessionInv, FatalEnds
  <2>5. place \in {"delay sync", "report"} /\ (place = "delay sync" => RestartOnError)
    OBVIOUS
  <2> HIDE DEF place
  <2>6. place \in Syncer!Place
    BY <2>5 DEF Syncer!Place
  <2>7. QED
    BY <1>1, <2>1, <2>2, <2>3, <2>4, <2>5, <2>6, ThreadMoves DEF Trying
<1>4. ASSUME t \in Client, Syncer!Signal(t) \/ Syncer!ReadError(t) \/ Syncer!Close(t)
      PROVE  SessionInv'
  <2>1. PICK place \in {"closing", "close last", "done"} :
          /\ pc' = [pc EXCEPT ![t] = place]
          /\ pc[t] \in {"waiting", "closing"}
    BY <1>4 DEF Syncer!Signal, Syncer!ReadError, Syncer!Close, Syncer!Goto
  <2>2. UNCHANGED <<connection, isOpen, connError, dialled, tries>>
    BY <1>4 DEF Syncer!Signal, Syncer!ReadError, Syncer!Close, Syncer!connVars,
                Syncer!sharedVars
  <2>3. t \notin FatalErrors
    BY <2>1 DEF SystemInv, SessionInv, FatalEnds
  <2>4. place \in Syncer!Place
    BY <2>1 DEF Syncer!Place
  <2>5. QED
    BY <1>1, <1>4, <2>1, <2>2, <2>3, <2>4, ThreadMoves DEF Trying
<1>5. QED
  BY <1>2, <1>3, <1>4 DEF Syncer!HandlerStep

LEMMA CallbackReturns ==
  ASSUME SystemInv, NEW c \in Connection, callback[c].place \in Running,
         NEW error \in {"retry", "fatal"}, ReturnsError(c, error)
  PROVE  SessionInv'
<1>1. callback \in [Connection -> Callback] /\ c \in Started
  BY SystemTyped, RunningSession
<1> DEFINE place == IF error = "fatal" /\ isOpen[c] THEN "fatal" ELSE "failed"
<1>2. callback' = [callback EXCEPT ![c].place = place]
  BY DEF ReturnsError, Moves
<1>3. \A d \in Connection : /\ callback'[d].place = IF d = c THEN place ELSE callback[d].place
                            /\ callback'[d].retriever = callback[d].retriever
                            /\ d # c => callback'[d] = callback[d]
  <2>1. \A d \in Connection : d # c => callback'[d] = callback[d]
    BY <1>1, <1>2
  <2>2. \A d \in Connection : /\ callback'[d].place = IF d = c THEN place ELSE callback[d].place
                              /\ callback'[d].retriever = callback[d].retriever
    BY <1>1, <1>2, PlaceMoves
  <2>3. QED
    BY <2>1, <2>2
<1>4. CASE isOpen[c]
  <2>1. Syncer!ConnectionFails(c, error)
    BY <1>4 DEF ReturnsError
  <2>2. /\ isOpen' = [isOpen EXCEPT ![c] = FALSE]
        /\ connError' = [connError EXCEPT ![c] = error]
        /\ UNCHANGED <<connection, dialled, pc, tries>>
    BY <2>1 DEF Syncer!ConnectionFails, Syncer!sharedVars
  <2>3. callback'[c].place = IF error = "fatal" THEN "fatal" ELSE "failed"
    BY <1>3, <1>4
  <2>4. \A d \in Connection \ {c} : callback'[d].place = callback[d].place
    BY <1>3
  <2>5. \A d \in Connection : callback'[d].retriever = callback[d].retriever
    BY <1>3
  <2>6. QED
    BY <1>4, <2>2, <2>3, <2>4, <2>5, SessionFails
<1>5. CASE ~isOpen[c]
  <2>1. UNCHANGED syncerVars
    BY <1>5 DEF ReturnsError
  <2>2. callback'[c].place = "failed" /\ callback'[c].retriever = callback[c].retriever
    BY <1>3, <1>5
  <2>3. callback[c].place \notin Over
    BY DEF Running, Over
  <2>4. \A d \in Connection \ {c} : callback'[d] = callback[d]
    BY <1>3
  <2>5. QED
    BY <1>1, <2>1, <2>2, <2>3, <2>4, CallbackMoves
<1>6. QED
  BY <1>4, <1>5

LEMMA CallbackStepKeeps ==
  ASSUME SystemInv, NEW c \in Connection, CallbackStep(c)
  PROVE  SessionInv'
<1>1. callback \in [Connection -> Callback]
  BY SystemTyped
<1>2. callback[c].place \in Running
  BY DEF CallbackStep, ReadConnection, RollForward, RollBackward, HandlerEnds, ToIndexer,
         IsAt, Running
<1>3. c \in Started /\ c = connection /\ callback[c].place \notin Over
  BY <1>2, RunningSession DEF Running, Over
<1>4. CASE ReadConnection(c)
  <2>1. /\ callback' = [callback EXCEPT ![c].place = "mutex", ![c].retriever = connection]
        /\ UNCHANGED syncerVars
    BY <1>4 DEF ReadConnection
  <2>2. callback'[c].place = "mutex" /\ callback'[c].retriever = c
    BY <1>1, <1>3, <2>1 DEF Callback
  <2>3. \A d \in Connection \ {c} : callback'[d] = callback[d]
    BY <1>1, <2>1
  <2>4. QED
    BY <1>3, <2>1, <2>2, <2>3, CallbackMoves
<1>5. ASSUME NEW place \in {"idle", "handler"}, Moves(c, place), UNCHANGED syncerVars
      PROVE  SessionInv'
  <2>1. callback'[c].place = place /\ callback'[c].retriever = callback[c].retriever
    BY <1>1, <1>5, PlaceMoves DEF Moves
  <2>2. \A d \in Connection \ {c} : callback'[d] = callback[d]
    BY <1>1, <1>5 DEF Moves
  <2>3. place # "fatal"
    OBVIOUS
  <2>4. QED
    BY <1>3, <1>5, <2>1, <2>2, <2>3, CallbackMoves
<1>6. ASSUME NEW error \in {"retry", "fatal"}, ReturnsError(c, error)
      PROVE  SessionInv'
  BY <1>2, <1>6, CallbackReturns
<1>7. QED
  BY <1>4, <1>5, <1>6 DEF CallbackStep, RollForward, RollBackward, HandlerEnds, Returns

LEMMA NodeSendsKeeps ==
  ASSUME SystemInv, NEW message \in Follower!Message, NodeSends(message)
  PROVE  SessionInv'
<1>1. callback \in [Connection -> Callback] /\ connection \in Started /\ connection \in Connection
  BY SystemTyped DEF NodeSends, Started
<1>2. callback[connection].place \notin Over
  BY DEF NodeSends, Over
<1>3. /\ callback' = [callback EXCEPT ![connection] = Called(message)]
      /\ UNCHANGED syncerVars
  BY DEF NodeSends
<1>4. callback'[connection] = Called(message)
  BY <1>1, <1>3
<1>5. callback'[connection].place # "fatal" /\ callback'[connection].retriever = Nil
  BY <1>4 DEF Called
<1>6. \A d \in Connection \ {connection} : callback'[d] = callback[d]
  BY <1>1, <1>3
<1>7. QED
  BY <1>1, <1>2, <1>3, <1>5, <1>6, CallbackMoves

LEMMA SyncStepKeeps ==
  ASSUME SystemInv, CloseWaits, NEW main, Client = {main}, NEW t \in Thread,
         SyncStep(t)
  PROVE  SessionInv'
<1>1. callback' = callback => SessionsEnd
  BY DEF SessionsEnd
<1>2. CASE \/ SyncerAlone(Syncer!CheckClosed(t))
           \/ SyncerAlone(Syncer!TakeLock(t))
           \/ TryFails(t)
           \/ SyncerAlone(Syncer!DelayTry(t))
  <2>1. callback' = callback
    BY <1>2 DEF SyncerAlone, TryFails
  <2>2. \/ Syncer!CheckClosed(t)
        \/ Syncer!TakeLock(t)
        \/ Syncer!TryFails(t)
        \/ Syncer!DelayTry(t)
    BY <1>2 DEF SyncerAlone, TryFails
  <2>3. QED
    BY <1>1, <2>1, <2>2, TriesMoveOn
<1>3. CASE EndsSession(Syncer!CloseOldConnection(t))
  <2>1. SessionsEnd /\ \A c \in Started : callback'[c].place \in Over
    BY <1>3, LastSessionEnds DEF EndsSession
  <2>2. Syncer!CloseOldConnection(t)
    BY <1>3 DEF EndsSession
  <2>3. QED
    BY <2>1, <2>2, Closing
<1>4. CASE SyncerAlone(Syncer!Dial(t))
  BY <1>4, NewConnection DEF SyncerAlone
<1>5. CASE StartSyncing(t)
  <2> DEFINE point == Follower!ToCommonPoint(ResumePoint)
  <2>1. /\ Syncer!StartSyncing(t) /\ pc[t] = "start"
        /\ callback' = [callback EXCEPT ![connection] = Called(Follower!Backward(point))]
    BY <1>5 DEF StartSyncing, Syncer!StartSyncing
  <2>2. connection \in Connection /\ callback \in [Connection -> Callback]
    BY <2>1, BeforeStart, SystemTyped
  <2>3. callback'[connection] = Called(Follower!Backward(point))
    BY <2>1, <2>2
  <2>4. /\ callback'[connection].place \in {"lock", "mutex"}
        /\ callback'[connection].retriever = Nil
    BY <2>3 DEF Called
  <2>5. \A c \in Connection \ {connection} : callback'[c] = callback[c]
    BY <2>1, <2>2
  <2>6. QED
    BY <2>1, <2>4, <2>5, NewSession
<1>6. QED
  BY <1>2, <1>3, <1>4, <1>5 DEF SyncStep

LEMMA SessionInvKept ==
  ASSUME CloseWaits, NEW main, Client = {main}, SystemInv, [Next]_vars
  PROVE  SessionInv'
<1>1. ASSUME UNCHANGED <<syncerVars, callback>>
      PROVE  SessionInv'
  BY <1>1 DEF SystemInv, SessionInv, OneSyncs, RetriesAllowed, NewestIsCurrent, OneSession,
              ErrorsAreLate, FatalEnds, FatalErrors, FetchesFromItsSession, Started, syncerVars
<1>2. callback' = callback => SessionsEnd
  BY DEF SessionsEnd
<1>3. ASSUME NEW block \in Block, NodeAdopts(block)
      PROVE  SessionInv'
  BY <1>1, <1>3 DEF NodeAdopts
<1>4. CASE NodeSendsNext
  <2>1. tip \in Point
    BY DEF SystemInv, SystemTypes
  <2>2. QED
    BY <1>4, <2>1, NodeSendsKeeps, MessageTypes DEF NodeSendsNext
<1>5. ASSUME NEW c \in Connection, SyncerAlone(Syncer!ConnectionFails(c, "retry"))
      PROVE  SessionInv'
  <2>1. /\ isOpen[c]
        /\ isOpen' = [isOpen EXCEPT ![c] = FALSE]
        /\ connError' = [connError EXCEPT ![c] = "retry"]
        /\ UNCHANGED <<connection, dialled, pc, tries>>
        /\ UNCHANGED callback
    BY <1>5 DEF SyncerAlone, Syncer!ConnectionFails, Syncer!sharedVars
  <2>2. QED
    BY <2>1, SessionFails
<1>6. ASSUME NEW c \in Connection, CallbackStep(c)
      PROVE  SessionInv'
  BY <1>6, CallbackStepKeeps
<1>7. ASSUME NEW c \in Connection, SyncerAlone(Syncer!HandlerStep(c))
      PROVE  SessionInv'
  BY <1>2, <1>7, OthersMoveOn, SystemConstants DEF SyncerAlone
<1>8. ASSUME NEW t \in Thread, SyncStep(t)
      PROVE  SessionInv'
  BY <1>8, SyncStepKeeps
<1>9. ASSUME NEW t \in Client, SyncerAlone(Syncer!Signal(t) \/ Syncer!ReadError(t))
      PROVE  SessionInv'
  BY <1>2, <1>9, OthersMoveOn, SystemConstants DEF SyncerAlone
<1>10. ASSUME NEW t \in Client, CloseStep(t)
       PROVE  SessionInv'
  <2>1. t \in Thread
    BY SystemConstants
  <2>2. CASE SyncerAlone(Syncer!Close(t))
    BY <1>2, <2>1, <2>2, OthersMoveOn DEF SyncerAlone
  <2>3. CASE EndsSession(Syncer!CloseLastConnection(t))
    <3>1. SessionsEnd /\ \A c \in Started : callback'[c].place \in Over
      BY <2>3, LastSessionEnds DEF EndsSession
    <3>2. Syncer!CloseLastConnection(t)
      BY <2>3 DEF EndsSession
    <3>3. QED
      BY <2>1, <3>1, <3>2, Closing
  <2>4. QED
    BY <1>10, <2>2, <2>3 DEF CloseStep
<1>11. CASE UNCHANGED vars
  BY <1>1, <1>11 DEF vars
<1>12. QED
  BY <1>3, <1>4, <1>5, <1>6, <1>7, <1>8, <1>9, <1>10, <1>11 DEF Next

LEMMA SystemInvKept ==
  ASSUME CloseWaits, NEW main, Client = {main}
  PROVE  SystemInv /\ [Next]_vars => SystemInv'
<1>1. SystemInv /\ [Next]_vars => SessionInv'
  BY SessionInvKept
<1>2. QED
  BY <1>1, TypesKept DEF SystemInv

LEMMA SystemInvInit == Init => SystemInv
<1> SUFFICES ASSUME Init PROVE SystemInv
  OBVIOUS
<1>1. IndexerTypeOK /\ SystemTypes /\ SyncerInv
  BY InitTypes
<1>2. Syncer!Init /\ callback = [c \in Connection |-> Idle]
  BY DEF Init
<1>3. /\ \A t \in Client : pc[t] = "try"
      /\ \A c \in Connection :
           /\ pc[c] = "not started" /\ isOpen[c] = FALSE /\ connError[c] = Nil
           /\ tries[c] = 0 /\ callback[c] = Idle
      /\ connection = Nil /\ dialled = 0
  BY <1>2, SystemConstants DEF Syncer!Init, Connection, Thread
<1>4. Started = {} /\ FatalErrors = {}
  BY <1>3 DEF Started, FatalErrors
<1>5. \A t \in Thread : pc[t] \notin {"dial", "start"}
  BY <1>3, SystemConstants
<1>6. /\ OneSyncs /\ RetriesAllowed /\ NewestIsCurrent /\ FatalEnds
  <2>1. RetriesAllowed
    BY <1>3 DEF RetriesAllowed, Trying
  <2>2. OneSyncs /\ FatalEnds
    BY <1>4 DEF OneSyncs, FatalEnds
  <2>3. NewestIsCurrent
    <3>1. connection = Nil /\ dialled = 0
      BY <1>2 DEF Syncer!Init
    <3>2. QED
      BY <3>1 DEF NewestIsCurrent
  <2>4. QED
    BY <2>1, <2>2, <2>3
<1>7. OneSession /\ ErrorsAreLate /\ FetchesFromItsSession
  <2>1. \A c \in Connection :
          /\ callback[c].place = "idle" /\ callback[c].retriever = Nil
          /\ tries[c] = 0 /\ isOpen[c] = FALSE /\ connError[c] = Nil
    <3>1. Idle.place = "idle" /\ Idle.retriever = Nil
      BY DEF Idle
    <3>2. QED
      BY <1>3, <3>1
  <2>2. OneSession
    BY <1>4, <1>5, <2>1 DEF OneSession
  <2>3. ErrorsAreLate /\ FetchesFromItsSession
    BY <2>1 DEF ErrorsAreLate, FetchesFromItsSession
  <2>4. QED
    BY <2>2, <2>3
<1>8. QED
  BY <1>1, <1>6, <1>7 DEF SystemInv, SessionInv

\* With one client and a library whose closed connections wait for their
\* callback, a callback never fetches a block from another connection than
\* the one its header came from, although rollForwardCallback reads
\* bs.connection only when it gets the lock.
THEOREM FetchesRight ==
  ASSUME CloseWaits, NEW main, Client = {main}
  PROVE  Spec => []FetchesFromItsSession
<1>1. SystemInv /\ [Next]_vars => SystemInv'
  BY SystemInvKept
<1>2. SystemInv => FetchesFromItsSession
  BY DEF SystemInv, SessionInv
<1>3. QED
  BY <1>1, <1>2, SystemInvInit, PTL DEF Spec

-----------------------------------------------------------------------------
\* The thread that is in Sync or that will be.

LEMMA NewestStarted ==
  ASSUME NEW k \in Started, \A c \in Started : c <= k
  PROVE  Syncing = k
<1>1. \A c \in Started : c \in Nat
  BY Numbers DEF Started
<1>2. \A c \in Started : k >= c
  BY <1>1
<1>3. Max(Started) \in Started /\ \A c \in Started : Max(Started) >= c
  BY <1>2 DEF Max
<1>4. Max(Started) = k
  BY <1>1, <1>2, <1>3
<1>5. QED
  BY <1>4 DEF Syncing

LEMMA SyncingIsStarted ==
  ASSUME Started # {}
  PROVE  Syncing \in Started /\ \A c \in Started : c <= Syncing
<1> DEFINE Left == {n \in Nat : \E c \in Started : n = MaxConnections - c}
<1>1. \A c \in Started : c \in Nat /\ c <= MaxConnections /\ MaxConnections - c \in Nat
  <2>1. \A c \in Started : c \in Nat /\ c <= MaxConnections
    BY Numbers DEF Started
  <2>2. MaxConnections \in Nat
    BY SystemConstants
  <2>3. QED
    BY <2>1, <2>2
<1>2. Left \subseteq Nat /\ Left # {}
  BY <1>1
<1> HIDE DEF Left
<1>3. PICK n \in Left : \A m \in Left : ~(<<m, n>> \in OpToRel(<, Nat))
  BY <1>2, WFMin, NatLessThanWellFounded
<1>4. PICK k \in Started : n = MaxConnections - k
  BY <1>3 DEF Left
<1>5. ASSUME NEW c \in Started
      PROVE  c <= k
  <2>1. MaxConnections - c \in Left
    BY <1>1 DEF Left
  <2>2. ~(MaxConnections - c < n)
    BY <1>2, <1>3, <2>1 DEF OpToRel
  <2>3. MaxConnections \in Nat
    BY SystemConstants
  <2>4. QED
    BY <1>1, <1>4, <2>2, <2>3
<1>6. QED
  BY <1>4, <1>5, NewestStarted

\* A thread that is about to dial or to start a session is the one the mapping
\* sees; all sessions are over, none with the fatal error, and it has a try
\* left.
LEMMA TryingIsDown ==
  ASSUME SystemInv, NEW main, Client = {main}, NEW t \in Thread, pc[t] \in {"dial", "start"}
  PROVE  /\ Syncing = t /\ FatalErrors = {}
         /\ Session = "down" /\ Inflight = <<>> /\ Refused = Nil
         /\ SessionTries = tries[t] /\ tries[t] < SyncStartTries
<1>1. \A c \in Started : callback[c].place \in Over /\ c \in Connection /\ c \in Nat
  BY Numbers DEF SystemInv, SessionInv, OneSession, Started
<1>2. t \in Started \/ (Started = {} /\ t = main)
  <2>1. CASE t \in Client
    BY <2>1 DEF SystemInv, SessionInv, OneSyncs, Trying
  <2>2. CASE t \in Connection
    BY <2>2 DEF Started
  <2>3. QED
    BY <2>1, <2>2, SystemConstants
<1>3. ASSUME t \in Started, NEW c \in Started
      PROVE  c <= t
  <2>1. ~(t < c)
    BY <1>3 DEF SystemInv, SessionInv, OneSyncs
  <2>2. QED
    BY <1>1, <1>3, <2>1
<1>4. Syncing = t
  <2>1. CASE t \in Started
    BY <1>3, <2>1, NewestStarted
  <2>2. CASE Started = {} /\ t = main
    BY <2>2 DEF Syncing
  <2>3. QED
    BY <1>2, <2>1, <2>2
<1>5. ASSUME NEW c \in FatalErrors
      PROVE  FALSE
  <2>1. /\ c \in Started /\ pc[c] \in {"watch", "report", "done"}
        /\ \A d \in Started : d <= c
    BY DEF FatalErrors, SystemInv, SessionInv, FatalEnds
  <2>2. c # t /\ t \in Started
    BY <1>2, <2>1
  <2>3. c <= t /\ t <= c
    BY <1>3, <2>1, <2>2
  <2>4. QED
    BY <1>1, <2>1, <2>2, <2>3
<1>6. ~IsUp
  BY <1>1, <1>2, <1>4 DEF IsUp
<1>7. tries[t] < SyncStartTries
  BY DEF SystemInv, SyncerInv, Syncer!TriesLeft, Syncer!MayTry, Thread
<1>8. Started # {} => RestartOnError
  BY <1>1, <1>2 DEF SystemInv, SessionInv, RetriesAllowed, Trying
<1>9. tries[t] # SyncStartTries
  <2>1. tries[t] \in Nat /\ SyncStartTries \in Nat
    BY SystemTyped, SystemConstants
  <2>2. QED
    BY <1>7, <2>1
<1>10. ~GaveUp
  BY <1>4, <1>5, <1>8, <1>9 DEF GaveUp, SessionTries
<1>11. QED
  BY <1>4, <1>5, <1>6, <1>7, <1>10 DEF Session, Inflight, Refused, SessionTries

\* A session that is not over is the one the mapping sees.
LEMMA GoesOnIsUp ==
  ASSUME SystemInv, NEW c \in Started, callback[c].place \notin Over
  PROVE  /\ Syncing = c /\ FatalErrors = {}
         /\ Session = "up" /\ Refused = Nil /\ SessionTries = 0
         /\ Inflight = IF callback[c].place \in {"lock", "mutex"}
                         THEN <<callback[c].message>> ELSE <<>>
<1>1. c \in Connection /\ c \in Nat /\ c = connection /\ tries[c] = 0
  BY NewestSession
<1>2. \A d \in Started : d \in Nat /\ d <= c
  BY <1>1, NewestSession
<1>3. Syncing = c
  BY <1>2, NewestStarted
<1>4. ASSUME NEW d \in FatalErrors
      PROVE  FALSE
  <2>1. /\ d \in Started /\ callback[d].place \in Over
        /\ c <= d
    BY DEF FatalErrors, SystemInv, SessionInv, FatalEnds, Over
  <2>2. d <= c /\ d \in Nat
    BY <1>2, <2>1
  <2>3. c = d
    BY <1>1, <2>1, <2>2
  <2>4. QED
    BY <2>1, <2>3
<1>5. IsUp
  BY <1>3 DEF IsUp
<1>6. QED
  BY <1>1, <1>3, <1>4, <1>5 DEF Session, Inflight, Refused, SessionTries

-----------------------------------------------------------------------------
\* Counting failed tries and ended sessions.

LEMMA FaultsAreBounded ==
  ASSUME SystemInv, NEW main, Client = {main}
  PROVE  /\ IsFiniteSet(FailedTries) /\ IsFiniteSet(EndedSessions)
         /\ Cardinality(FailedTries) \in Nat /\ Cardinality(EndedSessions) \in Nat
         /\ Faults \in Nat /\ FaultsBound \in Nat /\ Faults <= FaultsBound
<1> DEFINE M == MaxConnections
           S == SyncStartTries
<1>1. M \in Nat /\ S \in Nat /\ S > 0
  <2>1. M \in Nat /\ S \in Nat \ {0}
    BY SystemConstants
  <2>2. QED
    BY <2>1
<1>2. /\ IsFiniteSet(Connection) /\ Cardinality(Connection) = M
      /\ IsFiniteSet(1..S) /\ Cardinality(1..S) = S
  <2>1. M \in Int /\ S \in Int /\ 1 \in Int /\ (1 > M <=> M = 0)
    BY <1>1
  <2>2. /\ IsFiniteSet(1..M) /\ Cardinality(1..M) = IF 1 > M THEN 0 ELSE M - 1 + 1
        /\ IsFiniteSet(1..S) /\ Cardinality(1..S) = IF 1 > S THEN 0 ELSE S - 1 + 1
    BY <2>1, FS_Interval
  <2>3. Connection = 1..M
    BY SystemConstants
  <2>4. QED
    BY <1>1, <2>2, <2>3
<1>3. IsFiniteSet(Thread) /\ Cardinality(Thread) = M + 1
  <2>1. Thread = Connection \cup {main} /\ main \notin Connection
    BY SystemConstants
  <2>2. QED
    BY <1>2, <2>1, FS_AddElement
<1>4. IsFiniteSet(Thread \X (1..S)) /\ Cardinality(Thread \X (1..S)) = (M + 1) * S
  <2>1. /\ IsFiniteSet(Thread \X (1..S))
        /\ Cardinality(Thread \X (1..S)) = Cardinality(Thread) * Cardinality(1..S)
    BY <1>2, <1>3, FS_Product, Zenon
  <2>2. QED
    BY <1>2, <1>3, <2>1, Zenon
<1>5. FailedTries \in SUBSET (Thread \X (1..S))
  BY DEF FailedTries
<1>6. IsFiniteSet(FailedTries) /\ Cardinality(FailedTries) <= (M + 1) * S
  BY <1>4, <1>5, FS_Subset
<1>7. EndedSessions \in SUBSET Connection
  BY DEF EndedSessions, Started
<1>8. IsFiniteSet(EndedSessions) /\ Cardinality(EndedSessions) <= M
  BY <1>2, <1>7, FS_Subset
<1>9. Cardinality(FailedTries) \in Nat /\ Cardinality(EndedSessions) \in Nat
  BY <1>6, <1>8, FS_CardinalityType
<1>10. (M + 1) * S \in Nat /\ FaultsBound = (M + 1) * S + M + 1 /\ FaultsBound \in Nat
  <2>1. \A m, n \in Nat : (m + 1) * n \in Nat /\ (m + 1) * (n + 1) = (m + 1) * n + m + 1
    OBVIOUS
  <2>2. FaultsBound = (M + 1) * (S + 1)
    BY DEF FaultsBound
  <2>3. QED
    BY <1>1, <2>1, <2>2
<1> HIDE DEF M, S
<1>11. Faults = Cardinality(FailedTries) + Cardinality(EndedSessions)
  BY DEF Faults
<1>12. Faults \in Nat /\ Faults <= FaultsBound
  <2> DEFINE a == Cardinality(FailedTries)
             b == Cardinality(EndedSessions)
             p == (M + 1) * S
  <2>1. /\ a \in Nat /\ b \in Nat /\ p \in Nat /\ M \in Nat
        /\ a <= p /\ b <= M /\ Faults = a + b /\ FaultsBound = p + M + 1
    BY <1>1, <1>6, <1>8, <1>9, <1>10, <1>11
  <2> HIDE DEF a, b, p
  <2>2. QED
    BY <2>1
<1>13. QED
  BY <1>6, <1>8, <1>9, <1>10, <1>12

FaultsFit == Faults \in Nat /\ Faults <= FaultsBound

LEMMA FaultsFitNext ==
  ASSUME NEW main, Client = {main}
  PROVE  SystemInv' => FaultsFit'
<1>1. SystemInv => FaultsFit
  BY FaultsAreBounded DEF FaultsFit
<1>2. QED
  BY <1>1, PTL

LEMMA TryIsCounted ==
  ASSUME SystemInv, NEW main, Client = {main}, NEW t \in Thread, tries[t] < SyncStartTries,
         tries' = [tries EXCEPT ![t] = @ + 1]
  PROVE  Cardinality(FailedTries)' = Cardinality(FailedTries) + 1
<1>1. /\ tries \in [Thread -> 0..SyncStartTries] /\ SyncStartTries \in Nat
      /\ tries[t] \in Nat
  <2>1. tries \in [Thread -> 0..SyncStartTries] /\ SyncStartTries \in Nat
    BY SystemTyped, SystemNumbers
  <2>2. QED
    BY <2>1
<1> DEFINE new == <<t, tries[t] + 1>>
<1>2. new \in Thread \X (1..SyncStartTries) /\ new \notin FailedTries
  BY <1>1 DEF FailedTries
<1>3. FailedTries' = FailedTries \cup {new}
  <2>1. ASSUME NEW u \in Thread, NEW n \in 1..SyncStartTries
        PROVE  n <= tries'[u] <=> n <= tries[u] \/ (u = t /\ n = tries[t] + 1)
    <3>1. CASE u = t
      BY <1>1, <3>1
    <3>2. CASE u # t
      BY <1>1, <3>2
    <3>3. QED
      BY <3>1, <3>2
  <2>2. ASSUME NEW try \in Thread \X (1..SyncStartTries)
        PROVE  try[2] <= tries'[try[1]] <=> try[2] <= tries[try[1]] \/ try = new
    <3>1. PICK u \in Thread, n \in 1..SyncStartTries : try = <<u, n>>
      OBVIOUS
    <3>2. try[1] = u /\ try[2] = n /\ (try = new <=> u = t /\ n = tries[t] + 1)
      BY <3>1
    <3>3. QED
      BY <2>1, <3>2
  <2> HIDE DEF new
  <2>3. FailedTries' = {try \in Thread \X (1..SyncStartTries) : try[2] <= tries'[try[1]]}
    BY DEF FailedTries
  <2>4. QED
    BY <1>2, <2>2, <2>3 DEF FailedTries
<1> HIDE DEF new
<1>4. IsFiniteSet(FailedTries)
  BY FaultsAreBounded
<1>5. Cardinality(FailedTries') = Cardinality(FailedTries) + 1
  BY <1>2, <1>3, <1>4, FS_AddElement
<1>6. QED
  BY <1>5

LEMMA EndIsCounted ==
  ASSUME SystemInv, NEW main, Client = {main}, NEW c \in Started, Started' = Started,
         callback[c].place \notin Over, callback'[c].place \in {"failed", "ended"},
         \A d \in Started \ {c} : callback'[d].place = callback[d].place
  PROVE  Cardinality(EndedSessions)' = Cardinality(EndedSessions) + 1
<1>1. EndedSessions' = EndedSessions \cup {c} /\ c \notin EndedSessions
  BY DEF EndedSessions, Over
<1>2. IsFiniteSet(EndedSessions)
  BY FaultsAreBounded
<1>3. Cardinality(EndedSessions') = Cardinality(EndedSessions) + 1
  BY <1>1, <1>2, FS_AddElement
<1>4. QED
  BY <1>3

-----------------------------------------------------------------------------
\* What the mapping sees of a step that starts no session.

LEMMA SyncingStays == Started' = Started => Syncing' = Syncing
BY DEF Syncing

SessionUnchanged == UNCHANGED <<Session, Inflight, SessionTries, Refused, Faults>>

LEMMA SessionStays ==
  ASSUME Started' = Started, tries' = tries,
         \A c \in Started : /\ callback'[c].place = callback[c].place
                            /\ callback'[c].message = callback[c].message
  PROVE  SessionUnchanged
<1>1. Syncing' = Syncing /\ (Started # {} => Syncing \in Started)
  BY SyncingStays, SyncingIsStarted
<1>2. SessionTries' = SessionTries
  BY <1>1 DEF SessionTries
<1>3. FatalErrors' = FatalErrors /\ FatalErrors \subseteq Started
  BY DEF FatalErrors
<1>4. IsUp' <=> IsUp
  BY <1>1 DEF IsUp
<1>5. GaveUp' <=> GaveUp
  BY <1>2, <1>3 DEF GaveUp
<1>6. Session' = Session
  BY <1>4, <1>5 DEF Session
<1>7. IsUp => /\ callback'[Syncing'].place = callback[Syncing].place
              /\ callback'[Syncing'].message = callback[Syncing].message
  BY <1>1 DEF IsUp
<1>8. Inflight' = Inflight
  BY <1>4, <1>7 DEF Inflight
<1>9. Refused' = Refused
  BY <1>1, <1>3 DEF Refused
<1>10. FailedTries' = FailedTries /\ EndedSessions' = EndedSessions
  BY DEF FailedTries, EndedSessions
<1>11. Faults' = Faults
  BY <1>10 DEF Faults
<1>12. QED
  BY <1>2, <1>6, <1>8, <1>9, <1>11 DEF SessionUnchanged

\* The callback of a session that is not over, and nothing else, moves.
OneMoves(c) ==
  /\ Started' = Started /\ tries' = tries
  /\ \A d \in Started \ {c} : callback'[d].place = callback[d].place

\* The session goes on, with the message its callback has by then.
LEMMA SessionGoesOn ==
  ASSUME SystemInv, NEW c \in Started, OneMoves(c),
         callback[c].place \notin Over, callback'[c].place \notin Over
  PROVE  /\ Session' = "up"
         /\ UNCHANGED <<SessionTries, Refused, Faults>>
         /\ Inflight' = IF callback'[c].place \in {"lock", "mutex"}
                          THEN <<callback'[c].message>> ELSE <<>>
<1>1. /\ Syncing = c /\ FatalErrors = {} /\ Refused = Nil
  BY GoesOnIsUp
<1>2. Syncing' = c /\ Started' = Started /\ c \in Started'
  BY <1>1, SyncingStays DEF OneMoves
<1>3. SessionTries' = SessionTries
  BY <1>1, <1>2 DEF SessionTries, OneMoves
<1>4. IsUp'
  BY <1>2 DEF IsUp
<1>5. FatalErrors' = {}
  BY <1>1 DEF FatalErrors, OneMoves, Over
<1>6. FailedTries' = FailedTries /\ EndedSessions' = EndedSessions
  BY DEF FailedTries, EndedSessions, OneMoves, Over
<1>7. Session' = "up" /\ Refused' = Nil /\ Faults' = Faults
  BY <1>4, <1>5, <1>6 DEF Session, Refused, Faults
<1>8. Inflight' = IF callback'[c].place \in {"lock", "mutex"}
                    THEN <<callback'[c].message>> ELSE <<>>
  BY <1>2, <1>4 DEF Inflight
<1>9. QED
  BY <1>1, <1>3, <1>7, <1>8

\* The session ends, to be retried if it may: one fault more.
LEMMA SessionIsLost ==
  ASSUME SystemInv, NEW main, Client = {main}, FaultsFit', NEW c \in Started, OneMoves(c),
         callback[c].place \notin Over, callback'[c].place \in {"failed", "ended"}
  PROVE  /\ Session' = IF RestartOnError THEN "down" ELSE "stopped"
         /\ Inflight' = <<>>
         /\ UNCHANGED <<SessionTries, Refused>>
         /\ Faults' = Faults + 1 /\ Faults < FaultsBound
<1>1. /\ Syncing = c /\ FatalErrors = {} /\ Refused = Nil /\ SessionTries = 0
  BY GoesOnIsUp
<1>2. Syncing' = c /\ Started' = Started /\ c \in Started'
  BY <1>1, SyncingStays DEF OneMoves
<1>3. SessionTries' = SessionTries
  BY <1>1, <1>2 DEF SessionTries, OneMoves
<1>4. ~IsUp'
  BY <1>2 DEF IsUp, Over
<1>5. FatalErrors' = {}
  BY <1>1 DEF FatalErrors, OneMoves, Over
<1>6. GaveUp' <=> ~RestartOnError
  <2>1. SessionTries' # SyncStartTries
    BY <1>1, <1>3, SystemConstants
  <2>2. QED
    BY <1>2, <1>5, <2>1 DEF GaveUp
<1>7. Session' = IF RestartOnError THEN "down" ELSE "stopped"
  BY <1>4, <1>6 DEF Session
<1>8. Inflight' = <<>> /\ Refused' = Nil
  BY <1>4, <1>5 DEF Inflight, Refused
<1>9. FailedTries' = FailedTries /\ Cardinality(EndedSessions)' = Cardinality(EndedSessions) + 1
  BY EndIsCounted DEF FailedTries, OneMoves
<1>10. Faults' = Faults + 1 /\ Faults < FaultsBound
  <2>1. /\ Cardinality(FailedTries) \in Nat /\ Cardinality(EndedSessions) \in Nat
        /\ FaultsBound \in Nat
    BY FaultsAreBounded
  <2>2. Faults' = Cardinality(FailedTries) + (Cardinality(EndedSessions) + 1)
    BY <1>9 DEF Faults
  <2>3. Faults = Cardinality(FailedTries) + Cardinality(EndedSessions)
    BY DEF Faults
  <2>4. Faults' <= FaultsBound
    BY DEF FaultsFit, FaultsBound
  <2>5. QED
    BY <2>1, <2>2, <2>3, <2>4
<1>11. QED
  BY <1>1, <1>3, <1>7, <1>8, <1>10

\* The fatal error stops the indexer with the rollback it refused.
LEMMA SessionIsRefused ==
  ASSUME SystemInv, NEW c \in Started, OneMoves(c),
         callback[c].place \notin Over, callback'[c].place = "fatal",
         callback'[c].message = callback[c].message
  PROVE  /\ Session' = "stopped" /\ Inflight' = <<>>
         /\ Refused' = callback[c].message
         /\ UNCHANGED <<SessionTries, Faults>>
<1>1. /\ Syncing = c
  BY GoesOnIsUp
<1>2. Syncing' = c /\ Started' = Started /\ c \in Started'
  BY <1>1, SyncingStays DEF OneMoves
<1>3. SessionTries' = SessionTries
  BY <1>1, <1>2 DEF SessionTries, OneMoves
<1>4. ~IsUp' /\ c \in FatalErrors'
  BY <1>2 DEF IsUp, Over, FatalErrors
<1>5. GaveUp'
  BY <1>4 DEF GaveUp
<1>6. Session' = "stopped" /\ Inflight' = <<>>
  BY <1>4, <1>5 DEF Session, Inflight
<1>7. Refused' = callback[c].message
  BY <1>2, <1>4 DEF Refused
<1>8. FailedTries' = FailedTries /\ EndedSessions' = EndedSessions
  BY DEF FailedTries, EndedSessions, OneMoves, Over
<1>9. QED
  BY <1>3, <1>6, <1>7, <1>8 DEF Faults

-----------------------------------------------------------------------------
\* The indexer of module ChainFollower is the one of the system.
LEMMA SameIndexer ==
  /\ Follower!indexerVars = indexerVars
  /\ Follower!NewBlockIndexer <=> NewBlockIndexer
  /\ Follower!ResumePoint = ResumePoint
  /\ Follower!Reset <=> Reset
  /\ \A header : /\ Follower!QueueHeader(header) <=> QueueHeader(header)
                 /\ Follower!ConfirmFirst(header) <=> ConfirmFirst(header)
  /\ Follower!RollForwardFails <=> RollForwardFails
  /\ \A point : /\ Follower!RollBackToUnconfirmed(point) <=> RollBackToUnconfirmed(point)
                /\ Follower!RollBackToConfirmed(point) <=> RollBackToConfirmed(point)
                /\ Follower!RollBackRefused(point) <=> RollBackRefused(point)
  /\ Follower!HandlerReturns <=> HandlerReturns
  /\ Follower!HandlerFails <=> HandlerFails
<1> USE DEF Follower!dbVars, dbVars, Follower!memVars, memVars,
            Follower!indexerVars, indexerVars
<1>1. Follower!indexerVars = indexerVars
  OBVIOUS
<1>2. Follower!ResumePoint = ResumePoint
  BY DEF Follower!ResumePoint, ResumePoint, Follower!StartPoint, StartPoint
<1>3. Follower!NewBlockIndexer <=> NewBlockIndexer
  BY DEF Follower!NewBlockIndexer, NewBlockIndexer, Follower!SlotNumbers, SlotNumbers
<1>4. Follower!Reset <=> Reset
  BY <1>2 DEF Follower!Reset, Reset
<1>5. \A header : Follower!QueueHeader(header) <=> QueueHeader(header)
  BY DEF Follower!QueueHeader, QueueHeader, Follower!IsFull, IsFull
<1>6. \A header : Follower!ConfirmFirst(header) <=> ConfirmFirst(header)
  BY DEF Follower!ConfirmFirst, ConfirmFirst, Follower!IsFull, IsFull,
         Follower!ProcessConfirmedBlock, ProcessConfirmedBlock
<1>7. Follower!RollForwardFails <=> RollForwardFails
  BY DEF Follower!RollForwardFails, RollForwardFails, Follower!IsFull, IsFull
<1>8. \A point : Follower!RollBackToUnconfirmed(point) <=> RollBackToUnconfirmed(point)
  BY DEF Follower!RollBackToUnconfirmed, RollBackToUnconfirmed
<1>9. \A point : /\ Follower!RollBackToConfirmed(point) <=> RollBackToConfirmed(point)
                 /\ Follower!RollBackRefused(point) <=> RollBackRefused(point)
  BY DEF Follower!RollBackToConfirmed, RollBackToConfirmed, Follower!RollBackRefused,
         RollBackRefused, Follower!IsUnconfirmed, IsUnconfirmed
<1>10. /\ Follower!HandlerReturns <=> HandlerReturns
       /\ Follower!HandlerFails <=> HandlerFails
  BY DEF Follower!HandlerReturns, HandlerReturns, Follower!HandlerFails, HandlerFails
<1>11. QED
  BY <1>1, <1>2, <1>3, <1>4, <1>5, <1>6, <1>7, <1>8, <1>9, <1>10

FollowerStep == Follower!Next \/ UNCHANGED Follower!vars

LEMMA FollowerStutters ==
  ASSUME UNCHANGED indexerVars, UNCHANGED nodeVars, SessionUnchanged
  PROVE  FollowerStep
<1>1. Follower!indexerVars' = Follower!indexerVars
  BY SameIndexer DEF Follower!indexerVars, indexerVars, Follower!memVars, memVars,
                     Follower!dbVars, dbVars
<1>2. QED
  BY <1>1 DEF FollowerStep, Follower!vars, Follower!nodeVars, nodeVars,
              Follower!sessionVars, SessionUnchanged

LEMMA AdoptsIsFollower ==
  ASSUME NEW block \in Block, NodeAdopts(block)
  PROVE  FollowerStep
<1>1. SessionUnchanged
  BY SessionStays DEF NodeAdopts, syncerVars, Started
<1>2. UNCHANGED Follower!indexerVars
  BY DEF NodeAdopts, Follower!indexerVars, indexerVars, Follower!memVars, memVars,
         Follower!dbVars, dbVars
<1>3. UNCHANGED Follower!sessionVars /\ UNCHANGED Faults
  BY <1>1 DEF Follower!sessionVars, SessionUnchanged
<1>4. Follower!NodeAdopts(block)
  BY <1>2, <1>3 DEF NodeAdopts, Follower!NodeAdopts, Follower!Cardinality, Cardinality
<1>5. QED
  BY <1>4 DEF FollowerStep, Follower!Next

LEMMA SendsIsFollower ==
  ASSUME SystemInv, NodeSendsNext
  PROVE  FollowerStep
<1>1. ASSUME NEW message \in Follower!Message, NodeSends(message)
      PROVE  Follower!NodeSends(message)
  <2>1. /\ connection \in Started /\ connection \in Connection
        /\ callback[connection].place = "idle" /\ callback \in [Connection -> Callback]
        /\ callback' = [callback EXCEPT ![connection] = Called(message)]
    <3>1. callback \in [Connection -> Callback]
      BY SystemTyped
    <3>2. connection \in Connection
      BY <1>1 DEF NodeSends, Started
    <3>3. QED
      BY <1>1, <3>1, <3>2 DEF NodeSends
  <2>2. Session = "up" /\ Inflight = <<>>
    BY <2>1, GoesOnIsUp DEF Over
  <2>3. callback'[connection] = Called(message)
    BY <2>1
  <2>4. /\ callback'[connection].place \in {"lock", "mutex"}
        /\ callback'[connection].message = message
    BY <2>3 DEF Called
  <2>5. \A d \in Started \ {connection} : callback'[d].place = callback[d].place
    BY <2>1 DEF Started
  <2>6. OneMoves(connection)
    BY <1>1, <2>5 DEF OneMoves, NodeSends, syncerVars, Started
  <2>7. /\ Session' = "up" /\ UNCHANGED <<SessionTries, Refused, Faults>>
        /\ Inflight' = <<message>>
    BY <2>1, <2>4, <2>6, SessionGoesOn DEF Over
  <2>8. Inflight' = Append(Inflight, message) /\ Len(Inflight) < 1
    BY <2>2, <2>7
  <2>9. UNCHANGED Follower!indexerVars
    BY <1>1 DEF NodeSends, Follower!indexerVars, indexerVars, Follower!memVars, memVars,
                Follower!dbVars, dbVars
  <2>10. QED
    BY <1>1, <2>2, <2>7, <2>8, <2>9 DEF NodeSends, Follower!NodeSends
<1>2. tip \in Point
  BY DEF SystemInv, SystemTypes
<1>3. CASE \E block \in Follower!Upto(tip) \cap Block :
             Parent[block] = served /\ NodeSends(Follower!Forward(block))
  <2>1. Follower!NodeRollsForward
    BY <1>1, <1>2, <1>3, MessageTypes DEF Follower!NodeRollsForward
  <2>2. QED
    BY <2>1 DEF FollowerStep, Follower!Next
<1>4. CASE /\ served \notin Follower!Upto(tip)
           /\ \E point \in Point : /\ Follower!IsNewestCommon(point, served, tip)
                                   /\ NodeSends(Follower!Backward(point))
  <2>1. Follower!NodeRollsBackward
    BY <1>1, <1>2, <1>4, MessageTypes, SystemConstants DEF Follower!NodeRollsBackward
  <2>2. QED
    BY <2>1 DEF FollowerStep, Follower!Next
<1>5. QED
  BY <1>3, <1>4 DEF NodeSendsNext

NewestSyncs == \A k \in Started : (\A c \in Started : c <= k) => Syncing = k

LEMMA NewestNext == NewestSyncs'
<1>1. NewestSyncs
  BY NewestStarted DEF NewestSyncs
<1>2. QED
  BY <1>1, PTL

LEMMA StartIsFollower ==
  ASSUME SystemInv, NEW main, Client = {main}, NEW t \in Thread, StartSyncing(t)
  PROVE  FollowerStep
<1> DEFINE k == connection
           point == Follower!ToCommonPoint(ResumePoint)
<1>1. /\ pc[t] = "start" /\ Syncer!StartSyncing(t)
      /\ UNCHANGED <<connection, isOpen, connError, dialled, tries>>
      /\ pc' = [pc EXCEPT ![k] = "watch", ![t] = Syncer!AfterSync(t, FALSE)]
  BY DEF StartSyncing, Syncer!StartSyncing, Syncer!connVars
<1>2. /\ k \in Connection \ Started /\ k \in Nat /\ k # t /\ tries[k] = 0
      /\ \A c \in Started : c < k
      /\ FatalErrors = {}
  BY <1>1, BeforeStart
<1>3. Session = "down" /\ Refused = Nil
  BY <1>1, TryingIsDown
<1>4. /\ pc \in [Thread -> Syncer!Place] /\ callback \in [Connection -> Callback]
      /\ k \in Thread
  BY <1>2, SystemTyped, SystemConstants
<1>5. \A u \in Thread :
        pc'[u] = IF u = t THEN Syncer!AfterSync(t, FALSE) ELSE IF u = k THEN "watch" ELSE pc[u]
  BY <1>1, <1>4
<1>6. t \in Connection => Syncer!AfterSync(t, FALSE) = "done"
  BY SystemConstants DEF Syncer!AfterSync, Syncer!Connection, Connection
<1>7. Started' = Started \cup {k}
  <2>1. ASSUME NEW c \in Connection
        PROVE  pc'[c] # "not started" <=> pc[c] # "not started" \/ c = k
    <3>1. c \in Thread
      BY SystemConstants
    <3>2. CASE c = t
      BY <1>1, <1>5, <1>6, <3>1, <3>2
    <3>3. CASE c # t
      BY <1>5, <3>1, <3>3
    <3>4. QED
      BY <3>2, <3>3
  <2>2. k \in Connection
    BY <1>2
  <2>3. QED
    BY <2>1, <2>2 DEF Started
<1>8. callback' = [callback EXCEPT ![k] = Called(Follower!Backward(point))]
  BY DEF StartSyncing
<1>9. /\ callback'[k] = Called(Follower!Backward(point))
      /\ \A d \in Started : callback'[d].place = callback[d].place
  <2>1. k \in Connection /\ \A d \in Started : d \in Connection /\ d # k
    BY <1>2 DEF Started
  <2>2. QED
    BY <1>4, <1>8, <2>1
<1>10. /\ callback'[k].place \in {"lock", "mutex"}
       /\ callback'[k].message = Follower!Backward(point)
  BY <1>9 DEF Called
<1> HIDE DEF k
<1>11. Syncing' = k
  <2>1. \A c \in Started' : c <= k
    <3>1. ASSUME NEW c \in Started'
          PROVE  c <= k
      <4>1. CASE c = k
        BY <1>2, <4>1
      <4>2. CASE c \in Started
        <5>1. c \in Nat /\ c < k
          BY <1>2, <4>2, Numbers DEF Started
        <5>2. QED
          BY <1>2, <5>1
      <4>3. QED
        BY <1>7, <4>1, <4>2
    <3>2. QED
      BY <3>1
  <2>2. QED
    BY <1>7, <2>1, NewestNext DEF NewestSyncs
<1>12. IsUp'
  BY <1>7, <1>10, <1>11 DEF IsUp, Over
<1>13. FatalErrors' = {}
  BY <1>2, <1>7, <1>9, <1>10 DEF FatalErrors
<1>14. /\ Session' = "up" /\ Refused' = Nil
       /\ Inflight' = <<Follower!Backward(point)>>
  BY <1>10, <1>11, <1>12, <1>13 DEF Session, Refused, Inflight
<1>15. SessionTries' = 0
  BY <1>1, <1>2, <1>11 DEF SessionTries
<1>16. Faults' = Faults
  <2>1. FailedTries' = FailedTries
    BY <1>1 DEF FailedTries
  <2>2. EndedSessions' = EndedSessions
    BY <1>7, <1>9, <1>10 DEF EndedSessions
  <2>3. QED
    BY <2>1, <2>2 DEF Faults
<1>17. Follower!Connect
  BY <1>3, <1>14, <1>15, <1>16, SameIndexer DEF StartSyncing, Follower!Connect
<1>18. QED
  BY <1>17 DEF FollowerStep, Follower!Next

LEMMA TryFailsIsFollower ==
  ASSUME SystemInv, NEW main, Client = {main}, FaultsFit', NEW t \in Thread, TryFails(t)
  PROVE  FollowerStep
<1>1. /\ pc[t] \in {"dial", "start"} /\ Syncer!TryFails(t)
      /\ pc' = [pc EXCEPT ![t] = "delay try"]
      /\ tries' = [tries EXCEPT ![t] = @ + 1]
      /\ UNCHANGED <<nodeVars, callback>>
      /\ UNCHANGED indexerVars \/ Reset
  BY DEF TryFails, Syncer!TryFails, Syncer!Goto
<1>2. /\ Syncing = t /\ FatalErrors = {}
      /\ Session = "down" /\ Inflight = <<>> /\ Refused = Nil
      /\ SessionTries = tries[t] /\ tries[t] < SyncStartTries
  BY <1>1, TryingIsDown
<1>3. /\ pc \in [Thread -> Syncer!Place] /\ tries \in [Thread -> 0..SyncStartTries]
  BY SystemTyped
<1>4. \A u \in Thread : pc'[u] = IF u = t THEN "delay try" ELSE pc[u]
  BY <1>1, <1>3
<1>5. Started' = Started
  <2>1. ASSUME NEW c \in Connection
        PROVE  pc'[c] # "not started" <=> pc[c] # "not started"
    <3>1. pc'[c] = IF c = t THEN "delay try" ELSE pc[c]
      BY <1>4, SystemConstants
    <3>2. pc[t] # "not started"
      BY <1>1
    <3>3. QED
      BY <3>1, <3>2
  <2>2. QED
    BY <2>1 DEF Started
<1>6. Syncing' = t
  BY <1>2, <1>5, SyncingStays
<1>7. FatalErrors' = {}
  BY <1>1, <1>2, <1>5 DEF FatalErrors
<1>8. SessionTries' = SessionTries + 1
  <2>1. tries'[t] = tries[t] + 1
    BY <1>1, <1>3
  <2>2. QED
    BY <1>2, <1>6, <2>1 DEF SessionTries
<1>9. IsUp' <=> IsUp
  BY <1>1, <1>2, <1>5, <1>6 DEF IsUp
<1>10. ~IsUp
  BY <1>2 DEF Session
<1>11. ~(Started # {} /\ ~RestartOnError)
  BY <1>2, <1>10 DEF Session, GaveUp
<1>12. GaveUp' <=> SessionTries + 1 = SyncStartTries
  BY <1>5, <1>7, <1>8, <1>11 DEF GaveUp
<1>13. Session' = IF SessionTries + 1 = SyncStartTries THEN "stopped" ELSE "down"
  BY <1>9, <1>10, <1>12 DEF Session
<1>14. Inflight' = Inflight /\ Refused' = Refused
  BY <1>2, <1>7, <1>9, <1>10 DEF Inflight, Refused
<1>15. Faults' = Faults + 1 /\ Faults < FaultsBound
  <2>1. /\ Cardinality(FailedTries) \in Nat /\ Cardinality(EndedSessions) \in Nat
        /\ FaultsBound \in Nat
    BY FaultsAreBounded
  <2>2. EndedSessions' = EndedSessions
    BY <1>1, <1>5 DEF EndedSessions
  <2>3. Cardinality(FailedTries)' = Cardinality(FailedTries) + 1
    BY <1>1, <1>2, TryIsCounted
  <2>4. Faults' = (Cardinality(FailedTries) + 1) + Cardinality(EndedSessions)
    BY <2>2, <2>3 DEF Faults
  <2>5. Faults = Cardinality(FailedTries) + Cardinality(EndedSessions)
    BY DEF Faults
  <2>6. Faults' <= FaultsBound
    BY DEF FaultsFit, FaultsBound
  <2>7. QED
    BY <2>1, <2>4, <2>5, <2>6
<1>16. UNCHANGED Follower!indexerVars \/ Follower!Reset
  BY <1>1, SameIndexer DEF Follower!indexerVars, indexerVars, Follower!memVars, memVars,
                           Follower!dbVars, dbVars
<1>17. Follower!TryFails
  BY <1>1, <1>2, <1>8, <1>13, <1>14 DEF Follower!TryFails, Follower!nodeVars, nodeVars
<1>18. Follower!ConnectFails
  BY <1>15, <1>16, <1>17 DEF Follower!ConnectFails
<1>19. QED
  BY <1>18 DEF FollowerStep, Follower!Next

\* The session ends with an error that is not fatal.
LEMMA LostIsFails ==
  ASSUME SystemInv, NEW main, Client = {main}, FaultsFit', NEW c \in Started, OneMoves(c),
         callback[c].place \notin Over, callback'[c].place \in {"failed", "ended"},
         UNCHANGED nodeVars
  PROVE  /\ Session = "up" /\ Faults < FaultsBound /\ Faults' = Faults + 1
         /\ Follower!SessionFails
<1>1. Session = "up"
  BY GoesOnIsUp
<1>2. /\ Session' = IF RestartOnError THEN "down" ELSE "stopped"
      /\ Inflight' = <<>>
      /\ UNCHANGED <<SessionTries, Refused>>
      /\ Faults' = Faults + 1 /\ Faults < FaultsBound
  BY SessionIsLost
<1>3. Follower!SessionFails
  BY <1>2 DEF Follower!SessionFails, Follower!nodeVars, nodeVars
<1>4. QED
  BY <1>1, <1>2, <1>3

LEMMA LostIsFollower ==
  ASSUME SystemInv, NEW main, Client = {main}, FaultsFit', NEW c \in Started, OneMoves(c),
         callback[c].place \notin Over, callback'[c].place \in {"failed", "ended"},
         UNCHANGED nodeVars, UNCHANGED indexerVars
  PROVE  FollowerStep
<1>1. /\ Session = "up" /\ Faults < FaultsBound /\ Faults' = Faults + 1
      /\ Follower!SessionFails
  BY LostIsFails
<1>2. UNCHANGED Follower!indexerVars
  BY DEF Follower!indexerVars, indexerVars, Follower!memVars, memVars, Follower!dbVars, dbVars
<1>3. Follower!ConnectionLost
  BY <1>1, <1>2 DEF Follower!ConnectionLost
<1>4. QED
  BY <1>3 DEF FollowerStep, Follower!Next

LEMMA ClosingIsFollower ==
  ASSUME SystemInv, NEW main, Client = {main}, FaultsFit', CloseWaits, NEW t \in Thread,
         \/ EndsSession(Syncer!CloseOldConnection(t))
         \/ t \in Client /\ EndsSession(Syncer!CloseLastConnection(t))
  PROVE  FollowerStep
<1>1. /\ tries' = tries /\ UNCHANGED indexerVars /\ UNCHANGED nodeVars
  BY DEF EndsSession, Syncer!CloseOldConnection, Syncer!CloseLastConnection
<1>2. Started' = Started
  <2>1. /\ pc \in [Thread -> Syncer!Place]
        /\ \A c \in Connection : c \notin Client /\ c \in Thread
    BY SystemTyped, SystemConstants
  <2>2. PICK place \in {"dial", "done"} : pc' = [pc EXCEPT ![t] = place]
    BY DEF EndsSession, Syncer!CloseOldConnection, Syncer!CloseLastConnection, Syncer!Goto
  <2>3. pc[t] # "not started"
    BY DEF EndsSession, Syncer!CloseOldConnection, Syncer!CloseLastConnection
  <2>4. ASSUME NEW c \in Connection
        PROVE  pc'[c] # "not started" <=> pc[c] # "not started"
    <3>1. pc'[c] = IF c = t THEN place ELSE pc[c]
      BY <2>1, <2>2
    <3>2. QED
      BY <2>3, <3>1
  <2>5. QED
    BY <2>4 DEF Started
<1>3. callback \in [Connection -> Callback] /\ connection \in Connection \cup {Nil}
  BY SystemTyped, SystemFacts
<1> DEFINE place == callback[connection].place
           newPlace == IF place = "idle" THEN "ended" ELSE place
<1>4. IF connection = Nil THEN UNCHANGED callback
      ELSE callback' = [callback EXCEPT ![connection].place = newPlace]
  BY DEF EndsSession
<1>5. CASE connection = Nil
  <2>1. SessionUnchanged
    BY <1>1, <1>2, <1>4, <1>5, SessionStays
  <2>2. QED
    BY <1>1, <2>1, FollowerStutters
<1>6. CASE connection # Nil
  <2>1. connection \in Connection
    BY <1>3, <1>6
  <2>2. callback' = [callback EXCEPT ![connection].place = newPlace]
    BY <1>4, <1>6
  <2> HIDE DEF newPlace
  <2>3. \A d \in Connection :
           /\ callback'[d].place = IF d = connection THEN newPlace ELSE callback[d].place
           /\ callback'[d].message = callback[d].message
    BY <1>3, <2>1, <2>2, PlaceMoves
  <2>4. \A d \in Started : d \in Connection
    BY DEF Started
  <2>5. CASE connection \in Started /\ place = "idle"
    <3>1. callback[connection].place \notin Over /\ callback'[connection].place = "ended"
      BY <2>1, <2>3, <2>5 DEF newPlace, Over
    <3>2. OneMoves(connection)
      BY <1>1, <1>2, <2>3, <2>4 DEF OneMoves
    <3>3. QED
      BY <1>1, <2>5, <3>1, <3>2, LostIsFollower
  <2>6. CASE ~(connection \in Started /\ place = "idle")
    <3>1. \A d \in Started : /\ callback'[d].place = callback[d].place
                             /\ callback'[d].message = callback[d].message
      BY <2>3, <2>4, <2>6 DEF newPlace
    <3>2. SessionUnchanged
      BY <1>1, <1>2, <3>1, SessionStays
    <3>3. QED
      BY <1>1, <3>2, FollowerStutters
  <2>7. QED
    BY <2>5, <2>6
<1>7. QED
  BY <1>5, <1>6

-----------------------------------------------------------------------------
\* The callbacks.

\* The message of a callback that has what it needs is the one in flight.
LEMMA MessageInFlight ==
  ASSUME SystemInv, NEW c \in Connection, callback[c].place \in Running
  PROVE  /\ c \in Started /\ callback[c].place \notin Over
         /\ Session = "up" /\ Refused = Nil
         /\ callback[c].place \in {"lock", "mutex"} =>
              /\ Inflight = <<callback[c].message>>
              /\ Inflight # <<>> /\ Tail(Inflight) = <<>>
              /\ Head(Inflight) = callback[c].message
         /\ callback[c].place = "handler" => Inflight = <<>>
<1>1. c \in Started /\ callback[c].place \notin Over
  BY RunningSession DEF Running, Over
<1>2. /\ Session = "up" /\ Refused = Nil
      /\ Inflight = IF callback[c].place \in {"lock", "mutex"}
                      THEN <<callback[c].message>> ELSE <<>>
  BY <1>1, GoesOnIsUp
<1>3. /\ <<callback[c].message>> # <<>>
      /\ Tail(<<callback[c].message>>) = <<>>
      /\ Head(<<callback[c].message>>) = callback[c].message
  OBVIOUS
<1>4. QED
  BY <1>1, <1>2, <1>3

\* What a callback that moves leaves as it is.
LEMMA CallbackIsOne ==
  ASSUME SystemInv, NEW c \in Connection, NEW place, Moves(c, place),
         pc' = pc, tries' = tries
  PROVE  /\ OneMoves(c) /\ callback'[c].place = place
         /\ callback'[c].message = callback[c].message
<1>1. callback \in [Connection -> Callback]
  BY SystemTyped
<1>2. \A d \in Connection :
         /\ callback'[d].place = IF d = c THEN place ELSE callback[d].place
         /\ callback'[d].message = callback[d].message
  BY <1>1, PlaceMoves DEF Moves
<1>3. Started' = Started /\ \A d \in Started : d \in Connection
  BY DEF Started
<1>4. OneMoves(c)
  BY <1>2, <1>3 DEF OneMoves
<1>5. QED
  BY <1>2, <1>4

\* The callback hands its message to the indexer and the session goes on.
LEMMA IsHandled ==
  ASSUME SystemInv, NEW c \in Connection, callback[c].place \in Running,
         NEW place \in {"idle", "handler"}, Moves(c, place),
         UNCHANGED syncerVars, UNCHANGED nodeVars
  PROVE  /\ Session' = Session /\ UNCHANGED <<SessionTries, Refused, Faults>>
         /\ Inflight' = <<>>
         /\ UNCHANGED Follower!nodeVars
<1>1. pc' = pc /\ tries' = tries
  BY DEF syncerVars
<1>2. OneMoves(c) /\ callback'[c].place = place
  BY <1>1, CallbackIsOne
<1>3. c \in Started /\ callback[c].place \notin Over /\ Session = "up"
  BY MessageInFlight
<1>4. callback'[c].place \notin Over /\ callback'[c].place \notin {"lock", "mutex"}
  BY <1>2 DEF Over
<1>5. /\ Session' = "up" /\ UNCHANGED <<SessionTries, Refused, Faults>>
      /\ Inflight' = <<>>
  BY <1>2, <1>3, <1>4, SessionGoesOn
<1>6. QED
  BY <1>3, <1>5 DEF Follower!nodeVars, nodeVars

LEMMA ErrorEnds ==
  ASSUME SystemInv, NEW c \in Connection, callback[c].place \in Running,
         NEW error \in {"retry", "fatal"}, ReturnsError(c, error)
  PROVE  /\ c \in Started /\ callback[c].place \notin Over /\ OneMoves(c)
         /\ UNCHANGED nodeVars
         /\ callback'[c].message = callback[c].message
         /\ callback'[c].place = IF error = "fatal" /\ isOpen[c] THEN "fatal" ELSE "failed"
<1>1. pc' = pc /\ tries' = tries /\ UNCHANGED nodeVars
  BY DEF ReturnsError, Syncer!ConnectionFails, syncerVars
<1>2. Moves(c, IF error = "fatal" /\ isOpen[c] THEN "fatal" ELSE "failed")
  BY DEF ReturnsError
<1>3. QED
  BY <1>1, <1>2, CallbackIsOne, MessageInFlight

LEMMA RollForwardIsFollower ==
  ASSUME SystemInv, NEW main, Client = {main}, FaultsFit', NEW c \in Connection, RollForward(c)
  PROVE  FollowerStep
<1> DEFINE header == callback[c].message.point
<1>1. callback[c].place = "mutex" /\ callback[c].message.type = "forward"
  BY DEF RollForward, ToIndexer, IsAt
<1>2. /\ Session = "up" /\ Inflight # <<>> /\ Tail(Inflight) = <<>>
      /\ Head(Inflight) = callback[c].message
  BY <1>1, MessageInFlight DEF Running
<1>3. Follower!Receives("forward")
  BY <1>1, <1>2 DEF Follower!Receives
<1>4. ASSUME QueueHeader(header) \/ ConfirmFirst(header),
             NEW place \in {"idle", "handler"}, Moves(c, place),
             UNCHANGED syncerVars, UNCHANGED nodeVars
      PROVE  FollowerStep
  <2>1. /\ Session' = Session /\ UNCHANGED <<SessionTries, Refused, Faults>>
        /\ Inflight' = <<>> /\ UNCHANGED Follower!nodeVars
    BY <1>1, <1>4, IsHandled DEF Running
  <2>2. Follower!Handled
    BY <1>2, <2>1 DEF Follower!Handled
  <2>3. Follower!QueueHeader(Head(Inflight).point) \/ Follower!ConfirmFirst(Head(Inflight).point)
    BY <1>2, <1>4, SameIndexer
  <2>4. Follower!RollForward
    BY <1>3, <2>2, <2>3 DEF Follower!RollForward
  <2>5. QED
    BY <2>4 DEF FollowerStep, Follower!Next
<1>5. CASE RollForwardFails /\ ReturnsError(c, "retry")
  <2>1. /\ c \in Started /\ callback[c].place \notin Over /\ OneMoves(c)
        /\ UNCHANGED nodeVars /\ callback'[c].place = "failed"
    BY <1>1, <1>5, ErrorEnds DEF Running
  <2>2. /\ Faults < FaultsBound /\ Faults' = Faults + 1 /\ Follower!SessionFails
    BY <2>1, LostIsFails
  <2>3. Follower!RollForwardFails
    BY <1>5, SameIndexer
  <2>4. Follower!RollForwardError
    BY <1>3, <2>2, <2>3 DEF Follower!RollForwardError
  <2>5. QED
    BY <2>4 DEF FollowerStep, Follower!Next
<1>6. QED
  BY <1>4, <1>5 DEF RollForward, Returns

LEMMA RollBackwardIsFollower ==
  ASSUME SystemInv, NEW main, Client = {main}, FaultsFit', NEW c \in Connection, RollBackward(c)
  PROVE  FollowerStep
<1> DEFINE point == callback[c].message.point
<1>1. callback[c].place = "mutex" /\ callback[c].message.type = "backward"
  BY DEF RollBackward, ToIndexer, IsAt
<1>2. /\ Session = "up" /\ Inflight # <<>> /\ Tail(Inflight) = <<>>
      /\ Head(Inflight) = callback[c].message
  BY <1>1, MessageInFlight DEF Running
<1>3. Follower!Receives("backward")
  BY <1>1, <1>2 DEF Follower!Receives
<1>4. CASE (RollBackToUnconfirmed(point) \/ RollBackToConfirmed(point)) /\ Returns(c)
  <2>1. Moves(c, "idle") /\ UNCHANGED syncerVars /\ UNCHANGED nodeVars
    BY <1>4 DEF Returns
  <2>2. /\ Session' = Session /\ UNCHANGED <<SessionTries, Refused, Faults>>
        /\ Inflight' = <<>> /\ UNCHANGED Follower!nodeVars
    BY <1>1, <2>1, IsHandled DEF Running
  <2>3. Follower!Handled
    BY <1>2, <2>2 DEF Follower!Handled
  <2>4. \/ Follower!RollBackToUnconfirmed(Head(Inflight).point)
        \/ Follower!RollBackToConfirmed(Head(Inflight).point)
    BY <1>2, <1>4, SameIndexer
  <2>5. Follower!RollBackward
    BY <1>3, <2>3, <2>4 DEF Follower!RollBackward
  <2>6. QED
    BY <2>5 DEF FollowerStep, Follower!Next
<1>5. CASE RollBackRefused(point) /\ ReturnsError(c, "fatal")
  <2>1. /\ c \in Started /\ callback[c].place \notin Over /\ OneMoves(c)
        /\ UNCHANGED nodeVars
        /\ callback'[c].message = callback[c].message
        /\ callback'[c].place = IF isOpen[c] THEN "fatal" ELSE "failed"
    BY <1>1, <1>5, ErrorEnds DEF Running
  <2>2. CASE isOpen[c]
    <3>1. /\ Session' = "stopped" /\ Inflight' = <<>>
          /\ Refused' = callback[c].message
          /\ UNCHANGED <<SessionTries, Faults>>
      BY <2>1, <2>2, SessionIsRefused
    <3>2. Follower!RollBackRefused(Head(Inflight).point)
      BY <1>2, <1>5, SameIndexer
    <3>3. UNCHANGED Follower!nodeVars
      BY <2>1 DEF Follower!nodeVars, nodeVars
    <3>4. Follower!RollBackwardFatal
      BY <1>2, <1>3, <3>1, <3>2, <3>3 DEF Follower!RollBackwardFatal
    <3>5. QED
      BY <3>4 DEF FollowerStep, Follower!Next
  <2>3. CASE ~isOpen[c]
    <3>1. UNCHANGED indexerVars
      BY <1>5 DEF RollBackRefused
    <3>2. callback'[c].place = "failed"
      BY <2>1, <2>3
    <3>3. QED
      BY <2>1, <3>1, <3>2, LostIsFollower
  <2>4. QED
    BY <2>2, <2>3
<1>6. QED
  BY <1>4, <1>5 DEF RollBackward

LEMMA HandlerEndsIsFollower ==
  ASSUME SystemInv, NEW main, Client = {main}, FaultsFit', NEW c \in Connection, HandlerEnds(c)
  PROVE  FollowerStep
<1>1. callback[c].place = "handler" /\ callback[c].place \in Running
  BY DEF HandlerEnds, IsAt, Running
<1>2. Session = "up" /\ Inflight = <<>>
  BY <1>1, MessageInFlight
<1>3. CASE HandlerReturns /\ Returns(c)
  <2>1. Moves(c, "idle") /\ UNCHANGED syncerVars /\ UNCHANGED nodeVars
    BY <1>3 DEF Returns
  <2>2. /\ Session' = Session /\ UNCHANGED <<SessionTries, Refused, Faults>>
        /\ Inflight' = <<>> /\ UNCHANGED Follower!nodeVars
    BY <1>1, <2>1, IsHandled
  <2>3. UNCHANGED Follower!sessionVars
    BY <1>2, <2>2 DEF Follower!sessionVars
  <2>4. Follower!HandlerReturns
    BY <1>3, SameIndexer
  <2>5. Follower!HandlerSucceeds
    BY <2>2, <2>3, <2>4 DEF Follower!HandlerSucceeds
  <2>6. QED
    BY <2>5 DEF FollowerStep, Follower!Next
<1>4. CASE HandlerFails /\ ReturnsError(c, "retry")
  <2>1. /\ c \in Started /\ callback[c].place \notin Over /\ OneMoves(c)
        /\ UNCHANGED nodeVars /\ callback'[c].place = "failed"
    BY <1>1, <1>4, ErrorEnds
  <2>2. /\ Faults < FaultsBound /\ Faults' = Faults + 1 /\ Follower!SessionFails
    BY <2>1, LostIsFails
  <2>3. Follower!HandlerFails
    BY <1>4, SameIndexer
  <2>4. Follower!HandlerError
    BY <1>2, <2>2, <2>3 DEF Follower!HandlerError
  <2>5. QED
    BY <2>4 DEF FollowerStep, Follower!Next
<1>5. QED
  BY <1>3, <1>4 DEF HandlerEnds

LEMMA ReadIsFollower ==
  ASSUME SystemInv, NEW c \in Connection, ReadConnection(c)
  PROVE  FollowerStep
<1>1. /\ callback[c].place = "lock" /\ callback[c].place \in Running
      /\ callback' = [callback EXCEPT ![c].place = "mutex", ![c].retriever = connection]
      /\ UNCHANGED indexerVars /\ UNCHANGED syncerVars /\ UNCHANGED nodeVars
  BY DEF ReadConnection, IsAt, Running
<1>2. callback \in [Connection -> Callback]
  BY SystemTyped
<1>3. /\ callback'[c].place = "mutex" /\ callback'[c].message = callback[c].message
      /\ \A d \in Connection \ {c} : callback'[d] = callback[d]
  BY <1>1, <1>2 DEF Callback
<1>4. /\ c \in Started /\ callback[c].place \notin Over
      /\ Session = "up" /\ Inflight = <<callback[c].message>>
  BY <1>1, MessageInFlight
<1>5. OneMoves(c)
  BY <1>1, <1>3 DEF OneMoves, Started, syncerVars
<1>6. callback'[c].place \notin Over
  BY <1>3 DEF Over
<1>7. /\ Session' = "up" /\ UNCHANGED <<SessionTries, Refused, Faults>>
      /\ Inflight' = <<callback'[c].message>>
  BY <1>3, <1>4, <1>5, <1>6, SessionGoesOn
<1>8. SessionUnchanged
  BY <1>3, <1>4, <1>7 DEF SessionUnchanged
<1>9. QED
  BY <1>1, <1>8, FollowerStutters

-----------------------------------------------------------------------------
\* A step that neither starts or ends a session nor counts a try.
LEMMA AloneIsFollower ==
  ASSUME UNCHANGED indexerVars, UNCHANGED nodeVars, UNCHANGED callback,
         Started' = Started, tries' = tries
  PROVE  FollowerStep
BY SessionStays, FollowerStutters

LEMMA SyncStepIsFollower ==
  ASSUME SystemInv, NEW main, Client = {main}, FaultsFit', CloseWaits, NEW t \in Thread,
         SyncStep(t)
  PROVE  FollowerStep
<1>1. pc \in [Thread -> Syncer!Place]
  BY SystemTyped
<1>2. ASSUME SyncerAlone(\/ Syncer!CheckClosed(t)
                         \/ Syncer!TakeLock(t)
                         \/ Syncer!Dial(t)
                         \/ Syncer!DelayTry(t))
      PROVE  FollowerStep
  <2>1. PICK place \in {"lock", "close old", "start", "try", "closing", "waiting",
                        "report", "done"} :
          pc' = [pc EXCEPT ![t] = place]
    BY <1>2, SystemConstants
       DEF SyncerAlone, Syncer!CheckClosed, Syncer!TakeLock, Syncer!Dial, Syncer!DelayTry,
           Syncer!Goto, Syncer!AfterSync, Syncer!Connection, Connection, Thread, Syncer!Thread
  <2>2. pc[t] # "not started" /\ tries' = tries
    BY <1>2 DEF SyncerAlone, Syncer!CheckClosed, Syncer!TakeLock, Syncer!Dial, Syncer!DelayTry
  <2>3. ASSUME NEW c \in Connection
        PROVE  pc'[c] # "not started" <=> pc[c] # "not started"
    <3>1. pc'[c] = IF c = t THEN place ELSE pc[c]
      BY <1>1, <2>1, SystemConstants
    <3>2. QED
      BY <2>1, <2>2, <3>1
  <2>4. Started' = Started
    BY <2>3 DEF Started
  <2>5. QED
    BY <1>2, <2>2, <2>4, AloneIsFollower DEF SyncerAlone
<1>3. CASE EndsSession(Syncer!CloseOldConnection(t))
  BY <1>3, ClosingIsFollower
<1>4. CASE StartSyncing(t)
  BY <1>4, StartIsFollower
<1>5. CASE TryFails(t)
  BY <1>5, TryFailsIsFollower
<1>6. QED
  BY <1>2, <1>3, <1>4, <1>5 DEF SyncStep, SyncerAlone

LEMMA OthersAreFollower ==
  ASSUME SystemInv, NEW t \in Thread,
         \/ t \in Connection /\ SyncerAlone(Syncer!HandlerStep(t))
         \/ t \in Client /\ SyncerAlone(Syncer!Signal(t) \/ Syncer!ReadError(t))
         \/ t \in Client /\ SyncerAlone(Syncer!Close(t))
  PROVE  FollowerStep
<1>1. pc \in [Thread -> Syncer!Place]
  BY SystemTyped
<1>2. PICK place \in {"done", "try", "delay sync", "report", "closing", "close last"} :
        pc' = [pc EXCEPT ![t] = place]
  BY DEF SyncerAlone, Syncer!HandlerStep, Syncer!StopWatching, Syncer!TakeError,
         Syncer!DelaySync, Syncer!Report, Syncer!Signal, Syncer!ReadError, Syncer!Close,
         Syncer!Goto
<1>3. pc[t] # "not started" /\ tries' = tries
  BY DEF SyncerAlone, Syncer!HandlerStep, Syncer!StopWatching, Syncer!TakeError,
         Syncer!DelaySync, Syncer!Report, Syncer!Signal, Syncer!ReadError, Syncer!Close
<1>4. ASSUME NEW c \in Connection
      PROVE  pc'[c] # "not started" <=> pc[c] # "not started"
  <2>1. pc'[c] = IF c = t THEN place ELSE pc[c]
    BY <1>1, <1>2, SystemConstants
  <2>2. QED
    BY <1>2, <1>3, <2>1
<1>5. Started' = Started
  BY <1>4 DEF Started
<1>6. QED
  BY <1>3, <1>5, AloneIsFollower DEF SyncerAlone

LEMMA SystemStepIsFollower ==
  ASSUME SystemInv, NEW main, Client = {main}, CloseWaits, FaultsFit', [Next]_vars
  PROVE  FollowerStep
<1>1. ASSUME NEW block \in Block, NodeAdopts(block)
      PROVE  FollowerStep
  BY <1>1, AdoptsIsFollower
<1>2. CASE NodeSendsNext
  BY <1>2, SendsIsFollower
<1>3. ASSUME NEW c \in Connection, SyncerAlone(Syncer!ConnectionFails(c, "retry"))
      PROVE  FollowerStep
  BY <1>3, AloneIsFollower DEF SyncerAlone, Syncer!ConnectionFails, Started
<1>4. ASSUME NEW c \in Connection, CallbackStep(c)
      PROVE  FollowerStep
  BY <1>4, ReadIsFollower, RollForwardIsFollower, RollBackwardIsFollower, HandlerEndsIsFollower
     DEF CallbackStep
<1>5. ASSUME NEW c \in Connection, SyncerAlone(Syncer!HandlerStep(c))
      PROVE  FollowerStep
  BY <1>5, OthersAreFollower, SystemConstants
<1>6. ASSUME NEW t \in Thread, SyncStep(t)
      PROVE  FollowerStep
  BY <1>6, SyncStepIsFollower
<1>7. ASSUME NEW t \in Client, \/ SyncerAlone(Syncer!Signal(t) \/ Syncer!ReadError(t))
                               \/ CloseStep(t)
      PROVE  FollowerStep
  BY <1>7, OthersAreFollower, ClosingIsFollower, SystemConstants DEF CloseStep
<1>8. CASE UNCHANGED vars
  BY <1>8, AloneIsFollower DEF vars, syncerVars, Started
<1>9. QED
  BY <1>1, <1>2, <1>3, <1>4, <1>5, <1>6, <1>7, <1>8 DEF Next

LEMMA SystemInitIsFollower ==
  ASSUME NEW main, Client = {main}, Init
  PROVE  Follower!Init
<1>1. Syncer!Init
  BY DEF Init
<1>2. Started = {}
  BY <1>1, SystemConstants DEF Started, Syncer!Init, Connection, Thread
<1>3. Syncing = main /\ main \in Thread
  BY <1>2, SystemConstants DEF Syncing
<1>4. \A t \in Thread : tries[t] = 0
  BY <1>1 DEF Syncer!Init, Thread
<1>5. SessionTries = 0
  BY <1>3, <1>4 DEF SessionTries
<1>6. FatalErrors = {} /\ EndedSessions = {} /\ ~IsUp
  BY <1>2 DEF FatalErrors, EndedSessions, IsUp
<1>7. ~GaveUp
  BY <1>2, <1>5, <1>6, SystemConstants DEF GaveUp
<1>8. Session = "down" /\ Inflight = <<>> /\ Refused = Nil
  BY <1>6, <1>7 DEF Session, Inflight, Refused
<1>9. FailedTries = {}
  <2>1. ASSUME NEW try \in Thread \X (1..SyncStartTries)
        PROVE  ~(try[2] <= tries[try[1]])
    <3>1. tries[try[1]] = 0 /\ try[2] \in 1..SyncStartTries
      BY <1>4
    <3>2. QED
      BY <3>1
  <2>2. QED
    BY <2>1 DEF FailedTries
<1>10. Faults = 0
  BY <1>6, <1>9, FS_EmptySet DEF Faults
<1>11. QED
  BY <1>5, <1>8, <1>10, SameIndexer, SystemConstants DEF Init, Follower!Init

\* The locks, channels, retries and callbacks of the syncer, with one client
\* and a library that waits for the callback of a connection it closes, show
\* the indexer one session after the other, whose messages arrive in order
\* (block_syncer.go, syncExecute and errorHandler), whatever the number of
\* connections, the tries and the node's chain.
THEOREM SystemImplementsFollower ==
  ASSUME CloseWaits, NEW main, Client = {main}
  PROVE  Spec => ImplementsFollower
<1>1. Init => Follower!Init
  BY SystemInitIsFollower
<1>2. SystemInv' => FaultsFit'
  BY FaultsFitNext
<1>3. SystemInv /\ SystemInv' /\ [Next]_vars => FollowerStep
  BY <1>2, SystemStepIsFollower
<1>4. SystemInv /\ SystemInv' /\ [Next]_vars => [Follower!Next]_(Follower!vars)
  BY <1>3 DEF FollowerStep
<1>5. SystemInv /\ [Next]_vars => SystemInv'
  BY SystemInvKept
<1>6. QED
  BY <1>1, <1>4, <1>5, SystemInvInit, PTL DEF Spec, ImplementsFollower, Follower!Spec

-----------------------------------------------------------------------------
\* What is proved of module ChainFollower holds of the system.

FollowerProofs == INSTANCE ChainFollowerProofs WITH
  session <- Session,
  inflight <- Inflight,
  tries <- SessionTries,
  refused <- Refused,
  faults <- Faults,
  MaxInflight <- 1,
  MaxFaults <- FaultsBound

LEMMA FollowerAssumed ==
  /\ FollowerProofs!IndexerAssumption
  /\ FollowerProofs!TreeAssumption
  /\ FollowerProofs!SessionAssumption
<1> USE DEF FollowerProofs!Point, Point, Follower!Point
<1>1. FollowerProofs!IndexerAssumption
  BY IndexerAssumption DEF FollowerProofs!IndexerAssumption
<1>2. FollowerProofs!TreeAssumption
  BY SystemAssumption DEF FollowerProofs!TreeAssumption, Follower!TreeAssumption
<1>3. FollowerProofs!SessionAssumption
  BY SystemAssumption DEF FollowerProofs!SessionAssumption, Follower!SessionAssumption
<1>4. QED
  BY <1>1, <1>2, <1>3

\* The instance the proofs are taken from is module ChainFollower's.
LEMMA SameMethods ==
  /\ Follower!indexerVars = FollowerProofs!indexerVars
  /\ UNCHANGED Follower!indexerVars <=> UNCHANGED FollowerProofs!indexerVars
  /\ Follower!NewBlockIndexer <=> FollowerProofs!NewBlockIndexer
  /\ Follower!ResumePoint = FollowerProofs!ResumePoint
  /\ Follower!Reset <=> FollowerProofs!Reset
  /\ Follower!ProcessRestarts <=> FollowerProofs!ProcessRestarts
  /\ \A header : /\ Follower!QueueHeader(header) <=> FollowerProofs!QueueHeader(header)
                 /\ Follower!ConfirmFirst(header) <=> FollowerProofs!ConfirmFirst(header)
  /\ Follower!RollForwardFails <=> FollowerProofs!RollForwardFails
  /\ \A point :
        /\ Follower!RollBackToUnconfirmed(point) <=> FollowerProofs!RollBackToUnconfirmed(point)
        /\ Follower!RollBackToConfirmed(point) <=> FollowerProofs!RollBackToConfirmed(point)
        /\ Follower!RollBackRefused(point) <=> FollowerProofs!RollBackRefused(point)
  /\ Follower!HandlerReturns <=> FollowerProofs!HandlerReturns
  /\ Follower!HandlerFails <=> FollowerProofs!HandlerFails
<1> USE DEF Follower!dbVars, FollowerProofs!dbVars, Follower!memVars, FollowerProofs!memVars,
            Follower!indexerVars, FollowerProofs!indexerVars
<1>1. /\ Follower!indexerVars = FollowerProofs!indexerVars
      /\ UNCHANGED Follower!indexerVars <=> UNCHANGED FollowerProofs!indexerVars
  OBVIOUS
<1>2. Follower!ResumePoint = FollowerProofs!ResumePoint
  BY DEF Follower!ResumePoint, FollowerProofs!ResumePoint, Follower!StartPoint,
         FollowerProofs!StartPoint
<1>3. Follower!NewBlockIndexer <=> FollowerProofs!NewBlockIndexer
  BY DEF Follower!NewBlockIndexer, FollowerProofs!NewBlockIndexer, Follower!SlotNumbers,
         FollowerProofs!SlotNumbers
<1>4. Follower!Reset <=> FollowerProofs!Reset
  BY <1>2 DEF Follower!Reset, FollowerProofs!Reset
<1>5. Follower!ProcessRestarts <=> FollowerProofs!ProcessRestarts
  BY DEF Follower!ProcessRestarts, FollowerProofs!ProcessRestarts
<1>6. \A header : Follower!QueueHeader(header) <=> FollowerProofs!QueueHeader(header)
  BY DEF Follower!QueueHeader, FollowerProofs!QueueHeader, Follower!IsFull,
         FollowerProofs!IsFull
<1>7. \A header : Follower!ConfirmFirst(header) <=> FollowerProofs!ConfirmFirst(header)
  BY DEF Follower!ConfirmFirst, FollowerProofs!ConfirmFirst, Follower!IsFull,
         FollowerProofs!IsFull, Follower!ProcessConfirmedBlock,
         FollowerProofs!ProcessConfirmedBlock
<1>8. Follower!RollForwardFails <=> FollowerProofs!RollForwardFails
  BY DEF Follower!RollForwardFails, FollowerProofs!RollForwardFails, Follower!IsFull,
         FollowerProofs!IsFull
<1>9. \A point :
        Follower!RollBackToUnconfirmed(point) <=> FollowerProofs!RollBackToUnconfirmed(point)
  BY DEF Follower!RollBackToUnconfirmed, FollowerProofs!RollBackToUnconfirmed
<1>10. \A point :
         /\ Follower!RollBackToConfirmed(point) <=> FollowerProofs!RollBackToConfirmed(point)
         /\ Follower!RollBackRefused(point) <=> FollowerProofs!RollBackRefused(point)
  BY DEF Follower!RollBackToConfirmed, FollowerProofs!RollBackToConfirmed,
         Follower!RollBackRefused, FollowerProofs!RollBackRefused, Follower!IsUnconfirmed,
         FollowerProofs!IsUnconfirmed
<1>11. /\ Follower!HandlerReturns <=> FollowerProofs!HandlerReturns
       /\ Follower!HandlerFails <=> FollowerProofs!HandlerFails
  BY DEF Follower!HandlerReturns, FollowerProofs!HandlerReturns, Follower!HandlerFails,
         FollowerProofs!HandlerFails
<1>12. QED
  BY <1>1, <1>2, <1>3, <1>4, <1>5, <1>6, <1>7, <1>8, <1>9, <1>10, <1>11

LEMMA SameTree ==
  /\ Follower!Point = FollowerProofs!Point
  /\ \A point : /\ Follower!Upto(point) = FollowerProofs!Upto(point)
                /\ Follower!ToCommonPoint(point) = FollowerProofs!ToCommonPoint(point)
                /\ Follower!Forward(point) = FollowerProofs!Forward(point)
                /\ Follower!Backward(point) = FollowerProofs!Backward(point)
  /\ \A p, a, b : Follower!IsNewestCommon(p, a, b) <=> FollowerProofs!IsNewestCommon(p, a, b)
BY DEF Follower!Point, FollowerProofs!Point, Follower!Upto, FollowerProofs!Upto,
       Follower!ToCommonPoint, FollowerProofs!ToCommonPoint, Follower!Forward,
       FollowerProofs!Forward, Follower!Backward, FollowerProofs!Backward,
       Follower!IsNewestCommon, FollowerProofs!IsNewestCommon

LEMMA SameFollowerVars ==
  /\ Follower!nodeVars = FollowerProofs!nodeVars
  /\ UNCHANGED Follower!nodeVars <=> UNCHANGED FollowerProofs!nodeVars
  /\ UNCHANGED Follower!sessionVars <=> UNCHANGED FollowerProofs!sessionVars
  /\ UNCHANGED Follower!vars <=> UNCHANGED FollowerProofs!vars
<1>1. /\ Follower!nodeVars = FollowerProofs!nodeVars
      /\ UNCHANGED Follower!nodeVars <=> UNCHANGED FollowerProofs!nodeVars
      /\ UNCHANGED Follower!sessionVars <=> UNCHANGED FollowerProofs!sessionVars
  BY DEF Follower!nodeVars, FollowerProofs!nodeVars, Follower!sessionVars,
         FollowerProofs!sessionVars
<1>2. UNCHANGED Follower!vars <=> UNCHANGED FollowerProofs!vars
  BY <1>1, SameMethods DEF Follower!vars, FollowerProofs!vars
<1>3. QED
  BY <1>1, <1>2

LEMMA SameFollowerNext == Follower!Next <=> FollowerProofs!Next
<1> USE SameMethods, SameTree, SameFollowerVars
<1>1. \A block : Follower!NodeAdopts(block) <=> FollowerProofs!NodeAdopts(block)
  BY DEF Follower!NodeAdopts, FollowerProofs!NodeAdopts,
         Follower!Cardinality, FollowerProofs!Cardinality
<1>2. Follower!NodeRollsForward <=> FollowerProofs!NodeRollsForward
  BY DEF Follower!NodeRollsForward, FollowerProofs!NodeRollsForward, Follower!NodeSends,
         FollowerProofs!NodeSends
<1>3. Follower!NodeRollsBackward <=> FollowerProofs!NodeRollsBackward
  BY DEF Follower!NodeRollsBackward, FollowerProofs!NodeRollsBackward,
         Follower!NodeSends, FollowerProofs!NodeSends
<1>4. Follower!Connect <=> FollowerProofs!Connect
  BY DEF Follower!Connect, FollowerProofs!Connect
<1>5. Follower!IntersectNotFound <=> FollowerProofs!IntersectNotFound
  BY DEF Follower!IntersectNotFound, FollowerProofs!IntersectNotFound, Follower!TryFails,
         FollowerProofs!TryFails
<1>6. Follower!ConnectFails <=> FollowerProofs!ConnectFails
  BY DEF Follower!ConnectFails, FollowerProofs!ConnectFails, Follower!TryFails,
         FollowerProofs!TryFails
<1>7. Follower!ConnectionLost <=> FollowerProofs!ConnectionLost
  BY DEF Follower!ConnectionLost, FollowerProofs!ConnectionLost, Follower!SessionFails,
         FollowerProofs!SessionFails
<1>8. Follower!Restart <=> FollowerProofs!Restart
  BY DEF Follower!Restart, FollowerProofs!Restart
<1>9. Follower!RollForward <=> FollowerProofs!RollForward
  BY DEF Follower!RollForward, FollowerProofs!RollForward, Follower!Receives,
         FollowerProofs!Receives, Follower!Handled, FollowerProofs!Handled
<1>10. Follower!RollForwardError <=> FollowerProofs!RollForwardError
  BY DEF Follower!RollForwardError, FollowerProofs!RollForwardError, Follower!Receives,
         FollowerProofs!Receives, Follower!SessionFails, FollowerProofs!SessionFails
<1>11. Follower!RollBackward <=> FollowerProofs!RollBackward
  BY DEF Follower!RollBackward, FollowerProofs!RollBackward, Follower!Receives,
         FollowerProofs!Receives, Follower!Handled, FollowerProofs!Handled
<1>12. Follower!RollBackwardFatal <=> FollowerProofs!RollBackwardFatal
  BY DEF Follower!RollBackwardFatal, FollowerProofs!RollBackwardFatal, Follower!Receives,
         FollowerProofs!Receives
<1>13. Follower!HandlerSucceeds <=> FollowerProofs!HandlerSucceeds
  BY DEF Follower!HandlerSucceeds, FollowerProofs!HandlerSucceeds
<1>14. Follower!HandlerError <=> FollowerProofs!HandlerError
  BY DEF Follower!HandlerError, FollowerProofs!HandlerError, Follower!SessionFails,
         FollowerProofs!SessionFails
<1>15. QED
  BY <1>1, <1>2, <1>3, <1>4, <1>5, <1>6, <1>7, <1>8, <1>9, <1>10, <1>11, <1>12, <1>13, <1>14
     DEF Follower!Next, FollowerProofs!Next

LEMMA SameFollowerSpec ==
  /\ Follower!Spec <=> FollowerProofs!Spec
  /\ Follower!SlotsIncrease <=> FollowerProofs!SlotsIncrease
<1>1. Follower!Init <=> FollowerProofs!Init
  BY SameMethods, SameTree DEF Follower!Init, FollowerProofs!Init
<1>2. [Follower!Next]_(Follower!vars) <=> [FollowerProofs!Next]_(FollowerProofs!vars)
  BY SameFollowerNext, SameFollowerVars
<1>3. Follower!Spec <=> FollowerProofs!Spec
  BY <1>1, <1>2, PTL DEF Follower!Spec, FollowerProofs!Spec
<1>4. Follower!SlotsIncrease <=> FollowerProofs!SlotsIncrease
  BY DEF Follower!SlotsIncrease, FollowerProofs!SlotsIncrease
<1>5. QED
  BY <1>3, <1>4

\* With goroutines, locks, retries and reconnects around it, the database of
\* the indexer holds exactly the blocks between the configured start and the
\* point it would resume from: no gap and no block of a fork (README, "Restart
\* Resilience" and "Configurable Block Confirmation").
THEOREM SystemConfirmedIsChain ==
  ASSUME CloseWaits, NEW main, Client = {main}, Follower!SlotsIncrease
  PROVE  Spec => []ConfirmedIsChain
<1>1. FollowerProofs!Spec => []FollowerProofs!DiskInvariant
  BY FollowerProofs!DiskStaysSound, FollowerAssumed, SameFollowerSpec
<1>2. FollowerProofs!DiskInvariant => ConfirmedIsChain
  <2>1. /\ Follower!Confirmed = FollowerProofs!Confirmed
        /\ Follower!ResumePoint = FollowerProofs!ResumePoint
        /\ Follower!StartPoint = FollowerProofs!StartPoint
    BY SameMethods
       DEF Follower!Confirmed, FollowerProofs!Confirmed, Follower!SlotNumbers,
           FollowerProofs!SlotNumbers, Follower!StartPoint, FollowerProofs!StartPoint
  <2>2. QED
    BY <2>1, SameTree
       DEF ConfirmedIsChain, Follower!ConfirmedIsChain, FollowerProofs!ConfirmedIsChain,
           FollowerProofs!DiskInvariant
<1>3. Spec => FollowerProofs!Spec
  BY SystemImplementsFollower, SameFollowerSpec DEF ImplementsFollower
<1>4. QED
  BY <1>1, <1>2, <1>3, PTL

\* Nor does the system lose a transaction of a confirmed block or hand one out
\* again after it was marked, when a callback's handler fails while the syncer
\* reconnects.
THEOREM SystemLosesNoTx ==
  ASSUME CloseWaits, NEW main, Client = {main}, Follower!SlotsIncrease
  PROVE  Spec => []NoTxLost
<1>1. FollowerProofs!Spec => []FollowerProofs!NoTxLost
  BY FollowerProofs!NoTxIsLost, FollowerAssumed, SameFollowerSpec
<1>2. FollowerProofs!NoTxLost => NoTxLost
  BY DEF FollowerProofs!NoTxLost, NoTxLost, FollowerProofs!Confirmed, Confirmed,
         FollowerProofs!SlotNumbers, SlotNumbers
<1>3. Spec => FollowerProofs!Spec
  BY SystemImplementsFollower, SameFollowerSpec DEF ImplementsFollower
<1>4. QED
  BY <1>1, <1>2, <1>3, PTL

\* The error channel of the syncer delivers the fatal error only when the node
\* has left the latest confirmed block (block_indexer.go, RollBackwardFunc).
THEOREM SystemFatalIsJustified ==
  ASSUME CloseWaits, NEW main, Client = {main}, Follower!SlotsIncrease
  PROVE  Spec => []Follower!FatalIsJustified
<1>1. FollowerProofs!Spec => []FollowerProofs!FatalIsJustified
  BY FollowerProofs!FatalErrorsAreJustified, FollowerAssumed, SameFollowerSpec
<1>2. FollowerProofs!FatalIsJustified => Follower!FatalIsJustified
  BY SameTree DEF FollowerProofs!FatalIsJustified, Follower!FatalIsJustified
<1>3. Spec => FollowerProofs!Spec
  BY SystemImplementsFollower, SameFollowerSpec DEF ImplementsFollower
<1>4. QED
  BY <1>1, <1>2, <1>3, PTL

=============================================================================
