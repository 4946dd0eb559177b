--------------------------- MODULE IndexerSystem ----------------------------
(***************************************************************************)
(* Syncer and indexer together: the goroutines of module BlockSyncer, the  *)
(* methods of module BlockIndexer, and between them the callbacks of       *)
(* core/block_syncer.go, which the connection library runs in a goroutine  *)
(* per connection.  A callback that delivers a header takes bs.lock to     *)
(* read bs.connection and then waits for bi.mutex; syncExecute holds       *)
(* bs.lock when Reset waits for bi.mutex; the handler runs under bi.mutex. *)
(*                                                                         *)
(* The library is external.  Whether a connection counts as closed before  *)
(* its callback has returned is not for the syncer to decide: CloseWaits   *)
(* stands for both kinds of library.  The node has one message on its way  *)
(* to the indexer, the one the callback is for.                            *)
(***************************************************************************)
EXTENDS BlockIndexer, FiniteSets, FiniteSetsExt

CONSTANTS
  Client, RestartOnError, SyncStartTries, MaxConnections,  \* see BlockSyncer
  Parent, Ancestors,                                       \* see ChainFollower
  CloseWaits   \* does closing a connection wait for its callback to return?

VARIABLES
  lock, closed, connection, isOpen, connError, dialled, errorCh, pc, tries,
  tip,       \* the node: the end of the chain it has adopted
  served,    \* the node: the last point sent in this session
  callback   \* of each connection

Syncer == INSTANCE BlockSyncer
syncerVars == <<lock, closed, connection, isOpen, connError, dialled, errorCh, pc, tries>>
nodeVars == <<tip, served>>
vars == <<indexerVars, syncerVars, nodeVars, callback>>

Connection == Syncer!Connection
Thread == Syncer!Thread

\* A callback waits for bs.lock, waits for bi.mutex, or runs the handler.
Running == {"lock", "mutex", "handler"}

\* It has returned an error that ended its connection, a fatal one or not, or
\* its connection was closed while no callback ran.
Over == {"failed", "fatal", "ended"}

Started == {c \in Connection : pc[c] # "not started"}

-----------------------------------------------------------------------------
\* One session after the other, as module ChainFollower has it.  A session is
\* up from its start until its callback fails or its connection is closed.

\* The goroutine that is or will be in Sync, for one client.
Syncing == IF Started = {} THEN CHOOSE t \in Client : TRUE ELSE Max(Started)

IsUp == Started # {} /\ callback[Syncing].place \notin Over

FatalErrors == {c \in Started : callback[c].place = "fatal"}

SessionTries == tries[Syncing]

GaveUp ==
  \/ SessionTries = SyncStartTries
  \/ Started # {} /\ ~RestartOnError
  \/ FatalErrors # {}

Session == IF IsUp THEN "up" ELSE IF GaveUp THEN "stopped" ELSE "down"

Inflight ==
  IF IsUp /\ callback[Syncing].place \in {"lock", "mutex"}
    THEN <<callback[Syncing].message>> ELSE <<>>

Refused == IF FatalErrors = {} THEN Nil ELSE callback[Syncing].message

\* The tries that failed and the sessions that ended.
FailedTries == {try \in Thread \X (1..SyncStartTries) : try[2] <= tries[try[1]]}
EndedSessions == {c \in Started : callback[c].place \in {"failed", "ended"}}
Faults == Cardinality(FailedTries) + Cardinality(EndedSessions)
FaultsBound == (MaxConnections + 1) * (SyncStartTries + 1)

Follower == INSTANCE ChainFollower WITH
  session <- Session,
  inflight <- Inflight,
  tries <- SessionTries,
  refused <- Refused,
  faults <- Faults,
  MaxInflight <- 1,
  MaxFaults <- FaultsBound

ASSUME SystemAssumption ==
  /\ CloseWaits \in BOOLEAN
  /\ Syncer!SyncerAssumption
  /\ Follower!TreeAssumption
  /\ Follower!SessionAssumption

-----------------------------------------------------------------------------
Idle == [place |-> "idle", message |-> Nil, retriever |-> Nil]

Init ==
  /\ NewBlockIndexer
  /\ Syncer!Init
  /\ tip \in Point
  /\ served = Origin
  /\ callback = [c \in Connection |-> Idle]

\* The steps of the syncer that touch neither the indexer nor a callback.
SyncerAlone(step) == step /\ UNCHANGED <<indexerVars, nodeVars, callback>>

\* The node.
NodeAdopts(block) ==
  /\ Cardinality(Ancestors[block]) > Cardinality(Ancestors[tip])
  /\ tip' = block
  /\ UNCHANGED <<indexerVars, syncerVars, served, callback>>

\* The library calls the syncer, which needs bs.lock for a header only.
Called(message) ==
  [place |-> IF message.type = "forward" THEN "lock" ELSE "mutex",
   message |-> message, retriever |-> Nil]

NodeSends(message) ==
  /\ connection \in Started
  /\ isOpen[connection]
  /\ callback[connection].place = "idle"
  /\ callback' = [callback EXCEPT ![connection] = Called(message)]
  /\ served' = message.point
  /\ UNCHANGED <<indexerVars, syncerVars, tip>>

NodeSendsNext ==
  \/ \E block \in Follower!Upto(tip) \cap Block :
        Parent[block] = served /\ NodeSends(Follower!Forward(block))
  \/ /\ served \notin Follower!Upto(tip)
     /\ \E point \in Point : /\ Follower!IsNewestCommon(point, served, tip)
                             /\ NodeSends(Follower!Backward(point))

-----------------------------------------------------------------------------
\* The steps of the syncer that concern the indexer and the callbacks.

\* Mutant: nothing is received from the old connection's ErrorChan.
EndsSessionAtOnce(step) ==
  /\ step
  /\ IF connection = Nil \/ callback[connection].place # "idle" THEN UNCHANGED callback
     ELSE callback' = [callback EXCEPT ![connection].place = "ended"]
  /\ UNCHANGED <<indexerVars, nodeVars>>

\* closeConnectionNoLock, with and without a wait for the callback.
EndsSession(step) ==
  /\ step
  /\ IF connection = Nil THEN UNCHANGED callback
     ELSE LET place == callback[connection].place
          IN /\ CloseWaits => place \notin Running
             /\ callback' = [callback EXCEPT ![connection].place =
                               IF place = "idle" THEN "ended" ELSE place]
  /\ UNCHANGED <<indexerVars, nodeVars>>

\* Mutant: the session starts where the node left off, without Reset.
StartWithoutReset(t) ==
  LET point == IF latestBlockPoint = Nil THEN StartPoint ELSE Follower!Cursor
  IN /\ Syncer!StartSyncing(t)
     /\ handlerCall = Nil
     /\ point \in Follower!Upto(tip)
     /\ latestBlockPoint' = IF latestBlockPoint = Nil THEN point ELSE latestBlockPoint
     /\ UNCHANGED <<unconfirmedBlocks, handlerCall, dbVars>>
     /\ served' = point
     /\ callback' = [callback EXCEPT ![connection] = Called(Follower!Backward(point))]
     /\ UNCHANGED tip

\* Reset and the start of the session, which the node answers with a rollback
\* to the point.  They are one step: what a callback of an older connection
\* might queue in between, this rollback removes.
StartSyncing(t) ==
  LET point == Follower!ToCommonPoint(ResumePoint)
  IN /\ Syncer!StartSyncing(t)
     /\ point \in Follower!Upto(tip)
     /\ Reset
     /\ served' = point
     /\ callback' = [callback EXCEPT ![connection] = Called(Follower!Backward(point))]
     /\ UNCHANGED tip

\* The node or the database does not answer, or the node lacks the point.  Once
\* dialled, a try cannot fail, nor give bs.lock back, before Reset had bi.mutex.
TryFails(t) ==
  /\ Syncer!TryFails(t)
  /\ pc[t] = "start" => handlerCall = Nil
  /\ UNCHANGED indexerVars \/ (pc[t] = "start" /\ Reset)
  /\ UNCHANGED <<nodeVars, callback>>

SyncStep(t) ==
  \/ SyncerAlone(Syncer!CheckClosed(t))
  \/ SyncerAlone(Syncer!TakeLock(t))
  \/ EndsSession(Syncer!CloseOldConnection(t))
  \/ SyncerAlone(Syncer!Dial(t))
  \/ StartSyncing(t)
  \/ TryFails(t)
  \/ SyncerAlone(Syncer!DelayTry(t))

CloseStep(t) ==
  \/ SyncerAlone(Syncer!Close(t))
  \/ EndsSession(Syncer!CloseLastConnection(t))

-----------------------------------------------------------------------------
\* The callbacks.

IsAt(c, place) == callback[c].place = place
Moves(c, place) == callback' = [callback EXCEPT ![c].place = place]

\* rollForwardCallback makes a retriever for bs.connection under the lock; a
\* connection is there, or no callback would be.
ReadConnection(c) ==
  /\ IsAt(c, "lock")
  /\ lock = Nil
  /\ callback' = [callback EXCEPT ![c].place = "mutex", ![c].retriever = connection]
  /\ UNCHANGED <<indexerVars, syncerVars, nodeVars>>

\* The library ends the connection with the error, if it has not ended.
ReturnsError(c, error) ==
  /\ Moves(c, IF error = "fatal" /\ isOpen[c] THEN "fatal" ELSE "failed")
  /\ IF isOpen[c] THEN Syncer!ConnectionFails(c, error) ELSE UNCHANGED syncerVars
  /\ UNCHANGED nodeVars

Returns(c) == Moves(c, "idle") /\ UNCHANGED <<syncerVars, nodeVars>>

ToIndexer(c, type) == IsAt(c, "mutex") /\ callback[c].message.type = type

\* RollForwardFunc; a block can be fetched while its connection is open.
RollForward(c) ==
  LET header == callback[c].message.point
  IN /\ ToIndexer(c, "forward")
     /\ \/ QueueHeader(header) /\ Returns(c)
        \/ /\ isOpen[callback[c].retriever]
           /\ ConfirmFirst(header)
           /\ Moves(c, "handler")
           /\ UNCHANGED <<syncerVars, nodeVars>>
        \/ RollForwardFails /\ ReturnsError(c, "retry")

RollBackward(c) ==
  LET point == callback[c].message.point
  IN /\ ToIndexer(c, "backward")
     /\ \/ (RollBackToUnconfirmed(point) \/ RollBackToConfirmed(point)) /\ Returns(c)
        \/ RollBackRefused(point) /\ ReturnsError(c, "fatal")

\* Mutant: the handler's end is reported under bs.lock, while bi.mutex is held.
HandlerEndsUnderLock(c) ==
  /\ IsAt(c, "handler")
  /\ lock = Nil
  /\ \/ HandlerReturns /\ Returns(c)
     \/ HandlerFails /\ ReturnsError(c, "retry")

HandlerEnds(c) ==
  /\ IsAt(c, "handler")
  /\ \/ HandlerReturns /\ Returns(c)
     \/ HandlerFails /\ ReturnsError(c, "retry")

CallbackStep(c) ==
  \/ ReadConnection(c)
  \/ RollForward(c)
  \/ RollBackward(c)
  \/ HandlerEnds(c)

Next ==
  \/ \E block \in Block : NodeAdopts(block)
  \/ NodeSendsNext
  \/ \E c \in Connection : SyncerAlone(Syncer!ConnectionFails(c, "retry"))
  \/ \E c \in Connection : CallbackStep(c)
  \/ \E c \in Connection : SyncerAlone(Syncer!HandlerStep(c))
  \/ \E t \in Thread : SyncStep(t)
  \/ \E t \in Client : \/ SyncerAlone(Syncer!Signal(t) \/ Syncer!ReadError(t))
                       \/ CloseStep(t)

Spec == Init /\ [][Next]_vars

\* Goroutines are scheduled, delays and the handler end, and Go's mutexes
\* starve nobody.
Fairness ==
  /\ \A t \in Thread : SF_vars(SyncStep(t))
  /\ \A t \in Client : /\ SF_vars(CloseStep(t))
                       /\ WF_vars(SyncerAlone(Syncer!ReadError(t)))
  /\ \A c \in Connection : /\ SF_vars(CallbackStep(c))
                           /\ WF_vars(SyncerAlone(Syncer!HandlerStep(c)))

FairSpec == Spec /\ Fairness

-----------------------------------------------------------------------------
\* The conjuncts of the inductive invariant that are no property by themselves.
\* All but the first are about one client and a library that waits for the
\* callback.

\* Only a callback that was never called or has returned is without a message.
MessageIsThere ==
  \A c \in Connection :
     callback[c].place \notin {"idle", "ended"} => callback[c].message \in Follower!Message

Trying == {"try", "lock", "close old", "dial", "start", "delay try"}

\* Of all threads only the newest errorHandler may be in Sync, or the client
\* before there is any.
OneSyncs ==
  /\ \A c, d \in Started : c < d => pc[c] = "done"
  /\ Started # {} => \A t \in Client : pc[t] \notin Trying

RetriesAllowed ==
  \A c \in Connection : pc[c] \in Trying \cup {"delay sync"} => RestartOnError

NewestIsCurrent == connection = IF dialled = 0 THEN Nil ELSE dialled

\* The only session that may go on is that of bs.connection; it has to end
\* before there is a new connection, and its errorHandler has not tried yet.
OneSession ==
  /\ \A c \in Connection \ Started : callback[c].place \in {"idle", "ended"} /\ tries[c] = 0
  /\ \A c \in Started : callback[c].place \in Over \/ (c = connection /\ tries[c] = 0)
  /\ \A t \in Thread : pc[t] \in {"dial", "start"} =>
        \A c \in Started : callback[c].place \in Over

\* No error is there while a connection is open, or before it is.
ErrorsAreLate ==
  \A c \in Connection :
     /\ isOpen[c] => connError[c] = Nil /\ pc[c] \in {"not started", "watch", "done"}
     /\ c > dialled => connError[c] = Nil

\* After a fatal error nobody calls Sync again.
FatalEnds ==
  \A c \in FatalErrors :
     /\ pc[c] \in {"watch", "report", "done"}
     /\ ~isOpen[c] /\ connError[c] \in {Nil, "fatal"}
     /\ \A d \in Started : d <= c

-----------------------------------------------------------------------------
TypeOK ==
  /\ IndexerTypeOK
  /\ Syncer!TypeOK
  /\ tip \in Point
  /\ served \in Point
  /\ callback \in [Connection -> [place : {"idle"} \cup Running \cup Over,
                                  message : Follower!Message \cup {Nil},
                                  retriever : Connection \cup {Nil}]]

\* Seen from the indexer, the locks, channels, retries and callbacks of the
\* syncer are one session after the other, each with its messages in order
\* (module ChainFollower), when closing a connection waits for its callback.
ImplementsFollower == Follower!Spec

\* A block is fetched from the connection its header came from, although
\* rollForwardCallback takes whatever connection bs.connection is by then.
FetchesFromItsSession ==
  \A c \in Connection : callback[c].retriever \in {Nil, c}

\* The indexer's promise about its stored blocks (module ChainFollower).
ConfirmedIsChain == Follower!ConfirmedIsChain

\* A client that wants to close the syncer gets through although syncExecute
\* holds bs.lock while it waits for bi.mutex, and a callback bi.mutex while
\* the handler works (block_syncer.go, "error channel will be closed after
\* connection closing is done!").
CloseReturns == Syncer!CloseReturns

\* An error of a callback is answered: a fatal one by the end of the program and
\* nothing less, any other by that or by a new session.  It goes from the library
\* to errorHandler, which knows a fatal one by its text, may wait for the locks,
\* and from there through errorCh to the client (block_syncer.go, "retry syncing
\* again if not fatal error").
ErrorsAreAnswered ==
  \A c \in Connection :
     callback[c].place \in {"failed", "fatal"} ~>
        closed \/ (callback[c].place = "failed" /\ \E d \in Started : d > c)

\* Every callback returns: none waits for ever for bs.lock or bi.mutex.
CallbacksReturn ==
  \A c \in Connection : callback[c].place \in Running ~> callback[c].place \notin Running
=============================================================================
