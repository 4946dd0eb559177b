---------------------------- MODULE BlockSyncer -----------------------------
(***************************************************************************)
(* The goroutines of core/block_syncer.go: the clients that call Sync and, *)
(* later, Close as main.go does, and the errorHandler every session leaves *)
(* behind, which calls Sync again when the session fails.  They share      *)
(* bs.connection under bs.lock, closeCh, and the errorCh of one place.     *)
(*                                                                         *)
(* The connection library is external: a connection that fails or is      *)
(* closed offers at most one error on its channel and then closes it.  A   *)
(* thread is a client or an errorHandler, named by its connection.         *)
(***************************************************************************)
EXTENDS Naturals, FiniteSets

CONSTANTS
  Client,          \* goroutines that use the syncer
  Nil,             \* Go's nil, and the owner of a free lock
  RestartOnError,  \* from the configuration
  SyncStartTries,  \* from the configuration, 4 when it gives none
  MaxConnections   \* bound: connections that are ever established

Connection == 1..MaxConnections
Thread == Client \cup Connection

ASSUME SyncerAssumption ==
  /\ Client \cap Connection = {}
  /\ Nil \notin Thread
  /\ RestartOnError \in BOOLEAN
  /\ SyncStartTries \in Nat \ {0}
  /\ MaxConnections \in Nat

VARIABLES
  lock,        \* who holds bs.lock
  closed,      \* bs.isClosed, and whether closeCh is closed
  connection,  \* bs.connection
  isOpen,      \* of each connection
  connError,   \* the error a connection's channel offers, or Nil
  dialled,     \* how many connections were established
  errorCh,     \* how many errors wait for the client in bs.errorCh
  pc,          \* where a thread is
  tries        \* failed tries of a thread's call of Sync

sharedVars == <<lock, closed, connection>>
connVars == <<isOpen, connError, dialled>>
vars == <<sharedVars, connVars, errorCh, pc, tries>>

Goto(thread, place) == pc' = [pc EXCEPT ![thread] = place]

Init ==
  /\ lock = Nil
  /\ closed = FALSE
  /\ connection = Nil
  /\ isOpen = [c \in Connection |-> FALSE]
  /\ connError = [c \in Connection |-> Nil]
  /\ dialled = 0
  /\ errorCh = 0
  /\ pc = [t \in Thread |-> IF t \in Client THEN "try" ELSE "not started"]
  /\ tries = [t \in Thread |-> 0]

\* The library: a connection breaks, or a callback's error ends it.
ConnectionFails(c, error) ==
  /\ isOpen[c]
  /\ isOpen' = [isOpen EXCEPT ![c] = FALSE]
  /\ connError' = [connError EXCEPT ![c] = error]
  /\ UNCHANGED <<sharedVars, dialled, errorCh, pc, tries>>

\* closeConnectionNoLock, with the lock held.  It waits for the channel of
\* the connection, and may find the error there instead of the handler; it
\* does not look when closing reports an error.  bs.connection keeps it.
closeConnectionNoLock ==
  IF connection = Nil
    THEN UNCHANGED connVars
    ELSE /\ isOpen' = [isOpen EXCEPT ![connection] = FALSE]
         /\ \/ connError' = [connError EXCEPT ![connection] = Nil]
            \/ UNCHANGED connError
         /\ UNCHANGED dialled

-----------------------------------------------------------------------------
\* Sync, called by a client or by an errorHandler.

\* Mutant: an errorHandler forgets the error Sync returns to it.
AfterSyncForgotten(thread, failed) ==
  CASE thread \in Client /\ failed -> "closing"
    [] thread \in Client /\ ~failed -> "waiting"
    [] thread \in Connection -> "done"

\* Where the caller goes on when Sync returns.
AfterSync(thread, failed) ==
  CASE thread \in Client /\ failed -> "closing"
    [] thread \in Client /\ ~failed -> "waiting"
    [] thread \in Connection /\ failed -> "report"
    [] thread \in Connection /\ ~failed -> "done"

\* syncExecute looks at closeCh before it has the lock.
CheckClosed(t) ==
  /\ pc[t] = "try"
  /\ Goto(t, IF closed THEN AfterSync(t, FALSE) ELSE "lock")
  /\ UNCHANGED <<sharedVars, connVars, errorCh, tries>>

\* Mutant: syncExecute does not wait for the lock.
EnterAnyway(t) ==
  /\ pc[t] = "lock"
  /\ lock' = t
  /\ Goto(t, "close old")
  /\ UNCHANGED <<closed, connection, connVars, errorCh, tries>>

TakeLock(t) ==
  /\ pc[t] = "lock"
  /\ lock = Nil
  /\ lock' = t
  /\ Goto(t, "close old")
  /\ UNCHANGED <<closed, connection, connVars, errorCh, tries>>

CloseOldConnection(t) ==
  /\ pc[t] = "close old"
  /\ closeConnectionNoLock
  /\ Goto(t, "dial")
  /\ UNCHANGED <<sharedVars, errorCh, tries>>

Dial(t) ==
  /\ pc[t] = "dial"
  /\ dialled < MaxConnections
  /\ dialled' = dialled + 1
  /\ isOpen' = [isOpen EXCEPT ![dialled + 1] = TRUE]
  /\ connection' = dialled + 1
  /\ Goto(t, "start")
  /\ UNCHANGED <<lock, closed, connError, errorCh, tries>>

\* The node has the point, and an errorHandler watches the connection.
StartSyncing(t) ==
  /\ pc[t] = "start"
  /\ pc' = [pc EXCEPT ![connection] = "watch", ![t] = AfterSync(t, FALSE)]
  /\ lock' = Nil
  /\ UNCHANGED <<closed, connection, connVars, errorCh, tries>>

\* Mutant: a failed dial returns with the lock held.
TryFailsLocked(t) ==
  /\ pc[t] \in {"dial", "start"}
  /\ lock' = IF pc[t] = "dial" THEN lock ELSE Nil
  /\ Goto(t, "delay try")
  /\ tries' = [tries EXCEPT ![t] = @ + 1]
  /\ UNCHANGED <<closed, connection, connVars, errorCh>>

\* Dial fails, or Reset or the ChainSync client does.  The connection that
\* was established in between stays open, and nobody watches it.
TryFails(t) ==
  /\ pc[t] \in {"dial", "start"}
  /\ lock' = Nil
  /\ Goto(t, "delay try")
  /\ tries' = [tries EXCEPT ![t] = @ + 1]
  /\ UNCHANGED <<closed, connection, connVars, errorCh>>

\* Mutant: one try more than configured.
DelayTryOnceMore(t) ==
  /\ pc[t] = "delay try"
  /\ \/ closed /\ Goto(t, AfterSync(t, TRUE))
     \/ tries[t] <= SyncStartTries /\ Goto(t, "try")
     \/ tries[t] > SyncStartTries /\ Goto(t, AfterSync(t, TRUE))
  /\ UNCHANGED <<sharedVars, connVars, errorCh, tries>>

\* The delay after every failed try, the last one too.
DelayTry(t) ==
  /\ pc[t] = "delay try"
  /\ \/ closed /\ Goto(t, AfterSync(t, TRUE))
     \/ tries[t] < SyncStartTries /\ Goto(t, "try")
     \/ tries[t] = SyncStartTries /\ Goto(t, AfterSync(t, TRUE))
  /\ UNCHANGED <<sharedVars, connVars, errorCh, tries>>

-----------------------------------------------------------------------------
\* errorHandler.

\* Mutant: the handler does not listen to closeCh.
StopOnConnectionOnly(c) ==
  /\ pc[c] = "watch"
  /\ ~isOpen[c] /\ connError[c] = Nil
  /\ Goto(c, "done")
  /\ UNCHANGED <<sharedVars, connVars, errorCh, tries>>

\* The syncer is closed, or the connection is without an error.
StopWatching(c) ==
  /\ pc[c] = "watch"
  /\ closed \/ (~isOpen[c] /\ connError[c] = Nil)
  /\ Goto(c, "done")
  /\ UNCHANGED <<sharedVars, connVars, errorCh, tries>>

\* Mutant: a fatal error is not recognised, as errors.Is would fail to.
TakeErrorAsAny(c) ==
  /\ pc[c] = "watch"
  /\ connError[c] # Nil
  /\ Goto(c, IF RestartOnError THEN "delay sync" ELSE "report")
  /\ connError' = [connError EXCEPT ![c] = Nil]
  /\ UNCHANGED <<sharedVars, isOpen, dialled, errorCh, tries>>

TakeError(c) ==
  /\ pc[c] = "watch"
  /\ connError[c] # Nil
  /\ Goto(c, IF connError[c] # "fatal" /\ RestartOnError THEN "delay sync" ELSE "report")
  /\ connError' = [connError EXCEPT ![c] = Nil]
  /\ UNCHANGED <<sharedVars, isOpen, dialled, errorCh, tries>>

DelaySync(c) ==
  /\ pc[c] = "delay sync"
  /\ \/ closed /\ Goto(c, "done")
     \/ Goto(c, "try")
  /\ UNCHANGED <<sharedVars, connVars, errorCh, tries>>

\* Sending to errorCh waits while the last error has not been read.
Report(c) ==
  /\ pc[c] = "report"
  /\ errorCh = 0
  /\ errorCh' = 1
  /\ Goto(c, "done")
  /\ UNCHANGED <<sharedVars, connVars, tries>>

-----------------------------------------------------------------------------
\* A client, as main.go and the tests: Sync, wait for a reason to end, Close.

Signal(t) ==
  /\ pc[t] = "waiting"
  /\ Goto(t, "closing")
  /\ UNCHANGED <<sharedVars, connVars, errorCh, tries>>

ReadError(t) ==
  /\ pc[t] = "waiting"
  /\ errorCh = 1
  /\ errorCh' = 0
  /\ Goto(t, "closing")
  /\ UNCHANGED <<sharedVars, connVars, tries>>

\* The lock is taken, and given back when the syncer is closed already.
Close(t) ==
  /\ pc[t] = "closing"
  /\ lock = Nil
  /\ lock' = IF closed THEN Nil ELSE t
  /\ closed' = TRUE
  /\ Goto(t, IF closed THEN "done" ELSE "close last")
  /\ UNCHANGED <<connection, connVars, errorCh, tries>>

CloseLastConnection(t) ==
  /\ pc[t] = "close last"
  /\ closeConnectionNoLock
  /\ lock' = Nil
  /\ Goto(t, "done")
  /\ UNCHANGED <<closed, connection, errorCh, tries>>

SyncStep(t) ==
  \/ CheckClosed(t)
  \/ TakeLock(t)
  \/ CloseOldConnection(t)
  \/ Dial(t)
  \/ StartSyncing(t)
  \/ TryFails(t)
  \/ DelayTry(t)

HandlerStep(c) ==
  \/ StopWatching(c)
  \/ TakeError(c)
  \/ DelaySync(c)
  \/ Report(c)

CloseStep(t) ==
  \/ Close(t)
  \/ CloseLastConnection(t)

Next ==
  \/ \E c \in Connection, error \in {"retry", "fatal"} : ConnectionFails(c, error)
  \/ \E t \in Thread : SyncStep(t)
  \/ \E c \in Connection : HandlerStep(c)
  \/ \E t \in Client : Signal(t) \/ ReadError(t) \/ CloseStep(t)

Spec == Init /\ [][Next]_vars

\* Goroutines are scheduled, delays end, a dial succeeds or fails, and the
\* mutex starves nobody.  No signal, failure or success is promised.
Fairness ==
  /\ \A t \in Thread : WF_vars(SyncStep(t)) /\ SF_vars(TakeLock(t))
  /\ \A c \in Connection : WF_vars(HandlerStep(c))
  /\ \A t \in Client : WF_vars(ReadError(t)) /\ SF_vars(CloseStep(t))

FairSpec == Spec /\ Fairness

-----------------------------------------------------------------------------
Place == {"not started", "try", "lock", "close old", "dial", "start", "delay try",
          "watch", "delay sync", "report", "waiting", "closing", "close last", "done"}

\* The conjuncts of the inductive invariant that are no property by themselves.

\* Who is between taking and releasing the lock holds it.
HasLock(place) == place \in {"close old", "dial", "start", "close last"}
LockIsHeld == \A t \in Thread : HasLock(pc[t]) => lock = t

\* Whoever may still try has a try left.
MayTry(place) == place \in {"not started", "try", "lock", "close old", "dial", "start",
                            "watch", "delay sync"}
TriesLeft == \A t \in Thread : MayTry(pc[t]) => tries[t] < SyncStartTries

\* No errorHandler is there before its connection is.
HandlersAreNew ==
  /\ connection \in Connection => connection <= dialled
  /\ \A c \in Connection : c > dialled => pc[c] = "not started"
  /\ \A t \in Thread : pc[t] = "start" =>
        connection \in Connection /\ pc[connection] = "not started"

Open == {c \in Connection : isOpen[c]}

ClosedBeforeDial == \A t \in Thread : pc[t] = "dial" => Open = {}

-----------------------------------------------------------------------------
TypeOK ==
  /\ lock \in Thread \cup {Nil}
  /\ closed \in BOOLEAN
  /\ connection \in Connection \cup {Nil}
  /\ isOpen \in [Connection -> BOOLEAN]
  /\ connError \in [Connection -> {Nil, "retry", "fatal"}]
  /\ dialled \in 0..MaxConnections
  /\ errorCh \in 0..1
  /\ pc \in [Thread -> Place]
  /\ tries \in [Thread -> 0..SyncStartTries]

\* The node never sees two connections of one syncer, and the one there is is
\* the one Close would close (block_syncer.go, "two syncExecute calls should
\* not run in parallel").
AtMostOneOpen == Open \subseteq {connection}

\* Once Close has returned the syncer has no connection (block_syncer.go, "if
\* the syncer is closed in the meantime -> quit").
NoConnectionAfterClose ==
  (\E t \in Client : pc[t] = "done") => Open = {}

\* A session that fails is not forgotten: in the end the syncer is closed, or
\* its connection is open and an errorHandler watches it.
StaysInSync ==
  <>[](closed \/ \E c \in Open : c = connection /\ pc[c] = "watch")

\* A client that wants to close the syncer gets through, although retries
\* hold the lock while they connect.
CloseReturns == \A t \in Client : pc[t] = "closing" ~> pc[t] = "done"

\* When the syncer is closed no errorHandler stays behind, waiting for its
\* connection, for a delay or for the lock.  The exception is one that has an
\* error to report while nobody has read the last one: errorCh holds one.
HandlersEnd ==
  closed ~> [](\A c \in Connection : \/ pc[c] \in {"not started", "done"}
                                     \/ pc[c] = "report" /\ errorCh = 1)
=============================================================================
