------------------------- MODULE BlockSyncerProofs --------------------------
(***************************************************************************)
(* Proofs about module BlockSyncer, for any number of clients, tries and   *)
(* connections.                                                            *)
(***************************************************************************)
EXTENDS BlockSyncer, TLAPS

LEMMA Bounds ==
  /\ SyncStartTries \in Nat /\ SyncStartTries > 0
  /\ MaxConnections \in Nat
BY SyncerAssumption

LEMMA Constants ==
  /\ \A t \in Thread : t # Nil
  /\ \A c \in Connection : c \in Thread /\ c # Nil /\ c \notin Client
  /\ \A t \in Client : t \in Thread /\ t \notin Connection
BY SyncerAssumption DEF Thread

LEMMA Numbers == \A c \in Connection : c \in Nat /\ c > 0 /\ c <= MaxConnections
BY Bounds DEF Connection

LEMMA AfterSyncPlaces ==
  ASSUME NEW t \in Thread, NEW failed \in BOOLEAN
  PROVE  /\ AfterSync(t, failed) \in {"closing", "waiting", "report", "done"}
         /\ ~HasLock(AfterSync(t, failed))
         /\ ~MayTry(AfterSync(t, failed))
BY DEF AfterSync, HasLock, MayTry, Thread

\* What the inductive invariant is made of.
SyncerInv ==
  /\ TypeOK
  /\ LockIsHeld
  /\ TriesLeft
  /\ HandlersAreNew
  /\ ClosedBeforeDial
  /\ AtMostOneOpen

-----------------------------------------------------------------------------
\* Steps after which every thread but one is where it was.

\* A step of thread t from one place to another that leaves the connections
\* and the tries alone, and the lock to whom it belongs.
LEMMA MoveKeepsInv ==
  ASSUME SyncerInv,
         NEW t \in Thread, NEW place \in Place,
         place \notin {"dial", "start"},
         pc[t] # "not started", place # "not started",
         Goto(t, place),
         MayTry(place) => tries[t] < SyncStartTries,
         HasLock(place) => lock' = t,
         lock' \in Thread \cup {Nil},
         \A u \in Thread \ {t} : HasLock(pc[u]) => lock' = u,
         UNCHANGED <<connection, isOpen, dialled, tries>>,
         closed' \in BOOLEAN,
         connError' \in [Connection -> {Nil, "retry", "fatal"}],
         errorCh' \in 0..1
  PROVE  SyncerInv'
<1>1. /\ pc \in [Thread -> Place]
      /\ pc' = [pc EXCEPT ![t] = place]
  BY DEF SyncerInv, TypeOK, Goto
<1>2. TypeOK'
  BY <1>1 DEF SyncerInv, TypeOK
<1>3. LockIsHeld'
  BY <1>1 DEF LockIsHeld
<1>4. TriesLeft'
  BY <1>1 DEF SyncerInv, TriesLeft
<1>5. HandlersAreNew'
  BY <1>1, Constants DEF SyncerInv, HandlersAreNew
<1>6. ClosedBeforeDial' /\ AtMostOneOpen'
  BY <1>1 DEF SyncerInv, ClosedBeforeDial, AtMostOneOpen, Open
<1>7. QED
  BY <1>2, <1>3, <1>4, <1>5, <1>6 DEF SyncerInv

\* Closing the current connection leaves none open.
LEMMA ClosingClosesAll ==
  ASSUME SyncerInv, closeConnectionNoLock, UNCHANGED connection
  PROVE  /\ Open' = {}
         /\ isOpen' \in [Connection -> BOOLEAN]
         /\ connError' \in [Connection -> {Nil, "retry", "fatal"}]
         /\ dialled' = dialled
<1>1. TypeOK /\ Open \subseteq {connection}
  BY DEF SyncerInv, AtMostOneOpen
<1>2. CASE connection = Nil
  <2>1. UNCHANGED <<isOpen, connError, dialled>>
    BY <1>2 DEF closeConnectionNoLock, connVars
  <2>2. Open = {}
    BY <1>1, <1>2, Constants DEF Open
  <2>3. QED
    BY <1>1, <2>1, <2>2 DEF TypeOK, Open
<1>3. CASE connection # Nil
  <2>1. /\ connection \in Connection
        /\ isOpen' = [isOpen EXCEPT ![connection] = FALSE]
        /\ dialled' = dialled
        /\ \/ connError' = [connError EXCEPT ![connection] = Nil]
           \/ connError' = connError
    BY <1>1, <1>3 DEF closeConnectionNoLock, TypeOK
  <2>2. isOpen' \in [Connection -> BOOLEAN] /\ Open' = {}
    BY <1>1, <2>1 DEF TypeOK, Open
  <2>3. connError' \in [Connection -> {Nil, "retry", "fatal"}]
    BY <1>1, <2>1 DEF TypeOK
  <2>4. QED
    BY <2>1, <2>2, <2>3
<1>4. QED
  BY <1>2, <1>3

LEMMA ClosingMoveKeepsInv ==
  ASSUME SyncerInv,
         NEW t \in Thread, NEW place \in {"dial", "done"},
         closeConnectionNoLock,
         pc[t] \in {"close old", "close last"},
         place = "dial" => pc[t] = "close old" /\ UNCHANGED lock,
         place = "done" => lock' = Nil,
         Goto(t, place),
         UNCHANGED <<closed, connection, errorCh, tries>>
  PROVE  SyncerInv'
<1>1. /\ pc \in [Thread -> Place]
      /\ pc' = [pc EXCEPT ![t] = place]
  BY DEF SyncerInv, TypeOK, Goto
<1>2. lock = t /\ \A u \in Thread \ {t} : ~HasLock(pc[u])
  BY DEF SyncerInv, LockIsHeld, HasLock
<1>3. /\ Open' = {}
      /\ isOpen' \in [Connection -> BOOLEAN]
      /\ connError' \in [Connection -> {Nil, "retry", "fatal"}]
      /\ dialled' = dialled
  BY ClosingClosesAll
<1>4. TypeOK'
  BY <1>1, <1>2, <1>3 DEF SyncerInv, TypeOK, Place
<1>5. LockIsHeld'
  BY <1>1, <1>2 DEF LockIsHeld, HasLock
<1>6. TriesLeft'
  BY <1>1 DEF SyncerInv, TriesLeft, MayTry
<1>7. HandlersAreNew'
  BY <1>1, <1>3, Constants DEF SyncerInv, HandlersAreNew
<1>8. ClosedBeforeDial' /\ AtMostOneOpen'
  BY <1>3 DEF ClosedBeforeDial, AtMostOneOpen
<1>9. QED
  BY <1>4, <1>5, <1>6, <1>7, <1>8 DEF SyncerInv

-----------------------------------------------------------------------------
\* The steps that change more.

LEMMA FailureKeepsInv ==
  ASSUME SyncerInv, NEW c \in Connection, NEW error \in {"retry", "fatal"},
         ConnectionFails(c, error)
  PROVE  SyncerInv'
<1>1. /\ isOpen' = [isOpen EXCEPT ![c] = FALSE]
      /\ connError' = [connError EXCEPT ![c] = error]
      /\ UNCHANGED <<lock, closed, connection, dialled, errorCh, pc, tries>>
  BY DEF ConnectionFails, sharedVars
<1>2. TypeOK'
  BY <1>1 DEF SyncerInv, TypeOK
<1>3. Open' \subseteq Open
  BY <1>1 DEF SyncerInv, TypeOK, Open
<1>4. LockIsHeld' /\ TriesLeft' /\ HandlersAreNew'
  BY <1>1 DEF SyncerInv, LockIsHeld, TriesLeft, HandlersAreNew
<1>5. ClosedBeforeDial' /\ AtMostOneOpen'
  BY <1>1, <1>3 DEF SyncerInv, ClosedBeforeDial, AtMostOneOpen
<1>6. QED
  BY <1>2, <1>4, <1>5 DEF SyncerInv

LEMMA DialKeepsInv ==
  ASSUME SyncerInv, NEW t \in Thread, Dial(t)
  PROVE  SyncerInv'
<1>1. /\ pc[t] = "dial"
      /\ pc \in [Thread -> Place]
      /\ pc' = [pc EXCEPT ![t] = "start"]
      /\ isOpen' = [isOpen EXCEPT ![dialled + 1] = TRUE]
      /\ connection' = dialled + 1
      /\ dialled' = dialled + 1
      /\ UNCHANGED <<lock, closed, connError, errorCh, tries>>
  BY DEF Dial, Goto, SyncerInv, TypeOK
<1>2. /\ dialled \in Nat /\ dialled + 1 \in Connection
      /\ dialled + 1 \in 0..MaxConnections
  BY Bounds DEF Dial, SyncerInv, TypeOK, Connection
<1>3. lock = t /\ \A u \in Thread \ {t} : ~HasLock(pc[u])
  BY <1>1 DEF SyncerInv, LockIsHeld, HasLock
<1>4. Open = {}
  BY <1>1 DEF SyncerInv, ClosedBeforeDial
<1>5. TypeOK'
  BY <1>1, <1>2 DEF SyncerInv, TypeOK, Place
<1>6. LockIsHeld'
  BY <1>1, <1>3 DEF LockIsHeld
<1>7. TriesLeft'
  BY <1>1 DEF SyncerInv, TriesLeft, MayTry
<1>8. HandlersAreNew'
  <2>1. pc[dialled + 1] = "not started" /\ dialled + 1 # t
    <3>1. dialled + 1 > dialled
      BY <1>2
    <3>2. pc[dialled + 1] = "not started"
      BY <1>2, <3>1 DEF SyncerInv, HandlersAreNew
    <3>3. QED
      BY <1>1, <3>2
  <2>2. ASSUME NEW c \in Connection, c > dialled + 1
        PROVE  pc'[c] = "not started"
    <3>1. c > dialled
      BY <1>2, <2>2, Numbers
    <3>2. pc[c] = "not started"
      BY <3>1 DEF SyncerInv, HandlersAreNew
    <3>3. c # t /\ c \in Thread
      BY <1>1, <3>2, Constants
    <3>4. QED
      BY <1>1, <3>2, <3>3
  <2>3. pc'[dialled + 1] = "not started"
    BY <1>1, <1>2, <2>1, Constants
  <2>5. connection' \in Connection /\ connection' <= dialled'
    BY <1>1, <1>2
  <2>6. \A c \in Connection : c > dialled' => pc'[c] = "not started"
    BY <1>1, <2>2
  <2>7. \A u \in Thread : pc'[u] = "start" => pc'[connection'] = "not started"
    BY <1>1, <2>3
  <2>8. QED
    BY <2>5, <2>6, <2>7 DEF HandlersAreNew
<1>9. Open' = {dialled + 1}
  BY <1>1, <1>2, <1>4 DEF SyncerInv, TypeOK, Open
<1>10. ClosedBeforeDial'
  BY <1>1, <1>3 DEF ClosedBeforeDial, HasLock
<1>11. QED
  BY <1>1, <1>5, <1>6, <1>7, <1>8, <1>9, <1>10 DEF SyncerInv, AtMostOneOpen

LEMMA StartKeepsInv ==
  ASSUME SyncerInv, NEW t \in Thread, StartSyncing(t)
  PROVE  SyncerInv'
<1>1. /\ pc[t] = "start"
      /\ pc \in [Thread -> Place]
      /\ pc' = [pc EXCEPT ![connection] = "watch", ![t] = AfterSync(t, FALSE)]
      /\ lock' = Nil
      /\ UNCHANGED <<closed, connection, isOpen, connError, dialled, errorCh, tries>>
  BY DEF StartSyncing, SyncerInv, TypeOK, connVars
<1>2. /\ connection \in Connection /\ connection \in Thread
      /\ pc[connection] = "not started" /\ connection # t
      /\ connection <= dialled
  <2>1. connection \in Connection /\ pc[connection] = "not started"
    BY <1>1 DEF SyncerInv, HandlersAreNew
  <2>2. connection <= dialled
    BY <2>1 DEF SyncerInv, HandlersAreNew
  <2>3. QED
    BY <1>1, <2>1, <2>2, Constants
<1>3. \A u \in Thread \ {t} : ~HasLock(pc[u])
  BY <1>1 DEF SyncerInv, LockIsHeld, HasLock
<1>4. AfterSync(t, FALSE) \in {"closing", "waiting", "report", "done"}
  BY AfterSyncPlaces
<1>5. \A u \in Thread : pc'[u] = IF u = t THEN AfterSync(t, FALSE)
                                 ELSE IF u = connection THEN "watch" ELSE pc[u]
  BY <1>1, <1>2
<1>6. TypeOK'
  BY <1>1, <1>4, <1>5 DEF SyncerInv, TypeOK, Place
<1>7. LockIsHeld'
  BY <1>3, <1>4, <1>5 DEF LockIsHeld, HasLock
<1>8. TriesLeft'
  BY <1>1, <1>2, <1>4, <1>5 DEF SyncerInv, TriesLeft, MayTry
<1>9. HandlersAreNew'
  <2>1. \A u \in Thread : pc'[u] # "start"
    BY <1>3, <1>4, <1>5 DEF HasLock
  <2>2. \A c \in Connection : c > dialled => pc[c] = "not started"
    BY DEF SyncerInv, HandlersAreNew
  <2>3. dialled \in Nat
    BY Bounds DEF SyncerInv, TypeOK
  <2>4. ASSUME NEW c \in Connection, c > dialled
        PROVE  c # t /\ c # connection
    <3>1. pc[c] = "not started"
      BY <2>2, <2>4
    <3>2. c # t
      BY <1>1, <3>1
    <3>3. ~(c <= dialled)
      BY <2>3, <2>4, Numbers
    <3>4. QED
      BY <1>2, <3>2, <3>3
  <2>5. \A c \in Connection : c > dialled => pc'[c] = "not started"
    BY <1>5, <2>2, <2>4, Constants
  <2>6. connection <= dialled
    BY <1>2
  <2>7. QED
    BY <1>1, <2>1, <2>5, <2>6 DEF HandlersAreNew
<1>10. ClosedBeforeDial' /\ AtMostOneOpen'
  BY <1>1, <1>4, <1>5 DEF SyncerInv, ClosedBeforeDial, AtMostOneOpen, Open
<1>11. QED
  BY <1>6, <1>7, <1>8, <1>9, <1>10 DEF SyncerInv

LEMMA FailedTryKeepsInv ==
  ASSUME SyncerInv, NEW t \in Thread, TryFails(t)
  PROVE  SyncerInv'
<1>1. /\ pc[t] \in {"dial", "start"}
      /\ pc \in [Thread -> Place]
      /\ pc' = [pc EXCEPT ![t] = "delay try"]
      /\ tries' = [tries EXCEPT ![t] = tries[t] + 1]
      /\ lock' = Nil
      /\ UNCHANGED <<closed, connection, isOpen, connError, dialled, errorCh>>
  BY DEF TryFails, Goto, SyncerInv, TypeOK, connVars
<1>2. \A u \in Thread \ {t} : ~HasLock(pc[u])
  BY <1>1 DEF SyncerInv, LockIsHeld, HasLock
<1>3. tries[t] < SyncStartTries /\ tries[t] \in 0..SyncStartTries
  <2>1. MayTry(pc[t])
    BY <1>1 DEF MayTry
  <2>2. QED
    BY <2>1 DEF SyncerInv, TriesLeft, TypeOK
<1>4. TypeOK'
  <2>1. tries[t] + 1 \in 0..SyncStartTries
    BY <1>3, Bounds
  <2>2. tries' \in [Thread -> 0..SyncStartTries]
    BY <1>1, <2>1 DEF SyncerInv, TypeOK
  <2>3. pc' \in [Thread -> Place]
    BY <1>1 DEF Place
  <2>4. QED
    BY <1>1, <2>2, <2>3 DEF SyncerInv, TypeOK
<1>5. LockIsHeld'
  BY <1>1, <1>2 DEF LockIsHeld, HasLock
<1>6. TriesLeft'
  BY <1>1 DEF SyncerInv, TriesLeft, MayTry, TypeOK
<1>7. HandlersAreNew'
  BY <1>1, Constants DEF SyncerInv, HandlersAreNew
<1>8. ClosedBeforeDial' /\ AtMostOneOpen'
  BY <1>1 DEF SyncerInv, ClosedBeforeDial, AtMostOneOpen, Open
<1>9. QED
  BY <1>4, <1>5, <1>6, <1>7, <1>8 DEF SyncerInv

-----------------------------------------------------------------------------
LEMMA InitInv == Init => SyncerInv
<1> SUFFICES ASSUME Init PROVE SyncerInv
  OBVIOUS
<1>1. TypeOK
  <2>1. pc \in [Thread -> Place]
    BY DEF Init, Place
  <2>2. tries \in [Thread -> 0..SyncStartTries] /\ dialled \in 0..MaxConnections
    <3>1. tries = [t \in Thread |-> 0] /\ dialled = 0
      BY DEF Init
    <3>2. 0 \in 0..SyncStartTries /\ 0 \in 0..MaxConnections
      BY Bounds
    <3>3. QED
      BY <3>1, <3>2
  <2>3. /\ isOpen \in [Connection -> BOOLEAN]
        /\ connError \in [Connection -> {Nil, "retry", "fatal"}]
        /\ lock \in Thread \cup {Nil} /\ connection \in Connection \cup {Nil}
        /\ closed \in BOOLEAN /\ errorCh \in 0..1
    <3>1. isOpen = [c \in Connection |-> FALSE] /\ connError = [c \in Connection |-> Nil]
      BY DEF Init
    <3>2. lock = Nil /\ connection = Nil /\ closed = FALSE /\ errorCh = 0
      BY DEF Init
    <3>3. isOpen \in [Connection -> BOOLEAN]
      BY <3>1, FALSE \in BOOLEAN
    <3>4. connError \in [Connection -> {Nil, "retry", "fatal"}]
      BY <3>1, Nil \in {Nil, "retry", "fatal"}
    <3>5. closed \in BOOLEAN
      BY <3>2, Zenon
    <3>6. errorCh \in 0..1
      BY <3>2
    <3>7. QED
      BY <3>2, <3>3, <3>4, <3>5, <3>6, Zenon
  <2>4. QED
    BY <2>1, <2>2, <2>3 DEF TypeOK
<1>2. LockIsHeld /\ TriesLeft
  <2>1. \A t \in Thread : pc[t] \in {"try", "not started"} /\ tries[t] = 0
    BY DEF Init
  <2>2. LockIsHeld
    BY <2>1 DEF LockIsHeld, HasLock
  <2>3. TriesLeft
    BY <2>1, Bounds DEF TriesLeft
  <2>4. QED
    BY <2>2, <2>3
<1>5. HandlersAreNew
  <2>1. /\ \A t \in Thread : pc[t] # "start"
        /\ \A c \in Connection : pc[c] = "not started"
        /\ connection \notin Connection
    BY Constants DEF Init
  <2>2. QED
    BY <2>1 DEF HandlersAreNew
<1>3. ClosedBeforeDial /\ AtMostOneOpen
  BY DEF Init, ClosedBeforeDial, AtMostOneOpen, Open
<1>6. QED
  BY <1>1, <1>2, <1>3, <1>5 DEF SyncerInv

LEMMA SyncStepInv ==
  ASSUME SyncerInv, NEW t \in Thread, SyncStep(t)
  PROVE  SyncerInv'
<1>0. /\ TypeOK /\ LockIsHeld /\ TriesLeft
  BY DEF SyncerInv
<1> USE DEF sharedVars, connVars
<1>1. CASE CheckClosed(t)
  <2> DEFINE place == IF closed THEN AfterSync(t, FALSE) ELSE "lock"
  <2>1. place \in {"closing", "waiting", "report", "done", "lock"}
    BY AfterSyncPlaces
  <2>2. place \in Place /\ ~HasLock(place) /\ place \notin {"dial", "start", "not started"}
    BY <2>1 DEF Place, HasLock
  <2>3. tries[t] < SyncStartTries /\ pc[t] = "try"
    BY <1>0, <1>1 DEF CheckClosed, TriesLeft, MayTry
  <2>4. Goto(t, place) /\ UNCHANGED <<lock, closed, connection, isOpen, connError, dialled, errorCh, tries>>
    BY <1>1 DEF CheckClosed
  <2> HIDE DEF place
  <2>5. QED
    BY <1>0, <2>2, <2>3, <2>4, MoveKeepsInv DEF TypeOK, LockIsHeld
<1>2. CASE TakeLock(t)
  <2>1. \A u \in Thread : ~HasLock(pc[u])
    BY <1>0, <1>2, Constants DEF TakeLock, LockIsHeld
  <2>2. tries[t] < SyncStartTries /\ pc[t] = "lock"
    BY <1>0, <1>2 DEF TakeLock, TriesLeft, MayTry
  <2>3. Goto(t, "close old") /\ lock' = t
        /\ UNCHANGED <<closed, connection, isOpen, connError, dialled, errorCh, tries>>
    BY <1>2 DEF TakeLock
  <2>4. "close old" \in Place
    BY DEF Place
  <2>5. QED
    BY <1>0, <2>1, <2>2, <2>3, <2>4, MoveKeepsInv DEF TypeOK
<1>3. CASE CloseOldConnection(t)
  BY <1>3, ClosingMoveKeepsInv DEF CloseOldConnection
<1>4. CASE Dial(t)
  BY <1>4, DialKeepsInv
<1>5. CASE StartSyncing(t)
  BY <1>5, StartKeepsInv
<1>6. CASE TryFails(t)
  BY <1>6, FailedTryKeepsInv
<1>7. CASE DelayTry(t)
  <2>1. PICK place \in {AfterSync(t, TRUE), "try"} :
          Goto(t, place) /\ (place = "try" => tries[t] < SyncStartTries)
    <3>1. AfterSync(t, TRUE) # "try"
      BY AfterSyncPlaces
    <3>2. Goto(t, AfterSync(t, TRUE)) \/ (Goto(t, "try") /\ tries[t] < SyncStartTries)
      BY <1>7 DEF DelayTry
    <3>3. QED
      BY <3>1, <3>2
  <2>2. place \in {"closing", "waiting", "report", "done", "try"}
    BY AfterSyncPlaces
  <2>3. /\ place \in Place /\ ~HasLock(place)
        /\ place \notin {"dial", "start", "not started"}
        /\ MayTry(place) => place = "try"
    BY <2>2 DEF Place, HasLock, MayTry
  <2>4. pc[t] = "delay try"
        /\ UNCHANGED <<lock, closed, connection, isOpen, connError, dialled, errorCh, tries>>
    BY <1>7 DEF DelayTry
  <2>5. QED
    BY <1>0, <2>1, <2>3, <2>4, MoveKeepsInv DEF TypeOK, LockIsHeld
<1>8. QED
  BY <1>1, <1>2, <1>3, <1>4, <1>5, <1>6, <1>7 DEF SyncStep

LEMMA HandlerStepInv ==
  ASSUME SyncerInv, NEW c \in Connection, HandlerStep(c)
  PROVE  SyncerInv'
<1>0. /\ TypeOK /\ LockIsHeld /\ TriesLeft /\ c \in Thread
  BY Constants DEF SyncerInv
<1>1. PICK place \in {"done", "delay sync", "report", "try"} :
        /\ Goto(c, place)
        /\ pc[c] \in {"watch", "delay sync", "report"}
        /\ place \in {"delay sync", "try"} => pc[c] \in {"watch", "delay sync"}
        /\ errorCh' \in 0..1
        /\ connError' \in [Connection -> {Nil, "retry", "fatal"}]
        /\ UNCHANGED <<lock, closed, connection, isOpen, dialled, tries>>
  <2> USE <1>0 DEF sharedVars, connVars, TypeOK
  <2>1. CASE StopWatching(c)
    BY <2>1 DEF StopWatching
  <2>2. CASE TakeError(c)
    BY <2>2 DEF TakeError
  <2>3. CASE DelaySync(c)
    BY <2>3 DEF DelaySync
  <2>4. CASE Report(c)
    BY <2>4 DEF Report
  <2>5. QED
    BY <2>1, <2>2, <2>3, <2>4 DEF HandlerStep
<1>2. place \in {"delay sync", "try"} => tries[c] < SyncStartTries
  BY <1>0, <1>1 DEF TriesLeft, MayTry
<1>3. /\ place \in Place /\ ~HasLock(place)
      /\ place \notin {"dial", "start", "not started"}
      /\ MayTry(place) => place \in {"delay sync", "try"}
  BY <1>1 DEF Place, HasLock, MayTry
<1>4. QED
  BY <1>0, <1>1, <1>2, <1>3, MoveKeepsInv DEF TypeOK, LockIsHeld

LEMMA ClientStepInv ==
  ASSUME SyncerInv, NEW t \in Client, Signal(t) \/ ReadError(t) \/ CloseStep(t)
  PROVE  SyncerInv'
<1>0. /\ TypeOK /\ LockIsHeld /\ TriesLeft /\ t \in Thread
  BY Constants DEF SyncerInv
<1>1. CASE Signal(t) \/ ReadError(t)
  <2>1. /\ Goto(t, "closing")
        /\ errorCh' \in 0..1
        /\ UNCHANGED <<lock, closed, connection, isOpen, connError, dialled, tries>>
    BY <1>0, <1>1 DEF Signal, ReadError, sharedVars, connVars, TypeOK
  <2>2. pc[t] = "waiting"
    BY <1>1 DEF Signal, ReadError
  <2>3. "closing" \in Place /\ ~HasLock("closing") /\ ~MayTry("closing")
    BY DEF Place, HasLock, MayTry
  <2>4. QED
    BY <1>0, <2>1, <2>2, <2>3, MoveKeepsInv DEF TypeOK, LockIsHeld
<1>4. CASE Close(t) /\ closed
  <2>1. closed' = TRUE
    BY <1>4 DEF Close
  <2>2. Goto(t, "done") /\ lock' = lock
    BY <1>4 DEF Close
  <2>3. UNCHANGED <<connection, isOpen, connError, dialled, errorCh, tries>>
    BY <1>4 DEF Close, connVars
  <2>4. pc[t] = "closing"
    BY <1>4 DEF Close
  <2>5. "done" \in Place /\ ~HasLock("done") /\ ~MayTry("done")
    BY DEF Place, HasLock, MayTry
  <2>6. QED
    BY <1>0, <2>1, <2>2, <2>3, <2>4, <2>5, MoveKeepsInv DEF TypeOK, LockIsHeld
<1>2. CASE Close(t) /\ ~closed
  <2>1. \A u \in Thread : ~HasLock(pc[u])
    BY <1>0, <1>2, Constants DEF Close, LockIsHeld
  <2>2. /\ Goto(t, "close last") /\ lock' = t /\ closed' = TRUE /\ pc[t] = "closing"
        /\ UNCHANGED <<connection, isOpen, connError, dialled, errorCh, tries>>
    BY <1>2 DEF Close, connVars
  <2>3. "close last" \in Place /\ ~MayTry("close last")
    BY DEF Place, MayTry
  <2>4. QED
    BY <1>0, <2>1, <2>2, <2>3, MoveKeepsInv DEF TypeOK
<1>3. CASE CloseLastConnection(t)
  BY <1>0, <1>3, ClosingMoveKeepsInv DEF CloseLastConnection
<1>5. QED
  BY <1>1, <1>2, <1>3, <1>4 DEF CloseStep

LEMMA InvIsInductive == SyncerInv /\ [Next]_vars => SyncerInv'
<1> SUFFICES ASSUME SyncerInv, [Next]_vars PROVE SyncerInv'
  OBVIOUS
<1>1. CASE UNCHANGED vars
  BY <1>1 DEF vars, sharedVars, connVars, SyncerInv, TypeOK, LockIsHeld, TriesLeft,
              HandlersAreNew, ClosedBeforeDial, AtMostOneOpen, Open
<1>2. CASE Next
  BY <1>2, FailureKeepsInv, SyncStepInv, HandlerStepInv, ClientStepInv DEF Next
<1>3. QED
  BY <1>1, <1>2

\* The state of the syncer has its type; in particular no call of Sync tries
\* more often than SyncStartTries and errorCh never holds a second error.
THEOREM TypeCorrect == Spec => []TypeOK
<1>1. SyncerInv => TypeOK
  BY DEF SyncerInv
<1>2. QED
  BY <1>1, InitInv, InvIsInductive, PTL DEF Spec

\* However many goroutines call Sync and Close, however sessions fail and are
\* restarted, the syncer has at most one open connection: bs.connection.
THEOREM OneConnectionAtMost == Spec => []AtMostOneOpen
<1>1. SyncerInv => AtMostOneOpen
  BY DEF SyncerInv
<1>2. QED
  BY <1>1, InitInv, InvIsInductive, PTL DEF Spec
=============================================================================
