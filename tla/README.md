# A TLA+ model of cardano-go-indexer

This directory holds a formal model of the Cardano indexer in `src/`: TLA+
modules, the configurations with which TLC checks them on small instances, and
theorems about them whose proofs TLAPS checks for every value of the constants.

The indexer opens a ChainSync session with a Cardano node, waits until a block
has enough children, stores the transactions and outputs its user cares about
and hands them to a handler.  What it must not do is easy to say and hard to
test: confirm a block of a fork, skip or repeat a block after an error, lose a
transaction when the process dies, leave a spent output in its index, or stop
following the node without telling anybody.

## The system

| component | state | operations |
|---|---|---|
| circular queue, `common/circular_queue.go` | `items`, `start`, `count` | `Push`, `Pop`, `Peek`, `SetCount`, `ClearFrom`, `Find`, `ToList`, `IsFull`, `Len` |
| block indexer, `core/block_indexer.go` | `latestBlockPoint`, `unconfirmedBlocks`, guarded by `mutex` | `Reset`, `RollForwardFunc`, `RollBackwardFunc`, `processConfirmedBlock` |
| block syncer, `core/block_syncer.go` | `connection`, `isClosed`, guarded by `lock`; `closeCh`, `errorCh` | `Sync`, `syncExecute`, `errorHandler`, `Close`, the two callbacks |
| databases, `db/bbolt`, `db/leveldb` | buckets: latest point, blocks, transactions (processed or not), outputs | a transaction writer (`OpenTx` ... `Execute`) and the queries |
| example program, `main.go` | the confirmed-block handler, the wait for a signal or an error | `Sync`, wait, `Close` |
| stored values, `core/data.go`, and the interface `core/database.go` | keys, order, the promises of a transaction and of the queries | see the databases |
| factory, `db/db.go` | none; chooses one of the two databases | `NewDatabaseInit` |
| logger, test mocks | none that matters here | not modelled |

How they interact:

- The user calls `Sync`, which tries `syncExecute` up to `SyncStartTries`
  times.  A try closes the old connection, dials, calls `Reset` of the indexer,
  asks the node for the point `Reset` returned and leaves an `errorHandler`
  goroutine behind that watches the connection.
- The connection library calls back with headers and rollbacks, one at a time.
  `RollForwardFunc` queues a header; when the queue is full it fetches the block
  of the oldest header, writes everything about it in **one** database
  transaction, replaces the header and calls the handler, all under `mutex`.
- An error of a callback ends the session.  `errorHandler` calls `Sync` again,
  after a delay, or puts the error on `errorCh` when it is fatal or restarts
  are not wanted.
- After a restart of the process, and at every new session, only the database
  is left; `Reset` reads the point to resume from.

What is hard about it, and the property that is meant to catch it, is the list
of hazards in `PROJECT.json`, each at its line of the source.  In short:

| component | hard behaviour | what makes it correct |
|---|---|---|
| circular queue | wrap-around after any mixture of calls | it is a bounded list (`ImplementsQueue`) |
| block indexer | reorganisations, failures between two writes, restarts, a handler that fails | an append-only log of final blocks (`ImplementsConfirmedLog`, `ConfirmedIsChain`), each buried deep enough (`ConfirmedIsBuried`); memory agrees with disk (`MemoryMatchesDisk`); no transaction lost (`NoTxLost`); no needless fatal error (`FatalIsJustified`); progress (`CatchesUp`) |
| block indexer, outputs | selection by address, what a block spends of itself, order of writes | the index is the ledger's set of unspent outputs (`IndexMatchesLedger`), and no transaction that touches an address is missed (`KnownTxsStored`, `TxsOfInterestStored`, `InputsAreResolved`) |
| databases | two implementations of one interface; byte keys, batches, a consumer that reads and marks while the indexer writes | each is the abstract database (`ImplementsDatabase`, `QueriesAgree`), with which nothing is skipped or lost (`ProcessedInOrder`, `StoredTogether`); queries match the ledger (`QueryMatchesLedger`) |
| block syncer | goroutines that retry, close and report at the same time | one connection at most (`AtMostOneOpen`), none after `Close` (`NoConnectionAfterClose`), no failure forgotten (`StaysInSync`), `Close` ends everything (`CloseReturns`, `HandlersEnd`) |
| syncer and indexer together | callbacks between `bs.lock` and `bi.mutex`, old ones that meet a new session | for the indexer it is one session after the other (`ImplementsFollower`, `FetchesFromItsSession`); nobody waits for ever (`CloseReturns`, `CallbacksReturn`); an error of a callback is retried, a fatal one ends the program (`ErrorsAreAnswered`) |

## The modules

```
 CircularQueue --implements--> BoundedQueue
                                   : the list BlockIndexer works on
 BlockIndexer <--extends-- ChainFollower --implements--> ConfirmedLog
      ^                         ^
      | extends                 | implements
      +------ IndexerSystem ----+
                    | instance
                    v
               BlockSyncer

 BBolt, LevelDB <--instances-- Databases --implements--> Database
                (all of them extend Data)                     UtxoIndex
```

| module | what it is |
|---|---|
| `BoundedQueue` | abstract: a first-in first-out list with a capacity that can be cut back to a prefix |
| `CircularQueue` | the ring buffer, one action per method; refines `BoundedQueue` |
| `BlockIndexer` | the indexer's memory and disk, one operator per way a method ends |
| `ChainFollower` | `BlockIndexer` with the node, the session and process restarts |
| `ConfirmedLog` | abstract: an append-only log of final blocks; `ChainFollower` refines it |
| `BlockSyncer` | the goroutines around `Sync`, `errorHandler` and `Close`, step by step |
| `IndexerSystem` | syncer, indexer and the callbacks between them; refines `ChainFollower` |
| `Data` | stored values, their keys, and the calls of a transaction |
| `Database` | abstract: sets of blocks, transactions and outputs, with a consumer; what `core.Database` promises |
| `BBolt`, `LevelDB` | the two implementations |
| `Databases` | the factory: either of them, behind the interface; refines `Database` |
| `UtxoIndex` | what one confirmed block does to the stored outputs and transactions, with either database |
| `MCChainFollower`, `MCBlockSyncer`, `MCIndexerSystem`, `MCUtxoIndex`, `MCDatabases` | block tree, clients, ledger and outputs for TLC |
| `CircularQueueProofs`, `BlockIndexerProofs`, `ChainFollowerProofs`, `BlockSyncerProofs`, `UtxoIndexProofs`, `DatabaseProofs` | the proofs about one component |
| `DatabasesProofs` | the proofs that either database is `Database` |
| `IndexerSystemProofs` | the proofs about syncer and indexer together, and the step from there to `ChainFollower` |

### CircularQueue and BoundedQueue

The ring keeps `items`, `start` and `count` as the code does, indices from 0.
`ret` is what the last call gave its caller, so that the refinement also
compares answers.  `SetCount` is enabled for counts up to the present one: that
is how the indexer uses it, and the model says so, because the code would let a
caller raise the count over slots that hold old items.  The abstract list is
computed from the ring by the refinement mapping.

### BlockIndexer and ChainFollower

Every method of the indexer holds `bi.mutex` from its first line to its last,
so each is one action, with one exception: the process can die between the
database transaction and the end of the handler.  `handlerCall` is the block
the handler works on; no other method runs while it is set, because the mutex
is held.

| TLA+ | code |
|---|---|
| `latestBlockPoint`, `unconfirmedBlocks` | the fields; a header is its block |
| `dbLatestBlockPoint`, `dbConfirmedBlocks`, `dbUnprocessedTxs`, `dbProcessedTxs` | the buckets; a block's transactions of interest are one value |
| `Reset` | `Reset` |
| `QueueHeader`, `ConfirmFirst`, `RollForwardFails` | `RollForwardFunc`: room in the queue; full and the block is stored; full and something fails |
| `RollBackToUnconfirmed`, `RollBackToConfirmed`, `RollBackRefused` | the three ends of `RollBackwardFunc` |
| `HandlerReturns`, `HandlerFails` | the confirmed-block handler, as `main.go` writes it |
| `ProcessRestarts` | memory is lost, the disk is not |
| `Connect`, `IntersectNotFound`, `ConnectFails`, `SessionFails` | a try of `Sync` and what `errorHandler` makes of an error |
| `ToCommonPoint` | `BlockPoint.ToCommonPoint`, slot 0 included |

A confirmed block is stored under its slot, as `CardanoBlock.Key` does, and not
under its name: that stored blocks do not overwrite each other is a result, not
an assumption of the model.

The node is external.  It serves the chain below its tip, may adopt any longer
chain at any moment, and sends forwards and rollbacks as the ChainSync protocol
prescribes: always from the last point it sent in this session, a rollback to
the newest point both chains share.  Messages of a session arrive in order and
are lost when it ends.

### BlockSyncer

A thread is a client (which syncs, waits for a signal or an error and closes, as
`main.go` and the tests do) or the `errorHandler` of a connection.  Every point
at which the code can be interrupted with an effect others see is an action:
looking at `closeCh`, taking the lock, closing the old connection, dialling,
starting, the delays, the selects and the sends.  `Sync` is called by clients
and by error handlers alike, and is modelled once.

The connection library is external and its behaviour is taken from how the code
uses it: a connection that breaks offers one error on its channel and the
channel is closed afterwards; `Close` of a connection closes the channel, and
the receive in `closeConnectionNoLock` may take the error the handler was
waiting for.  A `Dial` that fails leaves `bs.connection` as it was; a session
that cannot be started leaves the new connection there, open and unwatched,
until the next try closes it.

### IndexerSystem

`ChainFollower` has a session and its messages; `BlockSyncer` has locks,
channels and goroutines.  `IndexerSystem` puts the callbacks of
`core/block_syncer.go` between them.  The syncer's actions are those of
`BlockSyncer`, by instance, the indexer's methods those of `BlockIndexer`; new
are the callbacks, one goroutine per connection, with the places at which they
wait:

| `callback[c].place` | in the code |
|---|---|
| `"lock"` | `rollForwardCallback` waits for `bs.lock` |
| `"mutex"` | the indexer's method waits for `bi.mutex` |
| `"handler"` | the confirmed-block handler runs, under `bi.mutex` |
| `"failed"`, `"fatal"` | it returned an error, which ends the connection |
| `"ended"` | its connection was closed while it did not run |

`retriever` is the connection the callback found in `bs.connection`, from which
`GetBlockTransactions` fetches.  `Reset` waits for `bi.mutex` while
`syncExecute` holds `bs.lock`, as in the code: a try that has dialled can
neither start a session nor fail while a callback has `bi.mutex`, and until then
nobody else gets `bs.lock`.  So no callback may wait for `bs.lock` under
`bi.mutex`; one that did would break `CloseReturns` and `CallbacksReturn`.

Does closing a connection wait until its callback has returned?  The source does
not say, and the library is not part of it.  The constant `CloseWaits` stands
for both answers, and each has its price (5 and 8 below).

`Follower`, an instance of `ChainFollower`, states what the indexer should see:
a session that is up, down or stopped, a number of tries, at most one message in
flight.  All of these are computed from the state of the goroutines, each by an
operator of its own (`Session`, `SessionTries`, `Inflight`, `Refused`, `Faults`).
`Faults` counts the tries that failed and the sessions that ended; `FaultsBound`
is more than both can be with the given connections and tries.

### Data, Database, BBolt, LevelDB and Databases

`Database` is the promise: a transaction is a list of calls that happens as a
whole and in its order, and queries answer in the order of the chain.  Its
second actor is a consumer that reads some unprocessed transactions, works on
them and marks them, while the indexer stores more, and that may fail in
between; `main.go` does this inside the handler, but the interface is for any
consumer.  Values keep the fields by which they are found and ordered; keys are
real sequences of bytes, with fewer values and fewer of them than in the code.

`BBolt` keeps the five buckets as functions from keys to values; its `Update` is
atomic and sees its own writes.  `LevelDB` has one store, keys with prefixes,
and a transaction in two steps: `Execute` collects a batch from the store as it
is, `Write` applies it, and the process may die or the consumer act in between.

`Databases` chooses one of them at the start, as the factory does, and states
everything once, for the interface.  For leveldb it excludes blocks that spend
their own outputs with soft delete (`SoftDeletesOwn`), for which the refinement
does not hold (3 below), and `QueriesAgree` says nothing there of the inputs in
the answer of `GetAllTxOutputs` (4 below).  `DeleteAllTxOutputsPhysically` comes
first in its transaction, as the tests of the writer use it; after an
`AddTxOutputs` in the same transaction the backends differ, since leveldb does
not see its batch.

### UtxoIndex

One action, the transaction that stores a confirmed block, for any
configuration and either backend.  An output stands for its identity and its
address; `"used"` is the mark of a soft delete.  The order inside the
transaction (add, then remove), the reads that see only the database as it was
before the block, and the two writers' different views of what they have just
added are kept.  The ledger is external: a block is any list of transactions
valid at its place.  Tokens, datums, amounts and the list of hashes kept with a
block decide nothing and are left out.  `Invalid` are the transactions whose script
failed: the ledger takes their collateral, which is not modelled, and nothing
else; the code treats them like any other.  The runs have none (7 below).

`blocks` counts the blocks of the ledger and `height` is the block a transaction
is in.  `KnownTxsStored` and
`InputsAreResolved` need it to tell the inputs that an earlier block has created
from those the block itself has: the code promises nothing about the latter,
and `TxsOfInterestStored`, which does as the README of the program does, fails
for them (2 below).  `ChainedConfigs` are the configurations that are tried
with blocks that spend what they create.

`IndexMatchesLedger` and its companions are stated for configurations with
`ChecksBothSides`: if outputs are dropped and only one side of a transaction is
looked at, the index is not meant to follow an address, and the code cannot.

## The runs

| run | shows | instance |
|---|---|---|
| `circular_queue` | the ring is a bounded list, answers included | 3 items, size 3: the ring wraps, and repeated items are sought |
| `chain_follower` | all properties of the follower, with liveness | 12 blocks, 3 forks, 2 confirmations, 3 faults, 3 messages in flight |
| `block_syncer` | one connection at most, no failure forgotten, `Close` gets through and ends every handler | two clients that sync and close at the same time, 2 tries, 2 connections |
| `block_syncer_close` | 1 below | one client |
| `utxo_index` | the index follows the ledger, for every configuration with `ChecksBothSides` | 6 transactions, blocks of up to 3, one watched address |
| `utxo_index_chained_of_interest` | 2 below | the same ledger, outputs of interest only |
| `utxo_index_chained_soft_leveldb` | 3 below | the same, leveldb with soft delete |
| `utxo_index_query_leveldb` | 4 below | the same, leveldb, all outputs kept |
| `databases` | both databases are the abstract one, queries included, and the consumer skips and loses nothing | two slots, blocks of up to 2 transactions, two outputs |
| `indexer_system` | for the indexer the syncer is one session after the other | one client, 2 connections, 2 tries, 7 blocks with 2 forks, 2 confirmations; closing waits |
| `indexer_system_close` | nobody waits for ever, and errors of callbacks are answered | one client, 2 connections, 1 try, 5 blocks with a fork that undoes the start; closing does not wait |
| `indexer_system_stale_callback` | 5 below | the same |

Three more configurations can be tried by hand: `ChainFollowerSlotZero`,
`UtxoIndexInvalid` and `IndexerSystemDeadlock` show 6, 7 and 8 below.

Bounds, and why they are enough for what they are asked:

- Block tree.  With two confirmations a trunk of six blocks lets the queue
  fill, confirm and refill; the fork that leaves at `a3` undoes queued headers
  only or goes back to the confirmed block, the one that leaves at `a2` undoes
  a confirmed block.  Blocks of different forks share slots.  The start is set
  to `a1`, so a node whose chain does not reach it yet exercises
  `IntersectNotFound`.  In `indexer_system` the start is `a1` too: one fork
  leaves at `a2` and undoes a queued header, the other leaves at the origin and
  undoes the start itself.  `indexer_system_close` keeps the second fork, which
  makes the indexer return the fatal error, and the step back from it to the
  trunk, after which a retried session would go on as if nothing had been.
- `MaxFaults` = 3 allows, for instance, a failed transaction, a lost session
  and a restart in one behaviour; `MaxInflight` = 3 lets rollbacks and headers
  queue behind each other.
- `MaxConnections` = 2 is a first session and its replacement, or, with two
  clients, one connection of each.  When none is left, dialling only fails; that ends
  a behaviour the code would continue, in the way the code ends it when a node
  cannot be reached.  More connections repeat what the second one met: a
  predecessor that fails, is being closed, or has a callback at work.
- `MaxBlockSize` = 3 suffices for an output that is created, spent and its
  successor spent in one block, and for two blocks that compete for one output.
- Keys have two digits for a slot, so that carries and common prefixes occur,
  and a first digit shared by buckets, slots and hashes.  Two blocks of up to
  two transactions give portions that end inside a block, at its end, or reach
  into the next one, and the second block can be written while the transactions
  of the first are with the consumer.  The later index is at the smaller hash, so
  that an order by hash alone or by index alone shows.

Deadlock is not an error in the runs that say `CHECK_DEADLOCK FALSE`: a program
that was stopped, a chain that has been confirmed to its end and a ledger
without further transactions all may rest.

### Fairness

`ChainFollower`: the node answers, callbacks and the handler return, and a
session that ended is tried again after its delay (weak fairness of these
actions).  No change of chain is promised and no fault, and `CatchesUp` still
has to hold whatever faults occur, up to the bound.

`BlockSyncer`: goroutines are scheduled, delays pass and a dial succeeds or
fails (weak fairness of a thread's steps).  Taking `bs.lock`, in `syncExecute`
and in `Close`, is strongly fair: Go's `sync.Mutex` hands the lock to a waiter
that has starved for a millisecond.  No signal, failure or success of a dial is
promised.

`IndexerSystem`: the same for the syncer's steps and for those of the callbacks,
which wait for `bs.lock` and for `bi.mutex`, two mutexes of that kind.  A client
that waits reads an error that is on `ErrorCh`, as the `select` of `main.go`
does (weak fairness); a signal is not promised.  The node
promises nothing: it need not send, and a session need not fail.

## What the runs show to be otherwise

Each of 1 to 5 is a run that expects the property to be violated, and a finding
in `PROJECT.json`.

1. **A connection after `Close`.**  `syncExecute` looks at `closeCh` before it
   has the lock and not again.  A retry that waits for the lock while `Close`
   holds it connects after `Close` has returned.
2. **Money that passes through within one block.**  Inputs are looked up in the
   database as it was before the block.  A transaction that spends an output
   created earlier in the same block is not recognised by its inputs, is not
   stored, and the output stays unspent in the index.
3. **Soft delete in leveldb** reads the database and not its own batch, so an
   output created and spent in one block stays unspent.  bbolt marks it used.
4. **Listing outputs in leveldb.**  The stored key still has the prefix of its
   bucket when it is read back; the error is dropped and every output is
   returned under the zero hash and index.
5. **A callback of an old session.**  If the library closes a connection while a
   callback of it waits for `bs.lock`, that callback takes the next session's
   connection and hands its header to an indexer that was reset and rolled back
   for that session.  `RollForwardFunc` queues any header it is given, so a block
   becomes final whose parent was never stored.

Shown by the further configurations:

6. **A confirmed block in slot 0** (`ChainFollowerSlotZero`).  `ToCommonPoint`
   takes every point in slot 0 for the origin.  An indexer whose latest
   confirmed block is there resumes at the origin, is rolled back to it and
   stops with the fatal error, again after every restart.
7. **Transactions whose script failed** (`UtxoIndexInvalid`).  The code stores
   `IsValid()` and never looks at it: their inputs leave the index although the
   ledger keeps them, and their outputs enter it.
8. **`Close` and a callback** (`IndexerSystemDeadlock`).  If the library closes a
   connection only after its callback has returned, `Close` and `syncExecute`
   hold `bs.lock` while they wait for a callback that waits for `bs.lock`.  So
   one kind of library leads to 5 and the other to 8.

With several clients a second fatal report waits for ever for room in
`bs.errorCh` when nobody reads the first.  `HandlersEnd` says so: a handler ends
or waits for a reader of the error that is there already.

## The proofs

All theorems hold for every value of the constants that satisfies the named
assumptions (`TreeAssumption`, `SessionAssumption`, `IndexerAssumption`,
`SyncerAssumption`, `SystemAssumption`, `UtxoAssumption`, `DataAssumption`,
`AbsentAssumption`, the queue's size), none of which bounds anything: slots,
hashes and indices have any number of digits in any base, and their keys hold
them without overflow, as the Go types do.

| theorem | module | says |
|---|---|---|
| `RingCorrect`, `RingImplementsQueue` | `CircularQueueProofs` | the ring of any size is a bounded list |
| `TypeCorrect` | `ChainFollowerProofs` | types, and the queue never exceeds its capacity |
| `MemoryFollowsDisk` | | memory and disk name the same point |
| `FinalBlocksAreBuried` | | final blocks have `ConfirmationBlockCount` descendants, a chain |
| `ConfirmedStaysChain` (s) | | the stored blocks are one chain without a gap |
| `FollowerImplementsLog` (s) | | the follower refines the append-only log |
| `NoTxIsLost` (s) | | every transaction of interest is waiting or processed, never both |
| `FatalErrorsAreJustified` (s) | | the fatal error means the node left the confirmed block |
| `TypeCorrect`, `OneConnectionAtMost` | `BlockSyncerProofs` | any number of callers and handlers have one connection at most |
| `TypeCorrect` | `IndexerSystemProofs` | types of syncer, callbacks, indexer and node together |
| `SystemImplementsSyncer` | | with the indexer attached the syncer is still `BlockSyncer`, one connection at most included |
| `FetchesRight` (w) | | a block is fetched from the connection that announced it |
| `SystemImplementsFollower` (w) | | goroutines, locks and reconnects are one session after the other |
| `SystemConfirmedIsChain`, `SystemLosesNoTx`, `SystemFatalIsJustified` (w, s) | | what the follower promises holds of the whole system |
| `TypeCorrect` | `UtxoIndexProofs` | types, for any ledger |
| `IndexIsLedger` (l) | | the index is the ledger's set of unspent outputs |
| `InterestIsStored`, `StoredInputsResolved` (l) | | no transaction of interest is missed, none stored without cause, inputs are resolved |
| `BBoltAnswersQueries` (l) | | with bbolt, the outputs listed for an address are the ledger's |
| `ProcessesInOrder`, `StoresTogether` | `DatabaseProofs` | in the abstract database a consumer skips nothing, and nothing is stored in part |
| `DatabasesImplement` (d) | `DatabasesProofs` | bbolt's buckets and leveldb's prefixed store with its batches are the abstract database |
| `DatabasesProcessInOrder`, `DatabasesStoreTogether` (d) | | so they keep its two promises |
| `DatabasesAnswer` (d) | | the queries of either answer as those of the abstract database |

What a theorem assumes beyond the constants' assumptions is in its statement:

- (s) `SlotsIncrease`: slots grow along a chain and the first block is past slot
  0.  It is what the Cardano ledger guarantees except for the boundary blocks of
  the Byron era, and 6 above shows that it cannot be dropped.
- (w) `CloseWaits`, and one client that calls `Sync`, as in `main.go`.  5 above
  shows that the former cannot be dropped.  Two callers may have two tries under
  way at once, for which the follower's session has no counterpart.
  `TypeCorrect` and `SystemImplementsSyncer` need neither.
- (l) `Invalid = {}`, no transaction with a failed script (7 above), and
  `ChainedConfigsKeepAll`: a block may spend what it creates only where every
  output is kept and a writer finds what it has added (2 and 3 above are what
  happens otherwise).  `BBoltAnswersQueries` also assumes bbolt (4 above).
  `IndexMatchesLedger` and the others keep their own condition, `ChecksBothSides`.
- (d) `"leveldb" \notin SoftDeletesOwn`: leveldb is not asked to remove softly
  what the same block adds, which is what 3 above shows to fail.  bbolt may be.

The arguments:

- **Ring.**  `RingOK` is inductive.  For the refinement everything goes through
  `Wrap`, the only operator with a modulus: it is injective on a window of
  `size` positions and commutes with a shift of the start.  `Window` says that
  the mapped list is what lies in the window; each method is then shown to do to
  the window what the abstract operation does to the list.
- **Follower.**  Confirmed blocks being a chain is not inductive: it needs that
  the queue is a chain that starts at the confirmed point (`QueueIsChain`), which
  needs that the next header in flight extends what the queue will be when it
  arrives (`SessionInStep`, along all messages in flight).  `DiskInvariant`
  adds that blocks are stored under their own slot and below the latest one
  (`StoredBySlot`), so that storing a further one overwrites nothing.  For the
  fatal error: the queued headers are all that lies between the confirmed point
  and the last header (`QueueCoversAncestors`), a rollback in flight goes to the
  newest common point (`RollbacksAreShort`), so a rollback to a point that is
  neither queued nor the confirmed one lies below the confirmed point, which the
  new tip therefore does not extend.
- **Syncer.**  Whoever is between taking and releasing the lock is its holder
  (`LockIsHeld`); between closing the old connection and dialling, none is open
  (`ClosedBeforeDial`); handlers are started by the connection they watch
  (`HandlersAreNew`).  Together with types and `AtMostOneOpen` this is inductive.

- **System.**  `SystemInv` says where the goroutines can be with respect to each
  other.  One thread at a time is inside `Sync` (`OneSyncs`), and only where
  restarts are wanted (`RetriesAllowed`); `bs.connection` is the last one dialled
  (`NewestIsCurrent`); only the session on it may go on, and it is over before
  the next connection is dialled (`OneSession`); a library offers no error while
  a connection is open (`ErrorsAreLate`), and after a fatal one nobody tries
  again (`FatalEnds`).  `FetchesFromItsSession` is part of it and is where
  `CloseWaits` enters.  Types and the syncer's own invariant come from the proofs
  about the syncer, cited for the instance.
- **System to follower.**  Each step of the system is a step of the follower or
  leaves its state alone.  Starting a session is `Connect`, a failing try is
  `ConnectFails`, closing a connection whose session goes on is
  `ConnectionLost`; a message the node sends is one in flight, and what the
  callback makes of it is the indexer's method in both, an error included; the
  handler's two ends are the same.  Locks, delays, selects and closing what is
  over are stutters.  The follower bounds its faults, so the mapping counts the
  failed tries and the ended sessions of a run in sets that only grow, whose sizes
  the numbers of threads and tries bound.  What the follower promises then holds
  of the system by citing the follower's theorems for the mapped state.
- **Index.**  `IndexInv` adds types and two facts to the three properties.  The
  ledger spends only what was there (`LedgerIsSound`), so that a block creates
  nothing that is spent already; a mark of soft delete stands for something
  spent (`UsedIsSpent`), so that no input of a block is taken for used.  The two
  properties of the transactions need `IndexMatchesLedger`, since the code decides
  by what it finds in the database: before every block that look
  (`isTxInputOfInterest`) and the ledger's view (`TouchesInterest`) agree.
- **Database.**  Neither property is inductive alone.  That what is processed
  comes first needs that a new block lies above everything stored, hence above the
  point; that transactions only change sides needs that the consumer holds some
  that are still waiting, and these are the first of those (`HandedFirst`).  The
  consumer's portion is a prefix of a sorted set, so `Sorted` is shown to list
  every element once and in order, from the number of elements before it.  The
  fold over a transaction's calls takes an operator, which rules out induction:
  the lemmas build it for the two and the five calls a transaction has.
- **Databases.**  The inductive invariant `DatabasesInv` has three parts: that of
  the abstract database, for what the store there is says; for bbolt, every
  bucket has each value under its own key (`BBoltInv`); for leveldb, every key is
  the one of its value with the digit of its bucket, and a batch that waits is
  the one its calls would make of the store *as it is now* (`LevelInv`).  The last
  is what lets a batch be written after a consumer has marked transactions: the
  operations read outputs only, and marking leaves these alone.
  - *Keys.*  Big-endian digits of a number below `Power[width]` determine it and
    order as it does; a key of two parts orders by the first and then by the
    second.  This rests on `FromBigEndian` being the inverse of `BigEndian`, and on
    sums and powers defined by recursive functions, about which the lemmas argue
    on the set of numbers that have the property, by a smallest number that has
    not.  Prefixes keep that order inside a bucket and keep buckets apart.
  - *Writing.*  What bbolt's calls do to the outputs is a recursive function over
    their number (`OutputsAfter`), unfolded like the fold above.  A step puts a
    block, its transactions and the point into their buckets; that no key is
    taken already is where the abstract invariant is needed.  In a batch the last
    operation on a key counts (`LastOn`), and a block's five operations touch
    four kinds of keys, so only `AddTxOutputs` and `RemoveTxOutputs` can meet on
    one.
  - *Reading.*  Listing keys in their order lists values in the order of the
    chain (`FoundInOrder`), once both orders agree on them; a seek to a slot
    leaves the blocks not below it, in leveldb only with the bucket's digit in
    front.  The outputs of one address are listed by slot, and the
    promised list is shown to be one of the orders leveldb may answer in.

Only model-checked:

- liveness (`CatchesUp`, `StaysInSync`, `CloseReturns`, `HandlersEnd`,
  `CallbacksReturn`, `ErrorsAreAnswered`), since TLAPS does not reason about
  fairness here;
- what the runs refute or show by example, 1 to 8 above.

## Not modelled, and assumptions

- The logger and the mocks, flags of the example program and the closing of the
  database, `String` methods, `NewWitnesses`, and the encoding of stored values.
  Keys are modelled, since queries depend on them.
- `ConfirmationBlockCount` = 0, for which `RollForwardFunc` fetches the block of
  a nil header, and `AddressCheck` = 0, for which `NewBlockIndexer` panics.
- The type assertion of `rollForwardCallback` (block_syncer.go:198): the library
  is assumed to deliver block headers, so its fatal "invalid header" does not
  occur.
- Tokens, datums, amounts and collateral.
- The connection library and the node, of which the models have what the code
  relies on.  In particular a connection that nobody closed offers an error
  before its channel is closed; otherwise `errorHandler` would end without a
  successor (block_syncer.go:230).
- `syncExecute` resets the indexer and then asks for the session to start; the
  composition takes this as one step, since what an old callback might queue in
  between is removed by the rollback a session starts with.

## Plan

1. Done: the queue, the follower and its log, the syncer, both together with
   their callbacks, the index of outputs, the databases behind their interface,
   and the proofs above.
2. Done: every safety property of a passing run is a theorem, that of the two
   databases under their interface included.
3. Proofs about `BlockSyncer`: what holds of `errorCh` and of the number of
   tries with one client, and the safety part of `NoConnectionAfterClose` when
   no retry is waiting.
