--------------------------- MODULE CircularQueue ----------------------------
(***************************************************************************)
(* The ring buffer of common/circular_queue.go: a fixed array of size      *)
(* slots, the position of the oldest item and the number of items.  One    *)
(* action per method that changes the ring or hands a value to its caller. *)
(* Slots outside the window of count items starting at pos may hold old    *)
(* items: SetCount moves the end of the window and clears nothing.         *)
(***************************************************************************)
EXTENDS Integers, Sequences

CONSTANTS
  Item,    \* the items a caller can push
  Zero,    \* the zero value of the item type
  size     \* number of slots, from NewCircularQueue

\* A ring without slots is always full and always empty: it refuses every item
\* and never computes a position.  Positions need one slot at least.
ASSUME SizeAssumption == size \in Nat \ {0}
ASSUME ZeroAssumption == Zero \notin Item

VARIABLES
  items,   \* the array, indexed from 0
  count,   \* number of items in the queue
  pos,     \* index of the oldest item
  ret      \* what the last call returned to its caller

vars == <<items, count, pos, ret>>

Slots == 0..(size - 1)

\* The slot of the i-th item, counting from 0.
At(i) == (pos + i) % size

ToList == [i \in 1..count |-> items[At(i - 1)]]

IsFull == count = size

MinOf(a, b) == IF a <= b THEN a ELSE b
MaxOf(a, b) == IF a <= b THEN b ELSE a

\* The answers a call can give: nothing to report, an error, an item, an index.
Done == <<"done">>
Refused == <<"full">>
Got(item) == <<"item", item>>
Index(i) == <<"index", i>>

Init ==
  /\ items = [s \in Slots |-> Zero]
  /\ count = 0
  /\ pos = 0
  /\ ret = Done

Push(item) ==
  \/ /\ IsFull
     /\ ret' = Refused
     /\ UNCHANGED <<items, count, pos>>
  \/ /\ ~IsFull
     /\ items' = [items EXCEPT ![At(count)] = item]
     /\ count' = count + 1
     /\ ret' = Done
     /\ UNCHANGED pos

Pop ==
  \/ /\ count = 0
     /\ ret' = Got(Zero)
     /\ UNCHANGED <<items, count, pos>>
  \/ /\ count # 0
     /\ ret' = Got(items[pos])
     /\ items' = [items EXCEPT ![pos] = Zero]
     /\ pos' = At(1)
     /\ count' = count - 1

Peek ==
  /\ ret' = Got(IF count = 0 THEN Zero ELSE items[pos])
  /\ UNCHANGED <<items, count, pos>>

\* Callers only shrink the queue: RollBackwardFunc to one more than an index
\* Find returned, RollBackwardFunc and Reset to 0.
SetCount(cnt) ==
  /\ count' = MinOf(cnt, size)
  /\ ret' = Done
  /\ UNCHANGED <<items, pos>>

\* Mutant: the loop of ClearFrom reads the length again in every round, while
\* the rounds shorten it, and so clears the first half only.
ClearFromLiveLength(from) ==
  LET first == MaxOf(0, from)
      rounds == MaxOf(0, (count - first + 1) \div 2)
  IN /\ items' = [s \in Slots |->
                    IF \E i \in first..(first + rounds - 1) : s = At(i)
                      THEN Zero ELSE items[s]]
     /\ count' = count - rounds
     /\ ret' = Done
     /\ UNCHANGED pos

\* The loop runs from max(0, from) to the old length and clears one slot and
\* takes one from count in every round.
ClearFrom(from) ==
  LET first == MaxOf(0, from)
  IN /\ items' = [s \in Slots |->
                    IF \E i \in first..(count - 1) : s = At(i) THEN Zero ELSE items[s]]
     /\ count' = MinOf(count, first)
     /\ ret' = Done
     /\ UNCHANGED pos

\* Mutant: the slot of the item is returned, not its place in the queue.
FindSlot(item) ==
  /\ \/ /\ \A i \in 0..(count - 1) : items[At(i)] # item
        /\ ret' = Index(-1)
     \/ \E i \in 0..(count - 1) :
           /\ items[At(i)] = item
           /\ \A j \in 0..(i - 1) : items[At(j)] # item
           /\ ret' = Index(At(i))
  /\ UNCHANGED <<items, count, pos>>

Find(item) ==
  /\ \/ /\ \A i \in 0..(count - 1) : items[At(i)] # item
        /\ ret' = Index(-1)
     \/ \E i \in 0..(count - 1) :
           /\ items[At(i)] = item
           /\ \A j \in 0..(i - 1) : items[At(j)] # item
           /\ ret' = Index(i)
  /\ UNCHANGED <<items, count, pos>>

Next ==
  \/ \E item \in Item : Push(item) \/ Find(item)
  \/ Pop
  \/ Peek
  \/ \E cnt \in 0..count : SetCount(cnt)
  \/ \E from \in -1..size : ClearFrom(from)

Spec == Init /\ [][Next]_vars

-----------------------------------------------------------------------------
\* The ring's fields stay in range and every item of the window is one that
\* was pushed, never a cleared slot: the index arithmetic of
\* common/circular_queue.go never leaves a hole in the queue.
RingOK ==
  /\ items \in [Slots -> Item \cup {Zero}]
  /\ count \in 0..size
  /\ pos \in Slots
  /\ \A i \in 0..(count - 1) : items[At(i)] \in Item

\* Read from pos on, the ring is the bounded first-in first-out list the
\* indexer needs: pushes, pops, cuts and searches give the answers of that
\* list, and an item cut off by SetCount never comes back.
Queue == INSTANCE BoundedQueue WITH list <- ToList, Capacity <- size
ImplementsQueue == Queue!Spec
=============================================================================
