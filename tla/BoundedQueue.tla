---------------------------- MODULE BoundedQueue ----------------------------
(***************************************************************************)
(* What the block indexer relies on when it keeps its unconfirmed headers  *)
(* in a common.CircularQueue: a first-in first-out list of at most         *)
(* Capacity items that can also be cut back to a prefix of itself.  The    *)
(* ring buffer that implements it is module CircularQueue; the indexer     *)
(* (module BlockIndexer) works on this abstract list.                      *)
(***************************************************************************)
EXTENDS Integers, Sequences

CONSTANTS
  Item,      \* the items a caller can push
  Zero,      \* the zero value of the item type, returned by an empty queue
  Capacity   \* the size the queue was created with

VARIABLES
  list,      \* the items in the queue, oldest first
  ret        \* what the last call returned to its caller

vars == <<list, ret>>

\* The answers a call can give: nothing to report, an error, an item, an index.
Done == <<"done">>
Refused == <<"full">>
Got(item) == <<"item", item>>
Index(i) == <<"index", i>>

Init ==
  /\ list = <<>>
  /\ ret = Done

\* A full queue refuses the item and keeps what it holds.
Push(item) ==
  \/ /\ Len(list) < Capacity
     /\ list' = Append(list, item)
     /\ ret' = Done
  \/ /\ Len(list) = Capacity
     /\ ret' = Refused
     /\ UNCHANGED list

\* The oldest item leaves and is returned; an empty queue returns Zero.
Pop ==
  \/ /\ list # <<>>
     /\ ret' = Got(Head(list))
     /\ list' = Tail(list)
  \/ /\ list = <<>>
     /\ ret' = Got(Zero)
     /\ UNCHANGED list

Peek ==
  /\ ret' = Got(IF list = <<>> THEN Zero ELSE Head(list))
  /\ UNCHANGED list

\* Only the n oldest items stay.
Truncate(n) ==
  /\ list' = SubSeq(list, 1, n)
  /\ ret' = Done

\* The position of the first item equal to the one sought, counted from 0,
\* or -1 when there is none.
Find(item) ==
  /\ \/ /\ \A i \in 1..Len(list) : list[i] # item
        /\ ret' = Index(-1)
     \/ \E i \in 1..Len(list) :
           /\ list[i] = item
           /\ \A j \in 1..(i - 1) : list[j] # item
           /\ ret' = Index(i - 1)
  /\ UNCHANGED list

Next ==
  \/ \E item \in Item : Push(item) \/ Find(item)
  \/ Pop
  \/ Peek
  \/ \E n \in 0..Len(list) : Truncate(n)

Spec == Init /\ [][Next]_vars
=============================================================================
