---------------------------- MODULE ConfirmedLog ----------------------------
(***************************************************************************)
(* What the indexer promises its user (README, "Key Features"): the blocks *)
(* it has stored as final grow one child at a time from the point it was   *)
(* told to start at.  No block of the log is skipped, replaced or removed, *)
(* whatever the node and the network do and however often the process is   *)
(* restarted.                                                              *)
(***************************************************************************)
CONSTANTS
  Block,       \* the blocks a node can serve
  Parent,      \* the point each block extends
  StartPoint   \* the point the indexer was told to start at

VARIABLES
  head,        \* the newest final block, or StartPoint
  final        \* the final blocks

vars == <<head, final>>

Init ==
  /\ head = StartPoint
  /\ final = {}

Finalise(block) ==
  /\ Parent[block] = head
  /\ block \notin final
  /\ head' = block
  /\ final' = final \cup {block}

Next == \E block \in Block : Finalise(block)

Spec == Init /\ [][Next]_vars
=============================================================================
