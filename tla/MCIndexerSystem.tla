-------------------------- MODULE MCIndexerSystem ---------------------------
(***************************************************************************)
(* A block tree for TLC.  With a1 as the start and two confirmations the   *)
(* fork to c4 undoes a queued header only, the fork to b2 the start itself. *)
(***************************************************************************)
EXTENDS IndexerSystem

CONSTANTS main, second, a1, a2, a3, b1, b2, c3, c4, o

MCParent ==
  [b \in Block |->
     CASE b \in {a1, b1} -> o
       [] b = a2 -> a1
       [] b \in {a3, c3} -> a2
       [] b = b2 -> b1
       [] b = c4 -> c3]

MCAncestors ==
  LET below[p \in Block \cup {o}] ==
        IF p = o THEN {} ELSE {MCParent[p]} \cup below[MCParent[p]]
  IN below

MCSlot == [p \in Block \cup {o} |-> Cardinality(MCAncestors[p])]
=============================================================================
