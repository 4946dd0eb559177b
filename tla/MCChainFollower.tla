-------------------------- MODULE MCChainFollower ---------------------------
(***************************************************************************)
(* A block tree for TLC.  From the trunk a1-a2-a3-a4-a5-a6 a long fork leaves *)
(* at a2 and a short one at a3, so that with two confirmations the node    *)
(* can undo unconfirmed headers only, undo back to the confirmed block, or *)
(* undo the confirmed block itself.                                        *)
(***************************************************************************)
EXTENDS ChainFollower

CONSTANTS a1, a2, a3, a4, a5, a6, b3, b4, b5, b6, c4, c5, o

MCParent ==
  [b \in Block |->
     CASE b = a1 -> o
       [] b = a2 -> a1
       [] b = a3 -> a2
       [] b = a4 -> a3
       [] b = a5 -> a4
       [] b = a6 -> a5
       [] b = b3 -> a2
       [] b = b4 -> b3
       [] b = b5 -> b4
       [] b = b6 -> b5
       [] b = c4 -> a3
       [] b = c5 -> c4]

MCAncestors ==
  LET below[p \in Block \cup {o}] ==
        IF p = o THEN {} ELSE {MCParent[p]} \cup below[MCParent[p]]
  IN below

\* Blocks of different forks may share a slot.
MCSlot == [p \in Block \cup {o} |-> Cardinality(MCAncestors[p])]

\* A first block in slot 0, as the boundary block of the first Byron epoch is.
MCSlotFromZero ==
  [p \in Block \cup {o} |-> IF p = o THEN 0 ELSE Cardinality(MCAncestors[p]) - 1]
=============================================================================
