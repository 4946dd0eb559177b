-------------------------------- MODULE Data ---------------------------------
(***************************************************************************)
(* The stored values of core/data.go with the keys they are stored under,  *)
(* and the calls of core/database.go a transaction writer collects.        *)
(*                                                                         *)
(* Of a transaction, a block and an output only the fields remain by which *)
(* they are found, ordered and counted.  A byte is a digit below Base.     *)
(***************************************************************************)
EXTENDS Naturals, FiniteSets, SequencesExt

CONSTANTS
  Base,         \* bound: values of a byte, 256 in the code
  SlotWidth,    \* bound: bytes of a slot, 8 in the code
  HashSize,     \* bound: bytes of a hash, 32 in the code
  IndexWidth,   \* bound: bytes of an index, 4 in the code
  Slots,        \* slots of blocks
  TxInputs,     \* what identifies the outputs: [Hash, Index]
  AddressOf,    \* the address of an output
  Nowhere,      \* the address of Go's zero TxOutput
  MaxTxs,       \* bound: transactions of interest of a block
  SoftDeletesOwn  \* backends whose blocks may spend what they create, with softDelete

\* How many values so many bytes have.
Power[width \in Nat] == IF width = 0 THEN 1 ELSE Base * Power[width - 1]

ASSUME DataAssumption ==
  /\ Base \in Nat \ {0, 1}
  /\ {SlotWidth, HashSize, IndexWidth} \subseteq Nat \ {0}
  /\ Slots \subseteq 1..(Power[SlotWidth] - 1)
  /\ TxInputs \subseteq [Hash : 0..(Power[HashSize] - 1), Index : 0..(Power[IndexWidth] - 1)]
  /\ MaxTxs \in 1..Power[IndexWidth]
  /\ SoftDeletesOwn \subseteq {"bbolt", "leveldb"}

Address == {AddressOf[input] : input \in TxInputs}

\* The smallest first, in time that TLC has: where an element goes is how
\* many there are before it.
Sorted(set, Before(_, _)) ==
  [i \in 1..Cardinality(set) |->
     CHOOSE x \in set : Cardinality({y \in set : Before(y, x)}) = i - 1]

\* A query returns at most maxCnt values, and all of them for 0.
Limited(values, maxCnt) ==
  IF maxCnt = 0 \/ Len(values) < maxCnt THEN values ELSE SubSeq(values, 1, maxCnt)

-----------------------------------------------------------------------------
\* Keys.

BigEndian(n, width) == [i \in 1..width |-> (n \div Power[width - i]) % Base]

FromBigEndian(bytes) ==
  LET value[n \in 0..Len(bytes)] == IF n = 0 THEN 0 ELSE value[n - 1] * Base + bytes[n]
  IN value[Len(bytes)]

\* bytes.Compare, the order of both databases.
Below(a, b) ==
  \E i \in 1..Len(b) :
     /\ i - 1 <= Len(a) /\ \A j \in 1..(i - 1) : a[j] = b[j]
     /\ i <= Len(a) => a[i] < b[i]

SlotNumberToKey(slot) == BigEndian(slot, SlotWidth)
BlockKey(block) == SlotNumberToKey(block.Slot)

TxKey(tx) == BigEndian(tx.BlockSlot, SlotWidth) \o BigEndian(tx.Indx, IndexWidth)

TxInputKey(input) == BigEndian(input.Hash, HashSize) \o BigEndian(input.Index, IndexWidth)

\* With bytes of another size the input is zero, and there is an error.
NewTxInputFromBytes(bytes) ==
  IF Len(bytes) # HashSize + IndexWidth
    THEN [Hash |-> 0, Index |-> 0]
    ELSE [Hash |-> FromBigEndian(SubSeq(bytes, 1, HashSize)),
          Index |-> FromBigEndian(SubSeq(bytes, HashSize + 1, Len(bytes)))]

SortTxInputOutputs(set) ==
  Sorted(set, LAMBDA r, s :
    \/ r.Output.Slot < s.Output.Slot
    \/ /\ r.Output.Slot = s.Output.Slot
       /\ \/ r.Input.Hash < s.Input.Hash
          \/ r.Input.Hash = s.Input.Hash /\ r.Input.Index < s.Input.Index)

-----------------------------------------------------------------------------
\* Transactions of the database, as the program makes them.

Tx == [BlockSlot : Slots, Indx : 0..(MaxTxs - 1)]
Block == [Slot : Slots, Txs : 0..MaxTxs]
TxsOf(block) == [BlockSlot : {block.Slot}, Indx : 0..(block.Txs - 1)]

Output == [Address : Address, Slot : Slots, IsUsed : BOOLEAN]
TxOutput(input, slot) == [Address |-> AddressOf[input], Slot |-> slot, IsUsed |-> FALSE]
ZeroTxOutput == [Address |-> Nowhere, Slot |-> 0, IsUsed |-> FALSE]

SetLatestBlockPoint(slot) == [call |-> "SetLatestBlockPoint", slot |-> slot]
AddConfirmedBlock(block) == [call |-> "AddConfirmedBlock", block |-> block]
AddConfirmedTxs(txs) == [call |-> "AddConfirmedTxs", txs |-> txs]
AddTxOutputs(inputs, slot) == [call |-> "AddTxOutputs", inputs |-> inputs, slot |-> slot]
RemoveTxOutputs(inputs, softDelete) ==
  [call |-> "RemoveTxOutputs", inputs |-> inputs, softDelete |-> softDelete]
DeleteAllTxOutputsPhysically == [call |-> "DeleteAllTxOutputsPhysically"]

\* What processConfirmedBlock may ask of its writer for a block in the slot.
BlockContents == [txs : 0..MaxTxs, added : SUBSET TxInputs, removed : SUBSET TxInputs,
                  softDelete : BOOLEAN]

BlockCalls(slot, contents) ==
  LET block == [Slot |-> slot, Txs |-> contents.txs]
  IN <<AddConfirmedTxs(TxsOf(block)), AddConfirmedBlock(block), SetLatestBlockPoint(slot),
       AddTxOutputs(contents.added, slot),
       RemoveTxOutputs(contents.removed, contents.softDelete)>>

ConfirmedBlockCalls(slot, softDeletesOwn) ==
  {BlockCalls(slot, c) : c \in
     {d \in BlockContents :
        softDeletesOwn \/ ~d.softDelete \/ d.added \cap d.removed = {}}}

\* The table of outputs is filled anew, as the writers' tests do.
RefillCalls(slot) ==
  {<<DeleteAllTxOutputsPhysically, AddTxOutputs(added, slot)>> : added \in SUBSET TxInputs}

\* The calls of a transaction, with the latest point so far (0 for none).
Calls(point, softDeletesOwn) ==
  (UNION {ConfirmedBlockCalls(slot, softDeletesOwn) : slot \in {s \in Slots : s > point}})
    \cup IF point = 0 THEN {} ELSE RefillCalls(point)
=============================================================================
