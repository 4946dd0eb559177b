--------------------------- MODULE DatabasesProofs ---------------------------
(***************************************************************************)
(* The proof that either database implements module Database, for any      *)
(* slots, any number of transactions in a block, any outputs and keys of   *)
(* any size.                                                               *)
(***************************************************************************)
EXTENDS Databases, FiniteSetTheorems, TLAPS

\* What the database there is says, see Promised.
TheStore == IF IsBBolt THEN BBoltDatabase!Store ELSE LevelDBDatabase!Store

Facts == INSTANCE DatabaseProofs WITH store <- TheStore

-----------------------------------------------------------------------------
\* Each instance of module Data says the same.

LEMMA Assumed == Facts!DataAssumption
  BY DataAssumption DEF Facts!DataAssumption, Power, Facts!Power

LEMMA BBoltKeys ==
  /\ \A t : BBoltDatabase!TxKey(t) = Facts!TxKey(t)
  /\ \A b : BBoltDatabase!BlockKey(b) = Facts!SlotNumberToKey(b.Slot)
  /\ \A s : BBoltDatabase!SlotNumberToKey(s) = Facts!SlotNumberToKey(s)
  /\ \A i : BBoltDatabase!TxInputKey(i) = Facts!TxInputKey(i)
  /\ \A k : BBoltDatabase!NewTxInputFromBytes(k) = Facts!NewTxInputFromBytes(k)
<1>1. BBoltDatabase!Power = Facts!Power
  BY DEF BBoltDatabase!Power, Facts!Power
<1>2. \A n, w : BBoltDatabase!BigEndian(n, w) = Facts!BigEndian(n, w)
  BY <1>1 DEF BBoltDatabase!BigEndian, Facts!BigEndian
<1>3. \A bytes : BBoltDatabase!FromBigEndian(bytes) = Facts!FromBigEndian(bytes)
  BY Zenon DEF BBoltDatabase!FromBigEndian, Facts!FromBigEndian
<1>4. \A t : BBoltDatabase!TxKey(t) = Facts!TxKey(t)
  BY <1>2 DEF BBoltDatabase!TxKey, Facts!TxKey
<1>5. \A s : BBoltDatabase!SlotNumberToKey(s) = Facts!SlotNumberToKey(s)
  BY <1>2 DEF BBoltDatabase!SlotNumberToKey, Facts!SlotNumberToKey
<1>6. \A b : BBoltDatabase!BlockKey(b) = Facts!SlotNumberToKey(b.Slot)
  BY <1>5 DEF BBoltDatabase!BlockKey
<1>7. \A i : BBoltDatabase!TxInputKey(i) = Facts!TxInputKey(i)
  BY <1>2 DEF BBoltDatabase!TxInputKey, Facts!TxInputKey
<1>8. \A k : BBoltDatabase!NewTxInputFromBytes(k) = Facts!NewTxInputFromBytes(k)
  BY <1>3 DEF BBoltDatabase!NewTxInputFromBytes, Facts!NewTxInputFromBytes
<1>9. QED
  BY <1>4, <1>5, <1>6, <1>7, <1>8

LEMMA LevelDBKeys ==
  /\ \A t : LevelDBDatabase!TxKey(t) = Facts!TxKey(t)
  /\ \A b : LevelDBDatabase!BlockKey(b) = Facts!SlotNumberToKey(b.Slot)
  /\ \A s : LevelDBDatabase!SlotNumberToKey(s) = Facts!SlotNumberToKey(s)
  /\ \A i : LevelDBDatabase!TxInputKey(i) = Facts!TxInputKey(i)
<1>1. LevelDBDatabase!Power = Facts!Power
  BY DEF LevelDBDatabase!Power, Facts!Power
<1>2. \A n, w : LevelDBDatabase!BigEndian(n, w) = Facts!BigEndian(n, w)
  BY <1>1 DEF LevelDBDatabase!BigEndian, Facts!BigEndian
<1>3. \A t : LevelDBDatabase!TxKey(t) = Facts!TxKey(t)
  BY <1>2 DEF LevelDBDatabase!TxKey, Facts!TxKey
<1>4. \A s : LevelDBDatabase!SlotNumberToKey(s) = Facts!SlotNumberToKey(s)
  BY <1>2 DEF LevelDBDatabase!SlotNumberToKey, Facts!SlotNumberToKey
<1>5. \A b : LevelDBDatabase!BlockKey(b) = Facts!SlotNumberToKey(b.Slot)
  BY <1>4 DEF LevelDBDatabase!BlockKey
<1>6. \A i : LevelDBDatabase!TxInputKey(i) = Facts!TxInputKey(i)
  BY <1>2 DEF LevelDBDatabase!TxInputKey, Facts!TxInputKey
<1>7. QED
  BY <1>3, <1>4, <1>5, <1>6

LEMMA SameOrders ==
  /\ \A S : BBoltDatabase!Sorted(S, BBoltDatabase!Below) = Facts!InKeyOrder(S)
  /\ \A S : LevelDBDatabase!Sorted(S, LevelDBDatabase!Below) = Facts!InKeyOrder(S)
  /\ \A v, n : BBoltDatabase!Limited(v, n) = Facts!Limited(v, n)
  /\ \A v, n : LevelDBDatabase!Limited(v, n) = Facts!Limited(v, n)
<1>1. \A S : BBoltDatabase!Sorted(S, BBoltDatabase!Below) = Facts!InKeyOrder(S)
  BY Zenon DEF BBoltDatabase!Sorted, BBoltDatabase!Cardinality, Facts!Cardinality,
         BBoltDatabase!Below, Facts!InKeyOrder, Facts!Sorted,
         Facts!Below
<1>2. \A S : LevelDBDatabase!Sorted(S, LevelDBDatabase!Below) = Facts!InKeyOrder(S)
  BY Zenon DEF LevelDBDatabase!Sorted, LevelDBDatabase!Cardinality, Facts!Cardinality,
         LevelDBDatabase!Below, Facts!InKeyOrder, Facts!Sorted,
         Facts!Below
<1>3. QED
  BY <1>1, <1>2 DEF BBoltDatabase!Limited, LevelDBDatabase!Limited, Facts!Limited

\* The calls of a transaction: those of a block above the latest point, or
\* those that fill the outputs anew.
NewBlock(point, own, slot, c, calls) ==
  /\ slot \in Slots /\ slot > point
  /\ c \in Facts!BlockContents
  /\ own \/ ~c.softDelete \/ c.added \cap c.removed = {}
  /\ calls = Facts!BlockCalls(slot, c)

Refill(point, added, calls) ==
  /\ point # 0
  /\ added \in SUBSET TxInputs
  /\ calls = <<Facts!DeleteAllTxOutputsPhysically, Facts!AddTxOutputs(added, point)>>

LEMMA OfCalls ==
  ASSUME NEW point, NEW own, NEW calls
  PROVE  calls \in Facts!Calls(point, own) <=>
           \/ \E slot, c : NewBlock(point, own, slot, c, calls)
           \/ \E added : Refill(point, added, calls)
<1> DEFINE later == {s \in Slots : s > point}
           F(slot) == Facts!ConfirmedBlockCalls(slot, own)
           new == UNION {F(slot) : slot \in later}
           refills == IF point = 0 THEN {} ELSE Facts!RefillCalls(point)
<1>1. calls \in Facts!Calls(point, own) <=> calls \in new \/ calls \in refills
  <2>1. Facts!Calls(point, own) = new \cup refills
    BY DEF Facts!Calls
  <2> HIDE DEF new, refills
  <2>2. QED
    BY <2>1
<1>2. calls \in new <=> \E slot \in later : calls \in F(slot)
  <2> HIDE DEF F, later
  <2>1. QED
    OBVIOUS
<1>3. ASSUME NEW slot
      PROVE  calls \in F(slot) <=>
               \E c \in Facts!BlockContents :
                 /\ own \/ ~c.softDelete \/ c.added \cap c.removed = {}
                 /\ calls = Facts!BlockCalls(slot, c)
  BY DEF Facts!ConfirmedBlockCalls
<1>4. calls \in new <=> \E slot, c : NewBlock(point, own, slot, c, calls)
  <2> HIDE DEF F, new
  <2>1. QED
    BY <1>2, <1>3 DEF NewBlock
<1>5. calls \in refills <=> \E added : Refill(point, added, calls)
  BY DEF Facts!RefillCalls, Refill
<1>6. QED
  <2> HIDE DEF new, refills
  <2>1. QED
    BY <1>1, <1>4, <1>5

LEMMA SameCalls ==
  ASSUME NEW point, NEW own
  PROVE  /\ BBoltDatabase!Calls(point, own) = Facts!Calls(point, own)
         /\ LevelDBDatabase!Calls(point, own) = Facts!Calls(point, own)
<1>1. BBoltDatabase!Calls(point, own) = Facts!Calls(point, own)
  BY DEF BBoltDatabase!Calls, BBoltDatabase!ConfirmedBlockCalls, BBoltDatabase!BlockContents,
         BBoltDatabase!RefillCalls, BBoltDatabase!BlockCalls, BBoltDatabase!TxsOf,
         BBoltDatabase!AddConfirmedTxs, BBoltDatabase!AddConfirmedBlock,
         BBoltDatabase!SetLatestBlockPoint, BBoltDatabase!AddTxOutputs,
         BBoltDatabase!RemoveTxOutputs, BBoltDatabase!DeleteAllTxOutputsPhysically,
         Facts!Calls, Facts!ConfirmedBlockCalls, Facts!BlockContents, Facts!RefillCalls,
         Facts!BlockCalls, Facts!TxsOf, Facts!AddConfirmedTxs, Facts!AddConfirmedBlock,
         Facts!SetLatestBlockPoint, Facts!AddTxOutputs, Facts!RemoveTxOutputs,
         Facts!DeleteAllTxOutputsPhysically
<1>2. LevelDBDatabase!Calls(point, own) = Facts!Calls(point, own)
  BY DEF LevelDBDatabase!Calls, LevelDBDatabase!ConfirmedBlockCalls,
         LevelDBDatabase!BlockContents, LevelDBDatabase!RefillCalls,
         LevelDBDatabase!BlockCalls, LevelDBDatabase!TxsOf,
         LevelDBDatabase!AddConfirmedTxs, LevelDBDatabase!AddConfirmedBlock,
         LevelDBDatabase!SetLatestBlockPoint, LevelDBDatabase!AddTxOutputs,
         LevelDBDatabase!RemoveTxOutputs, LevelDBDatabase!DeleteAllTxOutputsPhysically,
         Facts!Calls, Facts!ConfirmedBlockCalls, Facts!BlockContents, Facts!RefillCalls,
         Facts!BlockCalls, Facts!TxsOf, Facts!AddConfirmedTxs, Facts!AddConfirmedBlock,
         Facts!SetLatestBlockPoint, Facts!AddTxOutputs, Facts!RemoveTxOutputs,
         Facts!DeleteAllTxOutputsPhysically
<1>3. QED
  BY <1>1, <1>2

-----------------------------------------------------------------------------
\* Buckets of bbolt.

\* What is in it, each value under its own key.
Filed(bucket) == {bucket[k] : k \in DOMAIN bucket}
IsBucket(bucket, values, key) ==
  \A k \in DOMAIN bucket : bucket[k] \in values /\ k = key[bucket[k]]

\* One bucket with the values of another and some more, or without some.
WithValues(before, after, values, key) ==
  /\ DOMAIN after = DOMAIN before \cup Facts!KeysOf(values, key)
  /\ \A v \in values : after[key[v]] = v
  /\ \A k \in DOMAIN before \ Facts!KeysOf(values, key) : after[k] = before[k]

OwnKeys(values, others, key) == \A v \in values, w \in others : key[v] = key[w] => v = w

LEMMA FiledValues ==
  ASSUME NEW V, NEW key, NEW before, IsBucket(before, V, key), NEW values \in SUBSET V,
         NEW after, WithValues(before, after, values, key),
         OwnKeys(values, Filed(before), key)
  PROVE  IsBucket(after, V, key) /\ Filed(after) = Filed(before) \cup values
<1>1. ASSUME NEW k \in DOMAIN after
      PROVE  \/ k \in DOMAIN before /\ after[k] = before[k]
             \/ \E v \in values : k = key[v] /\ after[k] = v
  BY DEF WithValues, Facts!KeysOf
<1>2. IsBucket(after, V, key)
  BY <1>1 DEF IsBucket
<1>3. Filed(after) \subseteq Filed(before) \cup values
  BY <1>1 DEF Filed
<1>4. values \subseteq Filed(after)
  <2> SUFFICES ASSUME NEW v \in values
               PROVE  v \in Filed(after)
    OBVIOUS
  <2>1. key[v] \in DOMAIN after /\ after[key[v]] = v
    BY DEF WithValues, Facts!KeysOf
  <2>2. QED
    BY <2>1 DEF Filed
<1>5. Filed(before) \subseteq Filed(after)
  <2> SUFFICES ASSUME NEW k \in DOMAIN before
               PROVE  before[k] \in Filed(after)
    BY DEF Filed
  <2>1. CASE k \in Facts!KeysOf(values, key)
    <3>1. PICK v \in values : k = key[v]
      BY <2>1 DEF Facts!KeysOf
    <3>2. PICK w \in Filed(before) : w = before[k] /\ k = key[w]
      BY DEF Filed, IsBucket
    <3>3. v = w
      BY <3>1, <3>2 DEF OwnKeys
    <3>4. QED
      BY <1>4, <3>2, <3>3
  <2>2. CASE k \notin Facts!KeysOf(values, key)
    <3>1. k \in DOMAIN after /\ after[k] = before[k]
      BY <2>2 DEF WithValues
    <3>2. QED
      BY <3>1 DEF Filed
  <2>3. QED
    BY <2>1, <2>2
<1>6. QED
  BY <1>2, <1>3, <1>4, <1>5

WithoutValues(before, after, values, key) ==
  after = [k \in DOMAIN before \ Facts!KeysOf(values, key) |-> before[k]]

LEMMA DeletedValues ==
  ASSUME NEW V, NEW key, NEW before, IsBucket(before, V, key), NEW values,
         NEW after, WithoutValues(before, after, values, key),
         OwnKeys(values, Filed(before), key)
  PROVE  IsBucket(after, V, key) /\ Filed(after) = Filed(before) \ values
<1>1. /\ DOMAIN after = DOMAIN before \ Facts!KeysOf(values, key)
      /\ \A k \in DOMAIN after : after[k] = before[k]
  BY DEF WithoutValues
<1>2. IsBucket(after, V, key)
  BY <1>1 DEF IsBucket
<1>3. ASSUME NEW k \in DOMAIN before
      PROVE  before[k] \in values <=> k \in Facts!KeysOf(values, key)
  <2>1. PICK w \in Filed(before) : w = before[k] /\ k = key[w]
    BY DEF Filed, IsBucket
  <2>2. \A v \in values : key[v] = key[w] => v = w
    BY DEF OwnKeys
  <2>3. QED
    BY <2>1, <2>2 DEF Facts!KeysOf
<1>4. Filed(after) = Filed(before) \ values
  BY <1>1, <1>3 DEF Filed
<1>5. QED
  BY <1>2, <1>4

TxKeyOf == [t \in Facts!Tx |-> Facts!TxKey(t)]
BlockKeyOf == [b \in Facts!Block |-> Facts!SlotNumberToKey(b.Slot)]

LEMMA TxKeyFacts ==
  /\ \A t \in Facts!Tx : TxKeyOf[t] = BBoltDatabase!TxKey(t)
  /\ OwnKeys(Facts!Tx, Facts!Tx, TxKeyOf)
<1>1. \A t \in Facts!Tx : TxKeyOf[t] = Facts!TxKey(t)
  BY DEF TxKeyOf
<1>2. \A t, u \in Facts!Tx : Facts!TxKey(t) = Facts!TxKey(u) => t = u
  BY Assumed, Facts!TxKeys
<1>3. QED
  BY <1>1, <1>2, BBoltKeys DEF OwnKeys

LEMMA BlockKeyFacts ==
  /\ \A b \in Facts!Block : BlockKeyOf[b] = BBoltDatabase!BlockKey(b)
  /\ \A b, c \in Facts!Block : BlockKeyOf[b] = BlockKeyOf[c] => b.Slot = c.Slot
<1>1. \A b \in Facts!Block : BlockKeyOf[b] = Facts!SlotNumberToKey(b.Slot)
  BY DEF BlockKeyOf
<1>2. \A b \in Facts!Block : b.Slot \in Slots \cup {0}
  BY DEF Facts!Block
<1>3. \A s, t \in Slots \cup {0} :
        Facts!SlotNumberToKey(s) = Facts!SlotNumberToKey(t) => s = t
  BY Assumed, Facts!SlotKeys
<1>4. QED
  BY <1>1, <1>2, <1>3, BBoltKeys

LEMMA TxsPut ==
  ASSUME NEW before, IsBucket(before, Facts!Tx, TxKeyOf), NEW txs \in SUBSET Facts!Tx,
         NEW after, after = BBoltDatabase!PutAll(before, txs, BBoltDatabase!TxKey)
  PROVE  IsBucket(after, Facts!Tx, TxKeyOf) /\ Filed(after) = Filed(before) \cup txs
<1> DEFINE new == {BBoltDatabase!TxKey(t) : t \in txs}
           At(k) == CHOOSE t \in txs : BBoltDatabase!TxKey(t) = k
<1>1. after = [k \in DOMAIN before \cup new |-> IF k \in new THEN At(k) ELSE before[k]]
  BY DEF BBoltDatabase!PutAll
<1>2. ASSUME NEW t \in txs
      PROVE  At(TxKeyOf[t]) = t /\ TxKeyOf[t] \in new
  <2>1. TxKeyOf[t] = BBoltDatabase!TxKey(t)
    BY TxKeyFacts
  <2>2. \A u \in txs : BBoltDatabase!TxKey(u) = BBoltDatabase!TxKey(t) => u = t
    BY TxKeyFacts DEF OwnKeys
  <2>3. QED
    BY <2>1, <2>2
<1>3. new = Facts!KeysOf(txs, TxKeyOf)
  BY TxKeyFacts DEF Facts!KeysOf
<1> HIDE DEF new, At
<1>4. DOMAIN after = DOMAIN before \cup new
  BY <1>1
<1>5. ASSUME NEW t \in txs
      PROVE  after[TxKeyOf[t]] = t
  <2>1. PICK k : k = TxKeyOf[t]
    OBVIOUS
  <2>2. k \in new /\ At(k) = t
    BY <1>2, <2>1
  <2>3. QED
    BY <1>1, <2>1, <2>2
<1>6. \A k \in DOMAIN before \ new : after[k] = before[k]
  BY <1>1
<1>7. WithValues(before, after, txs, TxKeyOf)
  BY <1>3, <1>4, <1>5, <1>6 DEF WithValues
<1>8. OwnKeys(txs, Filed(before), TxKeyOf)
  BY TxKeyFacts DEF OwnKeys, Filed, IsBucket
<1>9. QED
  BY <1>7, <1>8, FiledValues

LEMMA TxsDeleted ==
  ASSUME NEW before, IsBucket(before, Facts!Tx, TxKeyOf), NEW txs \in SUBSET Facts!Tx,
         NEW after,
         after = BBoltDatabase!Delete(before, {BBoltDatabase!TxKey(t) : t \in txs})
  PROVE  IsBucket(after, Facts!Tx, TxKeyOf) /\ Filed(after) = Filed(before) \ txs
<1>1. {BBoltDatabase!TxKey(t) : t \in txs} = Facts!KeysOf(txs, TxKeyOf)
  BY TxKeyFacts DEF Facts!KeysOf
<1>2. OwnKeys(txs, Filed(before), TxKeyOf)
  BY TxKeyFacts DEF OwnKeys, Filed, IsBucket
<1>3. WithoutValues(before, after, txs, TxKeyOf)
  BY <1>1 DEF BBoltDatabase!Delete, WithoutValues
<1>4. QED
  BY <1>2, <1>3, DeletedValues

LEMMA BlockPut ==
  ASSUME NEW before, IsBucket(before, Facts!Block, BlockKeyOf), NEW block \in Facts!Block,
         \A b \in Filed(before) : b.Slot # block.Slot,
         NEW after, after = BBoltDatabase!PutAll(before, {block}, BBoltDatabase!BlockKey)
  PROVE  IsBucket(after, Facts!Block, BlockKeyOf) /\ Filed(after) = Filed(before) \cup {block}
<1>1. PICK key : key = BlockKeyOf[block] /\ key = BBoltDatabase!BlockKey(block)
  BY BlockKeyFacts
<1> DEFINE new == {BBoltDatabase!BlockKey(b) : b \in {block}}
           At(k) == CHOOSE b \in {block} : BBoltDatabase!BlockKey(b) = k
<1>2. after = [k \in DOMAIN before \cup new |-> IF k \in new THEN At(k) ELSE before[k]]
  BY DEF BBoltDatabase!PutAll
<1>3. new = {key} /\ At(key) = block
  BY <1>1
<1>4. {key} = Facts!KeysOf({block}, BlockKeyOf)
  BY <1>1 DEF Facts!KeysOf
<1> HIDE DEF new, At
<1>5. WithValues(before, after, {block}, BlockKeyOf)
  BY <1>1, <1>2, <1>3, <1>4 DEF WithValues
<1>6. OwnKeys({block}, Filed(before), BlockKeyOf)
  BY BlockKeyFacts DEF OwnKeys, Filed, IsBucket
<1>7. QED
  BY <1>5, <1>6, FiledValues

LEMMA PointPut ==
  ASSUME NEW before, DOMAIN before \subseteq {<<>>}, NEW slot,
         NEW after,
         after = BBoltDatabase!PutAll(before, {slot}, LAMBDA s : BBoltDatabase!defaultKey)
  PROVE  DOMAIN after = {<<>>} /\ after[<<>>] = slot
<1>1. PICK key : key = BBoltDatabase!defaultKey /\ key = <<>>
  BY DEF BBoltDatabase!defaultKey
<1> DEFINE new == {BBoltDatabase!defaultKey : s \in {slot}}
           At(k) == CHOOSE s \in {slot} : BBoltDatabase!defaultKey = k
<1>2. after = [k \in DOMAIN before \cup new |-> IF k \in new THEN At(k) ELSE before[k]]
  BY DEF BBoltDatabase!PutAll
<1>3. new = {key} /\ At(key) = slot
  BY <1>1
<1>4. DOMAIN before \subseteq {key}
  BY <1>1
<1> HIDE DEF new, At
<1>5. DOMAIN after = {key} /\ after[key] = slot
  BY <1>2, <1>3, <1>4
<1>6. QED
  BY <1>1, <1>5

\* The outputs a bucket has, by what identifies them.

OutputBucket(b) ==
  \A k \in DOMAIN b : b[k] \in Facts!Output /\ \E i \in TxInputs : k = Facts!TxInputKey(i)
InputsIn(b) == {i \in TxInputs : Facts!TxInputKey(i) \in DOMAIN b}
OutputsIn(b) == [i \in InputsIn(b) |-> b[Facts!TxInputKey(i)]]

LEMMA InputKeys ==
  ASSUME NEW i \in TxInputs
  PROVE  /\ BBoltDatabase!NewTxInputFromBytes(Facts!TxInputKey(i)) = i
         /\ Facts!NewTxInputFromBytes(Facts!TxInputKey(i)) = i
         /\ \A j \in TxInputs : Facts!TxInputKey(i) = Facts!TxInputKey(j) => i = j
<1>1. \A j \in TxInputs : Facts!NewTxInputFromBytes(Facts!TxInputKey(j)) = j
  BY Assumed, Facts!TxInputKeys
<1>2. QED
  BY <1>1, BBoltKeys

LEMMA BBoltOutputs ==
  ASSUME NEW b, OutputBucket(b)
  PROVE  [i \in {BBoltDatabase!NewTxInputFromBytes(k) : k \in DOMAIN b} |->
            b[BBoltDatabase!TxInputKey(i)]] = OutputsIn(b)
<1>1. {BBoltDatabase!NewTxInputFromBytes(k) : k \in DOMAIN b} = InputsIn(b)
  <2>1. ASSUME NEW k \in DOMAIN b
        PROVE  BBoltDatabase!NewTxInputFromBytes(k) \in InputsIn(b)
    <3>1. PICK i \in TxInputs : k = Facts!TxInputKey(i)
      BY DEF OutputBucket
    <3>2. QED
      BY <3>1, InputKeys DEF InputsIn
  <2>2. ASSUME NEW i \in InputsIn(b)
        PROVE  \E k \in DOMAIN b : i = BBoltDatabase!NewTxInputFromBytes(k)
    BY InputKeys DEF InputsIn
  <2>3. QED
    BY <2>1, <2>2
<1>2. \A i : BBoltDatabase!TxInputKey(i) = Facts!TxInputKey(i)
  BY BBoltKeys
<1>3. QED
  BY <1>1, <1>2 DEF OutputsIn

\* What a call does to the outputs of a bucket, key by key.
HasOutputs(after, inputs, outputs) ==
  /\ outputs = [i \in inputs |-> outputs[i]]
  /\ \A i \in TxInputs :
       /\ Facts!TxInputKey(i) \in DOMAIN after <=> i \in inputs
       /\ i \in inputs => after[Facts!TxInputKey(i)] = outputs[i]

LEMMA OutputsWritten ==
  ASSUME NEW after, NEW inputs \in SUBSET TxInputs, NEW outputs,
         HasOutputs(after, inputs, outputs)
  PROVE  OutputsIn(after) = outputs
<1> USE DEF HasOutputs
<1>1. InputsIn(after) = inputs
  BY DEF InputsIn
<1>2. \A i \in inputs : after[Facts!TxInputKey(i)] = outputs[i]
  OBVIOUS
<1>3. OutputsIn(after) = [i \in inputs |-> outputs[i]]
  BY <1>1, <1>2 DEF OutputsIn
<1>4. QED
  BY <1>3

KeysOfInputs(inputs) == {Facts!TxInputKey(i) : i \in inputs}

LEMMA SameInputKeys ==
  /\ \A inputs : BBoltDatabase!Keys(inputs) = KeysOfInputs(inputs)
  /\ \A inputs \in SUBSET TxInputs, i \in TxInputs :
       Facts!TxInputKey(i) \in KeysOfInputs(inputs) <=> i \in inputs
<1>1. \A inputs : BBoltDatabase!Keys(inputs) = KeysOfInputs(inputs)
  BY BBoltKeys DEF BBoltDatabase!Keys, KeysOfInputs
<1>2. QED
  BY <1>1, InputKeys DEF KeysOfInputs

LEMMA NewOutput ==
  ASSUME NEW i \in TxInputs, NEW slot \in Slots
  PROVE  Facts!TxOutput(i, slot) \in Facts!Output
  BY DEF Facts!TxOutput, Facts!Output, Facts!Address

LEMMA BBoltAddsOutputs ==
  ASSUME NEW before, OutputBucket(before), NEW inputs \in SUBSET TxInputs, NEW slot \in Slots,
         NEW c, c = Facts!AddTxOutputs(inputs, slot),
         NEW after, after = BBoltDatabase!ApplyToOutputs(before, c)
  PROVE  /\ OutputBucket(after)
         /\ OutputsIn(after) = Facts!WithAdded(OutputsIn(before), inputs, slot)
<1> DEFINE new == KeysOfInputs(inputs)
           At(k) == Facts!TxOutput(Facts!NewTxInputFromBytes(k), slot)
<1>1. c.call = "AddTxOutputs" /\ c.inputs = inputs /\ c.slot = slot
  BY DEF Facts!AddTxOutputs
<1>2. \A k : BBoltDatabase!TxOutput(BBoltDatabase!NewTxInputFromBytes(k), slot) = At(k)
  BY BBoltKeys DEF BBoltDatabase!TxOutput, Facts!TxOutput
<1>3. BBoltDatabase!Keys(inputs) = new
  BY SameInputKeys
<1>4. after = [k \in DOMAIN before \cup new |-> IF k \in new THEN At(k) ELSE before[k]]
  <2> HIDE DEF new, At
  <2>1. after = [k \in DOMAIN before \cup BBoltDatabase!Keys(inputs) |->
                   IF k \in BBoltDatabase!Keys(inputs)
                     THEN BBoltDatabase!TxOutput(BBoltDatabase!NewTxInputFromBytes(k), slot)
                     ELSE before[k]]
    BY <1>1 DEF BBoltDatabase!ApplyToOutputs
  <2>2. QED
    BY <1>2, <1>3, <2>1
<1>5. ASSUME NEW i \in TxInputs
      PROVE  /\ At(Facts!TxInputKey(i)) = Facts!TxOutput(i, slot)
             /\ Facts!TxInputKey(i) \in new <=> i \in inputs
  BY InputKeys, SameInputKeys
<1>6. \A k \in new : \E i \in inputs : k = Facts!TxInputKey(i)
  BY DEF KeysOfInputs
<1> HIDE DEF new, At
<1>7. OutputBucket(after)
  <2> SUFFICES ASSUME NEW k \in DOMAIN after
               PROVE  /\ after[k] \in Facts!Output
                      /\ \E i \in TxInputs : k = Facts!TxInputKey(i)
    BY DEF OutputBucket
  <2>1. CASE k \in new
    <3>1. PICK i \in inputs : k = Facts!TxInputKey(i)
      BY <1>6, <2>1
    <3>2. after[k] = Facts!TxOutput(i, slot)
      BY <1>4, <1>5, <2>1, <3>1
    <3>3. QED
      BY <3>1, <3>2, NewOutput
  <2>2. CASE k \notin new
    BY <1>4, <2>2 DEF OutputBucket
  <2>3. QED
    BY <2>1, <2>2
<1>8. PICK outputs : outputs = Facts!WithAdded(OutputsIn(before), inputs, slot)
  OBVIOUS
<1>9. outputs = [i \in InputsIn(before) \cup inputs |->
                   IF i \in inputs THEN Facts!TxOutput(i, slot) ELSE OutputsIn(before)[i]]
  BY <1>8 DEF Facts!WithAdded, OutputsIn
<1>10. ASSUME NEW i \in TxInputs
       PROVE  /\ Facts!TxInputKey(i) \in DOMAIN after <=> i \in InputsIn(before) \cup inputs
              /\ i \in InputsIn(before) \cup inputs =>
                   after[Facts!TxInputKey(i)] = outputs[i]
  <2>1. PICK k : k = Facts!TxInputKey(i)
    OBVIOUS
  <2>2. k \in new <=> i \in inputs
    BY <1>5, <2>1
  <2>3. i \in InputsIn(before) <=> k \in DOMAIN before
    BY <2>1 DEF InputsIn
  <2>4. k \in DOMAIN after <=> i \in InputsIn(before) \cup inputs
    BY <1>4, <2>2, <2>3
  <2>5. CASE i \in inputs
    <3>1. after[k] = At(k)
      BY <1>4, <2>2, <2>5
    <3>2. outputs[i] = Facts!TxOutput(i, slot)
      BY <1>9, <2>5
    <3>3. QED
      BY <1>5, <2>1, <2>4, <3>1, <3>2
  <2>6. CASE i \notin inputs /\ i \in InputsIn(before)
    <3>1. after[k] = before[k]
      BY <1>4, <2>2, <2>3, <2>6
    <3>2. outputs[i] = OutputsIn(before)[i]
      BY <1>9, <2>6
    <3>3. OutputsIn(before)[i] = before[k]
      BY <2>1, <2>6 DEF OutputsIn
    <3>4. QED
      BY <2>1, <2>4, <3>1, <3>2, <3>3
  <2>7. QED
    BY <2>1, <2>4, <2>5, <2>6
<1>11. OutputsIn(after) = outputs
  <2>1. PICK all \in SUBSET TxInputs : all = InputsIn(before) \cup inputs
    BY DEF InputsIn
  <2>2. outputs = [i \in all |-> outputs[i]]
    BY <1>9, <2>1
  <2>3. QED
    BY <1>10, <2>1, <2>2, OutputsWritten DEF HasOutputs
<1>12. QED
  BY <1>7, <1>8, <1>11

LEMMA BBoltRemovesOutputs ==
  ASSUME NEW before, OutputBucket(before), NEW inputs \in SUBSET TxInputs,
         NEW c, c = Facts!RemoveTxOutputs(inputs, FALSE),
         NEW after, after = BBoltDatabase!ApplyToOutputs(before, c)
  PROVE  /\ OutputBucket(after)
         /\ OutputsIn(after) = Facts!Without(OutputsIn(before), inputs)
<1>1. c.call = "RemoveTxOutputs" /\ c.inputs = inputs /\ c.softDelete = FALSE
  BY DEF Facts!RemoveTxOutputs
<1>2. after = BBoltDatabase!Delete(before, BBoltDatabase!Keys(inputs))
  BY <1>1 DEF BBoltDatabase!ApplyToOutputs
<1>3. PICK gone : gone = KeysOfInputs(inputs)
  OBVIOUS
<1>4. after = [k \in DOMAIN before \ gone |-> before[k]]
  BY <1>2, <1>3, SameInputKeys DEF BBoltDatabase!Delete
<1>5. OutputBucket(after)
  BY <1>4 DEF OutputBucket
<1>6. PICK left \in SUBSET TxInputs : left = InputsIn(before) \ inputs
  BY DEF InputsIn
<1>7. PICK outputs : outputs = Facts!Without(OutputsIn(before), inputs)
  OBVIOUS
<1>8. outputs = [i \in left |-> OutputsIn(before)[i]]
  BY <1>6, <1>7 DEF Facts!Without, OutputsIn
<1>9. ASSUME NEW i \in TxInputs
      PROVE  /\ Facts!TxInputKey(i) \in DOMAIN after <=> i \in left
             /\ i \in left => after[Facts!TxInputKey(i)] = outputs[i]
  <2>1. PICK k : k = Facts!TxInputKey(i)
    OBVIOUS
  <2>2. k \in gone <=> i \in inputs
    BY <1>3, <2>1, SameInputKeys
  <2>3. i \in InputsIn(before) <=> k \in DOMAIN before
    BY <2>1 DEF InputsIn
  <2>4. k \in DOMAIN after <=> i \in left
    BY <1>4, <1>6, <2>2, <2>3
  <2>5. i \in left => after[k] = before[k] /\ outputs[i] = OutputsIn(before)[i]
    BY <1>4, <1>8, <2>4
  <2>6. i \in left => OutputsIn(before)[i] = before[k]
    BY <1>6, <2>1 DEF OutputsIn
  <2>7. QED
    BY <2>1, <2>4, <2>5, <2>6
<1>10. OutputsIn(after) = outputs
  <2>1. outputs = [i \in left |-> outputs[i]]
    BY <1>8
  <2>2. HasOutputs(after, left, outputs)
    BY <1>9, <2>1 DEF HasOutputs
  <2>3. QED
    BY <2>2, OutputsWritten
<1>11. QED
  BY <1>5, <1>7, <1>10

Used(output) == [output EXCEPT !.IsUsed = TRUE]

LEMMA UsedOutput ==
  ASSUME NEW output \in Facts!Output
  PROVE  /\ Used(output) \in Facts!Output
         /\ [output EXCEPT !.IsUsed = output.IsUsed \/ TRUE] = Used(output)
         /\ [output EXCEPT !.IsUsed = output.IsUsed \/ FALSE] = output
  BY DEF Facts!Output, Used

\* Each output used or as it was, in the terms of module Database.
LEMMA UsedOutputs ==
  ASSUME NEW ins, NEW outputs \in [ins -> Facts!Output], NEW inputs
  PROVE  Facts!WithUsed(outputs, inputs) =
           [i \in ins |-> IF i \in inputs THEN Used(outputs[i]) ELSE outputs[i]]
<1>1. ASSUME NEW i \in ins
      PROVE  [outputs[i] EXCEPT !.IsUsed = outputs[i].IsUsed \/ i \in inputs] =
               IF i \in inputs THEN Used(outputs[i]) ELSE outputs[i]
  <2>1. PICK o \in Facts!Output : o = outputs[i]
    OBVIOUS
  <2>2. CASE i \in inputs
    <3>1. [o EXCEPT !.IsUsed = o.IsUsed \/ i \in inputs] = Used(o)
      BY <2>2, UsedOutput DEF Facts!Output, Used
    <3>2. QED
      BY <2>1, <2>2, <3>1
  <2>3. CASE i \notin inputs
    <3>1. [o EXCEPT !.IsUsed = o.IsUsed \/ i \in inputs] = o
      BY <2>3, UsedOutput DEF Facts!Output, Used
    <3>2. QED
      BY <2>1, <2>3, <3>1
  <2>4. QED
    BY <2>2, <2>3
<1>2. Facts!WithUsed(outputs, inputs) =
        [i \in ins |-> [outputs[i] EXCEPT !.IsUsed = outputs[i].IsUsed \/ i \in inputs]]
  BY DEF Facts!WithUsed
<1>3. QED
  BY <1>1, <1>2

LEMMA BBoltUsesOutputs ==
  ASSUME NEW before, OutputBucket(before), NEW inputs \in SUBSET TxInputs,
         NEW c, c = Facts!RemoveTxOutputs(inputs, TRUE),
         NEW after, after = BBoltDatabase!ApplyToOutputs(before, c)
  PROVE  /\ OutputBucket(after)
         /\ OutputsIn(after) = Facts!WithUsed(OutputsIn(before), inputs)
<1>1. c.call = "RemoveTxOutputs" /\ c.inputs = inputs /\ c.softDelete = TRUE
  BY DEF Facts!RemoveTxOutputs
<1>2. PICK used : used = KeysOfInputs(inputs)
  OBVIOUS
<1>3. after = [k \in DOMAIN before |-> IF k \in used THEN Used(before[k]) ELSE before[k]]
  <2>1. after = [k \in DOMAIN before |->
                   IF k \in BBoltDatabase!Keys(inputs)
                     THEN [before[k] EXCEPT !.IsUsed = TRUE] ELSE before[k]]
    BY <1>1 DEF BBoltDatabase!ApplyToOutputs
  <2>2. QED
    BY <1>2, <2>1, SameInputKeys DEF Used
<1>4. OutputBucket(after)
  <2>1. ASSUME NEW k \in DOMAIN after
        PROVE  after[k] \in Facts!Output /\ \E i \in TxInputs : k = Facts!TxInputKey(i)
    <3>1. before[k] \in Facts!Output /\ \E i \in TxInputs : k = Facts!TxInputKey(i)
      BY <1>3 DEF OutputBucket
    <3>2. Used(before[k]) \in Facts!Output
      BY <3>1, UsedOutput
    <3>3. after[k] \in {Used(before[k]), before[k]}
      BY <1>3
    <3>4. QED
      BY <3>1, <3>2, <3>3
  <2>2. QED
    BY <2>1 DEF OutputBucket
<1>5. PICK ins \in SUBSET TxInputs : ins = InputsIn(before)
  BY DEF InputsIn
<1>6. PICK old \in [ins -> Facts!Output] : old = OutputsIn(before)
  <2>1. ASSUME NEW i \in ins
        PROVE  before[Facts!TxInputKey(i)] \in Facts!Output
    BY <1>5 DEF InputsIn, OutputBucket
  <2>2. QED
    BY <1>5, <2>1 DEF OutputsIn
<1>7. PICK outputs : outputs = Facts!WithUsed(old, inputs)
  OBVIOUS
<1>8. outputs = [i \in ins |-> IF i \in inputs THEN Used(old[i]) ELSE old[i]]
  BY <1>7, UsedOutputs
<1>9. ASSUME NEW i \in TxInputs
      PROVE  /\ Facts!TxInputKey(i) \in DOMAIN after <=> i \in ins
             /\ i \in ins => after[Facts!TxInputKey(i)] = outputs[i]
  <2>1. PICK k : k = Facts!TxInputKey(i)
    OBVIOUS
  <2>2. k \in used <=> i \in inputs
    BY <1>2, <2>1, SameInputKeys
  <2>3. i \in ins <=> k \in DOMAIN before
    BY <1>5, <2>1 DEF InputsIn
  <2>4. k \in DOMAIN after <=> i \in ins
    BY <1>3, <2>3
  <2>5. i \in ins => old[i] = before[k]
    BY <1>5, <1>6, <2>1 DEF OutputsIn
  <2>6. i \in ins => after[k] = outputs[i]
    BY <1>3, <1>8, <2>2, <2>3, <2>5
  <2>7. QED
    BY <2>1, <2>4, <2>6
<1>10. OutputsIn(after) = outputs
  <2>1. outputs = [i \in ins |-> outputs[i]]
    BY <1>8
  <2>2. HasOutputs(after, ins, outputs)
    BY <1>9, <2>1 DEF HasOutputs
  <2>3. QED
    BY <2>2, OutputsWritten
<1>11. QED
  BY <1>4, <1>6, <1>7, <1>10

LEMMA BBoltEmpty ==
  /\ OutputBucket(<<>>) /\ OutputsIn(<<>>) = <<>>
  /\ \A V, key : IsBucket(<<>>, V, key)
  /\ Filed(<<>>) = {}
  BY DEF OutputBucket, OutputsIn, InputsIn, IsBucket, Filed

-----------------------------------------------------------------------------
\* The steps of bbolt.

IsAfter(g, bucket, calls, n) ==
  g = [i \in 0..n |-> IF i = 0 THEN bucket
                      ELSE BBoltDatabase!ApplyToOutputs(g[i - 1], calls[i])]

LEMMA AfterExists ==
  ASSUME NEW bucket, NEW calls, NEW n \in Nat
  PROVE  \E g : IsAfter(g, bucket, calls, n)
<1> DEFINE T == {k \in Nat : \E g : IsAfter(g, bucket, calls, k)}
           F(b, c) == BBoltDatabase!ApplyToOutputs(b, c)
<1>1. 0 \in T
  <2> DEFINE g == [i \in 0..0 |-> bucket]
  <2>1. g = [i \in 0..0 |-> IF i = 0 THEN bucket ELSE F(g[i - 1], calls[i])]
    OBVIOUS
  <2>2. QED
    BY <2>1 DEF IsAfter
<1>2. ASSUME NEW k \in T
      PROVE  k + 1 \in T
  <2>1. PICK g : IsAfter(g, bucket, calls, k)
    OBVIOUS
  <2>2. PICK h : h = [i \in 0..(k + 1) |-> IF i = 0 THEN bucket ELSE F(g[i - 1], calls[i])]
    OBVIOUS
  <2>3. ASSUME NEW i \in 0..k
        PROVE  h[i] = g[i]
    <3>1. i \in 0..(k + 1)
      OBVIOUS
    <3>2. QED
      BY <2>1, <2>2, <3>1 DEF IsAfter
  <2>4. ASSUME NEW i \in 0..(k + 1), i # 0
        PROVE  g[i - 1] = h[i - 1]
    <3>1. i - 1 \in 0..k
      BY <2>4
    <3>2. QED
      BY <2>3, <3>1
  <2>5. h = [i \in 0..(k + 1) |-> IF i = 0 THEN bucket ELSE F(h[i - 1], calls[i])]
    <3> HIDE DEF F
    <3>1. QED
      BY <2>2, <2>4
  <2>6. QED
    BY <2>5 DEF IsAfter
<1>3. T = Nat
  <2> HIDE DEF T
  <2>1. T \in SUBSET Nat
    BY DEF T
  <2>2. QED
    BY <1>1, <1>2, <2>1, Assumed, Facts!AllNumbers
<1>4. QED
  BY <1>3

Then(bucket, c) == BBoltDatabase!ApplyToOutputs(bucket, c)

Steps(g, bucket, calls, n) ==
  /\ g[0] = bucket
  /\ \A i \in 1..n : g[i] = Then(g[i - 1], calls[i])

LEMMA AfterCalls ==
  ASSUME NEW bucket, NEW calls, NEW n \in Nat, Len(calls) = n
  PROVE  Steps(BBoltDatabase!OutputsAfter(bucket, calls), bucket, calls, n)
<1> DEFINE after == BBoltDatabase!OutputsAfter(bucket, calls)
<1>1. after = CHOOSE g : IsAfter(g, bucket, calls, n)
  BY DEF BBoltDatabase!OutputsAfter, IsAfter
<1>2. IsAfter(after, bucket, calls, n)
  BY <1>1, AfterExists
<1> HIDE DEF after
<1>3. PICK g : g = after /\ IsAfter(g, bucket, calls, n)
  BY <1>2
<1>4. g[0] = bucket
  BY <1>3 DEF IsAfter
<1>5. ASSUME NEW i \in 1..n
      PROVE  g[i] = Then(g[i - 1], calls[i])
  <2>1. i \in 0..n /\ i # 0
    OBVIOUS
  <2>2. QED
    BY <1>3, <2>1 DEF IsAfter, Then
<1>6. QED
  BY <1>3, <1>4, <1>5 DEF after, Steps

\* The calls of a block's transaction, and what they say.
LEMMA CallsOfBlock ==
  ASSUME NEW slot, NEW c, NEW calls, calls = Facts!BlockCalls(slot, c),
         NEW block, block = [Slot |-> slot, Txs |-> c.txs]
  PROVE  /\ Len(calls) = 5 /\ DOMAIN calls = 1..5
         /\ calls[1] = Facts!AddConfirmedTxs(Facts!TxsOf(block))
         /\ calls[2] = Facts!AddConfirmedBlock(block)
         /\ calls[3] = Facts!SetLatestBlockPoint(slot)
         /\ calls[4] = Facts!AddTxOutputs(c.added, slot)
         /\ calls[5] = Facts!RemoveTxOutputs(c.removed, c.softDelete)
  BY DEF Facts!BlockCalls

LEMMA CallNames ==
  ASSUME NEW slot, NEW c, NEW calls, calls = Facts!BlockCalls(slot, c),
         NEW block, block = [Slot |-> slot, Txs |-> c.txs]
  PROVE  /\ calls[1].call = "AddConfirmedTxs" /\ calls[1].txs = Facts!TxsOf(block)
         /\ calls[2].call = "AddConfirmedBlock" /\ calls[2].block = block
         /\ calls[3].call = "SetLatestBlockPoint" /\ calls[3].slot = slot
         /\ calls[4].call = "AddTxOutputs" /\ calls[4].inputs = c.added /\ calls[4].slot = slot
         /\ calls[5].call = "RemoveTxOutputs" /\ calls[5].inputs = c.removed
         /\ calls[5].softDelete = c.softDelete
<1>1. calls[1].call = "AddConfirmedTxs" /\ calls[1].txs = Facts!TxsOf(block)
  <2>1. PICK d : d = calls[1]
    OBVIOUS
  <2>2. PICK txs : txs = Facts!TxsOf(block)
    OBVIOUS
  <2>3. d = Facts!AddConfirmedTxs(txs)
    BY <2>1, <2>2, CallsOfBlock
  <2>4. d.call = "AddConfirmedTxs" /\ d.txs = txs
    BY <2>3 DEF Facts!AddConfirmedTxs
  <2>5. QED
    BY <2>1, <2>2, <2>4
<1>2. calls[2].call = "AddConfirmedBlock" /\ calls[2].block = block
  <2>1. PICK d : d = calls[2]
    OBVIOUS
  <2>2. d = Facts!AddConfirmedBlock(block)
    BY <2>1, CallsOfBlock
  <2>3. d.call = "AddConfirmedBlock" /\ d.block = block
    BY <2>2 DEF Facts!AddConfirmedBlock
  <2>4. QED
    BY <2>1, <2>3
<1>3. calls[3].call = "SetLatestBlockPoint" /\ calls[3].slot = slot
  <2>1. PICK d : d = calls[3]
    OBVIOUS
  <2>2. d = Facts!SetLatestBlockPoint(slot)
    BY <2>1, CallsOfBlock
  <2>3. d.call = "SetLatestBlockPoint" /\ d.slot = slot
    BY <2>2 DEF Facts!SetLatestBlockPoint
  <2>4. QED
    BY <2>1, <2>3
<1>4. calls[4].call = "AddTxOutputs" /\ calls[4].inputs = c.added /\ calls[4].slot = slot
  <2>1. PICK d : d = calls[4]
    OBVIOUS
  <2>2. PICK inputs : inputs = c.added
    OBVIOUS
  <2>3. d = Facts!AddTxOutputs(inputs, slot)
    BY <2>1, <2>2, CallsOfBlock
  <2>4. d.call = "AddTxOutputs" /\ d.inputs = inputs /\ d.slot = slot
    BY <2>3 DEF Facts!AddTxOutputs
  <2>5. QED
    BY <2>1, <2>2, <2>4
<1>5. /\ calls[5].call = "RemoveTxOutputs" /\ calls[5].inputs = c.removed
      /\ calls[5].softDelete = c.softDelete
  <2>1. PICK d : d = calls[5]
    OBVIOUS
  <2>2. PICK inputs, softDelete : inputs = c.removed /\ softDelete = c.softDelete
    OBVIOUS
  <2>3. d = Facts!RemoveTxOutputs(inputs, softDelete)
    BY <2>1, <2>2, CallsOfBlock
  <2>4. d.call = "RemoveTxOutputs" /\ d.inputs = inputs /\ d.softDelete = softDelete
    BY <2>3 DEF Facts!RemoveTxOutputs
  <2>5. QED
    BY <2>1, <2>2, <2>4
<1>6. QED
  BY <1>1, <1>2, <1>3, <1>4, <1>5

LEMMA OtherCalls ==
  ASSUME NEW bucket, NEW c,
         c.call \in {"AddConfirmedTxs", "AddConfirmedBlock", "SetLatestBlockPoint"}
  PROVE  Then(bucket, c) = bucket
  BY DEF Then, BBoltDatabase!ApplyToOutputs

LEMMA BlockOutputs ==
  ASSUME NEW bucket, OutputBucket(bucket), NEW slot \in Slots, NEW c \in Facts!BlockContents,
         NEW calls, calls = Facts!BlockCalls(slot, c),
         NEW after, after = BBoltDatabase!OutputsAfter(bucket, calls)[Len(calls)]
  PROVE  /\ OutputBucket(after)
         /\ OutputsIn(after) =
              Facts!WithoutOrUsed(Facts!WithAdded(OutputsIn(bucket), c.added, slot), c.removed,
                                  c.softDelete)
<1>1. PICK block : block = [Slot |-> slot, Txs |-> c.txs]
  OBVIOUS
<1>2. Len(calls) = 5 /\ 5 \in Nat
  BY <1>1, CallsOfBlock
<1>3. PICK g : /\ BBoltDatabase!OutputsAfter(bucket, calls) = g
               /\ g[0] = bucket
               /\ \A i \in 1..5 : g[i] = Then(g[i - 1], calls[i])
  <2>1. PICK g : g = BBoltDatabase!OutputsAfter(bucket, calls)
    OBVIOUS
  <2>2. Steps(g, bucket, calls, 5)
    BY <1>2, <2>1, AfterCalls
  <2>3. QED
    BY <2>1, <2>2 DEF Steps
<1>4. g[3] = bucket
  <2>1. g[1] = Then(g[0], calls[1]) /\ g[2] = Then(g[1], calls[2]) /\ g[3] = Then(g[2], calls[3])
    BY <1>3
  <2>2. g[1] = bucket
    BY <1>1, <1>3, <2>1, CallNames, OtherCalls
  <2>3. g[2] = bucket
    BY <1>1, <2>1, <2>2, CallNames, OtherCalls
  <2>4. QED
    BY <1>1, <2>1, <2>3, CallNames, OtherCalls
<1>5. c.added \in SUBSET TxInputs /\ c.removed \in SUBSET TxInputs /\ c.softDelete \in BOOLEAN
  BY DEF Facts!BlockContents
<1>6. PICK b4 : b4 = g[4]
  OBVIOUS
<1>7. OutputBucket(b4) /\ OutputsIn(b4) = Facts!WithAdded(OutputsIn(bucket), c.added, slot)
  <2>1. b4 = BBoltDatabase!ApplyToOutputs(bucket, calls[4])
    BY <1>3, <1>4, <1>6 DEF Then
  <2>2. calls[4] = Facts!AddTxOutputs(c.added, slot)
    BY <1>1, CallsOfBlock
  <2>3. QED
    BY <1>5, <2>1, <2>2, BBoltAddsOutputs
<1>8. after = BBoltDatabase!ApplyToOutputs(b4, calls[5])
  <2>1. g[5] = Then(g[4], calls[5])
    BY <1>3
  <2>2. QED
    BY <1>2, <1>3, <1>6, <2>1 DEF Then
<1>9. calls[5] = Facts!RemoveTxOutputs(c.removed, c.softDelete)
  BY <1>1, CallsOfBlock
<1>10. CASE c.softDelete = TRUE
  <2>0. PICK d, removed : /\ d = calls[5] /\ removed = c.removed
                          /\ d = Facts!RemoveTxOutputs(removed, TRUE)
    BY <1>9, <1>10
  <2>a. removed \in SUBSET TxInputs /\ after = BBoltDatabase!ApplyToOutputs(b4, d)
    BY <1>5, <1>8, <2>0
  <2>1. OutputBucket(after) /\ OutputsIn(after) = Facts!WithUsed(OutputsIn(b4), c.removed)
    BY <1>7, <2>0, <2>a, BBoltUsesOutputs
  <2>2. QED
    BY <1>7, <1>10, <2>1 DEF Facts!WithoutOrUsed
<1>11. CASE c.softDelete = FALSE
  <2>0. PICK d, removed : /\ d = calls[5] /\ removed = c.removed
                          /\ d = Facts!RemoveTxOutputs(removed, FALSE)
    BY <1>9, <1>11
  <2>a. removed \in SUBSET TxInputs /\ after = BBoltDatabase!ApplyToOutputs(b4, d)
    BY <1>5, <1>8, <2>0
  <2>1. OutputBucket(after) /\ OutputsIn(after) = Facts!Without(OutputsIn(b4), c.removed)
    BY <1>7, <2>0, <2>a, BBoltRemovesOutputs
  <2>2. QED
    BY <1>7, <1>11, <2>1 DEF Facts!WithoutOrUsed
<1>12. QED
  BY <1>5, <1>10, <1>11

LEMMA RefilledOutputs ==
  ASSUME NEW bucket, NEW slot \in Slots, NEW added \in SUBSET TxInputs,
         NEW calls, Refill(slot, added, calls),
         NEW after, after = BBoltDatabase!OutputsAfter(bucket, calls)[Len(calls)]
  PROVE  /\ OutputBucket(after)
         /\ OutputsIn(after) = Facts!WithAdded(<<>>, added, slot)
<1>1. /\ Len(calls) = 2 /\ 2 \in Nat
      /\ calls[1] = Facts!DeleteAllTxOutputsPhysically
      /\ calls[2] = Facts!AddTxOutputs(added, slot)
  BY DEF Refill
<1>2. PICK g : /\ BBoltDatabase!OutputsAfter(bucket, calls) = g
               /\ g[0] = bucket
               /\ \A i \in 1..2 : g[i] = Then(g[i - 1], calls[i])
  <2>1. PICK g : g = BBoltDatabase!OutputsAfter(bucket, calls)
    OBVIOUS
  <2>2. Steps(g, bucket, calls, 2)
    BY <1>1, <2>1, AfterCalls
  <2>3. QED
    BY <2>1, <2>2 DEF Steps
<1>3. PICK b1 : b1 = g[1]
  OBVIOUS
<1>4. b1 = <<>>
  <2>1. b1 = Then(bucket, calls[1])
    BY <1>2, <1>3
  <2>2. calls[1].call = "DeleteAllTxOutputsPhysically"
    BY <1>1 DEF Facts!DeleteAllTxOutputsPhysically
  <2>3. QED
    BY <2>1, <2>2 DEF Then, BBoltDatabase!ApplyToOutputs
<1>5. after = BBoltDatabase!ApplyToOutputs(b1, calls[2])
  <2>1. g[2] = Then(g[1], calls[2])
    BY <1>2
  <2>2. QED
    BY <1>1, <1>2, <1>3, <2>1 DEF Then
<1>6. QED
  BY <1>1, <1>4, <1>5, BBoltEmpty, BBoltAddsOutputs

LEMMA BlockArguments ==
  ASSUME NEW slot, NEW c, NEW calls, calls = Facts!BlockCalls(slot, c),
         NEW block, block = [Slot |-> slot, Txs |-> c.txs]
  PROVE  /\ BBoltDatabase!PointsOf(calls) = {slot}
         /\ BBoltDatabase!BlocksOf(calls) = {block}
         /\ BBoltDatabase!TransactionsOf(calls) =
              Facts!TxsOf(block)
<1>1. DOMAIN calls = 1..5
  BY CallsOfBlock
<1>2. /\ {j \in DOMAIN calls : calls[j].call = "SetLatestBlockPoint"} = {3}
      /\ {j \in DOMAIN calls : calls[j].call = "AddConfirmedBlock"} = {2}
      /\ {j \in DOMAIN calls : calls[j].call = "AddConfirmedTxs"} = {1}
  <2>1. \A j \in DOMAIN calls : j \in {1, 2, 3, 4, 5}
    BY <1>1
  <2>2. \A j \in {1, 2, 3, 4, 5} : j \in DOMAIN calls
    BY <1>1
  <2>3. PICK name : name = [j \in 1..5 |-> calls[j].call]
    OBVIOUS
  <2>4. /\ name[1] = "AddConfirmedTxs" /\ name[2] = "AddConfirmedBlock"
        /\ name[3] = "SetLatestBlockPoint" /\ name[4] = "AddTxOutputs"
        /\ name[5] = "RemoveTxOutputs"
    BY <2>3, CallNames
  <2>5. \A j \in DOMAIN calls : calls[j].call = name[j]
    BY <1>1, <2>3
  <2>6. QED
    BY <2>1, <2>2, <2>4, <2>5
<1>3. BBoltDatabase!PointsOf(calls) = {slot}
  <2>1. BBoltDatabase!PointsOf(calls) =
          UNION {{calls[i].slot} : i \in {3}}
    BY <1>2 DEF BBoltDatabase!Arguments, BBoltDatabase!PointsOf,
                BBoltDatabase!BlocksOf, BBoltDatabase!TransactionsOf
  <2>2. {{calls[i].slot} : i \in {3}} = {{calls[3].slot}}
    OBVIOUS
  <2>3. calls[3].slot = slot
    BY CallNames
  <2>4. UNION {{slot}} = {slot}
    OBVIOUS
  <2>5. QED
    BY <2>1, <2>2, <2>3, <2>4
<1>4. BBoltDatabase!BlocksOf(calls) = {block}
  <2>1. BBoltDatabase!BlocksOf(calls) =
          UNION {{calls[i].block} : i \in {2}}
    BY <1>2 DEF BBoltDatabase!Arguments, BBoltDatabase!PointsOf,
                BBoltDatabase!BlocksOf, BBoltDatabase!TransactionsOf
  <2>2. {{calls[i].block} : i \in {2}} = {{calls[2].block}}
    OBVIOUS
  <2>3. calls[2].block = block
    BY CallNames
  <2>4. UNION {{block}} = {block}
    OBVIOUS
  <2>5. QED
    BY <2>1, <2>2, <2>3, <2>4
<1>5. BBoltDatabase!TransactionsOf(calls) = Facts!TxsOf(block)
  <2>1. BBoltDatabase!TransactionsOf(calls) =
          UNION {calls[i].txs : i \in {1}}
    BY <1>2 DEF BBoltDatabase!Arguments, BBoltDatabase!PointsOf,
                BBoltDatabase!BlocksOf, BBoltDatabase!TransactionsOf
  <2>2. {calls[i].txs : i \in {1}} = {calls[1].txs}
    OBVIOUS
  <2>3. PICK txs : txs = Facts!TxsOf(block)
    OBVIOUS
  <2>4. calls[1].txs = txs
    BY <2>3, CallNames
  <2>5. UNION {txs} = txs
    OBVIOUS
  <2>6. QED
    BY <2>1, <2>2, <2>3, <2>4, <2>5
<1>6. QED
  BY <1>3, <1>4, <1>5

LEMMA RefillArguments ==
  ASSUME NEW slot, NEW added, NEW calls,
         calls = <<Facts!DeleteAllTxOutputsPhysically, Facts!AddTxOutputs(added, slot)>>
  PROVE  /\ BBoltDatabase!PointsOf(calls) = {}
         /\ BBoltDatabase!BlocksOf(calls) = {}
         /\ BBoltDatabase!TransactionsOf(calls) = {}
<1>1. \A j \in DOMAIN calls : calls[j].call \in {"DeleteAllTxOutputsPhysically", "AddTxOutputs"}
  BY DEF Facts!DeleteAllTxOutputsPhysically, Facts!AddTxOutputs
<1>2. /\ {j \in DOMAIN calls : calls[j].call = "SetLatestBlockPoint"} = {}
      /\ {j \in DOMAIN calls : calls[j].call = "AddConfirmedBlock"} = {}
      /\ {j \in DOMAIN calls : calls[j].call = "AddConfirmedTxs"} = {}
  BY <1>1
<1>3. QED
  BY <1>2 DEF BBoltDatabase!Arguments, BBoltDatabase!PointsOf,
              BBoltDatabase!BlocksOf, BBoltDatabase!TransactionsOf

-----------------------------------------------------------------------------
\* Steps of module Database, for stores of these values.

LEMMA StoredFields ==
  ASSUME NEW p, NEW b, NEW o, NEW u, NEW q, NEW s, s = Facts!Stored(p, b, o, u, q)
  PROVE  /\ s.point = p /\ s.blocks = b /\ s.outputs = o
         /\ s.unprocessed = u /\ s.processed = q
         /\ Facts!IsStore(s)
  BY DEF Facts!Stored, Facts!IsStore

Outcome(o, slot, c) ==
  Facts!WithoutOrUsed(Facts!WithAdded(o, c.added, slot), c.removed, c.softDelete)

Changed(s, w, r) == [s EXCEPT !.unprocessed = w, !.processed = r]

LEMMA StoredChanged ==
  ASSUME NEW p, NEW b, NEW o, NEW u, NEW q, NEW w, NEW r, NEW s, s = Facts!Stored(p, b, o, u, q)
  PROVE  Changed(s, w, r) = Facts!Stored(p, b, o, w, r)
<1>1. [s EXCEPT !.unprocessed = w] = Facts!Stored(p, b, o, w, q)
  BY DEF Facts!Stored
<1>2. [Facts!Stored(p, b, o, w, q) EXCEPT !.processed = r] = Facts!Stored(p, b, o, w, r)
  BY DEF Facts!Stored
<1>3. [s EXCEPT !.unprocessed = w, !.processed = r] =
        [[s EXCEPT !.unprocessed = w] EXCEPT !.processed = r]
  OBVIOUS
<1>4. QED
  BY <1>1, <1>2, <1>3 DEF Changed

LEMMA ExecutesBlock ==
  ASSUME NEW p, NEW b, NEW o, NEW u, NEW q, TheStore = Facts!Stored(p, b, o, u, q),
         NEW slot, NEW c \in Facts!BlockContents,
         NEW calls, calls = Facts!BlockCalls(slot, c),
         NEW block, block = [Slot |-> slot, Txs |-> c.txs],
         TheStore' = Facts!Stored(slot, b \cup {block}, Outcome(o, slot, c),
                                  u \cup Facts!TxsOf(block), q),
         handed' = handed
  PROVE  Facts!Execute(calls)
<1>1. PICK s : s = TheStore
  OBVIOUS
<1>2. s = Facts!Stored(p, b, o, u, q)
  BY <1>1
<1>3. /\ s.blocks = b /\ s.outputs = o
      /\ s.unprocessed = u /\ s.processed = q
      /\ Facts!IsStore(s)
  BY <1>2, StoredFields
<1>4. Facts!FoldLeft(Facts!Apply, s, calls) = Facts!WithBlock(s, slot, c)
  BY <1>3, Assumed, Facts!BlockTransaction
<1>5. Facts!WithBlock(s, slot, c) =
        Facts!Stored(slot, b \cup {block}, Outcome(o, slot, c), u \cup Facts!TxsOf(block), q)
  BY <1>3 DEF Facts!WithBlock, Outcome
<1>6. QED
  BY <1>1, <1>4, <1>5 DEF Facts!Execute

LEMMA ExecutesRefill ==
  ASSUME NEW p, NEW b, NEW o, NEW u, NEW q, TheStore = Facts!Stored(p, b, o, u, q),
         NEW slot, NEW added, NEW calls,
         calls = <<Facts!DeleteAllTxOutputsPhysically, Facts!AddTxOutputs(added, slot)>>,
         TheStore' = Facts!Stored(p, b, Facts!WithAdded(<<>>, added, slot), u, q),
         handed' = handed
  PROVE  Facts!Execute(calls)
<1>1. PICK s : s = TheStore
  OBVIOUS
<1>2. s = Facts!Stored(p, b, o, u, q)
  BY <1>1
<1>3. /\ s.point = p /\ s.blocks = b
      /\ s.unprocessed = u /\ s.processed = q
      /\ Facts!IsStore(s)
  BY <1>2, StoredFields
<1>4. Facts!FoldLeft(Facts!Apply, s, calls) = Facts!WithRefill(s, slot, added)
  BY <1>3, Assumed, Facts!RefillTransaction
<1>5. Facts!WithRefill(s, slot, added) =
        Facts!Stored(p, b, Facts!WithAdded(<<>>, added, slot), u, q)
  BY <1>3 DEF Facts!WithRefill
<1>6. QED
  BY <1>1, <1>4, <1>5 DEF Facts!Execute

LEMMA MarksStored ==
  ASSUME NEW p, NEW b, NEW o, NEW u, NEW q, TheStore = Facts!Stored(p, b, o, u, q),
         TheStore' = Facts!Stored(p, b, o, u \ handed, q \cup handed),
         handed # {}, handed' = {}
  PROVE  Facts!MarkConfirmedTxsProcessed
<1>1. PICK s, h : s = TheStore /\ h = handed
  OBVIOUS
<1>2. s = Facts!Stored(p, b, o, u, q)
  BY <1>1
<1>3. PICK w, r : w = u \ h /\ r = q \cup h
  OBVIOUS
<1>4. w = s.unprocessed \ h /\ r = s.processed \cup h
  BY <1>2, <1>3, StoredFields
<1>5. TheStore' = Changed(s, w, r)
  BY <1>1, <1>2, <1>3, StoredChanged
<1>6. TheStore' = [s EXCEPT !.unprocessed = s.unprocessed \ h,
                            !.processed = s.processed \cup h]
  BY <1>4, <1>5 DEF Changed
<1>7. QED
  BY <1>1, <1>6 DEF Facts!MarkConfirmedTxsProcessed

LEMMA ReadsStored ==
  ASSUME NEW p, NEW b, NEW o, NEW u, NEW q, TheStore = Facts!Stored(p, b, o, u, q),
         TheStore' = TheStore, NEW maxCnt,
         handed = {}, handed' = Facts!FirstOnes(u, maxCnt)
  PROVE  Facts!ReadUnprocessed(maxCnt)
<1>1. PICK s : s = TheStore
  OBVIOUS
<1>2. s.unprocessed = u
  BY <1>1, StoredFields
<1>3. Facts!FirstOnes(s.unprocessed, maxCnt) =
        Facts!ToSet(Facts!GetUnprocessedConfirmedTxs(maxCnt))
  BY <1>1 DEF Facts!FirstOnes, Facts!InChainOrder, Facts!GetUnprocessedConfirmedTxs
<1>4. QED
  BY <1>2, <1>3 DEF Facts!ReadUnprocessed

-----------------------------------------------------------------------------
\* What bbolt says.

PointBucket(b) == b = <<>> \/ (DOMAIN b = {<<>>} /\ b[<<>>] \in Slots)
PointIn(b) == IF b = <<>> THEN 0 ELSE b[<<>>]

LEMMA OnlyPoint ==
  ASSUME NEW b, NEW slot \in Slots, DOMAIN b = {<<>>}, b[<<>>] = slot
  PROVE  PointBucket(b) /\ PointIn(b) = slot
<1>1. PointBucket(b)
  BY DEF PointBucket
<1>2. b # <<>>
  <2>1. <<>> \in DOMAIN b
    OBVIOUS
  <2>2. <<>> \notin DOMAIN <<>>
    OBVIOUS
  <2>3. QED
    BY <2>1, <2>2
<1>3. PointIn(b) = slot
  BY <1>2 DEF PointIn
<1>4. QED
  BY <1>1, <1>3

BBoltInv ==
  /\ PointBucket(latestBlockPointBucket)
  /\ IsBucket(confirmedBlocks, Facts!Block, BlockKeyOf)
  /\ OutputBucket(txOutputsBucket)
  /\ IsBucket(unprocessedTxsBucket, Facts!Tx, TxKeyOf)
  /\ IsBucket(processedTxsBucket, Facts!Tx, TxKeyOf)

BBoltSays ==
  Facts!Stored(PointIn(latestBlockPointBucket), Filed(confirmedBlocks),
               OutputsIn(txOutputsBucket), Filed(unprocessedTxsBucket),
               Filed(processedTxsBucket))

LEMMA BBoltPoint ==
  /\ BBoltDatabase!GetLatestBlockPoint = PointIn(latestBlockPointBucket)
  /\ BBoltDatabase!GetLatestBlockPoint' = PointIn(latestBlockPointBucket')
  BY DEF BBoltDatabase!GetLatestBlockPoint, PointIn, BBoltDatabase!defaultKey

LEMMA BBoltStore ==
  ASSUME OutputBucket(txOutputsBucket)
  PROVE  BBoltDatabase!Store = BBoltSays
  BY BBoltOutputs, BBoltPoint
     DEF BBoltDatabase!Store, BBoltSays, BBoltDatabase!ValuesOf, Filed, Facts!Stored

LEMMA BBoltStoreNext ==
  ASSUME OutputBucket(txOutputsBucket')
  PROVE  BBoltDatabase!Store' = BBoltSays'
<1>1. PICK outputs : outputs = txOutputsBucket'
  OBVIOUS
<1>2. [i \in {BBoltDatabase!NewTxInputFromBytes(k) : k \in DOMAIN outputs} |->
         outputs[BBoltDatabase!TxInputKey(i)]] = OutputsIn(outputs)
  BY <1>1, BBoltOutputs
<1>3. QED
  BY <1>1, <1>2, BBoltPoint
     DEF BBoltDatabase!Store, BBoltSays, BBoltDatabase!ValuesOf, Filed, Facts!Stored

\* A bucket with nothing put into it.
LEMMA SameBucket ==
  ASSUME NEW b, NEW after, after = [k \in DOMAIN b |-> b[k]]
  PROVE  /\ Filed(after) = Filed(b)
         /\ \A V, key : IsBucket(b, V, key) => IsBucket(after, V, key)
         /\ b # <<>> /\ PointBucket(b) => PointBucket(after) /\ PointIn(after) = PointIn(b)
<1>1. DOMAIN after = DOMAIN b /\ \A k \in DOMAIN b : after[k] = b[k]
  OBVIOUS
<1>2. ASSUME b # <<>>, PointBucket(b)
      PROVE  PointBucket(after) /\ PointIn(after) = PointIn(b)
  <2>1. DOMAIN b = {<<>>} /\ b[<<>>] \in Slots
    BY <1>2 DEF PointBucket
  <2>2. DOMAIN after = {<<>>} /\ after[<<>>] = b[<<>>] /\ after # <<>>
    BY <1>1, <2>1
  <2>3. QED
    BY <1>2, <2>1, <2>2 DEF PointBucket, PointIn
<1>3. QED
  BY <1>1, <1>2 DEF Filed, IsBucket

LEMMA NewBlockFacts ==
  ASSUME Facts!DatabaseInv, NEW p, NEW b, NEW o, NEW u, NEW q,
         TheStore = Facts!Stored(p, b, o, u, q),
         NEW own, NEW slot, NEW c, NEW calls, NewBlock(p, own, slot, c, calls),
         NEW block, block = [Slot |-> slot, Txs |-> c.txs]
  PROVE  /\ block \in Facts!Block /\ block.Slot = slot
         /\ Facts!TxsOf(block) \in SUBSET Facts!Tx
         /\ \A d \in b : d.Slot # slot
<1>1. PICK s : s = TheStore
  OBVIOUS
<1>2. s.point = p /\ s.blocks = b
  BY <1>1, StoredFields
<1>3. block \in Facts!Block /\ block.Slot = slot
  BY DEF NewBlock, Facts!BlockContents, Facts!Block
<1>4. Facts!TxsOf(block) \in SUBSET Facts!Tx
  BY <1>3, Assumed, Facts!BlockTxs
<1>5. ASSUME NEW d \in b
      PROVE  d.Slot # slot
  <2>1. d.Slot <= p
    BY <1>1, <1>2 DEF Facts!DatabaseInv, Facts!StoredTogether
  <2>2. p \in Slots \cup {0} /\ d \in Facts!Block
    BY <1>1, <1>2 DEF Facts!DatabaseInv, Facts!StoreTyped
  <2>3. d.Slot \in Nat /\ p \in Nat /\ slot \in Nat /\ slot > p
    BY <2>2, Assumed, Facts!Numbers DEF Facts!Block, NewBlock
  <2>4. QED
    BY <2>1, <2>3
<1>6. QED
  BY <1>3, <1>4, <1>5

-----------------------------------------------------------------------------
\* The steps of bbolt.

LEMMA BBoltExecutesBlock ==
  ASSUME BBoltInv, Facts!DatabaseInv, TheStore = BBoltSays,
         NEW own, NEW slot, NEW c, NEW calls,
         NewBlock(PointIn(latestBlockPointBucket), own, slot, c, calls),
         NEW block, block = [Slot |-> slot, Txs |-> c.txs],
         BBoltDatabase!Execute(calls)
  PROVE  /\ BBoltInv'
         /\ BBoltSays' =
              Facts!Stored(slot, Filed(confirmedBlocks) \cup {block},
                           Outcome(OutputsIn(txOutputsBucket), slot, c),
                           Filed(unprocessedTxsBucket) \cup Facts!TxsOf(block),
                           Filed(processedTxsBucket))
<1>1. PICK point, blocks, outputs, waiting, processed :
        /\ point = latestBlockPointBucket' /\ blocks = confirmedBlocks'
        /\ outputs = txOutputsBucket' /\ waiting = unprocessedTxsBucket'
        /\ processed = processedTxsBucket'
  OBVIOUS
<1>2. /\ block \in Facts!Block
      /\ Facts!TxsOf(block) \in SUBSET Facts!Tx
      /\ \A d \in Filed(confirmedBlocks) : d.Slot # block.Slot
  BY NewBlockFacts DEF BBoltSays
<1>3. slot \in Slots /\ c \in Facts!BlockContents /\ calls = Facts!BlockCalls(slot, c)
  BY DEF NewBlock
<1>4. /\ PointBucket(point) /\ PointIn(point) = slot
  <2>1. point = BBoltDatabase!PutAll(latestBlockPointBucket, {slot},
                                     LAMBDA s : BBoltDatabase!defaultKey)
    BY <1>1, <1>3, BlockArguments DEF BBoltDatabase!Execute, BBoltDatabase!PointsOf
  <2>2. DOMAIN latestBlockPointBucket \subseteq {<<>>}
    BY DEF BBoltInv, PointBucket
  <2>3. DOMAIN point = {<<>>} /\ point[<<>>] = slot
    BY <2>1, <2>2, PointPut
  <2>4. QED
    BY <1>3, <2>3, OnlyPoint
<1>5. /\ IsBucket(blocks, Facts!Block, BlockKeyOf)
      /\ Filed(blocks) = Filed(confirmedBlocks) \cup {block}
  <2>1. PICK put : put = BBoltDatabase!BlocksOf(calls)
    OBVIOUS
  <2>2. put = {block}
    BY <1>3, <2>1, BlockArguments
  <2>3. blocks = BBoltDatabase!PutAll(confirmedBlocks, put, BBoltDatabase!BlockKey)
    BY <1>1, <2>1, Zenon DEF BBoltDatabase!Execute,
                             BBoltDatabase!BlocksOf, BBoltDatabase!TransactionsOf
  <2>4. blocks = BBoltDatabase!PutAll(confirmedBlocks, {block}, BBoltDatabase!BlockKey)
    BY <2>2, <2>3, Zenon
  <2>5. QED
    BY <1>2, <2>4, BlockPut DEF BBoltInv
<1>6. /\ IsBucket(waiting, Facts!Tx, TxKeyOf)
      /\ Filed(waiting) = Filed(unprocessedTxsBucket) \cup Facts!TxsOf(block)
  <2>1. PICK put : put = BBoltDatabase!TransactionsOf(calls)
    OBVIOUS
  <2>2. put = Facts!TxsOf(block)
    BY <1>3, <2>1, BlockArguments
  <2>3. waiting = BBoltDatabase!PutAll(unprocessedTxsBucket, put, BBoltDatabase!TxKey)
    BY <1>1, <2>1, Zenon DEF BBoltDatabase!Execute,
                             BBoltDatabase!BlocksOf, BBoltDatabase!TransactionsOf
  <2>4. QED
    BY <1>2, <2>2, <2>3, TxsPut DEF BBoltInv
<1>7. OutputBucket(outputs) /\ OutputsIn(outputs) = Outcome(OutputsIn(txOutputsBucket), slot, c)
  <2>1. outputs = BBoltDatabase!OutputsAfter(txOutputsBucket, calls)[Len(calls)]
    BY <1>1 DEF BBoltDatabase!Execute
  <2>2. QED
    BY <1>3, <2>1, BlockOutputs DEF BBoltInv, Outcome
<1>8. processed = processedTxsBucket
  BY <1>1 DEF BBoltDatabase!Execute
<1>9. BBoltInv'
  BY <1>1, <1>4, <1>5, <1>6, <1>7, <1>8 DEF BBoltInv
<1>10. QED
  BY <1>1, <1>4, <1>5, <1>6, <1>7, <1>8, <1>9 DEF BBoltSays

LEMMA BBoltExecutesRefill ==
  ASSUME BBoltInv, NEW p, p = PointIn(latestBlockPointBucket),
         NEW added, NEW calls, Refill(p, added, calls), BBoltDatabase!Execute(calls)
  PROVE  /\ BBoltInv'
         /\ BBoltSays' =
              Facts!Stored(p, Filed(confirmedBlocks), Facts!WithAdded(<<>>, added, p),
                           Filed(unprocessedTxsBucket), Filed(processedTxsBucket))
<1>1. PICK point, blocks, outputs, waiting, processed :
        /\ point = latestBlockPointBucket' /\ blocks = confirmedBlocks'
        /\ outputs = txOutputsBucket' /\ waiting = unprocessedTxsBucket'
        /\ processed = processedTxsBucket'
  OBVIOUS
<1>2. latestBlockPointBucket # <<>> /\ p \in Slots /\ added \in SUBSET TxInputs
  BY DEF Refill, BBoltInv, PointBucket, PointIn
<1>3. /\ BBoltDatabase!PointsOf(calls) = {}
      /\ BBoltDatabase!BlocksOf(calls) = {}
      /\ BBoltDatabase!TransactionsOf(calls) = {}
  BY RefillArguments DEF Refill
<1>4. /\ PointBucket(point) /\ PointIn(point) = p
  <2>1. point = [k \in DOMAIN latestBlockPointBucket |-> latestBlockPointBucket[k]]
    BY <1>1, <1>3
       DEF BBoltDatabase!Execute, BBoltDatabase!PutAll, BBoltDatabase!PointsOf,
           BBoltDatabase!BlocksOf, BBoltDatabase!TransactionsOf
  <2>2. QED
    BY <1>2, <2>1, SameBucket DEF BBoltInv
<1>5. /\ IsBucket(blocks, Facts!Block, BlockKeyOf)
      /\ Filed(blocks) = Filed(confirmedBlocks)
  <2>1. blocks = [k \in DOMAIN confirmedBlocks |-> confirmedBlocks[k]]
    BY <1>1, <1>3
       DEF BBoltDatabase!Execute, BBoltDatabase!PutAll, BBoltDatabase!PointsOf,
           BBoltDatabase!BlocksOf, BBoltDatabase!TransactionsOf
  <2>2. QED
    BY <2>1, SameBucket DEF BBoltInv
<1>6. /\ IsBucket(waiting, Facts!Tx, TxKeyOf)
      /\ Filed(waiting) = Filed(unprocessedTxsBucket)
  <2>1. waiting = [k \in DOMAIN unprocessedTxsBucket |-> unprocessedTxsBucket[k]]
    BY <1>1, <1>3
       DEF BBoltDatabase!Execute, BBoltDatabase!PutAll, BBoltDatabase!PointsOf,
           BBoltDatabase!BlocksOf, BBoltDatabase!TransactionsOf
  <2>2. QED
    BY <2>1, SameBucket DEF BBoltInv
<1>7. OutputBucket(outputs) /\ OutputsIn(outputs) = Facts!WithAdded(<<>>, added, p)
  <2>1. outputs = BBoltDatabase!OutputsAfter(txOutputsBucket, calls)[Len(calls)]
    BY <1>1 DEF BBoltDatabase!Execute
  <2>2. QED
    BY <1>2, <2>1, RefilledOutputs
<1>8. processed = processedTxsBucket
  BY <1>1 DEF BBoltDatabase!Execute
<1>9. BBoltInv'
  BY <1>1, <1>4, <1>5, <1>6, <1>7, <1>8 DEF BBoltInv
<1>10. QED
  BY <1>1, <1>4, <1>5, <1>6, <1>7, <1>8, <1>9 DEF BBoltSays

\* With a cursor the transactions are met in the order of the chain.
LEMMA TxsInOrder ==
  ASSUME NEW V \in SUBSET Facts!Tx, Facts!IsFiniteSet(V),
         NEW key, Facts!KeysInOrder(V, Facts!ChainPairs(V), key),
         NEW keys, keys = Facts!KeysOf(V, key),
         NEW values, \A t \in V : values[key[t]] = t
  PROVE  Facts!Found(keys, values) = Facts!InChainOrder(V)
<1>1. Facts!IsOrder(V, Facts!ChainPairs(V))
  BY Assumed, Facts!ChainPairsOrder
<1>2. PICK R : R = Facts!ChainPairs(V)
  OBVIOUS
<1>3. Facts!Found(keys, values) = Facts!Ordered(V, R)
  BY <1>1, <1>2, Assumed, Facts!FoundInOrder
<1>4. QED
  BY <1>2, <1>3, Assumed, Facts!SortedTxs

LEMMA TxKeysInOrder ==
  ASSUME NEW V \in SUBSET Facts!Tx
  PROVE  Facts!KeysInOrder(V, Facts!ChainPairs(V), TxKeyOf)
<1> SUFFICES ASSUME NEW t \in V, NEW u \in V
             PROVE  Facts!Below(TxKeyOf[t], TxKeyOf[u]) <=> <<t, u>> \in Facts!ChainPairs(V)
  BY DEF Facts!KeysInOrder
<1>1. <<t, u>> \in Facts!ChainPairs(V) <=> Facts!IsBefore(t, u)
  BY Assumed, Facts!ChainPairsOrder
<1>2. TxKeyOf[t] = Facts!TxKey(t) /\ TxKeyOf[u] = Facts!TxKey(u)
  BY DEF TxKeyOf
<1>3. Facts!Below(Facts!TxKey(t), Facts!TxKey(u)) <=> Facts!IsBefore(t, u)
  BY Assumed, Facts!TxKeys DEF Facts!IsBefore
<1>4. QED
  BY <1>1, <1>2, <1>3

LEMMA BBoltFinds ==
  ASSUME BBoltInv, Facts!IsFiniteSet(Filed(unprocessedTxsBucket))
  PROVE  BBoltDatabase!Ascending(unprocessedTxsBucket) =
           Facts!InChainOrder(Filed(unprocessedTxsBucket))
<1>1. PICK u, keys, V : /\ u = unprocessedTxsBucket /\ keys = DOMAIN u /\ V = Filed(u)
  OBVIOUS
<1>2. BBoltDatabase!Ascending(u) = Facts!Found(keys, u)
  BY <1>1, SameOrders DEF BBoltDatabase!Ascending, Facts!Found
<1>3. \A k \in keys : u[k] \in Facts!Tx /\ u[k] \in V /\ k = TxKeyOf[u[k]]
  BY <1>1 DEF BBoltInv, IsBucket, Filed
<1>4. V \in SUBSET Facts!Tx /\ \A t \in V : TxKeyOf[t] \in keys /\ u[TxKeyOf[t]] = t
  BY <1>1, <1>3 DEF Filed
<1>5. keys = Facts!KeysOf(V, TxKeyOf)
  BY <1>3, <1>4 DEF Facts!KeysOf
<1>6. QED
  BY <1>1, <1>2, <1>4, <1>5, TxKeysInOrder, TxsInOrder

LEMMA BBoltReads ==
  ASSUME BBoltInv, Facts!DatabaseInv, TheStore = BBoltSays,
         NEW maxCnt, BBoltDatabase!ReadUnprocessed(maxCnt)
  PROVE  handed' = Facts!FirstOnes(Filed(unprocessedTxsBucket), maxCnt)
<1>1. PICK u : u = Filed(unprocessedTxsBucket)
  OBVIOUS
<1>2. Facts!IsFiniteSet(u)
  <2>1. PICK s : s = TheStore
    OBVIOUS
  <2>2. s.unprocessed = u
    BY <1>1, <2>1, StoredFields DEF BBoltSays
  <2>3. QED
    BY <2>1, <2>2 DEF Facts!DatabaseInv, Facts!StoreTyped
<1>3. BBoltDatabase!GetUnprocessedConfirmedTxs(maxCnt) =
        Facts!Limited(Facts!InChainOrder(u), maxCnt)
  BY <1>1, <1>2, BBoltFinds, SameOrders DEF BBoltDatabase!GetUnprocessedConfirmedTxs
<1>4. \A values : BBoltDatabase!ToSet(values) = Facts!ToSet(values)
  BY DEF BBoltDatabase!ToSet, Facts!ToSet
<1>5. QED
  BY <1>1, <1>3, <1>4 DEF BBoltDatabase!ReadUnprocessed, Facts!FirstOnes

LEMMA BBoltMarks ==
  ASSUME BBoltInv, handed \in SUBSET Facts!Tx, BBoltDatabase!MarkConfirmedTxsProcessed
  PROVE  /\ BBoltInv'
         /\ BBoltSays' =
              Facts!Stored(PointIn(latestBlockPointBucket), Filed(confirmedBlocks),
                           OutputsIn(txOutputsBucket), Filed(unprocessedTxsBucket) \ handed,
                           Filed(processedTxsBucket) \cup handed)
<1>1. PICK waiting, processed :
        waiting = unprocessedTxsBucket' /\ processed = processedTxsBucket'
  OBVIOUS
<1>2. /\ IsBucket(waiting, Facts!Tx, TxKeyOf)
      /\ Filed(waiting) = Filed(unprocessedTxsBucket) \ handed
  BY <1>1, TxsDeleted DEF BBoltInv, BBoltDatabase!MarkConfirmedTxsProcessed
<1>3. /\ IsBucket(processed, Facts!Tx, TxKeyOf)
      /\ Filed(processed) = Filed(processedTxsBucket) \cup handed
  <2>1. processed = BBoltDatabase!PutAll(processedTxsBucket, handed, BBoltDatabase!TxKey)
    BY <1>1 DEF BBoltDatabase!MarkConfirmedTxsProcessed
  <2>2. QED
    BY <2>1, TxsPut DEF BBoltInv
<1>4. UNCHANGED <<latestBlockPointBucket, confirmedBlocks, txOutputsBucket>>
  BY DEF BBoltDatabase!MarkConfirmedTxsProcessed
<1>5. QED
  BY <1>1, <1>2, <1>3, <1>4 DEF BBoltInv, BBoltSays

LEMMA BBoltSame ==
  ASSUME BBoltInv, UNCHANGED BBoltDatabase!buckets
  PROVE  BBoltInv' /\ BBoltSays' = BBoltSays
  BY DEF BBoltInv, BBoltSays, BBoltDatabase!buckets

\* Whatever bbolt does, module Database does.
LEMMA BBoltStep ==
  ASSUME IsBBolt, IsBBolt', BBoltInv, Facts!DatabaseInv,
         [BBoltDatabase!Next]_(BBoltDatabase!vars)
  PROVE  BBoltInv' /\ [Facts!Next]_(Facts!vars)
<1> DEFINE p == PointIn(latestBlockPointBucket)
           own == "bbolt" \in SoftDeletesOwn
<1>1. TheStore = BBoltSays
  BY BBoltStore DEF BBoltInv, TheStore
<1>2. BBoltInv' => TheStore' = BBoltSays'
  BY BBoltStoreNext DEF BBoltInv, TheStore
<1>3. PICK s : s = TheStore
  OBVIOUS
<1>4. s.point = p
  BY <1>1, <1>3, StoredFields DEF BBoltSays
<1>5. ASSUME NEW calls \in BBoltDatabase!Calls(p, own), BBoltDatabase!Execute(calls)
      PROVE  BBoltInv' /\ Facts!Next
  <2>1. calls \in Facts!Calls(p, own)
    BY <1>5, SameCalls
  <2>2. handed' = handed
    BY <1>5 DEF BBoltDatabase!Execute
  <2>3. ASSUME NEW slot, NEW c, NewBlock(p, own, slot, c, calls)
        PROVE  /\ BBoltInv' /\ Facts!Execute(calls)
               /\ calls \in Facts!Calls(p, SoftDeletesOwn # {})
    <3>1. PICK block : block = [Slot |-> slot, Txs |-> c.txs]
      OBVIOUS
    <3>2. /\ BBoltInv'
          /\ BBoltSays' =
               Facts!Stored(slot, Filed(confirmedBlocks) \cup {block},
                            Outcome(OutputsIn(txOutputsBucket), slot, c),
                            Filed(unprocessedTxsBucket) \cup Facts!TxsOf(block),
                            Filed(processedTxsBucket))
      BY <1>1, <1>5, <2>3, <3>1, BBoltExecutesBlock
    <3>3. c \in Facts!BlockContents /\ calls = Facts!BlockCalls(slot, c)
      BY <2>3 DEF NewBlock
    <3>4. Facts!Execute(calls)
      BY <1>1, <1>2, <2>2, <3>1, <3>2, <3>3, ExecutesBlock DEF BBoltSays
    <3>5. NewBlock(p, SoftDeletesOwn # {}, slot, c, calls)
      BY <2>3 DEF NewBlock
    <3>6. QED
      BY <3>2, <3>4, <3>5, OfCalls
  <2>4. ASSUME NEW added, Refill(p, added, calls)
        PROVE  /\ BBoltInv' /\ Facts!Execute(calls)
               /\ calls \in Facts!Calls(p, SoftDeletesOwn # {})
    <3>1. /\ BBoltInv'
          /\ BBoltSays' =
               Facts!Stored(p, Filed(confirmedBlocks), Facts!WithAdded(<<>>, added, p),
                            Filed(unprocessedTxsBucket), Filed(processedTxsBucket))
      BY <1>5, <2>4, BBoltExecutesRefill
    <3>2. calls = <<Facts!DeleteAllTxOutputsPhysically, Facts!AddTxOutputs(added, p)>>
      BY <2>4 DEF Refill
    <3>3. Facts!Execute(calls)
      BY <1>1, <1>2, <2>2, <3>1, <3>2, ExecutesRefill DEF BBoltSays
    <3>4. QED
      BY <2>4, <3>1, <3>3, OfCalls
  <2>5. BBoltInv' /\ Facts!Execute(calls) /\ calls \in Facts!Calls(p, SoftDeletesOwn # {})
    BY <2>1, <2>3, <2>4, OfCalls
  <2>6. QED
    BY <1>3, <1>4, <2>5 DEF Facts!Next
<1>6. ASSUME NEW maxCnt \in 0..2, BBoltDatabase!ReadUnprocessed(maxCnt)
      PROVE  BBoltInv' /\ Facts!Next
  <2>1. BBoltInv' /\ TheStore' = TheStore
    BY <1>1, <1>2, <1>6, BBoltSame DEF BBoltDatabase!ReadUnprocessed
  <2>2. handed = {} /\ handed' = Facts!FirstOnes(Filed(unprocessedTxsBucket), maxCnt)
    BY <1>1, <1>6, BBoltReads DEF BBoltDatabase!ReadUnprocessed
  <2>3. Facts!ReadUnprocessed(maxCnt)
    BY <1>1, <2>1, <2>2, ReadsStored DEF BBoltSays
  <2>4. QED
    BY <2>1, <2>3 DEF Facts!Next
<1>7. ASSUME BBoltDatabase!MarkConfirmedTxsProcessed
      PROVE  BBoltInv' /\ Facts!Next
  <2>1. handed \in SUBSET Facts!Tx
    BY DEF Facts!DatabaseInv, Facts!HandedFirst, Facts!StoreTyped
  <2>2. handed # {} /\ handed' = {}
    BY <1>7 DEF BBoltDatabase!MarkConfirmedTxsProcessed
  <2>3. BBoltInv' /\ Facts!MarkConfirmedTxsProcessed
    BY <1>1, <1>2, <1>7, <2>1, <2>2, BBoltMarks, MarksStored DEF BBoltSays
  <2>4. QED
    BY <2>3 DEF Facts!Next
<1>8. ASSUME BBoltDatabase!ConsumerFails
      PROVE  BBoltInv' /\ Facts!Next
  <2>1. BBoltInv' /\ TheStore' = TheStore
    BY <1>1, <1>2, <1>8, BBoltSame DEF BBoltDatabase!ConsumerFails
  <2>2. Facts!ConsumerFails
    BY <1>8, <2>1 DEF BBoltDatabase!ConsumerFails, Facts!ConsumerFails
  <2>3. QED
    BY <2>1, <2>2 DEF Facts!Next
<1>9. CASE UNCHANGED BBoltDatabase!vars
  <2>1. BBoltInv' /\ TheStore' = TheStore
    BY <1>1, <1>2, <1>9, BBoltSame DEF BBoltDatabase!vars
  <2>2. QED
    BY <1>9, <2>1 DEF BBoltDatabase!vars, Facts!vars
<1>10. QED
  BY <1>5, <1>6, <1>7, <1>8, <1>9, BBoltPoint DEF BBoltDatabase!Next

-----------------------------------------------------------------------------
\* The keys of leveldb: those of the values, with their buckets before them.

Prefix(d, key) == LevelDBDatabase!bucketKey(<<d>>, key)

IsJoined(c, a, b, n, m) ==
  /\ c \in Seq(Nat) /\ Len(c) = n + m
  /\ \A i \in 1..n : c[i] = a[i]
  /\ \A i \in 1..m : c[n + i] = b[i]

LEMMA JoinedParts ==
  ASSUME NEW a \in Seq(Nat), NEW b \in Seq(Nat)
  PROVE  IsJoined(a \o b, a, b, Len(a), Len(b))
<1>1. Len(a) \in Nat /\ Len(b) \in Nat
  OBVIOUS
<1>2. a \o b \in Seq(Nat)
  OBVIOUS
<1>3. Len(a \o b) = Len(a) + Len(b)
  OBVIOUS
<1>4. \A i \in 1..(Len(a) + Len(b)) :
        (a \o b)[i] = IF i <= Len(a) THEN a[i] ELSE b[i - Len(a)]
  OBVIOUS
<1>5. ASSUME NEW i \in 1..Len(a)
      PROVE  (a \o b)[i] = a[i]
  <2>1. i \in 1..(Len(a) + Len(b)) /\ i <= Len(a)
    BY <1>1
  <2>2. QED
    BY <1>4, <2>1
<1>6. ASSUME NEW i \in 1..Len(b)
      PROVE  (a \o b)[Len(a) + i] = b[i]
  <2>1. /\ Len(a) + i \in 1..(Len(a) + Len(b)) /\ ~(Len(a) + i <= Len(a))
        /\ (Len(a) + i) - Len(a) = i
    BY <1>1
  <2>2. QED
    BY <1>4, <2>1
<1>7. QED
  BY <1>2, <1>3, <1>5, <1>6 DEF IsJoined

LEMMA Joined ==
  ASSUME NEW a \in Seq(Nat), NEW b \in Seq(Nat), NEW n, NEW m,
         Len(a) = n, Len(b) = m, NEW c, c = a \o b
  PROVE  IsJoined(c, a, b, n, m)
<1>1. IsJoined(a \o b, a, b, Len(a), Len(b))
  BY JoinedParts
<1>2. QED
  BY <1>1

IsPrefixed(k, d, n, key) ==
  /\ k \in Seq(Nat) /\ Len(k) = n + 2
  /\ k[1] = d /\ k[2] = 0
  /\ \A i \in 1..n : k[i + 2] = key[i]

LEMMA PrefixedKey ==
  ASSUME NEW d \in Nat, NEW n \in Nat, NEW key \in Facts!Bytes(n),
         NEW k, k = Prefix(d, key)
  PROVE  IsPrefixed(k, d, n, key)
<1>1. key \in Seq(Nat) /\ Len(key) = n
  BY Assumed, Facts!BytesSequence
<1>2. PICK p, z : p = <<d>> /\ z = <<0>>
  OBVIOUS
<1>3. /\ p \in Seq(Nat) /\ Len(p) = 1 /\ p[1] = d
      /\ z \in Seq(Nat) /\ Len(z) = 1 /\ z[1] = 0
  BY <1>2
<1>4. PICK front : front = p \o z
  OBVIOUS
<1>5. front \in Seq(Nat) /\ Len(front) = 2 /\ front[1] = d /\ front[2] = 0
  <2>1. IsJoined(front, p, z, 1, 1)
    BY <1>3, <1>4, Joined
  <2>2. QED
    BY <1>3, <2>1 DEF IsJoined
<1>6. k = front \o key
  <2>1. k = LevelDBDatabase!bucketKey(p, key)
    BY <1>2 DEF Prefix
  <2>2. QED
    BY <1>2, <1>4, <2>1, Zenon DEF LevelDBDatabase!bucketKey
<1>7. /\ k \in Seq(Nat) /\ Len(k) = 2 + n
      /\ \A i \in 1..2 : k[i] = front[i]
      /\ \A i \in 1..n : k[2 + i] = key[i]
  <2>1. IsJoined(k, front, key, 2, n)
    BY <1>1, <1>5, <1>6, Joined
  <2>2. QED
    BY <2>1 DEF IsJoined
<1>8. k[1] = d /\ k[2] = 0
  BY <1>5, <1>7
<1>9. ASSUME NEW i \in 1..n
      PROVE  k[i + 2] = key[i]
  <2>1. 2 + i = i + 2
    OBVIOUS
  <2>2. QED
    BY <1>7, <2>1
<1>10. QED
  BY <1>7, <1>8, <1>9 DEF IsPrefixed

LEMMA PrefixedKeysDiffer ==
  ASSUME NEW d \in Nat, NEW e \in Nat, NEW n \in Nat, NEW a \in Facts!Bytes(n),
         NEW m \in Nat, NEW b \in Facts!Bytes(m), Prefix(d, a) = Prefix(e, b)
  PROVE  d = e /\ a = b
<1>1. PICK k : k = Prefix(d, a) /\ k = Prefix(e, b)
  OBVIOUS
<1>2. IsPrefixed(k, d, n, a) /\ IsPrefixed(k, e, m, b)
  BY <1>1, PrefixedKey
<1>3. d = e /\ n = m
  BY <1>2 DEF IsPrefixed
<1>4. \A i \in 1..n : a[i] = b[i]
  BY <1>2, <1>3 DEF IsPrefixed
<1>5. QED
  BY <1>3, <1>4 DEF Facts!Bytes

LEMMA PrefixedKeysOrder ==
  ASSUME NEW d \in Nat, NEW n \in Nat, NEW a \in Facts!Bytes(n), NEW b \in Facts!Bytes(n)
  PROVE  Facts!Below(Prefix(d, a), Prefix(d, b)) <=> Facts!Below(a, b)
<1>1. PICK x, y : x = Prefix(d, a) /\ y = Prefix(d, b)
  OBVIOUS
<1>2. /\ Len(x) = n + 2 /\ Len(y) = n + 2
      /\ x[1] = d /\ y[1] = d /\ x[2] = 0 /\ y[2] = 0
      /\ \A i \in 1..n : x[i + 2] = a[i] /\ y[i + 2] = b[i]
  <2>1. IsPrefixed(x, d, n, a) /\ IsPrefixed(y, d, n, b)
    BY <1>1, PrefixedKey
  <2>2. QED
    BY <2>1 DEF IsPrefixed
<1>3. /\ Len(a) = n /\ Len(b) = n
      /\ \A i \in 1..n : a[i] \in Nat /\ b[i] \in Nat
  BY Assumed, Facts!BytesSequence
<1>4. ASSUME Facts!Below(a, b)
      PROVE  Facts!Below(x, y)
  <2>1. PICK i \in 1..n : /\ \A j \in 1..(i - 1) : a[j] = b[j]
                          /\ a[i] < b[i]
    BY <1>3, <1>4 DEF Facts!Below
  <2>2. i + 2 \in 1..(n + 2) /\ x[i + 2] < y[i + 2]
    BY <1>2, <2>1
  <2>3. ASSUME NEW j \in 1..((i + 2) - 1)
        PROVE  x[j] = y[j]
    <3>1. CASE j \in {1, 2}
      BY <1>2, <3>1
    <3>2. CASE j \notin {1, 2}
      <4>1. j - 2 \in 1..(i - 1) /\ j - 2 \in 1..n /\ (j - 2) + 2 = j
        BY <3>2
      <4>2. x[(j - 2) + 2] = a[j - 2] /\ y[(j - 2) + 2] = b[j - 2]
        BY <1>2, <4>1
      <4>3. QED
        BY <2>1, <4>1, <4>2
    <3>3. QED
      BY <3>1, <3>2
  <2>4. QED
    BY <1>2, <2>2, <2>3 DEF Facts!Below
<1>5. ASSUME Facts!Below(x, y)
      PROVE  Facts!Below(a, b)
  <2>1. PICK i \in 1..(n + 2) : /\ \A j \in 1..(i - 1) : x[j] = y[j]
                                /\ x[i] < y[i]
    BY <1>2, <1>5 DEF Facts!Below
  <2>2. i # 1 /\ i # 2
    BY <1>2, <2>1
  <2>3. i - 2 \in 1..n /\ (i - 2) + 2 = i
    BY <2>2
  <2>4. a[i - 2] < b[i - 2]
    <3>1. x[(i - 2) + 2] = a[i - 2] /\ y[(i - 2) + 2] = b[i - 2]
      BY <1>2, <2>3
    <3>2. QED
      BY <2>1, <2>3, <3>1
  <2>5. ASSUME NEW j \in 1..((i - 2) - 1)
        PROVE  a[j] = b[j]
    <3>1. j + 2 \in 1..(i - 1) /\ j \in 1..n
      BY <2>3
    <3>2. QED
      BY <1>2, <2>1, <3>1
  <2>6. QED
    BY <1>3, <2>3, <2>4, <2>5 DEF Facts!Below
<1>6. QED
  BY <1>1, <1>4, <1>5

LEMMA StartsWith ==
  ASSUME NEW d \in Nat, NEW k \in Seq(Nat), Len(k) > 0
  PROVE  LevelDBDatabase!IsPrefix(<<d>>, k) <=> k[1] = d
<1>0. PICK p : p = <<d>>
  OBVIOUS
<1>1. p \in Seq(Nat) /\ Len(p) = 1 /\ p[1] = d
  BY <1>0
<1>2. Len(k) \in Nat /\ SubSeq(k, 1, 1) \in Seq(Nat) /\ Len(SubSeq(k, 1, 1)) = 1
      /\ SubSeq(k, 1, 1)[1] = k[1]
  OBVIOUS
<1>3. LevelDBDatabase!IsPrefix(p, k) <=> p = SubSeq(k, 1, 1)
  <2>1. Len(p) <= Len(k) /\ SubSeq(p, 1, Len(p)) = p /\ SubSeq(k, 1, Len(p)) = SubSeq(k, 1, 1)
    BY <1>1, <1>2
  <2>2. QED
    BY <2>1 DEF LevelDBDatabase!IsPrefix
<1>4. p = SubSeq(k, 1, 1) <=> p[1] = SubSeq(k, 1, 1)[1]
  BY <1>1, <1>2
<1>5. QED
  BY <1>0, <1>1, <1>2, <1>3, <1>4

WaitingKey == [t \in Facts!Tx |-> Prefix(4, Facts!TxKey(t))]
ProcessedKey == [t \in Facts!Tx |-> Prefix(3, Facts!TxKey(t))]
StoredBlockKey == [b \in Facts!Block |-> Prefix(5, Facts!SlotNumberToKey(b.Slot))]
OutputKeyOf == [i \in TxInputs |-> Prefix(1, Facts!TxInputKey(i))]
PointKey == <<2>>

\* A key of one kind, by its first byte.
IsKey(k, d) == k \in Seq(Nat) /\ Len(k) > 0 /\ k[1] = d

LEMMA PrefixedIsKey ==
  ASSUME NEW d \in Nat, NEW n \in Nat, NEW key \in Facts!Bytes(n)
  PROVE  IsKey(Prefix(d, key), d)
<1>1. PICK k : k = Prefix(d, key)
  OBVIOUS
<1>2. IsPrefixed(k, d, n, key)
  BY <1>1, PrefixedKey
<1>3. QED
  BY <1>1, <1>2 DEF IsPrefixed, IsKey

LEMMA SlotBytes ==
  ASSUME NEW b \in Facts!Block
  PROVE  Facts!SlotNumberToKey(b.Slot) \in Facts!Bytes(SlotWidth)
<1>1. b.Slot \in Slots
  BY DEF Facts!Block
<1>2. QED
  BY <1>1, Assumed, Facts!SlotKeys

LEMMA KindsOfKeys ==
  /\ \A t \in Facts!Tx : IsKey(WaitingKey[t], 4) /\ IsKey(ProcessedKey[t], 3)
  /\ \A b \in Facts!Block : IsKey(StoredBlockKey[b], 5)
  /\ \A i \in TxInputs : IsKey(OutputKeyOf[i], 1)
  /\ IsKey(PointKey, 2)
<1>1. SlotWidth \in Nat /\ HashSize + IndexWidth \in Nat /\ SlotWidth + IndexWidth \in Nat
  BY Assumed, Facts!Widths
<1>2. ASSUME NEW t \in Facts!Tx
      PROVE  IsKey(WaitingKey[t], 4) /\ IsKey(ProcessedKey[t], 3)
  <2>1. Facts!TxKey(t) \in Facts!Bytes(SlotWidth + IndexWidth)
    BY Assumed, Facts!TxKeys
  <2>2. IsKey(Prefix(4, Facts!TxKey(t)), 4) /\ IsKey(Prefix(3, Facts!TxKey(t)), 3)
    BY <1>1, <2>1, PrefixedIsKey
  <2>3. QED
    BY <2>2 DEF WaitingKey, ProcessedKey
<1>3. ASSUME NEW b \in Facts!Block
      PROVE  IsKey(StoredBlockKey[b], 5)
  <2>1. IsKey(Prefix(5, Facts!SlotNumberToKey(b.Slot)), 5)
    BY <1>1, SlotBytes, PrefixedIsKey
  <2>2. QED
    BY <2>1 DEF StoredBlockKey
<1>4. ASSUME NEW i \in TxInputs
      PROVE  IsKey(OutputKeyOf[i], 1)
  <2>1. Facts!TxInputKey(i) \in Facts!Bytes(HashSize + IndexWidth)
    BY Assumed, Facts!TxInputKeys
  <2>2. IsKey(Prefix(1, Facts!TxInputKey(i)), 1)
    BY <1>1, <2>1, PrefixedIsKey
  <2>3. QED
    BY <2>2 DEF OutputKeyOf
<1>5. IsKey(PointKey, 2)
  BY DEF IsKey, PointKey
<1>6. QED
  BY <1>2, <1>3, <1>4, <1>5

LEMMA KeysOfOneKind ==
  /\ OwnKeys(Facts!Tx, Facts!Tx, WaitingKey)
  /\ OwnKeys(Facts!Tx, Facts!Tx, ProcessedKey)
  /\ \A b, c \in Facts!Block : StoredBlockKey[b] = StoredBlockKey[c] => b.Slot = c.Slot
  /\ \A i, j \in TxInputs : OutputKeyOf[i] = OutputKeyOf[j] => i = j
<1>1. SlotWidth \in Nat /\ HashSize + IndexWidth \in Nat /\ SlotWidth + IndexWidth \in Nat
  BY Assumed, Facts!Widths
<1>2. ASSUME NEW t \in Facts!Tx, NEW u \in Facts!Tx, NEW d \in Nat,
             Prefix(d, Facts!TxKey(t)) = Prefix(d, Facts!TxKey(u))
      PROVE  t = u
  <2>1. /\ Facts!TxKey(t) \in Facts!Bytes(SlotWidth + IndexWidth)
        /\ Facts!TxKey(u) \in Facts!Bytes(SlotWidth + IndexWidth)
    BY Assumed, Facts!TxKeys
  <2>2. Facts!TxKey(t) = Facts!TxKey(u)
    BY <1>1, <1>2, <2>1, PrefixedKeysDiffer
  <2>3. QED
    BY <2>2, Assumed, Facts!TxKeys
<1>3. OwnKeys(Facts!Tx, Facts!Tx, WaitingKey)
  BY <1>2 DEF OwnKeys, WaitingKey
<1>4. OwnKeys(Facts!Tx, Facts!Tx, ProcessedKey)
  BY <1>2 DEF OwnKeys, ProcessedKey
<1>5. ASSUME NEW b \in Facts!Block, NEW c \in Facts!Block, StoredBlockKey[b] = StoredBlockKey[c]
      PROVE  b.Slot = c.Slot
  <2>1. Prefix(5, Facts!SlotNumberToKey(b.Slot)) = Prefix(5, Facts!SlotNumberToKey(c.Slot))
    BY <1>5 DEF StoredBlockKey
  <2>2. Facts!SlotNumberToKey(b.Slot) = Facts!SlotNumberToKey(c.Slot)
    BY <1>1, <2>1, SlotBytes, PrefixedKeysDiffer
  <2>3. b.Slot \in Slots /\ c.Slot \in Slots
    BY DEF Facts!Block
  <2>4. QED
    BY <2>2, <2>3, Assumed, Facts!SlotKeys
<1>6. ASSUME NEW i \in TxInputs, NEW j \in TxInputs, OutputKeyOf[i] = OutputKeyOf[j]
      PROVE  i = j
  <2>1. Prefix(1, Facts!TxInputKey(i)) = Prefix(1, Facts!TxInputKey(j))
    BY <1>6 DEF OutputKeyOf
  <2>2. /\ Facts!TxInputKey(i) \in Facts!Bytes(HashSize + IndexWidth)
        /\ Facts!TxInputKey(j) \in Facts!Bytes(HashSize + IndexWidth)
    BY Assumed, Facts!TxInputKeys
  <2>3. Facts!TxInputKey(i) = Facts!TxInputKey(j)
    BY <1>1, <2>1, <2>2, PrefixedKeysDiffer
  <2>4. QED
    BY <2>3, InputKeys
<1>7. QED
  BY <1>3, <1>4, <1>5, <1>6

\* The module's own names of these keys.
LEMMA NamesOfKeys ==
  /\ \A t \in Facts!Tx :
       /\ LevelDBDatabase!bucketKey(LevelDBDatabase!unprocessedTxsBucket,
                                    LevelDBDatabase!TxKey(t)) = WaitingKey[t]
       /\ LevelDBDatabase!bucketKey(LevelDBDatabase!processedTxsBucket,
                                    LevelDBDatabase!TxKey(t)) = ProcessedKey[t]
  /\ \A b \in Facts!Block :
       LevelDBDatabase!bucketKey(LevelDBDatabase!confirmedBlocks,
                                 LevelDBDatabase!BlockKey(b)) = StoredBlockKey[b]
  /\ \A i \in TxInputs : LevelDBDatabase!OutputKey(i) = OutputKeyOf[i]
  /\ LevelDBDatabase!latestBlockPointBucket = PointKey
<1>1. \A key :
        /\ LevelDBDatabase!bucketKey(LevelDBDatabase!unprocessedTxsBucket, key) = Prefix(4, key)
        /\ LevelDBDatabase!bucketKey(LevelDBDatabase!processedTxsBucket, key) = Prefix(3, key)
        /\ LevelDBDatabase!bucketKey(LevelDBDatabase!confirmedBlocks, key) = Prefix(5, key)
        /\ LevelDBDatabase!bucketKey(LevelDBDatabase!txOutputsBucket, key) = Prefix(1, key)
  BY DEF Prefix, LevelDBDatabase!unprocessedTxsBucket, LevelDBDatabase!processedTxsBucket,
         LevelDBDatabase!confirmedBlocks, LevelDBDatabase!txOutputsBucket
<1>2. \A i \in TxInputs : LevelDBDatabase!OutputKey(i) = OutputKeyOf[i]
  BY <1>1, LevelDBKeys DEF LevelDBDatabase!OutputKey, OutputKeyOf
<1>3. QED
  BY <1>1, <1>2, LevelDBKeys
     DEF WaitingKey, ProcessedKey, StoredBlockKey, PointKey,
         LevelDBDatabase!latestBlockPointBucket

-----------------------------------------------------------------------------
\* What leveldb says.

IsEntry(k, v) ==
  \/ k = PointKey /\ v \in Slots
  \/ v \in Facts!Tx /\ k = WaitingKey[v]
  \/ v \in Facts!Tx /\ k = ProcessedKey[v]
  \/ v \in Facts!Block /\ k = StoredBlockKey[v]
  \/ v \in Facts!Output /\ \E i \in TxInputs : k = OutputKeyOf[i]

IsDb(d) == \A k \in DOMAIN d : IsEntry(k, d[k])

\* The values of one kind.
OfKind(d, n) == [k \in {l \in DOMAIN d : l[1] = n} |-> d[k]]

LevelOutputs(d) == [i \in {j \in TxInputs : OutputKeyOf[j] \in DOMAIN d} |-> d[OutputKeyOf[i]]]
LevelPoint(d) == IF PointKey \in DOMAIN d THEN d[PointKey] ELSE 0

LevelSays(d) ==
  Facts!Stored(LevelPoint(d), Filed(OfKind(d, 5)), LevelOutputs(d), Filed(OfKind(d, 4)),
               Filed(OfKind(d, 3)))

LEMMA NotAbsent ==
  /\ Absent \notin Slots /\ Absent \notin Facts!Tx /\ Absent \notin Facts!Block
  /\ Absent \notin Facts!Output
  BY AbsentAssumption
     DEF Tx, Block, Output, Address, Facts!Tx, Facts!Block, Facts!Output, Facts!Address

LEMMA EntryFacts ==
  ASSUME NEW k, NEW v, IsEntry(k, v)
  PROVE  /\ v # Absent
         /\ IsKey(k, k[1]) /\ k[1] \in 1..5
         /\ k[1] = 1 => v \in Facts!Output /\ \E i \in TxInputs : k = OutputKeyOf[i]
         /\ k[1] = 2 => k = PointKey /\ v \in Slots
         /\ k[1] = 3 => v \in Facts!Tx /\ k = ProcessedKey[v]
         /\ k[1] = 4 => v \in Facts!Tx /\ k = WaitingKey[v]
         /\ k[1] = 5 => v \in Facts!Block /\ k = StoredBlockKey[v]
<1>1. v # Absent
  BY NotAbsent DEF IsEntry
<1>2. CASE k = PointKey /\ v \in Slots
  BY <1>1, <1>2, KindsOfKeys DEF IsKey
<1>3. CASE v \in Facts!Tx /\ k = WaitingKey[v]
  BY <1>1, <1>3, KindsOfKeys DEF IsKey
<1>4. CASE v \in Facts!Tx /\ k = ProcessedKey[v]
  BY <1>1, <1>4, KindsOfKeys DEF IsKey
<1>5. CASE v \in Facts!Block /\ k = StoredBlockKey[v]
  BY <1>1, <1>5, KindsOfKeys DEF IsKey
<1>6. CASE v \in Facts!Output /\ \E i \in TxInputs : k = OutputKeyOf[i]
  BY <1>1, <1>6, KindsOfKeys DEF IsKey
<1>7. QED
  BY <1>2, <1>3, <1>4, <1>5, <1>6 DEF IsEntry

LEMMA Kinds ==
  ASSUME NEW d, IsDb(d)
  PROVE  /\ IsBucket(OfKind(d, 3), Facts!Tx, ProcessedKey)
         /\ IsBucket(OfKind(d, 4), Facts!Tx, WaitingKey)
         /\ IsBucket(OfKind(d, 5), Facts!Block, StoredBlockKey)
         /\ \A n : Filed(OfKind(d, n)) = {d[k] : k \in {l \in DOMAIN d : l[1] = n}}
         /\ LevelPoint(d) \in Slots \cup {0}
         /\ \A i \in TxInputs : OutputKeyOf[i] \in DOMAIN d => d[OutputKeyOf[i]] \in Facts!Output
<1>1. ASSUME NEW k \in DOMAIN d
      PROVE  IsEntry(k, d[k])
  BY DEF IsDb
<1>2. IsBucket(OfKind(d, 3), Facts!Tx, ProcessedKey)
  BY <1>1, EntryFacts DEF IsBucket, OfKind
<1>3. IsBucket(OfKind(d, 4), Facts!Tx, WaitingKey)
  BY <1>1, EntryFacts DEF IsBucket, OfKind
<1>4. IsBucket(OfKind(d, 5), Facts!Block, StoredBlockKey)
  BY <1>1, EntryFacts DEF IsBucket, OfKind
<1>5. \A n : Filed(OfKind(d, n)) = {d[k] : k \in {l \in DOMAIN d : l[1] = n}}
  BY DEF Filed, OfKind
<1>6. LevelPoint(d) \in Slots \cup {0}
  <2>1. PointKey[1] = 2
    BY KindsOfKeys DEF IsKey
  <2>2. QED
    BY <1>1, <2>1, EntryFacts DEF LevelPoint
<1>7. ASSUME NEW i \in TxInputs, OutputKeyOf[i] \in DOMAIN d
      PROVE  d[OutputKeyOf[i]] \in Facts!Output
  <2>1. OutputKeyOf[i][1] = 1
    BY KindsOfKeys DEF IsKey
  <2>2. QED
    BY <1>1, <1>7, <2>1, EntryFacts
<1>8. QED
  BY <1>2, <1>3, <1>4, <1>5, <1>6, <1>7

LEMMA PrefixedKeys ==
  ASSUME NEW d, IsDb(d), NEW n \in Nat
  PROVE  {k \in DOMAIN d : LevelDBDatabase!IsPrefix(<<n>>, k)} = {l \in DOMAIN d : l[1] = n}
<1>1. ASSUME NEW k \in DOMAIN d
      PROVE  LevelDBDatabase!IsPrefix(<<n>>, k) <=> k[1] = n
  <2>1. k \in Seq(Nat) /\ Len(k) > 0
    BY EntryFacts DEF IsDb, IsKey
  <2>2. QED
    BY <2>1, StartsWith
<1>2. QED
  BY <1>1

LEMMA LevelStore ==
  ASSUME IsDb(db)
  PROVE  LevelDBDatabase!Store = LevelSays(db)
<1>1. \A n \in {3, 4, 5} :
        {db[k] : k \in LevelDBDatabase!Prefixed(<<n>>)} = Filed(OfKind(db, n))
  BY PrefixedKeys, Kinds DEF LevelDBDatabase!Prefixed
<1>2. [i \in LevelDBDatabase!Stored |-> db[LevelDBDatabase!OutputKey(i)]] = LevelOutputs(db)
  BY NamesOfKeys DEF LevelDBDatabase!Stored, LevelOutputs
<1>3. LevelDBDatabase!GetLatestBlockPoint = LevelPoint(db)
  BY NamesOfKeys DEF LevelDBDatabase!GetLatestBlockPoint, LevelPoint
<1>4. QED
  BY <1>1, <1>2, <1>3
     DEF LevelDBDatabase!Store, LevelSays, LevelDBDatabase!ValuesOf, Facts!Stored,
         LevelDBDatabase!unprocessedTxsBucket, LevelDBDatabase!processedTxsBucket,
         LevelDBDatabase!confirmedBlocks

LEMMA LevelStoreNext ==
  ASSUME IsDb(db')
  PROVE  LevelDBDatabase!Store' = LevelSays(db')
<1>1. PICK d : d = db'
  OBVIOUS
<1>2. \A n \in {3, 4, 5} :
        {d[k] : k \in {l \in DOMAIN d : LevelDBDatabase!IsPrefix(<<n>>, l)}} =
          Filed(OfKind(d, n))
  BY <1>1, PrefixedKeys, Kinds
<1>3. [i \in {j \in TxInputs : LevelDBDatabase!OutputKey(j) \in DOMAIN d} |->
         d[LevelDBDatabase!OutputKey(i)]] = LevelOutputs(d)
  BY NamesOfKeys DEF LevelOutputs
<1>4. LevelDBDatabase!GetLatestBlockPoint' = LevelPoint(d)
  BY <1>1, NamesOfKeys DEF LevelDBDatabase!GetLatestBlockPoint, LevelPoint
<1>5. QED
  BY <1>1, <1>2, <1>3, <1>4
     DEF LevelDBDatabase!Store, LevelDBDatabase!Stored, LevelSays, LevelDBDatabase!ValuesOf,
         LevelDBDatabase!Prefixed, Facts!Stored,
         LevelDBDatabase!unprocessedTxsBucket, LevelDBDatabase!processedTxsBucket,
         LevelDBDatabase!confirmedBlocks

LEMMA WaitingKeysInOrder ==
  ASSUME NEW V \in SUBSET Facts!Tx
  PROVE  Facts!KeysInOrder(V, Facts!ChainPairs(V), WaitingKey)
<1> SUFFICES ASSUME NEW t \in V, NEW u \in V
             PROVE  Facts!Below(WaitingKey[t], WaitingKey[u]) <=>
                      <<t, u>> \in Facts!ChainPairs(V)
  BY DEF Facts!KeysInOrder
<1>1. <<t, u>> \in Facts!ChainPairs(V) <=> Facts!IsBefore(t, u)
  BY Assumed, Facts!ChainPairsOrder
<1>2. WaitingKey[t] = Prefix(4, Facts!TxKey(t)) /\ WaitingKey[u] = Prefix(4, Facts!TxKey(u))
  BY DEF WaitingKey
<1>3. /\ SlotWidth + IndexWidth \in Nat
      /\ Facts!TxKey(t) \in Facts!Bytes(SlotWidth + IndexWidth)
      /\ Facts!TxKey(u) \in Facts!Bytes(SlotWidth + IndexWidth)
  BY Assumed, Facts!Widths, Facts!TxKeys
<1>4. Facts!Below(WaitingKey[t], WaitingKey[u]) <=> Facts!Below(Facts!TxKey(t), Facts!TxKey(u))
  BY <1>2, <1>3, PrefixedKeysOrder
<1>5. Facts!Below(Facts!TxKey(t), Facts!TxKey(u)) <=> Facts!IsBefore(t, u)
  BY Assumed, Facts!TxKeys DEF Facts!IsBefore
<1>6. QED
  BY <1>1, <1>4, <1>5

Waiting(d) == Filed(OfKind(d, 4))

LEMMA LevelFinds ==
  ASSUME IsDb(db), Facts!IsFiniteSet(Waiting(db))
  PROVE  LevelDBDatabase!Values(LevelDBDatabase!Prefixed(LevelDBDatabase!unprocessedTxsBucket)) =
           Facts!InChainOrder(Waiting(db))
<1>1. PICK u, keys, V : /\ u = OfKind(db, 4) /\ keys = DOMAIN u /\ V = Filed(u)
  OBVIOUS
<1>2. LevelDBDatabase!Prefixed(LevelDBDatabase!unprocessedTxsBucket) = keys
  BY <1>1, PrefixedKeys
     DEF LevelDBDatabase!Prefixed, LevelDBDatabase!unprocessedTxsBucket, OfKind
<1>3. \A k \in keys : u[k] \in Facts!Tx /\ u[k] \in V /\ k = WaitingKey[u[k]] /\ u[k] = db[k]
  <2>1. \A k \in keys : u[k] = db[k]
    BY <1>1 DEF OfKind
  <2>2. IsBucket(u, Facts!Tx, WaitingKey)
    BY <1>1, Kinds
  <2>3. QED
    BY <1>1, <2>1, <2>2 DEF IsBucket, Filed
<1>4. V \in SUBSET Facts!Tx /\ \A t \in V : WaitingKey[t] \in keys /\ db[WaitingKey[t]] = t
  BY <1>1, <1>3 DEF Filed
<1>5. keys = Facts!KeysOf(V, WaitingKey)
  BY <1>3, <1>4 DEF Facts!KeysOf
<1>6. Facts!Found(keys, db) = Facts!InChainOrder(V)
  BY <1>1, <1>4, <1>5, WaitingKeysInOrder, TxsInOrder DEF Waiting
<1>7. LevelDBDatabase!Values(keys) = Facts!Found(keys, db)
  BY SameOrders DEF LevelDBDatabase!Values, Facts!Found
<1>8. QED
  BY <1>1, <1>2, <1>6, <1>7 DEF Waiting

LEMMA LevelReads ==
  ASSUME IsDb(db), Facts!DatabaseInv, TheStore = LevelSays(db),
         NEW maxCnt, LevelDBDatabase!ReadUnprocessed(maxCnt)
  PROVE  handed' = Facts!FirstOnes(Waiting(db), maxCnt)
<1>1. PICK u : u = Waiting(db)
  OBVIOUS
<1>2. Facts!IsFiniteSet(u)
  <2>1. PICK s : s = TheStore
    OBVIOUS
  <2>2. s.unprocessed = u
    BY <1>1, <2>1, StoredFields DEF LevelSays, Waiting
  <2>3. QED
    BY <2>1, <2>2 DEF Facts!DatabaseInv, Facts!StoreTyped
<1>3. LevelDBDatabase!GetUnprocessedConfirmedTxs(maxCnt) =
        Facts!Limited(Facts!InChainOrder(u), maxCnt)
  BY <1>1, <1>2, LevelFinds, SameOrders DEF LevelDBDatabase!GetUnprocessedConfirmedTxs
<1>4. \A values : LevelDBDatabase!ToSet(values) = Facts!ToSet(values)
  BY DEF LevelDBDatabase!ToSet, Facts!ToSet
<1>5. QED
  BY <1>1, <1>3, <1>4 DEF LevelDBDatabase!ReadUnprocessed, Facts!FirstOnes

-----------------------------------------------------------------------------
\* Batches.

\* One db with what a batch writes over another.
IsWritten(after, b, before) ==
  /\ \A k : k \in DOMAIN after <=>
              IF k \in DOMAIN b THEN b[k] # Absent ELSE k \in DOMAIN before
  /\ \A k \in DOMAIN after : after[k] = IF k \in DOMAIN b THEN b[k] ELSE before[k]

LEMMA WrittenDb ==
  ASSUME IsDb(db), NEW b, NEW after, after = LevelDBDatabase!Written(b)
  PROVE  IsWritten(after, b, db)
<1>1. PICK all : all = LevelDBDatabase!Over(b, db)
  OBVIOUS
<1>2. all = [k \in DOMAIN b \cup DOMAIN db |-> IF k \in DOMAIN b THEN b[k] ELSE db[k]]
  BY <1>1 DEF LevelDBDatabase!Over
<1>3. after = [k \in {l \in DOMAIN all : all[l] # Absent} |-> all[k]]
  BY <1>1, Zenon DEF LevelDBDatabase!Written
<1>4. \A k \in DOMAIN db : db[k] # Absent
  BY EntryFacts DEF IsDb
<1>5. QED
  BY <1>2, <1>3, <1>4 DEF IsWritten

\* A batch of such entries makes a db of a db.
IsBatch(b) == \A k \in DOMAIN b : b[k] = Absent \/ IsEntry(k, b[k])

LEMMA WrittenIsDb ==
  ASSUME NEW before, IsDb(before), NEW b, IsBatch(b), NEW after, IsWritten(after, b, before)
  PROVE  IsDb(after)
  BY DEF IsDb, IsBatch, IsWritten

\* The last operation on a key counts.
DoneTo(calls, i) == LevelDBDatabase!Operation(calls[i])

LastOn(b, calls, n) ==
  /\ \A k : k \in DOMAIN b <=> \E i \in 1..n : k \in DOMAIN DoneTo(calls, i)
  /\ \A i \in 1..n : \A k \in DOMAIN DoneTo(calls, i) :
       (\A j \in (i + 1)..n : k \notin DOMAIN DoneTo(calls, j)) => b[k] = DoneTo(calls, i)[k]

LEMMA LastCounts ==
  ASSUME NEW calls, NEW n \in Nat, DOMAIN calls = 1..n, NEW b, b = LevelDBDatabase!BatchOf(calls)
  PROVE  LastOn(b, calls, n)
<1> DEFINE Op(i) == LevelDBDatabase!Operation(calls[i])
           On(k) == {i \in DOMAIN calls : k \in DOMAIN Op(i)}
<1>1. b = [k \in UNION {DOMAIN Op(i) : i \in DOMAIN calls} |-> Op(LevelDBDatabase!Max(On(k)))[k]]
  BY Zenon DEF LevelDBDatabase!BatchOf
<1>2. \A i : Op(i) = DoneTo(calls, i)
  BY DEF DoneTo
<1> HIDE DEF Op
<1>3. \A k : k \in DOMAIN b <=> \E i \in 1..n : k \in DOMAIN Op(i)
  BY <1>1
<1>4. ASSUME NEW i \in 1..n, NEW k \in DOMAIN Op(i),
             \A j \in (i + 1)..n : k \notin DOMAIN Op(j)
      PROVE  b[k] = Op(i)[k]
  <2>1. PICK on : on = On(k)
    OBVIOUS
  <2>2. i \in on /\ \A j \in on : j \in 1..n /\ j <= i
    BY <1>4, <2>1
  <2>3. LevelDBDatabase!Max(on) = i
    <3>1. \A x \in on : (\A y \in on : x >= y) => x = i
      BY <2>2
    <3>2. \A y \in on : i >= y
      BY <2>2
    <3>3. QED
      BY <2>2, <3>1, <3>2 DEF LevelDBDatabase!Max
  <2>4. k \in DOMAIN b
    BY <1>3
  <2>5. b[k] = Op(LevelDBDatabase!Max(on))[k]
    BY <1>1, <2>1, <2>4
  <2>6. QED
    BY <2>3, <2>5
<1>5. QED
  BY <1>2, <1>3, <1>4 DEF LastOn

\* What a batch makes of the values of one kind.
IsPut(op, values, key) ==
  DOMAIN op = Facts!KeysOf(values, key) /\ \A v \in values : op[key[v]] = v

Alone(b, op, d) ==
  \A k : k[1] = d => /\ k \in DOMAIN b <=> k \in DOMAIN op
                     /\ k \in DOMAIN op => b[k] = op[k]

LEMMA PutsOfKind ==
  ASSUME NEW before, NEW b, NEW after, IsWritten(after, b, before),
         NEW op, NEW d, Alone(b, op, d), NEW values, NEW key, IsPut(op, values, key),
         \A v \in values : key[v][1] = d /\ v # Absent
  PROVE  WithValues(OfKind(before, d), OfKind(after, d), values, key)
<1>1. ASSUME NEW v \in values
      PROVE  key[v][1] = d /\ key[v] \in DOMAIN b /\ b[key[v]] = v /\ v # Absent
  <2>1. key[v] \in DOMAIN op /\ op[key[v]] = v
    BY DEF IsPut, Facts!KeysOf
  <2>2. QED
    BY <2>1 DEF Alone
<1>2. ASSUME NEW k, k[1] = d, k \notin Facts!KeysOf(values, key)
      PROVE  k \notin DOMAIN b
  BY <1>2 DEF IsPut, Alone
<1>3. ASSUME NEW v \in values
      PROVE  key[v] \in DOMAIN after /\ after[key[v]] = v
  BY <1>1 DEF IsWritten
<1>4. ASSUME NEW k, k[1] = d, k \notin Facts!KeysOf(values, key)
      PROVE  /\ k \in DOMAIN after <=> k \in DOMAIN before
             /\ k \in DOMAIN after => after[k] = before[k]
  BY <1>2, <1>4 DEF IsWritten
<1>5. DOMAIN OfKind(after, d) = DOMAIN OfKind(before, d) \cup Facts!KeysOf(values, key)
  BY <1>1, <1>3, <1>4 DEF OfKind, Facts!KeysOf
<1>6. \A v \in values : OfKind(after, d)[key[v]] = v
  BY <1>1, <1>3 DEF OfKind
<1>7. \A k \in DOMAIN OfKind(before, d) \ Facts!KeysOf(values, key) :
        OfKind(after, d)[k] = OfKind(before, d)[k]
  BY <1>4 DEF OfKind
<1>8. QED
  BY <1>5, <1>6, <1>7 DEF WithValues

LEMMA DeletesOfKind ==
  ASSUME NEW before, NEW b, NEW after, IsWritten(after, b, before),
         NEW values, NEW key, NEW d,
         \A k : k[1] = d => /\ k \in DOMAIN b <=> k \in Facts!KeysOf(values, key)
                            /\ k \in DOMAIN b => b[k] = Absent
  PROVE  WithoutValues(OfKind(before, d), OfKind(after, d), values, key)
<1>1. ASSUME NEW k, k[1] = d
      PROVE  /\ k \in DOMAIN after <=> k \in DOMAIN before /\ k \notin Facts!KeysOf(values, key)
             /\ k \in DOMAIN after => after[k] = before[k]
  BY <1>1 DEF IsWritten
<1>2. QED
  BY <1>1 DEF WithoutValues, OfKind

LEMMA NothingOfKind ==
  ASSUME NEW before, NEW b, NEW after, IsWritten(after, b, before),
         NEW d, \A k \in DOMAIN b : k[1] # d
  PROVE  OfKind(after, d) = OfKind(before, d)
<1>1. ASSUME NEW k, k[1] = d
      PROVE  /\ k \in DOMAIN after <=> k \in DOMAIN before
             /\ k \in DOMAIN after => after[k] = before[k]
  BY <1>1 DEF IsWritten
<1>2. QED
  BY <1>1 DEF OfKind

LEMMA SameOutputs ==
  ASSUME NEW before, NEW b, NEW after, IsWritten(after, b, before), \A k \in DOMAIN b : k[1] # 1
  PROVE  LevelOutputs(after) = LevelOutputs(before)
<1>1. ASSUME NEW i \in TxInputs
      PROVE  /\ OutputKeyOf[i] \in DOMAIN after <=> OutputKeyOf[i] \in DOMAIN before
             /\ OutputKeyOf[i] \in DOMAIN after =>
                  after[OutputKeyOf[i]] = before[OutputKeyOf[i]]
  <2>1. OutputKeyOf[i][1] = 1
    BY KindsOfKeys DEF IsKey
  <2>2. QED
    BY <2>1 DEF IsWritten
<1>2. QED
  BY <1>1 DEF LevelOutputs

LEMMA SamePoint ==
  ASSUME NEW before, NEW b, NEW after, IsWritten(after, b, before), PointKey \notin DOMAIN b
  PROVE  LevelPoint(after) = LevelPoint(before)
  BY DEF IsWritten, LevelPoint

-----------------------------------------------------------------------------
\* The operations of leveldb.

LEMMA TxsPutInBatch ==
  ASSUME NEW txs \in SUBSET Facts!Tx
  PROVE  /\ IsPut(LevelDBDatabase!Puts(LevelDBDatabase!unprocessedTxsBucket, txs,
                                       LevelDBDatabase!TxKey), txs, WaitingKey)
         /\ IsPut(LevelDBDatabase!Puts(LevelDBDatabase!processedTxsBucket, txs,
                                       LevelDBDatabase!TxKey), txs, ProcessedKey)
<1>1. IsPut(LevelDBDatabase!Puts(LevelDBDatabase!unprocessedTxsBucket, txs,
                                 LevelDBDatabase!TxKey), txs, WaitingKey)
  <2>1. PICK op : op = LevelDBDatabase!Puts(LevelDBDatabase!unprocessedTxsBucket, txs,
                                            LevelDBDatabase!TxKey)
    OBVIOUS
  <2>2. \A t \in txs : LevelDBDatabase!bucketKey(LevelDBDatabase!unprocessedTxsBucket,
                                                 LevelDBDatabase!TxKey(t)) = WaitingKey[t]
    BY NamesOfKeys
  <2>3. op = [k \in {LevelDBDatabase!bucketKey(LevelDBDatabase!unprocessedTxsBucket,
                                               LevelDBDatabase!TxKey(v)) : v \in txs} |->
                CHOOSE v \in txs :
                  LevelDBDatabase!bucketKey(LevelDBDatabase!unprocessedTxsBucket,
                                            LevelDBDatabase!TxKey(v)) = k]
    BY <2>1, Zenon DEF LevelDBDatabase!Puts
  <2>4. DOMAIN op = Facts!KeysOf(txs, WaitingKey)
    BY <2>2, <2>3 DEF Facts!KeysOf
  <2>5. ASSUME NEW t \in txs
        PROVE  op[WaitingKey[t]] = t
    <3>1. PICK k : k = WaitingKey[t]
      OBVIOUS
    <3>2. op[k] = CHOOSE v \in txs :
                    LevelDBDatabase!bucketKey(LevelDBDatabase!unprocessedTxsBucket,
                                              LevelDBDatabase!TxKey(v)) = k
      BY <2>2, <2>3, <3>1
    <3>3. \A v \in txs : LevelDBDatabase!bucketKey(LevelDBDatabase!unprocessedTxsBucket,
                                                   LevelDBDatabase!TxKey(v)) = k <=> v = t
      BY <2>2, <3>1, KeysOfOneKind DEF OwnKeys
    <3>4. QED
      BY <3>1, <3>2, <3>3
  <2>6. QED
    BY <2>1, <2>4, <2>5 DEF IsPut
<1>2. IsPut(LevelDBDatabase!Puts(LevelDBDatabase!processedTxsBucket, txs,
                                 LevelDBDatabase!TxKey), txs, ProcessedKey)
  <2>1. PICK op : op = LevelDBDatabase!Puts(LevelDBDatabase!processedTxsBucket, txs,
                                            LevelDBDatabase!TxKey)
    OBVIOUS
  <2>2. \A t \in txs : LevelDBDatabase!bucketKey(LevelDBDatabase!processedTxsBucket,
                                                 LevelDBDatabase!TxKey(t)) = ProcessedKey[t]
    BY NamesOfKeys
  <2>3. op = [k \in {LevelDBDatabase!bucketKey(LevelDBDatabase!processedTxsBucket,
                                               LevelDBDatabase!TxKey(v)) : v \in txs} |->
                CHOOSE v \in txs :
                  LevelDBDatabase!bucketKey(LevelDBDatabase!processedTxsBucket,
                                            LevelDBDatabase!TxKey(v)) = k]
    BY <2>1, Zenon DEF LevelDBDatabase!Puts
  <2>4. DOMAIN op = Facts!KeysOf(txs, ProcessedKey)
    BY <2>2, <2>3 DEF Facts!KeysOf
  <2>5. ASSUME NEW t \in txs
        PROVE  op[ProcessedKey[t]] = t
    <3>1. PICK k : k = ProcessedKey[t]
      OBVIOUS
    <3>2. op[k] = CHOOSE v \in txs :
                    LevelDBDatabase!bucketKey(LevelDBDatabase!processedTxsBucket,
                                              LevelDBDatabase!TxKey(v)) = k
      BY <2>2, <2>3, <3>1
    <3>3. \A v \in txs : LevelDBDatabase!bucketKey(LevelDBDatabase!processedTxsBucket,
                                                   LevelDBDatabase!TxKey(v)) = k <=> v = t
      BY <2>2, <3>1, KeysOfOneKind DEF OwnKeys
    <3>4. QED
      BY <3>1, <3>2, <3>3
  <2>6. QED
    BY <2>1, <2>4, <2>5 DEF IsPut
<1>3. QED
  BY <1>1, <1>2

KeysOfOutputs(inputs) == {OutputKeyOf[i] : i \in inputs}

LEMMA InKeysOfOutputs ==
  ASSUME NEW inputs \in SUBSET TxInputs, NEW i \in TxInputs
  PROVE  OutputKeyOf[i] \in KeysOfOutputs(inputs) <=> i \in inputs
  BY KeysOfOneKind DEF KeysOfOutputs

LEMMA SameOutputKeys ==
  ASSUME NEW inputs \in SUBSET TxInputs
  PROVE  {LevelDBDatabase!OutputKey(i) : i \in inputs} = KeysOfOutputs(inputs)
  BY NamesOfKeys DEF KeysOfOutputs

LEMMA OperationSetsPoint ==
  ASSUME NEW slot, NEW d, d.call = "SetLatestBlockPoint", d.slot = slot
  PROVE  LevelDBDatabase!Operation(d) = [k \in {PointKey} |-> slot]
  BY NamesOfKeys DEF LevelDBDatabase!Operation

LEMMA OperationAddsTxs ==
  ASSUME NEW txs \in SUBSET Facts!Tx, NEW d, d.call = "AddConfirmedTxs", d.txs = txs
  PROVE  IsPut(LevelDBDatabase!Operation(d), txs, WaitingKey)
<1>1. LevelDBDatabase!Operation(d) =
        LevelDBDatabase!Puts(LevelDBDatabase!unprocessedTxsBucket, txs, LevelDBDatabase!TxKey)
  BY DEF LevelDBDatabase!Operation
<1>2. QED
  BY <1>1, TxsPutInBatch

LEMMA OperationAddsBlock ==
  ASSUME NEW block \in Facts!Block, NEW d, d.call = "AddConfirmedBlock", d.block = block
  PROVE  IsPut(LevelDBDatabase!Operation(d), {block}, StoredBlockKey)
<1>1. PICK op : op = LevelDBDatabase!Operation(d)
  OBVIOUS
<1>2. op = LevelDBDatabase!Puts(LevelDBDatabase!confirmedBlocks, {block},
                                LevelDBDatabase!BlockKey)
  BY <1>1 DEF LevelDBDatabase!Operation
<1>3. op = [k \in {LevelDBDatabase!bucketKey(LevelDBDatabase!confirmedBlocks,
                                             LevelDBDatabase!BlockKey(v)) : v \in {block}} |->
              CHOOSE v \in {block} :
                LevelDBDatabase!bucketKey(LevelDBDatabase!confirmedBlocks,
                                          LevelDBDatabase!BlockKey(v)) = k]
  BY <1>2, Zenon DEF LevelDBDatabase!Puts
<1>4. LevelDBDatabase!bucketKey(LevelDBDatabase!confirmedBlocks,
                                LevelDBDatabase!BlockKey(block)) = StoredBlockKey[block]
  BY NamesOfKeys
<1>5. DOMAIN op = {StoredBlockKey[block]} /\ op[StoredBlockKey[block]] = block
  BY <1>3, <1>4
<1>6. QED
  BY <1>1, <1>5 DEF IsPut, Facts!KeysOf

LEMMA OperationAddsOutputs ==
  ASSUME NEW inputs \in SUBSET TxInputs, NEW slot,
         NEW d, d.call = "AddTxOutputs", d.inputs = inputs, d.slot = slot,
         NEW op, op = LevelDBDatabase!Operation(d)
  PROVE  /\ DOMAIN op = KeysOfOutputs(inputs)
         /\ \A i \in inputs : op[OutputKeyOf[i]] = Facts!TxOutput(i, slot)
<1>1. op = [k \in {LevelDBDatabase!OutputKey(i) : i \in inputs} |->
              LevelDBDatabase!TxOutput(CHOOSE i \in inputs : LevelDBDatabase!OutputKey(i) = k,
                                       slot)]
  BY DEF LevelDBDatabase!Operation
<1>2. DOMAIN op = KeysOfOutputs(inputs)
  BY <1>1, SameOutputKeys
<1>3. ASSUME NEW i \in inputs
      PROVE  op[OutputKeyOf[i]] = Facts!TxOutput(i, slot)
  <2>1. PICK k : k = OutputKeyOf[i]
    OBVIOUS
  <2>2. k \in DOMAIN op
    BY <1>2, <2>1 DEF KeysOfOutputs
  <2>3. \A j \in inputs : LevelDBDatabase!OutputKey(j) = k <=> j = i
    BY <2>1, NamesOfKeys, KeysOfOneKind
  <2>4. (CHOOSE j \in inputs : LevelDBDatabase!OutputKey(j) = k) = i
    BY <2>3
  <2>5. op[k] = LevelDBDatabase!TxOutput(i, slot)
    BY <1>1, <2>2, <2>4
  <2>6. QED
    BY <2>1, <2>5 DEF LevelDBDatabase!TxOutput, Facts!TxOutput
<1>4. QED
  BY <1>2, <1>3

LEMMA OperationRemovesOutputs ==
  ASSUME NEW inputs \in SUBSET TxInputs,
         NEW d, d.call = "RemoveTxOutputs", d.inputs = inputs, d.softDelete = FALSE
  PROVE  LevelDBDatabase!Operation(d) = [k \in KeysOfOutputs(inputs) |-> Absent]
<1>1. LevelDBDatabase!Operation(d) =
        LevelDBDatabase!Deletions({LevelDBDatabase!OutputKey(i) : i \in inputs})
  BY DEF LevelDBDatabase!Operation
<1>2. QED
  BY <1>1, SameOutputKeys DEF LevelDBDatabase!Deletions

LEMMA OperationUsesOutputs ==
  ASSUME NEW inputs \in SUBSET TxInputs,
         NEW d, d.call = "RemoveTxOutputs", d.inputs = inputs, d.softDelete = TRUE
  PROVE  LevelDBDatabase!Operation(d) =
           [k \in KeysOfOutputs(inputs) \cap DOMAIN db |-> Used(db[k])]
<1>1. LevelDBDatabase!Operation(d) =
        [k \in {LevelDBDatabase!OutputKey(i) : i \in inputs} \cap DOMAIN db |->
           [db[k] EXCEPT !.IsUsed = TRUE]]
  BY DEF LevelDBDatabase!Operation
<1>2. QED
  BY <1>1, SameOutputKeys DEF Used

LEMMA OperationDeletesOutputs ==
  ASSUME IsDb(db), NEW d, d.call = "DeleteAllTxOutputsPhysically"
  PROVE  LevelDBDatabase!Operation(d) = [k \in {l \in DOMAIN db : l[1] = 1} |-> Absent]
<1>1. LevelDBDatabase!Operation(d) =
        LevelDBDatabase!Deletions(LevelDBDatabase!Prefixed(LevelDBDatabase!txOutputsBucket))
  BY DEF LevelDBDatabase!Operation
<1>2. LevelDBDatabase!Prefixed(LevelDBDatabase!txOutputsBucket) = {l \in DOMAIN db : l[1] = 1}
  BY PrefixedKeys DEF LevelDBDatabase!Prefixed, LevelDBDatabase!txOutputsBucket
<1>3. QED
  BY <1>1, <1>2 DEF LevelDBDatabase!Deletions

OfOneKind(op, d) == \A k \in DOMAIN op : k[1] = d

\* A block's operations in a batch; only the last two may meet.
BlockBatch(b, o1, o2, o3, o4, o5) ==
  /\ \A k \in DOMAIN b : \/ k \in DOMAIN o1 \/ k \in DOMAIN o2 \/ k \in DOMAIN o3
                         \/ k \in DOMAIN o4 \/ k \in DOMAIN o5
  /\ \A k \in DOMAIN o1 : k \in DOMAIN b /\ b[k] = o1[k]
  /\ \A k \in DOMAIN o2 : k \in DOMAIN b /\ b[k] = o2[k]
  /\ \A k \in DOMAIN o3 : k \in DOMAIN b /\ b[k] = o3[k]
  /\ \A k \in DOMAIN o4 \ DOMAIN o5 : k \in DOMAIN b /\ b[k] = o4[k]
  /\ \A k \in DOMAIN o5 : k \in DOMAIN b /\ b[k] = o5[k]

LEMMA FiveOperations ==
  ASSUME NEW calls, DOMAIN calls = 1..5, NEW b, b = LevelDBDatabase!BatchOf(calls),
         NEW o1, NEW o2, NEW o3, NEW o4, NEW o5,
         o1 = DoneTo(calls, 1), o2 = DoneTo(calls, 2), o3 = DoneTo(calls, 3),
         o4 = DoneTo(calls, 4), o5 = DoneTo(calls, 5),
         OfOneKind(o1, 4), OfOneKind(o2, 5), OfOneKind(o3, 2), OfOneKind(o4, 1), OfOneKind(o5, 1)
  PROVE  BlockBatch(b, o1, o2, o3, o4, o5)
<1>1. /\ \A k : k \in DOMAIN b <=> \E i \in 1..5 : k \in DOMAIN DoneTo(calls, i)
      /\ \A i \in 1..5 : \A k \in DOMAIN DoneTo(calls, i) :
           (\A j \in (i + 1)..5 : k \notin DOMAIN DoneTo(calls, j)) =>
             b[k] = DoneTo(calls, i)[k]
  <2>1. PICK n : n = 5
    OBVIOUS
  <2>2. LastOn(b, calls, n)
    BY <2>1, LastCounts
  <2>3. QED
    BY <2>1, <2>2 DEF LastOn
<1>2. \A k : \/ k \notin DOMAIN o1 /\ k \notin DOMAIN o2 /\ k \notin DOMAIN o3
             \/ k \notin DOMAIN o4 /\ k \notin DOMAIN o5
  BY DEF OfOneKind
<1>3. ASSUME NEW k \in DOMAIN b
      PROVE  \/ k \in DOMAIN o1 \/ k \in DOMAIN o2 \/ k \in DOMAIN o3
             \/ k \in DOMAIN o4 \/ k \in DOMAIN o5
  <2>1. PICK i \in 1..5 : k \in DOMAIN DoneTo(calls, i)
    BY <1>1
  <2>2. i = 1 \/ i = 2 \/ i = 3 \/ i = 4 \/ i = 5
    OBVIOUS
  <2>3. QED
    BY <2>1, <2>2
<1>4. ASSUME NEW k \in DOMAIN o1
      PROVE  k \in DOMAIN b /\ b[k] = o1[k]
  <2>1. k \notin DOMAIN o2 /\ k \notin DOMAIN o3 /\ k \notin DOMAIN o4 /\ k \notin DOMAIN o5
    BY DEF OfOneKind
  <2>2. \A j \in (1 + 1)..5 : j = 2 \/ j = 3 \/ j = 4 \/ j = 5
    OBVIOUS
  <2>3. \A j \in (1 + 1)..5 : k \notin DOMAIN DoneTo(calls, j)
    BY <2>1, <2>2
  <2>4. QED
    BY <1>1, <2>3
<1>5. ASSUME NEW k \in DOMAIN o2
      PROVE  k \in DOMAIN b /\ b[k] = o2[k]
  <2>1. k \notin DOMAIN o3 /\ k \notin DOMAIN o4 /\ k \notin DOMAIN o5
    BY DEF OfOneKind
  <2>2. \A j \in (2 + 1)..5 : j = 3 \/ j = 4 \/ j = 5
    OBVIOUS
  <2>3. \A j \in (2 + 1)..5 : k \notin DOMAIN DoneTo(calls, j)
    BY <2>1, <2>2
  <2>4. QED
    BY <1>1, <2>3
<1>6. ASSUME NEW k \in DOMAIN o3
      PROVE  k \in DOMAIN b /\ b[k] = o3[k]
  <2>1. k \notin DOMAIN o4 /\ k \notin DOMAIN o5
    BY DEF OfOneKind
  <2>2. \A j \in (3 + 1)..5 : j = 4 \/ j = 5
    OBVIOUS
  <2>3. \A j \in (3 + 1)..5 : k \notin DOMAIN DoneTo(calls, j)
    BY <2>1, <2>2
  <2>4. QED
    BY <1>1, <2>3
<1>7. ASSUME NEW k \in DOMAIN o4, k \notin DOMAIN o5
      PROVE  k \in DOMAIN b /\ b[k] = o4[k]
  <2>1. \A j \in (4 + 1)..5 : j = 5
    OBVIOUS
  <2>2. \A j \in (4 + 1)..5 : k \notin DOMAIN DoneTo(calls, j)
    BY <1>7, <2>1
  <2>3. QED
    BY <1>1, <2>2
<1>8. ASSUME NEW k \in DOMAIN o5
      PROVE  k \in DOMAIN b /\ b[k] = o5[k]
  <2>1. \A j \in (5 + 1)..5 : k \notin DOMAIN DoneTo(calls, j)
    OBVIOUS
  <2>2. QED
    BY <1>1, <2>1
<1>9. QED
  BY <1>3, <1>4, <1>5, <1>6, <1>7, <1>8 DEF BlockBatch

LEMMA BlockBatchAlone ==
  ASSUME NEW b, NEW o1, NEW o2, NEW o3, NEW o4, NEW o5, BlockBatch(b, o1, o2, o3, o4, o5),
         OfOneKind(o1, 4), OfOneKind(o2, 5), OfOneKind(o3, 2), OfOneKind(o4, 1), OfOneKind(o5, 1)
  PROVE  /\ Alone(b, o1, 4) /\ Alone(b, o2, 5) /\ Alone(b, o3, 2)
         /\ \A k \in DOMAIN b : k[1] # 3
         /\ \A k : k[1] = 1 => (k \in DOMAIN b <=> k \in DOMAIN o4 \/ k \in DOMAIN o5)
<1> USE DEF BlockBatch, OfOneKind
<1>1. Alone(b, o1, 4)
  BY DEF Alone
<1>2. Alone(b, o2, 5)
  BY DEF Alone
<1>3. Alone(b, o3, 2)
  BY DEF Alone
<1>4. \A k \in DOMAIN b : k[1] # 3
  OBVIOUS
<1>5. \A k : k[1] = 1 => (k \in DOMAIN b <=> k \in DOMAIN o4 \/ k \in DOMAIN o5)
  OBVIOUS
<1>6. QED
  BY <1>1, <1>2, <1>3, <1>4, <1>5

\* The outputs a block's batch leaves, without those removed.
AddsOutputs(op, inputs, slot) ==
  /\ DOMAIN op = KeysOfOutputs(inputs)
  /\ \A i \in inputs : op[OutputKeyOf[i]] = Facts!TxOutput(i, slot)

LEMMA OutputsOf ==
  ASSUME NEW d, NEW ins, NEW outputs, outputs = [i \in ins |-> outputs[i]], ins \in SUBSET TxInputs,
         \A i \in TxInputs : OutputKeyOf[i] \in DOMAIN d <=> i \in ins,
         \A i \in ins : d[OutputKeyOf[i]] = outputs[i]
  PROVE  LevelOutputs(d) = outputs
<1>1. {j \in TxInputs : OutputKeyOf[j] \in DOMAIN d} = ins
  OBVIOUS
<1>2. LevelOutputs(d) = [i \in ins |-> d[OutputKeyOf[i]]]
  BY <1>1 DEF LevelOutputs
<1>3. QED
  BY <1>2

LEMMA BatchRemovesOutputs ==
  ASSUME NEW before, NEW b, NEW after, IsWritten(after, b, before),
         NEW added \in SUBSET TxInputs, NEW removed \in SUBSET TxInputs, NEW slot \in Slots,
         NEW o4, AddsOutputs(o4, added, slot),
         NEW o5, o5 = [k \in KeysOfOutputs(removed) |-> Absent],
         \A k : k[1] = 1 => (k \in DOMAIN b <=> k \in DOMAIN o4 \/ k \in DOMAIN o5),
         \A k \in DOMAIN o4 \ DOMAIN o5 : k \in DOMAIN b /\ b[k] = o4[k],
         \A k \in DOMAIN o5 : k \in DOMAIN b /\ b[k] = o5[k]
  PROVE  LevelOutputs(after) =
           Facts!Without(Facts!WithAdded(LevelOutputs(before), added, slot), removed)
<1>1. PICK outputs : outputs = Facts!WithAdded(LevelOutputs(before), added, slot)
  OBVIOUS
<1>2. PICK ins : ins = DOMAIN LevelOutputs(before)
  OBVIOUS
<1>3. /\ ins \in SUBSET TxInputs
      /\ \A i \in TxInputs : i \in ins <=> OutputKeyOf[i] \in DOMAIN before
      /\ \A i \in ins : LevelOutputs(before)[i] = before[OutputKeyOf[i]]
  BY <1>2 DEF LevelOutputs
<1>4. /\ DOMAIN outputs = ins \cup added
      /\ \A i \in ins \cup added :
           outputs[i] = IF i \in added THEN Facts!TxOutput(i, slot) ELSE before[OutputKeyOf[i]]
  BY <1>1, <1>2, <1>3 DEF Facts!WithAdded
<1>5. ASSUME NEW i \in TxInputs
      PROVE  /\ OutputKeyOf[i] \in DOMAIN after <=> i \in (ins \cup added) \ removed
             /\ i \in (ins \cup added) \ removed => after[OutputKeyOf[i]] = outputs[i]
  <2>1. PICK k : k = OutputKeyOf[i]
    OBVIOUS
  <2>2. k[1] = 1
    BY <2>1, KindsOfKeys DEF IsKey
  <2>3. (k \in DOMAIN o4 <=> i \in added) /\ (k \in DOMAIN o5 <=> i \in removed)
    BY <2>1, InKeysOfOutputs DEF AddsOutputs
  <2>4. CASE i \in removed
    <3>1. k \in DOMAIN b /\ b[k] = Absent
      BY <2>3, <2>4
    <3>2. k \notin DOMAIN after
      BY <3>1 DEF IsWritten
    <3>3. QED
      BY <2>1, <2>4, <3>2
  <2>5. CASE i \notin removed /\ i \in added
    <3>1. k \in DOMAIN b /\ b[k] = Facts!TxOutput(i, slot)
      BY <2>1, <2>3, <2>5 DEF AddsOutputs
    <3>2. b[k] # Absent
      BY <3>1, NewOutput, NotAbsent
    <3>3. k \in DOMAIN after /\ after[k] = Facts!TxOutput(i, slot)
      BY <3>1, <3>2 DEF IsWritten
    <3>4. QED
      BY <1>4, <2>1, <2>5, <3>3
  <2>6. CASE i \notin removed /\ i \notin added
    <3>1. k \notin DOMAIN b
      BY <2>2, <2>3, <2>6
    <3>2. /\ k \in DOMAIN after <=> k \in DOMAIN before
          /\ k \in DOMAIN after => after[k] = before[k]
      BY <3>1 DEF IsWritten
    <3>3. QED
      BY <1>3, <1>4, <2>1, <2>6, <3>2
  <2>7. QED
    BY <2>4, <2>5, <2>6
<1>6. PICK rest : rest = (ins \cup added) \ removed
  OBVIOUS
<1>7. PICK left : left = Facts!Without(outputs, removed)
  OBVIOUS
<1>8. left = [i \in rest |-> outputs[i]]
  BY <1>4, <1>6, <1>7 DEF Facts!Without
<1>9. /\ left = [i \in rest |-> left[i]]
      /\ rest \in SUBSET TxInputs
      /\ \A i \in TxInputs : OutputKeyOf[i] \in DOMAIN after <=> i \in rest
      /\ \A i \in rest : after[OutputKeyOf[i]] = left[i]
  BY <1>3, <1>5, <1>6, <1>8
<1>10. LevelOutputs(after) = left
  BY <1>9, OutputsOf
<1>11. QED
  BY <1>1, <1>7, <1>10

UsesOutputs(op, inputs, d) ==
  op = [k \in KeysOfOutputs(inputs) \cap DOMAIN d |-> Used(d[k])]

\* Of the two operations on outputs the second counts.
OutputsInBatch(b, o4, o5) ==
  /\ \A k : k[1] = 1 => (k \in DOMAIN b <=> k \in DOMAIN o4 \/ k \in DOMAIN o5)
  /\ \A k \in DOMAIN o4 \ DOMAIN o5 : k \in DOMAIN b /\ b[k] = o4[k]
  /\ \A k \in DOMAIN o5 : k \in DOMAIN b /\ b[k] = o5[k]

LEMMA BatchUsesOutputs ==
  ASSUME NEW before, IsDb(before), NEW b, NEW after, IsWritten(after, b, before),
         NEW added \in SUBSET TxInputs, NEW removed \in SUBSET TxInputs, NEW slot \in Slots,
         added \cap removed = {},
         NEW o4, AddsOutputs(o4, added, slot),
         NEW o5, UsesOutputs(o5, removed, before), OutputsInBatch(b, o4, o5)
  PROVE  LevelOutputs(after) =
           Facts!WithUsed(Facts!WithAdded(LevelOutputs(before), added, slot), removed)
<1>1. PICK outputs : outputs = Facts!WithAdded(LevelOutputs(before), added, slot)
  OBVIOUS
<1>2. PICK ins : ins = DOMAIN LevelOutputs(before)
  OBVIOUS
<1>3. /\ ins \in SUBSET TxInputs
      /\ \A i \in TxInputs : i \in ins <=> OutputKeyOf[i] \in DOMAIN before
      /\ \A i \in ins : LevelOutputs(before)[i] = before[OutputKeyOf[i]]
  BY <1>2 DEF LevelOutputs
<1>4. /\ outputs = [i \in ins \cup added |-> outputs[i]]
      /\ \A i \in ins \cup added :
           outputs[i] = IF i \in added THEN Facts!TxOutput(i, slot) ELSE before[OutputKeyOf[i]]
  BY <1>1, <1>2, <1>3 DEF Facts!WithAdded
<1>5. PICK all : all = ins \cup added
  OBVIOUS
<1>6. all \in SUBSET TxInputs /\ outputs \in [all -> Facts!Output]
  <2>1. \A i \in ins : before[OutputKeyOf[i]] \in Facts!Output
    BY <1>3, Kinds
  <2>2. \A i \in added : Facts!TxOutput(i, slot) \in Facts!Output
    BY NewOutput
  <2>3. \A i \in all : outputs[i] \in Facts!Output
    BY <1>4, <1>5, <2>1, <2>2
  <2>4. QED
    BY <1>3, <1>4, <1>5, <2>3
<1>7. ASSUME NEW i \in TxInputs
      PROVE  /\ OutputKeyOf[i] \in DOMAIN after <=> i \in all
             /\ i \in all => after[OutputKeyOf[i]] =
                               IF i \in removed THEN Used(outputs[i]) ELSE outputs[i]
  <2>1. PICK k : k = OutputKeyOf[i]
    OBVIOUS
  <2>2. k[1] = 1
    BY <2>1, KindsOfKeys DEF IsKey
  <2>3. /\ k \in DOMAIN o4 <=> i \in added
        /\ k \in DOMAIN o5 <=> i \in removed /\ i \in ins
    BY <1>3, <2>1, InKeysOfOutputs DEF AddsOutputs, UsesOutputs
  <2>4. CASE i \in removed /\ i \in ins
    <3>1. k \in DOMAIN b /\ b[k] = Used(before[k])
      BY <2>3, <2>4 DEF UsesOutputs, OutputsInBatch
    <3>2. before[k] \in Facts!Output
      BY <1>3, <2>1, <2>4, Kinds
    <3>3. b[k] # Absent
      BY <3>1, <3>2, UsedOutput, NotAbsent
    <3>4. k \in DOMAIN after /\ after[k] = Used(before[k])
      BY <3>1, <3>3 DEF IsWritten
    <3>5. i \in all /\ outputs[i] = before[k]
      BY <1>4, <1>5, <2>1, <2>4
    <3>6. QED
      BY <2>1, <2>4, <3>4, <3>5
  <2>5. CASE i \in added
    <3>1. i \notin removed
      BY <2>5
    <3>2. k \in DOMAIN b /\ b[k] = Facts!TxOutput(i, slot)
      BY <2>1, <2>3, <2>5, <3>1 DEF AddsOutputs, OutputsInBatch
    <3>3. b[k] # Absent
      BY <3>2, NewOutput, NotAbsent
    <3>4. k \in DOMAIN after /\ after[k] = Facts!TxOutput(i, slot)
      BY <3>2, <3>3 DEF IsWritten
    <3>5. i \in all /\ outputs[i] = Facts!TxOutput(i, slot)
      BY <1>4, <1>5, <2>5
    <3>6. QED
      BY <2>1, <3>1, <3>4, <3>5
  <2>6. CASE i \notin added /\ ~(i \in removed /\ i \in ins)
    <3>1. k \notin DOMAIN b
      BY <2>2, <2>3, <2>6 DEF OutputsInBatch
    <3>2. /\ k \in DOMAIN after <=> k \in DOMAIN before
          /\ k \in DOMAIN after => after[k] = before[k]
      BY <3>1 DEF IsWritten
    <3>3. i \in all <=> i \in ins
      BY <1>5, <2>6
    <3>4. i \in ins => i \notin removed /\ outputs[i] = before[k]
      BY <1>4, <2>1, <2>6
    <3>5. QED
      BY <1>3, <2>1, <3>2, <3>3, <3>4
  <2>7. QED
    BY <2>4, <2>5, <2>6
<1>8. PICK used : used = Facts!WithUsed(outputs, removed)
  OBVIOUS
<1>9. used = [i \in all |-> IF i \in removed THEN Used(outputs[i]) ELSE outputs[i]]
  BY <1>6, <1>8, UsedOutputs
<1>10. /\ used = [i \in all |-> used[i]]
       /\ \A i \in TxInputs : OutputKeyOf[i] \in DOMAIN after <=> i \in all
       /\ \A i \in all : after[OutputKeyOf[i]] = used[i]
  BY <1>6, <1>7, <1>9
<1>11. LevelOutputs(after) = used
  BY <1>6, <1>10, OutputsOf
<1>12. QED
  BY <1>1, <1>8, <1>11

-----------------------------------------------------------------------------
\* What the batch of a transaction writes.

BlockWritten(after, slot, c, block) ==
  /\ IsDb(after)
  /\ LevelSays(after) =
       Facts!Stored(slot, Filed(OfKind(db, 5)) \cup {block}, Outcome(LevelOutputs(db), slot, c),
                    Filed(OfKind(db, 4)) \cup Facts!TxsOf(block), Filed(OfKind(db, 3)))

LEMMA LevelWritesBlock ==
  ASSUME IsDb(db), Facts!DatabaseInv, TheStore = LevelSays(db),
         NEW slot, NEW c, NEW calls, NewBlock(LevelPoint(db), FALSE, slot, c, calls),
         NEW block, block = [Slot |-> slot, Txs |-> c.txs],
         NEW b, b = LevelDBDatabase!BatchOf(calls),
         NEW after, after = LevelDBDatabase!Written(b)
  PROVE  BlockWritten(after, slot, c, block)
<1>1. /\ slot \in Slots /\ c \in Facts!BlockContents /\ calls = Facts!BlockCalls(slot, c)
      /\ ~c.softDelete \/ c.added \cap c.removed = {}
  BY DEF NewBlock
<1>2. PICK txs, added, removed :
        txs = Facts!TxsOf(block) /\ added = c.added /\ removed = c.removed
  OBVIOUS
<1>3. /\ added \in SUBSET TxInputs /\ removed \in SUBSET TxInputs /\ c.softDelete \in BOOLEAN
  BY <1>1, <1>2 DEF Facts!BlockContents
<1>4. /\ block \in Facts!Block /\ block.Slot = slot
      /\ txs \in SUBSET Facts!Tx
      /\ \A d \in Filed(OfKind(db, 5)) : d.Slot # slot
  <2>1. PICK p, s, o, u, q :
          /\ p = LevelPoint(db) /\ s = Filed(OfKind(db, 5)) /\ o = LevelOutputs(db)
          /\ u = Filed(OfKind(db, 4)) /\ q = Filed(OfKind(db, 3))
    OBVIOUS
  <2>2. PICK own : own = FALSE
    OBVIOUS
  <2>a. TheStore = Facts!Stored(p, s, o, u, q)
    BY <2>1 DEF LevelSays
  <2>b. NewBlock(p, own, slot, c, calls)
    BY <2>1, <2>2
  <2>3. /\ block \in Facts!Block /\ block.Slot = slot
        /\ Facts!TxsOf(block) \in SUBSET Facts!Tx
        /\ \A d \in s : d.Slot # slot
    BY <2>a, <2>b, NewBlockFacts
  <2>4. QED
    BY <1>2, <2>1, <2>3
<1>5. IsWritten(after, b, db)
  BY WrittenDb
<1>6. PICK o1, o2, o3, o4, o5 :
        /\ o1 = DoneTo(calls, 1) /\ o2 = DoneTo(calls, 2) /\ o3 = DoneTo(calls, 3)
        /\ o4 = DoneTo(calls, 4) /\ o5 = DoneTo(calls, 5)
  OBVIOUS
<1>7. /\ calls[1].call = "AddConfirmedTxs" /\ calls[1].txs = txs
      /\ calls[2].call = "AddConfirmedBlock" /\ calls[2].block = block
      /\ calls[3].call = "SetLatestBlockPoint" /\ calls[3].slot = slot
      /\ calls[4].call = "AddTxOutputs" /\ calls[4].inputs = added /\ calls[4].slot = slot
      /\ calls[5].call = "RemoveTxOutputs" /\ calls[5].inputs = removed
      /\ calls[5].softDelete = c.softDelete
  BY <1>1, <1>2, CallNames
<1>8. IsPut(o1, txs, WaitingKey)
  BY <1>4, <1>6, <1>7, OperationAddsTxs DEF DoneTo
<1>9. IsPut(o2, {block}, StoredBlockKey)
  BY <1>4, <1>6, <1>7, OperationAddsBlock DEF DoneTo
<1>10. o3 = [k \in {PointKey} |-> slot]
  BY <1>6, <1>7, OperationSetsPoint DEF DoneTo
<1>11. AddsOutputs(o4, added, slot)
  <2>1. PICK d : d = calls[4]
    OBVIOUS
  <2>2. d.call = "AddTxOutputs" /\ d.inputs = added /\ d.slot = slot
    BY <1>7, <2>1
  <2>3. o4 = LevelDBDatabase!Operation(d)
    BY <1>6, <2>1 DEF DoneTo
  <2>4. QED
    BY <1>3, <2>2, <2>3, OperationAddsOutputs DEF AddsOutputs
<1>12. c.softDelete = FALSE => o5 = [k \in KeysOfOutputs(removed) |-> Absent]
  <2>1. PICK d : d = calls[5]
    OBVIOUS
  <2>2. d.call = "RemoveTxOutputs" /\ d.inputs = removed /\ d.softDelete = c.softDelete
    BY <1>7, <2>1
  <2>3. o5 = LevelDBDatabase!Operation(d)
    BY <1>6, <2>1 DEF DoneTo
  <2>4. QED
    BY <1>3, <2>2, <2>3, OperationRemovesOutputs
<1>13. c.softDelete = TRUE =>
         o5 = [k \in KeysOfOutputs(removed) \cap DOMAIN db |-> Used(db[k])]
  <2>1. PICK d : d = calls[5]
    OBVIOUS
  <2>2. d.call = "RemoveTxOutputs" /\ d.inputs = removed /\ d.softDelete = c.softDelete
    BY <1>7, <2>1
  <2>3. o5 = LevelDBDatabase!Operation(d)
    BY <1>6, <2>1 DEF DoneTo
  <2>4. QED
    BY <1>3, <2>2, <2>3, OperationUsesOutputs
<1>14. OfOneKind(o1, 4)
  BY <1>4, <1>8, KindsOfKeys DEF OfOneKind, IsPut, IsKey, Facts!KeysOf
<1>15. OfOneKind(o2, 5)
  BY <1>4, <1>9, KindsOfKeys DEF OfOneKind, IsPut, IsKey, Facts!KeysOf
<1>16. OfOneKind(o3, 2)
  BY <1>10, KindsOfKeys DEF OfOneKind, IsKey
<1>17. OfOneKind(o4, 1)
  BY <1>3, <1>11, KindsOfKeys DEF OfOneKind, AddsOutputs, KeysOfOutputs, IsKey
<1>18. DOMAIN o5 \subseteq KeysOfOutputs(removed)
  BY <1>3, <1>12, <1>13
<1>19. OfOneKind(o5, 1)
  BY <1>3, <1>18, KindsOfKeys DEF OfOneKind, KeysOfOutputs, IsKey
<1>20. DOMAIN calls = 1..5
  BY <1>1, CallsOfBlock
<1>21. BlockBatch(b, o1, o2, o3, o4, o5)
  BY <1>6, <1>14, <1>15, <1>16, <1>17, <1>19, <1>20, FiveOperations
<1>22. /\ Alone(b, o1, 4) /\ Alone(b, o2, 5) /\ Alone(b, o3, 2)
       /\ \A k \in DOMAIN b : k[1] # 3
       /\ \A k : k[1] = 1 => (k \in DOMAIN b <=> k \in DOMAIN o4 \/ k \in DOMAIN o5)
  BY <1>14, <1>15, <1>16, <1>17, <1>19, <1>21, BlockBatchAlone
<1>23. IsBatch(b)
  <2>1. \A k \in DOMAIN o1 : IsEntry(k, o1[k])
    BY <1>4, <1>8 DEF IsPut, Facts!KeysOf, IsEntry
  <2>2. \A k \in DOMAIN o2 : IsEntry(k, o2[k])
    BY <1>4, <1>9 DEF IsPut, Facts!KeysOf, IsEntry
  <2>3. \A k \in DOMAIN o3 : IsEntry(k, o3[k])
    BY <1>1, <1>10 DEF IsEntry
  <2>4. \A k \in DOMAIN o4 : IsEntry(k, o4[k])
    <3>1. \A i \in added : Facts!TxOutput(i, slot) \in Facts!Output
      BY <1>1, <1>3, NewOutput
    <3>2. QED
      BY <1>3, <1>11, <3>1 DEF AddsOutputs, KeysOfOutputs, IsEntry
  <2>5. \A k \in DOMAIN o5 : o5[k] = Absent \/ IsEntry(k, o5[k])
    <3>1. CASE c.softDelete = FALSE
      BY <1>12, <3>1
    <3>2. CASE c.softDelete = TRUE
      <4> SUFFICES ASSUME NEW k \in DOMAIN o5
                   PROVE  IsEntry(k, o5[k])
        OBVIOUS
      <4>1. o5[k] = Used(db[k]) /\ k \in DOMAIN db
        BY <1>13, <3>2
      <4>2. PICK i \in TxInputs : k = OutputKeyOf[i]
        BY <1>3, <1>18 DEF KeysOfOutputs
      <4>3. db[k] \in Facts!Output
        BY <4>1, <4>2, Kinds
      <4>4. o5[k] \in Facts!Output
        BY <4>1, <4>3, UsedOutput
      <4>5. QED
        BY <4>2, <4>4 DEF IsEntry
    <3>3. QED
      BY <1>3, <3>1, <3>2
  <2>6. QED
    BY <1>21, <2>1, <2>2, <2>3, <2>4, <2>5 DEF BlockBatch, IsBatch
<1>24. IsDb(after)
  BY <1>5, <1>23, WrittenIsDb
<1>25. LevelPoint(after) = slot
  <2>1. PointKey \in DOMAIN b /\ b[PointKey] = slot
    BY <1>10, <1>21 DEF BlockBatch
  <2>2. slot # Absent
    BY <1>1, NotAbsent
  <2>3. PointKey \in DOMAIN after /\ after[PointKey] = slot
    BY <1>5, <2>1, <2>2 DEF IsWritten
  <2>4. QED
    BY <2>3 DEF LevelPoint
<1>26. Filed(OfKind(after, 4)) = Filed(OfKind(db, 4)) \cup txs
  <2>1. \A t \in txs : WaitingKey[t][1] = 4 /\ t # Absent
    BY <1>4, KindsOfKeys, NotAbsent DEF IsKey
  <2>2. WithValues(OfKind(db, 4), OfKind(after, 4), txs, WaitingKey)
    BY <1>5, <1>8, <1>22, <2>1, PutsOfKind
  <2>3. IsBucket(OfKind(db, 4), Facts!Tx, WaitingKey)
    BY Kinds
  <2>4. OwnKeys(txs, Filed(OfKind(db, 4)), WaitingKey)
    BY <1>4, <2>3, KeysOfOneKind DEF OwnKeys, IsBucket, Filed
  <2>5. QED
    BY <1>4, <2>2, <2>3, <2>4, FiledValues
<1>27. Filed(OfKind(after, 5)) = Filed(OfKind(db, 5)) \cup {block}
  <2>1. StoredBlockKey[block][1] = 5 /\ block # Absent
    BY <1>4, KindsOfKeys, NotAbsent DEF IsKey
  <2>2. WithValues(OfKind(db, 5), OfKind(after, 5), {block}, StoredBlockKey)
    BY <1>5, <1>9, <1>22, <2>1, PutsOfKind
  <2>3. IsBucket(OfKind(db, 5), Facts!Block, StoredBlockKey)
    BY Kinds
  <2>4. OwnKeys({block}, Filed(OfKind(db, 5)), StoredBlockKey)
    BY <1>4, <2>3, KeysOfOneKind DEF OwnKeys, IsBucket, Filed
  <2>5. QED
    BY <1>4, <2>2, <2>3, <2>4, FiledValues
<1>28. OfKind(after, 3) = OfKind(db, 3)
  BY <1>5, <1>22, NothingOfKind
<1>29. LevelOutputs(after) = Outcome(LevelOutputs(db), slot, c)
  <2>1. /\ \A k \in DOMAIN o4 \ DOMAIN o5 : k \in DOMAIN b /\ b[k] = o4[k]
        /\ \A k \in DOMAIN o5 : k \in DOMAIN b /\ b[k] = o5[k]
    BY <1>21 DEF BlockBatch
  <2>2. CASE c.softDelete = FALSE
    <3>1. LevelOutputs(after) =
            Facts!Without(Facts!WithAdded(LevelOutputs(db), added, slot), removed)
      BY <1>1, <1>3, <1>5, <1>11, <1>12, <1>22, <2>1, <2>2, BatchRemovesOutputs
    <3>2. QED
      BY <1>2, <2>2, <3>1 DEF Outcome, Facts!WithoutOrUsed
  <2>3. CASE c.softDelete = TRUE
    <3>1. added \cap removed = {}
      BY <1>1, <1>2, <2>3
    <3>2. LevelOutputs(after) =
            Facts!WithUsed(Facts!WithAdded(LevelOutputs(db), added, slot), removed)
      <4>1. o5 = [k \in KeysOfOutputs(removed) \cap DOMAIN db |-> Used(db[k])]
        BY <1>13, <2>3
      <4>2. PICK before : before = db
        OBVIOUS
      <4>3. /\ IsDb(before) /\ IsWritten(after, b, before)
            /\ UsesOutputs(o5, removed, before)
        BY <1>5, <4>1, <4>2 DEF UsesOutputs
      <4>4. /\ slot \in Slots /\ added \in SUBSET TxInputs /\ removed \in SUBSET TxInputs
            /\ AddsOutputs(o4, added, slot)
            /\ OutputsInBatch(b, o4, o5)
        BY <1>1, <1>3, <1>11, <1>22, <2>1 DEF OutputsInBatch
      <4>5. LevelOutputs(after) =
              Facts!WithUsed(Facts!WithAdded(LevelOutputs(before), added, slot), removed)
        BY <3>1, <4>3, <4>4, BatchUsesOutputs
      <4>6. QED
        BY <4>2, <4>5
    <3>3. QED
      BY <1>2, <2>3, <3>2 DEF Outcome, Facts!WithoutOrUsed
  <2>4. QED
    BY <1>3, <2>2, <2>3
<1>30. QED
  BY <1>2, <1>24, <1>25, <1>26, <1>27, <1>28, <1>29 DEF LevelSays, BlockWritten

LEMMA LevelWritesRefill ==
  ASSUME IsDb(db), NEW p, p = LevelPoint(db), NEW added, NEW calls, Refill(p, added, calls),
         NEW b, b = LevelDBDatabase!BatchOf(calls),
         NEW after, after = LevelDBDatabase!Written(b)
  PROVE  /\ IsDb(after)
         /\ LevelSays(after) =
              Facts!Stored(p, Filed(OfKind(db, 5)), Facts!WithAdded(<<>>, added, p),
                           Filed(OfKind(db, 4)), Filed(OfKind(db, 3)))
<1>1. added \in SUBSET TxInputs /\ p \in Slots
  BY Kinds DEF Refill
<1>2. PICK d1, d2 : d1 = calls[1] /\ d2 = calls[2]
  OBVIOUS
<1>3. /\ DOMAIN calls = 1..2
      /\ d1 = Facts!DeleteAllTxOutputsPhysically /\ d2 = Facts!AddTxOutputs(added, p)
  BY <1>2 DEF Refill
<1>4. /\ d1.call = "DeleteAllTxOutputsPhysically"
      /\ d2.call = "AddTxOutputs" /\ d2.inputs = added /\ d2.slot = p
  BY <1>3 DEF Facts!DeleteAllTxOutputsPhysically, Facts!AddTxOutputs
<1>5. PICK o1, o2 : o1 = DoneTo(calls, 1) /\ o2 = DoneTo(calls, 2)
  OBVIOUS
<1>6. o1 = [k \in {l \in DOMAIN db : l[1] = 1} |-> Absent]
  BY <1>2, <1>4, <1>5, OperationDeletesOutputs DEF DoneTo
<1>7. AddsOutputs(o2, added, p)
  BY <1>1, <1>2, <1>4, <1>5, OperationAddsOutputs DEF DoneTo, AddsOutputs
<1>8. OfOneKind(o2, 1)
  BY <1>1, <1>7, KindsOfKeys DEF OfOneKind, AddsOutputs, KeysOfOutputs, IsKey
<1>9. /\ \A k : k \in DOMAIN b <=> k \in DOMAIN o1 \/ k \in DOMAIN o2
      /\ \A k \in DOMAIN o1 \ DOMAIN o2 : b[k] = o1[k]
      /\ \A k \in DOMAIN o2 : b[k] = o2[k]
  <2>1. PICK n : n = 2
    OBVIOUS
  <2>2. LastOn(b, calls, n)
    BY <1>3, <2>1, LastCounts
  <2>3. \A i : i \in 1..2 <=> i = 1 \/ i = 2
    OBVIOUS
  <2>4. \A k : k \in DOMAIN b <=> k \in DOMAIN o1 \/ k \in DOMAIN o2
    BY <1>5, <2>1, <2>2, <2>3 DEF LastOn
  <2>5. ASSUME NEW k \in DOMAIN o1, k \notin DOMAIN o2
        PROVE  b[k] = o1[k]
    <3>1. \A j \in (1 + 1)..2 : j = 2
      OBVIOUS
    <3>2. \A j \in (1 + 1)..2 : k \notin DOMAIN DoneTo(calls, j)
      BY <1>5, <2>5, <3>1
    <3>3. QED
      BY <1>5, <2>1, <2>2, <2>3, <3>2 DEF LastOn
  <2>6. ASSUME NEW k \in DOMAIN o2
        PROVE  b[k] = o2[k]
    <3>1. \A j \in (2 + 1)..2 : k \notin DOMAIN DoneTo(calls, j)
      OBVIOUS
    <3>2. QED
      BY <1>5, <2>1, <2>2, <2>3, <3>1 DEF LastOn
  <2>7. QED
    BY <2>4, <2>5, <2>6
<1>10. IsWritten(after, b, db)
  BY WrittenDb
<1>11. \A i \in added : Facts!TxOutput(i, p) \in Facts!Output
  BY <1>1, NewOutput
<1>12. IsBatch(b)
  <2>1. \A k \in DOMAIN o2 : IsEntry(k, o2[k])
    BY <1>1, <1>7, <1>11 DEF AddsOutputs, KeysOfOutputs, IsEntry
  <2>2. QED
    BY <1>6, <1>9, <2>1 DEF IsBatch
<1>13. IsDb(after)
  BY <1>10, <1>12, WrittenIsDb
<1>14. \A k \in DOMAIN b : k[1] = 1
  BY <1>6, <1>8, <1>9 DEF OfOneKind
<1>15. LevelPoint(after) = p
  <2>1. PointKey \notin DOMAIN b
    BY <1>14, KindsOfKeys DEF IsKey
  <2>2. QED
    BY <1>10, <2>1, SamePoint
<1>16. /\ OfKind(after, 3) = OfKind(db, 3)
       /\ OfKind(after, 4) = OfKind(db, 4)
       /\ OfKind(after, 5) = OfKind(db, 5)
  BY <1>10, <1>14, NothingOfKind
<1>17. PICK outputs : outputs = Facts!WithAdded(<<>>, added, p)
  OBVIOUS
<1>18. outputs = [i \in added |-> Facts!TxOutput(i, p)]
  BY <1>17 DEF Facts!WithAdded
<1>19. ASSUME NEW i \in TxInputs
       PROVE  /\ OutputKeyOf[i] \in DOMAIN after <=> i \in added
              /\ i \in added => after[OutputKeyOf[i]] = outputs[i]
  <2>1. PICK k : k = OutputKeyOf[i]
    OBVIOUS
  <2>2. k[1] = 1
    BY <2>1, KindsOfKeys DEF IsKey
  <2>3. k \in DOMAIN o2 <=> i \in added
    BY <1>1, <1>7, <2>1, InKeysOfOutputs DEF AddsOutputs
  <2>4. CASE i \in added
    <3>1. k \in DOMAIN b /\ b[k] = Facts!TxOutput(i, p)
      BY <1>7, <1>9, <2>1, <2>3, <2>4 DEF AddsOutputs
    <3>2. b[k] # Absent
      BY <1>11, <2>4, <3>1, NotAbsent
    <3>3. k \in DOMAIN after /\ after[k] = Facts!TxOutput(i, p)
      BY <1>10, <3>1, <3>2 DEF IsWritten
    <3>4. QED
      BY <1>18, <2>1, <2>4, <3>3
  <2>5. CASE i \notin added
    <3>1. k \in DOMAIN db => k \in DOMAIN b /\ b[k] = Absent
      BY <1>6, <1>9, <2>2, <2>3, <2>5
    <3>2. k \in DOMAIN b => k \in DOMAIN db
      BY <1>6, <1>9, <2>3, <2>5
    <3>3. k \notin DOMAIN after
      BY <1>10, <3>1, <3>2 DEF IsWritten
    <3>4. QED
      BY <2>1, <2>5, <3>3
  <2>6. QED
    BY <2>4, <2>5
<1>20. LevelOutputs(after) = outputs
  <2>1. /\ outputs = [i \in added |-> outputs[i]]
        /\ \A i \in TxInputs : OutputKeyOf[i] \in DOMAIN after <=> i \in added
        /\ \A i \in added : after[OutputKeyOf[i]] = outputs[i]
    BY <1>1, <1>18, <1>19
  <2>2. QED
    BY <1>1, <2>1, OutputsOf
<1>21. QED
  BY <1>13, <1>15, <1>16, <1>17, <1>20 DEF LevelSays

-----------------------------------------------------------------------------
\* Marking, with or without a batch that is not written yet.

SameEntries(d, e) ==
  \A k : k[1] = 1 => /\ k \in DOMAIN e <=> k \in DOMAIN d
                     /\ k \in DOMAIN e => e[k] = d[k]

LEMMA LevelMarks ==
  ASSUME IsDb(db), handed \in SUBSET Facts!Tx, LevelDBDatabase!MarkConfirmedTxsProcessed,
         NEW after, after = db'
  PROVE  /\ IsDb(after) /\ SameEntries(db, after) /\ LevelPoint(after) = LevelPoint(db)
         /\ LevelSays(after) =
              Facts!Stored(LevelPoint(db), Filed(OfKind(db, 5)), LevelOutputs(db),
                           Filed(OfKind(db, 4)) \ handed, Filed(OfKind(db, 3)) \cup handed)
<1>1. PICK puts : puts = LevelDBDatabase!Puts(LevelDBDatabase!processedTxsBucket, handed,
                                              LevelDBDatabase!TxKey)
  OBVIOUS
<1>2. PICK gone : gone = {LevelDBDatabase!bucketKey(LevelDBDatabase!unprocessedTxsBucket,
                                                    LevelDBDatabase!TxKey(t)) : t \in handed}
  OBVIOUS
<1>3. PICK b : b = LevelDBDatabase!Over(puts, LevelDBDatabase!Deletions(gone))
  OBVIOUS
<1>4. after = LevelDBDatabase!Written(b)
  BY <1>1, <1>2, <1>3, Zenon DEF LevelDBDatabase!MarkConfirmedTxsProcessed
<1>5. IsWritten(after, b, db)
  BY <1>4, WrittenDb
<1>6. IsPut(puts, handed, ProcessedKey)
  BY <1>1, TxsPutInBatch
<1>7. gone = Facts!KeysOf(handed, WaitingKey)
  BY <1>2, NamesOfKeys DEF Facts!KeysOf
<1>8. b = [k \in DOMAIN puts \cup gone |-> IF k \in DOMAIN puts THEN puts[k] ELSE Absent]
  BY <1>3 DEF LevelDBDatabase!Over, LevelDBDatabase!Deletions
<1>9. OfOneKind(puts, 3)
  BY <1>6, KindsOfKeys DEF OfOneKind, IsPut, IsKey, Facts!KeysOf
<1>10. \A k \in gone : k[1] = 4
  BY <1>7, KindsOfKeys DEF IsKey, Facts!KeysOf
<1>11. Alone(b, puts, 3)
  BY <1>8, <1>9, <1>10 DEF Alone, OfOneKind
<1>12. \A k : k[1] = 4 => /\ k \in DOMAIN b <=> k \in Facts!KeysOf(handed, WaitingKey)
                          /\ k \in DOMAIN b => b[k] = Absent
  BY <1>7, <1>8, <1>9 DEF OfOneKind
<1>13. \A k \in DOMAIN b : k[1] = 3 \/ k[1] = 4
  BY <1>8, <1>9, <1>10 DEF OfOneKind
<1>14. IsDb(after)
  <2>1. \A k \in DOMAIN puts : IsEntry(k, puts[k])
    BY <1>6 DEF IsPut, Facts!KeysOf, IsEntry
  <2>2. IsBatch(b)
    BY <1>8, <2>1 DEF IsBatch
  <2>3. QED
    BY <1>5, <2>2, WrittenIsDb
<1>15. SameEntries(db, after)
  <2> SUFFICES ASSUME NEW k, k[1] = 1
               PROVE  /\ k \in DOMAIN after <=> k \in DOMAIN db
                      /\ k \in DOMAIN after => after[k] = db[k]
    BY DEF SameEntries
  <2>1. k \notin DOMAIN b
    BY <1>13
  <2>2. QED
    BY <1>5, <2>1 DEF IsWritten
<1>16. LevelPoint(after) = LevelPoint(db)
  <2>1. PointKey \notin DOMAIN b
    BY <1>13, KindsOfKeys DEF IsKey
  <2>2. QED
    BY <1>5, <2>1, SamePoint
<1>17. Filed(OfKind(after, 5)) = Filed(OfKind(db, 5))
  BY <1>5, <1>13, NothingOfKind
<1>18. LevelOutputs(after) = LevelOutputs(db)
  BY <1>5, <1>13, SameOutputs
<1>19. Filed(OfKind(after, 3)) = Filed(OfKind(db, 3)) \cup handed
  <2>1. \A t \in handed : ProcessedKey[t][1] = 3 /\ t # Absent
    BY KindsOfKeys, NotAbsent DEF IsKey
  <2>2. WithValues(OfKind(db, 3), OfKind(after, 3), handed, ProcessedKey)
    BY <1>5, <1>6, <1>11, <2>1, PutsOfKind
  <2>3. IsBucket(OfKind(db, 3), Facts!Tx, ProcessedKey)
    BY Kinds
  <2>4. OwnKeys(handed, Filed(OfKind(db, 3)), ProcessedKey)
    BY <2>3, KeysOfOneKind DEF OwnKeys, IsBucket, Filed
  <2>5. QED
    BY <2>2, <2>3, <2>4, FiledValues
<1>20. Filed(OfKind(after, 4)) = Filed(OfKind(db, 4)) \ handed
  <2>1. WithoutValues(OfKind(db, 4), OfKind(after, 4), handed, WaitingKey)
    BY <1>5, <1>12, DeletesOfKind
  <2>2. IsBucket(OfKind(db, 4), Facts!Tx, WaitingKey)
    BY Kinds
  <2>3. OwnKeys(handed, Filed(OfKind(db, 4)), WaitingKey)
    BY <2>2, KeysOfOneKind DEF OwnKeys, IsBucket, Filed
  <2>4. QED
    BY <2>1, <2>2, <2>3, DeletedValues
<1>21. QED
  BY <1>14, <1>15, <1>16, <1>17, <1>18, <1>19, <1>20 DEF LevelSays

\* An operation reads the outputs only.
LEMMA SameOperation ==
  ASSUME IsDb(db), IsDb(db'), SameEntries(db, db'),
         NEW d, d.call \in {"SetLatestBlockPoint", "AddConfirmedBlock", "AddConfirmedTxs",
                            "AddTxOutputs", "RemoveTxOutputs", "DeleteAllTxOutputsPhysically"},
         d.call = "RemoveTxOutputs" =>
           d.inputs \in SUBSET TxInputs /\ d.softDelete \in BOOLEAN
  PROVE  LevelDBDatabase!Operation(d)' = LevelDBDatabase!Operation(d)
<1>1. CASE d.call = "SetLatestBlockPoint"
  BY <1>1 DEF LevelDBDatabase!Operation
<1>2. CASE d.call = "AddConfirmedBlock"
  BY <1>2 DEF LevelDBDatabase!Operation
<1>3. CASE d.call = "AddConfirmedTxs"
  BY <1>3 DEF LevelDBDatabase!Operation
<1>4. CASE d.call = "AddTxOutputs"
  BY <1>4 DEF LevelDBDatabase!Operation
<1>5. CASE d.call = "RemoveTxOutputs" /\ d.softDelete = FALSE
  BY <1>5 DEF LevelDBDatabase!Operation
<1>6. CASE d.call = "RemoveTxOutputs" /\ d.softDelete = TRUE
  <2>1. PICK before, after : before = db /\ after = db'
    OBVIOUS
  <2>2. PICK keys : keys = {LevelDBDatabase!OutputKey(i) : i \in d.inputs}
    OBVIOUS
  <2>3. LevelDBDatabase!Operation(d) =
          [k \in keys \cap DOMAIN before |-> [before[k] EXCEPT !.IsUsed = TRUE]]
    BY <1>6, <2>1, <2>2 DEF LevelDBDatabase!Operation
  <2>4. LevelDBDatabase!Operation(d)' =
          [k \in keys \cap DOMAIN after |-> [after[k] EXCEPT !.IsUsed = TRUE]]
    BY <1>6, <2>1, <2>2 DEF LevelDBDatabase!Operation
  <2>5. \A k \in keys : k[1] = 1
    BY <1>6, <2>2, NamesOfKeys, KindsOfKeys DEF IsKey
  <2>6. \A k \in keys : /\ k \in DOMAIN after <=> k \in DOMAIN before
                        /\ k \in DOMAIN after => after[k] = before[k]
    BY <2>1, <2>5 DEF SameEntries
  <2>7. QED
    BY <2>3, <2>4, <2>6
<1>7. CASE d.call = "DeleteAllTxOutputsPhysically"
  <2>1. PICK before, after : before = db /\ after = db'
    OBVIOUS
  <2>2. LevelDBDatabase!Operation(d) = [k \in {l \in DOMAIN before : l[1] = 1} |-> Absent]
    BY <1>7, <2>1, OperationDeletesOutputs
  <2>3. {k \in DOMAIN after : LevelDBDatabase!IsPrefix(<<1>>, k)} =
          {l \in DOMAIN after : l[1] = 1}
    BY <2>1, PrefixedKeys
  <2>4. LevelDBDatabase!Operation(d)' = [k \in {l \in DOMAIN after : l[1] = 1} |-> Absent]
    BY <1>7, <2>1, <2>3
       DEF LevelDBDatabase!Operation, LevelDBDatabase!Deletions, LevelDBDatabase!Prefixed,
           LevelDBDatabase!txOutputsBucket
  <2>5. {l \in DOMAIN after : l[1] = 1} = {l \in DOMAIN before : l[1] = 1}
    BY <2>1 DEF SameEntries
  <2>6. QED
    BY <2>2, <2>4, <2>5
<1>8. QED
  BY <1>1, <1>2, <1>3, <1>4, <1>5, <1>6, <1>7

LEMMA LastOne ==
  ASSUME NEW S \in SUBSET (1..5), NEW i \in S
  PROVE  LevelDBDatabase!Max(S) \in S
<1>1. PICK x \in S : \A y \in S : x >= y
  <2>1. \A y \in S : y = 1 \/ y = 2 \/ y = 3 \/ y = 4 \/ y = 5
    OBVIOUS
  <2>2. CASE 5 \in S
    BY <2>1, <2>2
  <2>3. CASE 5 \notin S /\ 4 \in S
    BY <2>1, <2>3
  <2>4. CASE 5 \notin S /\ 4 \notin S /\ 3 \in S
    BY <2>1, <2>4
  <2>5. CASE 5 \notin S /\ 4 \notin S /\ 3 \notin S /\ 2 \in S
    BY <2>1, <2>5
  <2>6. CASE 5 \notin S /\ 4 \notin S /\ 3 \notin S /\ 2 \notin S
    BY <2>1, <2>6
  <2>7. QED
    BY <2>2, <2>3, <2>4, <2>5, <2>6
<1>2. QED
  BY <1>1, Zenon DEF LevelDBDatabase!Max

\* The operations of a batch, put together.
OnKey(op, k) == {i \in DOMAIN op : k \in DOMAIN op[i]}

IsBatchOf(b, op) ==
  b = [k \in UNION {DOMAIN op[i] : i \in DOMAIN op} |-> op[LevelDBDatabase!Max(OnKey(op, k))][k]]

LEMMA BatchOfOperations ==
  ASSUME NEW calls, DOMAIN calls \in SUBSET (1..5),
         NEW op, op = [i \in DOMAIN calls |-> LevelDBDatabase!Operation(calls[i])]
  PROVE  IsBatchOf(LevelDBDatabase!BatchOf(calls), op)
<1> DEFINE Op(i) == LevelDBDatabase!Operation(calls[i])
           On(k) == {i \in DOMAIN calls : k \in DOMAIN Op(i)}
<1>1. PICK b : b = LevelDBDatabase!BatchOf(calls)
  OBVIOUS
<1>2. b = [k \in UNION {DOMAIN Op(i) : i \in DOMAIN calls} |-> Op(LevelDBDatabase!Max(On(k)))[k]]
  BY <1>1, Zenon DEF LevelDBDatabase!BatchOf
<1>3. DOMAIN op = DOMAIN calls /\ \A i \in DOMAIN calls : op[i] = Op(i)
  OBVIOUS
<1> HIDE DEF Op
<1>4. UNION {DOMAIN Op(i) : i \in DOMAIN calls} = UNION {DOMAIN op[i] : i \in DOMAIN op}
  BY <1>3
<1>5. ASSUME NEW k \in UNION {DOMAIN Op(i) : i \in DOMAIN calls}
      PROVE  Op(LevelDBDatabase!Max(On(k)))[k] = op[LevelDBDatabase!Max(OnKey(op, k))][k]
  <2>1. PICK on : on = On(k)
    OBVIOUS
  <2>2. OnKey(op, k) = on
    BY <1>3, <2>1 DEF OnKey
  <2>3. \E i : i \in on
    BY <2>1
  <2>4. LevelDBDatabase!Max(on) \in DOMAIN calls
    BY <2>1, <2>3, LastOne
  <2>5. op[LevelDBDatabase!Max(on)] = Op(LevelDBDatabase!Max(on))
    BY <1>3, <2>4
  <2>6. QED
    BY <2>1, <2>2, <2>5
<1>6. QED
  <2>1. b = [k \in UNION {DOMAIN op[i] : i \in DOMAIN op} |->
               op[LevelDBDatabase!Max(OnKey(op, k))][k]]
    BY <1>2, <1>4, <1>5
  <2>2. QED
    BY <1>1, <2>1 DEF IsBatchOf

OperationsOf(calls) == [i \in DOMAIN calls |-> LevelDBDatabase!Operation(calls[i])]
MadeOfOperations(calls) == IsBatchOf(LevelDBDatabase!BatchOf(calls), OperationsOf(calls))

AllMadeOfOperations == \A calls : DOMAIN calls \in SUBSET (1..5) => MadeOfOperations(calls)

LEMMA BatchesMadeOfOperations == AllMadeOfOperations
  BY BatchOfOperations DEF AllMadeOfOperations, MadeOfOperations, OperationsOf

LEMMA SameBatch ==
  ASSUME NEW calls, DOMAIN calls \in SUBSET (1..5),
         \A i \in DOMAIN calls : LevelDBDatabase!Operation(calls[i])' =
                                   LevelDBDatabase!Operation(calls[i])
  PROVE  LevelDBDatabase!BatchOf(calls)' = LevelDBDatabase!BatchOf(calls)
<1>1. AllMadeOfOperations /\ AllMadeOfOperations'
  BY BatchesMadeOfOperations, PTL
<1>2. MadeOfOperations(calls) /\ MadeOfOperations(calls)'
  BY <1>1 DEF AllMadeOfOperations
<1>3. OperationsOf(calls)' = OperationsOf(calls)
  BY DEF OperationsOf
<1>4. QED
  BY <1>2, <1>3 DEF MadeOfOperations, IsBatchOf

LEMMA SameBatchOfCalls ==
  ASSUME IsDb(db), IsDb(db'), SameEntries(db, db'),
         NEW point, NEW calls \in Facts!Calls(point, FALSE)
  PROVE  LevelDBDatabase!BatchOf(calls)' = LevelDBDatabase!BatchOf(calls)
<1>1. ASSUME NEW slot, NEW c, NewBlock(point, FALSE, slot, c, calls)
      PROVE  LevelDBDatabase!BatchOf(calls)' = LevelDBDatabase!BatchOf(calls)
  <2>1. PICK block : block = [Slot |-> slot, Txs |-> c.txs]
    OBVIOUS
  <2>2. calls = Facts!BlockCalls(slot, c) /\ c \in Facts!BlockContents
    BY <1>1 DEF NewBlock
  <2>3. c.removed \in SUBSET TxInputs /\ c.softDelete \in BOOLEAN
    BY <2>2 DEF Facts!BlockContents
  <2>4. DOMAIN calls = 1..5
    BY <2>1, <2>2, CallsOfBlock
  <2>5. PICK d1, d2, d3, d4, d5 :
          /\ d1 = calls[1] /\ d2 = calls[2] /\ d3 = calls[3] /\ d4 = calls[4] /\ d5 = calls[5]
    OBVIOUS
  <2>6. /\ d1.call = "AddConfirmedTxs" /\ d2.call = "AddConfirmedBlock"
        /\ d3.call = "SetLatestBlockPoint" /\ d4.call = "AddTxOutputs"
        /\ d5.call = "RemoveTxOutputs"
        /\ d5.inputs \in SUBSET TxInputs /\ d5.softDelete \in BOOLEAN
    BY <2>1, <2>2, <2>3, <2>5, CallNames
  <2>7. /\ LevelDBDatabase!Operation(d1)' = LevelDBDatabase!Operation(d1)
        /\ LevelDBDatabase!Operation(d2)' = LevelDBDatabase!Operation(d2)
        /\ LevelDBDatabase!Operation(d3)' = LevelDBDatabase!Operation(d3)
        /\ LevelDBDatabase!Operation(d4)' = LevelDBDatabase!Operation(d4)
        /\ LevelDBDatabase!Operation(d5)' = LevelDBDatabase!Operation(d5)
    BY <2>6, SameOperation
  <2>8. \A i \in DOMAIN calls : i = 1 \/ i = 2 \/ i = 3 \/ i = 4 \/ i = 5
    BY <2>4
  <2>9. \A i \in DOMAIN calls : LevelDBDatabase!Operation(calls[i])' =
                                  LevelDBDatabase!Operation(calls[i])
    BY <2>5, <2>7, <2>8
  <2>10. QED
    BY <2>4, <2>9, SameBatch
<1>2. ASSUME NEW added, Refill(point, added, calls)
      PROVE  LevelDBDatabase!BatchOf(calls)' = LevelDBDatabase!BatchOf(calls)
  <2>1. DOMAIN calls = 1..2
    BY <1>2 DEF Refill
  <2>2. PICK d1, d2 : d1 = calls[1] /\ d2 = calls[2]
    OBVIOUS
  <2>3. d1.call = "DeleteAllTxOutputsPhysically" /\ d2.call = "AddTxOutputs"
    BY <1>2, <2>2 DEF Refill, Facts!DeleteAllTxOutputsPhysically, Facts!AddTxOutputs
  <2>4. /\ LevelDBDatabase!Operation(d1)' = LevelDBDatabase!Operation(d1)
        /\ LevelDBDatabase!Operation(d2)' = LevelDBDatabase!Operation(d2)
    BY <2>3, SameOperation
  <2>5. \A i \in DOMAIN calls : i = 1 \/ i = 2
    BY <2>1
  <2>6. \A i \in DOMAIN calls : LevelDBDatabase!Operation(calls[i])' =
                                  LevelDBDatabase!Operation(calls[i])
    BY <2>2, <2>4, <2>5
  <2>7. DOMAIN calls \in SUBSET (1..5)
    BY <2>1
  <2>8. QED
    BY <2>6, <2>7, SameBatch
<1>3. QED
  BY <1>1, <1>2, OfCalls

-----------------------------------------------------------------------------
\* The steps of leveldb.  A batch that waits to be written is the one its
\* calls would make of the store as it is now.

LevelInv ==
  /\ IsDb(db)
  /\ \/ batch = <<>>
     \/ \E calls \in Facts!Calls(LevelPoint(db), FALSE) :
          batch = <<LevelDBDatabase!BatchOf(calls)>>

LEMMA LevelPoints ==
  LevelDBDatabase!GetLatestBlockPoint = LevelPoint(db)
  BY NamesOfKeys DEF LevelDBDatabase!GetLatestBlockPoint, LevelPoint

LEMMA LevelWrites ==
  ASSUME ~IsBBolt, ~IsBBolt', LevelInv, Facts!DatabaseInv, LevelDBDatabase!Write
  PROVE  LevelInv' /\ Facts!Next
<1>1. PICK p : p = LevelPoint(db)
  OBVIOUS
<1>2. TheStore = LevelSays(db)
  BY LevelStore DEF LevelInv, TheStore
<1>3. IsDb(db') => TheStore' = LevelSays(db')
  BY LevelStoreNext DEF TheStore
<1>4. PICK calls \in Facts!Calls(p, FALSE) : batch = <<LevelDBDatabase!BatchOf(calls)>>
  BY <1>1 DEF LevelInv, LevelDBDatabase!Write
<1>5. PICK b : b = LevelDBDatabase!BatchOf(calls)
  OBVIOUS
<1>6. PICK after : after = db'
  OBVIOUS
<1>7. after = LevelDBDatabase!Written(b) /\ batch' = <<>> /\ handed' = handed
  <2>1. Head(batch) = b
    BY <1>4, <1>5
  <2>2. QED
    BY <1>6, <2>1 DEF LevelDBDatabase!Write
<1>8. ASSUME NEW slot, NEW c, NewBlock(p, FALSE, slot, c, calls)
      PROVE  /\ IsDb(after) /\ Facts!Execute(calls)
             /\ calls \in Facts!Calls(p, SoftDeletesOwn # {})
  <2>1. PICK block : block = [Slot |-> slot, Txs |-> c.txs]
    OBVIOUS
  <2>2. /\ IsDb(after)
        /\ LevelSays(after) =
             Facts!Stored(slot, Filed(OfKind(db, 5)) \cup {block},
                          Outcome(LevelOutputs(db), slot, c),
                          Filed(OfKind(db, 4)) \cup Facts!TxsOf(block),
                          Filed(OfKind(db, 3)))
    <3>1. /\ IsDb(db) /\ NewBlock(LevelPoint(db), FALSE, slot, c, calls)
          /\ b = LevelDBDatabase!BatchOf(calls) /\ after = LevelDBDatabase!Written(b)
      BY <1>1, <1>5, <1>7, <1>8 DEF LevelInv
    <3>2. BlockWritten(after, slot, c, block)
      BY <1>2, <2>1, <3>1, LevelWritesBlock
    <3>3. QED
      BY <3>2 DEF BlockWritten
  <2>3. c \in Facts!BlockContents /\ calls = Facts!BlockCalls(slot, c)
    BY <1>8 DEF NewBlock
  <2>4. Facts!Execute(calls)
    BY <1>2, <1>3, <1>6, <1>7, <2>1, <2>2, <2>3, ExecutesBlock DEF LevelSays
  <2>5. NewBlock(p, SoftDeletesOwn # {}, slot, c, calls)
    BY <1>8 DEF NewBlock
  <2>6. QED
    BY <2>2, <2>4, <2>5, OfCalls
<1>9. ASSUME NEW added, Refill(p, added, calls)
      PROVE  /\ IsDb(after) /\ Facts!Execute(calls)
             /\ calls \in Facts!Calls(p, SoftDeletesOwn # {})
  <2>1. /\ IsDb(after)
        /\ LevelSays(after) =
             Facts!Stored(p, Filed(OfKind(db, 5)), Facts!WithAdded(<<>>, added, p),
                          Filed(OfKind(db, 4)), Filed(OfKind(db, 3)))
    BY <1>1, <1>5, <1>7, <1>9, LevelWritesRefill DEF LevelInv
  <2>2. calls = <<Facts!DeleteAllTxOutputsPhysically, Facts!AddTxOutputs(added, p)>>
    BY <1>9 DEF Refill
  <2>3. Facts!Execute(calls)
    BY <1>1, <1>2, <1>3, <1>6, <1>7, <2>1, <2>2, ExecutesRefill DEF LevelSays
  <2>4. QED
    BY <1>9, <2>1, <2>3, OfCalls
<1>10. /\ IsDb(after) /\ Facts!Execute(calls)
       /\ calls \in Facts!Calls(p, SoftDeletesOwn # {})
  BY <1>4, <1>8, <1>9, OfCalls
<1>11. LevelInv'
  BY <1>6, <1>7, <1>10 DEF LevelInv
<1>12. PICK s : s = TheStore
  OBVIOUS
<1>13. s.point = p
  BY <1>1, <1>2, <1>12, StoredFields DEF LevelSays
<1>14. QED
  BY <1>10, <1>11, <1>12, <1>13 DEF Facts!Next

\* Whatever leveldb does, module Database does or does not see.
LEMMA LevelStep ==
  ASSUME ~IsBBolt, ~IsBBolt', "leveldb" \notin SoftDeletesOwn,
         LevelInv, Facts!DatabaseInv, [LevelDBDatabase!Next]_(LevelDBDatabase!vars)
  PROVE  LevelInv' /\ [Facts!Next]_(Facts!vars)
<1>1. PICK p : p = LevelPoint(db)
  OBVIOUS
<1>2. TheStore = LevelSays(db)
  BY LevelStore DEF LevelInv, TheStore
<1>3. IsDb(db') => TheStore' = LevelSays(db')
  BY LevelStoreNext DEF TheStore
<1>4. ASSUME UNCHANGED db
      PROVE  /\ IsDb(db') /\ SameEntries(db, db') /\ TheStore' = TheStore
             /\ LevelPoint(db') = p
  BY <1>1, <1>2, <1>3, <1>4 DEF LevelInv, SameEntries
<1>5. ASSUME IsDb(db'), SameEntries(db, db'), LevelPoint(db') = p, UNCHANGED batch
      PROVE  LevelInv'
  <2>1. ASSUME NEW calls \in Facts!Calls(p, FALSE), batch = <<LevelDBDatabase!BatchOf(calls)>>
        PROVE  LevelInv'
    <3>1. LevelDBDatabase!BatchOf(calls)' = LevelDBDatabase!BatchOf(calls)
      BY <1>5, SameBatchOfCalls DEF LevelInv
    <3>2. batch' = <<LevelDBDatabase!BatchOf(calls)'>>
      BY <1>5, <2>1, <3>1
    <3>3. QED
      BY <1>5, <2>1, <3>2 DEF LevelInv
  <2>2. CASE batch = <<>>
    BY <1>5, <2>2 DEF LevelInv
  <2>3. QED
    BY <1>1, <2>1, <2>2 DEF LevelInv
<1>6. ASSUME NEW calls \in LevelDBDatabase!Calls(p, "leveldb" \in SoftDeletesOwn),
             LevelDBDatabase!Execute(calls)
      PROVE  LevelInv' /\ UNCHANGED Facts!vars
  <2>1. db' = db /\ handed' = handed /\ batch' = <<LevelDBDatabase!BatchOf(calls)>>
    BY <1>6 DEF LevelDBDatabase!Execute
  <2>2. calls \in Facts!Calls(p, FALSE)
    <3> DEFINE own == "leveldb" \in SoftDeletesOwn
    <3>1. calls \in Facts!Calls(p, own)
      BY <1>6, SameCalls
    <3>2. ASSUME NEW slot, NEW c, NewBlock(p, own, slot, c, calls)
          PROVE  NewBlock(p, FALSE, slot, c, calls)
      BY <3>2 DEF NewBlock
    <3>3. QED
      BY <3>1, <3>2, OfCalls
  <2>3. LevelDBDatabase!BatchOf(calls)' = LevelDBDatabase!BatchOf(calls)
    BY <1>4, <2>1, <2>2, SameBatchOfCalls DEF LevelInv
  <2>4. batch' = <<LevelDBDatabase!BatchOf(calls)'>>
    BY <2>1, <2>3
  <2>5. LevelInv'
    BY <1>4, <2>1, <2>2, <2>4 DEF LevelInv
  <2>6. QED
    BY <1>4, <2>1, <2>5 DEF Facts!vars
<1>7. ASSUME LevelDBDatabase!WriteFails
      PROVE  LevelInv' /\ UNCHANGED Facts!vars
  <2>1. db' = db /\ handed' = handed /\ batch' = <<>>
    BY <1>7 DEF LevelDBDatabase!WriteFails
  <2>2. QED
    BY <1>4, <2>1 DEF LevelInv, Facts!vars
<1>8. ASSUME NEW maxCnt \in 0..2, LevelDBDatabase!ReadUnprocessed(maxCnt)
      PROVE  LevelInv' /\ Facts!Next
  <2>1. UNCHANGED <<db, batch>> /\ handed = {}
    BY <1>8 DEF LevelDBDatabase!ReadUnprocessed
  <2>2. handed' = Facts!FirstOnes(Filed(OfKind(db, 4)), maxCnt)
    BY <1>2, <1>8, LevelReads DEF LevelInv, Waiting
  <2>3. Facts!ReadUnprocessed(maxCnt)
    BY <1>2, <1>4, <2>1, <2>2, ReadsStored DEF LevelSays
  <2>4. QED
    BY <1>4, <1>5, <2>1, <2>3 DEF Facts!Next
<1>9. ASSUME LevelDBDatabase!MarkConfirmedTxsProcessed
      PROVE  LevelInv' /\ Facts!Next
  <2>1. handed \in SUBSET Facts!Tx
    BY DEF Facts!DatabaseInv, Facts!HandedFirst, Facts!StoreTyped
  <2>2. handed # {} /\ handed' = {} /\ UNCHANGED batch
    BY <1>9 DEF LevelDBDatabase!MarkConfirmedTxsProcessed
  <2>3. PICK after : after = db'
    OBVIOUS
  <2>4. /\ IsDb(after) /\ SameEntries(db, after) /\ LevelPoint(after) = p
        /\ LevelSays(after) =
             Facts!Stored(p, Filed(OfKind(db, 5)), LevelOutputs(db),
                          Filed(OfKind(db, 4)) \ handed, Filed(OfKind(db, 3)) \cup handed)
    BY <1>1, <1>9, <2>1, <2>3, LevelMarks DEF LevelInv
  <2>5. LevelInv'
    BY <1>5, <2>2, <2>3, <2>4
  <2>6. Facts!MarkConfirmedTxsProcessed
    BY <1>1, <1>2, <1>3, <2>2, <2>3, <2>4, MarksStored DEF LevelSays
  <2>7. QED
    BY <2>5, <2>6 DEF Facts!Next
<1>10. ASSUME LevelDBDatabase!ConsumerFails
       PROVE  LevelInv' /\ Facts!Next
  <2>1. handed # {} /\ handed' = {} /\ UNCHANGED <<db, batch>>
    BY <1>10 DEF LevelDBDatabase!ConsumerFails
  <2>2. Facts!ConsumerFails
    BY <1>4, <2>1 DEF Facts!ConsumerFails
  <2>3. QED
    BY <1>4, <1>5, <2>1, <2>2 DEF Facts!Next
<1>11. CASE LevelDBDatabase!Write
  BY <1>11, LevelWrites
<1>12. CASE UNCHANGED LevelDBDatabase!vars
  BY <1>4, <1>5, <1>12 DEF LevelDBDatabase!vars, Facts!vars
<1>13. QED
  BY <1>1, <1>6, <1>7, <1>8, <1>9, <1>10, <1>11, <1>12, LevelPoints DEF LevelDBDatabase!Next

-----------------------------------------------------------------------------
\* The promises are those the instance Facts is about.

LEMMA SameCall ==
  ASSUME NEW s, NEW c
  PROVE  Promised!Apply(s, c) = Facts!Apply(s, c)
<1>1. /\ \A o, i, slot : Promised!WithAdded(o, i, slot) = Facts!WithAdded(o, i, slot)
      /\ \A o, i : Promised!Without(o, i) = Facts!Without(o, i)
  BY DEF Promised!WithAdded, Facts!WithAdded, Promised!Without, Facts!Without,
         Promised!TxOutput, Facts!TxOutput
<1>2. \A o, i : Promised!WithUsed(o, i) = Facts!WithUsed(o, i)
  BY DEF Promised!WithUsed, Facts!WithUsed
<1>3. CASE c.call = "SetLatestBlockPoint"
  BY <1>3, Assumed, Facts!ApplySetsPoint DEF Promised!Apply
<1>4. CASE c.call = "AddConfirmedBlock"
  BY <1>4, Assumed, Facts!ApplyAddsBlock DEF Promised!Apply
<1>5. CASE c.call = "AddConfirmedTxs"
  BY <1>5, Assumed, Facts!ApplyAddsTxs DEF Promised!Apply
<1>6. CASE c.call = "AddTxOutputs"
  BY <1>1, <1>6, Assumed, Facts!ApplyAddsOutputs DEF Promised!Apply
<1>7. CASE c.call = "RemoveTxOutputs" /\ c.softDelete
  BY <1>2, <1>7, Assumed, Facts!ApplyUsesOutputs DEF Promised!Apply
<1>8. CASE c.call = "RemoveTxOutputs" /\ ~c.softDelete
  BY <1>1, <1>8, Assumed, Facts!ApplyRemovesOutputs DEF Promised!Apply
<1>9. CASE c.call \notin {"SetLatestBlockPoint", "AddConfirmedBlock", "AddConfirmedTxs",
                          "AddTxOutputs", "RemoveTxOutputs"}
  BY <1>9, Assumed, Facts!ApplyDeletesOutputs DEF Promised!Apply
<1>10. QED
  BY <1>3, <1>4, <1>5, <1>6, <1>7, <1>8, <1>9

LEMMA SamePromises ==
  /\ Promised!Init <=> Facts!Init
  /\ Promised!vars = Facts!vars /\ Promised!vars' = Facts!vars'
  /\ Promised!Next <=> Facts!Next
  /\ Promised!ProcessedInOrder <=> Facts!ProcessedInOrder
  /\ Promised!StoredTogether <=> Facts!StoredTogether
<1>1. /\ \A b : Promised!TxsOf(b) = Facts!TxsOf(b)
      /\ \A t, u : Promised!IsBefore(t, u) <=> Facts!IsBefore(t, u)
  BY DEF Promised!TxsOf, Facts!TxsOf, Promised!IsBefore, Facts!IsBefore
<1>2. Promised!Init <=> Facts!Init
  BY DEF Promised!Init, Facts!Init, TheStore
<1>3. Promised!vars = Facts!vars /\ Promised!vars' = Facts!vars'
  BY DEF Promised!vars, Facts!vars, TheStore
<1>4. /\ Promised!ProcessedInOrder <=> Facts!ProcessedInOrder
      /\ Promised!StoredTogether <=> Facts!StoredTogether
  BY <1>1 DEF Promised!ProcessedInOrder, Facts!ProcessedInOrder, Promised!StoredTogether,
              Facts!StoredTogether, TheStore
<1>5. \A s, calls : Promised!FoldLeft(Promised!Apply, s, calls) =
                      Facts!FoldLeft(Facts!Apply, s, calls)
  BY SameCall, Zenon DEF Promised!FoldLeft, Facts!FoldLeft, Promised!MapThenFoldSet,
                         Facts!MapThenFoldSet, Promised!Max, Facts!Max
<1>6. \A calls : Promised!Execute(calls) <=> Facts!Execute(calls)
  BY <1>5 DEF Promised!Execute, Facts!Execute, TheStore
<1>7. \A point, own : Promised!Calls(point, own) = Facts!Calls(point, own)
  BY DEF Promised!Calls, Promised!ConfirmedBlockCalls,
         Promised!BlockContents, Promised!RefillCalls,
         Promised!BlockCalls, Promised!TxsOf,
         Promised!AddConfirmedTxs, Promised!AddConfirmedBlock,
         Promised!SetLatestBlockPoint, Promised!AddTxOutputs,
         Promised!RemoveTxOutputs, Promised!DeleteAllTxOutputsPhysically,
         Facts!Calls, Facts!ConfirmedBlockCalls, Facts!BlockContents, Facts!RefillCalls,
         Facts!BlockCalls, Facts!TxsOf, Facts!AddConfirmedTxs, Facts!AddConfirmedBlock,
         Facts!SetLatestBlockPoint, Facts!AddTxOutputs, Facts!RemoveTxOutputs,
         Facts!DeleteAllTxOutputsPhysically
<1>8. \A maxCnt : Promised!ReadUnprocessed(maxCnt) <=> Facts!ReadUnprocessed(maxCnt)
  <2>1. \A values : Promised!ToSet(values) = Facts!ToSet(values)
    BY DEF Promised!ToSet, Facts!ToSet
  <2>2. \A values, n : Promised!Limited(values, n) = Facts!Limited(values, n)
    BY DEF Promised!Limited, Facts!Limited
  <2>3. \A maxCnt : Promised!GetUnprocessedConfirmedTxs(maxCnt) =
                      Facts!GetUnprocessedConfirmedTxs(maxCnt)
    BY <2>2, Zenon
       DEF Promised!GetUnprocessedConfirmedTxs, Facts!GetUnprocessedConfirmedTxs, TheStore,
           Promised!Sorted, Facts!Sorted, Promised!Cardinality, Facts!Cardinality,
           Promised!IsBefore, Facts!IsBefore
  <2>4. QED
    BY <2>1, <2>3 DEF Promised!ReadUnprocessed, Facts!ReadUnprocessed, TheStore
<1>9. Promised!MarkConfirmedTxsProcessed <=> Facts!MarkConfirmedTxsProcessed
  BY DEF Promised!MarkConfirmedTxsProcessed, Facts!MarkConfirmedTxsProcessed, TheStore
<1>10. Promised!ConsumerFails <=> Facts!ConsumerFails
  BY DEF Promised!ConsumerFails, Facts!ConsumerFails, TheStore
<1>11. Promised!Next <=> Facts!Next
  BY <1>6, <1>7, <1>8, <1>9, <1>10, Zenon DEF Promised!Next, Facts!Next, TheStore
<1>12. QED
  BY <1>2, <1>3, <1>4, <1>11

-----------------------------------------------------------------------------
\* The database there is.

DatabasesInv ==
  /\ Facts!DatabaseInv
  /\ IsBBolt => BBoltInv
  /\ ~IsBBolt => LevelInv

LEMMA DatabasesInit ==
  ASSUME Init
  PROVE  Facts!Init /\ DatabasesInv
<1>1. PICK none : none = <<>>
  OBVIOUS
<1>2. /\ latestBlockPointBucket = none /\ confirmedBlocks = none /\ txOutputsBucket = none
      /\ unprocessedTxsBucket = none /\ processedTxsBucket = none /\ handed = {}
      /\ db = none /\ batch = <<>>
  BY <1>1 DEF Init, BBoltDatabase!Init, LevelDBDatabase!Init
<1>3. DOMAIN none = {}
  BY <1>1
<1>4. Filed(none) = {} /\ \A V, key : IsBucket(none, V, key)
  BY <1>3 DEF Filed, IsBucket
<1>5. OutputBucket(none) /\ OutputsIn(none) = <<>>
  BY <1>1, BBoltEmpty
<1>6. PICK empty : empty = Facts!Stored(0, {}, <<>>, {}, {})
  OBVIOUS
<1>7. BBoltInv /\ BBoltSays = empty
  BY <1>1, <1>2, <1>4, <1>5, <1>6 DEF BBoltInv, BBoltSays, PointBucket, PointIn
<1>8. LevelInv
  BY <1>2, <1>3 DEF LevelInv, IsDb
<1>9. LevelSays(none) = empty
  <2>1. LevelPoint(none) = 0
    BY <1>3 DEF LevelPoint
  <2>2. LevelOutputs(none) = <<>>
    BY <1>3 DEF LevelOutputs
  <2>3. Filed(OfKind(none, 3)) = {} /\ Filed(OfKind(none, 4)) = {} /\ Filed(OfKind(none, 5)) = {}
    BY <1>3 DEF Filed, OfKind
  <2>4. QED
    BY <1>6, <2>1, <2>2, <2>3 DEF LevelSays
<1>10. TheStore = empty
  BY <1>2, <1>7, <1>8, <1>9, BBoltStore, LevelStore DEF TheStore, BBoltInv, LevelInv
<1>11. Facts!Init
  BY <1>2, <1>6, <1>10 DEF Facts!Init, Facts!Stored
<1>12. Facts!DatabaseInv
  BY <1>11, Assumed, Facts!DatabaseInit
<1>13. QED
  BY <1>7, <1>8, <1>11, <1>12 DEF DatabasesInv

LEMMA DatabasesStep ==
  ASSUME "leveldb" \notin SoftDeletesOwn, DatabasesInv, [Next]_vars
  PROVE  [Facts!Next]_(Facts!vars) /\ DatabasesInv'
<1>1. IsBBolt' <=> IsBBolt
  BY DEF Next, vars, IsBBolt
<1>2. CASE IsBBolt
  <2>1. [BBoltDatabase!Next]_(BBoltDatabase!vars)
    BY <1>2 DEF Next, vars, bboltVars, BBoltDatabase!vars, BBoltDatabase!buckets
  <2>2. BBoltInv' /\ [Facts!Next]_(Facts!vars)
    BY <1>1, <1>2, <2>1, BBoltStep DEF DatabasesInv
  <2>3. Facts!DatabaseInv'
    BY <2>2, Assumed, Facts!DatabaseStep DEF DatabasesInv
  <2>4. QED
    BY <1>1, <1>2, <2>2, <2>3 DEF DatabasesInv
<1>3. CASE ~IsBBolt
  <2>1. [LevelDBDatabase!Next]_(LevelDBDatabase!vars)
    BY <1>3 DEF Next, vars, leveldbVars, LevelDBDatabase!vars
  <2>2. LevelInv' /\ [Facts!Next]_(Facts!vars)
    BY <1>1, <1>3, <2>1, LevelStep DEF DatabasesInv
  <2>3. Facts!DatabaseInv'
    BY <2>2, Assumed, Facts!DatabaseStep DEF DatabasesInv
  <2>4. QED
    BY <1>1, <1>3, <2>2, <2>3 DEF DatabasesInv
<1>4. QED
  BY <1>2, <1>3

\* Unless leveldb is asked to remove softly what the same block adds, which
\* it would not find, either database does what module Database says: no key
\* stands for two values, a transaction is stored as a whole and in the order
\* of its calls, although a batch is made before it is written and a consumer
\* may mark in between, and nothing of it when it fails (db/bbolt, db/leveldb).
THEOREM DatabasesImplement ==
  ASSUME "leveldb" \notin SoftDeletesOwn
  PROVE  Spec => ImplementsDatabase
<1>1. Init => DatabasesInv /\ Promised!Init
  BY DatabasesInit, SamePromises
<1>2. DatabasesInv /\ [Next]_vars => DatabasesInv' /\ [Promised!Next]_(Promised!vars)
  BY DatabasesStep, SamePromises
<1>3. QED
  BY <1>1, <1>2, PTL DEF Spec, ImplementsDatabase, Promised!Spec

LEMMA DatabasesInvariant ==
  ASSUME "leveldb" \notin SoftDeletesOwn
  PROVE  Spec => []DatabasesInv
<1>1. Init => DatabasesInv
  BY DatabasesInit
<1>2. DatabasesInv /\ [Next]_vars => DatabasesInv'
  BY DatabasesStep
<1>3. QED
  BY <1>1, <1>2, PTL DEF Spec

\* In either database what a consumer has processed comes before what it has
\* not, whatever portions it reads and whatever is stored meanwhile.
THEOREM DatabasesProcessInOrder ==
  ASSUME "leveldb" \notin SoftDeletesOwn
  PROVE  Spec => []ProcessedInOrder
<1>1. DatabasesInv => ProcessedInOrder
  BY SamePromises DEF DatabasesInv, Facts!DatabaseInv, ProcessedInOrder
<1>2. QED
  BY <1>1, DatabasesInvariant, PTL

\* In either database a block, its transactions and the point are there
\* together, and a transaction is in one of its two buckets.
THEOREM DatabasesStoreTogether ==
  ASSUME "leveldb" \notin SoftDeletesOwn
  PROVE  Spec => []StoredTogether
<1>1. DatabasesInv => StoredTogether
  BY SamePromises DEF DatabasesInv, Facts!DatabaseInv, StoredTogether
<1>2. QED
  BY <1>1, DatabasesInvariant, PTL
-----------------------------------------------------------------------------
\* The answers of a store, and those that module Database promises.

FirstTxs(s, maxCnt) == Facts!Limited(Facts!InChainOrder(s.unprocessed), maxCnt)
LastBlocks(s, maxCnt) == Facts!Limited(Facts!LastSlotFirst(s.blocks), maxCnt)
BlocksSince(s, slot) == {b \in s.blocks : b.Slot >= slot}
BlocksFrom(s, slot, maxCnt) == Facts!Limited(Facts!InSlotOrder(BlocksSince(s, slot)), maxCnt)
OutputOf(s, input) ==
  IF input \in DOMAIN s.outputs THEN s.outputs[input] ELSE Facts!ZeroTxOutput
Wanted(output, address, onlyNotUsed) ==
  output.Address = address /\ ~(onlyNotUsed /\ output.IsUsed)
ListOf(s, address, onlyNotUsed) ==
  {[Input |-> i, Output |-> s.outputs[i]] : i \in
     {j \in DOMAIN s.outputs : Wanted(s.outputs[j], address, onlyNotUsed)}}

LEMMA PromisedAnswers ==
  /\ \A n : Promised!GetUnprocessedConfirmedTxs(n) = FirstTxs(TheStore, n)
  /\ \A n : Promised!GetLatestConfirmedBlocks(n) = LastBlocks(TheStore, n)
  /\ \A slot, n : Promised!GetConfirmedBlocksFrom(slot, n) = BlocksFrom(TheStore, slot, n)
  /\ \A i : Promised!GetTxOutput(i) = OutputOf(TheStore, i)
  /\ \A address, onlyNotUsed :
       Promised!GetAllTxOutputs(address, onlyNotUsed) =
         Facts!SortTxInputOutputs(ListOf(TheStore, address, onlyNotUsed))
<1>1. \A values, n : Promised!Limited(values, n) = Facts!Limited(values, n)
  BY DEF Promised!Limited, Facts!Limited
<1>2. \A n : Promised!GetUnprocessedConfirmedTxs(n) = FirstTxs(TheStore, n)
  BY <1>1, Zenon
     DEF Promised!GetUnprocessedConfirmedTxs, FirstTxs, Facts!InChainOrder, TheStore,
         Promised!Sorted, Facts!Sorted, Promised!Cardinality, Facts!Cardinality,
         Promised!IsBefore, Facts!IsBefore
<1>3. \A n : Promised!GetLatestConfirmedBlocks(n) = LastBlocks(TheStore, n)
  BY <1>1, Zenon
     DEF Promised!GetLatestConfirmedBlocks, LastBlocks, Facts!LastSlotFirst, TheStore,
         Promised!Sorted, Facts!Sorted, Promised!Cardinality, Facts!Cardinality
<1>4. \A slot, n : Promised!GetConfirmedBlocksFrom(slot, n) = BlocksFrom(TheStore, slot, n)
  BY <1>1, Zenon
     DEF Promised!GetConfirmedBlocksFrom, BlocksFrom, BlocksSince, Facts!InSlotOrder, TheStore,
         Promised!Sorted, Facts!Sorted, Promised!Cardinality, Facts!Cardinality
<1>5. \A i : Promised!GetTxOutput(i) = OutputOf(TheStore, i)
  BY Zenon DEF Promised!GetTxOutput, OutputOf, TheStore, Promised!ZeroTxOutput, Facts!ZeroTxOutput
<1>6. \A address, onlyNotUsed :
        Promised!GetAllTxOutputs(address, onlyNotUsed) =
          Facts!SortTxInputOutputs(ListOf(TheStore, address, onlyNotUsed))
  BY Zenon
     DEF Promised!GetAllTxOutputs, ListOf, Wanted, TheStore,
         Promised!SortTxInputOutputs, Facts!SortTxInputOutputs, Promised!Sorted, Facts!Sorted,
         Promised!Cardinality, Facts!Cardinality
<1>7. QED
  BY <1>2, <1>3, <1>4, <1>5, <1>6

-----------------------------------------------------------------------------
\* Blocks found under keys of their slots.

SlotKeyed(key) ==
  \A b, c \in Facts!Block :
    /\ b.Slot = c.Slot => key[b] = key[c]
    /\ Facts!Below(key[b], key[c]) <=> b.Slot < c.Slot

LEMMA BlocksInOrder ==
  ASSUME NEW key, SlotKeyed(key), NEW u, IsBucket(u, Facts!Block, key),
         NEW values, \A k \in DOMAIN u : values[k] = u[k]
  PROVE  /\ Facts!Found(DOMAIN u, values) = Facts!InSlotOrder(Filed(u))
         /\ Facts!LastSlotFirst(Filed(u)) = Facts!Reverse(Facts!InSlotOrder(Filed(u)))
<1>1. PICK V, keys, R : /\ V = Filed(u) /\ keys = DOMAIN u /\ R = Facts!SlotPairs(V)
  OBVIOUS
<1>2. \A k \in keys : u[k] \in Facts!Block /\ u[k] \in V /\ k = key[u[k]] /\ values[k] = u[k]
  BY <1>1 DEF IsBucket, Filed
<1>3. V \in SUBSET Facts!Block /\ \A b \in V : key[b] \in keys /\ u[key[b]] = b
  BY <1>1, <1>2 DEF Filed
<1>4. keys = Facts!KeysOf(V, key)
  BY <1>2, <1>3 DEF Facts!KeysOf
<1>5. Facts!UniqueSlots(V)
  <2>1. ASSUME NEW b \in V, NEW c \in V, b.Slot = c.Slot
        PROVE  b = c
    <3>1. key[b] = key[c]
      BY <1>3, <2>1 DEF SlotKeyed
    <3>2. QED
      BY <1>3, <3>1
  <2>2. QED
    BY <2>1 DEF Facts!UniqueSlots
<1>6. Facts!IsFiniteSet(V)
  <2>1. Facts!IsFiniteSet(Facts!Block)
    BY Assumed, Facts!FiniteBlocks
  <2>2. IsFiniteSet(Facts!Block)
    BY <2>1 DEF Facts!IsFiniteSet, IsFiniteSet
  <2>3. IsFiniteSet(V)
    BY <1>3, <2>2, FS_Subset
  <2>4. QED
    BY <2>3 DEF Facts!IsFiniteSet, IsFiniteSet
<1>7. Facts!IsOrder(V, R) /\ \A b, c \in V : <<b, c>> \in R <=> b.Slot < c.Slot
  BY <1>1, <1>3, <1>5, Assumed, Facts!SlotPairsOrder
<1>8. Facts!KeysInOrder(V, R, key)
  BY <1>3, <1>7 DEF SlotKeyed, Facts!KeysInOrder
<1>9. \A b \in V : values[key[b]] = b
  BY <1>2, <1>3
<1>10. Facts!Found(keys, values) = Facts!Ordered(V, R)
  BY <1>4, <1>6, <1>7, <1>8, <1>9, Assumed, Facts!FoundInOrder
<1>11. Facts!InSlotOrder(V) = Facts!Ordered(V, R)
  BY <1>1, <1>3, <1>5, <1>6, Assumed, Facts!SortedBlocks
<1>12. Facts!LastSlotFirst(V) = Facts!Reverse(Facts!InSlotOrder(V))
  BY <1>3, <1>5, <1>6, Assumed, Facts!SortedBack
<1>13. QED
  BY <1>1, <1>10, <1>11, <1>12

\* Those not below the key of a slot, or of the start.
LEMMA BlocksNotBelow ==
  ASSUME NEW key, NEW u, IsBucket(u, Facts!Block, key), NEW slot, NEW first,
         \A b \in Facts!Block : Facts!Below(key[b], first) <=> ~(b.Slot >= slot),
         NEW later, later = [k \in {l \in DOMAIN u : ~Facts!Below(l, first)} |-> u[k]]
  PROVE  /\ IsBucket(later, Facts!Block, key)
         /\ Filed(later) = {b \in Filed(u) : b.Slot >= slot}
<1>1. \A k \in DOMAIN u : u[k] \in Facts!Block /\ k = key[u[k]]
  BY DEF IsBucket
<1>2. \A k \in DOMAIN u : k \in DOMAIN later <=> u[k].Slot >= slot
  BY <1>1
<1>3. \A k \in DOMAIN later : k \in DOMAIN u /\ later[k] = u[k]
  OBVIOUS
<1>4. IsBucket(later, Facts!Block, key)
  BY <1>1, <1>3 DEF IsBucket
<1>5. Filed(later) = {b \in Filed(u) : b.Slot >= slot}
  BY <1>2, <1>3 DEF Filed
<1>6. QED
  BY <1>4, <1>5

LEMMA KeysOfSlots ==
  /\ SlotKeyed(BlockKeyOf)
  /\ SlotKeyed(StoredBlockKey)
  /\ \A slot \in Slots \cup {0}, b \in Facts!Block :
       /\ Facts!Below(BlockKeyOf[b], Facts!SlotNumberToKey(slot)) <=> ~(b.Slot >= slot)
       /\ Facts!Below(StoredBlockKey[b], Prefix(5, Facts!SlotNumberToKey(slot))) <=>
            ~(b.Slot >= slot)
<1>1. ASSUME NEW b \in Facts!Block
      PROVE  /\ b.Slot \in Slots \cup {0}
             /\ BlockKeyOf[b] = Facts!SlotNumberToKey(b.Slot)
             /\ StoredBlockKey[b] = Prefix(5, Facts!SlotNumberToKey(b.Slot))
  BY DEF Facts!Block, BlockKeyOf, StoredBlockKey
<1>2. ASSUME NEW s \in Slots \cup {0}, NEW t \in Slots \cup {0}
      PROVE  /\ s \in Nat /\ t \in Nat
             /\ Facts!Below(Facts!SlotNumberToKey(s), Facts!SlotNumberToKey(t)) <=> s < t
             /\ Facts!Below(Prefix(5, Facts!SlotNumberToKey(s)),
                            Prefix(5, Facts!SlotNumberToKey(t))) <=> s < t
  <2>1. s \in Nat /\ t \in Nat
    BY Assumed, Facts!Numbers
  <2>2. PICK a, c : a = Facts!SlotNumberToKey(s) /\ c = Facts!SlotNumberToKey(t)
    OBVIOUS
  <2>3. /\ a \in Facts!Bytes(SlotWidth) /\ c \in Facts!Bytes(SlotWidth)
        /\ Facts!Below(a, c) <=> s < t
    BY <2>2, Assumed, Facts!SlotKeys
  <2>4. SlotWidth \in Nat
    BY Assumed, Facts!Widths
  <2>5. Facts!Below(Prefix(5, a), Prefix(5, c)) <=> Facts!Below(a, c)
    BY <2>3, <2>4, PrefixedKeysOrder
  <2>6. QED
    BY <2>1, <2>2, <2>3, <2>5
<1>3. ASSUME NEW slot \in Slots \cup {0}, NEW b \in Facts!Block
      PROVE  /\ Facts!Below(BlockKeyOf[b], Facts!SlotNumberToKey(slot)) <=> ~(b.Slot >= slot)
             /\ Facts!Below(StoredBlockKey[b], Prefix(5, Facts!SlotNumberToKey(slot))) <=>
                  ~(b.Slot >= slot)
  <2>1. /\ b.Slot \in Slots \cup {0} /\ b.Slot \in Nat /\ slot \in Nat
    BY <1>1, <1>2
  <2>2. ~(b.Slot >= slot) <=> b.Slot < slot
    BY <2>1
  <2>3. QED
    BY <1>1, <1>2, <2>1, <2>2
<1>4. SlotKeyed(BlockKeyOf)
  BY <1>1, <1>2 DEF SlotKeyed
<1>5. SlotKeyed(StoredBlockKey)
  BY <1>1, <1>2 DEF SlotKeyed
<1>6. QED
  BY <1>3, <1>4, <1>5

-----------------------------------------------------------------------------
\* What bbolt answers.

LEMMA BBoltAnswersTxs ==
  ASSUME BBoltInv, Facts!IsFiniteSet(Filed(unprocessedTxsBucket)), NEW s, s = BBoltSays, NEW n
  PROVE  BBoltDatabase!GetUnprocessedConfirmedTxs(n) = FirstTxs(s, n)
<1>1. s.unprocessed = Filed(unprocessedTxsBucket)
  BY StoredFields DEF BBoltSays
<1>2. QED
  BY <1>1, BBoltFinds, SameOrders DEF BBoltDatabase!GetUnprocessedConfirmedTxs, FirstTxs

LEMMA BBoltCursor ==
  /\ \A u : BBoltDatabase!Ascending(u) = Facts!Found(DOMAIN u, u)
  /\ \A row : BBoltDatabase!Reverse(row) = Facts!Reverse(row)
  /\ \A a, b : BBoltDatabase!Below(a, b) <=> Facts!Below(a, b)
  BY SameOrders
     DEF BBoltDatabase!Ascending, Facts!Found, BBoltDatabase!Reverse, Facts!Reverse,
         BBoltDatabase!Below, Facts!Below

LEMMA BBoltAnswersBlocks ==
  ASSUME BBoltInv, NEW s, s = BBoltSays, NEW n
  PROVE  /\ BBoltDatabase!GetLatestConfirmedBlocks(n) = LastBlocks(s, n)
         /\ \A slot \in Slots \cup {0} :
              BBoltDatabase!GetConfirmedBlocksFrom(slot, n) = BlocksFrom(s, slot, n)
<1>1. PICK u : u = confirmedBlocks
  OBVIOUS
<1>2. s.blocks = Filed(u) /\ IsBucket(u, Facts!Block, BlockKeyOf)
  BY <1>1, StoredFields DEF BBoltSays, BBoltInv
<1>3. /\ Facts!Found(DOMAIN u, u) = Facts!InSlotOrder(Filed(u))
      /\ Facts!LastSlotFirst(Filed(u)) = Facts!Reverse(Facts!InSlotOrder(Filed(u)))
  BY <1>2, KeysOfSlots, BlocksInOrder
<1>4. BBoltDatabase!GetLatestConfirmedBlocks(n) = LastBlocks(s, n)
  BY <1>1, <1>2, <1>3, BBoltCursor, SameOrders
     DEF BBoltDatabase!GetLatestConfirmedBlocks, LastBlocks
<1>5. ASSUME NEW slot \in Slots \cup {0}
      PROVE  BBoltDatabase!GetConfirmedBlocksFrom(slot, n) = BlocksFrom(s, slot, n)
  <2>1. PICK first : first = Facts!SlotNumberToKey(slot)
    OBVIOUS
  <2>2. PICK later : later = [k \in {l \in DOMAIN u : ~Facts!Below(l, first)} |-> u[k]]
    OBVIOUS
  <2>3. /\ IsBucket(later, Facts!Block, BlockKeyOf)
        /\ Filed(later) = {b \in Filed(u) : b.Slot >= slot}
    <3>1. \A b \in Facts!Block : Facts!Below(BlockKeyOf[b], first) <=> ~(b.Slot >= slot)
      BY <2>1, KeysOfSlots
    <3>2. QED
      BY <1>2, <2>2, <3>1, BlocksNotBelow
  <2>4. Facts!Found(DOMAIN later, later) = Facts!InSlotOrder(Filed(later))
    BY <2>3, KeysOfSlots, BlocksInOrder
  <2>5. BBoltDatabase!GetConfirmedBlocksFrom(slot, n) =
          BBoltDatabase!Limited(BBoltDatabase!Ascending(later), n)
    <3>1. BBoltDatabase!SlotNumberToKey(slot) = first
      BY <2>1, BBoltKeys
    <3>2. {k \in DOMAIN u : ~BBoltDatabase!Below(k, first)} =
            {l \in DOMAIN u : ~Facts!Below(l, first)}
      BY BBoltCursor
    <3>3. QED
      BY <1>1, <2>2, <3>1, <3>2 DEF BBoltDatabase!GetConfirmedBlocksFrom
  <2>6. BlocksSince(s, slot) = Filed(later)
    BY <1>2, <2>3 DEF BlocksSince
  <2>7. QED
    BY <2>4, <2>5, <2>6, BBoltCursor, SameOrders DEF BlocksFrom
<1>6. QED
  BY <1>4, <1>5

LEMMA BBoltAnswersOutputs ==
  ASSUME BBoltInv, NEW s, s = BBoltSays
  PROVE  /\ \A i \in TxInputs : BBoltDatabase!GetTxOutput(i) = OutputOf(s, i)
         /\ \A address, onlyNotUsed :
              BBoltDatabase!GetAllTxOutputs(address, onlyNotUsed) =
                Facts!SortTxInputOutputs(ListOf(s, address, onlyNotUsed))
<1>1. PICK b : b = txOutputsBucket
  OBVIOUS
<1>2. s.outputs = OutputsIn(b) /\ OutputBucket(b)
  BY <1>1, StoredFields DEF BBoltSays, BBoltInv
<1>3. /\ DOMAIN s.outputs = InputsIn(b)
      /\ \A i \in InputsIn(b) : s.outputs[i] = b[Facts!TxInputKey(i)]
  BY <1>2 DEF OutputsIn
<1>4. ASSUME NEW i \in TxInputs
      PROVE  BBoltDatabase!GetTxOutput(i) = OutputOf(s, i)
  <2>1. BBoltDatabase!TxInputKey(i) = Facts!TxInputKey(i)
    BY BBoltKeys
  <2>2. BBoltDatabase!ZeroTxOutput = Facts!ZeroTxOutput
    BY DEF BBoltDatabase!ZeroTxOutput, Facts!ZeroTxOutput
  <2>3. i \in InputsIn(b) <=> Facts!TxInputKey(i) \in DOMAIN b
    BY DEF InputsIn
  <2>4. QED
    BY <1>1, <1>3, <2>1, <2>2, <2>3 DEF BBoltDatabase!GetTxOutput, OutputOf
<1>5. ASSUME NEW address, NEW onlyNotUsed
      PROVE  BBoltDatabase!GetAllTxOutputs(address, onlyNotUsed) =
               Facts!SortTxInputOutputs(ListOf(s, address, onlyNotUsed))
  <2>1. PICK list :
          list = {[Input |-> BBoltDatabase!NewTxInputFromBytes(k), Output |-> b[k]] : k \in
                    {l \in DOMAIN b : Wanted(b[l], address, onlyNotUsed)}}
    OBVIOUS
  <2>2. BBoltDatabase!GetAllTxOutputs(address, onlyNotUsed) =
          BBoltDatabase!SortTxInputOutputs(list)
    BY <1>1, <2>1, Zenon DEF BBoltDatabase!GetAllTxOutputs, Wanted
  <2>3. BBoltDatabase!SortTxInputOutputs(list) = Facts!SortTxInputOutputs(list)
    BY Zenon DEF BBoltDatabase!SortTxInputOutputs, Facts!SortTxInputOutputs,
                 BBoltDatabase!Sorted, Facts!Sorted, BBoltDatabase!Cardinality,
                 Facts!Cardinality
  <2>4. list = ListOf(s, address, onlyNotUsed)
    <3>1. ASSUME NEW k \in DOMAIN b, Wanted(b[k], address, onlyNotUsed)
          PROVE  [Input |-> BBoltDatabase!NewTxInputFromBytes(k), Output |-> b[k]] \in
                   ListOf(s, address, onlyNotUsed)
      <4>1. PICK i \in TxInputs : k = Facts!TxInputKey(i)
        BY <1>2 DEF OutputBucket
      <4>2. BBoltDatabase!NewTxInputFromBytes(k) = i /\ i \in InputsIn(b)
        BY <4>1, InputKeys DEF InputsIn
      <4>3. i \in DOMAIN s.outputs /\ s.outputs[i] = b[k]
        BY <1>3, <4>1, <4>2
      <4>4. [Input |-> i, Output |-> s.outputs[i]] \in ListOf(s, address, onlyNotUsed)
        BY <3>1, <4>3 DEF ListOf
      <4>5. QED
        BY <4>2, <4>3, <4>4
    <3>2. ASSUME NEW i \in DOMAIN s.outputs, Wanted(s.outputs[i], address, onlyNotUsed)
          PROVE  [Input |-> i, Output |-> s.outputs[i]] \in list
      <4>1. PICK k : k = Facts!TxInputKey(i)
        OBVIOUS
      <4>2. i \in TxInputs /\ k \in DOMAIN b /\ s.outputs[i] = b[k]
        BY <1>3, <4>1 DEF InputsIn
      <4>3. BBoltDatabase!NewTxInputFromBytes(k) = i
        BY <4>1, <4>2, InputKeys
      <4>4. [Input |-> BBoltDatabase!NewTxInputFromBytes(k), Output |-> b[k]] \in list
        BY <2>1, <3>2, <4>2
      <4>5. QED
        BY <4>2, <4>3, <4>4
    <3>3. \A r \in list : r \in ListOf(s, address, onlyNotUsed)
      BY <2>1, <3>1
    <3>4. \A r \in ListOf(s, address, onlyNotUsed) : r \in list
      BY <3>2 DEF ListOf
    <3>5. QED
      BY <3>3, <3>4
  <2>5. QED
    BY <2>2, <2>3, <2>4
<1>6. QED
  BY <1>4, <1>5

-----------------------------------------------------------------------------
\* What leveldb answers.

LEMMA LevelCursor ==
  /\ \A keys : LevelDBDatabase!Values(keys) = Facts!Found(keys, db)
  /\ \A row : LevelDBDatabase!Reverse(row) = Facts!Reverse(row)
  /\ \A a, b : LevelDBDatabase!Below(a, b) <=> Facts!Below(a, b)
  BY SameOrders
     DEF LevelDBDatabase!Values, Facts!Found, LevelDBDatabase!Reverse, Facts!Reverse,
         LevelDBDatabase!Below, Facts!Below

LEMMA LevelAnswersTxs ==
  ASSUME IsDb(db), Facts!IsFiniteSet(Waiting(db)), NEW s, s = LevelSays(db), NEW n
  PROVE  LevelDBDatabase!GetUnprocessedConfirmedTxs(n) = FirstTxs(s, n)
<1>1. s.unprocessed = Waiting(db)
  BY StoredFields DEF LevelSays, Waiting
<1>2. QED
  BY <1>1, LevelFinds, SameOrders DEF LevelDBDatabase!GetUnprocessedConfirmedTxs, FirstTxs

LEMMA LevelAnswersBlocks ==
  ASSUME IsDb(db), NEW s, s = LevelSays(db), NEW n
  PROVE  /\ LevelDBDatabase!GetLatestConfirmedBlocks(n) = LastBlocks(s, n)
         /\ \A slot \in Slots \cup {0} :
              LevelDBDatabase!GetConfirmedBlocksFrom(slot, n) = BlocksFrom(s, slot, n)
<1>1. PICK u : u = OfKind(db, 5)
  OBVIOUS
<1>2. s.blocks = Filed(u) /\ IsBucket(u, Facts!Block, StoredBlockKey)
  BY <1>1, StoredFields, Kinds DEF LevelSays
<1>3. LevelDBDatabase!Prefixed(LevelDBDatabase!confirmedBlocks) = DOMAIN u
  BY <1>1, PrefixedKeys DEF LevelDBDatabase!Prefixed, LevelDBDatabase!confirmedBlocks, OfKind
<1>4. \A k \in DOMAIN u : db[k] = u[k]
  BY <1>1 DEF OfKind
<1>5. /\ Facts!Found(DOMAIN u, db) = Facts!InSlotOrder(Filed(u))
      /\ Facts!LastSlotFirst(Filed(u)) = Facts!Reverse(Facts!InSlotOrder(Filed(u)))
  BY <1>2, <1>4, KeysOfSlots, BlocksInOrder
<1>6. LevelDBDatabase!GetLatestConfirmedBlocks(n) = LastBlocks(s, n)
  BY <1>2, <1>3, <1>5, LevelCursor, SameOrders
     DEF LevelDBDatabase!GetLatestConfirmedBlocks, LastBlocks
<1>7. ASSUME NEW slot \in Slots \cup {0}
      PROVE  LevelDBDatabase!GetConfirmedBlocksFrom(slot, n) = BlocksFrom(s, slot, n)
  <2>1. PICK first : first = Prefix(5, Facts!SlotNumberToKey(slot))
    OBVIOUS
  <2>2. PICK later : later = [k \in {l \in DOMAIN u : ~Facts!Below(l, first)} |-> u[k]]
    OBVIOUS
  <2>3. /\ IsBucket(later, Facts!Block, StoredBlockKey)
        /\ Filed(later) = {b \in Filed(u) : b.Slot >= slot}
    <3>1. \A b \in Facts!Block : Facts!Below(StoredBlockKey[b], first) <=> ~(b.Slot >= slot)
      BY <2>1, KeysOfSlots
    <3>2. QED
      BY <1>2, <2>2, <3>1, BlocksNotBelow
  <2>4. Facts!Found(DOMAIN later, db) = Facts!InSlotOrder(Filed(later))
    <3>1. \A k \in DOMAIN later : db[k] = later[k]
      BY <1>4, <2>2
    <3>2. QED
      BY <2>3, <3>1, KeysOfSlots, BlocksInOrder
  <2>5. LevelDBDatabase!GetConfirmedBlocksFrom(slot, n) =
          LevelDBDatabase!Limited(LevelDBDatabase!Values(DOMAIN later), n)
    <3>1. LevelDBDatabase!bucketKey(LevelDBDatabase!confirmedBlocks,
                                    LevelDBDatabase!SlotNumberToKey(slot)) = first
      <4>1. PICK key : key = LevelDBDatabase!SlotNumberToKey(slot)
        OBVIOUS
      <4>2. key = Facts!SlotNumberToKey(slot)
        BY <4>1, LevelDBKeys
      <4>3. LevelDBDatabase!bucketKey(LevelDBDatabase!confirmedBlocks, key) = Prefix(5, key)
        BY DEF Prefix, LevelDBDatabase!confirmedBlocks
      <4>4. QED
        BY <2>1, <4>1, <4>2, <4>3
    <3>2. {k \in DOMAIN u : ~LevelDBDatabase!Below(k, first)} = DOMAIN later
      BY <2>2, LevelCursor
    <3>3. QED
      BY <1>3, <3>1, <3>2 DEF LevelDBDatabase!GetConfirmedBlocksFrom
  <2>6. BlocksSince(s, slot) = Filed(later)
    BY <1>2, <2>3 DEF BlocksSince
  <2>7. QED
    BY <2>4, <2>5, <2>6, LevelCursor, SameOrders DEF BlocksFrom
<1>8. QED
  BY <1>6, <1>7

LEMMA LevelAnswersOutput ==
  ASSUME IsDb(db), NEW s, s = LevelSays(db), NEW i \in TxInputs
  PROVE  LevelDBDatabase!GetTxOutput(i) = OutputOf(s, i)
<1>1. s.outputs = LevelOutputs(db)
  BY StoredFields DEF LevelSays
<1>2. LevelDBDatabase!OutputKey(i) = OutputKeyOf[i]
  BY NamesOfKeys
<1>3. LevelDBDatabase!ZeroTxOutput = Facts!ZeroTxOutput
  BY DEF LevelDBDatabase!ZeroTxOutput, Facts!ZeroTxOutput
<1>4. /\ i \in DOMAIN s.outputs <=> OutputKeyOf[i] \in DOMAIN db
      /\ i \in DOMAIN s.outputs => s.outputs[i] = db[OutputKeyOf[i]]
  BY <1>1 DEF LevelOutputs
<1>5. QED
  BY <1>2, <1>3, <1>4 DEF LevelDBDatabase!GetTxOutput, OutputOf

\* The outputs leveldb finds under its keys, in the order in which the ones
\* promised come.
WantedKeys(address, onlyNotUsed) ==
  {k \in DOMAIN db : k[1] = 1 /\ Wanted(db[k], address, onlyNotUsed)}

LEMMA LevelLists ==
  ASSUME IsDb(db), NEW s, s = LevelSays(db), NEW address, NEW onlyNotUsed,
         NEW list, list = ListOf(s, address, onlyNotUsed)
  PROVE  /\ list \in SUBSET Facts!Listed /\ Facts!UniqueInputs(list)
         /\ Facts!IsFiniteSet(list)
         /\ \A r \in list : /\ OutputKeyOf[r.Input] \in WantedKeys(address, onlyNotUsed)
                            /\ db[OutputKeyOf[r.Input]] = r.Output
         /\ \A q, r \in list : OutputKeyOf[q.Input] = OutputKeyOf[r.Input] => q = r
         /\ Cardinality(WantedKeys(address, onlyNotUsed)) = Facts!Cardinality(list)
<1>1. s.outputs = LevelOutputs(db)
  BY StoredFields DEF LevelSays
<1>2. /\ DOMAIN s.outputs \in SUBSET TxInputs
      /\ \A i \in DOMAIN s.outputs : /\ OutputKeyOf[i] \in DOMAIN db
                                     /\ s.outputs[i] = db[OutputKeyOf[i]]
                                     /\ s.outputs[i] \in Facts!Output
      /\ \A i \in TxInputs : OutputKeyOf[i] \in DOMAIN db => i \in DOMAIN s.outputs
  BY <1>1, Kinds DEF LevelOutputs
<1>3. \A r \in list : \E i \in DOMAIN s.outputs :
        r = [Input |-> i, Output |-> s.outputs[i]] /\ Wanted(s.outputs[i], address, onlyNotUsed)
  BY DEF ListOf
<1>4. \A r \in list : /\ r.Input \in DOMAIN s.outputs /\ r.Output = s.outputs[r.Input]
                      /\ r = [Input |-> r.Input, Output |-> s.outputs[r.Input]]
                      /\ Wanted(s.outputs[r.Input], address, onlyNotUsed)
  BY <1>3
<1>5. list \in SUBSET Facts!Listed
  BY <1>2, <1>4 DEF Facts!Listed
<1>6. Facts!UniqueInputs(list)
  BY <1>4 DEF Facts!UniqueInputs
<1>7. ASSUME NEW r \in list
      PROVE  /\ r.Input \in TxInputs
             /\ OutputKeyOf[r.Input] \in WantedKeys(address, onlyNotUsed)
             /\ db[OutputKeyOf[r.Input]] = r.Output
  <2>1. PICK i \in TxInputs : i = r.Input /\ OutputKeyOf[i] \in DOMAIN db
                              /\ r.Output = db[OutputKeyOf[i]]
                              /\ Wanted(db[OutputKeyOf[i]], address, onlyNotUsed)
    BY <1>2, <1>4
  <2>2. OutputKeyOf[i][1] = 1
    BY KindsOfKeys DEF IsKey
  <2>3. QED
    BY <2>1, <2>2 DEF WantedKeys
<1>8. \A q, r \in list : OutputKeyOf[q.Input] = OutputKeyOf[r.Input] => q = r
  BY <1>6, <1>7, KeysOfOneKind DEF Facts!UniqueInputs
<1>9. ASSUME NEW k \in WantedKeys(address, onlyNotUsed)
      PROVE  \E r \in list : k = OutputKeyOf[r.Input]
  <2>1. k \in DOMAIN db /\ k[1] = 1 /\ Wanted(db[k], address, onlyNotUsed)
    BY DEF WantedKeys
  <2>2. PICK i \in TxInputs : k = OutputKeyOf[i]
    BY <2>1, EntryFacts DEF IsDb
  <2>3. i \in DOMAIN s.outputs /\ Wanted(s.outputs[i], address, onlyNotUsed)
    BY <1>2, <2>1, <2>2
  <2>4. PICK r : r = [Input |-> i, Output |-> s.outputs[i]]
    OBVIOUS
  <2>5. r \in list /\ r.Input = i
    BY <2>3, <2>4 DEF ListOf
  <2>6. QED
    BY <2>2, <2>5
<1>10. IsFiniteSet(list)
  <2>1. Facts!IsFiniteSet(TxInputs)
    BY Assumed, Facts!FiniteInputs
  <2>2. IsFiniteSet(TxInputs)
    BY <2>1 DEF Facts!IsFiniteSet, IsFiniteSet
  <2> DEFINE f == [r \in list |-> r.Input]
  <2>3. f \in [list -> TxInputs]
    BY <1>7
  <2>4. \A q, r \in list : f[q] = f[r] => q = r
    BY <1>6 DEF Facts!UniqueInputs
  <2>5. f \in Injection(list, TxInputs)
    BY <2>3, <2>4 DEF Injection, IsInjective
  <2>6. QED
    BY <2>2, <2>5, FS_Injection
<1>11. Facts!IsFiniteSet(list) /\ Facts!Cardinality(list) = Cardinality(list)
  BY <1>10 DEF Facts!IsFiniteSet, IsFiniteSet, Facts!Cardinality, Cardinality
<1>12. Cardinality(WantedKeys(address, onlyNotUsed)) = Cardinality(list)
  <2>1. PICK K : K = WantedKeys(address, onlyNotUsed)
    OBVIOUS
  <2> DEFINE g == [r \in list |-> OutputKeyOf[r.Input]]
  <2>2. g \in [list -> K]
    BY <1>7, <2>1
  <2>3. \A q, r \in list : g[q] = g[r] => q = r
    BY <1>8
  <2>4. \A k \in K : \E r \in list : g[r] = k
    BY <1>9, <2>1
  <2>5. g \in Bijection(list, K)
    BY <2>2, <2>3, <2>4 DEF Bijection, Injection, IsInjective, Surjection
  <2>6. ExistsBijection(list, K)
    BY <2>5 DEF ExistsBijection
  <2>7. QED
    BY <1>10, <2>1, <2>6, FS_Bijection
<1>13. QED
  BY <1>5, <1>6, <1>7, <1>8, <1>11, <1>12

-----------------------------------------------------------------------------
\* Rows of leveldb's keys, and what it makes of one.
KeyRow(row, n) == [i \in 1..n |-> OutputKeyOf[row[i].Input]]

OutputsUnder(keys) ==
  [i \in DOMAIN keys |->
     [Input |-> LevelDBDatabase!NewTxInputFromBytes(keys[i]), Output |-> db[keys[i]]]]

BySlot(result) ==
  \A i, j \in DOMAIN result : i < j => result[i].Output.Slot <= result[j].Output.Slot

LEMMA RowsOfKeys ==
  ASSUME NEW S, NEW n \in Nat, n = Cardinality(S), NEW keys \in [1..n -> S],
         \A i, j \in 1..n : i # j => keys[i] # keys[j]
  PROVE  keys \in LevelDBDatabase!SetToSeqs(S)
<1>1. LevelDBDatabase!Cardinality(S) = Cardinality(S)
  BY DEF LevelDBDatabase!Cardinality, Cardinality
<1>2. LevelDBDatabase!SetToSeqs(S) =
        {f \in [1..n -> S] : \A i, j \in 1..n : i # j => f[i] # f[j]}
  BY <1>1 DEF LevelDBDatabase!SetToSeqs
<1>3. QED
  BY <1>2

LEMMA LevelListings ==
  ASSUME IsDb(db), NEW address, NEW onlyNotUsed,
         NEW keys \in LevelDBDatabase!SetToSeqs(WantedKeys(address, onlyNotUsed)),
         BySlot(OutputsUnder(keys))
  PROVE  OutputsUnder(keys) \in LevelDBDatabase!GetAllTxOutputs(address, onlyNotUsed)
<1>1. {k \in LevelDBDatabase!Prefixed(LevelDBDatabase!txOutputsBucket) :
         db[k].Address = address /\ ~(onlyNotUsed /\ db[k].IsUsed)} =
        WantedKeys(address, onlyNotUsed)
  <2>1. LevelDBDatabase!Prefixed(<<1>>) = {l \in DOMAIN db : l[1] = 1}
    BY PrefixedKeys DEF LevelDBDatabase!Prefixed
  <2>2. QED
    BY <2>1 DEF WantedKeys, Wanted, LevelDBDatabase!txOutputsBucket
<1>2. LevelDBDatabase!GetAllTxOutputs(address, onlyNotUsed) =
        {r \in {OutputsUnder(k) : k \in LevelDBDatabase!SetToSeqs(WantedKeys(address, onlyNotUsed))} :
           BySlot(r)}
  BY <1>1, Zenon DEF LevelDBDatabase!GetAllTxOutputs, OutputsUnder, BySlot
<1>3. QED
  BY <1>2

LEMMA LevelAnswersOutputs ==
  ASSUME IsDb(db), NEW s, s = LevelSays(db), NEW address, NEW onlyNotUsed,
         NEW list, list = ListOf(s, address, onlyNotUsed)
  PROVE  Outputs(Facts!SortTxInputOutputs(list)) \in
           {Outputs(r) : r \in LevelDBDatabase!GetAllTxOutputs(address, onlyNotUsed)}
<1>1. PICK K : K = WantedKeys(address, onlyNotUsed)
  OBVIOUS
<1>2. /\ list \in SUBSET Facts!Listed /\ Facts!UniqueInputs(list)
      /\ Facts!IsFiniteSet(list)
      /\ \A r \in list : OutputKeyOf[r.Input] \in K /\ db[OutputKeyOf[r.Input]] = r.Output
      /\ \A q, r \in list : OutputKeyOf[q.Input] = OutputKeyOf[r.Input] => q = r
      /\ Cardinality(K) = Facts!Cardinality(list)
  BY <1>1, LevelLists
<1>3. PICK row, n : row = Facts!SortTxInputOutputs(list) /\ n = Facts!Cardinality(list)
  OBVIOUS
<1>4. /\ n \in Nat /\ row \in [1..n -> list]
      /\ \A i, j \in 1..n :
           i < j => row[i] # row[j] /\ row[i].Output.Slot <= row[j].Output.Slot
  <2>1. Facts!IsListing(row, n, list)
    BY <1>2, <1>3, Assumed, Facts!ListedBySlot
  <2>2. QED
    BY <2>1 DEF Facts!IsListing
<1>5. PICK keys : keys = KeyRow(row, n)
  OBVIOUS
<1>6. /\ keys \in [1..n -> K]
      /\ \A i \in 1..n : db[keys[i]] = row[i].Output
  BY <1>2, <1>4, <1>5 DEF KeyRow
<1>7. \A i, j \in 1..n : i # j => keys[i] # keys[j]
  <2>1. ASSUME NEW i \in 1..n, NEW j \in 1..n, i # j
        PROVE  row[i] # row[j]
    <3>1. i < j \/ j < i
      BY <1>4, <2>1
    <3>2. QED
      BY <1>4, <3>1
  <2>2. QED
    BY <1>2, <1>4, <1>5, <2>1 DEF KeyRow
<1>8. keys \in LevelDBDatabase!SetToSeqs(K)
  BY <1>2, <1>3, <1>4, <1>6, <1>7, RowsOfKeys
<1>9. PICK result : result = OutputsUnder(keys)
  OBVIOUS
<1>10. DOMAIN result = 1..n /\ \A i \in 1..n : result[i].Output = row[i].Output
  BY <1>6, <1>9 DEF OutputsUnder
<1>11. BySlot(result)
  BY <1>4, <1>10 DEF BySlot
<1>12. result \in LevelDBDatabase!GetAllTxOutputs(address, onlyNotUsed)
  BY <1>1, <1>8, <1>9, <1>11, LevelListings
<1>13. Outputs(row) = Outputs(result)
  BY <1>4, <1>10 DEF Outputs
<1>14. QED
  BY <1>3, <1>12, <1>13

-----------------------------------------------------------------------------
\* Either one.

\* The answers to the calls of the interface, in the words of QueriesAgree.
AgreeOn(maxCnt) ==
  /\ GetUnprocessedConfirmedTxs(maxCnt) = Promised!GetUnprocessedConfirmedTxs(maxCnt)
  /\ GetLatestConfirmedBlocks(maxCnt) = Promised!GetLatestConfirmedBlocks(maxCnt)
  /\ \A slot \in Slots \cup {0} :
       GetConfirmedBlocksFrom(slot, maxCnt) = Promised!GetConfirmedBlocksFrom(slot, maxCnt)

AgreeOnOutputs(address, onlyNotUsed) ==
  IF IsBBolt
    THEN BBoltDatabase!GetAllTxOutputs(address, onlyNotUsed) =
           Promised!GetAllTxOutputs(address, onlyNotUsed)
    ELSE Outputs(Promised!GetAllTxOutputs(address, onlyNotUsed)) \in
           {Outputs(r) : r \in LevelDBDatabase!GetAllTxOutputs(address, onlyNotUsed)}

LEMMA Agreement ==
  ASSUME \A maxCnt : AgreeOn(maxCnt),
         \A input \in TxInputs : GetTxOutput(input) = Promised!GetTxOutput(input),
         \A address, onlyNotUsed : AgreeOnOutputs(address, onlyNotUsed)
  PROVE  QueriesAgree
<1>1. \A maxCnt \in 0..2 :
        /\ GetUnprocessedConfirmedTxs(maxCnt) = Promised!GetUnprocessedConfirmedTxs(maxCnt)
        /\ GetLatestConfirmedBlocks(maxCnt) = Promised!GetLatestConfirmedBlocks(maxCnt)
        /\ \A slot \in Slots \cup {0} :
             GetConfirmedBlocksFrom(slot, maxCnt) = Promised!GetConfirmedBlocksFrom(slot, maxCnt)
  BY Zenon DEF AgreeOn
<1>2. ASSUME NEW address, NEW onlyNotUsed
      PROVE  IF IsBBolt
               THEN BBoltDatabase!GetAllTxOutputs(address, onlyNotUsed) =
                      Promised!GetAllTxOutputs(address, onlyNotUsed)
               ELSE Outputs(Promised!GetAllTxOutputs(address, onlyNotUsed)) \in
                      {Outputs(r) : r \in LevelDBDatabase!GetAllTxOutputs(address, onlyNotUsed)}
  BY Zenon DEF AgreeOnOutputs
<1>3. QED
  BY <1>1, <1>2, Zenon DEF QueriesAgree

LEMMA BBoltAgrees ==
  ASSUME DatabasesInv, IsBBolt
  PROVE  QueriesAgree
<1>1. PICK s : s = BBoltSays
  OBVIOUS
<1>2. BBoltInv /\ TheStore = s
  BY <1>1, BBoltStore DEF DatabasesInv, BBoltInv, TheStore
<1>3. Facts!IsFiniteSet(Filed(unprocessedTxsBucket))
  <2>1. s.unprocessed = Filed(unprocessedTxsBucket)
    BY <1>1, StoredFields DEF BBoltSays
  <2>2. QED
    BY <1>2, <2>1 DEF DatabasesInv, Facts!DatabaseInv, Facts!StoreTyped
<1>4. ASSUME NEW n
      PROVE  AgreeOn(n)
  <2>1. GetUnprocessedConfirmedTxs(n) = Promised!GetUnprocessedConfirmedTxs(n)
    BY <1>1, <1>2, <1>3, PromisedAnswers, BBoltAnswersTxs DEF GetUnprocessedConfirmedTxs
  <2>2. GetLatestConfirmedBlocks(n) = Promised!GetLatestConfirmedBlocks(n)
    BY <1>1, <1>2, PromisedAnswers, BBoltAnswersBlocks DEF GetLatestConfirmedBlocks
  <2>3. \A slot \in Slots \cup {0} :
          GetConfirmedBlocksFrom(slot, n) = Promised!GetConfirmedBlocksFrom(slot, n)
    BY <1>1, <1>2, PromisedAnswers, BBoltAnswersBlocks DEF GetConfirmedBlocksFrom
  <2>4. QED
    BY <2>1, <2>2, <2>3 DEF AgreeOn
<1>5. ASSUME NEW i \in TxInputs
      PROVE  GetTxOutput(i) = Promised!GetTxOutput(i)
  BY <1>1, <1>2, PromisedAnswers, BBoltAnswersOutputs DEF GetTxOutput
<1>6. ASSUME NEW address, NEW onlyNotUsed
      PROVE  AgreeOnOutputs(address, onlyNotUsed)
  BY <1>1, <1>2, PromisedAnswers, BBoltAnswersOutputs DEF AgreeOnOutputs
<1>7. QED
  BY <1>4, <1>5, <1>6, Agreement

LEMMA LevelAgrees ==
  ASSUME DatabasesInv, ~IsBBolt
  PROVE  QueriesAgree
<1>1. PICK s : s = LevelSays(db)
  OBVIOUS
<1>2. IsDb(db) /\ TheStore = s
  BY <1>1, LevelStore DEF DatabasesInv, LevelInv, TheStore
<1>3. Facts!IsFiniteSet(Waiting(db))
  <2>1. s.unprocessed = Waiting(db)
    BY <1>1, StoredFields DEF LevelSays, Waiting
  <2>2. QED
    BY <1>2, <2>1 DEF DatabasesInv, Facts!DatabaseInv, Facts!StoreTyped
<1>4. ASSUME NEW n
      PROVE  AgreeOn(n)
  <2>1. GetUnprocessedConfirmedTxs(n) = Promised!GetUnprocessedConfirmedTxs(n)
    BY <1>1, <1>2, <1>3, PromisedAnswers, LevelAnswersTxs DEF GetUnprocessedConfirmedTxs
  <2>2. GetLatestConfirmedBlocks(n) = Promised!GetLatestConfirmedBlocks(n)
    BY <1>1, <1>2, PromisedAnswers, LevelAnswersBlocks DEF GetLatestConfirmedBlocks
  <2>3. \A slot \in Slots \cup {0} :
          GetConfirmedBlocksFrom(slot, n) = Promised!GetConfirmedBlocksFrom(slot, n)
    BY <1>1, <1>2, PromisedAnswers, LevelAnswersBlocks DEF GetConfirmedBlocksFrom
  <2>4. QED
    BY <2>1, <2>2, <2>3 DEF AgreeOn
<1>5. ASSUME NEW i \in TxInputs
      PROVE  GetTxOutput(i) = Promised!GetTxOutput(i)
  BY <1>1, <1>2, PromisedAnswers, LevelAnswersOutput DEF GetTxOutput
<1>6. ASSUME NEW address, NEW onlyNotUsed
      PROVE  AgreeOnOutputs(address, onlyNotUsed)
  <2>1. PICK list : list = ListOf(s, address, onlyNotUsed)
    OBVIOUS
  <2>2. Promised!GetAllTxOutputs(address, onlyNotUsed) = Facts!SortTxInputOutputs(list)
    BY <1>2, <2>1, PromisedAnswers
  <2>3. QED
    BY <1>1, <1>2, <2>1, <2>2, LevelAnswersOutputs DEF AgreeOnOutputs
<1>7. QED
  BY <1>4, <1>5, <1>6, Agreement

\* Whatever key a value lies under and whatever digits it has, the queries of
\* either database answer as those of module Database: what is stored is found,
\* transactions and blocks come in the order of the chain, a seek starts at the
\* slot it is given, and the outputs of an address come by slot (the cursors of
\* db/bbolt/bbolt.go and the iterators of db/leveldb/leveldb.go).
THEOREM DatabasesAnswer ==
  ASSUME "leveldb" \notin SoftDeletesOwn
  PROVE  Spec => []QueriesAgree
<1>1. DatabasesInv => QueriesAgree
  BY BBoltAgrees, LevelAgrees
<1>2. QED
  BY <1>1, DatabasesInvariant, PTL
=============================================================================
