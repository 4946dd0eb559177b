------------------------ MODULE CircularQueueProofs -------------------------
(***************************************************************************)
(* The ring buffer of common/circular_queue.go implements the bounded      *)
(* first-in first-out list of module BoundedQueue, for every number of     *)
(* slots and every type of item.                                           *)
(***************************************************************************)
EXTENDS CircularQueue, SequenceTheorems, TLAPS

\* The slot of the i-th item when the oldest one lies in slot p.
Wrap(p, i) == (p + i) % size

\* Within one lap of the ring the modulus wraps at most once.
LEMMA WrapValue ==
  ASSUME NEW p \in Slots, NEW i \in 0..size
  PROVE  /\ Wrap(p, i) = IF p + i < size THEN p + i ELSE p + i - size
         /\ Wrap(p, i) \in Slots
<1>1. Wrap(p, i) = IF p + i < size THEN p + i ELSE p + i - size
  BY SizeAssumption, Z3 DEF Slots, Wrap
<1>2. QED
  BY <1>1, SizeAssumption DEF Slots

\* Different items of the window lie in different slots.
LEMMA WrapInjective ==
  ASSUME NEW p \in Slots, NEW i \in 0..(size - 1), NEW j \in 0..(size - 1), i # j
  PROVE  Wrap(p, i) # Wrap(p, j)
<1>1. i \in 0..size /\ j \in 0..size
  BY SizeAssumption
<1>2. Wrap(p, i) = IF p + i < size THEN p + i ELSE p + i - size
  BY <1>1, WrapValue
<1>3. Wrap(p, j) = IF p + j < size THEN p + j ELSE p + j - size
  BY <1>1, WrapValue
<1>4. QED
  BY <1>2, <1>3, SizeAssumption DEF Slots

LEMMA WrapZero ==
  ASSUME NEW p \in Slots
  PROVE  Wrap(p, 0) = p
<1>1. Wrap(p, 0) = IF p + 0 < size THEN p + 0 ELSE p + 0 - size
  BY SizeAssumption, WrapValue
<1>2. QED
  BY <1>1, SizeAssumption DEF Slots

\* Moving the start by one shifts every item of the window by one.
LEMMA WrapShift ==
  ASSUME NEW p \in Slots, NEW i \in 0..(size - 1)
  PROVE  Wrap(Wrap(p, 1), i) = Wrap(p, i + 1)
<1>1. 1 \in 0..size /\ i \in 0..size /\ i + 1 \in 0..size
  BY SizeAssumption
<1>2. /\ Wrap(p, 1) \in Slots
      /\ Wrap(p, 1) = IF p + 1 < size THEN p + 1 ELSE p + 1 - size
  BY <1>1, WrapValue
<1>3. Wrap(p, i + 1) = IF p + (i + 1) < size THEN p + (i + 1) ELSE p + (i + 1) - size
  BY <1>1, WrapValue
<1>4. Wrap(Wrap(p, 1), i) = IF Wrap(p, 1) + i < size THEN Wrap(p, 1) + i
                                                     ELSE Wrap(p, 1) + i - size
  BY <1>1, <1>2, WrapValue
<1>5. QED
  BY <1>2, <1>3, <1>4, SizeAssumption DEF Slots

-----------------------------------------------------------------------------
\* The fields of the ring keep their ranges and the window holds pushed items
\* only, in every reachable state.
THEOREM RingCorrect == Spec => []RingOK
<1>1. Init => RingOK
  BY SizeAssumption DEF Init, RingOK, Slots
<1>2. RingOK /\ [Next]_vars => RingOK'
  <2> SUFFICES ASSUME RingOK, [Next]_vars
               PROVE  RingOK'
    OBVIOUS
  <2> USE DEF RingOK
  <2>a. \A i \in 0..size : At(i) \in Slots
    BY WrapValue DEF At, Wrap
  <2>b. \A i, j \in 0..(size - 1) : i # j => At(i) # At(j)
    BY WrapInjective DEF At, Wrap
  <2>1. ASSUME NEW item \in Item, Push(item)
        PROVE  RingOK'
    <3>1. CASE IsFull
      BY <2>1, <3>1 DEF Push, At
    <3>2. CASE ~IsFull
      <4>1. count \in 0..(size - 1) /\ count' = count + 1 /\ pos' = pos
        BY <2>1, <3>2, SizeAssumption DEF Push, IsFull
      <4>2. items' = [items EXCEPT ![At(count)] = item] /\ At(count) \in Slots
        BY <2>1, <3>2, <2>a, <4>1 DEF Push
      <4>3. ASSUME NEW i \in 0..(count' - 1)
            PROVE  items'[At(i)'] \in Item
        <5>1. i \in 0..(size - 1) /\ At(i)' = At(i) /\ At(i) \in Slots
          BY <4>1, <2>a, SizeAssumption DEF At
        <5>2. CASE i = count
          BY <5>1, <5>2, <4>2
        <5>3. CASE i # count
          BY <5>1, <5>3, <4>1, <4>2, <2>b
        <5>4. QED
          BY <5>2, <5>3
      <4>4. items' \in [Slots -> Item \cup {Zero}] /\ count' \in 0..size /\ pos' \in Slots
        BY <4>1, <4>2, SizeAssumption
      <4>5. QED
        BY <4>3, <4>4
    <3>3. QED
      BY <3>1, <3>2
  <2>2. CASE Pop
    <3>1. CASE count = 0
      BY <2>2, <3>1 DEF Pop, At
    <3>2. CASE count # 0
      <4>1. /\ items' = [items EXCEPT ![pos] = Zero]
            /\ pos' = (pos + 1) % size
            /\ count' = count - 1
        BY <2>2, <3>2 DEF Pop, At
      <4>2. pos' \in Slots /\ count' \in 0..(size - 1)
        BY <4>1, <3>2, <2>a, SizeAssumption DEF At
      <4>3. ASSUME NEW i \in 0..(count' - 1)
            PROVE  items'[At(i)'] \in Item
        <5>1. i \in 0..(size - 1) /\ i + 1 \in 0..(count - 1) /\ i + 1 \in 1..(size - 1)
          BY <4>1, SizeAssumption
        <5>2. At(i)' = At(i + 1)
          BY <4>1, <5>1, WrapShift DEF At, Wrap
        <5>3. At(i + 1) # pos /\ At(i + 1) \in Slots
          <6>1. At(0) = pos
            BY SizeAssumption, WrapZero DEF At, Wrap
          <6>2. At(i + 1) # At(0) /\ At(i + 1) \in Slots
            BY <5>1, <2>a, <2>b, SizeAssumption
          <6>3. QED
            BY <6>1, <6>2
        <5>4. items'[At(i + 1)] = items[At(i + 1)]
          BY <4>1, <5>3
        <5>5. QED
          BY <5>1, <5>2, <5>4
      <4>4. items' \in [Slots -> Item \cup {Zero}] /\ count' \in 0..size
        BY <4>1, <4>2, SizeAssumption
      <4>5. QED
        BY <4>2, <4>3, <4>4
    <3>3. QED
      BY <3>1, <3>2
  <2>3. CASE Peek
    BY <2>3 DEF Peek, At
  <2>4. ASSUME NEW cnt \in 0..count, SetCount(cnt)
        PROVE  RingOK'
    BY <2>4, SizeAssumption DEF SetCount, MinOf, At
  <2>5. ASSUME NEW from \in -1..size, ClearFrom(from)
        PROVE  RingOK'
    <3> DEFINE first == MaxOf(0, from)
    <3>1. first \in 0..size /\ count' = MinOf(count, first) /\ pos' = pos
      BY <2>5, SizeAssumption DEF ClearFrom, MaxOf
    <3>2. count' \in 0..count /\ count' <= first
      BY <3>1, SizeAssumption DEF MinOf
    <3>3. items' = [s \in Slots |->
                      IF \E i \in first..(count - 1) : s = At(i) THEN Zero ELSE items[s]]
      BY <2>5 DEF ClearFrom
    <3>4. ASSUME NEW i \in 0..(count' - 1)
          PROVE  items'[At(i)'] \in Item
      <4>1. i \in 0..(count - 1) /\ i < first /\ i \in 0..(size - 1) /\ At(i)' = At(i)
        BY <3>1, <3>2, SizeAssumption DEF At
      <4>2. \A j \in first..(count - 1) : At(i) # At(j)
        BY <4>1, <3>1, <2>b, SizeAssumption
      <4>3. At(i) \in Slots
        BY <4>1, <2>a, SizeAssumption
      <4>4. QED
        BY <3>3, <4>1, <4>2, <4>3
    <3>5. items' \in [Slots -> Item \cup {Zero}]
      BY <3>3
    <3>6. QED
      BY <3>1, <3>2, <3>4, <3>5, SizeAssumption
  <2>6. ASSUME NEW item \in Item, Find(item)
        PROVE  RingOK'
    BY <2>6 DEF Find, At
  <2>7. CASE UNCHANGED vars
    BY <2>7 DEF vars, At
  <2>8. QED
    BY <2>1, <2>2, <2>3, <2>4, <2>5, <2>6, <2>7 DEF Next
<1>3. QED
  BY <1>1, <1>2, PTL DEF Spec

-----------------------------------------------------------------------------
\* The positions of the window, read as the list ToList.
Window ==
  /\ ToList \in Seq(Item)
  /\ Len(ToList) = count
  /\ \A i \in 1..count : ToList[i] = items[At(i - 1)]

LEMMA WindowIsList == RingOK => Window
<1> SUFFICES ASSUME RingOK
             PROVE  Window
  OBVIOUS
<1>1. count \in Nat
  BY SizeAssumption DEF RingOK
<1>2. \A i \in 1..count : i - 1 \in 0..(count - 1)
  BY <1>1
<1>3. \A i \in 1..count : items[At(i - 1)] \in Item
  BY <1>2 DEF RingOK
<1>4. ToList \in [1..count -> Item]
  BY <1>3 DEF ToList
<1>5. ToList \in Seq(Item) /\ Len(ToList) = count
  BY <1>1, <1>4, IsASeq, LenProperties
<1>6. QED
  BY <1>5 DEF ToList, Window

LEMMA WindowIsListNext == RingOK' => Window'
  BY WindowIsList, PTL

LEMMA PushRefines ==
  ASSUME RingOK, RingOK', NEW item \in Item, Push(item)
  PROVE  Queue!Push(item)
<1>1. CASE IsFull
  <2>1. ToList' = ToList /\ ret' = Refused
    BY <1>1 DEF Push, IsFull, ToList, At, RingOK
  <2>2. Len(ToList) = size
    BY <1>1, WindowIsList DEF IsFull, Window
  <2>3. QED
    BY <2>1, <2>2 DEF Queue!Push, Queue!Refused, Refused
<1>2. CASE ~IsFull
  <2>1. /\ count \in 0..(size - 1)
        /\ count' = count + 1
        /\ pos' = pos
        /\ pos \in Slots
        /\ ret' = Done
        /\ items' = [items EXCEPT ![At(count)] = item]
    BY <1>2, SizeAssumption DEF Push, IsFull, RingOK
  <2>2. /\ ToList \in Seq(Item)
        /\ Len(ToList) = count
        /\ \A i \in 1..count : ToList[i] = items[At(i - 1)]
    BY WindowIsList DEF Window
  <2>3. /\ ToList' \in Seq(Item)
        /\ Len(ToList') = count + 1
        /\ \A i \in 1..(count + 1) : ToList'[i] = items'[At(i - 1)']
    <3>1. /\ ToList' \in Seq(Item)
          /\ Len(ToList') = count'
          /\ \A i \in 1..count' : ToList'[i] = items'[At(i - 1)']
      BY WindowIsListNext DEF Window
    <3>2. QED
      BY <2>1, <3>1
  <2>4. ASSUME NEW i \in 1..(count + 1)
        PROVE  ToList'[i] = Append(ToList, item)[i]
    <3>1. /\ i - 1 \in 0..(size - 1) /\ count \in 0..(size - 1)
          /\ i - 1 \in 0..size /\ count \in 0..size
      BY <2>1, SizeAssumption
    <3>2. At(i - 1)' = At(i - 1) /\ At(i - 1) \in Slots /\ At(count) \in Slots
      BY <2>1, <3>1, WrapValue DEF At, Wrap
    <3>3. CASE i = count + 1
      <4>1. items'[At(i - 1)] = item
        BY <2>1, <3>2, <3>3, SizeAssumption DEF RingOK
      <4>2. Append(ToList, item)[i] = item
        BY <2>2, <3>3, AppendProperties
      <4>3. QED
        BY <2>3, <3>2, <4>1, <4>2
    <3>4. CASE i # count + 1
      <4>1. i \in 1..count /\ i - 1 # count
        BY <2>1, <3>4
      <4>2. At(i - 1) # At(count)
        BY <2>1, <3>1, <4>1, WrapInjective DEF At, Wrap
      <4>3. items'[At(i - 1)] = items[At(i - 1)]
        BY <2>1, <3>2, <4>2 DEF RingOK
      <4>4. Append(ToList, item)[i] = ToList[i]
        BY <2>2, <4>1, AppendProperties
      <4>5. QED
        BY <2>2, <2>3, <3>2, <4>1, <4>3, <4>4
    <3>5. QED
      BY <3>3, <3>4
  <2>5. Append(ToList, item) \in Seq(Item) /\ Len(Append(ToList, item)) = count + 1
    BY <2>1, <2>2, AppendProperties
  <2>6. ToList' = Append(ToList, item)
    BY <2>3, <2>4, <2>5, SeqEqual
  <2>7. Len(ToList) < size
    BY <2>1, <2>2, SizeAssumption
  <2>8. QED
    BY <2>1, <2>6, <2>7 DEF Queue!Push, Queue!Done, Done
<1>3. QED
  BY <1>1, <1>2

LEMMA PopRefines ==
  ASSUME RingOK, RingOK', Pop
  PROVE  Queue!Pop
<1>1. /\ ToList \in Seq(Item)
      /\ Len(ToList) = count
      /\ \A i \in 1..count : ToList[i] = items[At(i - 1)]
  BY WindowIsList DEF Window
<1>2. CASE count = 0
  <2>1. ToList = <<>> /\ ToList' = ToList /\ ret' = Got(Zero)
    BY <1>1, <1>2, EmptySeq DEF Pop, ToList, At
  <2>2. QED
    BY <2>1 DEF Queue!Pop, Queue!Got, Got
<1>3. CASE count # 0
  <2>1. /\ items' = [items EXCEPT ![pos] = Zero]
        /\ pos' = At(1)
        /\ count' = count - 1
        /\ ret' = Got(items[pos])
        /\ count \in 1..size
        /\ pos \in Slots
    BY <1>3, SizeAssumption DEF Pop, RingOK
  <2>2. At(0) = pos
    BY <2>1, WrapZero DEF At, Wrap
  <2>3. ToList # <<>> /\ Head(ToList) = items[pos]
    BY <1>1, <2>1, <2>2, SizeAssumption
  <2>4. /\ ToList' \in Seq(Item)
        /\ Len(ToList') = count'
        /\ \A i \in 1..count' : ToList'[i] = items'[At(i - 1)']
    BY WindowIsListNext DEF Window
  <2>5. ASSUME NEW i \in 1..(count - 1)
        PROVE  ToList'[i] = Tail(ToList)[i]
    <3>1. /\ i - 1 \in 0..(size - 1) /\ i \in 0..(size - 1) /\ i \in 0..size
          /\ 0 \in 0..(size - 1) /\ i + 1 \in 1..count /\ i # 0
          /\ (i - 1) + 1 = i /\ (i + 1) - 1 = i
      BY <2>1, SizeAssumption
    <3>2. At(i - 1)' = At(i)
      <4>1. Wrap(Wrap(pos, 1), i - 1) = Wrap(pos, (i - 1) + 1)
        BY <2>1, <3>1, WrapShift
      <4>2. At(i - 1)' = Wrap(Wrap(pos, 1), i - 1)
        BY <2>1 DEF At, Wrap
      <4>3. QED
        BY <3>1, <4>1, <4>2 DEF At, Wrap
    <3>3. At(i) \in Slots /\ At(i) # pos
      BY <2>1, <2>2, <3>1, WrapValue, WrapInjective DEF At, Wrap
    <3>4. items'[At(i)] = items[At(i)]
      BY <2>1, <3>3 DEF RingOK
    <3>5. Tail(ToList)[i] = ToList[i + 1]
      BY <1>1, <2>1, <2>3, HeadTailProperties
    <3>6. QED
      BY <1>1, <2>1, <2>4, <3>1, <3>2, <3>4, <3>5
  <2>6. Tail(ToList) \in Seq(Item) /\ Len(Tail(ToList)) = count - 1
    BY <1>1, <2>3, HeadTailProperties
  <2>7. ToList' = Tail(ToList)
    BY <2>1, <2>4, <2>5, <2>6, SeqEqual
  <2>8. QED
    BY <2>1, <2>3, <2>7 DEF Queue!Pop, Queue!Got, Got
<1>4. QED
  BY <1>2, <1>3

\* Both ways the indexer cuts the queue keep a prefix of it.
LEMMA PrefixRefines ==
  ASSUME RingOK, RingOK', NEW n \in 0..count,
         count' = n, pos' = pos, ret' = Done,
         \A i \in 0..(n - 1) : items'[At(i)] = items[At(i)]
  PROVE  Queue!Truncate(n) /\ n \in 0..Len(ToList)
<1>1. /\ ToList \in Seq(Item)
      /\ Len(ToList) = count
      /\ \A i \in 1..count : ToList[i] = items[At(i - 1)]
  BY WindowIsList DEF Window
<1>2. /\ ToList' \in Seq(Item)
      /\ Len(ToList') = count'
      /\ \A i \in 1..count' : ToList'[i] = items'[At(i - 1)']
  BY WindowIsListNext DEF Window
<1>3. count \in Nat /\ n \in Nat /\ n <= count
  BY SizeAssumption DEF RingOK
<1>4. /\ SubSeq(ToList, 1, n) \in Seq(Item)
      /\ Len(SubSeq(ToList, 1, n)) = n
      /\ \A i \in 1..n : SubSeq(ToList, 1, n)[i] = ToList[i]
  BY <1>1, <1>3
<1>5. ASSUME NEW i \in 1..n
      PROVE  ToList'[i] = SubSeq(ToList, 1, n)[i]
  <2>1. i - 1 \in 0..(n - 1) /\ i \in 1..count
    BY <1>3
  <2>2. At(i - 1)' = At(i - 1)
    BY DEF At
  <2>3. QED
    BY <1>1, <1>2, <1>4, <2>1, <2>2
<1>6. ToList' = SubSeq(ToList, 1, n)
  BY <1>2, <1>4, <1>5, SeqEqual
<1>7. QED
  BY <1>1, <1>6 DEF Queue!Truncate, Queue!Done, Done

LEMMA FindRefines ==
  ASSUME RingOK, NEW item \in Item, Find(item)
  PROVE  Queue!Find(item)
<1>1. /\ Len(ToList) = count
      /\ \A i \in 1..count : ToList[i] = items[At(i - 1)]
  BY WindowIsList DEF Window
<1>2. count \in Nat
  BY SizeAssumption DEF RingOK
<1>3. ToList' = ToList
  BY DEF Find, ToList, At
<1>4. CASE (\A i \in 0..(count - 1) : items[At(i)] # item) /\ ret' = Index(-1)
  <2>1. \A i \in 1..count : i - 1 \in 0..(count - 1)
    BY <1>2
  <2>2. \A i \in 1..Len(ToList) : ToList[i] # item
    BY <1>1, <1>4, <2>1
  <2>3. QED
    BY <1>3, <1>4, <2>2 DEF Queue!Find, Queue!Index, Index
<1>5. ASSUME NEW i \in 0..(count - 1), items[At(i)] = item,
             \A j \in 0..(i - 1) : items[At(j)] # item, ret' = Index(i)
      PROVE  Queue!Find(item)
  <2>1. i + 1 \in 1..count /\ (i + 1) - 1 = i
    BY <1>2
  <2>2. \A j \in 1..i : j \in 1..count /\ j - 1 \in 0..(i - 1)
    BY <1>2
  <2>3. ToList[i + 1] = item
    BY <1>1, <1>5, <2>1
  <2>4. \A j \in 1..((i + 1) - 1) : ToList[j] # item
    BY <1>1, <1>5, <2>1, <2>2
  <2>5. ret' = Index((i + 1) - 1)
    BY <1>5, <2>1
  <2>6. QED
    BY <1>1, <1>3, <2>1, <2>3, <2>4, <2>5 DEF Queue!Find, Queue!Index, Index
<1>6. QED
  BY <1>4, <1>5 DEF Find

\* Every behaviour of the ring, its items read from the oldest one on, is a
\* behaviour of the bounded list: the indexer may be verified against lists.
THEOREM RingImplementsQueue == Spec => ImplementsQueue
<1>1. Init => Queue!Init
  <2>1. Init => RingOK
    BY SizeAssumption DEF Init, RingOK, Slots
  <2>2. Init => Len(ToList) = 0 /\ ToList \in Seq(Item)
    BY <2>1, WindowIsList DEF Init, Window
  <2>3. QED
    BY <2>2, EmptySeq DEF Init, Queue!Init, Queue!Done, Done
<1>2. RingOK /\ RingOK' /\ [Next]_vars => [Queue!Next]_(Queue!vars)
  <2> SUFFICES ASSUME RingOK, RingOK', [Next]_vars
               PROVE  [Queue!Next]_(Queue!vars)
    OBVIOUS
  <2>1. ASSUME NEW item \in Item, Push(item)
        PROVE  Queue!Next
    BY <2>1, PushRefines DEF Queue!Next
  <2>2. ASSUME NEW item \in Item, Find(item)
        PROVE  Queue!Next
    BY <2>2, FindRefines DEF Queue!Next
  <2>3. CASE Pop
    BY <2>3, PopRefines DEF Queue!Next
  <2>4. CASE Peek
    <3>1. /\ Len(ToList) = count /\ ToList \in Seq(Item)
          /\ \A i \in 1..count : ToList[i] = items[At(i - 1)]
      BY WindowIsList DEF Window
    <3>2. ToList' = ToList
      BY <2>4 DEF Peek, ToList, At
    <3>3. count \in Nat /\ pos \in Slots
      BY SizeAssumption DEF RingOK
    <3>4. CASE count = 0
      <4>1. ToList = <<>>
        BY <3>1, <3>4, EmptySeq
      <4>2. QED
        BY <2>4, <3>2, <3>4, <4>1 DEF Peek, Queue!Next, Queue!Peek, Queue!Got, Got
    <3>5. CASE count # 0
      <4>1. At(0) = pos
        BY <3>3, WrapZero DEF At, Wrap
      <4>2. ToList # <<>> /\ Head(ToList) = items[pos]
        BY <3>1, <3>3, <3>5, <4>1
      <4>3. QED
        BY <2>4, <3>2, <3>5, <4>2 DEF Peek, Queue!Next, Queue!Peek, Queue!Got, Got
    <3>6. QED
      BY <3>4, <3>5
  <2>5. ASSUME NEW cnt \in 0..count, SetCount(cnt)
        PROVE  Queue!Next
    <3>1. /\ count' = cnt /\ pos' = pos /\ ret' = Done /\ items' = items
      BY <2>5, SizeAssumption DEF SetCount, MinOf, RingOK
    <3>2. Queue!Truncate(cnt) /\ cnt \in 0..Len(ToList)
      BY <3>1, PrefixRefines
    <3>3. QED
      BY <3>2 DEF Queue!Next
  <2>6. ASSUME NEW from \in -1..size, ClearFrom(from)
        PROVE  Queue!Next
    <3> DEFINE n == MinOf(count, MaxOf(0, from))
    <3>1. /\ n \in 0..count /\ n <= MaxOf(0, from) /\ MaxOf(0, from) \in 0..size
          /\ count \in 0..size /\ pos \in Slots
      BY SizeAssumption DEF MinOf, MaxOf, RingOK
    <3>2. count' = n /\ pos' = pos /\ ret' = Done
      BY <2>6 DEF ClearFrom
    <3>3. ASSUME NEW i \in 0..(n - 1)
          PROVE  items'[At(i)] = items[At(i)]
      <4>1. /\ i \in 0..(size - 1) /\ i \in 0..size
            /\ \A j \in MaxOf(0, from)..(count - 1) : j \in 0..(size - 1) /\ i # j
        BY <3>1, SizeAssumption
      <4>2. At(i) \in Slots
        BY <3>1, <4>1, WrapValue DEF At, Wrap
      <4>3. \A j \in MaxOf(0, from)..(count - 1) : At(i) # At(j)
        BY <3>1, <4>1, WrapInjective DEF At, Wrap
      <4>4. QED
        BY <2>6, <4>2, <4>3 DEF ClearFrom
    <3>4. Queue!Truncate(n) /\ n \in 0..Len(ToList)
      BY <3>1, <3>2, <3>3, PrefixRefines
    <3>5. QED
      BY <3>4 DEF Queue!Next
  <2>7. CASE UNCHANGED vars
    BY <2>7 DEF vars, Queue!vars, ToList, At
  <2>8. QED
    BY <2>1, <2>2, <2>3, <2>4, <2>5, <2>6, <2>7 DEF Next
<1>3. QED
  BY <1>1, <1>2, RingCorrect, PTL DEF Spec, ImplementsQueue, Queue!Spec
=============================================================================
