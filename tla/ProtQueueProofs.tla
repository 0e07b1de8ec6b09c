-------------------------- MODULE ProtQueueProofs --------------------------
(***************************************************************************)
(* Proofs about ProtQueue for every capacity, every set of items and every *)
(* finite set of consumers: the indices stay in the buffer, the ring is    *)
(* consistent, no wake-up is lost, and the ring implements BoundedFifo.    *)
(***************************************************************************)
EXTENDS ProtQueue, SequenceTheorems, FiniteSetTheorems, TLAPS

\* TypeOK is not inductive: a pop returns items only because the slots in use
\* hold items, and those are the slots between head and tail.
Inv == TypeOK /\ RingOK

-----------------------------------------------------------------------------
(* Arithmetic of the ring *)

\* The capacity is positive.
LEMMA CapacityType == Capacity \in Nat /\ Capacity > 0
  BY QueueAssumption

\* An index that ran over the end by less than a lap wraps to the start; the
\* code never adds more than one lap to an index inside the buffer.
LEMMA WrapIndex ==
    \A c \in Nat \ {0} : \A x \in 0..(2 * c - 1) :
        x % c = IF x < c THEN x ELSE x - c
  OBVIOUS

\* The same for the capacity, with the wrapped index inside the buffer.
LEMMA AtCases ==
    \A x \in 0..(2 * Capacity - 1) :
        /\ x < Capacity => At(x) = x
        /\ x >= Capacity => At(x) = x - Capacity
        /\ At(x) \in Slot
  <1>1. Capacity \in Nat \ {0}
    BY QueueAssumption
  <1>2. \A x \in 0..(2 * Capacity - 1) :
            x % Capacity = IF x < Capacity THEN x ELSE x - Capacity
    BY <1>1, WrapIndex
  <1> QED BY <1>1, <1>2 DEF Slot, At

\* How many elements a pop removes: at least one from a queue that has one,
\* never more than it holds and never past the end of the buffer.
LEMMA ItemsToPopBounds ==
    ASSUME head \in Slot, count \in 1..Capacity, NEW max \in Nat \ {0}
    PROVE  /\ ItemsToPop(max) \in 1..count
           /\ head + ItemsToPop(max) <= Capacity
  BY CapacityType DEF ItemsToPop, Least, Slot

\* The contents form a sequence of items.
LEMMA ContentsType ==
    ASSUME Inv
    PROVE  /\ Contents \in Seq(Item)
           /\ Len(Contents) = count
           /\ count \in Nat
           /\ \A i \in 1..count : Contents[i] = buf[At(head + i - 1)]
  BY CapacityType DEF Inv, TypeOK, RingOK, Contents

-----------------------------------------------------------------------------
(* The effect of each critical section on the ring *)

\* Copying a batch behind the tail, leaving the slots in use alone, appends the
\* batch to the contents.
LEMMA RingAppend ==
    ASSUME Inv, NEW batch \in Seq(Item),
           count + Len(batch) <= Capacity,
           head' = head,
           count' = count + Len(batch),
           \A i \in 1..count : buf'[At(head + i - 1)] = buf[At(head + i - 1)],
           \A i \in 1..Len(batch) : buf'[At(head + count + i - 1)] = batch[i]
    PROVE  Contents' = Contents \o batch /\ Contents' \in Seq(Item)
  <1> DEFINE n == Len(batch)
             cat == Contents \o batch
  <1>0. head \in Nat /\ count \in Nat /\ n \in Nat
    BY CapacityType, LenProperties DEF Inv, TypeOK, Slot
  <1>1. Contents' = [i \in 1..(count + n) |-> buf'[At(head + i - 1)]]
    BY DEF Contents
  <1>2. /\ cat \in Seq(Item)
        /\ Len(cat) = count + n
        /\ \A i \in 1..(count + n) :
              cat[i] = IF i <= count THEN Contents[i] ELSE batch[i - count]
    BY ContentsType, ConcatProperties
  <1> HIDE DEF cat
  <1>3. \A i \in 1..(count + n) : buf'[At(head + i - 1)] = cat[i]
    <2> TAKE i \in 1..(count + n)
    <2>1. CASE i \in 1..count
      <3>1. i <= count
        BY <2>1, <1>0
      <3>2. cat[i] = Contents[i]
        BY <1>2, <3>1
      <3>3. Contents[i] = buf[At(head + i - 1)]
        BY <2>1, ContentsType
      <3> QED BY <2>1, <3>2, <3>3
    <2>2. CASE i \notin 1..count
      <3>1. i - count \in 1..n /\ ~(i <= count)
        BY <2>2, <1>0
      <3>2. head + count + (i - count) - 1 = head + i - 1
        BY <1>0
      <3>3. buf'[At(head + count + (i - count) - 1)] = batch[i - count]
        BY <3>1
      <3> QED BY <1>2, <3>1, <3>2, <3>3
    <2> QED BY <2>1, <2>2
  <1>4. cat = [i \in 1..(count + n) |-> cat[i]]
    BY <1>0, <1>2
  <1>5. Contents' = cat
    BY <1>1, <1>3, <1>4
  <1> QED BY <1>2, <1>5 DEF cat

\* Where the element that is k places behind the tail lives.
LEMMA BehindTail ==
    ASSUME head \in Slot, count \in Nat, tail = At(head + count), NEW k \in Nat,
           count + k < Capacity
    PROVE  At(head + count + k) = IF tail + k < Capacity THEN tail + k
                                                         ELSE tail + k - Capacity
  <1>1. head + count \in 0..(2 * Capacity - 1) /\ head + count + k \in 0..(2 * Capacity - 1)
    BY CapacityType DEF Slot
  <1>2. /\ head + count < Capacity => tail = head + count
        /\ head + count >= Capacity => tail = head + count - Capacity
    BY <1>1, AtCases, CapacityType DEF Slot
  <1>3. /\ head + count + k < Capacity => At(head + count + k) = head + count + k
        /\ head + count + k >= Capacity => At(head + count + k) = head + count + k - Capacity
    BY <1>1, AtCases, CapacityType DEF Slot
  <1> QED BY <1>2, <1>3, CapacityType DEF Slot

\* What every push leaves behind: the batch appended and the ring consistent.
Appended(batch) ==
    /\ buf' \in [Slot -> Item \cup {NoItem}]
    /\ head' = head
    /\ tail' \in Slot
    /\ count' \in 0..Capacity
    /\ tail' = At(head' + count')
    /\ Contents' = Contents \o batch
    /\ Contents' \in Seq(Item)

\* The facts about the ring that the lemmas below start from.
LEMMA RingFacts ==
    ASSUME Inv
    PROVE  /\ buf \in [Slot -> Item \cup {NoItem}]
           /\ head \in Slot /\ tail \in Slot /\ count \in 0..Capacity
           /\ tail = At(head + count)
           /\ head \in Nat /\ tail \in Nat /\ count \in Nat
           /\ head < Capacity /\ tail < Capacity /\ count <= Capacity
  BY CapacityType DEF Inv, TypeOK, RingOK, Slot

\* A slot in use is not among the k slots behind the tail that are still free.
LEMMA InUseNotBehind ==
    ASSUME Inv, NEW i \in 1..count, NEW k \in Nat, count + k < Capacity
    PROVE  /\ At(head + i - 1) \in Slot
           /\ At(head + i - 1) # At(head + count + k)
  <1>1. head + i - 1 \in 0..(2 * Capacity - 1) /\ head + count + k \in 0..(2 * Capacity - 1)
    BY RingFacts, CapacityType
  <1> QED BY <1>1, RingFacts, AtCases, CapacityType

\* The tail after n elements were copied behind it.
LEMMA TailMoves ==
    ASSUME Inv, NEW n \in Nat \ {0}, count + n <= Capacity
    PROVE  At(head + (count + n)) = IF tail + n < Capacity THEN tail + n
                                                           ELSE tail + n - Capacity
  <1>1. head + (count + n) \in 0..(2 * Capacity - 1) /\ head + count \in 0..(2 * Capacity - 1)
    BY RingFacts, CapacityType
  <1>2. /\ head + count < Capacity => tail = head + count
        /\ head + count >= Capacity => tail = head + count - Capacity
    BY <1>1, RingFacts, AtCases, CapacityType
  <1>3. /\ head + (count + n) < Capacity => At(head + (count + n)) = head + (count + n)
        /\ head + (count + n) >= Capacity =>
              At(head + (count + n)) = head + (count + n) - Capacity
    BY <1>1, RingFacts, AtCases, CapacityType
  <1> QED BY <1>2, <1>3, RingFacts, CapacityType

\* A successful push appends its element.
LEMMA PushAppends ==
    ASSUME Inv, NEW d \in Item, Push(d)
    PROVE  Appended(<<d>>)
  <1>1. /\ count < Capacity
        /\ count' = count + 1
        /\ head' = head
        /\ buf' = [buf EXCEPT ![tail] = d]
        /\ tail' = At(tail + 1)
    BY RingFacts, CapacityType DEF Push
  <1>2. <<d>> \in Seq(Item) /\ Len(<<d>>) = 1
    OBVIOUS
  <1>3. \A i \in 1..count : buf'[At(head + i - 1)] = buf[At(head + i - 1)]
    <2> TAKE i \in 1..count
    <2>1. At(head + i - 1) \in Slot /\ At(head + i - 1) # At(head + count + 0)
      BY <1>1, RingFacts, InUseNotBehind, CapacityType
    <2>2. At(head + i - 1) # tail
      <3>1. head + count + 0 = head + count
        BY RingFacts
      <3> QED BY <2>1, <3>1, RingFacts
    <2> QED BY <1>1, <2>1, <2>2, RingFacts
  <1>4. \A i \in 1..1 : buf'[At(head + count + i - 1)] = <<d>>[i]
    <2>1. head + count + 1 - 1 = head + count
      BY RingFacts
    <2>2. buf'[tail] = d
      BY <1>1, RingFacts
    <2> QED BY <2>1, <2>2, RingFacts
  <1>5. Contents' = Contents \o <<d>> /\ Contents' \in Seq(Item)
    <2>1. /\ count + Len(<<d>>) <= Capacity
          /\ count' = count + Len(<<d>>)
          /\ \A i \in 1..Len(<<d>>) : buf'[At(head + count + i - 1)] = <<d>>[i]
      BY <1>1, <1>2, <1>4, RingFacts, CapacityType
    <2> QED BY <1>1, <1>2, <1>3, <2>1, RingAppend
  <1>6. At(tail + 1) \in Slot /\ At(tail + 1) = At(head + (count + 1))
    <2>1. tail + 1 \in 0..(2 * Capacity - 1)
      BY RingFacts, CapacityType
    <2>2. At(tail + 1) = IF tail + 1 < Capacity THEN tail + 1 ELSE tail + 1 - Capacity
      BY <2>1, AtCases, RingFacts, CapacityType
    <2>3. At(head + (count + 1)) = IF tail + 1 < Capacity THEN tail + 1 ELSE tail + 1 - Capacity
      BY <1>1, RingFacts, TailMoves, CapacityType
    <2>4. At(tail + 1) \in Slot
      BY <2>1, AtCases
    <2> QED BY <2>2, <2>3, <2>4
  <1>7. buf' \in [Slot -> Item \cup {NoItem}] /\ count' \in 0..Capacity
    BY <1>1, RingFacts, CapacityType
  <1> QED BY <1>1, <1>5, <1>6, <1>7 DEF Appended

\* A pop takes the oldest n elements, and what it copies is exactly those.
LEMMA RemoveTakes ==
    ASSUME Inv, NEW c \in Consumers, NEW max \in 1..MaxItems, count # 0, Remove(c, max)
    PROVE  /\ ItemsToPop(max) \in 1..count
           /\ buf' = buf
           /\ head' \in Slot
           /\ tail' = tail
           /\ count' \in 0..Capacity
           /\ count' = count - ItemsToPop(max)
           /\ tail' = At(head' + count')
           /\ dest' = [dest EXCEPT ![c] = SubSeq(Contents, 1, ItemsToPop(max))]
           /\ SubSeq(Contents, 1, ItemsToPop(max)) \in Seq(Item)
           /\ Contents' = SubSeq(Contents, ItemsToPop(max) + 1, Len(Contents))
           /\ Contents' \in Seq(Item)
           /\ data' = data
  <1> DEFINE n == ItemsToPop(max)
             front == SubSeq(Contents, 1, n)
             back == SubSeq(Contents, n + 1, Len(Contents))
  <1>0. n \in 1..count /\ head + n <= Capacity
    <2>1. max \in Nat \ {0} /\ count \in 1..Capacity
      BY RingFacts, QueueAssumption, CapacityType
    <2> QED BY <2>1, RingFacts, ItemsToPopBounds
  <1>1. /\ dest' = [dest EXCEPT ![c] = [i \in 1..n |-> buf[head + i - 1]]]
        /\ head' = At(head + n)
        /\ count' = count - n
        /\ buf' = buf
        /\ tail' = tail
        /\ data' = data
    BY DEF Remove
  <1> HIDE DEF n
  <1>2. n \in Nat /\ n >= 1 /\ n <= count
    BY <1>0, RingFacts
  <1>3. /\ head + n < Capacity => head' = head + n
        /\ head + n = Capacity => head' = 0
        /\ head' \in Slot
    <2>1. head + n \in 0..(2 * Capacity - 1)
      BY <1>0, <1>2, RingFacts, CapacityType
    <2> QED BY <1>1, <2>1, AtCases, <1>2, RingFacts, CapacityType, SMTT(40)
  <1>4. \A j \in 1..(count - n) : At(head' + j - 1) = At(head + (n + j) - 1)
    <2> TAKE j \in 1..(count - n)
    <2>1. head + (n + j) - 1 \in 0..(2 * Capacity - 1)
      BY <1>2, RingFacts, CapacityType
    <2>2. head' + j - 1 \in 0..(2 * Capacity - 1)
      BY <1>0, <1>2, <1>3, RingFacts, CapacityType
    <2> QED BY <1>0, <1>2, <1>3, <2>1, <2>2, AtCases, RingFacts, CapacityType
  <1>5. tail' = At(head' + count')
    <2>1. head' + count' \in 0..(2 * Capacity - 1) /\ head + count \in 0..(2 * Capacity - 1)
      BY <1>0, <1>1, <1>2, <1>3, RingFacts, CapacityType
    <2> QED BY <1>0, <1>1, <1>2, <1>3, <2>1, AtCases, RingFacts, CapacityType
  <1>6. /\ back \in Seq(Item)
        /\ Len(back) = count - n
        /\ \A j \in 1..(count - n) : back[j] = Contents[n + j]
    <2>1. \A i \in (n + 1)..count : Contents[i] \in Item
      BY <1>2, ContentsType, ElementOfSeq
    <2>2. /\ SubSeq(Contents, n + 1, count) \in Seq(Item)
          /\ Len(SubSeq(Contents, n + 1, count)) =
                IF n + 1 <= count THEN count - (n + 1) + 1 ELSE 0
          /\ \A i \in 1..(count - (n + 1) + 1) :
                SubSeq(Contents, n + 1, count)[i] = Contents[(n + 1) + i - 1]
      <3>1. n + 1 \in Int /\ count \in Int
        BY <1>2, RingFacts
      <3> QED BY <2>1, <3>1, SubSeqProperties
    <2>3. /\ count - (n + 1) + 1 = count - n
          /\ \A i \in 1..(count - n) : (n + 1) + i - 1 = n + i
      BY <1>2, RingFacts
    <2>4. (IF n + 1 <= count THEN count - (n + 1) + 1 ELSE 0) = count - n
      BY <1>2, RingFacts
    <2> QED BY <2>2, <2>3, <2>4, ContentsType
  <1>7. /\ front \in Seq(Item)
        /\ Len(front) = n
        /\ \A i \in 1..n : front[i] = Contents[i]
    <2>1. \A i \in 1..n : Contents[i] \in Item
      BY <1>2, ContentsType, ElementOfSeq
    <2>2. 1 \in Int /\ n \in Int /\ 1 <= n /\ n - 1 + 1 = n /\ \A i \in 1..n : 1 + i - 1 = i
      BY <1>2
    <2> QED BY <2>1, <2>2, SubSeqProperties
  <1> HIDE DEF front, back
  <1>8. Contents' = back
    <2>1. Contents' = [i \in 1..(count - n) |-> buf[At(head' + i - 1)]]
      BY <1>1 DEF Contents
    <2>2. \A j \in 1..(count - n) : buf[At(head' + j - 1)] = back[j]
      <3> TAKE j \in 1..(count - n)
      <3>1. n + j \in 1..count
        BY <1>2, RingFacts
      <3>2. Contents[n + j] = buf[At(head + (n + j) - 1)]
        BY <3>1, ContentsType
      <3> QED BY <1>4, <1>6, <3>2
    <2>3. back = [i \in 1..(count - n) |-> back[i]]
      BY <1>6
    <2> QED BY <2>1, <2>2, <2>3
  <1>9. [i \in 1..n |-> buf[head + i - 1]] = front
    <2>1. \A i \in 1..n : buf[head + i - 1] = front[i]
      <3> TAKE i \in 1..n
      <3>1. i \in 1..count /\ head + i - 1 \in 0..(2 * Capacity - 1) /\ head + i - 1 < Capacity
        BY <1>0, <1>2, RingFacts, CapacityType
      <3>2. At(head + i - 1) = head + i - 1
        BY <3>1, AtCases
      <3>3. Contents[i] = buf[At(head + i - 1)]
        BY <3>1, ContentsType
      <3> QED BY <1>7, <3>2, <3>3
    <2>2. front = [i \in 1..n |-> front[i]]
      BY <1>7
    <2> QED BY <2>1, <2>2
  <1>10. count' \in 0..Capacity
    BY <1>1, <1>2, RingFacts, CapacityType
  <1> QED BY <1>0, <1>1, <1>3, <1>5, <1>6, <1>7, <1>8, <1>9, <1>10 DEF n, front, back

\* A batch is copied in up to two pieces and appended whole.
LEMMA PushAllAppends ==
    ASSUME Inv, NEW n \in Nat \ {0}, NEW batch \in [1..n -> Item], PushAll(batch)
    PROVE  Appended(batch)
  <1> DEFINE first == Least(n, Capacity - tail)
             mid == At(tail + first)
             rest == n - first
  <1>0. batch \in Seq(Item) /\ Len(batch) = n
    OBVIOUS
  <1>1. /\ count + n <= Capacity
        /\ buf' = [i \in Slot |->
                      IF i \in tail..(tail + first - 1) THEN batch[i - tail + 1]
                      ELSE IF i \in mid..(mid + rest - 1)
                           THEN batch[first + (i - mid) + 1]
                           ELSE buf[i]]
        /\ tail' = At(mid + rest)
        /\ count' = count + n
        /\ head' = head
    BY <1>0 DEF PushAll
  <1>11. count + n <= Capacity /\ n \in Nat /\ n > 0
    BY <1>1
  <1>2. /\ first \in Nat /\ rest \in Nat /\ first + rest = n
        /\ tail + first <= Capacity
        /\ rest # 0 => tail + first = Capacity
        /\ rest <= tail
    BY RingFacts, CapacityType, <1>11 DEF Least
  <1> HIDE DEF first, rest
  <1>3. /\ tail + first < Capacity => mid = tail + first
        /\ tail + first = Capacity => mid = 0
        /\ mid \in Slot
    <2>1. tail + first \in 0..(2 * Capacity - 1)
      BY <1>2, RingFacts, CapacityType
    <2> QED BY <1>2, <2>1, AtCases, RingFacts, CapacityType
  <1> HIDE DEF mid
  <1>4. tail' \in Slot /\ tail' = At(head + (count + n))
    <2>1. mid + rest \in 0..(2 * Capacity - 1) /\ mid + rest < Capacity
      BY <1>2, <1>3, RingFacts, CapacityType DEF Slot
    <2>2. tail' = mid + rest /\ tail' \in Slot
      BY <1>1, <2>1, AtCases
    <2>3. At(head + (count + n)) = IF tail + n < Capacity THEN tail + n
                                                          ELSE tail + n - Capacity
      BY <1>1, TailMoves
    <2>4. mid + rest = IF tail + n < Capacity THEN tail + n ELSE tail + n - Capacity
      BY <1>11, <1>2, <1>3, RingFacts, CapacityType, SMTT(40) DEF Slot
    <2> QED BY <2>2, <2>3, <2>4
  <1>5. buf' \in [Slot -> Item \cup {NoItem}]
    <2> SUFFICES ASSUME NEW i \in Slot PROVE buf'[i] \in Item \cup {NoItem}
      BY <1>1
    <2>1. CASE i \in tail..(tail + first - 1)
      <3>1. i - tail + 1 \in 1..n
        BY <2>1, <1>2, RingFacts
      <3> QED BY <1>1, <2>1, <3>1
    <2>2. CASE i \notin tail..(tail + first - 1) /\ i \in mid..(mid + rest - 1)
      <3>1. first + (i - mid) + 1 \in 1..n
        BY <2>2, <1>2, <1>3, CapacityType DEF Slot
      <3> QED BY <1>1, <2>2, <3>1
    <2>3. CASE i \notin tail..(tail + first - 1) /\ i \notin mid..(mid + rest - 1)
      BY <1>1, <2>3, RingFacts
    <2> QED BY <2>1, <2>2, <2>3
  <1>6. \A i \in 1..count : buf'[At(head + i - 1)] = buf[At(head + i - 1)]
    <2> SUFFICES ASSUME NEW i \in 1..count
                 PROVE  buf'[At(head + i - 1)] = buf[At(head + i - 1)]
      OBVIOUS
    <2> DEFINE s == At(head + i - 1)
    <2>1. s \in Slot /\ \A k \in 0..(n - 1) : s # At(head + count + k)
      <3>1. count + 0 < Capacity
        BY <1>11, RingFacts, CapacityType
      <3>2. \A k \in 0..(n - 1) : k \in Nat /\ count + k < Capacity
        BY <1>1, RingFacts, CapacityType
      <3> QED BY <3>1, <3>2, InUseNotBehind
    <2>2. \A k \in 0..(n - 1) : At(head + count + k) = IF tail + k < Capacity
                                                       THEN tail + k
                                                       ELSE tail + k - Capacity
      <3>1. \A k \in 0..(n - 1) : k \in Nat /\ count + k < Capacity
        BY <1>1, RingFacts, CapacityType
      <3> QED BY <3>1, BehindTail, RingFacts
    <2> HIDE DEF s
    <2>3. s \notin tail..(tail + first - 1)
      <3> SUFFICES ASSUME s \in tail..(tail + first - 1) PROVE FALSE
        OBVIOUS
      <3>1. s - tail \in 0..(n - 1) /\ tail + (s - tail) = s /\ s < Capacity
        BY <1>2, RingFacts, <2>1, CapacityType, SMTT(40) DEF Slot
      <3> QED BY <2>1, <2>2, <3>1
    <2>4. s \notin mid..(mid + rest - 1)
      <3> SUFFICES ASSUME s \in mid..(mid + rest - 1) PROVE FALSE
        OBVIOUS
      <3>1. rest # 0 /\ mid = 0 /\ tail + first = Capacity
        BY <1>2, <1>3, RingFacts, CapacityType DEF Slot
      <3>2. /\ first + s \in 0..(n - 1)
            /\ ~(tail + (first + s) < Capacity)
            /\ tail + (first + s) - Capacity = s
        BY <3>1, <1>2, RingFacts, CapacityType, SMTT(40)
      <3> QED BY <2>1, <2>2, <3>2
    <2>5. buf'[s] = buf[s]
      BY <1>1, <2>1, <2>3, <2>4
    <2> QED BY <2>5 DEF s
  <1>7. \A i \in 1..n : buf'[At(head + count + i - 1)] = batch[i]
    <2> SUFFICES ASSUME NEW i \in 1..n
                 PROVE  buf'[At(head + count + i - 1)] = batch[i]
      OBVIOUS
    <2>1. At(head + count + (i - 1)) = IF tail + (i - 1) < Capacity
                                       THEN tail + (i - 1)
                                       ELSE tail + (i - 1) - Capacity
      <3>1. i - 1 \in Nat /\ count + (i - 1) < Capacity
        BY <1>1, RingFacts, CapacityType
      <3> QED BY <3>1, BehindTail, RingFacts
    <2>2. head + count + (i - 1) = head + count + i - 1
      BY RingFacts
    <2>3. CASE tail + (i - 1) < Capacity
      <3>1. /\ tail + (i - 1) \in tail..(tail + first - 1)
            /\ tail + (i - 1) \in Slot
            /\ (tail + (i - 1)) - tail + 1 = i
        BY <2>3, <1>2, RingFacts, CapacityType, SMTT(40) DEF Slot
      <3>2. buf'[tail + (i - 1)] = batch[(tail + (i - 1)) - tail + 1]
        BY <3>1, <1>1
      <3> QED BY <2>1, <2>2, <2>3, <3>1, <3>2
    <2>4. CASE ~(tail + (i - 1) < Capacity)
      <3> DEFINE s == tail + (i - 1) - Capacity
      <3>1. rest # 0 /\ mid = 0 /\ tail + first = Capacity
        BY <2>4, <1>2, <1>3, RingFacts, CapacityType
      <3>2. /\ s \in mid..(mid + rest - 1)
            /\ s \notin tail..(tail + first - 1)
            /\ s \in Slot
            /\ first + (s - mid) + 1 = i
        <4>1. s \in Nat /\ s < rest /\ s < tail /\ first + s + 1 = i
          BY <2>4, <3>1, <1>11, <1>2, RingFacts, CapacityType, SMTT(40)
        <4> HIDE DEF s
        <4> QED BY <4>1, <3>1, <1>2, RingFacts, CapacityType DEF Slot
      <3> HIDE DEF s
      <3>3. buf'[s] = batch[first + (s - mid) + 1]
        BY <3>2, <1>1
      <3>4. buf'[s] = batch[i]
        BY <3>2, <3>3
      <3>5. At(head + count + i - 1) = s
        BY <2>1, <2>2, <2>4 DEF s
      <3> QED BY <3>4, <3>5
    <2> QED BY <2>3, <2>4
  <1>8. Contents' = Contents \o batch /\ Contents' \in Seq(Item)
    BY <1>0, <1>1, <1>6, <1>7, RingAppend
  <1>9. count' \in 0..Capacity
    BY <1>1, RingFacts, CapacityType
  <1> QED BY <1>1, <1>4, <1>5, <1>8, <1>9 DEF Appended

-----------------------------------------------------------------------------
(* The ring is consistent *)

\* A ring with a consistent tail whose contents are items satisfies RingOK.
LEMMA RingOKPrimed ==
    ASSUME count' \in Nat, tail' = At(head' + count'), Contents' \in Seq(Item)
    PROVE  RingOK'
  <1>1. Len(Contents') = count' /\ Contents' = [i \in 1..count' |-> buf'[At(head' + i - 1)]]
    BY DEF Contents
  <1>2. \A i \in 1..count' : Contents'[i] \in Item
    BY <1>1, ElementOfSeq
  <1> QED BY <1>2 DEF RingOK

\* The effect of a signal on the calls of the consumers.
LEMMA SignalType ==
    ASSUME call \in [Consumers -> {"idle", "waiting", "woken"}], Signal
    PROVE  call' \in [Consumers -> {"idle", "waiting", "woken"}]
  BY DEF Signal, Waiting

\* The invariant holds in an empty queue.
LEMMA InitInv == Init => Inv
  <1> SUFFICES ASSUME Init PROVE Inv
    OBVIOUS
  <1>1. 0 \in Slot /\ 1 \in 1..MaxItems
    BY QueueAssumption DEF Slot
  <1>2. TypeOK
    BY <1>1, CapacityType DEF Init, TypeOK
  <1>3. At(0 + 0) = 0
    BY AtCases, CapacityType
  <1>4. RingOK
    BY <1>3 DEF Init, RingOK
  <1> QED BY <1>2, <1>4 DEF Inv

\* An appended batch keeps the invariant.
LEMMA AppendedInv ==
    ASSUME Inv, NEW batch \in Seq(Item), Appended(batch), Signal,
           UNCHANGED <<want, dest>>, data' = batch
    PROVE  Inv'
  <1>1. RingOK'
    BY RingOKPrimed, CapacityType DEF Appended
  <1>2. TypeOK'
    BY SignalType DEF Appended, Inv, TypeOK
  <1> QED BY <1>1, <1>2 DEF Inv

\* A pop keeps the invariant, whatever it does to the state of its call.
LEMMA RemoveInv ==
    ASSUME Inv, NEW c \in Consumers, NEW max \in 1..MaxItems, count # 0, Remove(c, max),
           call' \in [Consumers -> {"idle", "waiting", "woken"}], want' = want
    PROVE  Inv'
  <1>1. RingOK'
    BY RemoveTakes, RingOKPrimed, CapacityType
  <1>2. dest' \in [Consumers -> Seq(Item)]
    BY RemoveTakes DEF Inv, TypeOK
  <1>3. TypeOK'
    BY <1>2, RemoveTakes DEF Inv, TypeOK
  <1> QED BY <1>1, <1>3 DEF Inv

\* A step that leaves the ring alone keeps it consistent.
LEMMA RingUnchanged ==
    ASSUME Inv, UNCHANGED <<buf, head, tail, count>>
    PROVE  RingOK' /\ Contents' = Contents
  BY DEF Inv, RingOK, Contents

\* The blocking pop: the loop test and what follows it.
LEMMA PopOrWaitInv ==
    ASSUME Inv, NEW c \in Consumers, NEW max \in 1..MaxItems, PopOrWait(c, max)
    PROVE  Inv'
  <1>1. CASE count = 0 /\ call' = [call EXCEPT ![c] = "waiting"]
             /\ want' = [want EXCEPT ![c] = max]
             /\ UNCHANGED <<buf, head, tail, count, dest, data>>
    <2>1. TypeOK'
      BY <1>1 DEF Inv, TypeOK
    <2> QED BY <1>1, <2>1, RingUnchanged DEF Inv
  <1>2. CASE count # 0 /\ call' = [call EXCEPT ![c] = "idle"] /\ Remove(c, max)
             /\ UNCHANGED want
    <2>1. call' \in [Consumers -> {"idle", "waiting", "woken"}]
      BY <1>2 DEF Inv, TypeOK
    <2> QED BY <1>2, <2>1, RemoveInv
  <1> QED BY <1>1, <1>2 DEF PopOrWait

\* Every step keeps the invariant.
LEMMA NextInv == Inv /\ [Next]_vars => Inv'
  <1> SUFFICES ASSUME Inv, [Next]_vars PROVE Inv'
    OBVIOUS
  <1>1. ASSUME NEW d \in Item, Push(d) PROVE Inv'
    <2>1. Signal /\ UNCHANGED <<want, dest>> /\ data' = <<d>> /\ <<d>> \in Seq(Item)
      BY <1>1 DEF Push
    <2> QED BY <1>1, <2>1, PushAppends, AppendedInv
  <1>2. ASSUME NEW n \in PushSizes, NEW batch \in [1..n -> Item], PushAll(batch) PROVE Inv'
    <2>1. n \in Nat \ {0}
      BY QueueAssumption
    <2>2. Signal /\ UNCHANGED <<want, dest>> /\ data' = batch
      BY <1>2 DEF PushAll
    <2>3. batch \in Seq(Item)
      BY <2>1
    <2> QED BY <1>2, <2>1, <2>2, <2>3, PushAllAppends, AppendedInv
  <1>3. ASSUME NEW c \in Consumers, NEW max \in 1..MaxItems, TryPopAll(c, max) PROVE Inv'
    <2>1. count # 0 /\ Remove(c, max) /\ call' = call /\ want' = want
      BY <1>3 DEF TryPopAll
    <2>2. call' \in [Consumers -> {"idle", "waiting", "woken"}]
      BY <2>1 DEF Inv, TypeOK
    <2> QED BY <2>1, <2>2, RemoveInv
  <1>4. ASSUME NEW c \in Consumers, NEW max \in 1..MaxItems, PopAll(c, max) PROVE Inv'
    BY <1>4, PopOrWaitInv DEF PopAll
  <1>5. ASSUME NEW c \in Consumers, Resume(c) PROVE Inv'
    <2>1. want[c] \in 1..MaxItems
      BY DEF Inv, TypeOK
    <2> QED BY <1>5, <2>1, PopOrWaitInv DEF Resume
  <1>6. ASSUME NEW c \in Consumers, SpuriousWakeup(c) PROVE Inv'
    <2>1. TypeOK'
      BY <1>6 DEF SpuriousWakeup, Inv, TypeOK
    <2> QED BY <1>6, <2>1, RingUnchanged DEF SpuriousWakeup, Inv
  <1>7. CASE UNCHANGED vars
    <2>1. TypeOK'
      BY <1>7 DEF vars, Inv, TypeOK
    <2> QED BY <1>7, <2>1, RingUnchanged DEF vars, Inv
  <1> QED BY <1>1, <1>2, <1>3, <1>4, <1>5, <1>6, <1>7 DEF Next

\* The invariant holds throughout.
LEMMA SpecInv == Spec => []Inv
  BY InitInv, NextInv, PTL DEF Spec

\* The indices of protected_queue.h never leave the buffer, the count never
\* exceeds the capacity, and a pop hands out pushed elements only.
THEOREM TypeCorrect == Spec => []TypeOK
  <1>1. Inv => TypeOK
    BY DEF Inv
  <1> QED BY <1>1, SpecInv, PTL

\* Head, tail and count stay consistent through every wrap-around, and the
\* slots between them hold pushed elements.
THEOREM RingConsistent == Spec => []RingOK
  <1>1. Inv => RingOK
    BY DEF Inv
  <1> QED BY <1>1, SpecInv, PTL

-----------------------------------------------------------------------------
(* No lost wake-up *)

\* The inductive form: while anybody sleeps, woken consumers cover the elements.
WInv == Inv /\ WakeupsCoverCount

\* Finitely many consumers are awake.
LEMMA WokenFinite == IsFiniteSet(Woken) /\ Cardinality(Woken) \in Nat
  <1>1. Woken \in SUBSET Consumers
    BY DEF Woken
  <1> QED BY <1>1, QueueAssumption, FS_Subset, FS_CardinalityType

\* One more woken consumer is one more in the count of woken consumers.
LEMMA WakeOne ==
    ASSUME Inv, NEW c \in Waiting, call' = [call EXCEPT ![c] = "woken"]
    PROVE  /\ Waiting' = Waiting \ {c}
           /\ Cardinality(Woken') = Cardinality(Woken) + 1
  <1>1. c \in Consumers /\ c \notin Woken
    BY DEF Waiting, Woken
  <1>2. Woken' = Woken \cup {c} /\ Waiting' = Waiting \ {c}
    BY <1>1 DEF Inv, TypeOK, Waiting, Woken
  <1> QED BY <1>1, <1>2, WokenFinite, FS_AddElement

\* A batch is one element, or there is nobody else to wake.
LEMMA PushCovers ==
    ASSUME WInv, NEW n \in Nat, count' = count + n, Signal,
           n = 1 \/ \E c \in Consumers : Consumers = {c}
    PROVE  WakeupsCoverCount'
  <1>1. CASE Waiting = {} /\ call' = call
    BY <1>1 DEF WakeupsCoverCount, Waiting
  <1>2. ASSUME NEW c \in Waiting, call' = [call EXCEPT ![c] = "woken"]
        PROVE  WakeupsCoverCount'
    <2>1. /\ Waiting' = Waiting \ {c}
          /\ Cardinality(Woken') = Cardinality(Woken) + 1
      BY <1>2, WakeOne DEF WInv
    <2>2. CASE n = 1
      <3>1. Cardinality(Woken) >= count
        BY DEF WInv, WakeupsCoverCount
      <3> QED BY <2>1, <2>2, <3>1, WokenFinite, RingFacts DEF WakeupsCoverCount, WInv
    <2>3. CASE \E e \in Consumers : Consumers = {e}
      <3>1. Waiting' = {}
        BY <2>1, <2>3 DEF Waiting
      <3> QED BY <3>1 DEF WakeupsCoverCount
    <2> QED BY <2>2, <2>3
  <1> QED BY <1>1, <1>2 DEF Signal

\* Fewer elements and the same sleepers: the woken still cover them.
LEMMA FewerCovered ==
    ASSUME WInv, count' \in Nat, count' <= count, call' = call
    PROVE  WakeupsCoverCount'
  BY WokenFinite, RingFacts DEF WInv, WakeupsCoverCount, Waiting, Woken

\* A consumer goes to sleep only on an empty queue; a woken one that pops takes
\* at least one element with it.
LEMMA PopOrWaitCovers ==
    ASSUME WInv, NEW c \in Consumers, NEW max \in 1..MaxItems, PopOrWait(c, max),
           call[c] # "waiting"
    PROVE  WakeupsCoverCount'
  <1>0. Inv
    BY DEF WInv
  <1>1. CASE count = 0 /\ count' = count
    <2>1. IsFiniteSet(Woken')
      <3>1. Woken' \in SUBSET Consumers
        BY DEF Woken
      <3> QED BY <3>1, QueueAssumption, FS_Subset
    <2>2. Cardinality(Woken') \in Nat
      BY <2>1, FS_CardinalityType
    <2> QED BY <1>1, <2>2 DEF WakeupsCoverCount
  <1>2. CASE count # 0 /\ call' = [call EXCEPT ![c] = "idle"] /\ Remove(c, max)
    <2>1. count' \in Nat /\ count' < count
      BY <1>0, <1>2, RemoveTakes, RingFacts
    <2>2. CASE call[c] = "idle"
      <3>1. call' = call
        BY <1>0, <1>2, <2>2 DEF Inv, TypeOK
      <3> QED BY <2>1, <3>1, FewerCovered, <1>0, RingFacts
    <2>3. CASE call[c] = "woken"
      <3>1. Woken' = Woken \ {c} /\ c \in Woken /\ Waiting' = Waiting
        BY <1>0, <1>2, <2>3 DEF Inv, TypeOK, Woken, Waiting
      <3>2. Cardinality(Woken') = Cardinality(Woken) - 1
        BY <3>1, WokenFinite, FS_RemoveElement
      <3> QED BY <1>0, <2>1, <3>1, <3>2, WokenFinite, RingFacts DEF WInv, WakeupsCoverCount
    <2> QED BY <1>0, <2>2, <2>3 DEF Inv, TypeOK
  <1> QED BY <1>1, <1>2 DEF PopOrWait

\* Every step keeps as many consumers awake as there are elements while somebody sleeps.
LEMMA NextCovers == WInv /\ [Next]_vars => WakeupsCoverCount'
  <1> SUFFICES ASSUME WInv, [Next]_vars PROVE WakeupsCoverCount'
    OBVIOUS
  <1>0. Inv
    BY DEF WInv
  <1>1. ASSUME NEW d \in Item, Push(d) PROVE WakeupsCoverCount'
    BY <1>1, PushCovers DEF Push
  <1>2. ASSUME NEW n \in PushSizes, NEW batch \in [1..n -> Item], PushAll(batch)
        PROVE  WakeupsCoverCount'
    <2>1. n \in Nat /\ (n = 1 \/ \E c \in Consumers : Consumers = {c})
      BY QueueAssumption
    <2>2. Len(batch) = n
      BY <2>1
    <2>3. count' = count + n /\ Signal
      BY <1>2, <2>2 DEF PushAll
    <2> QED BY <2>1, <2>3, PushCovers
  <1>3. ASSUME NEW c \in Consumers, NEW max \in 1..MaxItems, TryPopAll(c, max)
        PROVE  WakeupsCoverCount'
    <2>1. count # 0 /\ Remove(c, max) /\ call' = call
      BY <1>3 DEF TryPopAll
    <2>2. count' \in Nat /\ count' <= count
      BY <1>0, <2>1, RemoveTakes, RingFacts
    <2> QED BY <2>1, <2>2, FewerCovered
  <1>4. ASSUME NEW c \in Consumers, NEW max \in 1..MaxItems, PopAll(c, max)
        PROVE  WakeupsCoverCount'
    BY <1>4, PopOrWaitCovers DEF PopAll
  <1>5. ASSUME NEW c \in Consumers, Resume(c) PROVE WakeupsCoverCount'
    <2>1. want[c] \in 1..MaxItems
      BY <1>0 DEF Inv, TypeOK
    <2> QED BY <1>5, <2>1, PopOrWaitCovers DEF Resume
  <1>6. ASSUME NEW c \in Consumers, SpuriousWakeup(c) PROVE WakeupsCoverCount'
    <2>1. c \in Waiting /\ call' = [call EXCEPT ![c] = "woken"] /\ count' = count
      BY <1>6 DEF SpuriousWakeup, Waiting
    <2>2. Waiting # {} /\ Cardinality(Woken') = Cardinality(Woken) + 1
      BY <1>0, <2>1, WakeOne
    <2> QED BY <1>0, <2>1, <2>2, WokenFinite, RingFacts DEF WInv, WakeupsCoverCount
  <1>7. CASE UNCHANGED vars
    BY <1>0, <1>7, FewerCovered, RingFacts DEF vars
  <1> QED BY <1>1, <1>2, <1>3, <1>4, <1>5, <1>6, <1>7 DEF Next

\* A consumer asleep in pthread_cond_wait on a queue that holds elements always
\* has a woken colleague: the single signal of a push is never lost, for every
\* number of consumers and in spite of spurious wake-ups and stolen elements.
THEOREM WakeupsSafe == Spec => []NoLostWakeup
  <1>1. Init => WInv
    <2>1. Init => WakeupsCoverCount
      BY DEF Init, WakeupsCoverCount, Waiting
    <2> QED BY <2>1, InitInv DEF WInv
  <1>2. WInv /\ [Next]_vars => WInv'
    BY NextInv, NextCovers DEF WInv
  <1>3. WInv => NoLostWakeup
    <2> SUFFICES ASSUME WInv, Waiting # {}, count > 0, Woken = {} PROVE FALSE
      BY DEF NoLostWakeup
    <2>1. Cardinality(Woken) = 0
      BY FS_EmptySet
    <2> QED BY <2>1, RingFacts DEF WInv, WakeupsCoverCount
  <1> QED BY <1>1, <1>2, <1>3, PTL DEF Spec

-----------------------------------------------------------------------------
(* The ring implements the bounded queue *)

\* An appended batch is a Put of the abstract queue.
LEMMA AppendedIsPut ==
    ASSUME Inv, NEW n \in Nat \ {0}, NEW batch \in [1..n -> Item], Appended(batch),
           count + n <= Capacity, dest' = dest, data' = batch
    PROVE  Fifo!FifoNext
  <1>1. Fifo!Put(batch)
    BY DEF Appended, Fifo!Put
  <1>2. Len(Contents) = count /\ n \in 1..(Capacity - count)
    BY ContentsType, CapacityType
  <1> QED BY <1>1, <1>2 DEF Fifo!FifoNext

\* A removal is a Take of the abstract queue.
LEMMA RemoveIsTake ==
    ASSUME Inv, NEW c \in Consumers, NEW max \in 1..MaxItems, count # 0, Remove(c, max)
    PROVE  Fifo!FifoNext
  <1>1. Fifo!Take(c, ItemsToPop(max))
    BY RemoveTakes DEF Fifo!Take
  <1>2. ItemsToPop(max) \in 1..Len(Contents)
    BY RemoveTakes, ContentsType
  <1> QED BY <1>1, <1>2 DEF Fifo!FifoNext

\* A pop that takes elements or goes to sleep is a pop of the FIFO queue or a stutter.
LEMMA PopOrWaitSimulates ==
    ASSUME Inv, NEW c \in Consumers, NEW max \in 1..MaxItems, PopOrWait(c, max)
    PROVE  [Fifo!FifoNext]_(Fifo!fifoVars)
  <1>1. CASE UNCHANGED <<buf, head, tail, count, dest, data>>
    BY <1>1, RingUnchanged DEF Fifo!fifoVars
  <1>2. CASE count # 0 /\ Remove(c, max)
    BY <1>2, RemoveIsTake
  <1> QED BY <1>1, <1>2 DEF PopOrWait

\* Every step is a step of the FIFO queue or a stutter.
LEMMA NextSimulates == Inv /\ [Next]_vars => [Fifo!FifoNext]_(Fifo!fifoVars)
  <1> SUFFICES ASSUME Inv, [Next]_vars PROVE [Fifo!FifoNext]_(Fifo!fifoVars)
    OBVIOUS
  <1>1. ASSUME NEW d \in Item, Push(d) PROVE [Fifo!FifoNext]_(Fifo!fifoVars)
    <2>1. Appended(<<d>>)
      BY <1>1, PushAppends
    <2>2. count # Capacity /\ dest' = dest /\ data' = <<d>>
      BY <1>1 DEF Push
    <2>3. count + 1 <= Capacity
      BY <2>2, RingFacts, CapacityType
    <2>4. <<d>> \in [1..1 -> Item] /\ 1 \in Nat \ {0}
      OBVIOUS
    <2>5. Fifo!FifoNext
      BY <2>1, <2>2, <2>3, <2>4, AppendedIsPut
    <2> QED BY <2>5
  <1>2. ASSUME NEW n \in PushSizes, NEW batch \in [1..n -> Item], PushAll(batch)
        PROVE  [Fifo!FifoNext]_(Fifo!fifoVars)
    <2>1. n \in Nat \ {0}
      BY QueueAssumption
    <2>2. Len(batch) = n
      BY <2>1
    <2>3. count + n <= Capacity /\ dest' = dest /\ data' = batch
      BY <1>2, <2>2 DEF PushAll
    <2> QED BY <1>2, <2>1, <2>3, PushAllAppends, AppendedIsPut
  <1>3. ASSUME NEW c \in Consumers, NEW max \in 1..MaxItems, TryPopAll(c, max)
        PROVE  [Fifo!FifoNext]_(Fifo!fifoVars)
    BY <1>3, RemoveIsTake DEF TryPopAll
  <1>4. ASSUME NEW c \in Consumers, NEW max \in 1..MaxItems, PopAll(c, max)
        PROVE  [Fifo!FifoNext]_(Fifo!fifoVars)
    BY <1>4, PopOrWaitSimulates DEF PopAll
  <1>5. ASSUME NEW c \in Consumers, Resume(c) PROVE [Fifo!FifoNext]_(Fifo!fifoVars)
    <2>1. want[c] \in 1..MaxItems
      BY DEF Inv, TypeOK
    <2> QED BY <1>5, <2>1, PopOrWaitSimulates DEF Resume
  <1>6. ASSUME NEW c \in Consumers, SpuriousWakeup(c)
        PROVE  [Fifo!FifoNext]_(Fifo!fifoVars)
    BY <1>6, RingUnchanged DEF SpuriousWakeup, Fifo!fifoVars
  <1>7. CASE UNCHANGED vars
    BY <1>7, RingUnchanged DEF vars, Fifo!fifoVars
  <1> QED BY <1>1, <1>2, <1>3, <1>4, <1>5, <1>6, <1>7 DEF Next

\* The ring buffer is a bounded first-in first-out queue: a push appends exactly
\* its elements or is refused, a pop hands the oldest elements to one consumer,
\* and nothing else changes the contents.
THEOREM QueueImplementsFifo == Spec => ImplementsFifo
  <1>1. Init => Fifo!FifoInit
    BY DEF Init, Contents, Fifo!FifoInit
  <1> QED BY <1>1, SpecInv, NextSimulates, PTL DEF Spec, ImplementsFifo, Fifo!FifoSpec
=============================================================================
