---------------------------- MODULE QueueLemmas ----------------------------
(***************************************************************************)
(* What the functions of the ring buffer do, for every length of the array *)
(* and every well-formed queue, and those of the priority queue, for every *)
(* number of priorities and every consistent queue.                        *)
(*                                                                         *)
(* The arguments on the ring are about how far a slot lies behind the      *)
(* oldest entry (Distance): the window is the set of slots with a distance *)
(* below the element count, a push fills the slot at distance count, and a *)
(* removal shifts the slots at the distances 1 .. position.                *)
(***************************************************************************)
EXTENDS PriorityQueue, ListLemmas

Distance(q, i) == IF i >= q.first THEN i - q.first
                                  ELSE i - q.first + SubQueueCount

Pred(i) == IF i = 0 THEN SubQueueCountSmall ELSE i - 1

\* A queue in a state the functions leave it in.
GoodQueue(q) == q \in Queue /\ RingShape(q) /\ WindowFilled(q)

\* The slot of an entry, without the MOD of the code.
LEMMA SlotIndex ==
  ASSUME NEW q, q.first \in Slots, NEW k \in 0 .. SubQueueCount
  PROVE  /\ SlotAt(q, k) = IF k + q.first < SubQueueCount
                             THEN k + q.first ELSE k + q.first - SubQueueCount
         /\ SlotAt(q, k) \in Slots
<1>1. k + q.first \in 0 .. 2 * SubQueueCount - 1
  BY SubQueueCountAssumption DEF Slots, SubQueueCountSmall
<1>2. ASSUME NEW n \in 0 .. 2 * SubQueueCount - 1
      PROVE  n % SubQueueCount = IF n < SubQueueCount THEN n
                                                      ELSE n - SubQueueCount
  BY SubQueueCountAssumption
<1> QED
  BY <1>1, <1>2, SubQueueCountAssumption DEF SlotAt, Slots, SubQueueCountSmall

\* Distance is the way back from a slot to its entry.
LEMMA SlotOfDistance ==
  ASSUME NEW q, q.first \in Slots, NEW i \in Slots
  PROVE  Distance(q, i) \in Slots /\ SlotAt(q, Distance(q, i)) = i
<1>1. Distance(q, i) \in Slots
  BY SubQueueCountAssumption DEF Distance, Slots, SubQueueCountSmall
<1> QED
  BY <1>1, SlotIndex, SubQueueCountAssumption
     DEF Distance, Slots, SubQueueCountSmall

\* A slot is in the window iff it is less than count places behind the oldest.
LEMMA WindowTest ==
  ASSUME NEW q \in Queue, q.first \in Slots, NEW i \in Slots
  PROVE  /\ Distance(q, i) \in Slots
         /\ InWindow(q, i) <=> Distance(q, i) < q.count
<1>1. Distance(q, i) \in Slots
  BY SlotOfDistance
<1>2. SlotAt(q, Distance(q, i)) = i
  BY SlotOfDistance
<1>3. q.count \in 0 .. SubQueueCount
  BY DEF Queue
<1>4. ASSUME NEW k \in 0 .. q.count - 1, i = SlotAt(q, k)
      PROVE  Distance(q, i) = k
  <2>1. k \in 0 .. SubQueueCount /\ k < SubQueueCount
    BY <1>3, SubQueueCountAssumption
  <2> QED
    BY <1>4, <2>1, SlotIndex, SubQueueCountAssumption
       DEF Distance, Slots, SubQueueCountSmall
<1>5. InWindow(q, i) => Distance(q, i) < q.count
  BY <1>3, <1>4 DEF InWindow
<1>6. Distance(q, i) < q.count => InWindow(q, i)
  BY <1>1, <1>2, <1>3, SubQueueCountAssumption
     DEF InWindow, Slots, SubQueueCountSmall
<1> QED
  BY <1>1, <1>5, <1>6

\* Before a push is refused as full, the free slot is the one behind the window.
LEMMA NextIsFree ==
  ASSUME NEW q, GoodQueue(q), q.first \in Slots
  PROVE  /\ q.next = q.first <=> q.count = SubQueueCount
         /\ q.count < SubQueueCount => Distance(q, q.next) = q.count
<1>1. q.count \in 1 .. SubQueueCount /\ q.next = SlotAt(q, q.count)
  BY SubQueueCountAssumption
     DEF GoodQueue, Queue, RingShape, Slots, SubQueueCountSmall,
         PQStatusBufferIsEmpty, SlotAt
<1> QED
  BY <1>1, SlotIndex, SubQueueCountAssumption
     DEF Distance, Slots, SubQueueCountSmall

\* The functions' index checks never refuse a well-formed queue.
LEMMA EntryAllowed ==
  ASSUME NEW q \in Queue, NEW refused \in BOOLEAN, NEW reason
  PROVE  EntryStatus(q, refused, reason) = IF refused THEN reason ELSE PQNoError
  BY SubQueueCountAssumption
     DEF EntryStatus, Queue, Slots, SubQueueCountSmall, PQStatusBufferIsEmpty

-----------------------------------------------------------------------------
\* The empty queue is well formed.
LEMMA EmptyQueueGood == GoodQueue(EmptyQueue)
<1>1. EmptyQueue \in Queue
  BY SubQueueCountAssumption
     DEF EmptyQueue, Queue, Slots, SubQueueCountSmall, PQStatusBufferIsEmpty
<1>2. RingShape(EmptyQueue)
  BY DEF RingShape, EmptyQueue
<1>3. WindowFilled(EmptyQueue)
  BY ProductAssumption DEF WindowFilled, EmptyQueue, InWindow
<1> QED
  BY <1>1, <1>2, <1>3 DEF GoodQueue

\* A push keeps the queue well formed, refused or not.
LEMMA PushGood ==
  ASSUME NEW q, GoodQueue(q), NEW item \in Product
  PROVE  /\ GoodQueue(Queue_push(q, item).queue)
         /\ Queue_push(q, item).status \in {PQNoError, "PQErrBufferIsFull"}
<1> DEFINE r == Queue_push(q, item)
           p == r.queue
<1>0. q \in Queue
  BY DEF GoodQueue
<1>1. r.status = IF q.next = q.first THEN "PQErrBufferIsFull" ELSE PQNoError
  BY <1>0, EntryAllowed DEF Queue_push
<1>2. CASE q.next = q.first
  <2>1. p = q
    BY <1>1, <1>2 DEF Queue_push, PQNoError
  <2> QED
    BY <1>1, <1>2, <2>1
<1>3. CASE q.next # q.first
  <2>1. p = [product |-> [q.product EXCEPT ![q.next] = item],
             first   |-> IF q.first = PQStatusBufferIsEmpty THEN 0 ELSE q.first,
             next    |-> (q.next + 1) % SubQueueCount,
             count   |-> q.count + 1]
    BY <1>1, <1>3 DEF Queue_push
  <2>2. /\ p.first \in Slots
        /\ q.count < SubQueueCount
        /\ q.next \in Slots
        /\ Distance(p, q.next) = q.count
    <3>1. CASE q.first = PQStatusBufferIsEmpty
      BY <1>0, <2>1, <3>1, SubQueueCountAssumption
         DEF GoodQueue, Queue, RingShape, Distance, Slots, SubQueueCountSmall
    <3>2. CASE q.first # PQStatusBufferIsEmpty
      <4>1. q.first \in Slots
        BY <1>0, <3>2 DEF Queue
      <4>2. p.first = q.first /\ Distance(p, q.next) = Distance(q, q.next)
        BY <2>1, <3>2 DEF Distance
      <4> QED
        BY <1>0, <1>3, <4>1, <4>2, NextIsFree, SubQueueCountAssumption
           DEF Queue
    <3> QED
      BY <3>1, <3>2
  <2>3. p.next \in Slots /\ p.next = (p.first + p.count) % SubQueueCount
    <3>1. q.next = SlotAt(p, q.count)
      BY <2>2, SlotOfDistance
    <3>2. q.next = IF q.count + p.first < SubQueueCount
                     THEN q.count + p.first ELSE q.count + p.first - SubQueueCount
      BY <1>0, <2>2, <3>1, SlotIndex DEF Queue
    <3>3. p.count = q.count + 1 /\ p.next = (q.next + 1) % SubQueueCount
      BY <2>1
    <3>4. SlotAt(p, p.count) = IF p.count + p.first < SubQueueCount
                                 THEN p.count + p.first
                                 ELSE p.count + p.first - SubQueueCount
      BY <1>0, <2>2, <3>3, SlotIndex, SubQueueCountAssumption DEF Queue
    <3>5. p.next = IF q.next + 1 < SubQueueCount THEN q.next + 1 ELSE 0
      BY <2>2, <3>3, SubQueueCountAssumption DEF Slots, SubQueueCountSmall
    <3>6. (p.first + p.count) % SubQueueCount = SlotAt(p, p.count)
      BY <1>0, <2>2, <3>3, SubQueueCountAssumption
         DEF SlotAt, Queue, Slots, SubQueueCountSmall
    <3>7. q.count \in Int /\ p.first \in 0 .. SubQueueCount - 1
      BY <1>0, <2>2, SubQueueCountAssumption DEF Queue, Slots, SubQueueCountSmall
    <3> HIDE DEF p
    <3>8. p.next = SlotAt(p, p.count)
      BY <2>2, <3>2, <3>3, <3>4, <3>5, <3>7, SubQueueCountAssumption
         DEF Slots, SubQueueCountSmall
    <3> QED
      BY <2>2, <3>3, <3>5, <3>6, <3>8, SubQueueCountAssumption
         DEF Slots, SubQueueCountSmall
  <2>4. p \in Queue
    BY <1>0, <2>1, <2>2, <2>3, SubQueueCountAssumption DEF Queue
  <2>5. RingShape(p)
    BY <1>0, <2>1, <2>2, <2>3, SubQueueCountAssumption
       DEF RingShape, Queue, Slots, PQStatusBufferIsEmpty
  <2>6. WindowFilled(p)
    <3> SUFFICES ASSUME NEW i \in Slots
                 PROVE  p.product[i] \in Product <=> InWindow(p, i)
      BY DEF WindowFilled
    <3>1. InWindow(p, i) <=> Distance(p, i) < q.count + 1
      BY <2>1, <2>2, <2>4, WindowTest
    <3>2. CASE i = q.next
      BY <1>0, <2>1, <2>2, <3>1, <3>2 DEF Queue
    <3>3. CASE i # q.next
      <4>1. Distance(p, i) # q.count
        BY <1>0, <2>2, <3>3, SubQueueCountAssumption
           DEF Distance, Queue, Slots, SubQueueCountSmall
      <4>2. p.product[i] = q.product[i]
        BY <1>0, <2>1, <3>3 DEF Queue
      <4>3. InWindow(q, i) <=> Distance(p, i) < q.count
        <5>1. CASE q.first = PQStatusBufferIsEmpty
          <6>1. q.count = 0
            BY <5>1 DEF GoodQueue, RingShape
          <6> QED
            BY <6>1, <2>2, <2>4, WindowTest
               DEF InWindow, Slots, SubQueueCountSmall
        <5>2. CASE q.first # PQStatusBufferIsEmpty
          <6>1. q.first \in Slots /\ Distance(p, i) = Distance(q, i)
            BY <1>0, <2>1, <5>2 DEF Queue, Distance
          <6> QED
            BY <1>0, <6>1, WindowTest
        <5> QED
          BY <5>1, <5>2
      <4>4. q.product[i] \in Product <=> InWindow(q, i)
        BY DEF GoodQueue, WindowFilled
      <4>5. Distance(p, i) \in Int /\ q.count \in Int
        BY <1>0, <2>2, <2>4, WindowTest DEF Queue, Slots, SubQueueCountSmall
      <4> QED
        BY <3>1, <4>1, <4>2, <4>3, <4>4, <4>5
    <3> QED
      BY <3>2, <3>3
  <2> QED
    BY <1>1, <1>3, <2>4, <2>5, <2>6 DEF GoodQueue
<1> QED
  BY <1>2, <1>3

-----------------------------------------------------------------------------
\* One block move, slot by slot.
LEMMA ShiftUpSlot ==
  ASSUME NEW p, NEW from \in Int, NEW len \in Int, NEW i \in Slots
  PROVE  /\ DOMAIN ShiftUp(p, from, len) = Slots
         /\ ShiftUp(p, from, len)[i] =
              IF from < i /\ i <= from + len THEN p[i - 1] ELSE p[i]
  BY SubQueueCountAssumption DEF ShiftUp, Slots, SubQueueCountSmall

\* What the block moves of Queue_remove amount to: the oldest slot is cleared,
\* the slots up to the removed entry take the entry before them, the slots
\* behind it stay.
LEMMA CloseGapSlots ==
  ASSUME NEW q \in Queue, q.first \in Slots,
         NEW position \in 0 .. q.count - 1, NEW i \in Slots
  PROVE  CloseGap(q, position)[i] =
           IF Distance(q, i) = 0 THEN emptyItem
           ELSE IF Distance(q, i) <= position THEN q.product[Pred(i)]
           ELSE q.product[i]
<1> DEFINE removed == SlotAt(q, position)
           N == SubQueueCount
           blanked == [q.product EXCEPT ![removed] = emptyItem]
           low == IF removed # 0 THEN ShiftUp(blanked, 0, removed) ELSE blanked
           carried == [low EXCEPT ![0] = low[SubQueueCountSmall]]
<1>1. /\ N \in Nat \ {0}
      /\ q.first \in 0 .. N - 1
      /\ i \in 0 .. N - 1
      /\ position \in 0 .. N - 1
      /\ Slots = 0 .. N - 1
      /\ DOMAIN q.product = 0 .. N - 1
  <2>1. q.count \in 0 .. N
    BY DEF Queue
  <2>2. DOMAIN q.product = Slots
    BY DEF Queue
  <2> QED
    BY <2>1, <2>2, SubQueueCountAssumption DEF Slots, SubQueueCountSmall
<1>2. /\ removed \in 0 .. N - 1
      /\ removed = IF position + q.first < N THEN position + q.first
                                             ELSE position + q.first - N
  BY <1>1, SlotIndex DEF Slots, SubQueueCountSmall
<1>3. DOMAIN blanked = 0 .. N - 1 /\ \A j \in 0 .. N - 1 :
        blanked[j] = IF j = removed THEN emptyItem ELSE q.product[j]
  BY <1>1, <1>2
<1>4. CASE position + q.first >= N
  <2>1. DOMAIN low = 0 .. N - 1 /\ \A j \in 0 .. N - 1 :
          low[j] = IF j \in 1 .. removed THEN blanked[j - 1] ELSE blanked[j]
    <3> HIDE DEF blanked, removed
    <3>1. CASE removed = 0
      BY <1>1, <1>3, <3>1
    <3>2. CASE removed # 0
      <4>1. low = ShiftUp(blanked, 0, removed)
        BY <3>2
      <4>2. DOMAIN low = Slots
        BY <1>2, <4>1 DEF ShiftUp
      <4>3. ASSUME NEW j \in 0 .. N - 1
            PROVE  low[j] = IF 0 < j /\ j <= 0 + removed
                              THEN blanked[j - 1] ELSE blanked[j]
        BY <1>1, <1>2, <4>1, ShiftUpSlot
      <4> QED
        BY <1>1, <1>2, <4>2, <4>3
    <3> QED
      BY <3>1, <3>2
  <2>2. DOMAIN carried = 0 .. N - 1 /\ \A j \in 0 .. N - 1 :
          carried[j] = IF j = 0 THEN low[N - 1] ELSE low[j]
    BY <1>1, <2>1 DEF SubQueueCountSmall
  <2>3. removed < q.first
    BY <1>1, <1>2, <1>4
  <2>4. \A j \in 0 .. N - 1 : carried[j] =
          IF j = 0 THEN q.product[N - 1]
          ELSE IF j <= removed THEN q.product[j - 1] ELSE q.product[j]
    <3> SUFFICES ASSUME NEW j \in 0 .. N - 1
                 PROVE carried[j] = IF j = 0 THEN q.product[N - 1]
                         ELSE IF j <= removed THEN q.product[j - 1]
                         ELSE q.product[j]
      OBVIOUS
    <3> HIDE DEF carried, low, blanked, removed
    <3>1. CASE j = 0
      BY <1>1, <1>2, <1>3, <2>1, <2>2, <2>3, <3>1
    <3>2. CASE j # 0 /\ j <= removed
      BY <1>1, <1>2, <1>3, <2>1, <2>2, <2>3, <3>2
    <3>3. CASE j # 0 /\ j > removed
      BY <1>1, <1>2, <1>3, <2>1, <2>2, <2>3, <3>3
    <3> QED
      BY <1>2, <3>1, <3>2, <3>3
  <2>5. CASE q.first = SubQueueCountSmall
    <3>1. CloseGap(q, position) = [carried EXCEPT ![SubQueueCountSmall] = emptyItem]
      BY <1>4, <2>5 DEF CloseGap
    <3>2. CloseGap(q, position)[i] = IF i = N - 1 THEN emptyItem ELSE carried[i]
      BY <1>1, <2>2, <3>1 DEF SubQueueCountSmall
    <3>3. Distance(q, i) = IF i = N - 1 THEN 0 ELSE i + 1
      BY <1>1, <2>5 DEF Distance, SubQueueCountSmall
    <3> HIDE DEF carried
    <3> QED
      BY <1>1, <1>2, <1>4, <2>4, <2>5, <3>2, <3>3 DEF Pred, SubQueueCountSmall
  <2>6. CASE q.first # SubQueueCountSmall
    <3>1. CloseGap(q, position) =
            [ShiftUp(carried, q.first, SubQueueCountSmall - q.first)
               EXCEPT ![q.first] = emptyItem]
      BY <1>4, <2>6 DEF CloseGap
    <3>2. CloseGap(q, position)[i] =
            IF i = q.first THEN emptyItem
            ELSE IF i > q.first THEN carried[i - 1] ELSE carried[i]
      <4> DEFINE shifted == ShiftUp(carried, q.first, SubQueueCountSmall - q.first)
      <4> HIDE DEF carried
      <4>1. DOMAIN shifted = 0 .. N - 1 /\ shifted[i] =
              IF q.first < i /\ i <= q.first + (SubQueueCountSmall - q.first)
                THEN carried[i - 1] ELSE carried[i]
        BY <1>1, ShiftUpSlot DEF SubQueueCountSmall
      <4> HIDE DEF shifted
      <4>2. CloseGap(q, position) = [shifted EXCEPT ![q.first] = emptyItem]
        BY <3>1 DEF shifted
      <4> QED
        BY <1>1, <4>1, <4>2 DEF SubQueueCountSmall
    <3> HIDE DEF carried, removed
    <3>3. CASE i = q.first
      BY <1>1, <3>2, <3>3 DEF Distance
    <3>4. CASE i > q.first
      BY <1>1, <1>2, <1>4, <2>3, <2>4, <3>2, <3>4 DEF Distance, Pred
    <3>5. CASE i < q.first
      BY <1>1, <1>2, <1>4, <2>3, <2>4, <3>2, <3>5, SMTT(30)
         DEF Distance, Pred, SubQueueCountSmall
    <3> QED
      BY <1>1, <3>3, <3>4, <3>5
  <2> QED
    BY <2>5, <2>6
<1>5. CASE position + q.first < N
  <2>1. removed = position + q.first
    BY <1>2, <1>5
  <2>2. CASE removed # 0 /\ removed # q.first
    <3>1. CloseGap(q, position) =
            [ShiftUp(blanked, q.first, removed - q.first)
               EXCEPT ![q.first] = emptyItem]
      BY <1>1, <1>5, <2>2 DEF CloseGap
    <3>2. CloseGap(q, position)[i] =
            IF i = q.first THEN emptyItem
            ELSE IF i \in q.first + 1 .. removed THEN blanked[i - 1]
            ELSE blanked[i]
      <4> DEFINE shifted == ShiftUp(blanked, q.first, removed - q.first)
      <4> HIDE DEF blanked, removed
      <4>1. DOMAIN shifted = 0 .. N - 1 /\ shifted[i] =
              IF q.first < i /\ i <= q.first + (removed - q.first)
                THEN blanked[i - 1] ELSE blanked[i]
        BY <1>1, <1>2, ShiftUpSlot, SMTT(30)
      <4> HIDE DEF shifted
      <4>2. CloseGap(q, position) = [shifted EXCEPT ![q.first] = emptyItem]
        BY <3>1 DEF shifted
      <4> QED
        BY <1>1, <1>2, <4>1, <4>2, SMTT(30)
    <3> HIDE DEF removed, blanked
    <3> QED
      BY <1>1, <1>3, <1>5, <2>1, <2>2, <3>2, SMTT(30) DEF Distance, Pred
  <2>3. CASE removed = 0 \/ removed = q.first
    <3>1. CloseGap(q, position) = blanked
      BY <1>1, <1>5, <2>3 DEF CloseGap
    <3>2. position = 0 /\ removed = q.first
      BY <1>1, <2>1, <2>3
    <3> QED
      BY <1>1, <1>3, <3>1, <3>2 DEF Distance
  <2> QED
    BY <2>2, <2>3
<1> QED
  BY <1>1, <1>4, <1>5

\* A block move keeps the array an array of products and cleared slots.
LEMMA ShiftUpType ==
  ASSUME NEW T, NEW p \in [Slots -> T], NEW from \in Nat, NEW len \in Int
  PROVE  ShiftUp(p, from, len) \in [Slots -> T]
<1>1. \A i \in Slots : i \in from + 1 .. from + len => i - 1 \in Slots
  BY SubQueueCountAssumption DEF Slots, SubQueueCountSmall
<1> QED
  BY <1>1 DEF ShiftUp

\* So does a removal, in each of its branches.
LEMMA CloseGapType ==
  ASSUME NEW q \in Queue, q.first \in Slots, NEW position \in 0 .. q.count - 1
  PROVE  CloseGap(q, position) \in [Slots -> Product \cup {emptyItem}]
<1> DEFINE T == [Slots -> Product \cup {emptyItem}]
           removed == SlotAt(q, position)
           blanked == [q.product EXCEPT ![removed] = emptyItem]
           low == IF removed # 0 THEN ShiftUp(blanked, 0, removed) ELSE blanked
           carried == [low EXCEPT ![0] = low[SubQueueCountSmall]]
           wrapped == ShiftUp(carried, q.first, SubQueueCountSmall - q.first)
           straight == ShiftUp(blanked, q.first, removed - q.first)
<1>1. /\ position \in 0 .. SubQueueCount
      /\ q.first \in Nat
      /\ 0 \in Slots /\ SubQueueCountSmall \in Slots
      /\ SubQueueCountSmall - q.first \in Int
  BY SubQueueCountAssumption DEF Queue, Slots, SubQueueCountSmall
<1>2. removed \in Slots /\ removed \in Int /\ removed - q.first \in Int
  BY <1>1, SlotIndex, SubQueueCountAssumption DEF Slots, SubQueueCountSmall
<1>3. blanked \in T
  BY DEF Queue
<1>4. low \in T
  BY <1>2, <1>3, ShiftUpType
<1>5. carried \in T
  <2> HIDE DEF low
  <2> QED  BY <1>1, <1>4
<1>6. wrapped \in T
  BY <1>1, <1>5, ShiftUpType
<1>7. straight \in T
  BY <1>1, <1>2, <1>3, ShiftUpType
<1>8. /\ [carried EXCEPT ![SubQueueCountSmall] = emptyItem] \in T
      /\ [wrapped EXCEPT ![q.first] = emptyItem] \in T
      /\ [straight EXCEPT ![q.first] = emptyItem] \in T
  <2> HIDE DEF carried, wrapped, straight
  <2> QED  BY <1>5, <1>6, <1>7
<1> QED
  BY <1>3, <1>8 DEF CloseGap

\* A removal inside the queue keeps it well formed.
LEMMA RemoveGood ==
  ASSUME NEW q, GoodQueue(q), q.count > 0, NEW position \in 0 .. q.count - 1
  PROVE  /\ GoodQueue(Queue_remove(q, position).queue)
         /\ Queue_remove(q, position).status = PQNoError
<1> DEFINE r == Queue_remove(q, position)
           p == r.queue
<1>1. /\ q \in Queue
      /\ q.first \in Slots
      /\ q.first # PQStatusBufferIsEmpty
      /\ q.count \in 1 .. SubQueueCount
  BY SubQueueCountAssumption
     DEF GoodQueue, Queue, RingShape, PQStatusBufferIsEmpty
<1>2. r.status = PQNoError
  BY <1>1, EntryAllowed DEF Queue_remove, IsEmptyBuffer
<1>3. p = [product |-> CloseGap(q, position),
           first   |-> IF q.count - 1 <= 0 THEN PQStatusBufferIsEmpty
                       ELSE (q.first + 1) % SubQueueCount,
           next    |-> IF q.count - 1 <= 0 THEN 0 ELSE q.next,
           count   |-> q.count - 1]
  BY <1>2 DEF Queue_remove
<1>4. \A i \in Slots : CloseGap(q, position)[i] =
        IF Distance(q, i) = 0 THEN emptyItem
        ELSE IF Distance(q, i) <= position THEN q.product[Pred(i)]
        ELSE q.product[i]
  BY <1>1, CloseGapSlots
<1>5. \A i \in Slots : Distance(q, i) # 0 =>
        /\ Pred(i) \in Slots
        /\ Distance(q, Pred(i)) = Distance(q, i) - 1
  BY <1>1, SubQueueCountAssumption
     DEF Distance, Pred, Slots, SubQueueCountSmall
<1>6. \A i \in Slots : /\ Distance(q, i) \in Slots
                       /\ q.product[i] \in Product <=> Distance(q, i) < q.count
  BY <1>1, WindowTest DEF GoodQueue, WindowFilled
<1>7. \A i \in Slots : p.product[i] \in Product <=>
        Distance(q, i) # 0 /\ Distance(q, i) < q.count
  <2> SUFFICES ASSUME NEW i \in Slots
               PROVE  p.product[i] \in Product <=>
                        Distance(q, i) # 0 /\ Distance(q, i) < q.count
    OBVIOUS
  <2>1. p.product = CloseGap(q, position)
    BY <1>3
  <2>2. Distance(q, i) \in Nat /\ q.count \in Nat
    BY <1>1, <1>6, SubQueueCountAssumption DEF Slots, SubQueueCountSmall
  <2> HIDE DEF p
  <2>3. CASE Distance(q, i) = 0
    BY <1>4, <2>1, <2>3, ProductAssumption
  <2>4. CASE Distance(q, i) # 0 /\ Distance(q, i) <= position
    BY <1>1, <1>4, <1>5, <1>6, <2>1, <2>2, <2>4
  <2>5. CASE Distance(q, i) # 0 /\ Distance(q, i) > position
    BY <1>1, <1>4, <1>6, <2>1, <2>2, <2>5
  <2> QED
    BY <1>1, <2>2, <2>3, <2>4, <2>5
<1>8. CloseGap(q, position) \in [Slots -> Product \cup {emptyItem}]
  BY <1>1, CloseGapType
<1>9. CASE q.count = 1
  <2>1. p.first = PQStatusBufferIsEmpty /\ p.next = 0 /\ p.count = 0
    BY <1>3, <1>9
  <2>2. p \in Queue /\ RingShape(p)
    BY <1>3, <1>8, <2>1, SubQueueCountAssumption
       DEF Queue, RingShape, Slots, SubQueueCountSmall
  <2>3. WindowFilled(p)
    <3>1. \A i \in Slots : p.product[i] \notin Product
      BY <1>6, <1>7, <1>9 DEF Slots, SubQueueCountSmall
    <3> QED
      BY <2>1, <3>1 DEF WindowFilled, InWindow
  <2> QED
    BY <1>2, <2>2, <2>3 DEF GoodQueue
<1>10. CASE q.count > 1
  <2>1. /\ p.first = (q.first + 1) % SubQueueCount
        /\ p.next = q.next
        /\ p.count = q.count - 1
        /\ p.product = CloseGap(q, position)
    BY <1>1, <1>3, <1>10
  <2>2. p.first = IF q.first + 1 < SubQueueCount THEN q.first + 1 ELSE 0
    BY <1>1, <2>1, SubQueueCountAssumption DEF Slots, SubQueueCountSmall
  <2>3. p.first \in Slots
    BY <1>1, <2>2, SubQueueCountAssumption DEF Slots, SubQueueCountSmall
  <2>4. p \in Queue
    <3>1. p = [product |-> p.product, first |-> p.first, next |-> p.next,
               count |-> p.count]
      BY <1>3
    <3>2. p.next \in Slots /\ p.count \in 0 .. SubQueueCount
      BY <1>1, <2>1, SubQueueCountAssumption DEF Queue
    <3>3. p.product \in [Slots -> Product \cup {emptyItem}]
      BY <1>8, <2>1
    <3> HIDE DEF p
    <3> QED
      BY <2>3, <3>1, <3>2, <3>3 DEF Queue
  <2>5. RingShape(p)
    <3>1. q.next = SlotAt(q, q.count)
      BY <1>1, SubQueueCountAssumption
         DEF GoodQueue, RingShape, SlotAt, Queue, Slots, SubQueueCountSmall
    <3>2. q.next = IF q.count + q.first < SubQueueCount
                     THEN q.count + q.first ELSE q.count + q.first - SubQueueCount
      BY <1>1, <3>1, SlotIndex
    <3>3. SlotAt(p, p.count) = IF p.count + p.first < SubQueueCount
                                 THEN p.count + p.first
                                 ELSE p.count + p.first - SubQueueCount
      BY <1>1, <2>1, <2>3, SlotIndex, SubQueueCountAssumption
    <3>4. SlotAt(p, p.count) = (p.first + p.count) % SubQueueCount
      BY <1>1, <2>1, <2>3, SubQueueCountAssumption
         DEF SlotAt, Slots, SubQueueCountSmall
    <3> HIDE DEF p
    <3>5. p.next = SlotAt(p, p.count)
      BY <1>1, <2>1, <2>2, <3>2, <3>3, SubQueueCountAssumption
         DEF Slots, SubQueueCountSmall
    <3> QED
      BY <1>1, <1>10, <2>1, <2>3, <3>4, <3>5, SubQueueCountAssumption
         DEF RingShape, Slots, SubQueueCountSmall, PQStatusBufferIsEmpty
  <2>6. WindowFilled(p)
    <3> SUFFICES ASSUME NEW i \in Slots
                 PROVE  p.product[i] \in Product <=> InWindow(p, i)
      BY DEF WindowFilled
    <3>1. InWindow(p, i) <=> Distance(p, i) < q.count - 1
      BY <2>1, <2>3, <2>4, WindowTest
    <3> HIDE DEF p
    <3>2. Distance(p, i) = IF Distance(q, i) = 0 THEN SubQueueCount - 1
                           ELSE Distance(q, i) - 1
      BY <1>1, <2>2, SubQueueCountAssumption
         DEF Distance, Slots, SubQueueCountSmall
    <3>3. Distance(q, i) \in Nat
      BY <1>6, SubQueueCountAssumption DEF Slots, SubQueueCountSmall
    <3> QED
      BY <1>1, <1>7, <3>1, <3>2, <3>3, SubQueueCountAssumption
  <2> QED
    BY <1>2, <2>4, <2>5, <2>6 DEF GoodQueue
<1> QED
  BY <1>1, <1>9, <1>10

\* On an empty queue a removal only answers an error.
LEMMA RemoveFromEmpty ==
  ASSUME NEW q, GoodQueue(q), q.count = 0, NEW position
  PROVE  /\ Queue_remove(q, position).queue = q
         /\ Queue_remove(q, position).status = "PQErrBufferIsEmpty"
<1>1. q \in Queue /\ IsEmptyBuffer(q)
  BY DEF GoodQueue, RingShape, IsEmptyBuffer
<1>2. Queue_remove(q, position).status = "PQErrBufferIsEmpty"
  BY <1>1, EntryAllowed DEF Queue_remove, IsEmptyBuffer
<1> QED
  BY <1>2 DEF Queue_remove, PQNoError

\* What Queue_get and Queue_find answer, on any well-formed queue.
LEMMA GetType ==
  ASSUME NEW q, GoodQueue(q), NEW position \in Nat,
         position < q.count \/ q.count = 0
  PROVE  /\ Queue_get(q, position).status \in {PQNoError, "PQErrBufferIsEmpty"}
         /\ Queue_get(q, position).item \in Product \cup {emptyItem}
<1> DEFINE r == Queue_get(q, position)
<1>1. q \in Queue
  BY DEF GoodQueue
<1>2. r.status = IF IsEmptyBuffer(q) THEN "PQErrBufferIsEmpty" ELSE PQNoError
  BY <1>1, EntryAllowed DEF Queue_get, IsEmptyBuffer
<1>3. CASE IsEmptyBuffer(q)
  BY <1>2, <1>3 DEF Queue_get, PQNoError
<1>4. CASE ~IsEmptyBuffer(q)
  <2>1. q.first \in Slots /\ q.count # 0
    BY <1>1, <1>4 DEF IsEmptyBuffer, Queue, GoodQueue, RingShape
  <2>2. position \in 0 .. SubQueueCount
    BY <1>1, <2>1, SubQueueCountAssumption DEF Queue
  <2>3. SlotAt(q, position) \in Slots
    BY <2>1, <2>2, SlotIndex
  <2>4. r.item = q.product[SlotAt(q, position)]
    BY <1>2, <1>4 DEF Queue_get
  <2> QED
    BY <1>1, <1>2, <1>4, <2>3, <2>4 DEF Queue
<1> QED
  BY <1>3, <1>4

\* Queue_find answers a position inside the queue, or that there is none.
LEMMA FindType ==
  ASSUME NEW q, GoodQueue(q), NEW id
  PROVE  /\ Queue_find(q, id).status \in {PQNoError, "PQErrMissingProduct"}
         /\ Queue_find(q, id).position \in Slots
<1> DEFINE r == Queue_find(q, id)
           hits == {k \in 0 .. q.count - 1 : q.product[SlotAt(q, k)].id = id}
<1>1. q \in Queue
  BY DEF GoodQueue
<1>2. r.status = IF IsEmptyBuffer(q) \/ hits = {} THEN "PQErrMissingProduct"
                                                 ELSE PQNoError
  BY <1>1, EntryAllowed DEF Queue_find, IsEmptyBuffer
<1>3. r.position = IF r.status # PQNoError THEN 0
                   ELSE CHOOSE k \in hits : \A h \in hits : k <= h
  BY DEF Queue_find
<1>4. CASE r.status # PQNoError
  BY <1>2, <1>3, <1>4, SubQueueCountAssumption
     DEF PQNoError, Slots, SubQueueCountSmall
<1>5. CASE r.status = PQNoError
  <2>1. hits # {} /\ hits \subseteq Nat
    BY <1>1, <1>2, <1>5 DEF PQNoError, Queue
  <2>2. PICK least \in hits : \A h \in hits : least <= h
    <3> HIDE DEF hits
    <3> QED
      BY <2>1, LeastNumber
  <2>3. r.position \in hits
    BY <1>3, <1>5, <2>2
  <2> QED
    BY <1>1, <1>2, <1>5, <2>3, SubQueueCountAssumption
       DEF Queue, Slots, SubQueueCountSmall
<1> QED
  BY <1>4, <1>5

-----------------------------------------------------------------------------
\* The slots of neighbouring entries are neighbours.
LEMMA SlotSteps ==
  ASSUME NEW q, q.first \in Slots, NEW k \in Slots
  PROVE  /\ SlotAt(q, k) \in Slots /\ Distance(q, SlotAt(q, k)) = k
         /\ k > 0 => Pred(SlotAt(q, k)) = SlotAt(q, k - 1)
<1>1. k \in 0 .. SubQueueCount
  BY SubQueueCountAssumption DEF Slots, SubQueueCountSmall
<1>2. /\ SlotAt(q, k) \in Slots
      /\ SlotAt(q, k) = IF k + q.first < SubQueueCount
                          THEN k + q.first ELSE k + q.first - SubQueueCount
  BY <1>1, SlotIndex
<1>3. Distance(q, SlotAt(q, k)) = k
  BY <1>2, SubQueueCountAssumption DEF Distance, Slots, SubQueueCountSmall
<1>4. ASSUME k > 0 PROVE Pred(SlotAt(q, k)) = SlotAt(q, k - 1)
  <2>1. k - 1 \in 0 .. SubQueueCount
    BY <1>1, <1>4, SubQueueCountAssumption
  <2>2. SlotAt(q, k - 1) = IF (k - 1) + q.first < SubQueueCount
                             THEN (k - 1) + q.first ELSE (k - 1) + q.first - SubQueueCount
    BY <2>1, SlotIndex
  <2> QED
    BY <1>2, <1>4, <2>2, SubQueueCountAssumption DEF Pred, Slots, SubQueueCountSmall
<1> QED
  BY <1>2, <1>3, <1>4

\* The entries of a well-formed queue are a sequence of products.
LEMMA ContentsProperties ==
  ASSUME NEW q, GoodQueue(q)
  PROVE  /\ q.count \in 0 .. SubQueueCount
         /\ Contents(q) \in Seq(Product) /\ Len(Contents(q)) = q.count
         /\ DOMAIN Contents(q) = 1 .. q.count
         /\ \A k \in 1 .. q.count : /\ Contents(q)[k] = q.product[SlotAt(q, k - 1)]
                                    /\ Contents(q)[k] \in Product
<1>1. q.count \in 0 .. SubQueueCount /\ SubQueueCount \in Nat
  BY SubQueueCountAssumption DEF GoodQueue, Queue
<1>2. ASSUME NEW k \in 1 .. q.count
      PROVE  /\ Contents(q)[k] = q.product[SlotAt(q, k - 1)]
             /\ Contents(q)[k] \in Product
  <2>1. q.first \in Slots
    BY <1>1 DEF GoodQueue, Queue, RingShape
  <2>2. k - 1 \in Slots /\ k - 1 \in 0 .. q.count - 1
    BY <1>1 DEF Slots, SubQueueCountSmall
  <2>3. SlotAt(q, k - 1) \in Slots /\ InWindow(q, SlotAt(q, k - 1))
    BY <2>1, <2>2, SlotSteps DEF InWindow
  <2>4. Contents(q)[k] = q.product[SlotAt(q, k - 1)]
    BY DEF Contents
  <2> QED
    BY <2>3, <2>4 DEF GoodQueue, WindowFilled
<1>3. DOMAIN Contents(q) = 1 .. q.count
  BY DEF Contents
<1>4. Contents(q) \in [1 .. q.count -> Product]
  BY <1>2 DEF Contents
<1>5. Contents(q) \in Seq(Product)
  <2>1. q.count \in Nat
    BY <1>1
  <2> QED
    BY <1>4, <2>1, SeqDef
<1>6. Len(Contents(q)) = q.count
  BY <1>1, <1>3, <1>5, LenProperties
<1> QED
  BY <1>1, <1>2, <1>3, <1>5, <1>6

\* A push appends, unless the queue is full.
LEMMA PushContents ==
  ASSUME NEW q, GoodQueue(q), NEW item \in Product
  PROVE  /\ q.count = SubQueueCount =>
              /\ Queue_push(q, item).queue = q
              /\ Queue_push(q, item).status = "PQErrBufferIsFull"
         /\ q.count # SubQueueCount =>
              /\ Contents(Queue_push(q, item).queue) = Append(Contents(q), item)
              /\ Queue_push(q, item).queue.count = q.count + 1
              /\ Queue_push(q, item).status = PQNoError
<1> DEFINE r == Queue_push(q, item)
           p == r.queue
<1>1. /\ q \in Queue /\ q.count \in 0 .. SubQueueCount /\ SubQueueCount \in Nat \ {0}
      /\ GoodQueue(p)
  BY PushGood, SubQueueCountAssumption DEF GoodQueue, Queue
<1>2. q.next = q.first <=> q.count = SubQueueCount
  <2>1. CASE q.first \in Slots
    BY <2>1, NextIsFree
  <2>2. CASE q.first = PQStatusBufferIsEmpty
    BY <1>1, <2>2 DEF GoodQueue, RingShape, PQStatusBufferIsEmpty
  <2> QED
    BY <1>1, <2>1, <2>2 DEF Queue
<1>3. r.status = IF q.count = SubQueueCount THEN "PQErrBufferIsFull" ELSE PQNoError
  BY <1>1, <1>2, EntryAllowed DEF Queue_push
<1>4. CASE q.count = SubQueueCount
  BY <1>3, <1>4 DEF Queue_push, PQNoError
<1>5. CASE q.count # SubQueueCount
  <2>1. p = [product |-> [q.product EXCEPT ![q.next] = item],
             first   |-> IF q.first = PQStatusBufferIsEmpty THEN 0 ELSE q.first,
             next    |-> (q.next + 1) % SubQueueCount,
             count   |-> q.count + 1]
    BY <1>3, <1>5 DEF Queue_push
  <2>2. /\ p.count = q.count + 1 /\ p.first \in Slots
        /\ p.first = IF q.first = PQStatusBufferIsEmpty THEN 0 ELSE q.first
        /\ p.product = [q.product EXCEPT ![q.next] = item]
    <3>1. 0 \in Slots
      BY <1>1 DEF Slots, SubQueueCountSmall
    <3> QED
      BY <1>1, <2>1, <3>1 DEF Queue
  <2>3. q.count \in Slots /\ SlotAt(p, q.count) = q.next
    <3>1. q.count \in Slots
      BY <1>1, <1>5 DEF Slots, SubQueueCountSmall
    <3>2. CASE q.count = 0
      <4>1. q.first = PQStatusBufferIsEmpty /\ q.next = 0 /\ p.first = 0
        BY <2>2, <3>2 DEF GoodQueue, RingShape
      <4> QED
        BY <1>1, <3>1, <3>2, <4>1 DEF SlotAt
    <3>3. CASE q.count > 0
      <4>1. p.first = q.first /\ q.next = (q.first + q.count) % SubQueueCount
        BY <1>1, <2>2, <3>3 DEF GoodQueue, RingShape
      <4>2. q.count + q.first = q.first + q.count
        BY <1>1, <2>2, <4>1 DEF Slots
      <4> QED
        BY <3>1, <4>1, <4>2 DEF SlotAt
    <3> QED
      BY <1>1, <3>1, <3>2, <3>3
  <2>4. ASSUME NEW k \in 1 .. q.count
        PROVE  Contents(p)[k] = Contents(q)[k]
    <3>1. q.first = p.first
      BY <1>1, <2>2 DEF GoodQueue, RingShape
    <3>2. k - 1 \in Slots /\ k - 1 # q.count /\ k \in 1 .. p.count
      BY <1>1, <2>2 DEF Slots, SubQueueCountSmall
    <3>3. SlotAt(p, k - 1) # q.next
      BY <2>2, <2>3, <3>2, SlotSteps
    <3>4. SlotAt(p, k - 1) = SlotAt(q, k - 1) /\ SlotAt(q, k - 1) \in Slots
      BY <2>2, <3>1, <3>2, SlotSteps DEF SlotAt
    <3>5. p.product[SlotAt(p, k - 1)] = q.product[SlotAt(q, k - 1)]
      BY <1>1, <2>2, <3>3, <3>4 DEF Queue
    <3> HIDE DEF p
    <3> QED
      BY <1>1, <3>2, <3>5, ContentsProperties
  <2>5. Contents(p)[q.count + 1] = item
    <3>1. q.next \in Slots /\ p.product[q.next] = item
      BY <1>1, <2>2 DEF Queue
    <3>2. q.count + 1 \in 1 .. p.count /\ (q.count + 1) - 1 = q.count
      BY <1>1, <2>2
    <3> HIDE DEF p
    <3> QED
      BY <1>1, <2>3, <3>1, <3>2, ContentsProperties
  <2>6. Contents(p) = Append(Contents(q), item)
    <3>1. /\ Contents(p) \in Seq(Product) /\ Len(Contents(p)) = q.count + 1
          /\ Contents(q) \in Seq(Product) /\ Len(Contents(q)) = q.count
      BY <1>1, <2>2, ContentsProperties
    <3>2. /\ Append(Contents(q), item) \in Seq(Product)
          /\ Len(Append(Contents(q), item)) = q.count + 1
          /\ \A k \in 1 .. q.count : Append(Contents(q), item)[k] = Contents(q)[k]
          /\ Append(Contents(q), item)[q.count + 1] = item
      BY <3>1, AppendProperties
    <3>3. \A k \in 1 .. q.count + 1 : Contents(p)[k] = Append(Contents(q), item)[k]
      BY <1>1, <2>4, <2>5, <3>2
    <3> QED
      BY <3>1, <3>2, <3>3, SeqEqual
  <2> QED
    BY <1>3, <1>5, <2>2, <2>6
<1> QED
  BY <1>4, <1>5

\* A removal takes out the entry at the position and no other.
LEMMA RemoveContents ==
  ASSUME NEW q, GoodQueue(q), NEW position \in 0 .. q.count - 1
  PROVE  /\ Contents(Queue_remove(q, position).queue) = RemoveAt(Contents(q), position + 1)
         /\ Queue_remove(q, position).queue.count = q.count - 1
<1> DEFINE p == Queue_remove(q, position).queue
<1>1. /\ q \in Queue /\ q.count \in 1 .. SubQueueCount /\ SubQueueCount \in Nat \ {0}
      /\ q.first \in Slots /\ q.first # PQStatusBufferIsEmpty
  BY SubQueueCountAssumption DEF GoodQueue, Queue, RingShape, PQStatusBufferIsEmpty
<1>2. GoodQueue(p) /\ Queue_remove(q, position).status = PQNoError
  BY <1>1, RemoveGood
<1>3. p = [product |-> CloseGap(q, position),
           first   |-> IF q.count - 1 <= 0 THEN PQStatusBufferIsEmpty
                       ELSE (q.first + 1) % SubQueueCount,
           next    |-> IF q.count - 1 <= 0 THEN 0 ELSE q.next,
           count   |-> q.count - 1]
  BY <1>2 DEF Queue_remove
<1>4. /\ p.count = q.count - 1 /\ p.product = CloseGap(q, position)
      /\ q.count > 1 => p.first = (q.first + 1) % SubQueueCount
  BY <1>1, <1>3
<1>5. ASSUME NEW k \in 1 .. q.count - 1
      PROVE  Contents(p)[k] = IF k < position + 1 THEN Contents(q)[k] ELSE Contents(q)[k + 1]
  <2>1. k \in Slots /\ k - 1 \in Slots /\ k > 0
    BY <1>1 DEF Slots, SubQueueCountSmall
  <2>2. p.first \in Slots
    BY <1>1, <1>2, <1>4 DEF GoodQueue, Queue, RingShape, PQStatusBufferIsEmpty
  <2>3. SlotAt(p, k - 1) = SlotAt(q, k)
    <3>1. p.first = IF q.first + 1 < SubQueueCount THEN q.first + 1 ELSE 0
      <4>1. 1 \in 0 .. SubQueueCount /\ 1 + q.first = q.first + 1 /\ q.count > 1
        BY <1>1 DEF Slots, SubQueueCountSmall
      <4>2. (1 + q.first) % SubQueueCount = IF 1 + q.first < SubQueueCount
              THEN 1 + q.first ELSE 1 + q.first - SubQueueCount
        BY <1>1, <4>1, SlotIndex DEF SlotAt
      <4>3. q.first \in 0 .. SubQueueCount - 1
        BY <1>1 DEF Slots, SubQueueCountSmall
      <4> QED
        BY <1>1, <1>4, <4>1, <4>2, <4>3
    <3>2. k - 1 \in 0 .. SubQueueCount /\ k \in 0 .. SubQueueCount
      BY <1>1
    <3>3. /\ SlotAt(p, k - 1) = IF (k - 1) + p.first < SubQueueCount
               THEN (k - 1) + p.first ELSE (k - 1) + p.first - SubQueueCount
          /\ SlotAt(q, k) = IF k + q.first < SubQueueCount
               THEN k + q.first ELSE k + q.first - SubQueueCount
      BY <1>1, <2>2, <3>2, SlotIndex
    <3>4. q.first \in 0 .. SubQueueCount - 1 /\ k \in 1 .. SubQueueCount - 1
      BY <1>1 DEF Slots, SubQueueCountSmall
    <3> HIDE DEF p
    <3> QED
      BY <1>1, <3>1, <3>3, <3>4
  <2>4. SlotAt(q, k) \in Slots /\ Distance(q, SlotAt(q, k)) = k
        /\ Pred(SlotAt(q, k)) = SlotAt(q, k - 1)
    BY <1>1, <2>1, SlotSteps
  <2>5. CloseGap(q, position)[SlotAt(q, k)] =
          IF k <= position THEN q.product[SlotAt(q, k - 1)] ELSE q.product[SlotAt(q, k)]
    <3>1. PICK i : i = SlotAt(q, k)
      OBVIOUS
    <3>2. i \in Slots /\ Distance(q, i) = k /\ Pred(i) = SlotAt(q, k - 1)
      BY <2>4, <3>1
    <3>3. CloseGap(q, position)[i] =
            IF Distance(q, i) = 0 THEN emptyItem
            ELSE IF Distance(q, i) <= position THEN q.product[Pred(i)]
            ELSE q.product[i]
      BY <1>1, <3>2, CloseGapSlots
    <3> QED
      BY <2>1, <3>1, <3>2, <3>3
  <2>6. k \in 1 .. p.count /\ k \in 1 .. q.count /\ k + 1 \in 1 .. q.count
    BY <1>1, <1>4
  <2>7. /\ Contents(p)[k] = p.product[SlotAt(p, k - 1)]
        /\ Contents(q)[k] = q.product[SlotAt(q, k - 1)]
        /\ Contents(q)[k + 1] = q.product[SlotAt(q, k)]
    <3>1. (k + 1) - 1 = k
      BY <2>1
    <3> HIDE DEF p
    <3> QED
      BY <1>2, <2>6, <3>1, ContentsProperties
  <2>8. k <= position <=> k < position + 1
    BY <1>1
  <2> HIDE DEF p
  <2> QED
    BY <1>4, <2>3, <2>5, <2>7, <2>8
<1>6. Contents(p) = RemoveAt(Contents(q), position + 1)
  <2> HIDE DEF p
  <2>1. /\ Contents(p) \in Seq(Product) /\ Len(Contents(p)) = q.count - 1
        /\ Contents(q) \in Seq(Product) /\ Len(Contents(q)) = q.count
    BY <1>2, <1>4, ContentsProperties
  <2>2. position + 1 \in 1 .. Len(Contents(q))
    BY <1>1, <2>1
  <2>3. /\ RemoveAt(Contents(q), position + 1) \in Seq(Product)
        /\ Len(RemoveAt(Contents(q), position + 1)) = q.count - 1
        /\ \A k \in 1 .. q.count - 1 : RemoveAt(Contents(q), position + 1)[k] =
             IF k < position + 1 THEN Contents(q)[k] ELSE Contents(q)[k + 1]
    BY <2>1, <2>2, RemoveAtProperties
  <2>4. \A k \in 1 .. q.count - 1 :
          Contents(p)[k] = RemoveAt(Contents(q), position + 1)[k]
    BY <1>5, <2>3
  <2> QED
    BY <2>1, <2>3, <2>4, SeqEqual
<1> QED
  BY <1>4, <1>6

\* Queue_get reads the entry at the position.
LEMMA GetContents ==
  ASSUME NEW q, GoodQueue(q), NEW position \in Int
  PROVE  /\ q.count = 0 => /\ Queue_get(q, position).status = "PQErrBufferIsEmpty"
                           /\ Queue_get(q, position).item = emptyItem
         /\ position \in 0 .. q.count - 1 =>
              /\ Queue_get(q, position).status = PQNoError
              /\ Queue_get(q, position).item = Contents(q)[position + 1]
<1>1. q \in Queue /\ (IsEmptyBuffer(q) <=> q.count = 0) /\ q.count \in Nat
  BY SubQueueCountAssumption DEF GoodQueue, RingShape, IsEmptyBuffer, Queue
<1>2. Queue_get(q, position).status =
        IF IsEmptyBuffer(q) THEN "PQErrBufferIsEmpty" ELSE PQNoError
  BY <1>1, EntryAllowed DEF Queue_get, IsEmptyBuffer
<1>3. CASE q.count = 0
  <2>1. position \notin 0 .. q.count - 1
    BY <1>3
  <2>2. /\ Queue_get(q, position).status = "PQErrBufferIsEmpty"
        /\ Queue_get(q, position).item = emptyItem
    BY <1>1, <1>2, <1>3 DEF Queue_get, PQNoError
  <2> QED
    BY <2>1, <2>2
<1>4. CASE position \in 0 .. q.count - 1
  <2>1. Queue_get(q, position).item = q.product[SlotAt(q, position)]
    BY <1>1, <1>2, <1>4 DEF Queue_get
  <2>2. position + 1 \in 1 .. q.count /\ (position + 1) - 1 = position
    BY <1>1, <1>4
  <2>3. Contents(q)[position + 1] = q.product[SlotAt(q, (position + 1) - 1)]
    BY <2>2, ContentsProperties
  <2> QED
    BY <1>1, <1>2, <1>4, <2>1, <2>2, <2>3
<1> QED
  BY <1>1, <1>3, <1>4

\* Queue_find answers the oldest entry with the id.
LEMMA FindContents ==
  ASSUME NEW q, GoodQueue(q), NEW id
  PROVE  LET answer == Queue_find(q, id)
         IN /\ answer.found <=> \E k \in 1 .. q.count : Contents(q)[k].id = id
            /\ answer.found => /\ answer.status = PQNoError
                               /\ answer.position \in 0 .. q.count - 1
                               /\ Contents(q)[answer.position + 1].id = id
                               /\ \A k \in 1 .. q.count :
                                    Contents(q)[k].id = id => answer.position + 1 <= k
            /\ ~answer.found => /\ answer.status = "PQErrMissingProduct"
                                /\ answer.position = 0
<1> DEFINE hits == {k \in 0 .. q.count - 1 : q.product[SlotAt(q, k)].id = id}
           answer == Queue_find(q, id)
<1>1. /\ q \in Queue /\ (IsEmptyBuffer(q) <=> q.count = 0) /\ q.count \in Nat
  BY SubQueueCountAssumption DEF GoodQueue, RingShape, IsEmptyBuffer, Queue
<1>2. answer.status = IF IsEmptyBuffer(q) \/ hits = {} THEN "PQErrMissingProduct"
                      ELSE PQNoError
  BY <1>1, EntryAllowed DEF Queue_find, IsEmptyBuffer
<1>3. /\ answer.found <=> answer.status = PQNoError
      /\ answer.position = IF answer.status # PQNoError THEN 0
                           ELSE CHOOSE k \in hits : \A h \in hits : k <= h
  <2>1. answer.found = (answer.status = PQNoError)
    BY Zenon DEF Queue_find
  <2>2. answer.position = IF answer.status # PQNoError THEN 0
                          ELSE CHOOSE k \in hits : \A h \in hits : k <= h
    BY DEF Queue_find
  <2> QED
    BY <2>1, <2>2
<1>4. \A k \in 1 .. q.count : Contents(q)[k] = q.product[SlotAt(q, k - 1)]
  BY ContentsProperties
<1>5. \A k \in 1 .. q.count : Contents(q)[k].id = id <=> k - 1 \in hits
  BY <1>1, <1>4
<1>6. answer.found <=> hits # {}
  BY <1>1, <1>2, <1>3 DEF PQNoError
<1>7. \A h \in hits : h \in 0 .. q.count - 1 /\ h + 1 \in 1 .. q.count /\ (h + 1) - 1 = h
  BY <1>1
<1>8. CASE hits = {}
  BY <1>2, <1>3, <1>5, <1>6, <1>8 DEF PQNoError
<1>9. CASE hits # {}
  <2>1. PICK least \in hits : \A h \in hits : least <= h
    <3>1. hits \in SUBSET Nat
      BY <1>1
    <3> HIDE DEF hits
    <3> QED
      BY <1>9, <3>1, LeastNumber
  <2>2. answer.position \in hits /\ \A h \in hits : answer.position <= h
    BY <1>3, <1>6, <1>9, <2>1
  <2>3. \A k \in 1 .. q.count : Contents(q)[k].id = id => answer.position + 1 <= k
    BY <1>1, <1>5, <1>7, <2>2
  <2>4. Contents(q)[answer.position + 1].id = id
    BY <1>5, <1>7, <2>2
  <2>5. \E k \in 1 .. q.count : Contents(q)[k].id = id
    BY <1>7, <2>2, <2>4
  <2>6. answer.status = PQNoError /\ answer.found
    BY <1>3, <1>6, <1>9
  <2> HIDE DEF hits, answer
  <2> QED
    BY <1>7, <2>2, <2>3, <2>4, <2>5, <2>6 DEF answer
<1> QED
  BY <1>8, <1>9

-----------------------------------------------------------------------------
\* The priority queue.
\*
\* An entry has a place, a priority p and a local position k in its queue, and
\* one global position, CountUpTo(pq, p - 1) + k: the arguments are about that
\* sum of the counters.

\* A priority queue in a state the functions leave it in.
GoodPQueue(q) ==
  /\ q \in PQueueData
  /\ \A p \in Priorities : GoodQueue(q.buffer[p])
  /\ CountersAgree(q)

\* The entries of one priority, oldest first.
Listed(q, p) == Contents(q.buffer[p])

Counters(q) == q.subElementCount \in [Priorities -> Nat]

LEMMA PrioritiesProperties ==
  /\ PriorityCount \in Nat \ {0} /\ 0 \in Priorities /\ PriorityCount - 1 \in Priorities
  /\ \A p \in Priorities : p \in Nat /\ p - 1 \in -1 .. PriorityCount - 1
  /\ \A p \in -1 .. PriorityCount - 1 : p = -1 \/ p \in Priorities
BY PriorityCountAssumption DEF Priorities

\* The sum over the counters grows by one counter a priority.
LEMMA CountSteps ==
  ASSUME NEW q, Counters(q)
  PROVE  /\ CountUpTo(q, -1) = 0
         /\ \A p \in Priorities :
              CountUpTo(q, p) = CountUpTo(q, p - 1) + q.subElementCount[p]
         /\ \A p \in -1 .. PriorityCount - 1 : CountUpTo(q, p) \in Nat
<1> DEFINE N == PriorityCount
           step == [t \in Nat \X Nat |->
                      t[2] + IF t[1] \in Priorities THEN q.subElementCount[t[1]] ELSE 0]
           Sums(f) == f = [n \in 0 .. N |->
                             IF n = 0 THEN 0 ELSE f[n - 1] + q.subElementCount[n - 1]]
           total == CHOOSE f : Sums(f)
<1>0. N \in Nat /\ N - 1 \in Priorities
  BY PrioritiesProperties
<1>1. step \in [Nat \X Nat -> Nat]
  BY DEF Counters
<1>2. PICK f \in [0 .. N -> Nat] : Iterates(f, N, 0, step)
  <2> HIDE DEF step
  <2>1. 0 \in Nat
    OBVIOUS
  <2> QED
    BY <1>0, <1>1, <2>1, Recursion, Zenon
<1>3. ASSUME NEW k \in 1 .. N PROVE f[k] = f[k - 1] + q.subElementCount[k - 1]
  <2>1. k - 1 \in Nat /\ f[k - 1] \in Nat /\ k - 1 \in Priorities
    BY <1>0, <1>2 DEF Priorities, Iterates
  <2>2. step[<<k - 1, f[k - 1]>>] = f[k - 1] + q.subElementCount[k - 1]
    BY <2>1
  <2> QED
    BY <1>2, <2>2 DEF Iterates
<1>4. Sums(f)
  BY <1>2, <1>3 DEF Iterates
<1>5. Sums(total)
  BY <1>4
<1>6. \A p \in -1 .. N - 1 : CountUpTo(q, p) = total[p + 1]
  BY DEF CountUpTo
<1> HIDE DEF total
<1>7. /\ total[0] = 0
      /\ \A k \in 1 .. N : total[k] = total[k - 1] + q.subElementCount[k - 1]
  BY <1>0, <1>5
<1>8. \A k \in 0 .. N : total[k] \in Nat
  <2> DEFINE bad == {k \in Nat : k <= N /\ total[k] \notin Nat}
  <2>1. SUFFICES ASSUME bad # {} PROVE FALSE
    BY <1>0
  <2>2. PICK m \in bad : \A h \in bad : m <= h
    BY <2>1, LeastNumber
  <2>3. m # 0
    BY <1>7, <2>2
  <2>4. m \in 1 .. N /\ m - 1 \in Nat /\ m - 1 \notin bad
    BY <1>0, <2>2, <2>3
  <2>5. total[m - 1] \in Nat /\ q.subElementCount[m - 1] \in Nat
    BY <1>0, <2>4, SMTT(30) DEF Counters, Priorities
  <2> QED
    BY <1>7, <2>2, <2>4, <2>5
<1> QED
  <2>1. CountUpTo(q, -1) = 0
    BY <1>0, <1>6, <1>7
  <2>2. ASSUME NEW p \in Priorities
        PROVE  CountUpTo(q, p) = CountUpTo(q, p - 1) + q.subElementCount[p]
    <3>1. /\ p + 1 \in 1 .. N /\ (p + 1) - 1 = p /\ (p - 1) + 1 = p
          /\ p \in -1 .. N - 1 /\ p - 1 \in -1 .. N - 1
      BY <1>0 DEF Priorities
    <3>2. total[p + 1] = total[p] + q.subElementCount[p]
      BY <1>7, <3>1
    <3> QED
      BY <1>6, <3>1, <3>2
  <2>3. ASSUME NEW p \in -1 .. N - 1 PROVE CountUpTo(q, p) \in Nat
    <3>1. p + 1 \in 0 .. N
      BY <1>0
    <3> QED
      BY <1>6, <1>8, <3>1
  <2> QED
    BY <2>1, <2>2, <2>3

\* Later priorities lie behind earlier ones.
LEMMA CountMonotone ==
  ASSUME NEW q, Counters(q), NEW p \in -1 .. PriorityCount - 1,
         NEW r \in -1 .. PriorityCount - 1, p <= r
  PROVE  CountUpTo(q, p) <= CountUpTo(q, r)
<1> DEFINE bad == {d \in Nat : p + d <= PriorityCount - 1
                               /\ ~ (CountUpTo(q, p) <= CountUpTo(q, p + d))}
<1>0. PriorityCount \in Nat \ {0}
  BY PriorityCountAssumption
<1>1. CountUpTo(q, p) \in Nat
  BY CountSteps
<1>2. ASSUME bad # {} PROVE FALSE
  <2>1. PICK m \in bad : \A h \in bad : m <= h
    BY <1>2, LeastNumber
  <2>2. m # 0
    <3>1. p + 0 = p
      BY <1>0
    <3> QED
      BY <1>1, <2>1, <3>1
  <2>3. m \in Nat /\ m - 1 \in Nat /\ m - 1 < m
    BY <2>1, <2>2
  <2>4. /\ m - 1 \notin bad
        /\ p + m \in Priorities /\ (p + m) - 1 = p + (m - 1)
        /\ p + (m - 1) \in -1 .. PriorityCount - 1
    BY <1>0, <2>1, <2>3 DEF Priorities
  <2>5. CountUpTo(q, p) <= CountUpTo(q, p + (m - 1))
    BY <2>3, <2>4
  <2>6. /\ CountUpTo(q, p + m) = CountUpTo(q, p + (m - 1)) + q.subElementCount[p + m]
        /\ CountUpTo(q, p + (m - 1)) \in Nat
    BY <2>4, CountSteps
  <2>7. q.subElementCount[p + m] \in Nat
    BY <2>4 DEF Counters
  <2> QED
    BY <1>1, <2>1, <2>5, <2>6, <2>7
<1>3. r - p \in Nat /\ p + (r - p) = r
  BY <1>0
<1>4. r - p \notin bad
  BY <1>2
<1> QED
  BY <1>0, <1>3, <1>4

\* The sum fits the counter that holds it.
LEMMA CountBound ==
  ASSUME NEW q, q.subElementCount \in [Priorities -> 0 .. SubQueueCount]
  PROVE  CountUpTo(q, PriorityCount - 1) \in 0 .. PriorityCount * SubQueueCount
<1> DEFINE bad == {k \in Nat : k <= PriorityCount
                               /\ ~ (CountUpTo(q, k - 1) <= k * SubQueueCount)}
<1>0. PriorityCount \in Nat \ {0} /\ SubQueueCount \in Nat \ {0} /\ Counters(q)
  BY PriorityCountAssumption, SubQueueCountAssumption DEF Counters
<1>1. ASSUME bad # {} PROVE FALSE
  <2>1. PICK m \in bad : \A h \in bad : m <= h
    BY <1>1, LeastNumber
  <2>2. m # 0
    BY <1>0, <2>1, CountSteps
  <2>3. m - 1 \in Nat /\ m - 1 \notin bad /\ m - 1 \in Priorities
    <3>1. m \in Nat /\ m <= PriorityCount /\ m - 1 \in Nat
      BY <2>1, <2>2
    <3>2. m - 1 \in Priorities
      BY <1>0, <3>1 DEF Priorities
    <3>3. ~ (m <= m - 1)
      BY <3>1
    <3> QED
      BY <2>1, <3>1, <3>2, <3>3
  <2>4. CountUpTo(q, (m - 1) - 1) <= (m - 1) * SubQueueCount
    BY <1>0, <2>1, <2>3
  <2>5. /\ CountUpTo(q, m - 1) = CountUpTo(q, (m - 1) - 1) + q.subElementCount[m - 1]
        /\ CountUpTo(q, (m - 1) - 1) \in Nat
    BY <1>0, <2>3, CountSteps, PrioritiesProperties
  <2>6. q.subElementCount[m - 1] \in 0 .. SubQueueCount
    BY <2>3
  <2>7. (m - 1) * SubQueueCount + SubQueueCount = m * SubQueueCount
    BY <1>0, <2>1
  <2>8. (m - 1) * SubQueueCount \in Int /\ m * SubQueueCount \in Int
    BY <1>0, <2>1
  <2> QED
    BY <1>0, <2>1, <2>4, <2>5, <2>6, <2>7, <2>8
<1>2. CountUpTo(q, PriorityCount - 1) <= PriorityCount * SubQueueCount
  BY <1>0, <1>1
<1>3. CountUpTo(q, PriorityCount - 1) \in Nat
  BY <1>0, CountSteps
<1> QED
  BY <1>0, <1>2, <1>3

\* When one counter changes, the sums from its priority on change by as much.
LEMMA CountChange ==
  ASSUME NEW q, Counters(q), NEW r, Counters(r), NEW p \in Priorities,
         \A h \in Priorities \ {p} : r.subElementCount[h] = q.subElementCount[h],
         NEW n \in -1 .. PriorityCount - 1
  PROVE  CountUpTo(r, n) = IF n < p THEN CountUpTo(q, n)
                           ELSE CountUpTo(q, n) + r.subElementCount[p]
                                  - q.subElementCount[p]
<1> DEFINE Right(k) == CountUpTo(r, k - 1) = IF k <= p THEN CountUpTo(q, k - 1)
                                      ELSE CountUpTo(q, k - 1) + r.subElementCount[p]
                                             - q.subElementCount[p]
           bad == {k \in Nat : k <= PriorityCount /\ ~ Right(k)}
<1>0. PriorityCount \in Nat \ {0} /\ p \in Nat /\ p < PriorityCount
  BY PriorityCountAssumption DEF Priorities
<1>1. ASSUME bad # {} PROVE FALSE
  <2>1. PICK m \in bad : \A h \in bad : m <= h
    BY <1>1, LeastNumber
  <2>2. m # 0
    BY <1>0, <2>1, CountSteps
  <2>3. m - 1 \in Nat /\ m - 1 \notin bad /\ m - 1 \in Priorities
    BY <1>0, <2>1, <2>2 DEF Priorities
  <2>4. Right(m - 1)
    BY <1>0, <2>1, <2>3
  <2>5. /\ CountUpTo(q, m - 1) = CountUpTo(q, (m - 1) - 1) + q.subElementCount[m - 1]
        /\ CountUpTo(q, (m - 1) - 1) \in Nat
        /\ CountUpTo(r, m - 1) = CountUpTo(r, (m - 1) - 1) + r.subElementCount[m - 1]
        /\ CountUpTo(r, (m - 1) - 1) \in Nat
    BY <1>0, <2>3, CountSteps, PrioritiesProperties
  <2>6. /\ q.subElementCount[m - 1] \in Nat /\ r.subElementCount[m - 1] \in Nat
        /\ q.subElementCount[p] \in Nat /\ r.subElementCount[p] \in Nat
    BY <2>3 DEF Counters
  <2>7. CASE m - 1 = p
    <3>1. CountUpTo(r, (m - 1) - 1) = CountUpTo(q, (m - 1) - 1) /\ ~ (m <= p)
      BY <1>0, <2>1, <2>4, <2>7
    <3>2. CountUpTo(r, m - 1) = CountUpTo(q, m - 1) + r.subElementCount[p]
                                  - q.subElementCount[p]
      BY <2>5, <2>6, <2>7, <3>1
    <3> QED
      BY <2>1, <3>1, <3>2
  <2>8. CASE m - 1 # p
    <3>1. r.subElementCount[m - 1] = q.subElementCount[m - 1]
      BY <2>3, <2>8
    <3>2. m <= p <=> m - 1 <= p
      BY <1>0, <2>1, <2>8
    <3> QED
      BY <2>1, <2>4, <2>5, <2>6, <3>1, <3>2
  <2> QED
    BY <2>7, <2>8
<1>2. n + 1 \in Nat /\ n + 1 <= PriorityCount /\ (n + 1) - 1 = n
      /\ (n + 1 <= p <=> n < p)
  BY <1>0
<1>3. Right(n + 1)
  BY <1>1, <1>2
<1> QED
  BY <1>2, <1>3

-----------------------------------------------------------------------------
\* The counters of a consistent queue are the lengths of its lists.
LEMMA GoodCounts ==
  ASSUME NEW q, GoodPQueue(q)
  PROVE  /\ Counters(q)
         /\ q.queueProductCount = CountUpTo(q, PriorityCount - 1)
         /\ q.queueProductCount \in 0 .. PriorityCount * SubQueueCount
         /\ \A p \in Priorities :
              /\ GoodQueue(q.buffer[p]) /\ Listed(q, p) \in Seq(Product)
              /\ q.buffer[p].count = Len(Listed(q, p))
              /\ q.subElementCount[p] = Len(Listed(q, p))
              /\ Len(Listed(q, p)) \in 0 .. SubQueueCount
              /\ CountUpTo(q, p) = CountUpTo(q, p - 1) + Len(Listed(q, p))
              /\ CountUpTo(q, p - 1) \in Nat
              /\ CountUpTo(q, p) <= q.queueProductCount
<1>1. q.subElementCount \in [Priorities -> 0 .. SubQueueCount]
  BY DEF GoodPQueue, PQueueData
<1>2. Counters(q)
  BY <1>1, SubQueueCountAssumption DEF Counters
<1>3. /\ q.queueProductCount = CountUpTo(q, PriorityCount - 1)
      /\ q.queueProductCount \in 0 .. PriorityCount * SubQueueCount
  BY DEF GoodPQueue, PQueueData, CountersAgree
<1>4. ASSUME NEW p \in Priorities
      PROVE  /\ GoodQueue(q.buffer[p]) /\ Listed(q, p) \in Seq(Product)
             /\ q.buffer[p].count = Len(Listed(q, p))
             /\ q.subElementCount[p] = Len(Listed(q, p))
             /\ Len(Listed(q, p)) \in 0 .. SubQueueCount
  BY ContentsProperties DEF GoodPQueue, CountersAgree, Listed
<1>5. ASSUME NEW p \in Priorities
      PROVE  /\ CountUpTo(q, p) = CountUpTo(q, p - 1) + Len(Listed(q, p))
             /\ CountUpTo(q, p - 1) \in Nat
             /\ CountUpTo(q, p) <= q.queueProductCount
  <2>1. p \in -1 .. PriorityCount - 1 /\ p <= PriorityCount - 1
        /\ PriorityCount - 1 \in -1 .. PriorityCount - 1
    BY PriorityCountAssumption DEF Priorities
  <2> QED
    BY <1>2, <1>3, <1>4, <2>1, CountSteps, CountMonotone, PrioritiesProperties, ZenonT(60)
<1> QED
  BY <1>2, <1>3, <1>4, <1>5

\* The entry at local position k of priority p has the global position i.
Place(q, p, k, i) ==
  /\ p \in Priorities
  /\ k \in 0 .. Len(Listed(q, p)) - 1
  /\ i = CountUpTo(q, p - 1) + k

LEMMA PlaceIsUnique ==
  ASSUME NEW q, GoodPQueue(q), NEW p, NEW k, NEW i, Place(q, p, k, i)
  PROVE  /\ i \in 0 .. q.queueProductCount - 1
         /\ \A r, j : Place(q, r, j, i) => r = p /\ j = k
<1>1. ASSUME NEW a, NEW b, Place(q, a, b, i)
      PROVE  /\ CountUpTo(q, a - 1) <= i /\ i < CountUpTo(q, a)
             /\ CountUpTo(q, a) <= q.queueProductCount
             /\ b = i - CountUpTo(q, a - 1)
             /\ {i, CountUpTo(q, a - 1), CountUpTo(q, a), q.queueProductCount} \subseteq Nat
  <2>1. /\ CountUpTo(q, a) = CountUpTo(q, a - 1) + Len(Listed(q, a))
        /\ CountUpTo(q, a - 1) \in Nat /\ Len(Listed(q, a)) \in Nat
        /\ CountUpTo(q, a) <= q.queueProductCount /\ q.queueProductCount \in Nat
    BY <1>1, GoodCounts, PriorityCountAssumption, SubQueueCountAssumption DEF Place
  <2> QED
    BY <1>1, <2>1 DEF Place
<1>2. ASSUME NEW a \in Priorities, NEW b \in Priorities, a < b
      PROVE  CountUpTo(q, a) <= CountUpTo(q, b - 1)
  <2>1. a \in -1 .. PriorityCount - 1 /\ b - 1 \in -1 .. PriorityCount - 1 /\ a <= b - 1
    BY <1>2, PriorityCountAssumption DEF Priorities
  <2> QED
    BY <2>1, CountMonotone, GoodCounts
<1>3. ASSUME NEW r, NEW j, Place(q, r, j, i) PROVE r = p /\ j = k
  <2>1. p \in Priorities /\ r \in Priorities /\ p \in Int /\ r \in Int
    BY <1>3, PriorityCountAssumption DEF Place, Priorities
  <2>2. ~ (p < r) /\ ~ (r < p)
    BY <1>1, <1>2, <1>3, <2>1
  <2>3. r = p
    BY <2>1, <2>2
  <2> QED
    BY <1>1, <1>3, <2>3
<1> QED
  BY <1>1, <1>3

\* The search loop finds the place of a global position.
LEMMA PlaceIsFound ==
  ASSUME NEW q, GoodPQueue(q), NEW i \in 0 .. q.queueProductCount - 1
  PROVE  /\ ~ PastEnd(q, i)
         /\ Place(q, TableIndex(q, i), LocalPosition(q, i), i)
<1>0. /\ q.queueProductCount = CountUpTo(q, PriorityCount - 1)
      /\ q.queueProductCount \in Nat /\ i \in Nat /\ i < q.queueProductCount
      /\ Priorities \subseteq Nat
  BY GoodCounts, PriorityCountAssumption, SubQueueCountAssumption DEF Priorities
<1>1. PriorityCount - 1 \in Located(q, i)
  BY <1>0, PrioritiesProperties DEF Located
<1>2. Located(q, i) \in SUBSET Nat
  BY <1>0 DEF Located
<1>3. \E p \in Located(q, i) : \A h \in Located(q, i) : p <= h
  BY <1>1, <1>2, LeastNumber
<1>4. ~ PastEnd(q, i)
  BY <1>1 DEF PastEnd
<1>5. PICK t : t = TableIndex(q, i)
  OBVIOUS
<1>6. t \in Located(q, i) /\ \A h \in Located(q, i) : t <= h
  BY <1>3, <1>4, <1>5 DEF TableIndex
<1>7. LocalPosition(q, i) = i - CountUpTo(q, t - 1)
  BY <1>4, <1>5 DEF LocalPosition
<1>8. t \in Priorities /\ CountUpTo(q, t) > i
  BY <1>6 DEF Located
<1>9. /\ CountUpTo(q, t) = CountUpTo(q, t - 1) + Len(Listed(q, t))
      /\ CountUpTo(q, t - 1) \in Nat /\ Len(Listed(q, t)) \in Nat
  BY <1>8, GoodCounts, SubQueueCountAssumption
<1>10. CountUpTo(q, t - 1) <= i
  <2>1. CASE t = 0
    BY <1>0, <2>1, CountSteps, GoodCounts
  <2>2. CASE t # 0
    <3>1. t - 1 \in Priorities /\ ~ (t <= t - 1)
      BY <1>8, <2>2, PriorityCountAssumption DEF Priorities
    <3>2. ~ (CountUpTo(q, t - 1) > i)
      BY <1>6, <3>1 DEF Located
    <3> QED
      BY <1>0, <1>9, <3>2
  <2> QED
    BY <2>1, <2>2
<1> QED
  BY <1>0, <1>4, <1>5, <1>7, <1>8, <1>9, <1>10 DEF Place

\* The block answers the entry at a global position.
LEMMA PQGetPlace ==
  ASSUME NEW q, GoodPQueue(q), NEW p, NEW k, NEW i, Place(q, p, k, i)
  PROVE  /\ TableIndex(q, i) = p /\ LocalPosition(q, i) = k /\ ~ PastEnd(q, i)
         /\ PQueue_get(q, i).item = Listed(q, p)[k + 1]
         /\ Listed(q, p)[k + 1] \in Product
<1>1. TableIndex(q, i) = p /\ LocalPosition(q, i) = k /\ ~ PastEnd(q, i)
  BY PlaceIsUnique, PlaceIsFound
<1>2. /\ GoodQueue(q.buffer[p]) /\ q.buffer[p].count \in Nat
      /\ k \in 0 .. q.buffer[p].count - 1 /\ k \in Int
  BY GoodCounts, SubQueueCountAssumption DEF Place
<1>3. Queue_get(q.buffer[p], k).item = Listed(q, p)[k + 1]
  BY <1>2, GetContents DEF Listed
<1>4. Listed(q, p)[k + 1] \in Product
  BY <1>2, ContentsProperties DEF Listed
<1> QED
  BY <1>1, <1>3, <1>4 DEF PQueue_get

-----------------------------------------------------------------------------
LEMMA EmptyPQueueGood ==
  /\ GoodPQueue(EmptyPQueue)
  /\ \A p \in Priorities : Listed(EmptyPQueue, p) = <<>>
<1> DEFINE E == EmptyPQueue
<1>1. PriorityCount * SubQueueCount \in Nat
  BY PriorityCountAssumption, SubQueueCountAssumption
<1>2. \A p \in Priorities :
        /\ E.buffer[p] = EmptyQueue /\ E.subElementCount[p] = 0
        /\ E.isFullBuffer[p] = FALSE /\ E.isEmptyBuffer[p] = TRUE
  BY DEF EmptyPQueue
<1>3. EmptyQueue.count = 0 /\ EmptyQueue \in Queue
  BY EmptyQueueGood DEF EmptyQueue, GoodQueue
<1>4. E \in PQueueData
  BY <1>1, <1>3, SubQueueCountAssumption DEF EmptyPQueue, PQueueData
<1>5. Counters(E)
  BY <1>4, SubQueueCountAssumption DEF PQueueData, Counters
<1>6. CountUpTo(E, PriorityCount - 1) = 0
  <2> DEFINE bad == {n \in Nat : n < PriorityCount /\ CountUpTo(E, n) # 0}
  <2>1. ASSUME bad # {} PROVE FALSE
    <3>1. PICK m \in bad : \A h \in bad : m <= h
      BY <2>1, LeastNumber
    <3>2. m \in Priorities
      BY <3>1, PriorityCountAssumption DEF Priorities
    <3>3. CountUpTo(E, m) = CountUpTo(E, m - 1) + 0
      BY <1>2, <1>5, <3>2, CountSteps
    <3>4. CASE m = 0
      BY <1>5, <3>1, <3>3, <3>4, CountSteps
    <3>5. CASE m # 0
      <4>1. m - 1 \in Nat /\ m - 1 < PriorityCount /\ ~ (m <= m - 1)
        BY <3>2, <3>5, PriorityCountAssumption DEF Priorities
      <4>2. CountUpTo(E, m - 1) = 0
        BY <3>1, <4>1
      <4> QED
        BY <3>1, <3>3, <4>2
    <3> QED
      BY <3>4, <3>5
  <2>2. PriorityCount - 1 \in Nat /\ PriorityCount - 1 < PriorityCount
    BY PriorityCountAssumption
  <2> QED
    BY <2>1, <2>2
<1>7. CountersAgree(E)
  <2>1. E.queueProductCount = 0
    BY DEF EmptyPQueue
  <2>2. 0 # SubQueueCount
    BY SubQueueCountAssumption
  <2> QED
    BY <1>2, <1>3, <1>6, <2>1, <2>2 DEF CountersAgree
<1>8. ASSUME NEW p \in Priorities PROVE Listed(E, p) = <<>>
  BY <1>2, <1>3 DEF Listed, Contents
<1> QED
  BY <1>2, <1>4, <1>7, <1>8, EmptyQueueGood DEF GoodPQueue

\* A priority queue from its fields, in the order of the type.
Fields(buffer, counts, full, empty, total, active) ==
  [buffer             |-> buffer,
   subElementCount    |-> counts,
   isFullBuffer       |-> full,
   isEmptyBuffer      |-> empty,
   queueProductCount  |-> total,
   activeItemPosition |-> active]

LEMMA FieldsOf ==
  ASSUME NEW q \in PQueueData
  PROVE  q = Fields(q.buffer, q.subElementCount, q.isFullBuffer, q.isEmptyBuffer,
                    q.queueProductCount, q.activeItemPosition)
BY DEF Fields, PQueueData

\* Flagged, and the changes the blocks make after it, field by field.
LEMMA FlaggedFields ==
  ASSUME NEW b, NEW c, NEW f, NEW e, NEW n, NEW a, NEW ring, NEW p
  PROVE  Flagged(Fields(b, c, f, e, n, a), p, ring) =
           Fields([b EXCEPT ![p] = ring], c,
                  [f EXCEPT ![p] = (ring.count = SubQueueCount)],
                  [e EXCEPT ![p] = (ring.count = 0)], n, a)
<1> DEFINE q == Fields(b, c, f, e, n, a)
           b2 == [b EXCEPT ![p] = ring]
<1>1. PICK full : full = (ring.count = SubQueueCount)
  OBVIOUS
<1>2. PICK empty : empty = (ring.count = 0)
  OBVIOUS
<1> DEFINE f2 == [f EXCEPT ![p] = full]
           e2 == [e EXCEPT ![p] = empty]
<1>3. Flagged(q, p, ring) = [[[q EXCEPT !.buffer[p] = ring]
                                 EXCEPT !.isFullBuffer[p] = full]
                                 EXCEPT !.isEmptyBuffer[p] = empty]
  BY <1>1, <1>2 DEF Flagged
<1>4. [q EXCEPT !.buffer[p] = ring] = Fields(b2, c, f, e, n, a)
  BY DEF Fields
<1>5. [Fields(b2, c, f, e, n, a) EXCEPT !.isFullBuffer[p] = full]
        = Fields(b2, c, f2, e, n, a)
  BY DEF Fields
<1>6. [Fields(b2, c, f2, e, n, a) EXCEPT !.isEmptyBuffer[p] = empty]
        = Fields(b2, c, f2, e2, n, a)
  BY DEF Fields
<1>7. Flagged(q, p, ring) = Fields(b2, c, f2, e2, n, a)
  <2> HIDE DEF q, b2, f2, e2
  <2> QED
    BY <1>3, <1>4, <1>5, <1>6
<1> QED
  BY <1>1, <1>2, <1>7

\* The queue q with the ring of priority p replaced and all that counts it.
Replaced(q, p, ring) ==
  Fields([q.buffer EXCEPT ![p] = ring],
         [q.subElementCount EXCEPT ![p] = ring.count],
         [q.isFullBuffer EXCEPT ![p] = (ring.count = SubQueueCount)],
         [q.isEmptyBuffer EXCEPT ![p] = (ring.count = 0)],
         q.queueProductCount + (ring.count - q.buffer[p].count),
         q.activeItemPosition)

\* What the blocks do to the counters after Flagged.
OneMore(q, p) == [q EXCEPT !.queueProductCount = @ + 1, !.subElementCount[p] = @ + 1]
OneLess(q, p) == [q EXCEPT !.subElementCount[p] = @ - 1]
Totalled(q, total) == [q EXCEPT !.queueProductCount = total]

\* It completes the change.
LEMMA FlaggedOneMore ==
  ASSUME NEW q \in PQueueData, NEW p, NEW ring,
         q.subElementCount[p] + 1 = ring.count,
         q.queueProductCount + 1 = q.queueProductCount + (ring.count - q.buffer[p].count)
  PROVE  OneMore(Flagged(q, p, ring), p) = Replaced(q, p, ring)
<1>0. PICK x : x = Flagged(q, p, ring)
  OBVIOUS
<1>1. PICK b, f, e, c, n, a :
        /\ b = [q.buffer EXCEPT ![p] = ring] /\ c = q.subElementCount
        /\ f = [q.isFullBuffer EXCEPT ![p] = (ring.count = SubQueueCount)]
        /\ e = [q.isEmptyBuffer EXCEPT ![p] = (ring.count = 0)]
        /\ n = q.queueProductCount /\ a = q.activeItemPosition
  OBVIOUS
<1>2. x = Fields(b, c, f, e, n, a)
  BY <1>0, <1>1, FieldsOf, FlaggedFields
<1>3. OneMore(x, p) =
          [[x EXCEPT !.queueProductCount = x.queueProductCount + 1]
             EXCEPT !.subElementCount[p] = x.subElementCount[p] + 1]
  BY DEF OneMore
<1>4. x.queueProductCount = n /\ x.subElementCount = c
  BY <1>2 DEF Fields
<1>5. PICK total, count : total = n + 1 /\ count = c[p] + 1
  OBVIOUS
<1>6. [Fields(b, c, f, e, n, a) EXCEPT !.queueProductCount = total]
        = Fields(b, c, f, e, total, a)
  BY DEF Fields
<1>7. [Fields(b, c, f, e, total, a) EXCEPT !.subElementCount[p] = count]
        = Fields(b, [c EXCEPT ![p] = count], f, e, total, a)
  BY DEF Fields
<1>8. Replaced(q, p, ring) = Fields(b, [c EXCEPT ![p] = count], f, e, total, a)
  BY <1>1, <1>5 DEF Replaced
<1> QED
  BY <1>0, <1>2, <1>3, <1>4, <1>5, <1>6, <1>7, <1>8, ZenonT(60)

LEMMA FlaggedOneLess ==
  ASSUME NEW q \in PQueueData, NEW p, NEW ring, NEW total,
         total = q.queueProductCount + (ring.count - q.buffer[p].count),
         q.subElementCount[p] - 1 = ring.count
  PROVE  LET x == OneLess(Flagged(q, p, ring), p)
         IN /\ x.subElementCount = [q.subElementCount EXCEPT ![p] = ring.count]
            /\ Totalled(x, total) = Replaced(q, p, ring)
<1>1. PICK b, f, e, c, n, a :
        /\ b = [q.buffer EXCEPT ![p] = ring] /\ c = q.subElementCount
        /\ f = [q.isFullBuffer EXCEPT ![p] = (ring.count = SubQueueCount)]
        /\ e = [q.isEmptyBuffer EXCEPT ![p] = (ring.count = 0)]
        /\ n = q.queueProductCount /\ a = q.activeItemPosition
  OBVIOUS
<1>2. PICK y : y = Flagged(q, p, ring)
  OBVIOUS
<1>3. y = Fields(b, c, f, e, n, a)
  BY <1>1, <1>2, FieldsOf, FlaggedFields
<1>4. y.subElementCount = c
  BY <1>3 DEF Fields
<1>5. PICK count : count = ring.count
  OBVIOUS
<1> DEFINE x == OneLess(Flagged(q, p, ring), p)
<1>6. x = [y EXCEPT !.subElementCount[p] = count]
  BY <1>1, <1>2, <1>4, <1>5 DEF OneLess
<1>7. [Fields(b, c, f, e, n, a) EXCEPT !.subElementCount[p] = count]
        = Fields(b, [c EXCEPT ![p] = count], f, e, n, a)
  BY DEF Fields
<1>8. x = Fields(b, [c EXCEPT ![p] = count], f, e, n, a)
  BY <1>3, <1>6, <1>7
<1> HIDE DEF x
<1>9. [Fields(b, [c EXCEPT ![p] = count], f, e, n, a) EXCEPT !.queueProductCount = total]
        = Fields(b, [c EXCEPT ![p] = count], f, e, total, a)
  BY DEF Fields
<1>10. Replaced(q, p, ring) = Fields(b, [c EXCEPT ![p] = count], f, e, total, a)
  BY <1>1, <1>5 DEF Replaced
<1>11. x.subElementCount = [q.subElementCount EXCEPT ![p] = ring.count]
  BY <1>1, <1>5, <1>8 DEF Fields
<1>12. Totalled(x, total) = Replaced(q, p, ring)
  BY <1>8, <1>9, <1>10 DEF Totalled
<1> QED
  BY <1>11, <1>12 DEF x

LEMMA ReplacedGood ==
  ASSUME NEW q, GoodPQueue(q), NEW p \in Priorities, NEW ring, GoodQueue(ring)
  PROVE  /\ GoodPQueue(Replaced(q, p, ring))
         /\ \A h \in Priorities :
              Listed(Replaced(q, p, ring), h) = IF h = p THEN Contents(ring)
                                                         ELSE Listed(q, h)
<1>1. PICK n : n = Replaced(q, p, ring)
  OBVIOUS
<1>2. q \in PQueueData /\ ring \in Queue /\ ring.count \in 0 .. SubQueueCount
  BY DEF GoodPQueue, GoodQueue, Queue
<1>3. /\ n.buffer = [q.buffer EXCEPT ![p] = ring]
      /\ n.subElementCount = [q.subElementCount EXCEPT ![p] = ring.count]
      /\ n.queueProductCount = q.queueProductCount + (ring.count - q.buffer[p].count)
      /\ n.activeItemPosition = q.activeItemPosition
      /\ n.isFullBuffer = [q.isFullBuffer EXCEPT ![p] = (ring.count = SubQueueCount)]
      /\ n.isEmptyBuffer = [q.isEmptyBuffer EXCEPT ![p] = (ring.count = 0)]
  BY <1>1 DEF Replaced, Fields
<1>4. n.subElementCount \in [Priorities -> 0 .. SubQueueCount]
  BY <1>2, <1>3 DEF PQueueData
<1>5. Counters(n) /\ Counters(q)
  BY <1>4, GoodCounts, SubQueueCountAssumption DEF Counters
<1>6. n.queueProductCount = CountUpTo(n, PriorityCount - 1)
  <2>1. /\ \A h \in Priorities \ {p} : n.subElementCount[h] = q.subElementCount[h]
        /\ n.subElementCount[p] = ring.count
        /\ q.subElementCount[p] = q.buffer[p].count
    BY <1>2, <1>3, GoodCounts DEF PQueueData
  <2>2. ~ (PriorityCount - 1 < p) /\ PriorityCount - 1 \in -1 .. PriorityCount - 1
    BY PriorityCountAssumption DEF Priorities
  <2>3. CountUpTo(n, PriorityCount - 1) = CountUpTo(q, PriorityCount - 1)
                                  + n.subElementCount[p] - q.subElementCount[p]
    BY <1>5, <2>1, <2>2, CountChange
  <2>4. q.buffer[p].count \in Nat
    BY GoodCounts, SubQueueCountAssumption
  <2> QED
    BY <1>2, <1>3, <2>1, <2>3, <2>4, GoodCounts
<1>7. n.queueProductCount \in 0 .. PriorityCount * SubQueueCount
  BY <1>4, <1>6, CountBound
<1>8. n \in PQueueData
  <2>1. n.buffer \in [Priorities -> Queue]
    BY <1>2, <1>3 DEF PQueueData
  <2>2. n.isFullBuffer \in [Priorities -> BOOLEAN] /\ n.isEmptyBuffer \in [Priorities -> BOOLEAN]
    BY <1>2, <1>3 DEF PQueueData
  <2>3. n.activeItemPosition \in -1 .. PriorityCount * SubQueueCount
    BY <1>2, <1>3 DEF PQueueData
  <2> QED
    BY <1>1, <1>4, <1>7, <2>1, <2>2, <2>3 DEF PQueueData, Replaced, Fields
<1>9. \A h \in Priorities : n.buffer[h] = IF h = p THEN ring ELSE q.buffer[h]
  BY <1>2, <1>3 DEF PQueueData
<1>10. CountersAgree(n)
  <2>1. ASSUME NEW h \in Priorities
        PROVE  /\ n.subElementCount[h] = n.buffer[h].count
               /\ n.isFullBuffer[h] = (n.buffer[h].count = SubQueueCount)
               /\ n.isEmptyBuffer[h] = (n.buffer[h].count = 0)
    <3>1. /\ q.subElementCount[h] = q.buffer[h].count
          /\ q.isFullBuffer[h] = (q.buffer[h].count = SubQueueCount)
          /\ q.isEmptyBuffer[h] = (q.buffer[h].count = 0)
      BY DEF GoodPQueue, CountersAgree
    <3>2. CASE h = p
      <4>1. /\ n.subElementCount[h] = ring.count
            /\ n.isFullBuffer[h] = (ring.count = SubQueueCount)
            /\ n.isEmptyBuffer[h] = (ring.count = 0)
        BY <1>2, <1>3, <3>2, Zenon DEF PQueueData
      <4> QED
        BY <1>9, <3>2, <4>1, Zenon
    <3>3. CASE h # p
      <4>1. /\ n.subElementCount[h] = q.subElementCount[h]
            /\ n.isFullBuffer[h] = q.isFullBuffer[h]
            /\ n.isEmptyBuffer[h] = q.isEmptyBuffer[h]
        BY <1>2, <1>3, <3>3, Zenon DEF PQueueData
      <4> QED
        BY <1>9, <3>1, <3>3, <4>1, Zenon
    <3> QED
      BY <3>2, <3>3
  <2> QED
    BY <1>6, <2>1 DEF CountersAgree
<1>11. GoodPQueue(n)
  BY <1>8, <1>9, <1>10 DEF GoodPQueue
<1>12. \A h \in Priorities : Listed(n, h) = IF h = p THEN Contents(ring) ELSE Listed(q, h)
  BY <1>9 DEF Listed
<1> QED
  BY <1>1, <1>11, <1>12

\* A push keeps the queue consistent.  It is refused when the list of the
\* priority is full and otherwise appends to that list.
LEMMA PQPush ==
  ASSUME NEW q, GoodPQueue(q), NEW item \in Product, NEW p \in Priorities,
         NEW r, r = PQueue_push(q, item, p)
  PROVE  /\ GoodPQueue(r.pqueue)
         /\ r.pqueue.activeItemPosition = q.activeItemPosition
         /\ Len(Listed(q, p)) = SubQueueCount =>
              r.status = "PQErrBufferIsFull" /\ r.pqueue = q
         /\ Len(Listed(q, p)) # SubQueueCount =>
              /\ r.status = PQNoError
              /\ r.pqueue.queueProductCount = q.queueProductCount + 1
              /\ \A h \in Priorities :
                   Listed(r.pqueue, h) = IF h = p THEN Append(Listed(q, p), item)
                                                  ELSE Listed(q, h)
<1>1. /\ q.isFullBuffer[p] = (Len(Listed(q, p)) = SubQueueCount)
      /\ GoodQueue(q.buffer[p]) /\ Listed(q, p) \in Seq(Product)
      /\ q.buffer[p].count = Len(Listed(q, p))
      /\ q.subElementCount[p] = Len(Listed(q, p))
      /\ Len(Listed(q, p)) \in 0 .. SubQueueCount
  BY GoodCounts DEF GoodPQueue, CountersAgree
<1>2. CASE Len(Listed(q, p)) = SubQueueCount
  <2>1. r = [status |-> "PQErrBufferIsFull", pqueue |-> q]
    BY <1>1, <1>2 DEF PQueue_push
  <2> QED
    BY <1>2, <2>1
<1>3. CASE Len(Listed(q, p)) # SubQueueCount
  <2>1. PICK one, ring : one = Queue_push(q.buffer[p], item) /\ ring = one.queue
    OBVIOUS
  <2>2. /\ one.status = PQNoError /\ GoodQueue(ring)
        /\ ring.count = Len(Listed(q, p)) + 1
        /\ Contents(ring) = Append(Listed(q, p), item)
    BY <1>1, <1>3, <2>1, PushContents, PushGood, ZenonT(60) DEF Listed
  <2>3. r = [status |-> one.status,
             pqueue |-> [Flagged(q, p, ring)
                        EXCEPT !.queueProductCount   = @ + 1,
                               !.subElementCount[p] = @ + 1]]
    BY <1>1, <1>3, <2>1 DEF PQueue_push
  <2>4. q \in PQueueData /\ Len(Listed(q, p)) \in Int /\ q.queueProductCount \in Int
    BY <1>1, GoodCounts DEF GoodPQueue
  <2>5. r.status = PQNoError /\ r.pqueue = Replaced(q, p, ring)
    <3>1. /\ q.subElementCount[p] + 1 = ring.count
          /\ q.queueProductCount + 1
               = q.queueProductCount + (ring.count - q.buffer[p].count)
      BY <1>1, <2>2, <2>4
    <3>2. OneMore(Flagged(q, p, ring), p) = Replaced(q, p, ring)
      BY <2>4, <3>1, FlaggedOneMore
    <3>3. r.pqueue = OneMore(Flagged(q, p, ring), p)
      BY <2>3 DEF OneMore
    <3> QED
      BY <2>2, <2>3, <3>2, <3>3
  <2>6. r.pqueue.queueProductCount = q.queueProductCount + 1
    BY <1>1, <2>2, <2>4, <2>5 DEF Replaced, Fields
  <2>7. r.pqueue.activeItemPosition = q.activeItemPosition
    BY <2>5 DEF Replaced, Fields
  <2>8. /\ GoodPQueue(r.pqueue)
        /\ \A h \in Priorities :
             Listed(r.pqueue, h) = IF h = p THEN Append(Listed(q, p), item)
                                            ELSE Listed(q, h)
    <3>1. /\ GoodPQueue(r.pqueue)
          /\ \A h \in Priorities :
               Listed(r.pqueue, h) = IF h = p THEN Contents(ring) ELSE Listed(q, h)
      BY <2>2, <2>5, ReplacedGood
    <3> QED
      BY <2>2, <3>1
  <2> QED
    BY <1>3, <2>5, <2>6, <2>7, <2>8
<1> QED
  BY <1>2, <1>3

\* A removal at the global position of an entry takes just that entry out.
LEMMA PQRemove ==
  ASSUME NEW q, GoodPQueue(q), NEW p, NEW k, NEW i, Place(q, p, k, i),
         NEW r, r = PQueue_removeByPosition(q, i)
  PROVE  /\ GoodPQueue(r.pqueue) /\ r.status = PQNoError
         /\ r.pqueue.activeItemPosition = q.activeItemPosition
         /\ r.pqueue.queueProductCount = q.queueProductCount - 1
         /\ \A h \in Priorities :
              Listed(r.pqueue, h) = IF h = p THEN RemoveAt(Listed(q, p), k + 1)
                                             ELSE Listed(q, h)
<1>1. /\ p \in Priorities /\ GoodQueue(q.buffer[p])
      /\ q.buffer[p].count = Len(Listed(q, p))
      /\ q.subElementCount[p] = Len(Listed(q, p))
      /\ Len(Listed(q, p)) \in Nat /\ k \in 0 .. q.buffer[p].count - 1
      /\ q.buffer[p].count > 0
  BY GoodCounts, SubQueueCountAssumption DEF Place
<1>2. TableIndex(q, i) = p /\ LocalPosition(q, i) = k /\ ~ PastEnd(q, i)
  BY PQGetPlace
<1>3. PICK one, ring : one = Queue_remove(q.buffer[p], k) /\ ring = one.queue
  OBVIOUS
<1>4. /\ one.status = PQNoError /\ GoodQueue(ring)
      /\ ring.count = Len(Listed(q, p)) - 1
      /\ Contents(ring) = RemoveAt(Listed(q, p), k + 1)
  BY <1>1, <1>3, RemoveGood, RemoveContents DEF Listed
<1>5. PICK removed : removed = OneLess(Flagged(q, p, ring), p)
  OBVIOUS
<1>6. r = [status |-> one.status,
           pqueue |-> Totalled(removed, CountUpTo(removed, PriorityCount - 1))]
  BY <1>2, <1>3, <1>4, <1>5 DEF PQueue_removeByPosition, OneLess, Totalled
<1>7. PICK n : n = Replaced(q, p, ring)
  OBVIOUS
<1>8. GoodPQueue(n)
  BY <1>1, <1>4, <1>7, ReplacedGood
<1>9. /\ q \in PQueueData /\ Counters(q)
      /\ q.queueProductCount \in Nat
  BY GoodCounts, PriorityCountAssumption, SubQueueCountAssumption DEF GoodPQueue
<1>10. PICK total : total = q.queueProductCount + (ring.count - q.buffer[p].count)
  OBVIOUS
<1>11. /\ removed.subElementCount = n.subElementCount /\ n.queueProductCount = total
       /\ Totalled(removed, total) = n
  <2>1. q.subElementCount[p] - 1 = ring.count
    BY <1>1, <1>4
  <2>2. /\ removed.subElementCount = [q.subElementCount EXCEPT ![p] = ring.count]
        /\ Totalled(removed, total) = Replaced(q, p, ring)
    BY <1>5, <1>9, <1>10, <2>1, FlaggedOneLess
  <2> QED
    BY <1>7, <1>10, <2>2 DEF Replaced, Fields
<1>12. CountUpTo(removed, PriorityCount - 1) = n.queueProductCount
  <2>1. Counters(n) /\ Counters(removed)
    BY <1>8, <1>11, GoodCounts DEF Counters
  <2>2. PriorityCount - 1 \in -1 .. PriorityCount - 1 /\ n.subElementCount[p] \in Nat
    BY <1>1, <2>1, PriorityCountAssumption DEF Counters
  <2>3. CountUpTo(removed, PriorityCount - 1) =
          IF PriorityCount - 1 < p THEN CountUpTo(n, PriorityCount - 1)
          ELSE CountUpTo(n, PriorityCount - 1) + n.subElementCount[p] - n.subElementCount[p]
    BY <1>1, <1>11, <2>1, <2>2, CountChange
  <2>4. CountUpTo(n, PriorityCount - 1) \in Nat
    BY <2>1, <2>2, CountSteps
  <2> QED
    BY <1>8, <2>2, <2>3, <2>4, GoodCounts
<1>13. r.status = PQNoError /\ r.pqueue = n
  BY <1>4, <1>6, <1>11, <1>12
<1>14. /\ n.queueProductCount = q.queueProductCount - 1
       /\ n.activeItemPosition = q.activeItemPosition
  BY <1>1, <1>4, <1>7, <1>9 DEF Replaced, Fields
<1>15. \A h \in Priorities :
         Listed(n, h) = IF h = p THEN Contents(ring) ELSE Listed(q, h)
  BY <1>1, <1>4, <1>7, ReplacedGood
<1> QED
  BY <1>4, <1>8, <1>13, <1>14, <1>15

\* The find answers whether the id is in some list, and a position below the
\* length of the list.
LEMMA PQFind ==
  ASSUME NEW q, GoodPQueue(q), NEW id, NEW answer, answer = PQueue_find(q, id)
  PROVE  /\ answer.found <=> \E p \in Priorities : \E k \in 1 .. Len(Listed(q, p)) :
                               Listed(q, p)[k].id = id
         /\ answer.found => answer.position \in 0 .. q.queueProductCount - 1
         /\ answer.position \in Nat
<1> DEFINE one(p) == Queue_find(q.buffer[p], id)
           answers == [p \in Priorities |-> Queue_find(q.buffer[p], id)]
           hits == {p \in Priorities : answers[p].found}
<1>1. ASSUME NEW p \in Priorities
      PROVE  /\ one(p).found <=> \E k \in 1 .. Len(Listed(q, p)) : Listed(q, p)[k].id = id
             /\ one(p).found => one(p).position \in 0 .. Len(Listed(q, p)) - 1
  BY GoodCounts, FindContents DEF Listed
<1>2. hits = {p \in Priorities : one(p).found}
  OBVIOUS
<1>3. CASE hits = {}
  <2>1. answer = [found |-> FALSE, position |-> 0]
    BY <1>3 DEF PQueue_find
  <2> QED
    <3>1. ~ answer.found /\ answer.position = 0
      BY <2>1
    <3>2. \A p \in Priorities : ~ one(p).found
      BY <1>2, <1>3
    <3> HIDE DEF one
    <3> QED
      BY <1>1, <3>1, <3>2
<1>4. CASE hits # {}
  <2>1. hits \in SUBSET Nat
    BY PriorityCountAssumption DEF Priorities
  <2>2. \E p \in hits : \A h \in hits : p <= h
    BY <1>4, <2>1, LeastNumber
  <2>3. PICK t : t = CHOOSE p \in hits : \A h \in hits : p <= h
    OBVIOUS
  <2>4. t \in hits
    BY <2>2, <2>3
  <2>5. answer = [found |-> TRUE, position |-> one(t).position]
    BY <1>4, <2>3, <2>4 DEF PQueue_find
  <2>6. /\ Len(Listed(q, t)) \in Nat /\ CountUpTo(q, t - 1) \in Nat
        /\ CountUpTo(q, t) = CountUpTo(q, t - 1) + Len(Listed(q, t))
        /\ CountUpTo(q, t) <= q.queueProductCount /\ q.queueProductCount \in Nat
    BY <2>4, GoodCounts, SubQueueCountAssumption, PriorityCountAssumption
  <2>7. one(t).position \in 0 .. Len(Listed(q, t)) - 1
    BY <1>1, <2>4
  <2>8. one(t).position \in 0 .. q.queueProductCount - 1
    BY <2>6, <2>7
  <2>9. answer.found /\ answer.position = one(t).position
    BY <2>5
  <2>10. t \in Priorities /\ one(t).found
    BY <1>2, <2>4
  <2> HIDE DEF one
  <2> QED
    BY <1>1, <2>6, <2>8, <2>9, <2>10
<1> QED
  BY <1>3, <1>4

-----------------------------------------------------------------------------
\* The entries by place: what lies at a global position is the entry with the
\* next index of Entries.
LEMMA EntriesByPlace ==
  ASSUME NEW q, GoodPQueue(q)
  PROVE  /\ Entries(q) \in Seq(Product) /\ Len(Entries(q)) = q.queueProductCount
         /\ \A p, k, i : Place(q, p, k, i) => Entries(q)[i + 1] = Listed(q, p)[k + 1]
<1> DEFINE N == PriorityCount
           step == [t \in Nat \X Seq(Product) |->
                      IF t[1] \in Priorities THEN t[2] \o Listed(q, t[1]) ELSE t[2]]
           joined(f, n) == f[n - 1] \o Contents(q.buffer[n - 1])
           Joins(f) == f = [n \in 0 .. N |-> IF n = 0 THEN <<>> ELSE joined(f, n)]
           upTo == CHOOSE f : Joins(f)
<1>0. N \in Nat /\ N # 0 /\ <<>> \in Seq(Product)
  BY PriorityCountAssumption
<1>1. \A p \in Priorities : Listed(q, p) \in Seq(Product)
  BY GoodCounts
<1>2. step \in [Nat \X Seq(Product) -> Seq(Product)]
  BY <1>1, ConcatProperties
<1>3. PICK f \in [0 .. N -> Seq(Product)] : Iterates(f, N, <<>>, step)
  <2> HIDE DEF step, N
  <2> QED
    BY <1>0, <1>2, Recursion
<1>4. ASSUME NEW n \in 1 .. N PROVE f[n] = joined(f, n)
  <2>1. n - 1 \in Nat /\ n - 1 \in Priorities /\ n - 1 \in 0 .. N
    BY <1>0 DEF Priorities
  <2>2. f[n - 1] \in Seq(Product)
    BY <1>3, <2>1
  <2>3. step[<<n - 1, f[n - 1]>>] = f[n - 1] \o Listed(q, n - 1)
    BY <2>1, <2>2
  <2>4. f[n] = step[<<n - 1, f[n - 1]>>]
    BY <1>3 DEF Iterates
  <2> HIDE DEF step
  <2> QED
    BY <2>3, <2>4 DEF Listed
<1>5. Joins(f)
  <2>1. f[0] = <<>>
    BY <1>3 DEF Iterates
  <2>2. ASSUME NEW n \in 0 .. N
        PROVE  f[n] = IF n = 0 THEN <<>> ELSE joined(f, n)
    <3>1. n = 0 \/ n \in 1 .. N
      BY <1>0
    <3> HIDE DEF joined
    <3> QED
      BY <1>4, <2>1, <3>1
  <2> HIDE DEF step, joined
  <2> QED
    BY <1>3, <2>2
<1>6. Joins(upTo)
  BY <1>5, Zenon
<1>7. Entries(q) = upTo[N]
  BY DEF Entries
<1> HIDE DEF upTo
<1>8. /\ upTo[0] = <<>>
      /\ \A n \in 1 .. N : upTo[n] = upTo[n - 1] \o Listed(q, n - 1)
  <2>1. ASSUME NEW n \in 0 .. N
        PROVE  upTo[n] = IF n = 0 THEN <<>> ELSE joined(upTo, n)
    <3> HIDE DEF joined
    <3> QED
      BY <1>6
  <2>2. upTo[0] = <<>>
    BY <1>0, <2>1
  <2>3. ASSUME NEW n \in 1 .. N PROVE upTo[n] = upTo[n - 1] \o Listed(q, n - 1)
    <3>1. n \in 0 .. N /\ n # 0
      BY <1>0
    <3> QED
      BY <2>1, <3>1 DEF Listed
  <2> QED
    BY <2>2, <2>3
<1> DEFINE Right(n) ==
             /\ upTo[n] \in Seq(Product) /\ Len(upTo[n]) = CountUpTo(q, n - 1)
             /\ \A p, k, i : Place(q, p, k, i) /\ p < n =>
                               upTo[n][i + 1] = Listed(q, p)[k + 1]
<1>9. \A n \in 0 .. N : Right(n)
  <2> DEFINE bad == {n \in Nat : n <= N /\ ~ Right(n)}
  <2>1. SUFFICES ASSUME bad # {} PROVE FALSE
    <3> HIDE DEF Right
    <3> QED
      BY <1>0
  <2>2. PICK n \in bad : \A h \in bad : n <= h
    <3> HIDE DEF Right
    <3> QED
      BY <2>1, LeastNumber
  <2>3. n # 0
    <3>1. Right(0)
      <4>1. ASSUME NEW p, NEW k, NEW i, Place(q, p, k, i) PROVE ~ (p < 0)
        BY <4>1, PriorityCountAssumption DEF Place, Priorities
      <4> QED
        BY <1>0, <1>8, <4>1, GoodCounts, CountSteps
    <3> QED
      BY <2>2, <3>1
  <2>4. n \in Nat /\ n \in 1 .. N /\ n - 1 \in Nat /\ n - 1 \in Priorities /\ ~ (n <= n - 1)
    BY <1>0, <2>2, <2>3 DEF Priorities
  <2>5. n - 1 <= N
    BY <1>0, <2>4
  <2>6. Right(n - 1)
    <3> HIDE DEF Right
    <3> QED
      BY <2>2, <2>4, <2>5
  <2>7. PICK s, c, m : s = upTo[n - 1] /\ c = Listed(q, n - 1) /\ m = n - 1
    OBVIOUS
  <2>8. /\ upTo[n] = s \o c /\ s \in Seq(Product) /\ c \in Seq(Product)
        /\ Len(s) = CountUpTo(q, m - 1) /\ CountUpTo(q, m) = CountUpTo(q, m - 1) + Len(c)
        /\ CountUpTo(q, m - 1) \in Nat
    BY <1>8, <2>4, <2>6, <2>7, GoodCounts
  <2>9. /\ s \o c \in Seq(Product) /\ Len(s \o c) = Len(s) + Len(c)
        /\ \A i \in 1 .. Len(s) + Len(c) :
             (s \o c)[i] = IF i <= Len(s) THEN s[i] ELSE c[i - Len(s)]
    BY <2>8, ConcatProperties
  <2>10. ASSUME NEW p, NEW k, NEW i, Place(q, p, k, i), p < n
         PROVE  upTo[n][i + 1] = Listed(q, p)[k + 1]
    <3>1. /\ p \in Priorities /\ k \in 0 .. Len(Listed(q, p)) - 1
          /\ i = CountUpTo(q, p - 1) + k /\ CountUpTo(q, p - 1) \in Nat
          /\ CountUpTo(q, p) = CountUpTo(q, p - 1) + Len(Listed(q, p))
          /\ Len(Listed(q, p)) \in Nat /\ k \in Nat /\ i \in Nat
      BY <2>10, GoodCounts, SubQueueCountAssumption, SMTT(30) DEF Place
    <3>2. CASE p = m
      <4>1. /\ i + 1 \in 1 .. Len(s) + Len(c) /\ ~ (i + 1 <= Len(s))
            /\ (i + 1) - Len(s) = k + 1
        BY <2>7, <2>8, <3>1, <3>2, SMTT(30)
      <4> QED
        BY <2>7, <2>8, <2>9, <3>2, <4>1
    <3>3. CASE p # m
      <4>1. p <= m - 1 /\ p < n - 1 /\ p \in -1 .. N - 1 /\ m - 1 \in -1 .. N - 1
        BY <1>0, <2>4, <2>7, <2>10, <3>1, <3>3 DEF Priorities
      <4>2. CountUpTo(q, p) <= CountUpTo(q, m - 1)
        BY <4>1, CountMonotone, GoodCounts
      <4>3. i + 1 \in 1 .. Len(s) + Len(c) /\ i + 1 <= Len(s)
        <5>1. CountUpTo(q, p) \in Nat /\ Len(c) \in Nat
          BY <2>8, <3>1, LenProperties
        <5> QED
          BY <2>8, <3>1, <4>2, <5>1, SMTT(30)
      <4>4. s[i + 1] = Listed(q, p)[k + 1]
        BY <2>6, <2>7, <2>10, <4>1
      <4> QED
        BY <2>8, <2>9, <4>3, <4>4
    <3> QED
      BY <3>2, <3>3
  <2>11. Right(n)
    <3>1. upTo[n] \in Seq(Product) /\ Len(upTo[n]) = CountUpTo(q, n - 1)
      BY <2>7, <2>8, <2>9
    <3> QED
      BY <2>10, <3>1
  <2> QED
    BY <2>2, <2>11
<1>10. Right(N)
  <2> HIDE DEF Right
  <2> QED
    BY <1>0, <1>9
<1>11. ASSUME NEW p, NEW k, NEW i, Place(q, p, k, i) PROVE p < N
  BY <1>11, PriorityCountAssumption DEF Place, Priorities
<1> QED
  BY <1>7, <1>10, <1>11, GoodCounts
=============================================================================
