---------------------------- MODULE ProductQueue ----------------------------
(***************************************************************************)
(* The ring buffer of products the PLC blocks share: the type              *)
(* "typeArrayOfProducts" and the functions Queue_push, Queue_get,          *)
(* Queue_find and Queue_remove of PLC_code/program_block/Queue functions.  *)
(* Both the queue of reported products (RPQueue) and every priority of the *)
(* priority queue (PQueue) are such a buffer.                              *)
(*                                                                         *)
(* A queue is a record                                                     *)
(*   product : the array, indexed 0 .. SubQueueCount-1                     *)
(*   first   : statFirstItemIndex, PQStatusBufferIsEmpty when empty        *)
(*   next    : statNextEmptyItemIndex                                      *)
(*   count   : statElementCount                                            *)
(* The functions are operators that return the new queue (if they change   *)
(* it) with the status word; the SCL output "error" is status # PQNoError. *)
(*                                                                         *)
(* In this and the other modules an operator named Slip_... is wrong on    *)
(* purpose: the definition after it with one likely mistake in it, which   *)
(* a property has to tell from the code (README, "What the properties      *)
(* catch").  Nothing else uses it.                                         *)
(***************************************************************************)
EXTENDS Integers, Sequences

CONSTANTS SubQueueCount,   \* length of the array
          Product,         \* the products clients may queue, records with an id
          emptyItem        \* what an unused slot holds

ASSUME SubQueueCountAssumption == SubQueueCount \in Nat \ {0}
ASSUME ProductAssumption == emptyItem \notin Product

SubQueueCountSmall == SubQueueCount - 1
PQStatusBufferIsEmpty == -1
PQNoError == "PQNoError"

Slots == 0 .. SubQueueCountSmall

Queue == [product : [Slots -> Product \cup {emptyItem}],
          first   : {PQStatusBufferIsEmpty} \cup Slots,
          next    : Slots,
          count   : 0 .. SubQueueCount]

EmptyQueue == [product |-> [i \in Slots |-> emptyItem],
               first   |-> PQStatusBufferIsEmpty,
               next    |-> 0,
               count   |-> 0]

\* The checks a function starts with: the indices lie in the array, then its
\* own reason to refuse the call.
EntryStatus(q, refused, reason) ==
  IF q.next >= SubQueueCount THEN "PQErrIndexInArrayLimits1"
  ELSE IF q.first >= SubQueueCount THEN "PQErrIndexInArrayLimits2"
  ELSE IF refused THEN reason
  ELSE PQNoError

\* MOVE_BLK_VARIANT of one array onto itself, one place up: slots
\* from .. from+len-1 land on from+1 .. from+len.
ShiftUp(p, from, len) ==
  [i \in Slots |-> IF i \in from + 1 .. from + len THEN p[i - 1] ELSE p[i]]

-----------------------------------------------------------------------------
\* Pushes without the test that the buffer is full.
Slip_Queue_push(q, item) ==
  LET status == EntryStatus(q, FALSE, "PQErrBufferIsFull")
  IN [status |-> status,
      queue  |-> [product |-> [q.product EXCEPT ![q.next] = item],
                  first   |-> IF q.first = PQStatusBufferIsEmpty THEN 0 ELSE q.first,
                  next    |-> (q.next + 1) % SubQueueCount,
                  count   |-> q.count + 1]]

Queue_push(q, item) ==
  LET status == EntryStatus(q, q.next = q.first, "PQErrBufferIsFull")
  IN [status |-> status,
      queue  |->
        IF status # PQNoError THEN q
        ELSE [product |-> [q.product EXCEPT ![q.next] = item],
              first   |-> IF q.first = PQStatusBufferIsEmpty THEN 0 ELSE q.first,
              next    |-> (q.next + 1) % SubQueueCount,
              count   |-> q.count + 1]]

IsEmptyBuffer(q) == q.first = PQStatusBufferIsEmpty

\* The slot of the entry at a position counted from the oldest entry.
SlotAt(q, position) == (position + q.first) % SubQueueCount

Queue_get(q, position) ==
  LET status == EntryStatus(q, IsEmptyBuffer(q), "PQErrBufferIsEmpty")
  IN [status |-> status,
      item   |-> IF status # PQNoError THEN emptyItem
                 ELSE q.product[SlotAt(q, position)]]

Queue_find(q, id) ==
  LET hits   == {k \in 0 .. q.count - 1 : q.product[SlotAt(q, k)].id = id}
      status == EntryStatus(q, IsEmptyBuffer(q) \/ hits = {}, "PQErrMissingProduct")
  IN [status   |-> status,
      found    |-> status = PQNoError,
      position |-> IF status # PQNoError THEN 0
                   ELSE CHOOSE k \in hits : \A h \in hits : k <= h]

\* Shifts from slot 0 even where the gap lies before the array's end.
Slip_CloseGap(q, position) ==
  LET removed == SlotAt(q, position)
      blanked == [q.product EXCEPT ![removed] = emptyItem]
  IN IF removed = q.first THEN blanked
     ELSE [ShiftUp(blanked, 0, removed) EXCEPT ![q.first] = emptyItem]

\* The array after the entry at a position is taken out: the entries before it
\* move one slot up, over the gap, and the oldest entry's slot is cleared.
CloseGap(q, position) ==
  LET removed == SlotAt(q, position)
      blanked == [q.product EXCEPT ![removed] = emptyItem]
      low     == IF removed # 0 THEN ShiftUp(blanked, 0, removed) ELSE blanked
      carried == [low EXCEPT ![0] = low[SubQueueCountSmall]]
  IN IF position + q.first >= SubQueueCount
       THEN IF q.first = SubQueueCountSmall
              THEN [carried EXCEPT ![SubQueueCountSmall] = emptyItem]
              ELSE [ShiftUp(carried, q.first, SubQueueCountSmall - q.first)
                      EXCEPT ![q.first] = emptyItem]
       ELSE IF removed # 0 /\ removed # q.first
              THEN [ShiftUp(blanked, q.first, removed - q.first)
                      EXCEPT ![q.first] = emptyItem]
              ELSE blanked

\* Leaves statNextEmptyItemIndex where it was when the last entry goes.
Slip_Queue_remove(q, position) ==
  LET status == EntryStatus(q, IsEmptyBuffer(q), "PQErrBufferIsEmpty")
  IN [status |-> status,
      queue  |->
        IF status # PQNoError THEN q
        ELSE [product |-> CloseGap(q, position),
              first   |-> IF q.count = 1 THEN PQStatusBufferIsEmpty
                          ELSE (q.first + 1) % SubQueueCount,
              next    |-> q.next,
              count   |-> q.count - 1]]

Queue_remove(q, position) ==
  LET status == EntryStatus(q, IsEmptyBuffer(q), "PQErrBufferIsEmpty")
      left   == q.count - 1
  IN [status |-> status,
      queue  |->
        IF status # PQNoError THEN q
        ELSE [product |-> CloseGap(q, position),
              first   |-> IF left <= 0 THEN PQStatusBufferIsEmpty
                          ELSE (q.first + 1) % SubQueueCount,
              next    |-> IF left <= 0 THEN 0 ELSE q.next,
              count   |-> left]]

-----------------------------------------------------------------------------
\* What a queue stands for: its entries, oldest first.
Contents(q) == [k \in 1 .. q.count |-> q.product[SlotAt(q, k - 1)]]

\* The three counters describe the same window of the array, and nothing lies
\* outside it.
InWindow(q, i) == \E k \in 0 .. q.count - 1 : i = SlotAt(q, k)

RingShape(q) ==
  /\ q.first = PQStatusBufferIsEmpty <=> q.count = 0
  /\ q.count = 0 => q.next = 0
  /\ q.count > 0 => q.next = (q.first + q.count) % SubQueueCount

WindowFilled(q) ==
  \A i \in Slots : q.product[i] \in Product <=> InWindow(q, i)
=============================================================================
