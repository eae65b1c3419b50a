------------------------ MODULE ProductQueue_proofs ------------------------
(***************************************************************************)
(* Proofs about one ring buffer under every sequence of calls, for every   *)
(* length of the array and every set of products.                          *)
(***************************************************************************)
EXTENDS ProductQueueSpec, QueueLemmas

\* The inductive invariant: the queue is well formed, and the last reply came
\* from a call on such a queue.
IInv == TypeOK /\ RingInvariant

\* The start values of a data block satisfy the inductive invariant.
LEMMA InitIInv == Init => IInv
<1> SUFFICES ASSUME Init PROVE IInv
  OBVIOUS
<1>1. GoodQueue(queue)
  BY EmptyQueueGood DEF Init
<1>2. 0 \in Slots
  BY SubQueueCountAssumption DEF Slots, SubQueueCountSmall
<1> QED
  BY <1>1, <1>2 DEF IInv, TypeOK, RingInvariant, GoodQueue, Init, Reply, Status,
                    PQNoError

\* Every call of a queue function keeps the inductive invariant.
LEMMA NextIInv == IInv /\ [Next]_vars => IInv'
<1> SUFFICES ASSUME IInv, [Next]_vars PROVE IInv'
  OBVIOUS
<1> DEFINE R == [status : Status \ {"PQErrIndexInArrayLimits1",
                                    "PQErrIndexInArrayLimits2"},
                 item : Product \cup {emptyItem}, position : Slots]
<1>0. GoodQueue(queue) /\ 0 \in Slots
  BY SubQueueCountAssumption
     DEF IInv, TypeOK, RingInvariant, GoodQueue, Slots, SubQueueCountSmall
<1>1. ASSUME GoodQueue(queue'), reply' \in R
      PROVE  IInv'
  BY <1>1 DEF IInv, TypeOK, RingInvariant, GoodQueue, Queue
<1>2. ASSUME NEW item \in Product, Push(item)
      PROVE  IInv'
  BY <1>0, <1>1, <1>2, PushGood DEF Push, Reply, Status, PQNoError
<1>3. ASSUME NEW position \in Positions, TakeOut(position)
      PROVE  IInv'
  <2>1. CASE queue.count = 0
    BY <1>0, <1>1, <1>3, <2>1, RemoveFromEmpty DEF TakeOut, Reply, Status, PQNoError
  <2>2. CASE queue.count # 0
    <3>1. queue.count > 0 /\ position \in 0 .. queue.count - 1
      BY <1>0, <2>2, SubQueueCountAssumption DEF GoodQueue, Queue, Positions
    <3> QED
      BY <1>0, <1>1, <1>3, <3>1, RemoveGood DEF TakeOut, Reply, Status, PQNoError
  <2> QED
    BY <2>1, <2>2
<1>4. ASSUME NEW position \in Positions, Get(position)
      PROVE  IInv'
  <2>1. position \in Nat /\ (position < queue.count \/ queue.count = 0)
    BY <1>0, SubQueueCountAssumption DEF GoodQueue, Queue, Positions
  <2> QED
    BY <1>0, <1>1, <1>4, <2>1, GetType DEF Get, Reply, Status, PQNoError
<1>5. ASSUME NEW id \in Ids, Find(id)
      PROVE  IInv'
  BY <1>0, <1>1, <1>5, FindType DEF Find, Reply, Status, PQNoError
<1>6. CASE UNCHANGED vars
  BY <1>6 DEF vars, IInv, TypeOK, RingInvariant, RingShape, WindowFilled,
              InWindow, SlotAt
<1> QED
  BY <1>2, <1>3, <1>4, <1>5, <1>6 DEF Next

\* The indices and the count stay inside the array and the replies are the ones
\* the functions document: no call is ever refused by the index checks.
THEOREM TypeCorrect == Spec => []TypeOK
<1>1. IInv => TypeOK
  BY DEF IInv
<1> QED
  BY InitIInv, NextIInv, <1>1, PTL DEF Spec

\* For every array length, statFirstItemIndex, statNextEmptyItemIndex and
\* statElementCount describe one stretch of the ring, filled without a hole.
THEOREM RingCorrect == Spec => []RingInvariant
<1>1. IInv => RingInvariant
  BY DEF IInv
<1> QED
  BY InitIInv, NextIInv, <1>1, PTL DEF Spec

-----------------------------------------------------------------------------
\* The initial queue is the empty list.
LEMMA InitIsList == Init => List!Init
<1> SUFFICES ASSUME Init PROVE List!Init
  OBVIOUS
<1>1. Contents(queue) \in Seq(Product) /\ Len(Contents(queue)) = 0
  <2>1. GoodQueue(queue) /\ queue.count = 0
    BY EmptyQueueGood DEF Init, EmptyQueue
  <2> QED
    BY <2>1, ContentsProperties
<1>2. Contents(queue) = <<>>
  BY <1>1, EmptySeq
<1> QED
  BY <1>2 DEF Init, List!Init, Reply, List!Reply, PQNoError

\* Every call of a queue function is the call of the list.
LEMMA NextIsList == IInv /\ [Next]_vars => [List!Next]_(List!vars)
<1> SUFFICES ASSUME IInv, [Next]_vars PROVE [List!Next]_(List!vars)
  OBVIOUS
<1>1. /\ GoodQueue(queue) /\ queue.count \in 0 .. SubQueueCount /\ SubQueueCount \in Nat
      /\ Contents(queue) \in Seq(Product) /\ Len(Contents(queue)) = queue.count
      /\ DOMAIN Contents(queue) = 1 .. queue.count
  BY ContentsProperties, SubQueueCountAssumption
     DEF IInv, TypeOK, RingInvariant, GoodQueue
<1>2. Contents(queue) = <<>> <=> queue.count = 0
  BY <1>1, EmptySeq
<1>3. List!Positions = Positions
  BY <1>1, <1>2 DEF List!Positions, Positions
<1>4. ASSUME NEW item \in Product, Push(item) PROVE List!Push(item)
  <2>1. queue.count = SubQueueCount <=> Len(Contents(queue)) = SubQueueCount
    BY <1>1
  <2>2. CASE queue.count = SubQueueCount
    <3>1. queue' = queue /\ reply' = Reply("PQErrBufferIsFull", emptyItem, 0)
      BY <1>1, <1>4, <2>2, PushContents DEF Push
    <3> QED
      BY <2>1, <2>2, <3>1 DEF List!Push, Reply, List!Reply
  <2>3. CASE queue.count # SubQueueCount
    <3>1. /\ Contents(queue') = Append(Contents(queue), item)
          /\ reply' = Reply(PQNoError, emptyItem, 0)
      BY <1>1, <1>4, <2>3, PushContents DEF Push
    <3> QED
      BY <2>1, <2>3, <3>1 DEF List!Push, Reply, List!Reply, PQNoError
  <2> QED
    BY <2>2, <2>3
<1>5. ASSUME NEW position \in Positions, TakeOut(position) PROVE List!TakeOut(position)
  <2>1. CASE queue.count = 0
    <3>1. queue' = queue /\ reply' = Reply("PQErrBufferIsEmpty", emptyItem, 0)
      BY <1>1, <1>5, <2>1, RemoveFromEmpty DEF TakeOut
    <3> QED
      BY <1>2, <2>1, <3>1 DEF List!TakeOut, Reply, List!Reply
  <2>2. CASE queue.count # 0
    <3>1. position \in 0 .. queue.count - 1 /\ queue.count > 0
      BY <1>1, <2>2 DEF Positions
    <3>2. /\ Contents(queue') = RemoveAt(Contents(queue), position + 1)
          /\ reply' = Reply(PQNoError, emptyItem, 0)
      BY <1>1, <1>5, <3>1, RemoveContents, RemoveGood DEF TakeOut
    <3> QED
      BY <1>2, <2>2, <3>2
         DEF List!TakeOut, Reply, List!Reply, PQNoError, RemoveAt, List!RemoveAt
  <2> QED
    BY <2>1, <2>2
<1>6. ASSUME NEW position \in Positions, Get(position) PROVE List!Get(position)
  <2>1. position \in Int /\ (queue.count # 0 => position \in 0 .. queue.count - 1)
    BY <1>1 DEF Positions
  <2>2. /\ queue' = queue
        /\ queue.count = 0 => reply' = Reply("PQErrBufferIsEmpty", emptyItem, 0)
        /\ queue.count # 0 => reply' = Reply(PQNoError, Contents(queue)[position + 1], 0)
    BY <1>1, <1>6, <2>1, GetContents DEF Get
  <2> QED
    BY <1>2, <2>2 DEF List!Get, Reply, List!Reply, PQNoError
<1>7. ASSUME NEW id \in Ids, Find(id) PROVE List!Find(id)
  <2> DEFINE holding == {i \in DOMAIN Contents(queue) : Contents(queue)[i].id = id}
             oldest == CHOOSE i \in holding : \A j \in holding : i <= j
             answer == Queue_find(queue, id)
  <2>1. queue' = queue /\ reply' = Reply(answer.status, emptyItem, answer.position)
    BY <1>7 DEF Find
  <2>2. CASE holding = {}
    <3>1. reply' = Reply("PQErrMissingProduct", emptyItem, 0)
      BY <1>1, <2>1, <2>2, FindContents
    <3> QED
      BY <2>1, <2>2, <3>1 DEF List!Find, Reply, List!Reply
  <2>3. CASE holding # {}
    <3>1. /\ answer.status = PQNoError /\ answer.position \in 0 .. queue.count - 1
          /\ answer.position + 1 \in holding
          /\ \A j \in holding : answer.position + 1 <= j
      BY <1>1, <2>3, FindContents
    <3>2. oldest \in holding /\ \A j \in holding : oldest <= j
      BY <3>1
    <3>3. oldest = answer.position + 1
      <4>1. oldest <= answer.position + 1 /\ answer.position + 1 <= oldest
        BY <3>1, <3>2
      <4>2. oldest \in Int /\ answer.position \in Int
        BY <1>1, <3>1, <3>2
      <4> QED
        BY ONLY <4>1, <4>2
    <3>4. reply' = List!Reply("PQNoError", emptyItem, oldest - 1)
      <4>1. oldest - 1 = answer.position
        <5>1. answer.position \in Int
          BY <1>1, <3>1
        <5> HIDE DEF oldest, answer
        <5> QED
          BY <3>3, <5>1
      <4> QED
        BY <2>1, <3>1, <4>1 DEF Reply, List!Reply, PQNoError
    <3> QED
      BY <2>1, <2>3, <3>4 DEF List!Find
  <2> QED
    BY <2>2, <2>3
<1>8. CASE UNCHANGED vars
  BY <1>8 DEF vars, List!vars
<1>9. List!Ids = Ids
  BY DEF List!Ids, Ids
<1> QED
  BY <1>3, <1>4, <1>5, <1>6, <1>7, <1>8, <1>9 DEF Next, List!Next

\* The ring buffer is a list, for every length of the array and every set of
\* products: wrapped or not, after removals from any place, each call has the
\* effect and the answer it has on the list of the entries, oldest first.
THEOREM QueueIsList == Spec => ImplementsList
<1>1. Spec => []IInv
  BY InitIInv, NextIInv, PTL DEF Spec
<1> QED
  BY <1>1, InitIsList, NextIsList, PTL DEF Spec, ImplementsList, List!Spec
=============================================================================
