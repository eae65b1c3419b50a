------------------------- MODULE ProductQueueSpec -------------------------
(***************************************************************************)
(* One product queue under every sequence of calls of the queue functions: *)
(* the ring buffer of ProductQueue as a state machine.  Positions are the  *)
(* ones callers pass: what Queue_find returned or a value below the        *)
(* element count (PQueue_get, PQueue_removeByPosition,                     *)
(* RemoveFinishedProduct), or 0 on an empty queue.                         *)
(***************************************************************************)
EXTENDS ProductQueue

VARIABLES queue,   \* the "typeArrayOfProducts" in/out parameter
          reply    \* the outputs of the last call

vars == <<queue, reply>>

Ids == {p.id : p \in Product}
Positions == 0 .. IF queue.count = 0 THEN 0 ELSE queue.count - 1

Reply(status, item, position) ==
  [status |-> status, item |-> item, position |-> position]

Status == {PQNoError, "PQErrIndexInArrayLimits1", "PQErrIndexInArrayLimits2",
           "PQErrBufferIsFull", "PQErrBufferIsEmpty", "PQErrMissingProduct"}

Init == queue = EmptyQueue /\ reply = Reply(PQNoError, emptyItem, 0)

Push(item) ==
  LET result == Queue_push(queue, item)
  IN /\ queue' = result.queue
     /\ reply' = Reply(result.status, emptyItem, 0)

TakeOut(position) ==
  LET result == Queue_remove(queue, position)
  IN /\ queue' = result.queue
     /\ reply' = Reply(result.status, emptyItem, 0)

Get(position) ==
  LET result == Queue_get(queue, position)
  IN /\ reply' = Reply(result.status, result.item, 0)
     /\ UNCHANGED queue

Find(id) ==
  LET result == Queue_find(queue, id)
  IN /\ reply' = Reply(result.status, emptyItem, result.position)
     /\ UNCHANGED queue

Next == \/ \E item \in Product : Push(item)
        \/ \E position \in Positions : TakeOut(position)
        \/ \E position \in Positions : Get(position)
        \/ \E id \in Ids : Find(id)

Spec == Init /\ [][Next]_vars

-----------------------------------------------------------------------------
\* Type correctness: every index and the count stay inside the array, so the
\* index checks of the queue functions never refuse a call.
TypeOK ==
  /\ queue \in Queue
  /\ reply \in [status : Status \ {"PQErrIndexInArrayLimits1",
                                   "PQErrIndexInArrayLimits2"},
                item : Product \cup {emptyItem}, position : Slots]

\* statFirstItemIndex, statNextEmptyItemIndex and statElementCount describe the
\* same stretch of the ring, the products fill it without a hole and nothing
\* lies outside it, after any mix of pushes and of removals from the middle.
RingInvariant == RingShape(queue) /\ WindowFilled(queue)

List == INSTANCE ProductList
          WITH list <- Contents(queue), Capacity <- SubQueueCount

\* The ring is a list: a push appends, a removal takes out just the entry at
\* the position and keeps the order of the others, get and find answer from
\* the oldest entry on, a full queue refuses and an empty one answers an error.
ImplementsList == List!Spec
=============================================================================
