--------------------------- MODULE PriorityQueue ---------------------------
(***************************************************************************)
(* The priority queue of a service provider ("typePQueueData") and the     *)
(* functions PQueue_push, PQueue_find, PQueue_get and                      *)
(* PQueue_removeByPosition of PLC_code/program_block/Priority Queue        *)
(* functions: one product queue per priority and, beside them, counters    *)
(* and flags that repeat what the queues say.                              *)
(*                                                                         *)
(* A global position counts entries over all priorities, priority 0 first; *)
(* PQueue_get and PQueue_removeByPosition take one.  PQueue_find answers   *)
(* the position Queue_find found inside one priority.                      *)
(***************************************************************************)
EXTENDS ProductQueue

CONSTANT PriorityCount      \* QueueCountSmall + 1 priorities

ASSUME PriorityCountAssumption == PriorityCount \in Nat \ {0}

Priorities == 0 .. PriorityCount - 1

PQueueData ==
  [buffer             : [Priorities -> Queue],
   subElementCount    : [Priorities -> 0 .. SubQueueCount],
   isFullBuffer       : [Priorities -> BOOLEAN],
   isEmptyBuffer      : [Priorities -> BOOLEAN],
   queueProductCount  : 0 .. PriorityCount * SubQueueCount,
   activeItemPosition : -1 .. PriorityCount * SubQueueCount]

\* The start values of the data block PQueue.
EmptyPQueue ==
  [buffer             |-> [p \in Priorities |-> EmptyQueue],
   subElementCount    |-> [p \in Priorities |-> 0],
   isFullBuffer       |-> [p \in Priorities |-> FALSE],
   isEmptyBuffer      |-> [p \in Priorities |-> TRUE],
   queueProductCount  |-> 0,
   activeItemPosition |-> 0]

\* How many entries the priorities 0 .. p hold, as the counters tell it.
CountUpTo(pq, p) ==
  LET sum[n \in 0 .. PriorityCount] ==
        IF n = 0 THEN 0 ELSE sum[n - 1] + pq.subElementCount[n - 1]
  IN sum[p + 1]

\* The flags of a priority after its queue became q.
Flagged(pq, p, q) ==
  [pq EXCEPT !.buffer[p]        = q,
             !.isFullBuffer[p]  = q.count = SubQueueCount,
             !.isEmptyBuffer[p] = q.count = 0]

\* Counts the push even when it was refused.
Slip_PQueue_push(pq, item, priority) ==
  LET result == Queue_push(pq.buffer[priority], item)
  IN [status |-> result.status,
      pqueue |-> [Flagged(pq, priority, result.queue)
                    EXCEPT !.queueProductCount         = @ + 1,
                           !.subElementCount[priority] = @ + 1]]

PQueue_push(pq, item, priority) ==
  LET result == Queue_push(pq.buffer[priority], item)
  IN IF pq.isFullBuffer[priority]
       THEN [status |-> "PQErrBufferIsFull", pqueue |-> pq]
       ELSE [status |-> result.status,
             pqueue |-> [Flagged(pq, priority, result.queue)
                           EXCEPT !.queueProductCount         = @ + 1,
                                  !.subElementCount[priority] = @ + 1]]

\* Searches the first priority only.
Slip_PQueue_find(pq, id) ==
  LET answer == Queue_find(pq.buffer[0], id)
  IN [found |-> answer.found, position |-> answer.position]

\* The first priority whose queue holds the id, and the position in it.
PQueue_find(pq, id) ==
  LET answer == [p \in Priorities |-> Queue_find(pq.buffer[p], id)]
      hits   == {p \in Priorities : answer[p].found}
  IN IF hits = {} THEN [found |-> FALSE, position |-> 0]
     ELSE [found    |-> TRUE,
           position |-> answer[CHOOSE p \in hits : \A h \in hits : p <= h].position]

\* The priority a global position falls into; the search loop runs off the
\* counters' end when the position is not below their sum.
Located(pq, position) == {p \in Priorities : CountUpTo(pq, p) > position}

PastEnd(pq, position) == Located(pq, position) = {}

\* tempTableIndex: the loop leaves it at 0 when it finds no priority.
TableIndex(pq, position) ==
  IF PastEnd(pq, position) THEN 0
  ELSE CHOOSE p \in Located(pq, position) :
         \A h \in Located(pq, position) : p <= h

LocalPosition(pq, position) ==
  position - IF PastEnd(pq, position) THEN CountUpTo(pq, PriorityCount - 1)
             ELSE CountUpTo(pq, TableIndex(pq, position) - 1)

PQueue_get(pq, position) ==
  Queue_get(pq.buffer[TableIndex(pq, position)], LocalPosition(pq, position))

\* Forgets to lower the counter of the priority.
Slip_PQueue_removeByPosition(pq, position) ==
  LET table  == TableIndex(pq, position)
      result == Queue_remove(pq.buffer[table], LocalPosition(pq, position))
  IN [status |-> result.status, pqueue |-> Flagged(pq, table, result.queue)]

\* Past the end the loop variable lies outside subElementCount, which then
\* stays as it is.  The sum is taken anew in every case.
PQueue_removeByPosition(pq, position) ==
  LET table   == TableIndex(pq, position)
      result  == Queue_remove(pq.buffer[table], LocalPosition(pq, position))
      counted == result.status = PQNoError /\ ~PastEnd(pq, position)
      removed == [Flagged(pq, table, result.queue)
                    EXCEPT !.subElementCount[table] = IF counted THEN @ - 1 ELSE @]
  IN [status |-> result.status,
      pqueue |-> [removed EXCEPT !.queueProductCount =
                                   CountUpTo(removed, PriorityCount - 1)]]

-----------------------------------------------------------------------------
\* The entries in the order of their global positions.
Entries(pq) ==
  LET upTo[p \in 0 .. PriorityCount] ==
        IF p = 0 THEN <<>> ELSE upTo[p - 1] \o Contents(pq.buffer[p - 1])
  IN upTo[PriorityCount]

\* The counters and flags repeat what the queues themselves say.
CountersAgree(pq) ==
  /\ \A p \in Priorities :
       /\ pq.subElementCount[p] = pq.buffer[p].count
       /\ pq.isFullBuffer[p] = (pq.buffer[p].count = SubQueueCount)
       /\ pq.isEmptyBuffer[p] = (pq.buffer[p].count = 0)
  /\ pq.queueProductCount = CountUpTo(pq, PriorityCount - 1)
=============================================================================
