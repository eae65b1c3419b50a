--------------------------- MODULE ServiceProvider ---------------------------
(***************************************************************************)
(* The six OPC UA methods a service provider PLC offers its clients        *)
(* (PLC_code/program_block/AAS/OPC UA Methods), over the data blocks PQueue *)
(* (reserved actions), RPQueue (reported products) and the tag             *)
(* OutputPositionSr.  A method block runs to its end inside one PLC cycle, *)
(* so each call is one action.                                             *)
(*                                                                         *)
(* GetMessage's token list is abstracted to the arguments it carries; a    *)
(* parameter of an action to the support range it falls into ("100", "60"  *)
(* or "none", none of the hard-coded ranges); a reply to the message text's *)
(* meaning.  id 0, which STRING_TO_DINT also yields for no number, is noId. *)
(***************************************************************************)
EXTENDS PriorityQueue

CONSTANTS Id,       \* product ids clients use
          noId,     \* id 0
          Params,   \* the parameters clients ask for
          Called    \* the methods clients call

SupportRange == {"100", "60", "none"}
Parameters == [material : SupportRange, supportA : SupportRange,
               supportB : SupportRange]
NoParams == [material |-> "none", supportA |-> "none", supportB |-> "none"]

Methods == {"ReportProduct", "ReserveAction", "GetSupported", "GetStatus",
            "FreeFromQueue", "FreeFromPosition"}

ASSUME IdAssumption == noId \notin Id
ASSUME ItemAssumption ==
  /\ Params \subseteq Parameters
  /\ Product = [id : Id, params : Params \cup {NoParams}]
  /\ emptyItem = [id |-> noId, params |-> NoParams]
ASSUME CalledAssumption == Called \subseteq Methods

VARIABLES pq,                \* "PQueue".PQueue
          rq,                \* "RPQueue".ReportedProductsQueue
          outputPositionSr,  \* "PassiveAAS_DB".OutputPositionSr
          reply              \* what the last step answered to a client

spVars == <<pq, rq, outputPositionSr, reply>>

\* message is the outcome, position and support the numbers in the text.
Reply(method, id, priority, message, position, support) ==
  [method |-> method, id |-> id, priority |-> priority, message |-> message,
   position |-> position, support |-> support]

NoReply == Reply("none", noId, 0, "none", 0, 0)

SPInit ==
  /\ pq = EmptyPQueue
  /\ rq = EmptyQueue
  /\ outputPositionSr = noId
  /\ reply = NoReply

Answer(method, id, message) == reply' = Reply(method, id, 0, message, 0, 0)

\* The message for a status word.
Outcome(status) == IF status = PQNoError THEN "Success" ELSE status

-----------------------------------------------------------------------------
\* One CASE of the support check.
Scored(value, range) ==
  CASE range = "100"  -> value
    [] range = "60"   -> value - 40
    [] range = "none" -> 0

\* tmpSupportValue after the three CASEs, as ReserveAction compares it with 0.
SupportValue(params) ==
  Scored(Scored(Scored(100, params.material), params.supportA), params.supportB)

\* The value GetSupported reports, which it keeps from going below 0.
OfferedSupport(params) ==
  IF SupportValue(params) < 0 THEN 0 ELSE SupportValue(params)

-----------------------------------------------------------------------------
ReportProduct(id) ==
  LET known  == Queue_find(rq, id).found
      result == Queue_push(rq, [id |-> id, params |-> NoParams])
  IN /\ "ReportProduct" \in Called
     /\ \/ /\ id = noId
           /\ Answer("ReportProduct", id, "PQErrInvalidItemId")
           /\ UNCHANGED rq
        \/ /\ id # noId /\ known
           /\ Answer("ReportProduct", id, "RQErrIdAlreadyKnown")
           /\ UNCHANGED rq
        \/ /\ id # noId /\ ~known
           /\ Answer("ReportProduct", id, Outcome(result.status))
           /\ rq' = result.queue
     /\ UNCHANGED <<pq, outputPositionSr>>

\* Answers Success whatever PQueue_push says.
Slip_ReserveAction(id, priority, params) ==
  /\ "ReserveAction" \in Called
  /\ id # noId /\ ~PQueue_find(pq, id).found /\ SupportValue(params) # 0
  /\ reply' = Reply("ReserveAction", id, priority, "Success", 0, 0)
  /\ pq' = PQueue_push(pq, [id |-> id, params |-> params], priority).pqueue
  /\ UNCHANGED <<rq, outputPositionSr>>

ReserveAction(id, priority, params) ==
  LET queued == PQueue_find(pq, id).found
      result == PQueue_push(pq, [id |-> id, params |-> params], priority)
      Respond(message) ==
        reply' = Reply("ReserveAction", id, priority, message, 0, 0)
  IN /\ "ReserveAction" \in Called
     /\ \/ /\ id = noId
           /\ Respond("PQErrInvalidItemId")
           /\ UNCHANGED pq
        \/ /\ id # noId /\ queued
           /\ Respond("PQErrItemAlreadyInQueue")
           /\ UNCHANGED pq
        \/ /\ id # noId /\ ~queued /\ SupportValue(params) = 0
           /\ Respond("ErrItemNotSupported")
           /\ UNCHANGED pq
        \/ /\ id # noId /\ ~queued /\ SupportValue(params) # 0
           /\ Respond(Outcome(result.status))
           /\ pq' = result.pqueue
     /\ UNCHANGED <<rq, outputPositionSr>>

\* Counts only the entries of higher priorities.
Slip_GetSupported(id, priority, params) ==
  /\ "GetSupported" \in Called
  /\ reply' = Reply("GetSupported", id, priority, "support",
                    CountUpTo(pq, priority - 1), OfferedSupport(params))
  /\ UNCHANGED <<pq, rq, outputPositionSr>>

GetSupported(id, priority, params) ==
  /\ "GetSupported" \in Called
  /\ reply' = Reply("GetSupported", id, priority, "support",
                    CountUpTo(pq, priority), OfferedSupport(params))
  /\ UNCHANGED <<pq, rq, outputPositionSr>>

\* Counts positions from one.
Slip_GetStatus(id) ==
  LET result == PQueue_find(pq, id)
  IN /\ "GetStatus" \in Called
     /\ id # noId /\ result.found
     /\ reply' = Reply("GetStatus", id, 0, "position", result.position + 1, 0)
     /\ UNCHANGED <<pq, rq, outputPositionSr>>

GetStatus(id) ==
  LET result == PQueue_find(pq, id)
  IN /\ "GetStatus" \in Called
     /\ \/ /\ id = noId
           /\ Answer("GetStatus", id, "PQErrInvalidItemId")
        \/ /\ id # noId /\ ~result.found
           /\ Answer("GetStatus", id, "PQErrItemNotFound")
        \/ /\ id # noId /\ result.found
           /\ result.position # pq.activeItemPosition
           /\ reply' = Reply("GetStatus", id, 0, "position", result.position, 0)
        \/ /\ id # noId /\ result.found
           /\ result.position = pq.activeItemPosition
           /\ Answer("GetStatus", id, "inProgress")
     /\ UNCHANGED <<pq, rq, outputPositionSr>>

FreeFromQueue(id) ==
  LET found  == PQueue_find(pq, id)
      result == PQueue_removeByPosition(pq, found.position)
  IN /\ "FreeFromQueue" \in Called
     /\ \/ /\ id = noId
           /\ Answer("FreeFromQueue", id, "PQErrInvalidItemId")
           /\ UNCHANGED pq
        \/ /\ id # noId /\ ~found.found
           /\ Answer("FreeFromQueue", id, "PQErrItemNotFound")
           /\ UNCHANGED pq
        \/ /\ id # noId /\ found.found
           /\ found.position = pq.activeItemPosition
           /\ Answer("FreeFromQueue", id, "PQErrItemAlreadyInProgress")
           /\ UNCHANGED pq
        \/ /\ id # noId /\ found.found
           /\ found.position # pq.activeItemPosition
           /\ Answer("FreeFromQueue", id, Outcome(result.status))
           /\ pq' = result.pqueue
     /\ UNCHANGED <<rq, outputPositionSr>>

\* The text compared is '0' when no product waits at the output, so a request
\* for id 0 then succeeds.
FreeFromPosition(id) ==
  /\ "FreeFromPosition" \in Called
  /\ \/ /\ outputPositionSr = id
        /\ outputPositionSr' = noId
        /\ Answer("FreeFromPosition", id, "Success")
     \/ /\ outputPositionSr # id
        /\ Answer("FreeFromPosition", id, "PErrItemNotInPosition")
        /\ UNCHANGED outputPositionSr
  /\ UNCHANGED <<pq, rq>>

Call ==
  \E id \in Id \cup {noId} :
    \/ ReportProduct(id)
    \/ \E priority \in Priorities, params \in Params :
         \/ ReserveAction(id, priority, params)
         \/ GetSupported(id, priority, params)
    \/ GetStatus(id)
    \/ FreeFromQueue(id)
    \/ FreeFromPosition(id)

-----------------------------------------------------------------------------
SPTypeOK ==
  /\ pq \in PQueueData
  /\ rq \in Queue
  /\ outputPositionSr \in Id \cup {noId}
  /\ DOMAIN reply = DOMAIN NoReply

\* Every index, count, sum and flag of the two queues tells the same story: the
\* rings are well formed and the priority queue's counters repeat their counts.
QueuesConsistent ==
  /\ RingShape(rq) /\ WindowFilled(rq)
  /\ \A p \in Priorities : RingShape(pq.buffer[p]) /\ WindowFilled(pq.buffer[p])
  /\ CountersAgree(pq)

Distinct(items) ==
  \A i, j \in DOMAIN items : items[i].id = items[j].id => i = j

\* A product is reported at most once, and reserved at most once over all the
\* priorities, whatever the order of reports, reservations and removals.
NoDoubleEntry == Distinct(Contents(rq)) /\ Distinct(Entries(pq))

\* The ids that are reserved.
ReservedIds(q) == {Entries(q)[i].id : i \in DOMAIN Entries(q)}

\* The position GetSupported offers for a priority is the position an item gets
\* that is reserved next at that priority.
OfferIsKept ==
  [][reply.method = "GetSupported"
       /\ reply'.method = "ReserveAction" /\ reply'.message = "Success"
       /\ reply'.priority = reply.priority
     => PQueue_get(pq', reply.position).item.id = reply'.id]_spVars

\* A call changes the reservations by what its reply says and by no more: a
\* successful ReserveAction adds the item it names, a successful FreeFromQueue
\* takes out one entry, every other call and every refusal leaves all entries.
ReservationsExact ==
  [][LET done(method) == reply'.method = method /\ reply'.message = "Success"
     IN /\ ReservedIds(pq') \subseteq ReservedIds(pq) \cup
             (IF done("ReserveAction") THEN {reply'.id} ELSE {})
        /\ reply' # NoReply =>
             Len(Entries(pq')) = Len(Entries(pq))
               + (IF done("ReserveAction") THEN 1 ELSE 0)
               - (IF done("FreeFromQueue") THEN 1 ELSE 0)
        /\ done("ReserveAction") => reply'.id \in ReservedIds(pq')]_spVars
=============================================================================
