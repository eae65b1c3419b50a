------------------------------ MODULE CellCalls ------------------------------
(***************************************************************************)
(* Several readers and one production PLC: the reader in front of the cell *)
(* and the readers of other cells call the PLC for their products (app.c:  *)
(* the local branch of State_Mimo_Polozena, reserve_remote_target;         *)
(* OPC_klient.c: OPC_AAS_WaitCompletionPoll) while the PLC cycle runs.  The *)
(* PLC is the service of AasService, which the blocks implement.           *)
(*                                                                         *)
(* A call is one PLC step, but its answer may be lost after the PLC acted, *)
(* or the call may never arrive; the reader then has no answer.            *)
(*                                                                         *)
(* A reader is reduced to where it is with its product, and a tag to what  *)
(* the calls depend on: whose step comes next and the marker              *)
(* ProcessCellReservationID.  GetSupported answers by the parameters       *)
(* alone, so it and the ReserveAction after it are one step.               *)
(***************************************************************************)
EXTENDS AasService

CONSTANTS StatusPolls,   \* CROSS_CELL_STATUS_POLLS
          MaxLost        \* answers that get lost, to bound the runs

ASSUME CellAssumption == StatusPolls \in Nat \ {0} /\ MaxLost \in Nat

VARIABLES errand,     \* of each product, see Errand
          guarded,    \* s_lastSeenSrId within AAS_RESCAN_GUARD_MS, or noId
          lost,       \* answers lost so far
          starts,     \* how often the machine was started for it before any mishap
          mishap      \* "unaware": its reader does not know what the PLC will do;
                      \* "astray": a handshake ran while it was away, or with
                      \* another item taking over

readerVars == <<errand, guarded, lost>>
ghosts == <<starts, mishap>>
vars == <<serviceVars, readerVars, ghosts>>

Away == {"loop", "confirm", "marked", "sent"}
Here == {"report", "reserve", "poll", "wait"}

\* Where the reader is with the product, whose step is next, the marker of this
\* cell at that step, status calls left.
Errand == [stage : Away \cup Here, wants : {"this", "other", "nothing"},
           marked : BOOLEAN, polls : 0 .. StatusPolls]

Stage(id) == errand[id].stage
Free == \A id \in Id : Stage(id) \notin Here

Init ==
  /\ ServiceInit
  /\ \E wants \in [Id -> {"this", "other"}] :
       errand = [id \in Id |-> [stage |-> "loop", wants |-> wants[id], marked |-> FALSE,
                                polls |-> 0]]
  /\ guarded = noId /\ lost = 0
  /\ starts = [id \in Id |-> 0] /\ mishap = [id \in Id |-> "none"]

-----------------------------------------------------------------------------
Outcomes == {"answered", "answer lost", "call lost"}

\* OPC_CallAasMethod: what the PLC did and what the reader knows of it.
Transmit(call, outcome) ==
  /\ IF outcome = "answer lost" THEN lost < MaxLost /\ lost' = lost + 1 ELSE UNCHANGED lost
  /\ IF outcome = "call lost" THEN UNCHANGED serviceVars ELSE call

Becomes(id, new) == errand' = [errand EXCEPT ![id] = new]
Go(id, stage) == Becomes(id, [errand[id] EXCEPT !.stage = stage])
Unaware(id) == mishap' = [mishap EXCEPT ![id] = IF @ = "none" THEN "unaware" ELSE @]

LeavesReservation(id) == IF IsReserved(id) THEN Unaware(id) ELSE UNCHANGED mishap

\* Reserves whatever the marker says.
Slip_AfterReport(id) ==
  [errand[id] EXCEPT !.stage = IF guarded = id \/ errand[id].wants # "this"
                               THEN "wait" ELSE "reserve"]

\* The product is reported.  A step of another cell is reserved there and the
\* product is sent away; one whose recipe was given up leaves with a new recipe,
\* of no interest here.
AfterReport(id) ==
  [errand[id] EXCEPT !.stage = IF guarded = id \/ errand[id].wants # "this" THEN "wait"
                               ELSE IF errand[id].marked THEN "poll" ELSE "reserve"]

\* Every visit starts with a report, also that of a product that only passes.
\* Without an answer the inquiry states lead back to it.
LocalReport(id, outcome) ==
  /\ Stage(id) = "report"
  /\ Transmit(Report(id), outcome)
  /\ IF outcome # "answered"
       THEN UNCHANGED errand
     ELSE IF ReportAnswer(id) \notin {"Success", "RQErrIdAlreadyKnown"}
       THEN Becomes(id, [errand[id] EXCEPT !.wants = "nothing"])
     ELSE Becomes(id, AfterReport(id))
  /\ UNCHANGED <<guarded, ghosts>>

\* What a ReserveAction without an answer leaves behind.
Unheard(id, priority, params, outcome) ==
  IF outcome = "answer lost" /\ ReserveAnswer(id, priority, params) = "Success"
    THEN Unaware(id) ELSE UNCHANGED mishap

Granted(id, priority, params, outcome) ==
  outcome = "answered" /\ ReserveAnswer(id, priority, params) = "Success"

LocalReserve(id, params, outcome) ==
  LET granted == Granted(id, 0, params, outcome)
  IN /\ Stage(id) = "reserve"
     /\ Transmit(Reserve(id, 0, params), outcome)
     /\ Go(id, IF granted THEN "poll" ELSE "report")
     /\ guarded' = IF granted THEN id ELSE guarded
     /\ Unheard(id, 0, params, outcome)
     /\ UNCHANGED <<starts>>

\* The recipe is given up.
Abandon(id) ==
  /\ Becomes(id, [errand[id] EXCEPT !.stage = "report", !.wants = "nothing"])
  /\ LeavesReservation(id)

Terminal == {"finished", "Finished", "success", "Success"}
Pending == {"position", "inProgress"}

\* One turn of OPC_AAS_WaitCompletionPoll and what its result leads to.
LocalPoll(id, outcome) ==
  LET message == StatusAnswer(id).message
  IN /\ Stage(id) = "poll"
     /\ IF outcome # "answered" \/ message \in Pending THEN UNCHANGED <<errand, mishap>>
        ELSE IF message \in Terminal
          THEN /\ Becomes(id, [errand[id] EXCEPT !.stage = "wait", !.wants = "other",
                                                 !.marked = FALSE])
               /\ UNCHANGED mishap
        ELSE Abandon(id)
     /\ UNCHANGED <<serviceVars, guarded, lost, starts>>

\* AAS_COMPLETION_TIMEOUT_MS, which a handshake may outlast.  It is longer than
\* the re-scan window.
LocalTimeout(id) ==
  /\ Stage(id) = "poll"
  /\ Abandon(id)
  /\ guarded' = noId
  /\ UNCHANGED <<serviceVars, lost, starts>>

-----------------------------------------------------------------------------
\* reserve_remote_target, at another cell; the priority is that cell's id.
RemoteReserve(id, priority, params, outcome) ==
  /\ Stage(id) = "loop" /\ errand[id].wants = "this"
  /\ Transmit(Reserve(id, priority, params), outcome)
  /\ IF Granted(id, priority, params, outcome)
       THEN Becomes(id, [errand[id] EXCEPT !.stage = "confirm", !.polls = StatusPolls])
       ELSE UNCHANGED errand
  /\ Unheard(id, priority, params, outcome)
  /\ UNCHANGED <<guarded, starts>>

\* remote_target_is_passive_status: the product is the next one of its priority.
Passive(id, outcome) ==
  outcome = "answered" /\ StatusAnswer(id) = [message |-> "position", position |-> 0]

\* Goes on asking when the calls are used up.
Slip_RemoteConfirm(id, outcome) ==
  /\ Stage(id) = "confirm"
  /\ Becomes(id, IF Passive(id, outcome)
                   THEN [errand[id] EXCEPT !.stage = "marked", !.marked = TRUE, !.polls = 0]
                   ELSE [errand[id] EXCEPT !.polls = @ - 1])
  /\ UNCHANGED <<serviceVars, guarded, lost, ghosts>>

RemoteConfirm(id, outcome) ==
  LET left == errand[id].polls - 1
  IN /\ Stage(id) = "confirm"
     /\ IF Passive(id, outcome)
          THEN /\ Becomes(id, [errand[id] EXCEPT !.stage = "marked", !.marked = TRUE,
                                                 !.polls = 0])
               /\ UNCHANGED mishap
          ELSE /\ Becomes(id, [errand[id] EXCEPT !.stage = IF left = 0 THEN "loop" ELSE @,
                                                 !.polls = left])
               /\ IF left = 0 THEN LeavesReservation(id) ELSE UNCHANGED mishap
     /\ UNCHANGED <<serviceVars, guarded, lost, starts>>

\* request_transport_plc has a transport or not; without one the reader is back
\* at the loop's top.
RemoteTransport(id) ==
  /\ Stage(id) = "marked"
  /\ Go(id, "sent") \/ Go(id, "loop")
  /\ UNCHANGED <<serviceVars, guarded, lost, ghosts>>

-----------------------------------------------------------------------------
\* By transport or by hand; one product fits in front of the reader.
Arrive(id) ==
  /\ Stage(id) \in {"loop", "sent"} /\ Free
  /\ Go(id, "report")
  /\ UNCHANGED <<serviceVars, guarded, lost, ghosts>>

\* State_WaitUntilRemoved.  The other cell does its step.
Leave(id) ==
  /\ Stage(id) = "wait"
  /\ Becomes(id, [errand[id] EXCEPT !.stage = "loop",
                                    !.wants = IF @ = "other" THEN "this" ELSE @])
  /\ UNCHANGED <<serviceVars, guarded, lost, ghosts>>

GuardExpires ==
  /\ guarded # noId /\ guarded' = noId
  /\ UNCHANGED <<serviceVars, errand, lost, ghosts>>

\* A handshake may run for a product that is away, and go on with another item
\* than the one the machine was told.
Displaced == IF device # "idle" /\ Ready # {} /\ Entry(Pick).id # told
             THEN {told, Entry(Pick).id} ELSE {}
RunAway == IF device' # "idle" /\ Stage(told') \in Away THEN {told'} ELSE {}

PlcCycle ==
  /\ Cycle
  /\ mishap' = [id \in Id |-> IF id \in Displaced \cup RunAway THEN "astray" ELSE mishap[id]]
  /\ starts' = IF Start /\ mishap'[told] = "none" THEN [starts EXCEPT ![told] = @ + 1]
               ELSE starts
  /\ UNCHANGED readerVars

Reader(id) ==
  \/ \E outcome \in Outcomes :
       \/ LocalReport(id, outcome) \/ LocalPoll(id, outcome) \/ RemoteConfirm(id, outcome)
       \/ \E params \in Params :
            \/ LocalReserve(id, params, outcome)
            \/ \E p \in Priorities \ {0} : RemoteReserve(id, p, params, outcome)
  \/ LocalTimeout(id) \/ RemoteTransport(id) \/ Arrive(id) \/ Leave(id)

Next == PlcCycle \/ GuardExpires \/ \E id \in Id : Reader(id)

Spec == Init /\ [][Next]_vars

-----------------------------------------------------------------------------
\* Every variable keeps its type.
TypeOK ==
  /\ ServiceTypeOK
  /\ errand \in [Id -> Errand]
  /\ guarded \in Id \cup {noId} /\ lost \in 0 .. MaxLost
  /\ starts \in [Id -> Nat]
  /\ mishap \in [Id -> {"none", "unaware", "astray"}]

\* The machine is started twice for a product's step only if one of four things
\* happened to it: a reservation its reader did not hear of, one its reader left
\* behind, a handshake while it was away, or another item taking over its
\* handshake.  The marker and the PLC's refusals exclude every other way.
StartedOnce == \A id \in Id : starts[id] <= 1

\* A product under way to this cell still has the reservation its marker speaks
\* of ([AAS_LOCAL_RESERVE_GATE] in app.c), unless a handshake went astray:
\* nothing else that is run or reserved takes it.
MarkedIsReserved ==
  \A id \in Id : Stage(id) = "sent" /\ mishap[id] # "astray" => IsReserved(id)
=============================================================================
