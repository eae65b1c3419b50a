---------------------------- MODULE TransportCell ----------------------------
(***************************************************************************)
(* The transport: readers of several cells ask the transport PLC for a     *)
(* trip (request_transport_plc in app.c), the PLC runs the handshake of    *)
(* DeviceSlow, and the simulated machine, the block Simulace1, answers it. *)
(* The PLC is that of PassiveAAS, whose blocks the transport PLC shares;   *)
(* its DeviceSlow also copies the trip to the block Simulace.              *)
(*                                                                         *)
(* Simulace1 is called once in every PLC cycle and sees the commands just  *)
(* given; that wiring is outside the source.  A trip is shorter than the   *)
(* timeout of the step that waits for its end.  Products leave their cell  *)
(* by transport only.  Answers may be lost after the PLC acted, and calls  *)
(* before.                                                                 *)
(***************************************************************************)
EXTENDS PassiveAAS

CONSTANTS From,          \* localCellId of the cell a product is sent from
          Trips,         \* the trips its reader may ask for
          Timed,         \* the trips TransportMatrix has a time for
          StatusPolls,   \* TRANSPORT_STATUS_POLLS
          MaxLost,       \* answers that get lost, to bound the runs
          MaxTrips       \* trips a product asks for, likewise

ASSUME TransportAssumption ==
  /\ From \in [Id -> Priorities] /\ Trips \in [Id -> SUBSET Params] /\ Timed \subseteq Params
  /\ StatusPolls \in Nat \ {0} /\ MaxLost \in Nat /\ MaxTrips \in [Id -> Nat \ {0}]

VARIABLES machine,    \* CommBlock's status bits, and the timer's input and output
          Sim_BTN,    \* the simulation is switched on
          trip,       \* Source_Cell and Target_Cell
          request,    \* how far each product's reader is
          lost,       \* answers lost so far
          troubled,   \* the machine could not do the present handshake properly
          overtaken   \* an item was reserved before the one being run

machineVars == <<machine, Sim_BTN, trip>>
plcVars == <<spVars, selection, device, history>>
ghosts == <<troubled, overtaken>>
allVars == <<plcVars, machineVars, request, lost, ghosts>>

MachineOff == [Idle |-> FALSE, Ready |-> FALSE, Busy |-> FALSE, Done |-> FALSE,
               Error |-> FALSE, Sim_start |-> FALSE, Sim_end |-> FALSE]
Stages == {"ask", "report", "poll", "sent", "away"}
Requests == [stage : Stages, polls : 0 .. StatusPolls, trips : Nat]

Stage(id) == request[id].stage
Go(id, stage, polls) ==
  request' = [request EXCEPT ![id].stage = stage, ![id].polls = polls]

\* The bits of the data block are all off; Idle may have been set by hand.
TransportInit ==
  /\ Init
  /\ \E idle \in BOOLEAN : machine = [MachineOff EXCEPT !.Idle = idle]
  /\ Sim_BTN \in BOOLEAN /\ trip = NoParams
  /\ request = [id \in Id |-> [stage |-> "ask", polls |-> 0, trips |-> 1]]
  /\ lost = 0 /\ troubled = FALSE /\ overtaken = FALSE

-----------------------------------------------------------------------------
\* request_transport_plc.

Outcomes == {"answered", "answer lost", "call lost"}

\* A method block runs to its end before the cycle goes on, one in a cycle.
Transmit(call, outcome) ==
  /\ reply = NoReply
  /\ IF outcome = "answer lost" THEN lost < MaxLost /\ lost' = lost + 1 ELSE UNCHANGED lost
  /\ IF outcome = "call lost" THEN UNCHANGED spVars ELSE call
  /\ UNCHANGED <<selection, device, history, machineVars, troubled>>

Answers(outcome, message) == outcome = "answered" /\ reply'.message = message

\* The action would now be picked before the one being run.
Overtakes(priority) ==
  /\ deviceRunning /\ pq' # pq
  /\ CountUpTo(pq, priority) <= itemPositionP

\* GetSupported answers by the parameters alone; ReserveAction comes right after.
AskForTransport(id, params, outcome) ==
  /\ Stage(id) = "ask"
  /\ SupportValue(params) > 0
  /\ Transmit(ReserveAction(id, From[id], params), outcome)
  /\ IF Answers(outcome, "Success") THEN Go(id, "report", 0) ELSE UNCHANGED request
  /\ overtaken' = (overtaken \/ Overtakes(From[id]))

\* Goes on when the report was not answered.
Slip_ReportForTransport(id, outcome) ==
  /\ Stage(id) = "report"
  /\ Transmit(ReportProduct(id), outcome)
  /\ IF outcome = "answered" => reply'.message = "Success"
       THEN Go(id, "poll", StatusPolls) ELSE Go(id, "ask", 0)
  /\ UNCHANGED overtaken

\* Every error ends the request, the one for a product already reported too.
ReportForTransport(id, outcome) ==
  /\ Stage(id) = "report"
  /\ Transmit(ReportProduct(id), outcome)
  /\ IF Answers(outcome, "Success") THEN Go(id, "poll", StatusPolls) ELSE Go(id, "ask", 0)
  /\ UNCHANGED overtaken

\* Asks once more than it may.
Slip_PollTransport(id, outcome) ==
  LET left == request[id].polls - 1
  IN /\ Stage(id) = "poll"
     /\ Transmit(GetStatus(id), outcome)
     /\ IF Answers(outcome, "inProgress") THEN Go(id, "sent", 0)
        ELSE IF left >= -1 THEN Go(id, "poll", left) ELSE Go(id, "ask", 0)
     /\ UNCHANGED overtaken

\* A request that fails is made again when the product has been loaded again.
PollTransport(id, outcome) ==
  LET left == request[id].polls - 1
  IN /\ Stage(id) = "poll"
     /\ Transmit(GetStatus(id), outcome)
     /\ IF Answers(outcome, "inProgress") THEN Go(id, "sent", 0)
        ELSE IF left > 0 THEN Go(id, "poll", left) ELSE Go(id, "ask", 0)
     /\ UNCHANGED overtaken

\* The product is at another cell, with a step for a third one.
ArriveSomewhere(id) ==
  /\ Stage(id) = "away" /\ ~machine.Sim_start
  /\ request[id].trips < MaxTrips[id]
  /\ request' = [request EXCEPT ![id].stage = "ask", ![id].trips = @ + 1]
  /\ UNCHANGED <<plcVars, machineVars, lost, ghosts>>

-----------------------------------------------------------------------------
\* Simulace1 and its timer.

\* Takes Done back without becoming idle, as the block once did.
Slip_Commanded(m, command, to) ==
  CASE command = "ResetDone"          -> [m EXCEPT !.Done = FALSE]
    [] command = "SetReady" /\ m.Idle -> [m EXCEPT !.Ready = TRUE, !.Idle = FALSE]
    [] command = "Start" /\ m.Ready   -> [m EXCEPT !.Ready = FALSE, !.Sim_start = TRUE]
    [] OTHER -> m

\* Becomes ready whatever it does.
Slip_ReadyAnyway(m, command, to) ==
  CASE command = "ResetDone"        -> [m EXCEPT !.Done = FALSE, !.Idle = TRUE]
    [] command = "SetReady"         -> [m EXCEPT !.Ready = TRUE, !.Idle = FALSE]
    [] command = "Start" /\ m.Ready -> [m EXCEPT !.Ready = FALSE, !.Sim_start = TRUE]
    [] OTHER -> m

\* The commands, in the order of the block.
Commanded(m, command, to) ==
  CASE command = "ResetDone"          -> [m EXCEPT !.Done = FALSE, !.Idle = TRUE]
    [] command = "SetReady" /\ m.Idle -> [m EXCEPT !.Ready = TRUE, !.Idle = FALSE]
    [] command = "Start" /\ m.Ready   ->
         IF to \in Timed
           THEN [m EXCEPT !.Error = FALSE, !.Ready = FALSE, !.Sim_start = TRUE]
           ELSE [m EXCEPT !.Error = TRUE, !.Ready = FALSE, !.Busy = FALSE,
                          !.Done = FALSE, !.Idle = FALSE]
    [] OTHER -> m

Running(m) == IF m.Sim_start THEN [m EXCEPT !.Idle = FALSE, !.Busy = TRUE] ELSE m

Ended(m) == IF m.Sim_end THEN [m EXCEPT !.Idle = FALSE, !.Busy = FALSE, !.Done = TRUE,
                                        !.Sim_start = FALSE] ELSE m

\* The timer runs whether the simulation is on or not.  elapsed: a timer that
\* ran before the call has reached the trip's time.
Simulace1(m, command, to, elapsed) ==
  LET left == IF Sim_BTN THEN Ended(Running(Commanded(m, command, to))) ELSE m
  IN [left EXCEPT !.Sim_end = left.Sim_start /\ (@ \/ (m.Sim_start /\ elapsed))]

Sees(m, elapsed) == Simulace1(m, "none", trip, elapsed)

\* No call of the block would change a bit.
AtRest == \A elapsed \in BOOLEAN : Sees(machine, elapsed) = machine

\* The bit each waiting step of DeviceSlow waits for.
Awaited == [state \in Waiting |->
  CASE state = 20 -> "Ready" [] state = 40 -> "Busy" [] state = 50 -> "Done"
    [] state = 70 -> "Idle"]

\* Where a waiting step leads with the machine's bits.  Its time is up only when
\* the machine does nothing any more, or was switched off meanwhile.
Led == IF machine[Awaited[seqState]] THEN {Answered[seqState]}
       ELSE IF machine.Error THEN {100}
       ELSE IF AtRest \/ troubled THEN {seqState, 100} ELSE {seqState}

DeviceWithMachine(sel) ==
  /\ DeviceSlow(sel)
  /\ seqState \in Waiting /\ sel.found /\ PassesCheck(sel.item) => seqState' \in Led

\* The handshake begins with a machine that is off, not idle, or has no time
\* for the trip.
BeginsBadly(params) == ~machine.Idle \/ ~Sim_BTN \/ params \notin Timed

\* A step of DeviceSlow 0 copies the cells; the product leaves with the machine.
PlcCycle ==
  \E sel \in {Selected}, elapsed \in BOOLEAN :
    /\ DeviceWithMachine(sel)
    /\ trip' = IF ~deviceRunning /\ deviceRunning' THEN sel.item.params ELSE trip
    /\ machine' = Simulace1(machine, cmd', trip', elapsed)
    /\ request' = IF machine'.Sim_start /\ ~machine.Sim_start
                    THEN [request EXCEPT ![cmdProductID].stage = "away"] ELSE request
    /\ troubled' = IF ~deviceRunning THEN deviceRunning' /\ BeginsBadly(sel.item.params)
                   ELSE troubled
    /\ overtaken' = (overtaken /\ deviceRunning')
    /\ UNCHANGED <<Sim_BTN, lost>>

\* Somebody works the switch.
Switch ==
  /\ Sim_BTN' = ~Sim_BTN
  /\ troubled' = deviceRunning
  /\ UNCHANGED <<plcVars, machine, trip, request, lost, overtaken>>

Reader(id) ==
  \/ ArriveSomewhere(id)
  \/ \E outcome \in Outcomes :
       \/ \E params \in Trips[id] : AskForTransport(id, params, outcome)
       \/ ReportForTransport(id, outcome) \/ PollTransport(id, outcome)

TransportNext == PlcCycle \/ Switch \/ \E id \in Id : Reader(id)

TransportSpec == TransportInit /\ [][TransportNext]_allVars

\* The PLC cycle never stops, a step timer that keeps running with a machine
\* that does not answer expires, and so does the machine's timer: weak fairness
\* with ENABLED written out.
\* CycleStep is a step that only PlcCycle can have taken.
CycleStep ==
  /\ Sim_BTN' = Sim_BTN /\ reply' = NoReply
  /\ \A id \in Id : request'[id] \in {request[id], [request[id] EXCEPT !.stage = "away"]}
Quiet == Settled /\ AtRest /\ ~troubled /\ ~overtaken
Stalled == Timing /\ (AtRest \/ troubled)
TransportFairness ==
  /\ []<>Quiet \/ []<><<CycleStep>>_allVars
  /\ []<>~Stalled \/ []<><<seqState \in Waiting /\ seqState' = 100>>_allVars
  /\ []<>(machine.Sim_start => machine.Sim_end)
FairTransportSpec == TransportSpec /\ TransportFairness

-----------------------------------------------------------------------------
\* Every variable keeps its type; those of the PLC are in TypeOK of PassiveAAS.
TransportTypeOK ==
  /\ seqState \in SeqStates /\ cmd \in Commands /\ cmdProductID \in Id \cup {noId}
  /\ machine \in [DOMAIN MachineOff -> BOOLEAN] /\ Sim_BTN \in BOOLEAN
  /\ trip \in Params \cup {NoParams}
  /\ request \in [Id -> Requests] /\ lost \in 0 .. MaxLost
  /\ {troubled, overtaken} \subseteq BOOLEAN

\* A handshake with an idle machine that stays on fails only for a trip without
\* a time: no pulse of DeviceSlow goes unseen and no bit it waits for stays off,
\* whatever a former handshake left behind.
FailsOnlyInTrouble == seqState = 100 => troubled

\* A machine that is neither idle nor ready when its handshake has not got past
\* the first wait stays so for good: nothing in the PLC ever frees it, and every
\* later transport fails (the bits are reset by step 60 of DeviceSlow alone).
Stuck == ~machine.Idle /\ ~machine.Ready /\ seqState \in {0, 10, 20, 100}
StuckForGood == [][Stuck => Stuck']_allVars

\* The machine starts only with a product that is at its cell, with that
\* product's trip: no reservation outlives the trip it was made for.
CarriedFromItsCell ==
  [][machine'.Sim_start /\ ~machine.Sim_start =>
       /\ Stage(cmdProductID) # "away"
       /\ item.id = cmdProductID /\ item.params = trip]_allVars

\* What a handshake ran leaves both queues and nothing else does, unless a
\* reservation of a higher priority came in between, which shifts the position
\* kept from the selection (itemPositionP of Passive_AAS).
RemovesWhatItRan ==
  [][deviceRunning /\ ~deviceRunning' /\ ~overtaken =>
       /\ ReservedIds(pq') = ReservedIds(pq) \ {item.id}
       /\ {p.id : p \in ToSet(Contents(rq'))} =
            {p.id : p \in ToSet(Contents(rq))} \ {item.id}]_allVars

\* A reader that took "inProgress" for the start of its transport and waits for
\* the product's removal does not wait for ever, unless a handshake fails or
\* another product is taken for the one it ran: nobody asks again for a product
\* that is waited for.
WaitEnds ==
  \A id \in Id : <>[](Stage(id) = "sent") => <>(seqState = 100 \/ overtaken)
=============================================================================
