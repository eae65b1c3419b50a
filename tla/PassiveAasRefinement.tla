------------------------ MODULE PassiveAasRefinement ------------------------
(***************************************************************************)
(* The PLC blocks of PassiveAAS, with the gate around CheckAction removed, *)
(* implement the service AasService promises: the rings are lists, the     *)
(* counters and the positions kept between cycles do not show, and the     *)
(* steps of DeviceSlow are four states of a handshake.                     *)
(***************************************************************************)
EXTENDS PassiveAAS

\* DeviceSlow's step as the service tells it.
Handshake ==
  IF ~deviceRunning THEN "idle"
  ELSE IF seqState = 100 THEN "failing"
  ELSE IF seqState \in {10, 20, 30} THEN "told" ELSE "started"

Service == INSTANCE AasService
  WITH reserved <- [p \in Priorities |-> Contents(pq.buffer[p])],
       reported <- [i \in 1 .. rq.count |-> Contents(rq)[i].id],
       device   <- Handshake,
       told     <- cmdProductID,
       active   <- pq.activeItemPosition,
       Accepted <- {p \in Params : SupportValue(p) # 0},
       Passing  <- {p \in Params : PassesCheck([params |-> p])},
       Capacity <- SubQueueCount

\* Every call and every cycle is a step of the service or changes nothing it
\* knows of: what is run is the first reserved action whose product is reported,
\* at the position published for GetStatus, and just that action and that
\* product leave when the handshake ends (CheckAction, RemoveFinishedProduct).
ImplementsService == Service!ServiceSpec

\* Each method answers what the two lists and the published position give when
\* it is called, and no counter, flag or index of the blocks shows in it.  The
\* position of GetStatus is the one PQueue_find gives, inside one priority, and
\* not the global one current_aas_plc_explanation.md says it is; so is the one it
\* compares with the published position, which is global.
AnswersFromTheLists ==
  [][reply'.id # noId =>
       LET id == reply'.id
       IN /\ reply'.method = "ReportProduct" => reply'.message = Service!ReportAnswer(id)
          /\ reply'.method = "ReserveAction" =>
               \E params \in Params :
                 reply'.message = Service!ReserveAnswer(id, reply'.priority, params)
          /\ reply'.method = "GetStatus" =>
               Service!StatusAnswer(id) =
                 [message |-> reply'.message, position |-> reply'.position]]_vars
=============================================================================
