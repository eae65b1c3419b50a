------------------------------ MODULE AasService ------------------------------
(***************************************************************************)
(* What a service provider PLC promises its clients, with the gate around  *)
(* CheckAction removed: products are reported, actions reserved under a    *)
(* priority, and the first reserved action whose product is reported is    *)
(* run, then taken out of both lists.  No rings, counters, positions kept  *)
(* from cycle to cycle or handshake steps.  PassiveAasRefinement shows     *)
(* that the blocks of the PLC implement it; CellCalls puts the readers     *)
(* around it.                                                              *)
(***************************************************************************)
EXTENDS Integers, SequencesExt

CONSTANTS Id, noId,        \* products, and the id of none
          Params,          \* what can be asked for
          Accepted,        \* what ReserveAction takes
          Passing,         \* what the machine's last check lets through
          PriorityCount,
          Capacity         \* of a list

ASSUME ServiceAssumption ==
  /\ noId \notin Id /\ Accepted \subseteq Params /\ Passing \subseteq Params
  /\ PriorityCount \in Nat \ {0} /\ Capacity \in Nat \ {0}

VARIABLES reserved,   \* by priority, the actions in the order they came in
          reported,   \* the products, likewise
          device,     \* how far the handshake is
          told,       \* the product the machine was told of last
          active      \* activeItemPosition

serviceVars == <<reserved, reported, device, told, active>>

Priorities == 0 .. PriorityCount - 1
Actions == [id : Id, params : Params]
DeviceStates == {"idle", "told", "started", "failing"}

ServiceInit ==
  /\ reserved = [p \in Priorities |-> <<>>]
  /\ reported = <<>>
  /\ device = "idle" /\ told = noId /\ active = 0

\* Where the actions are: a priority and a place in its list.
Places == UNION {{p} \X DOMAIN reserved[p] : p \in Priorities}
Entry(place) == reserved[place[1]][place[2]]

\* Priority 0 goes first, then the older of two actions.
Before(a, b) == a[1] < b[1] \/ (a[1] = b[1] /\ a[2] < b[2])
First(places) == CHOOSE a \in places : \A b \in places : ~Before(b, a)

\* The position of a place as the interface counts, over all the priorities.
Position(place) == Cardinality({other \in Places : Before(other, place)})

IsReserved(id) == \E place \in Places : Entry(place).id = id
IsReported(id) == \E i \in DOMAIN reported : reported[i] = id

-----------------------------------------------------------------------------
\* The answers, which depend on nothing but the state.
ReportAnswer(id) ==
  IF IsReported(id) THEN "RQErrIdAlreadyKnown"
  ELSE IF Len(reported) = Capacity THEN "PQErrBufferIsFull" ELSE "Success"

ReserveAnswer(id, priority, params) ==
  IF IsReserved(id) THEN "PQErrItemAlreadyInQueue"
  ELSE IF params \notin Accepted THEN "ErrItemNotSupported"
  ELSE IF Len(reserved[priority]) = Capacity THEN "PQErrBufferIsFull" ELSE "Success"

\* A position counts inside the action's priority, active over all of them, so
\* that the two are compared although they count differently.
StatusAnswer(id) ==
  LET place(p) == SelectInSeq(reserved[p], LAMBDA a : a.id = id)
      holding  == {p \in Priorities : place(p) > 0}
      position == place(CHOOSE p \in holding : \A q \in holding : p <= q) - 1
  IN IF holding = {} THEN [message |-> "PQErrItemNotFound", position |-> 0]
     ELSE IF position = active THEN [message |-> "inProgress", position |-> 0]
     ELSE [message |-> "position", position |-> position]

Report(id) ==
  /\ reported' = IF ReportAnswer(id) = "Success" THEN Append(reported, id) ELSE reported
  /\ UNCHANGED <<reserved, device, told, active>>

Reserve(id, priority, params) ==
  /\ reserved' = IF ReserveAnswer(id, priority, params) = "Success"
                   THEN [reserved EXCEPT ![priority] = Append(@, [id |-> id, params |-> params])]
                   ELSE reserved
  /\ UNCHANGED <<reported, device, told, active>>

-----------------------------------------------------------------------------
\* The actions whose product is reported; the first of them is run.
Ready == {place \in Places : IsReported(Entry(place).id)}
Pick == First(Ready)
Runs == Ready # {} /\ Entry(Pick).params \in Passing

\* Nothing to run, or an action the machine's check refuses.
Rest ==
  /\ device = "idle" /\ ~Runs
  /\ active' = -1
  /\ UNCHANGED <<reserved, reported, device, told>>

Begin ==
  /\ device = "idle" /\ Runs
  /\ device' = "told" /\ told' = Entry(Pick).id
  /\ active' = Position(Pick)
  /\ UNCHANGED <<reserved, reported>>

\* The handshake goes on with what is picked now, which may be another action
\* than the one it began with.
Proceed(from, to) ==
  /\ device = from /\ Runs
  /\ device' = to
  /\ active' = Position(Pick)
  /\ UNCHANGED <<reserved, reported, told>>

Hold == \E state \in {"told", "started"} : Proceed(state, state)
Start == Proceed("told", "started")
Break == \E state \in {"told", "started"} : Proceed(state, "failing")

Withdraw(place, id) ==
  /\ device' = "idle" /\ active' = -1
  /\ reserved' = [reserved EXCEPT ![place[1]] = RemoveAt(@, place[2])]
  /\ reported' = RemoveAt(reported, CHOOSE i \in DOMAIN reported : reported[i] = id)
  /\ UNCHANGED told

\* Takes out the oldest action instead of the one picked.
Slip_End == Withdraw(First(Places), Entry(Pick).id)

\* The action picked last leaves both lists.
End == Withdraw(Pick, Entry(Pick).id)

Complete == device = "started" /\ Runs /\ End
Fail == device = "failing" /\ Runs /\ End
Reject == device # "idle" /\ Ready # {} /\ ~Runs /\ End

Advance == Begin \/ Start \/ Break \/ Complete \/ Fail \/ Reject
Cycle == Rest \/ Hold \/ Advance

ServiceNext ==
  \/ Cycle
  \/ \E id \in Id : \/ Report(id)
                    \/ \E p \in Priorities, params \in Params : Reserve(id, p, params)

ServiceSpec == ServiceInit /\ [][ServiceNext]_serviceVars

-----------------------------------------------------------------------------
ServiceTypeOK ==
  /\ reserved \in [Priorities -> Seq(Actions)]
  /\ \A p \in Priorities : Len(reserved[p]) <= Capacity
  /\ reported \in Seq(Id) /\ Len(reported) <= Capacity
  /\ device \in DeviceStates /\ told \in Id \cup {noId}
  /\ active \in -1 .. PriorityCount * Capacity
=============================================================================
