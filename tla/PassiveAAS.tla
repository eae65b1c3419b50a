----------------------------- MODULE PassiveAAS -----------------------------
(***************************************************************************)
(* The cyclic part of a service provider PLC, the block Passive_AAS, with  *)
(* the blocks it calls: CheckAction picks a reserved action whose product  *)
(* is reported, DeviceSlow runs the handshake with the machine for it, and *)
(* RemoveFinishedProduct takes it out of both queues when the device stops *)
(* running.  One PLC cycle is one action, Scan; the method calls of        *)
(* ServiceProvider come between cycles.                                    *)
(*                                                                         *)
(* The machine is whatever it wants to be: in a waiting state each cycle   *)
(* may see the status bit it waits for, the error bit, both or neither.    *)
(* Time is one bit: a step timer that was already running may have expired. *)
(*                                                                         *)
(* SelectWhile tells for which values of deviceRunning the block calls     *)
(* CheckAction.  The committed code has {TRUE} (IF #deviceRunning THEN);   *)
(* {TRUE, FALSE} and {FALSE} are the two changes the repository's reports  *)
(* recommend, to remove or to invert the gate.                             *)
(***************************************************************************)
EXTENDS ServiceProvider, SequencesExt

CONSTANTS SelectWhile,     \* deviceRunning values CheckAction is called for
          HistoryLength    \* ids QueueHistoryStatus holds

ASSUME SelectWhileAssumption == SelectWhile \subseteq BOOLEAN
ASSUME HistoryLengthAssumption == HistoryLength \in Nat \ {0}

VARIABLES isFoundItem,     \* also DeviceSlow's in/out parameter Valid
          item, itemPositionRP, itemPositionP,  \* CheckAction's outputs
          deviceRunning,
          seqState,        \* DeviceSlow's step
          timerRunning,    \* stepTimer's input at its last call
          cmd,             \* the command pulsed in the last cycle
          cmdProductID,    \* the product the machine was told
          actionStatus,
          history          \* QueueHistoryStatus, oldest first

selection == <<isFoundItem, item, itemPositionRP, itemPositionP>>
device == <<deviceRunning, seqState, timerRunning, cmd, cmdProductID, actionStatus>>
vars == <<spVars, selection, device, history>>

Waiting == {20, 40, 50, 70}
SeqStates == {0, 10, 30, 60, 80, 100} \cup Waiting
Commands == {"none", "SetReady", "Start", "ResetDone"}

Init ==
  /\ SPInit
  /\ isFoundItem = FALSE /\ item = emptyItem
  /\ itemPositionRP = 0 /\ itemPositionP = 0
  /\ deviceRunning = FALSE /\ seqState = 0 /\ timerRunning = FALSE
  /\ cmd = "none" /\ cmdProductID = noId /\ actionStatus = "idle"
  /\ history = [i \in 1 .. HistoryLength |-> noId]

-----------------------------------------------------------------------------
\* Looks at the head of the priority queue only.
Slip_CheckAction ==
  LET head  == PQueue_get(pq, 0).item
      known == Queue_find(rq, head.id)
  IN IF pq.queueProductCount > 0 /\ known.found
       THEN [found |-> TRUE, item |-> head, rp |-> known.position, p |-> 0]
       ELSE [found |-> FALSE, item |-> item, rp |-> itemPositionRP, p |-> 0]

\* Walks from the back of the priority queue.
Slip_FromTheBack ==
  LET total    == pq.queueProductCount
      entry(i) == PQueue_get(pq, i).item
      hits     == {i \in 0 .. total - 1 : Queue_find(rq, entry(i).id).found}
      last     == CHOOSE i \in hits : \A h \in hits : i >= h
  IN IF hits # {}
       THEN [found |-> TRUE, item |-> entry(last),
             rp |-> Queue_find(rq, entry(last).id).position, p |-> last]
       ELSE [found |-> FALSE, rp |-> itemPositionRP, p |-> 0,
             item |-> IF total = 0 THEN item ELSE entry(0)]

\* CheckAction walks the priority queue until a reserved item is reported.
\* Without a hit item is the last one read, and itemPositionP one past it.
CheckAction ==
  LET total    == pq.queueProductCount
      entry(i) == PQueue_get(pq, i).item
      hits     == {i \in 0 .. total - 1 : Queue_find(rq, entry(i).id).found}
      first    == CHOOSE i \in hits : \A h \in hits : i <= h
  IN IF hits # {}
       THEN [found |-> TRUE, item |-> entry(first),
             rp |-> Queue_find(rq, entry(first).id).position, p |-> first]
       ELSE [found |-> FALSE, rp |-> itemPositionRP, p |-> total,
             item |-> IF total = 0 THEN item ELSE entry(total - 1)]

\* What DeviceSlow is called with in this cycle.
Selected ==
  IF deviceRunning \in SelectWhile THEN CheckAction
  ELSE [found |-> isFoundItem, item |-> item,
        rp |-> itemPositionRP, p |-> itemPositionP]

\* The two positions in the wrong order.
Slip_RemoveFinishedProduct(sel) ==
  [rq      |-> Queue_remove(rq, sel.p).queue,
   pq      |-> PQueue_removeByPosition(pq, sel.rp).pqueue,
   history |-> Append(Tail(history), sel.item.id)]

RemoveFinishedProduct(sel) ==
  [rq      |-> Queue_remove(rq, sel.rp).queue,
   pq      |-> PQueue_removeByPosition(pq, sel.p).pqueue,
   history |-> Append(Tail(history), sel.item.id)]

\* The position in the wrong queue.
Slip_PublishedPosition(sel, running) == IF running THEN sel.rp ELSE -1

PublishedPosition(sel, running) == IF running THEN sel.p ELSE -1

\* The blocks after DeviceSlow, once it has set deviceRunning to running: the
\* falling edge removes the finished product from both queues, then the active
\* position is published.
Conclude(sel, running) ==
  LET left == IF deviceRunning /\ ~running THEN RemoveFinishedProduct(sel)
              ELSE [rq |-> rq, pq |-> pq, history |-> history]
  IN /\ deviceRunning' = running
     /\ rq' = left.rq
     /\ history' = left.history
     /\ pq' = [left.pq EXCEPT !.activeItemPosition = PublishedPosition(sel, running)]
     /\ item' = sel.item
     /\ itemPositionRP' = sel.rp
     /\ itemPositionP' = sel.p
     /\ reply' = NoReply

-----------------------------------------------------------------------------
\* DeviceSlow's CHECK_ITEM: the parameters still lie in a supported range.
PassesCheck(i) ==
  {i.params.material, i.params.supportA, i.params.supportB} \subseteq {"100", "60"}

\* What every branch of DeviceSlow does to its outputs; valid is the new value
\* of Valid, which is isFoundItem.
Drive(sel, state, command, status, running, valid) ==
  /\ seqState' = state
  /\ cmd' = command
  /\ actionStatus' = status
  /\ isFoundItem' = valid
  /\ Conclude(sel, running)

\* No valid action.
KeepIdle(sel) ==
  /\ ~sel.found
  /\ Drive(sel, 0, "none", "idle", FALSE, FALSE)
  /\ UNCHANGED <<timerRunning, cmdProductID, outputPositionSr>>

RejectItem(sel) ==
  /\ sel.found /\ ~PassesCheck(sel.item)
  /\ Drive(sel, 0, "none", "failed", FALSE, FALSE)
  /\ UNCHANGED <<timerRunning, cmdProductID, outputPositionSr>>

\* A valid item in a step: the timer is called before the step runs.
InStep(sel, states) ==
  /\ sel.found /\ PassesCheck(sel.item)
  /\ seqState \in states
  /\ timerRunning' = (seqState \in Waiting)

Announce(sel) ==
  /\ InStep(sel, {0})
  /\ cmdProductID' = sel.item.id
  /\ Drive(sel, 10, "none", "idle", TRUE, TRUE)
  /\ UNCHANGED outputPositionSr

PulseSetReady(sel) ==
  /\ InStep(sel, {10})
  /\ Drive(sel, 20, "SetReady", "inProgress", TRUE, TRUE)
  /\ UNCHANGED <<cmdProductID, outputPositionSr>>

PulseStart(sel) ==
  /\ InStep(sel, {30})
  /\ Drive(sel, 40, "Start", actionStatus, TRUE, TRUE)
  /\ UNCHANGED <<cmdProductID, outputPositionSr>>

\* The step a waiting step leads to once the machine answers.
Answered == [state \in Waiting |->
  CASE state = 20 -> 30 [] state = 40 -> 50 [] state = 50 -> 60 [] state = 70 -> 80]

\* answered: the awaited status bit; failing: StsError; expired: stepTimer.Q,
\* which a timer only just started does not set.
Await(sel, answered, failing, expired) ==
  /\ InStep(sel, Waiting)
  /\ expired => timerRunning
  /\ Drive(sel,
           IF answered THEN Answered[seqState]
           ELSE IF failing \/ expired THEN 100 ELSE seqState,
           "none", actionStatus, TRUE, TRUE)
  /\ UNCHANGED <<cmdProductID, outputPositionSr>>

PulseResetDone(sel) ==
  /\ InStep(sel, {60})
  /\ outputPositionSr' = sel.item.id
  /\ Drive(sel, 70, "ResetDone", actionStatus, TRUE, TRUE)
  /\ UNCHANGED cmdProductID

Complete(sel) ==
  /\ InStep(sel, {80})
  /\ Drive(sel, 0, "none", "idle", FALSE, FALSE)
  /\ UNCHANGED <<cmdProductID, outputPositionSr>>

\* Leaves the device running and the item valid.
Slip_Fail(sel) ==
  /\ InStep(sel, {100})
  /\ Drive(sel, 0, "none", "failed", TRUE, TRUE)
  /\ UNCHANGED <<cmdProductID, outputPositionSr>>

Fail(sel) ==
  /\ InStep(sel, {100})
  /\ Drive(sel, 0, "none", "failed", FALSE, FALSE)
  /\ UNCHANGED <<cmdProductID, outputPositionSr>>

DeviceSlow(sel) ==
  \/ KeepIdle(sel)
  \/ RejectItem(sel)
  \/ Announce(sel)
  \/ PulseSetReady(sel)
  \/ PulseStart(sel)
  \/ \E answered, failing, expired \in BOOLEAN :
       Await(sel, answered, failing, expired)
  \/ PulseResetDone(sel)
  \/ Complete(sel)
  \/ Fail(sel)

Scan == \E sel \in {Selected} : DeviceSlow(sel)

TimeOut == \E sel \in {Selected} : Await(sel, FALSE, FALSE, TRUE)

MethodCall == Call /\ UNCHANGED <<selection, device, history>>

Next == Scan \/ MethodCall

\* A cycle would change nothing: no Scan step that is not a stutter is enabled.
Settled ==
  LET sel == Selected
  IN /\ ~deviceRunning /\ ~isFoundItem /\ reply = NoReply
     /\ seqState = 0 /\ cmd = "none" /\ pq.activeItemPosition = -1
     /\ <<item, itemPositionRP, itemPositionP>> = <<sel.item, sel.rp, sel.p>>
     /\ IF sel.found THEN ~PassesCheck(sel.item) /\ actionStatus = "failed"
                     ELSE actionStatus = "idle"

\* The step timer runs, so that TimeOut is enabled.
Timing ==
  LET sel == Selected
  IN sel.found /\ PassesCheck(sel.item) /\ seqState \in Waiting /\ timerRunning

\* The PLC cycle never stops, and a step timer that keeps running expires: weak
\* fairness of Scan and of TimeOut, with ENABLED written out as a predicate.
Fairness ==
  /\ []<>Settled \/ []<><<Scan>>_vars
  /\ []<>~Timing \/ []<><<TimeOut>>_vars

Spec == Init /\ [][Next]_vars
FairSpec == Spec /\ Fairness

-----------------------------------------------------------------------------
\* Type correctness of the whole PLC.
TypeOK ==
  /\ SPTypeOK
  /\ isFoundItem \in BOOLEAN /\ deviceRunning \in BOOLEAN
  /\ item \in Product \cup {emptyItem}
  /\ itemPositionRP \in Slots
  /\ itemPositionP \in 0 .. PriorityCount * SubQueueCount
  /\ seqState \in SeqStates /\ timerRunning \in BOOLEAN
  /\ cmd \in Commands /\ cmdProductID \in Id \cup {noId}
  /\ actionStatus \in {"idle", "inProgress", "failed"}
  /\ history \in [1 .. HistoryLength -> Id \cup {noId}]

\* When the device stops running, the product it ran leaves both queues, no
\* other product does, and its id is the newest of the history.
RemovalIsExact ==
  [][deviceRunning /\ ~deviceRunning' =>
       /\ ReservedIds(pq') = ReservedIds(pq) \ {item'.id}
       /\ {p.id : p \in ToSet(Contents(rq'))} =
            {p.id : p \in ToSet(Contents(rq))} \ {item'.id}
       /\ rq.count = rq'.count + 1
       /\ history'[HistoryLength] = item'.id]_vars

\* While the device runs, activeItemPosition is the place of the product it
\* runs, so that GetStatus says inProgress of that one and FreeFromQueue
\* refuses to take it out.
ActiveIsRunning ==
  deviceRunning => PQueue_get(pq, pq.activeItemPosition).item.id = item.id

\* Whatever the machine answers, or if it never answers, a handshake ends.
HandshakeEnds == deviceRunning ~> ~deviceRunning

\* Some reserved product is reported.
WorkIsReady ==
  ReservedIds(pq) \cap {p.id : p \in ToSet(Contents(rq))} # {}

\* A reserved and reported product makes the device start.
WorkStarts == WorkIsReady ~> deviceRunning

\* A product that is reserved and reported has its turn, although the clients of
\* others report and reserve at its priority for ever (CheckAction takes the
\* oldest ready action, RemoveFinishedProduct the one that was run).
ServedInTurn ==
  \A id \in Id :
    LET waits == id \in ReservedIds(pq) \cap {p.id : p \in ToSet(Contents(rq))}
    IN waits ~> ~waits
=============================================================================
