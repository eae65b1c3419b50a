----------------------------- MODULE ReaderAas -----------------------------
(***************************************************************************)
(* The reader of one production cell (State_Machine and Is_Card_On_Reader  *)
(* in app.c, USE_PLC_AAS_FLOW): it loads the tag of the product in front   *)
(* of it, reports the product to the PLC, has the cell do a step the cell  *)
(* owns, reserves another cell and a transport for a step it does not own, *)
(* keeps the tag up to date and writes a new recipe over a finished one.   *)
(*                                                                         *)
(* The two tasks share the NFC semaphore: the poll for a card comes        *)
(* between two groups of handler calls, never inside one.                  *)
(*                                                                         *)
(* A ReserveAction may be lost, or taken by the PLC and its answer lost.   *)
(*                                                                         *)
(* Not here: the flow entered when a report is not answered, which is that *)
(* of ReaderLegacy.  Here a report is always answered.                     *)
(***************************************************************************)
EXTENDS NfcHandler

CONSTANTS ME,          \* IDofCell of this cell
          Listed,      \* the cells GetCellInfoFromLDS can name
          Recipes,     \* the owners of the steps of each known recipe
          ToStorage,   \* those of the return-to-storage recipe
          FirstTags,   \* what the tags may hold when they enter the plant
          MaxBatch,    \* recipes ever written, to bound the runs
          StackInfo,   \* what the task's stack held before
          Stays,       \* a product leaves only when it is waited for
          Travels      \* a product away from the reader visits other cells

ASSUME MeAssumption == ME \in UInt16 \ {0}
ASSUME RecipesAssumption ==
  /\ Recipes \in Seq(Seq(UInt16)) /\ Recipes # <<>> /\ ToStorage \in Seq(UInt16)
  /\ Len(ToStorage) <= MaxSteps /\ \A i \in DOMAIN Recipes : Len(Recipes[i]) <= MaxSteps
ASSUME FirstTagsAssumption ==
  /\ FirstTags \subseteq [Tags -> [info : TRecipeInfo, steps : [1 .. MaxSteps -> TRecipeStep]]]
  /\ \A f \in FirstTags : \A t \in Tags : f[t].info.steps <= MaxSteps
  /\ StackInfo \in TRecipeInfo
ASSUME MovesAssumption == Stays \in BOOLEAN /\ Travels \in BOOLEAN

VARIABLES raf,         \* the state of State_Machine
          at,          \* where in it: at the loop's top or after a call
          cardOnReader,    \* CardOnReader, the flag the two tasks share
          receiptCounter,  \* ReceiptCounter
          gate,        \* s_transportGate
          guarded,     \* within AAS_RESCAN_GUARD_MS of the last ReserveAction
          batches,     \* recipes written so far
          reported,    \* the sr_id last reported to the PLC
          seen,        \* the tag the last LoadData read
          orders,      \* what the PLC of this cell was told to do
          targetHolds, \* the target cell's PLC holds a reservation
          made,        \* steps done to the products, as [tag, batch, step]
          twice,       \* those done again
          unheard      \* those ordered without the reader's hearing of it

plcVars == <<reported, orders, made, twice, unheard>>
ghosts == <<seen, batches>>
aasVars == <<raf, at, cardOnReader, receiptCounter, gate, guarded, batches, seen, targetHolds>>
vars == <<hVars, aasVars, plcVars>>

RafStates == {"Mimo", "Presun", "Konec", "Novy", "Wait"}
NoReport == "none"
Points == {"loop", "loaded", "poll", "written", "gate"}
GateReset == [targetReserved |-> FALSE, stepIndex |-> 0, targetCellId |-> 0]

\* sr_id is made of the UID working has.
SrId == working.uid

Info == working.info
Current == Info.actual + 1
OwnerOf(i) == working.steps[i].owner

\* Goes on with the iteration.
Slip_Loop(s) == raf' = s /\ at' = at

\* The next iteration of the loop, in state s.
Loop(s) == raf' = s /\ at' = "loop"
Ready(s, point) == HandlerIdle /\ raf = s /\ at = point

\* The handler calls, made before the machine goes on at point.
Calls(seq, point) == calls' = seq /\ at' = point
KeepHandler == UNCHANGED hVars
KeepTag == UNCHANGED <<tags, onReader, integrity, op, result, steady, panicked>>

-----------------------------------------------------------------------------
\* Is_Card_On_Reader.
PollCard ==
  /\ op = NoOp /\ calls = <<>> /\ ~panicked
  /\ cardOnReader' = (onReader # NoTag)
  /\ UNCHANGED <<hVars, raf, at, receiptCounter, gate, guarded, ghosts, targetHolds, plcVars>>

\* The top of the loop, for a product that is gone.
Gone ==
  /\ HandlerIdle /\ at = "loop"
  /\ ~cardOnReader
  /\ raf # "Mimo" /\ Loop("Mimo")
  /\ UNCHANGED <<hVars, cardOnReader, receiptCounter, gate, guarded, ghosts,
                 targetHolds, plcVars>>

Enters(s) == Ready(s, "loop") /\ cardOnReader

MimoPolozena ==
  /\ Enters("Mimo")
  /\ Calls(<<"LoadData">>, "loaded")
  /\ UNCHANGED <<tags, onReader, cards, op, result, steady, panicked, raf, cardOnReader,
                 receiptCounter, gate, guarded, ghosts, targetHolds, plcVars>>

LoadFailed ==
  /\ Ready("Mimo", "loaded")
  /\ result.value # 0
  /\ Loop(IF result.value = 4 THEN "Presun" ELSE "Mimo")
  /\ UNCHANGED <<hVars, cardOnReader, receiptCounter, gate, guarded, ghosts,
                 targetHolds, plcVars>>

\* NFC_IsRecipeEmpty, of an info that has an ID.
IsRecipeEmpty ==
  \/ Info.steps = 0 \/ ~HasSteps(working)
  \/ Info.actual >= Info.steps /\ ~Info.done

Loaded == Ready("Mimo", "loaded") /\ result.value = 0

EmptyTag ==
  /\ Loaded /\ IsRecipeEmpty
  /\ Loop("Wait")
  /\ UNCHANGED <<hVars, cardOnReader, receiptCounter, gate, guarded, ghosts,
                 targetHolds, plcVars>>

\* Keeps it in memory.
Slip_MarkDone(s) ==
  /\ working' = [working EXCEPT !.info.done = TRUE]
  /\ UNCHANGED <<calls, dirty>>
  /\ KeepTag
  /\ Loop(s)

\* A write-back of the info: working changes, then WriteSafeInfo and Sync.
MarkDone(s) ==
  /\ working' = [working EXCEPT !.info.done = TRUE]
  /\ calls' = <<"WriteSafeInfo", "Sync">>
  /\ UNCHANGED dirty
  /\ KeepTag
  /\ Loop(s)

\* ReportProduct answers an error other than "already reported".
ReportRefused ==
  /\ Loaded /\ ~IsRecipeEmpty
  /\ MarkDone("Mimo")
  /\ UNCHANGED <<cardOnReader, receiptCounter, gate, guarded, ghosts, targetHolds, plcVars>>

\* The product is reported; a gate of another step is closed.
Reported ==
  /\ Loaded /\ ~IsRecipeEmpty
  /\ reported' = SrId
  /\ UNCHANGED <<cardOnReader, receiptCounter, ghosts, made, twice>>

StepGate == IF gate.targetReserved /\ gate.stepIndex # Info.actual THEN GateReset ELSE gate

Finished == Info.done \/ Info.actual >= Info.steps

RecipeFinished ==
  /\ Reported /\ Finished
  /\ IF Info.done THEN Loop("Konec") /\ KeepHandler ELSE MarkDone("Konec")
  /\ gate' = StepGate
  /\ UNCHANGED <<guarded, orders, unheard, targetHolds>>

Rescan ==
  /\ Reported /\ ~Finished /\ guarded
  /\ Loop("Wait")
  /\ gate' = StepGate
  /\ UNCHANGED <<hVars, guarded, orders, unheard, targetHolds>>

-----------------------------------------------------------------------------
\* A step this cell owns.

\* The PLC does not take a product it has a reservation for.
Accepts(sr) == \A o \in orders : o.sr = sr => o.done
Order(sr, t, batch, i) == [sr |-> sr, tag |-> t, batch |-> batch, step |-> i, done |-> FALSE]
Ordered(order) == {o \in orders : o.sr # order.sr} \cup {order}

Decide == Reported /\ ~Finished /\ ~guarded
IsLocal == OwnerOf(Current) = ME
AlreadyReserved == working.steps[Current].reserved = ME

\* The PLC takes the order for the step at hand.
Taken ==
  /\ Accepts(SrId)
  /\ orders' = Ordered(Order(SrId, seen, Info.batch, Current))

\* Refused or not answered, by a PLC that may have taken it all the same; no
\* re-scan guard is set.
LocalRefused ==
  /\ Decide /\ IsLocal /\ ~AlreadyReserved
  /\ \/ UNCHANGED <<orders, unheard>>
     \/ Taken /\ unheard' = unheard \cup
                   {[tag |-> seen, batch |-> Info.batch, step |-> Current]}
  /\ Loop("Mimo")
  /\ gate' = StepGate
  /\ UNCHANGED <<hVars, guarded, targetHolds>>

LocalReserved ==
  /\ Decide /\ IsLocal /\ ~AlreadyReserved
  /\ Taken
  /\ guarded' = TRUE
  /\ at' = "poll" /\ gate' = StepGate
  /\ UNCHANGED <<hVars, raf, unheard, targetHolds>>

\* The cell that sent the product has reserved the step.
LocalMarked ==
  /\ Decide /\ IsLocal /\ AlreadyReserved
  /\ at' = "poll" /\ gate' = StepGate
  /\ UNCHANGED <<hVars, raf, guarded, orders, unheard, targetHolds>>

\* Keeps the step pending, like a refused reservation.
Slip_CompletionFailed ==
  /\ Ready("Mimo", "poll")
  /\ Loop("Mimo")
  /\ UNCHANGED <<hVars, cardOnReader, receiptCounter, gate, guarded, ghosts,
                 targetHolds, plcVars>>

\* The status answered an error or nothing in time.
CompletionFailed ==
  /\ Ready("Mimo", "poll")
  /\ MarkDone("Mimo")
  /\ UNCHANGED <<cardOnReader, receiptCounter, gate, guarded, ghosts, targetHolds, plcVars>>

\* Counts the step twice.
Slip_Advance ==
  [working EXCEPT !.steps[Current].done = TRUE,
                  !.info.actual = IF Current < Info.steps THEN Current + 1 ELSE Current,
                  !.info.done   = Info.done \/ Current >= Info.steps]

\* The step is done in working, the recipe too after the last one.
Advance ==
  [working EXCEPT !.steps[Current].done = TRUE,
                  !.info.actual = Current,
                  !.info.done   = Info.done \/ Current >= Info.steps]

CompletionOk ==
  /\ Ready("Mimo", "poll")
  /\ \E o \in orders : o.sr = SrId /\ o.done
  /\ working' = Advance
  /\ dirty' = WriteStep(working, Current)
  /\ Calls(<<"WriteSafeInfo", "Sync">>, "written")
  /\ KeepTag
  /\ UNCHANGED <<raf, cardOnReader, receiptCounter, gate, guarded, ghosts, targetHolds, plcVars>>

\* A product whose next step is for another cell is looked at again.
NextIsRemote ==
  /\ ~Finished
  /\ OwnerOf(Current) \notin {0, ME}

PostStep ==
  /\ Ready("Mimo", "written")
  /\ Loop(IF NextIsRemote THEN "Mimo" ELSE "Wait")
  /\ UNCHANGED <<hVars, cardOnReader, receiptCounter, gate, guarded, ghosts,
                 targetHolds, plcVars>>

-----------------------------------------------------------------------------
\* A step of another cell.

\* The cell the step is for: ProcessCellID, when a production inquiry has set
\* it to another cell than this one, or else the owner.
TargetOf(i) == IF working.steps[i].cell \notin {0, ME} THEN working.steps[i].cell
               ELSE OwnerOf(i)

\* resolve_target_cell_for_step: the cell must be in the table of cells too,
\* which of the owners of a step lists three of six.
Resolved ==
  /\ working.known /\ working.loaded
  /\ TargetOf(Current) \in Listed \ {0, ME}

TargetRefused ==
  /\ Decide /\ ~IsLocal
  /\ \/ UNCHANGED targetHolds
     \/ Resolved /\ targetHolds' = TRUE      \* accepted, but not confirmed
  /\ gate' = GateReset
  /\ Loop("Mimo")
  /\ UNCHANGED <<hVars, guarded, orders, unheard>>

\* Leaves the marker to Sync, for which the step is not dirty.
Slip_TargetReserved ==
  /\ Decide /\ ~IsLocal /\ Resolved
  /\ ~targetHolds /\ targetHolds' = TRUE
  /\ working' = [working EXCEPT !.steps[Current].reserved = TargetOf(Current)]
  /\ Calls(<<"Sync">>, "gate")
  /\ gate' = [targetReserved |-> TRUE, stepIndex |-> Info.actual,
              targetCellId |-> TargetOf(Current)]
  /\ KeepTag
  /\ UNCHANGED <<dirty, raf, guarded, orders, unheard>>

\* The marker is written by a step written at once.
TargetReserved ==
  /\ Decide /\ ~IsLocal /\ Resolved
  /\ ~targetHolds /\ targetHolds' = TRUE
  /\ working' = [working EXCEPT !.steps[Current].reserved = TargetOf(Current)]
  /\ Calls(<<"WriteSafeStep", "Sync">>, "gate")
  /\ gate' = [targetReserved |-> TRUE, stepIndex |-> Info.actual,
              targetCellId |-> TargetOf(Current)]
  /\ KeepTag
  /\ UNCHANGED <<dirty, raf, guarded, orders, unheard>>

\* transport_gate_matches_runtime
GateMatches ==
  /\ gate.targetReserved
  /\ gate.stepIndex = Info.actual
  /\ Info.actual < Info.steps
  /\ working.known /\ working.loaded /\ gate.targetCellId = TargetOf(Current)

GateBlocked ==
  /\ Ready("Mimo", "gate") /\ ~GateMatches
  /\ Loop("Mimo")
  /\ UNCHANGED <<hVars, cardOnReader, receiptCounter, gate, guarded, ghosts,
                 targetHolds, plcVars>>

TransportFailed ==
  /\ Ready("Mimo", "gate") /\ GateMatches
  /\ gate' = GateReset
  /\ Loop("Mimo")
  /\ UNCHANGED <<hVars, cardOnReader, receiptCounter, guarded, ghosts, targetHolds, plcVars>>

TransportStarted ==
  /\ Ready("Mimo", "gate") /\ GateMatches
  /\ gate' = GateReset
  /\ Loop("Wait")
  /\ UNCHANGED <<hVars, cardOnReader, receiptCounter, guarded, ghosts, targetHolds, plcVars>>

-----------------------------------------------------------------------------
\* Recipes written by the reader.

NewRecipe(owners) == GetCardInfoByNumber(owners, batches + 1)
CountRecipe == batches < MaxBatch /\ batches' = batches + 1

\* NFC_Handler_Init forgets the arrays but not the infos.
Presun ==
  /\ Enters("Presun") /\ CountRecipe
  /\ integrity' = InitTCardInfo(integrity.info)
  /\ working' = [NewRecipe(ToStorage) EXCEPT !.info.id = 1]
  /\ dirty' = [i \in 1 .. Len(ToStorage) |-> TRUE]
  /\ calls' = <<"Sync">> /\ Loop("Mimo")
  /\ UNCHANGED <<tags, onReader, op, result, steady, panicked, cardOnReader,
                 receiptCounter, gate, guarded, seen, targetHolds, plcVars>>

KonecReceptu ==
  /\ Enters("Konec")
  /\ Loop("Novy")
  /\ UNCHANGED <<hVars, cardOnReader, receiptCounter, gate, guarded, ghosts,
                 targetHolds, plcVars>>

NovyRecept ==
  LET number == IF receiptCounter >= Len(Recipes) THEN 0 ELSE receiptCounter
  IN /\ Enters("Novy") /\ CountRecipe
     /\ receiptCounter' = number + 1
     /\ AddCardInfoToWorking(NewRecipe(Recipes[number + 1]))
     /\ calls' = <<"Sync">> /\ Loop("Mimo")
     /\ KeepTag
     /\ UNCHANGED <<cardOnReader, gate, guarded, seen, targetHolds, plcVars>>

-----------------------------------------------------------------------------
\* Around the reader.

GuardExpires ==
  /\ guarded /\ guarded' = FALSE
  /\ UNCHANGED <<hVars, raf, at, cardOnReader, receiptCounter, gate, ghosts,
                 targetHolds, plcVars>>

\* The machine of the cell does what was ordered for the product reported, to
\* the product that stands in it.
CellWorks ==
  /\ onReader # NoTag
  /\ \E o \in orders :
       LET step == [tag |-> onReader, batch |-> o.batch, step |-> o.step]
       IN /\ ~o.done /\ o.sr = reported
          /\ orders' = (orders \ {o}) \cup {[o EXCEPT !.done = TRUE]}
          /\ made' = made \cup {step}
          /\ twice' = twice \cup ({step} \cap made)
  /\ UNCHANGED <<hVars, aasVars, reported, unheard>>

Owned(t) == tags[t].info.actual < tags[t].info.steps /\ ~tags[t].info.done
OwnerAt(t) == tags[t].steps[tags[t].info.actual + 1].owner

\* Another cell does its step and brings the tag up to date.
DoneElsewhere(t) ==
  LET i == tags[t].info.actual + 1
      info == [tags[t].info EXCEPT !.actual = i, !.done = i = tags[t].info.steps]
      steps == [tags[t].steps EXCEPT ![i].done = TRUE]
      step == [tag |-> t, batch |-> info.batch, step |-> i]
  IN /\ Travels
     /\ onReader # t /\ tags[t].info.id # 0 /\ Owned(t) /\ OwnerAt(t) # ME
     /\ tags' = [tags EXCEPT ![t] =
                   [info  |-> [info EXCEPT !.cs = CheckSum([info |-> info, steps |-> steps])],
                    steps |-> steps]]
     /\ made' = made \cup {step}
     /\ twice' = twice \cup ({step} \cap made)
     /\ targetHolds' = FALSE
     /\ UNCHANGED <<onReader, cards, calls, op, result, steady, panicked, raf, at,
                    cardOnReader, receiptCounter, gate, guarded, ghosts, reported, orders,
                    unheard>>

\* Another cell reserves this one for the product's next step and marks it.
SentHere(t) ==
  LET i == tags[t].info.actual + 1
      steps == [tags[t].steps EXCEPT ![i].reserved = ME]
  IN /\ Travels
     /\ onReader # t /\ tags[t].info.id # 0 /\ Owned(t) /\ OwnerAt(t) = ME
     /\ tags[t].steps[i].reserved # ME
     /\ Accepts(NoUid)
     /\ orders' = Ordered(Order(NoUid, t, tags[t].info.batch, i))
     /\ tags' = [tags EXCEPT ![t].steps = steps,
                             ![t].info.cs = CheckSum([info |-> tags[t].info, steps |-> steps])]
     /\ UNCHANGED <<onReader, cards, calls, op, result, steady, panicked, aasVars,
                    reported, made, twice, unheard>>

Leaves == (Stays => raf = "Wait" /\ HandlerIdle) /\ TakeAway /\ UNCHANGED <<aasVars, plcVars>>
Arrives(t) == PutDown(t) /\ UNCHANGED <<aasVars, plcVars>>

\* What the memory held is lost.
Restart ==
  /\ panicked' = FALSE
  /\ integrity' = InitTCardInfo(StackInfo) /\ working' = InitTCardInfo(StackInfo)
  /\ dirty' = <<>> /\ calls' = <<>> /\ op' = NoOp /\ result' = NoResult
  /\ Loop("Mimo")
  /\ cardOnReader' = FALSE /\ receiptCounter' = 0 /\ gate' = GateReset
  /\ guarded' = FALSE
  /\ UNCHANGED <<tags, onReader, steady, ghosts, targetHolds, plcVars>>

\* The panic handler restarts the chip.
Reboot == panicked /\ Restart

-----------------------------------------------------------------------------
HandlerWorks ==
  /\ HandlerStep
  /\ seen' = IF Doing("LoadData", "info") /\ onReader # NoTag THEN onReader ELSE seen
  /\ UNCHANGED <<raf, at, cardOnReader, receiptCounter, gate, guarded, batches,
                 targetHolds, plcVars>>

\* The steps within the states of State_Machine, but for those of a step of
\* another cell that another flow has to know of.
Decides ==
  \/ MimoPolozena \/ LoadFailed \/ EmptyTag \/ ReportRefused \/ RecipeFinished
  \/ Rescan \/ LocalRefused \/ LocalReserved \/ LocalMarked
  \/ CompletionFailed \/ CompletionOk \/ PostStep \/ GateBlocked \/ Presun \/ KonecReceptu
  \/ NovyRecept

Reader ==
  \/ Gone \/ Decides
  \/ TargetRefused \/ TargetReserved \/ TransportFailed \/ TransportStarted

Next ==
  \/ Reader \/ HandlerWorks \/ PollCard \/ GuardExpires \/ CellWorks \/ Leaves \/ Reboot
  \/ \E t \in Tags : DoneElsewhere(t) \/ SentHere(t) \/ Arrives(t)

\* A tag as it enters the plant: blank, or with a recipe that was not started.
NewTag(id, owners, batch) ==
  LET card == GetCardInfoByNumber(owners, batch)
  IN [info  |-> [card.info EXCEPT !.id = id],
      steps |-> [i \in 1 .. MaxSteps |-> IF i <= Len(owners) THEN card.steps[i]
                                         ELSE EmptyStep]]

Init ==
  /\ tags \in FirstTags /\ onReader = NoTag
  /\ HandlerInit(StackInfo)
  /\ raf = "Mimo" /\ at = "loop" /\ cardOnReader = FALSE /\ receiptCounter = 0
  /\ gate = GateReset /\ guarded = FALSE /\ targetHolds = FALSE
  /\ batches = Cardinality(Tags) /\ seen = NoTag
  /\ reported = NoReport /\ orders = {} /\ made = {} /\ twice = {}
  /\ unheard = {}

Spec == Init /\ [][Next]_vars

-----------------------------------------------------------------------------
\* Every variable keeps its type: State_Machine, THandlerData and the tags
\* hold only what the code can put into them.
IdsOnTags == {0, 1} \cup {f[t].info.id : f \in FirstTags, t \in Tags}
TypeOK ==
  /\ onReader \in Tags \cup {NoTag} /\ seen \in Tags \cup {NoTag}
  /\ \A t \in Tags : /\ tags[t].info.id \in IdsOnTags
                     /\ tags[t].info.steps \in 0 .. MaxSteps
                     /\ tags[t].info.actual \in 0 .. tags[t].info.steps
                     /\ Len(tags[t].steps) = MaxSteps
  /\ raf \in RafStates /\ at \in Points /\ (at # "loop" => raf = "Mimo")
  /\ op = NoOp \/ op.phase \in Phases
  /\ Len(dirty) \in 0 .. MaxSteps /\ Len(calls) <= 2
  /\ {cardOnReader, guarded, targetHolds, steady, panicked} \subseteq BOOLEAN
  /\ receiptCounter \in 0 .. Len(Recipes) /\ batches \in 0 .. MaxBatch
  /\ twice \subseteq made

\* When LoadData has answered 0 and the product was there all the while, the
\* integrity copy is the tag's recipe, although LoadData reads the steps only
\* when the ID or the checksum says so (NFC_Handler_IsSameData).
LoadedIsOnTag ==
  result = [call |-> "LoadData", value |-> 0] /\ steady /\ HandlerIdle =>
    /\ Bytes(integrity.info) = Bytes(tags[onReader].info)
    /\ \A i \in 1 .. integrity.info.steps : integrity.steps[i] = tags[onReader].steps[i]

\* When Sync has answered that all is written or nothing is to be written, and
\* the product was there all the while, the tag holds what working holds
\* (NFC_Handler_Sync writes the dirty steps only and the info).
SyncLeavesNothing ==
  result.call = "Sync" /\ result.value \in {0, 1} /\ steady /\ HandlerIdle =>
    /\ Bytes(working.info) = Bytes(tags[onReader].info)
    /\ \A i \in 1 .. working.info.steps : working.steps[i] = tags[onReader].steps[i]

\* A step working owes the tag is owed until a tag on the reader holds it, or
\* the recipe has another length or is given up, whatever products come and go
\* and whatever is read in between (sRecipeStepIndexArray).
OwedUntilWritten ==
  [][\A i \in DOMAIN dirty \cap DOMAIN dirty' :
       dirty[i] /\ ~dirty'[i] =>
         /\ onReader # NoTag
         /\ tags[onReader].steps[i] = working.steps[i]]_vars

\* A step of a recipe is done to a product twice only when the answer to its
\* ReserveAction was lost (app.c keeps such a step pending and sets no re-scan
\* guard): write-back, guard, marker and the PLC's refusals exclude every other
\* way.
TwiceOnlyUnheard == twice \subseteq unheard

\* A step the tag counts as done was done to this product: ActualRecipeStep
\* moves on after the completion poll only, and is written to the product that
\* was worked on.
ProgressIsEarned ==
  \A t \in Tags : \A i \in 1 .. tags[t].info.actual :
    [tag |-> t, batch |-> tags[t].info.batch, step |-> i] \in made

\* A product leaves for a cell when that cell's PLC holds a reservation and the
\* tag says so at the step it is at, by which the reader there will know that
\* it need not reserve again ([AAS_LOCAL_RESERVE_GATE] in app.c).
TransportIsMarked ==
  [][at = "gate" /\ at' = "loop" /\ raf' = "Wait" =>
       /\ targetHolds
       /\ onReader # NoTag
       /\ LET i == tags[onReader].info.actual + 1
          IN /\ gate.stepIndex = i - 1
             /\ tags[onReader].steps[i].reserved = gate.targetCellId
             /\ tags[onReader].steps[i].owner = gate.targetCellId]_vars

\* A recipe is written over only when it is finished, given up or broken: the
\* way to KonecReceptu and to the return to storage.
RecipeIsKept ==
  [][\A t \in Tags : tags'[t].info.batch # tags[t].info.batch =>
       \/ tags[t].info.id = 0
       \/ tags[t].info.done
       \/ tags[t].info.actual >= tags[t].info.steps]_vars

-----------------------------------------------------------------------------
\* What the documents say of the code and the runs refute.

\* The cell does to a product what was ordered for that product: sr_id names
\* the product in the PLC (the UID kept by NFC_LoadTRecipeInfoStructure).
OrderIsForTheProduct ==
  [][\A o \in orders : ~o.done /\ o \notin orders' /\ onReader # NoTag /\ made' # made
       => o.tag = onReader]_vars
=============================================================================
