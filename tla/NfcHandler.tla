----------------------------- MODULE NfcHandler -----------------------------
(***************************************************************************)
(* The NFC handler of the reader firmware: two copies of the tag on the    *)
(* reader, integrity (what the tag is believed to hold) and working (what  *)
(* it should hold), and the steps of working still to be written (dirty).  *)
(*                                                                         *)
(* A client puts calls into calls; op is the one being carried out.  Every *)
(* access to the tag is an action of its own, so that the product may be   *)
(* taken away, put back or exchanged between any two of them.  An access   *)
(* with no tag on the reader fails; how often the firmware tries again     *)
(* before it gives up is left open.  A tag answers while it stays.         *)
(***************************************************************************)
EXTENDS NfcTag

CONSTANTS Tags,        \* the products' tags
          NoTag,       \* the reader is empty
          MaxSteps     \* structures a tag has room for

ASSUME TagsAssumption == NoTag \notin Tags
ASSUME MaxStepsAssumption == MaxSteps \in Nat \ {0}

VARIABLES tags,        \* what each tag holds: [info, steps]
          onReader,    \* the tag on the reader, or NoTag
          integrity,   \* sIntegrityCardInfo
          working,     \* sWorkingCardInfo
          dirty,       \* sRecipeStepIndexArray
          calls,       \* calls still to be made, first first
          op,          \* the call being carried out, or NoOp
          result,      \* what the last LoadData or Sync returned
          steady,      \* no tag has come or gone since op started
          panicked     \* a missing step array was used

hVars == <<tags, onReader, integrity, working, dirty, calls, op, result,
           steady, panicked>>
cards == <<integrity, working, dirty>>

Phases == {"info", "steps", "compare", "sum", "head", "select", "write", "verify"}
NoOp == [call |-> "none"]
NoResult == [call |-> "none", value |-> 0]

LoadData == [call |-> "LoadData", phase |-> "info", needInfo |-> FALSE]

\* A write of the structures of run; left are the runs to come after it.
Writing(call, phase, run, left, saved) ==
  [call |-> call, phase |-> phase, run |-> run, left |-> left,
   saved |-> saved, sel |-> NoTag, next |-> 0]

HandlerIdle == op = NoOp /\ calls = <<>> /\ ~panicked
Doing(call, phase) == op.call = call /\ op.phase = phase /\ ~panicked
AtTag(phase) == op # NoOp /\ op.phase = phase /\ ~panicked

Resize(flags, n) == [i \in 1 .. n |-> i <= Len(flags) /\ flags[i]]

\* The copy an op writes from, and the state in which it is c.
Card == IF op.call = "Sync" THEN working ELSE integrity
SetCard(c) == IF op.call = "Sync"
                THEN working' = c /\ UNCHANGED integrity
                ELSE integrity' = c /\ UNCHANGED working

Return(value) == op' = NoOp /\ result' = [call |-> op.call, value |-> value]
Panic == /\ panicked' = TRUE
         /\ UNCHANGED <<tags, onReader, cards, calls, op, result, steady>>

\* Steps that are still to be written keep what working says.  ok is FALSE
\* where an array is used that is not there.
CopyToWorking(card, infoData, stepsData) ==
  LET known == [working EXCEPT !.known = card.known]
      array == IF known.created THEN known
               ELSE ChangeRecipeStepsSize(known, card.info.steps)
      sized == ChangeRecipeStepsSize(
                 [array EXCEPT !.loaded = card.loaded, !.uid = card.uid],
                 card.info.steps)
      told  == IF infoData THEN [sized EXCEPT !.info = card.info] ELSE sized
      flags == Resize(dirty, told.info.steps)
      clean == {i \in DOMAIN flags : stepsData /\ ~flags[i]}
  IN [card  |-> [told EXCEPT !.steps =
                   [i \in DOMAIN @ |-> IF i \in clean THEN card.steps[i] ELSE @[i]]],
      dirty |-> flags,
      ok    |-> \A i \in clean : i <= Len(card.steps) /\ i <= Len(told.steps)]

\* The state in which card is integrity and has been copied to working.
Copy(card, infoData, stepsData) ==
  LET copy == CopyToWorking(card, infoData, stepsData)
  IN /\ integrity' = card
     /\ working' = copy.card
     /\ dirty' = copy.dirty

-----------------------------------------------------------------------------
\* Calls without the tag.

\* NFC_Handler_WriteStep, the step being the one in working.
WriteStep(card, i) == [Resize(dirty, card.info.steps) EXCEPT ![i] = TRUE]

\* NFC_Handler_AddCardInfoToWorking: a tag that was read keeps its ID, and
\* every step is to be written.
AddCardInfoToWorking(card) ==
  /\ working' = IF integrity.known THEN [card EXCEPT !.info.id = integrity.info.id]
                ELSE card
  /\ dirty' = [i \in 1 .. card.info.steps |-> TRUE]

-----------------------------------------------------------------------------
\* The next of calls is made.
StartLoad ==
  /\ Head(calls) = "LoadData"
  /\ op' = LoadData
  /\ UNCHANGED cards

StartWriteSafeInfo ==
  /\ Head(calls) = "WriteSafeInfo"
  /\ integrity' = [integrity EXCEPT !.known = TRUE, !.info = working.info]
  /\ op' = Writing("WriteSafeInfo", "sum", [from |-> 0, to |-> 0], {}, integrity.info)
  /\ UNCHANGED <<working, dirty>>

\* The step written is the one working is at.
StartWriteSafeStep ==
  LET i == working.info.actual + 1
  IN /\ Head(calls) = "WriteSafeStep"
     /\ i <= Len(integrity.steps)
     /\ integrity' = [integrity EXCEPT !.steps[i] = working.steps[i]]
     /\ op' = Writing("WriteSafeStep", "sum", [from |-> i, to |-> i], {},
                      integrity.steps[i])
     /\ UNCHANGED <<working, dirty>>

FirstOf(runs) == CHOOSE r \in runs : \A s \in runs : r.from <= s.from

\* NFC_Handler_Sync: the info alone is written only when it differs.
StartSync ==
  LET runs == Runs(dirty)
      run  == FirstOf(runs)
  IN /\ Head(calls) = "Sync"
     /\ op' = Writing("Sync", IF TRUE \in {dirty[i] : i \in DOMAIN dirty}
                              THEN "sum" ELSE "compare",
                      run, runs \ {run}, NoOp)
     /\ UNCHANGED cards

StartCall ==
  /\ op = NoOp /\ calls # <<>> /\ ~panicked
  /\ StartLoad \/ StartWriteSafeInfo \/ StartWriteSafeStep \/ StartSync
  /\ calls' = Tail(calls)
  /\ steady' = (onReader # NoTag)
  /\ UNCHANGED <<tags, onReader, result, panicked>>

-----------------------------------------------------------------------------
\* LoadData.

\* NFC_Handler_IsSameData: the card is told by its ID, its steps by their sum.
Slip_IsSameData(found) ==
  [newCard  |-> integrity.info.id # found.id,
   sameInfo |-> Bytes(integrity.info) = Bytes(found),
   sameData |-> TRUE]

IsSameData(found) ==
  [newCard  |-> integrity.info.id # found.id,
   sameInfo |-> Bytes(integrity.info) = Bytes(found),
   sameData |-> integrity.info.id # found.id \/ CheckSum(integrity) = found.cs]

\* No tag answers, or its ID and RightNumber do not match: both are a 5 of
\* IsSameData, which LoadData returns as 4.
LoadFails ==
  /\ Doing("LoadData", "info")
  /\ \/ onReader = NoTag /\ UNCHANGED integrity
     \/ /\ onReader # NoTag /\ tags[onReader].info.id = 0
        /\ integrity' = [integrity EXCEPT !.known = TRUE]
  /\ Return(4)
  /\ UNCHANGED <<tags, onReader, working, dirty, calls, steady, panicked>>

\* The recipe's number goes with the tag, unless working holds a recipe of
\* its own that is not on the tag yet.
Follows(found) ==
  IF working.info.batch = integrity.info.batch
    THEN [working EXCEPT !.info.batch = found.batch] ELSE working

LoadInfo ==
  LET found == tags[onReader].info
      is    == IsSameData(found)
      needs == is.newCard \/ ~is.sameInfo
      card  == [integrity EXCEPT !.known = TRUE, !.info.batch = found.batch]
      new   == IF needs THEN [ChangeRecipeStepsSize(card, found.steps) EXCEPT !.info = found]
               ELSE card
  IN /\ Doing("LoadData", "info")
     /\ onReader # NoTag /\ found.id # 0
     /\ integrity.info.id = found.id => HasSteps(integrity)
     /\ IF is.newCard \/ ~is.sameData
          THEN /\ integrity' = new
               /\ working' = Follows(found)
               /\ op' = [op EXCEPT !.phase = "steps", !.needInfo = needs]
               /\ UNCHANGED <<dirty, result>>
          ELSE LET copy == CopyToWorking(new, needs, FALSE)
               IN /\ integrity' = new
                  /\ working' = IF needs THEN copy.card
                                ELSE [copy.card EXCEPT !.info.batch = Follows(found).info.batch]
                  /\ dirty' = copy.dirty
                  /\ Return(0)
     /\ UNCHANGED <<tags, onReader, calls, steady, panicked>>

\* The steps as the tag now on the reader has them.
StepsRead == [integrity EXCEPT
                !.steps = [i \in 1 .. integrity.info.steps |-> tags[onReader].steps[i]],
                !.loaded = TRUE]

LoadSteps ==
  /\ Doing("LoadData", "steps")
  /\ IF onReader = NoTag \/ ~integrity.created
       THEN Return(5) /\ UNCHANGED cards
       ELSE /\ CopyToWorking(StepsRead, op.needInfo, TRUE).ok
            /\ Copy(StepsRead, op.needInfo, TRUE)
            /\ Return(0)
  /\ UNCHANGED <<tags, onReader, calls, steady, panicked>>

-----------------------------------------------------------------------------
\* NFC_WriteCheck: writes a run and reads it back.

\* The call gives up; a safe write takes its change back.
GiveUp ==
  /\ Return(IF op.call = "Sync" THEN 2 ELSE 1)
  /\ CASE op.call = "WriteSafeInfo" ->
            integrity' = [integrity EXCEPT !.info = op.saved]
       [] op.call = "WriteSafeStep" ->
            integrity' = [integrity EXCEPT !.steps[op.run.from] = op.saved]
       [] OTHER -> UNCHANGED integrity
  /\ UNCHANGED <<tags, onReader, working, dirty, calls, steady, panicked>>

Retry ==
  /\ op' = [op EXCEPT !.phase = "sum"]
  /\ UNCHANGED <<tags, onReader, cards, calls, result, steady, panicked>>

\* The copy's checksum is brought up to date before anything is written; when
\* that changes it, a run that does not start with the info has the info
\* written first.
Sum ==
  LET sum == CheckSum(Card)
  IN /\ AtTag("sum")
     /\ op.run.to <= Card.info.steps /\ HasSteps(Card)
     /\ SetCard([Card EXCEPT !.info.cs = sum])
     /\ op' = [op EXCEPT !.phase = IF sum # Card.info.cs /\ op.run.from # 0
                                   THEN "head" ELSE "select"]
     /\ UNCHANGED <<tags, onReader, dirty, calls, result, steady, panicked>>

OutOfRange == AtTag("sum") /\ op.run.to > Card.info.steps /\ GiveUp

Put(t, s) ==
  tags' = [tags EXCEPT ![t] =
             IF s = 0 THEN [@ EXCEPT !.info = Card.info]
             ELSE [@ EXCEPT !.steps[s] = Card.steps[s]]]

\* Nobody looks whether this write succeeds.
WriteHead ==
  /\ AtTag("head")
  /\ IF onReader = NoTag THEN UNCHANGED tags ELSE Put(onReader, 0)
  /\ op' = [op EXCEPT !.phase = "select"]
  /\ UNCHANGED <<onReader, cards, calls, result, steady, panicked>>

Select ==
  /\ AtTag("select")
  /\ onReader # NoTag
  /\ op' = [op EXCEPT !.phase = "write", !.sel = onReader, !.next = op.run.from]
  /\ UNCHANGED <<tags, onReader, cards, calls, result, steady, panicked>>

WriteStructure ==
  /\ AtTag("write")
  /\ op.sel # NoTag
  /\ Put(onReader, op.next)
  /\ op' = IF op.next = op.run.to THEN [op EXCEPT !.phase = "verify"]
           ELSE [op EXCEPT !.next = @ + 1]
  /\ UNCHANGED <<onReader, cards, calls, result, steady, panicked>>

AccessLost ==
  \/ AtTag("select") /\ onReader = NoTag /\ GiveUp
  \/ AtTag("write") /\ op.sel = NoTag /\ (Retry \/ GiveUp)

\* NFC_CheckStructArrayIsSame, of the info with its checksum.
SameOnTag(run) ==
  \A s \in run.from .. run.to :
    IF s = 0 THEN AllBytes(tags[onReader].info) = AllBytes(Card.info)
    ELSE tags[onReader].steps[s] = Card.steps[s]

\* What Sync does with a run that is written: integrity learns of it and its
\* steps are no longer dirty.  A missing array is not made when RecipeSteps
\* already has the right value.
Written ==
  LET first == IF op.run.from # 0 THEN integrity
               ELSE [ChangeRecipeStepsSize([integrity EXCEPT !.known = TRUE],
                                           working.info.steps)
                     EXCEPT !.info = working.info]
  IN [first EXCEPT !.steps =
        [i \in DOMAIN @ |-> IF i \in op.run.from .. op.run.to THEN working.steps[i] ELSE @[i]]]

\* Forgets every step to be written as soon as a run is written.
Slip_Cleared == [i \in DOMAIN dirty |-> FALSE]

Cleared == [i \in DOMAIN dirty |-> dirty[i] /\ i \notin op.run.from .. op.run.to]

SyncRunWritten ==
  /\ op.call = "Sync"
  /\ op.run.to <= Len(Written.steps)
  /\ integrity' = Written
  /\ dirty' = Cleared
  /\ IF op.left = {} THEN Return(0)
     ELSE LET run == FirstOf(op.left)
          IN op' = Writing("Sync", "sum", run, op.left \ {run}, NoOp) /\ UNCHANGED result
  /\ UNCHANGED <<tags, onReader, working, calls, steady, panicked>>

SafeWriteDone ==
  /\ op.call \in {"WriteSafeInfo", "WriteSafeStep"}
  /\ CopyToWorking(integrity, TRUE, op.call = "WriteSafeStep").ok
  /\ Copy(integrity, TRUE, op.call = "WriteSafeStep")
  /\ Return(0)
  /\ UNCHANGED <<tags, onReader, calls, steady, panicked>>

Verify ==
  /\ AtTag("verify")
  /\ \/ onReader = NoTag /\ GiveUp
     \/ onReader # NoTag /\ SameOnTag(op.run) /\ (SyncRunWritten \/ SafeWriteDone)
     \/ onReader # NoTag /\ ~SameOnTag(op.run) /\ (Retry \/ GiveUp)

\* Sync with no step to be written.
Compare ==
  /\ Doing("Sync", "compare")
  /\ IF onReader = NoTag \/ ~working.known THEN Return(10)
     ELSE IF SameOnTag(op.run) THEN Return(1)
     ELSE op' = [op EXCEPT !.phase = "sum"] /\ UNCHANGED result
  /\ UNCHANGED <<tags, onReader, cards, calls, steady, panicked>>

-----------------------------------------------------------------------------
\* The places where a step array is used that is not there.
MissingArray ==
  /\ op # NoOp /\ ~panicked
  /\ \/ /\ op.phase = "info" /\ onReader # NoTag
        /\ integrity.info.id = tags[onReader].info.id
        /\ integrity.info.id # 0 /\ ~HasSteps(integrity)
     \/ /\ op.phase = "steps" /\ onReader # NoTag /\ integrity.created
        /\ ~CopyToWorking(StepsRead, op.needInfo, TRUE).ok
     \/ op.phase = "sum" /\ op.run.to <= Card.info.steps /\ ~HasSteps(Card)
     \/ /\ op.phase = "verify" /\ onReader # NoTag /\ SameOnTag(op.run)
        /\ IF op.call = "Sync" THEN op.run.to > Len(Written.steps)
           ELSE ~CopyToWorking(integrity, TRUE, op.call = "WriteSafeStep").ok
  /\ Panic

MissingArrayAtStart ==
  /\ op = NoOp /\ calls # <<>> /\ ~panicked
  /\ Head(calls) = "WriteSafeStep"
  /\ working.info.actual + 1 > Len(integrity.steps)
  /\ Panic

HandlerStep ==
  \/ StartCall \/ LoadFails \/ LoadInfo \/ LoadSteps
  \/ Sum \/ OutOfRange \/ WriteHead \/ Select \/ WriteStructure
  \/ AccessLost \/ Verify \/ Compare
  \/ MissingArray \/ MissingArrayAtStart

-----------------------------------------------------------------------------
\* Products come and go.
\* A tag out of the field has to be selected anew.
TakeAway ==
  /\ onReader # NoTag
  /\ onReader' = NoTag
  /\ steady' = FALSE
  /\ op' = IF op # NoOp /\ op.phase = "write" THEN [op EXCEPT !.sel = NoTag] ELSE op
  /\ UNCHANGED <<tags, cards, calls, result, panicked>>

PutDown(t) ==
  /\ onReader = NoTag
  /\ onReader' = t
  /\ steady' = FALSE
  /\ UNCHANGED <<tags, cards, calls, op, result, panicked>>

\* NFC_Handler_Init; stack is what the infos held before.
HandlerInit(stack) ==
  /\ integrity = InitTCardInfo(stack) /\ working = InitTCardInfo(stack)
  /\ dirty = <<>> /\ calls = <<>> /\ op = NoOp /\ result = NoResult
  /\ steady = FALSE /\ panicked = FALSE
=============================================================================
