------------------------ MODULE ReaderProgress_proofs ------------------------
(***************************************************************************)
(* Proof that a step the tag of a product counts as done was done to the   *)
(* product.                                                                *)
(*                                                                         *)
(* That a step the tag counts was made follows what working has for the    *)
(* tag: the tag's own recipe, further on by a step the PLC answered as     *)
(* done, or a new one, whose info is written before its steps and counts   *)
(* none (Due).  The step the PLC answers for is the one at hand, as a mark *)
(* on the tag is taken for a reservation here: so the marks are followed   *)
(* from the tag to the copies and back (TagsEarned, CopyMarked), and what  *)
(* is dirty, until it is written (Owing), and that a sync which writes     *)
(* nothing leaves copies that tell the same (Matched).                     *)
(***************************************************************************)
EXTENDS ReaderAas_proofs

\* The hypotheses: the products come with no step done and none reserved at
\* this cell, and no recipe is without steps.
FirstTagsNew ==
  \A f \in FirstTags : \A t \in Tags :
    f[t].info.actual = 0 /\ \A i \in 1 .. MaxSteps : f[t].steps[i].reserved # ME
RecipesHaveSteps == ToStorage # <<>> /\ \A i \in DOMAIN Recipes : Recipes[i] # <<>>

\* Every product has the same sr_id in the PLC, which so has one order at most.
HasNoUid(card) == "uid" \in DOMAIN card /\ card.uid = NoUid
IsOrder(o) == {"sr", "batch", "step", "done"} \subseteq DOMAIN o /\ o.sr = NoUid
Nameless == /\ HasNoUid(working) /\ HasNoUid(integrity)
            /\ \A o \in orders : IsOrder(o)
\* A step marked at the gate is for another cell.
GateElsewhere == at = "gate" => gate.targetCellId # ME
Named == Nameless /\ GateElsewhere

\* What a sync has still to write, and that the write under way is on the tag
\* as far as it has come: no call gives up.
ToBeSynced == op = NoOp /\ calls = <<"Sync">>
ToBeWritten == op.call \in Writes \/ calls \in {InfoThenSync, StepThenSync, <<"Sync">>}
IsDirty(i) == i \in DOMAIN dirty /\ dirty[i]
RunsDue == op.left \cup {op.run}
Pending(i) ==
  IF op.call = "Sync" THEN \E r \in RunsDue : i \in r.from .. r.to ELSE IsDirty(i)
Transfers == op.call \in Writes => Transferred
SyncFollows == op.call \in {"WriteSafeInfo", "WriteSafeStep"} => calls = <<"Sync">>
Dues == /\ \A i \in DOMAIN dirty : dirty[i] => ToBeWritten /\ i <= working.info.steps
        /\ \A i : IsDirty(i) => Pending(i)
        /\ op.call = "Sync" =>
             /\ \A r \in RunsDue : r.to <= working.info.steps
             /\ op.phase = "compare" =>
                  /\ op.run = [from |-> 0, to |-> 0] /\ op.left = {}
                  /\ \A i \in DOMAIN dirty : ~dirty[i]
Owing == Transfers /\ SyncFollows /\ Dues

\* The copies tell the same but while working has something for the tag.
Alike == Same(working.info, integrity.info) \/ integrity.steps = <<>>
CopiesMatch ==
  /\ ~ToBeWritten => Alike \/ (Reads /\ op.needInfo)
  /\ ToBeSynced => Same(working.info, integrity.info) \/ \E i \in DOMAIN dirty : dirty[i]
  /\ op.call = "Sync" => \/ Same(working.info, integrity.info)
                         \/ op.run.from = 0 /\ op.phase # "compare"
Decided ==
  /\ at = "loaded" /\ Waits /\ result.value = 0 =>
       Same(working.info, TagInfo) \/ working.info.steps = 0
  /\ at = "poll" => Same(working.info, TagInfo)
Matched == CopiesMatch /\ Decided

StepDone(t, batch, i) == [tag |-> t, batch |-> batch, step |-> i]
Earned(info, t) == \A i \in 1 .. info.actual : StepDone(t, info.batch, i) \in made

\* An order, if there is one, is for the step the info is at.
IsFor(o, info, t) == /\ o.batch = info.batch /\ o.step = info.actual + 1
                     /\ o.done => StepDone(t, o.batch, o.step) \in made
OrderedFor(info, t) == \A o \in orders : IsFor(o, info, t)
HasMark(steps, i) == i \in DOMAIN steps /\ steps[i].reserved = ME

\* What working has for the tag is a new recipe, or the tag's own, further on.
Fresh == /\ working.info.actual = 0 /\ working.info.steps > 0
         /\ \A i : ~HasMark(working.steps, i)
         /\ \/ ToBeSynced /\ \A i \in 1 .. working.info.steps : IsDirty(i)
            \/ /\ op.call = "Sync" /\ op.left = {}
               /\ op.run = [from |-> 0, to |-> working.info.steps] /\ op.phase # "head"
Continues == /\ working.info.batch = TagInfo.batch /\ working.info.steps = TagInfo.steps
             /\ TagInfo.actual <= working.info.actual /\ Earned(working.info, onReader)
Due == ToBeWritten => Fresh \/ Continues
BeingReplaced(t, i) == /\ t = onReader /\ Fresh /\ ~panicked
                       /\ op.call = "Sync" /\ op.phase = "write" /\ i >= op.next
TagsEarned ==
  \A t \in Tags :
    /\ Earned(tags[t].info, t)
    /\ \A i \in tags[t].info.actual + 1 .. tags[t].info.steps :
         HasMark(tags[t].steps, i) =>
           \/ i = tags[t].info.actual + 1 /\ OrderedFor(tags[t].info, t)
           \/ BeingReplaced(t, i)
CopyMarked ==
  \A t \in Tags : \A i :
    /\ HasMark(working.steps, i) => HasMark(tags[t].steps, i)
    /\ HasMark(integrity.steps, i) => HasMark(tags[t].steps, i) \/ Pending(i)
NoMark == ~Travels => \A t \in Tags : \A i : ~HasMark(tags[t].steps, i)
PollOrdered == at = "poll" => OrderedFor(working.info, onReader)
Earning == Due /\ TagsEarned /\ CopyMarked /\ NoMark /\ PollOrdered

Known == Arrays /\ Carried /\ Kept /\ Sound

-----------------------------------------------------------------------------
\* The steps, by what they do to the handler.
Unmoved == UNCHANGED hVars
MarksDone ==
  /\ HandlerIdle
  /\ at = "poll" \/ (Loaded /\ ~IsRecipeEmpty)
  /\ \E s \in {"Mimo", "Konec"} : MarkDone(s)
  /\ UNCHANGED <<orders, made>>
Moves ==
  /\ UNCHANGED <<tags, cards, calls, op, result, panicked, aasVars, plcVars>>
  /\ onReader = NoTag \/ (HandlerIdle /\ raf = "Wait")

LEMMA StepsOf ==
  ASSUME Stays, Next
  PROVE  \/ HandlerWorks \/ Unmoved \/ MimoPolozena \/ MarksDone \/ CompletionOk
         \/ TargetReserved \/ Presun \/ NovyRecept \/ Reboot \/ Moves
         \/ \E t \in Tags : DoneElsewhere(t) \/ SentHere(t)
<1>1. CASE ReportRefused \/ CompletionFailed
  BY <1>1 DEF ReportRefused, CompletionFailed, MarksDone, Ready, Loaded, plcVars
<1>2. CASE RecipeFinished
  BY <1>2 DEF RecipeFinished, Reported, Loaded, Ready, KeepHandler, Unmoved, MarksDone, plcVars
<1>3. CASE Leaves
  <2>1. HandlerIdle /\ raf = "Wait"
    BY <1>3 DEF Leaves
  <2> QED
    BY <1>3, <2>1 DEF Leaves, TakeAway, Moves, HandlerIdle, NoOp
<1>4. CASE \E t \in Tags : Arrives(t)
  BY <1>4 DEF Arrives, PutDown, Moves
<1> QED
  BY <1>1, <1>2, <1>3, <1>4 DEF Next, Reader, Decides, Gone, LoadFailed, EmptyTag,
     Rescan, LocalRefused, LocalReserved, LocalMarked, PostStep, GateBlocked, KonecReceptu,
     TargetRefused, TransportFailed, TransportStarted, PollCard, GuardExpires, CellWorks, Unmoved
-----------------------------------------------------------------------------
LEMMA SizedIsNameless ==
  ASSUME NEW card, HasNoUid(card), NEW n
  PROVE  HasNoUid(ChangeRecipeStepsSize(card, n))
BY DEF HasNoUid, ChangeRecipeStepsSize

LEMMA CopyIsNameless ==
  ASSUME HasNoUid(working), NEW card, HasNoUid(card), NEW infoData, NEW stepsData
  PROVE  HasNoUid(CopyToWorking(card, infoData, stepsData).card)
<1> DEFINE known == [working EXCEPT !.known = card.known]
           array == IF known.created THEN known
                    ELSE ChangeRecipeStepsSize(known, card.info.steps)
           named == [array EXCEPT !.loaded = card.loaded, !.uid = card.uid]
           sized == ChangeRecipeStepsSize(named, card.info.steps)
           told == IF infoData THEN [sized EXCEPT !.info = card.info] ELSE sized
           clean == {i \in DOMAIN Resize(dirty, told.info.steps) :
                       stepsData /\ ~Resize(dirty, told.info.steps)[i]}
<1>1. HasNoUid(known)
  BY DEF HasNoUid
<1>2. HasNoUid(array)
  BY <1>1, SizedIsNameless
<1> HIDE DEF array
<1>3. HasNoUid(named)
  BY <1>2 DEF HasNoUid
<1> HIDE DEF named
<1>4. HasNoUid(sized)
  BY <1>3, SizedIsNameless
<1> HIDE DEF sized
<1>5. HasNoUid(told)
  BY <1>4 DEF HasNoUid
<1>6. CopyToWorking(card, infoData, stepsData).card =
        [told EXCEPT !.steps = [i \in DOMAIN @ |-> IF i \in clean THEN card.steps[i] ELSE @[i]]]
  BY Zenon DEF CopyToWorking, known, array, named, sized
<1> HIDE DEF told, clean
<1> QED
  BY <1>5, <1>6 DEF HasNoUid

LEMMA HandlerIsNameless ==
  ASSUME HasNoUid(working), HasNoUid(integrity), HandlerStep
  PROVE  HasNoUid(working') /\ HasNoUid(integrity')
<1> DEFINE Fine == HasNoUid(working') /\ HasNoUid(integrity')
<1>1. CASE StartCall
  BY <1>1 DEF HasNoUid, StartCall, StartLoad, StartWriteSafeInfo, StartWriteSafeStep,
     StartSync, cards
<1>2. CASE LoadFails
  <2>1. working' = working /\ (integrity' = integrity
                               \/ integrity' = [integrity EXCEPT !.known = TRUE])
    BY <1>2 DEF LoadFails
  <2> QED
    BY <2>1 DEF HasNoUid
<1>3. CASE LoadInfo
  <2> DEFINE found == tags[onReader].info
             is == IsSameData(found)
             needs == is.newCard \/ ~is.sameInfo
             card == [integrity EXCEPT !.known = TRUE, !.info.batch = found.batch]
             new == IF needs THEN [ChangeRecipeStepsSize(card, found.steps) EXCEPT !.info = found]
                    ELSE card
             copy == CopyToWorking(new, needs, FALSE).card
  <2>1. integrity' = new
    BY <1>3, Zenon DEF LoadInfo
  <2>2. \/ working' = Follows(found) \/ working' = copy
        \/ working' = [copy EXCEPT !.info.batch = Follows(found).info.batch]
    BY <1>3, Zenon DEF LoadInfo
  <2> HIDE DEF needs, is
  <2>3. HasNoUid(card)
    BY DEF HasNoUid
  <2> HIDE DEF card
  <2>4. HasNoUid(new)
    BY <2>3, SizedIsNameless DEF HasNoUid
  <2> HIDE DEF new
  <2>5. HasNoUid(Follows(found)) /\ HasNoUid(copy)
    BY <2>4, CopyIsNameless DEF HasNoUid, Follows
  <2> HIDE DEF copy, found
  <2> QED
    BY <2>1, <2>2, <2>4, <2>5 DEF HasNoUid
<1>4. CASE LoadSteps
  <2>1. \/ UNCHANGED <<working, integrity>>
        \/ /\ integrity' = StepsRead
           /\ working' = CopyToWorking(StepsRead, op.needInfo, TRUE).card
    BY <1>4, Zenon DEF LoadSteps, Copy, cards
  <2>2. HasNoUid(StepsRead)
    BY DEF HasNoUid, StepsRead
  <2> QED
    BY <2>1, <2>2, CopyIsNameless
<1>5. CASE Sum
  BY <1>5 DEF HasNoUid, Sum, SetCard, Card
<1>6. CASE WriteHead \/ Select \/ WriteStructure \/ Compare \/ MissingArray \/ MissingArrayAtStart
  BY <1>6 DEF WriteHead, Select, WriteStructure, Compare, MissingArray, MissingArrayAtStart,
     Panic, cards
<1>7. CASE GiveUp
  BY <1>7 DEF HasNoUid, GiveUp
<1>8. CASE Retry
  BY <1>8 DEF Retry, cards
<1>9. CASE SyncRunWritten
  <2>1. working' = working /\ integrity' = Written
    BY <1>9 DEF SyncRunWritten
  <2> DEFINE sized == ChangeRecipeStepsSize([integrity EXCEPT !.known = TRUE], working.info.steps)
             first == IF op.run.from # 0 THEN integrity ELSE [sized EXCEPT !.info = working.info]
  <2>2. HasNoUid(sized)
    BY SizedIsNameless DEF HasNoUid
  <2> HIDE DEF sized
  <2>3. HasNoUid(first)
    BY <2>2 DEF HasNoUid
  <2>4. \E x : Written = [first EXCEPT !.steps = x]
    BY DEF Written, sized
  <2> HIDE DEF first
  <2> QED
    BY <2>1, <2>3, <2>4 DEF HasNoUid
<1>10. CASE SafeWriteDone
  <2>1. /\ integrity' = integrity
        /\ \E b, c : working' = CopyToWorking(integrity, b, c).card
    BY <1>10, Zenon DEF SafeWriteDone, Copy
  <2> QED
    BY <2>1, CopyIsNameless
<1> HIDE DEF Fine
<1> QED
  BY <1>1, <1>2, <1>3, <1>4, <1>5, <1>6, <1>7, <1>8, <1>9, <1>10
     DEF HandlerStep, OutOfRange, AccessLost, Verify

LEMMA OrdersStayNameless ==
  ASSUME Nameless, Next
  PROVE  \A o \in orders' : IsOrder(o)
<1>1. CASE orders' = orders
  BY <1>1 DEF Nameless
<1>2. CASE Taken
  <2>1. orders' = Ordered(Order(SrId, seen, Info.batch, Current)) /\ SrId = NoUid
    BY <1>2 DEF Taken, SrId, Nameless, HasNoUid
  <2> QED
    BY <2>1 DEF Ordered, Order, Nameless, IsOrder
<1>3. CASE CellWorks
  <2>1. PICK o \in orders : orders' = (orders \ {o}) \cup {[o EXCEPT !.done = TRUE]}
    BY <1>3 DEF CellWorks
  <2>2. IsOrder(o)
    BY DEF Nameless
  <2>3. IsOrder([o EXCEPT !.done = TRUE])
    BY <2>2 DEF IsOrder
  <2> QED
    BY <2>1, <2>3 DEF Nameless
<1>4. CASE \E t \in Tags : SentHere(t)
  <2>1. PICK t \in Tags : SentHere(t)
    BY <1>4
  <2>2. orders' = Ordered(Order(NoUid, t, tags[t].info.batch, tags[t].info.actual + 1))
    BY <2>1 DEF SentHere
  <2> QED
    BY <2>2 DEF Ordered, Order, Nameless, IsOrder
<1> QED
  BY <1>1, <1>2, <1>3, <1>4 DEF Next, Reader, Decides, Gone, MimoPolozena, LoadFailed, EmptyTag,
     ReportRefused, RecipeFinished, Rescan, LocalRefused, LocalReserved, LocalMarked,
     CompletionFailed, CompletionOk, PostStep, GateBlocked, Presun, KonecReceptu, NovyRecept, TargetRefused,
     TargetReserved, TransportFailed, TransportStarted, HandlerWorks, PollCard, GuardExpires,
     Leaves, TakeAway, Arrives, PutDown, Reboot, Restart, DoneElsewhere, plcVars

LEMMA NewIsNameless ==
  ASSUME NEW owners
  PROVE  HasNoUid(NewRecipe(owners)) /\ HasNoUid([NewRecipe(owners) EXCEPT !.info.id = 1])
         /\ \A x : HasNoUid([NewRecipe(owners) EXCEPT !.info.id = x])
BY DEF HasNoUid, NewRecipe, GetCardInfoByNumber

LEMMA CopiesStayNameless ==
  ASSUME Nameless, Next
  PROVE  HasNoUid(working') /\ HasNoUid(integrity')
<1> USE DEF Nameless
<1>1. CASE UNCHANGED <<working, integrity>>
  BY <1>1
<1>2. CASE HandlerWorks
  BY <1>2, HandlerIsNameless DEF HandlerWorks
<1>3. CASE ReportRefused \/ CompletionFailed \/ RecipeFinished
  BY <1>3 DEF ReportRefused, CompletionFailed, RecipeFinished, MarkDone, KeepTag, KeepHandler,
     hVars, cards, HasNoUid
<1>4. CASE CompletionOk
  BY <1>4 DEF CompletionOk, KeepTag, Advance, HasNoUid
<1>5. CASE TargetReserved
  BY <1>5 DEF TargetReserved, KeepTag, HasNoUid
<1>6. CASE Presun
  BY <1>6, NewIsNameless DEF Presun, InitTCardInfo, HasNoUid
<1>7. CASE NovyRecept
  BY <1>7, NewIsNameless, Zenon DEF NovyRecept, AddCardInfoToWorking, KeepTag
<1>8. CASE Reboot
  BY <1>8 DEF Reboot, Restart, InitTCardInfo, HasNoUid
<1> QED
  BY <1>1, <1>2, <1>3, <1>4, <1>5, <1>6, <1>7, <1>8
     DEF Next, Reader, Decides, Gone, MimoPolozena, LoadFailed, EmptyTag,
     Rescan, LocalRefused, LocalReserved, LocalMarked,
     PostStep, GateBlocked, KonecReceptu, TargetRefused,
     TransportFailed, TransportStarted, PollCard, GuardExpires, CellWorks,
     Leaves, TakeAway, Arrives, PutDown, DoneElsewhere, SentHere, hVars, cards

LEMMA GateStaysElsewhere ==
  ASSUME GateElsewhere, Next
  PROVE  GateElsewhere'
<1>1. CASE TargetReserved
  BY <1>1 DEF TargetReserved, Resolved, GateElsewhere
<1>2. CASE at' # "gate" \/ UNCHANGED <<at, gate>>
  BY <1>2 DEF GateElsewhere
<1> QED
  BY <1>1, <1>2 DEF Next, Reader, Decides, Gone, MimoPolozena, LoadFailed, EmptyTag,
     ReportRefused, RecipeFinished, Rescan, LocalRefused, LocalReserved, LocalMarked,
     CompletionFailed, Calls, Loop, MarkDone,
     CompletionOk, PostStep, GateBlocked, Presun, KonecReceptu, NovyRecept, TargetRefused,
     TransportFailed, TransportStarted, HandlerWorks, PollCard, GuardExpires, CellWorks,
     Leaves, TakeAway, Arrives, PutDown, Reboot, Restart, DoneElsewhere, SentHere, aasVars

\* Every step leaves every product with the same sr_id, and the gate for others.
LEMMA NextNamed ==
  ASSUME Named, Next
  PROVE  Named'
BY OrdersStayNameless, CopiesStayNameless, GateStaysElsewhere DEF Named, Nameless

LEMMA InitNamed == Init => Named
BY DEF Init, HandlerInit, InitTCardInfo, Named, Nameless, HasNoUid, GateElsewhere

-----------------------------------------------------------------------------
\* A write is on the tag as far as it has come, and none is given up.

LEMMA StructureTransferred ==
  ASSUME Arrays, Carried, Kept, Transfers, WriteStructure
  PROVE  Transferred'
<1>1. /\ op' = IF op.next = op.run.to THEN [op EXCEPT !.phase = "verify"]
               ELSE [op EXCEPT !.next = op.next + 1]
      /\ UNCHANGED cards /\ onReader' = onReader /\ op # NoOp /\ op.phase = "write"
      /\ Put(onReader, op.next)
  BY DEF WriteStructure, AtTag
<1>2. WriteShape
  BY <1>1, WriteUnderWay
<1>3. /\ op.run.to <= Card.info.steps /\ Card.info.steps <= Len(Card.steps)
      /\ op.next \in op.run.from .. op.run.to
      /\ op.run.from \in Nat /\ op.run.to \in Nat
  BY <1>1, <1>2 DEF Carried, OpBounds, WriteShape, Ranges
<1>4. /\ op'.call = op.call /\ op'.run = op.run /\ op'.sel = op.sel
      /\ op'.phase \in {"write", "verify"}
      /\ op'.phase = "verify" => op.next = op.run.to
      /\ op'.phase = "write" => op'.next = op.next + 1 /\ op.next # op.run.to
  BY <1>1, <1>2 DEF WriteShape, WriteFields
<1>5. Card.info.steps \in Nat
  BY DEF Card, Arrays, IsCopy, Counts
<1>6. onReader \in Tags
  <2>1. onReader # NoTag
    BY <1>1, <1>2, WriteIsKnown DEF WriteShape
  <2> QED
    BY <2>1 DEF Arrays, TagsFit
<1>7. /\ \A i \in 1 .. MaxSteps \ {op.next} :
           tags'[onReader].steps[i] = tags[onReader].steps[i]
      /\ op.next # 0 => /\ tags'[onReader].info = tags[onReader].info
                       /\ tags'[onReader].steps[op.next] = Card.steps[op.next]
      /\ op.next = 0 => tags'[onReader].info = Card.info
  BY <1>1, <1>3, <1>5, <1>6, PutCarried
<1>8. Card' = Card
  BY <1>1, <1>4 DEF cards, Card
<1>9. Card.info.steps <= MaxSteps
  <2>1. CopyFits(Card)
    BY DEF Card, Carried, CopiesFit
  <2> QED
    BY <1>3, <1>5, <2>1, ArrayOf, MaxStepsAssumption DEF CopyFits
<1>10. \A s \in op.run.from .. op.next : OnTag(s)'
  <2>1. op.sel = onReader /\ \A s \in op.run.from .. op.next - 1 : OnTag(s)
    BY <1>1, <1>2 DEF Transfers, Transferred, WriteShape
  <2>2. ASSUME NEW s \in op.run.from .. op.next, s # op.next
        PROVE  OnTag(s)'
    <3>1. OnTag(s) /\ (s # 0 => s \in 1 .. MaxSteps \ {op.next})
      BY <1>3, <1>5, <1>9, <2>1, <2>2, MaxStepsAssumption
    <3>2. s = 0 => op.next # 0
      BY <2>2
    <3> QED
      BY <1>1, <1>7, <1>8, <3>1, <3>2 DEF OnTag
  <2>3. \A s : s = op.next => OnTag(s)'
    BY <1>1, <1>7, <1>8 DEF OnTag
  <2> QED
    BY <2>2, <2>3
<1>11. op'.phase = "verify" => SameOnTag(op.run)'
  BY <1>4, <1>10 DEF SameOnTag, OnTag
<1>12. op'.phase = "write" => op'.sel = onReader'
  BY <1>1, <1>2, <1>4 DEF Transfers, Transferred, WriteShape
<1> QED
  BY <1>1, <1>3, <1>4, <1>10, <1>11, <1>12 DEF Transferred, SameOnTag

LEMMA SelectTransferred ==
  ASSUME Carried, Kept, Select, op.call \in Writes
  PROVE  Transferred'
<1>1. op' = [op EXCEPT !.phase = "write", !.sel = onReader, !.next = op.run.from]
      /\ onReader' = onReader /\ op # NoOp /\ op.phase = "select"
  BY DEF Select, AtTag
<1>2. DOMAIN op = WriteFields /\ op.run.from \in Nat
  BY <1>1, WriteUnderWay DEF WriteShape, Ranges
<1>3. op'.phase = "write" /\ op'.sel = onReader' /\ op'.next = op'.run.from /\ op'.run.from \in Nat
  BY <1>1, <1>2 DEF WriteFields
<1> QED
  BY <1>3 DEF Transferred

\* What is neither written nor read back is nothing to transfer.
NoTransfer == op'.call \notin Writes \/ op'.phase \notin {"write", "verify"}

LEMMA RestTransfers ==
  NoTransfer => Transfers'
BY DEF NoTransfer, Transfers, Transferred

LEMMA HandlerTransfers ==
  ASSUME Arrays, Carried, Kept, Transfers, HandlerStep
  PROVE  Transfers'
<1>1. CASE StartCall
  <2>1. CASE StartLoad
    BY <2>1, RestTransfers DEF StartLoad, LoadData, NoTransfer
  <2>2. CASE StartWriteSafeInfo
    BY <2>2, RestTransfers DEF StartWriteSafeInfo, Writing, NoTransfer
  <2>3. CASE StartWriteSafeStep
    BY <2>3, RestTransfers DEF StartWriteSafeStep, Writing, NoTransfer
  <2>4. CASE StartSync
    BY <2>4, RestTransfers DEF StartSync, Writing, NoTransfer
  <2> QED
    BY <1>1, <2>1, <2>2, <2>3, <2>4 DEF StartCall
<1>2. CASE LoadFails \/ LoadInfo \/ LoadSteps
  <2>4. op.call = "LoadData"
    BY <1>2, Zenon DEF LoadFails, LoadInfo, LoadSteps, Doing
  <2>1. LoadShape
    BY <2>4, LoadUnderWay DEF NoOp
  <2>2. op' = NoOp \/ \E x : op' = [op EXCEPT !.phase = "steps", !.needInfo = x]
    BY <1>2 DEF LoadFails, LoadInfo, LoadSteps, Return
  <2>5. \A x : [op EXCEPT !.phase = "steps", !.needInfo = x].call = op.call
    BY <2>1 DEF LoadShape
  <2>6. op'.call \in {"none", "LoadData"}
    <3>1. op' = NoOp => op'.call = "none"
      BY DEF NoOp
    <3>2. op' # NoOp => op'.call = "LoadData"
      BY <2>2, <2>4, <2>5, Zenon
    <3> QED
      BY <3>1, <3>2
  <2>3. op'.call \notin Writes
    BY <2>6 DEF Writes
  <2> QED
    BY <2>3, RestTransfers DEF NoTransfer
<1>3. ASSUME op # NoOp, op.phase \in {"compare", "sum", "head", "select", "write", "verify"},
             op' = NoOp \/ \E x \in {"sum", "head", "select"} : op' = [op EXCEPT !.phase = x]
      PROVE  Transfers'
  <2>1. DOMAIN op = WriteFields
    BY <1>3, WriteUnderWay DEF WriteShape
  <2>2. NoTransfer
    BY <1>3, <2>1 DEF NoTransfer, NoOp, Writes, WriteFields
  <2> QED
    BY <2>2, RestTransfers
<1>4. CASE Sum \/ WriteHead
  BY <1>3, <1>4 DEF Sum, WriteHead, AtTag
<1>5. CASE Select \/ WriteStructure
  <2>1. op.call \in Writes
    BY <1>5, WriteUnderWay DEF Select, WriteStructure, AtTag, WriteShape
  <2> QED
    BY <1>5, <2>1, SelectTransferred, StructureTransferred DEF Transfers
<1>6. CASE OutOfRange \/ AccessLost
  BY <1>3, <1>6 DEF OutOfRange, AccessLost, GiveUp, Return, Retry, AtTag
<1>7. CASE Verify
  <2>1. CASE op' = NoOp \/ op' = [op EXCEPT !.phase = "sum"]
    BY <1>3, <1>7, <2>1 DEF Verify, AtTag
  <2>2. CASE SyncRunWritten /\ op' # NoOp
    BY <2>2, RestTransfers DEF SyncRunWritten, Return, Writing, NoTransfer
  <2> QED
    BY <1>7, <2>1, <2>2 DEF Verify, GiveUp, Return, Retry, SafeWriteDone
<1>8. CASE Compare
  <2>1. op # NoOp /\ op.phase = "compare"
    BY <1>8 DEF Compare, Doing, NoOp
  <2> QED
    BY <1>3, <1>8, <2>1 DEF Compare, Return
<1>9. CASE MissingArray \/ MissingArrayAtStart
  BY <1>9 DEF MissingArray, MissingArrayAtStart, Panic, cards, Transfers, Transferred, OnTag,
     SameOnTag, Card
<1> QED
  BY <1>1, <1>2, <1>4, <1>5, <1>6, <1>7, <1>8, <1>9 DEF HandlerStep

\* The product on the reader is not the one another cell works on.
LEMMA ElsewhereIsApart ==
  ASSUME Arrays, NEW t \in Tags, DoneElsewhere(t) \/ SentHere(t)
  PROVE  /\ t # onReader /\ Travels
         /\ UNCHANGED <<onReader, integrity, working, dirty, calls, op, result, panicked, raf, at>>
         /\ \A u \in Tags : u # t => tags'[u] = tags[u]
<1>1. CASE DoneElsewhere(t)
  BY <1>1 DEF DoneElsewhere, cards, Arrays, TagsFit
<1>2. CASE SentHere(t)
  <2>1. /\ t # onReader /\ Travels
        /\ UNCHANGED <<onReader, integrity, working, dirty, calls, op, result, panicked, raf, at>>
    BY <1>2 DEF SentHere, cards, aasVars
  <2>2. \E steps, cs : tags' = [tags EXCEPT ![t].steps = steps, ![t].info.cs = cs]
    BY <1>2, Zenon DEF SentHere
  <2> QED
    BY <2>1, <2>2 DEF Arrays, TagsFit
<1> QED
  BY <1>1, <1>2

LEMMA NextTransfers ==
  ASSUME Stays, Known, Transfers, Next
  PROVE  Transfers'
<1> USE DEF Known
<1>1. CASE HandlerWorks
  BY <1>1, HandlerTransfers DEF HandlerWorks
<1>2. CASE op' = NoOp
  BY <1>2, RestTransfers DEF NoTransfer, NoOp, Writes
<1>4. CASE Unmoved
  BY <1>4 DEF Unmoved, hVars, cards, Transfers, Transferred, OnTag, SameOnTag, Card
<1>5. CASE Moves
  <2>1. op' = op /\ (op.call \in Writes => op = NoOp)
    BY <1>5, WriteIsKnown DEF Moves, HandlerIdle
  <2> QED
    BY <1>2, <2>1, RestTransfers DEF NoTransfer
<1>6. CASE \E t \in Tags : DoneElsewhere(t) \/ SentHere(t)
  <2>1. PICK t \in Tags : DoneElsewhere(t) \/ SentHere(t)
    BY <1>6
  <2>2. UNCHANGED <<onReader, integrity, working, op>>
        /\ (onReader # NoTag => tags'[onReader] = tags[onReader])
    BY <2>1, ElsewhereIsApart DEF Arrays, TagsFit
  <2>3. CASE op.call \in Writes
    <3>1. onReader # NoTag
      BY <2>3, WriteIsKnown DEF NoOp, Writes
    <3> QED
      BY <2>2, <3>1 DEF Transfers, Transferred, OnTag, SameOnTag, Card
  <2>4. CASE op.call \notin Writes
    BY <2>2, <2>4, RestTransfers DEF NoTransfer
  <2> QED
    BY <2>3, <2>4
<1>7. CASE \/ MimoPolozena \/ MarksDone \/ CompletionOk \/ TargetReserved \/ Presun
           \/ NovyRecept \/ Reboot
  BY <1>2, <1>7 DEF MimoPolozena, MarksDone, MarkDone, CompletionOk, TargetReserved, Presun,
     NovyRecept, Reboot, Restart, Ready, Enters, HandlerIdle, KeepTag, Reported, Loaded,
     Decide
<1> QED
  BY <1>1, <1>4, <1>5, <1>6, <1>7, StepsOf

-----------------------------------------------------------------------------
\* What follows for the calls that write.

LEMMA NoneGivesUp ==
  ASSUME Known, Owing
  PROVE  ~OutOfRange /\ ~AccessLost
<1> USE DEF Known
<1>1. SUFFICES ASSUME OutOfRange \/ AccessLost PROVE FALSE
  OBVIOUS
<1>2. op # NoOp /\ op.phase \in {"sum", "select", "write"}
  BY <1>1 DEF OutOfRange, AccessLost, AtTag
<1>3. WriteShape /\ (op.call = "WriteSafeStep" => at = "gate")
      /\ (at = "gate" => BeingWritten \/ Syncing)
  BY <1>2, WriteUnderWay
<1>4. onReader # NoTag
  BY <1>2, <1>3, WriteIsKnown DEF WriteShape
<1>5. op.phase = "write" => op.sel = onReader
  BY <1>3 DEF WriteShape, Owing, Transfers, Transferred
<1>6. Card.info.steps \in Nat /\ op.run.to \in Nat
  BY <1>3 DEF WriteShape, Ranges, Arrays, Card, IsCopy, Counts
<1>7. op.run.to <= Card.info.steps
  <2>1. CASE op.call = "Sync"
    BY <2>1 DEF Owing, Dues, RunsDue, Card
  <2>2. CASE op.call = "WriteSafeInfo"
    BY <2>2, <1>6 DEF Kept, KeptHere, InfoWritten
  <2>3. CASE op.call = "WriteSafeStep"
    <3>1. at = "gate" /\ (BeingWritten \/ Syncing)
      BY <1>3, <2>3
    <3> QED
      BY <3>1, GateHolds
  <2> QED
    BY <1>3, <2>1, <2>2, <2>3 DEF WriteShape, Writes
<1> QED
  BY <1>1, <1>4, <1>5, <1>6, <1>7 DEF OutOfRange, AccessLost, AtTag

LEMMA VerifySucceeds ==
  ASSUME Known, Owing, Verify
  PROVE  onReader # NoTag /\ SameOnTag(op.run) /\ (SyncRunWritten \/ SafeWriteDone)
<1>1. op # NoOp /\ op.phase = "verify"
  BY DEF Verify, AtTag
<1>2. WriteShape
  BY <1>1, WriteUnderWay DEF Known
<1>3. onReader # NoTag
  BY <1>1, <1>2, WriteIsKnown DEF WriteShape, Known
<1>4. SameOnTag(op.run)
  BY <1>1, <1>2 DEF WriteShape, Owing, Transfers, Transferred
<1> QED
  BY <1>3, <1>4 DEF Verify

-----------------------------------------------------------------------------
\* What a sync has to write.

\* Every step that is dirty is in a range, which ends with one.
LEMMA RunsCover ==
  ASSUME NEW n \in Nat, NEW flags \in [1 .. n -> BOOLEAN]
  PROVE  /\ \A i \in 1 .. n : flags[i] => \E r \in Runs(flags) : i \in r.from .. r.to
         /\ \A r \in Runs(flags) : r.to = 0 \/ (r.to \in 1 .. n /\ flags[r.to])
<1> DEFINE marked == {0} \cup {i \in DOMAIN flags : flags[i]}
<1>1. /\ marked \subseteq 0 .. n /\ \A i \in 1 .. n : flags[i] => i \in marked
      /\ \A i \in marked : i = 0 \/ (i \in 1 .. n /\ flags[i])
  OBVIOUS
<1>2. Runs(flags) = {run \in [from : marked, to : marked] :
                       /\ run.from <= run.to /\ run.from .. run.to \subseteq marked
                       /\ run.from - 1 \notin marked /\ run.to + 1 \notin marked}
  BY DEF Runs
<1> HIDE DEF marked
<1>3. ASSUME NEW i \in 1 .. n, flags[i]
      PROVE  \E r \in Runs(flags) : i \in r.from .. r.to
  <2>1. i \in marked /\ i \in Nat
    BY <1>1, <1>3
  <2>2. PICK a \in {j \in Nat : j <= i /\ j .. i \subseteq marked} :
          \A j \in {j \in Nat : j <= i /\ j .. i \subseteq marked} : a <= j
    <3>1. i \in {j \in Nat : j <= i /\ j .. i \subseteq marked}
      BY <2>1
    <3> QED
      BY <3>1, LeastOf
  <2>3. PICK b \in {j \in Nat : i <= j /\ j \notin marked} :
          \A j \in {j \in Nat : i <= j /\ j \notin marked} : b <= j
    <3>1. n + 1 \in {j \in Nat : i <= j /\ j \notin marked}
      BY <1>1, <2>1
    <3> QED
      BY <3>1, LeastOf
  <2>4. i < b
    BY <2>1, <2>3
  <2>5. a - 1 \notin marked
    <3>1. SUFFICES ASSUME a - 1 \in marked PROVE FALSE
      OBVIOUS
    <3>2. a - 1 \in Nat /\ a - 1 <= i
      BY <1>1, <2>2, <3>1
    <3>3. (a - 1) .. i \subseteq marked
      BY <2>2, <3>1
    <3> QED
      BY <2>2, <3>2, <3>3
  <2>6. a .. b - 1 \subseteq marked
    <3> SUFFICES ASSUME NEW j \in a .. b - 1 PROVE j \in marked
      OBVIOUS
    <3>1. CASE j <= i
      BY <2>2, <3>1
    <3>2. CASE i < j
      BY <2>2, <2>3, <3>2
    <3> QED
      BY <2>1, <2>2, <3>1, <3>2
  <2>7. a \in marked /\ b - 1 \in marked /\ (b - 1) + 1 \notin marked /\ a <= b - 1
    BY <2>1, <2>2, <2>3, <2>4, <2>6
  <2>8. [from |-> a, to |-> b - 1] \in Runs(flags)
    BY <1>2, <2>5, <2>6, <2>7
  <2> QED
    BY <2>2, <2>3, <2>4, <2>8
<1>4. ASSUME NEW r \in Runs(flags)
      PROVE  r.to = 0 \/ (r.to \in 1 .. n /\ flags[r.to])
  <2>1. r.to \in marked
    BY <1>2
  <2> QED
    BY <1>1, <2>1
<1> QED
  BY <1>3, <1>4

\* Steps that are dirty from the first on are one range with the info.
LEMMA OneRun ==
  ASSUME NEW n \in Nat, NEW flags \in [1 .. n -> BOOLEAN], NEW k \in 0 .. n,
         \A i \in 1 .. n : flags[i] <=> i <= k
  PROVE  Runs(flags) = {[from |-> 0, to |-> k]}
<1> DEFINE marked == {0} \cup {i \in DOMAIN flags : flags[i]}
<1>1. marked = 0 .. k
  OBVIOUS
<1>2. Runs(flags) = {run \in [from : marked, to : marked] :
                       /\ run.from <= run.to /\ run.from .. run.to \subseteq marked
                       /\ run.from - 1 \notin marked /\ run.to + 1 \notin marked}
  BY DEF Runs
<1> HIDE DEF marked
<1>3. [from |-> 0, to |-> k] \in Runs(flags)
  <2>1. 0 \in marked /\ k \in marked /\ 0 - 1 \notin marked /\ k + 1 \notin marked
        /\ 0 <= k /\ 0 .. k \subseteq marked
    BY <1>1
  <2> QED
    BY <1>2, <2>1
<1>4. ASSUME NEW r \in Runs(flags) PROVE r = [from |-> 0, to |-> k]
  <2>1. r \in [from : marked, to : marked] /\ r.from - 1 \notin marked /\ r.to + 1 \notin marked
    BY <1>2
  <2>2. r.from = 0 /\ r.to = k
    BY <1>1, <2>1
  <2> QED
    BY <2>1, <2>2
<1> QED
  BY <1>3, <1>4
-----------------------------------------------------------------------------
\* The accesses of a call that writes, but for its end.
Advances ==
  /\ UNCHANGED <<dirty, calls, onReader, result>>
  /\ op'.call = op.call /\ op'.run = op.run /\ op'.left = op.left
  /\ op' = op \/ op'.phase \in {"sum", "head", "select", "write", "verify"}
  /\ op'.phase = "head" => op' = op \/ op.run.from # 0
  /\ Same(working'.info, working.info) /\ Same(integrity'.info, integrity.info)
  /\ working'.steps = working.steps /\ integrity'.steps = integrity.steps

LEMMA CopiesSame ==
  ASSUME Arrays
  PROVE  Same(working.info, working.info) /\ Same(integrity.info, integrity.info)
BY DEF Same

LEMMA SumAdvances ==
  ASSUME Known, Sum, op.call \in Writes
  PROVE  Advances
<1>1. DOMAIN op = WriteFields
  BY WriteIsKnown DEF Sum, AtTag, Known
<1>2. /\ UNCHANGED <<dirty, calls, onReader, result>>
      /\ \E x \in {"head", "select"} : op' = [op EXCEPT !.phase = x]
                                       /\ (x = "head" => op.run.from # 0)
  BY DEF Sum
<1>3. \E sum : \/ working' = [working EXCEPT !.info.cs = sum] /\ integrity' = integrity
               \/ integrity' = [integrity EXCEPT !.info.cs = sum] /\ working' = working
  BY DEF Sum, SetCard, Card
<1>4. /\ Same(working'.info, working.info) /\ Same(integrity'.info, integrity.info)
      /\ working'.steps = working.steps /\ integrity'.steps = integrity.steps
  <2>1. \A sum : /\ Same([working.info EXCEPT !.cs = sum], working.info)
                 /\ Same([integrity.info EXCEPT !.cs = sum], integrity.info)
    BY SumIsApart DEF Known, Arrays, IsCopy
  <2>2. \A sum : /\ [working EXCEPT !.info.cs = sum].info = [working.info EXCEPT !.cs = sum]
                 /\ [working EXCEPT !.info.cs = sum].steps = working.steps
                 /\ [integrity EXCEPT !.info.cs = sum].info = [integrity.info EXCEPT !.cs = sum]
                 /\ [integrity EXCEPT !.info.cs = sum].steps = integrity.steps
    BY DEF Known, Arrays, IsCopy
  <2>3. Same(working.info, working.info) /\ Same(integrity.info, integrity.info)
    BY CopiesSame DEF Known
  <2> QED
    <3>1. PICK sum : \/ working' = [working EXCEPT !.info.cs = sum] /\ integrity' = integrity
                     \/ integrity' = [integrity EXCEPT !.info.cs = sum] /\ working' = working
      BY <1>3
    <3>2. CASE working' = [working EXCEPT !.info.cs = sum] /\ integrity' = integrity
      <4>1. working'.info = [working.info EXCEPT !.cs = sum] /\ working'.steps = working.steps
        BY <2>2, <3>2
      <4> QED
        BY <2>1, <2>3, <3>2, <4>1, Zenon
    <3>3. CASE integrity' = [integrity EXCEPT !.info.cs = sum] /\ working' = working
      <4>1. /\ integrity'.info = [integrity.info EXCEPT !.cs = sum]
            /\ integrity'.steps = integrity.steps
        BY <2>2, <3>3
      <4> QED
        BY <2>1, <2>3, <3>3, <4>1, Zenon
    <3> QED
      BY <3>1, <3>2, <3>3
<1>5. /\ op'.call = op.call /\ op'.run = op.run /\ op'.left = op.left
      /\ op'.phase \in {"head", "select"} /\ (op'.phase = "head" => op.run.from # 0)
  BY <1>1, <1>2 DEF WriteFields
<1> QED
  BY <1>2, <1>4, <1>5 DEF Advances

LEMMA WriteSteps ==
  ASSUME Known, Owing, HandlerStep, op.call \in Writes
  PROVE  \/ Advances
         \/ Compare /\ op' = NoOp
         \/ SyncRunWritten /\ op.phase = "verify" /\ op # NoOp
         \/ SafeWriteDone /\ op.phase = "verify" /\ op # NoOp
<1>1. op # NoOp /\ op.call # "none" /\ op.call # "LoadData"
  BY DEF NoOp, Writes
<1>2. DOMAIN op = WriteFields
  BY <1>1, WriteIsKnown DEF Known
<1>3. ~StartCall /\ ~LoadFails /\ ~LoadInfo /\ ~LoadSteps /\ ~MissingArrayAtStart
  BY <1>1 DEF StartCall, LoadFails, LoadInfo, LoadSteps, Doing, MissingArrayAtStart
<1>4. CASE Sum
  BY <1>4, SumAdvances
<1>5. ASSUME UNCHANGED <<dirty, calls, onReader, result, working, integrity>>,
             \/ op' = op \/ \E x \in {"sum", "select", "verify"} : op' = [op EXCEPT !.phase = x]
             \/ \E x, y : op' = [op EXCEPT !.phase = "write", !.sel = x, !.next = y]
             \/ op.phase = "write" /\ \E x : op' = [op EXCEPT !.next = x]
      PROVE  Advances
  <2>1. Same(working.info, working.info) /\ Same(integrity.info, integrity.info)
    BY CopiesSame DEF Known
  <2>2. /\ op'.call = op.call /\ op'.run = op.run /\ op'.left = op.left
        /\ op' = op \/ op'.phase \in {"sum", "select", "write", "verify"}
    <3>1. CASE \E x \in {"sum", "select", "verify"} : op' = [op EXCEPT !.phase = x]
      BY <1>2, <3>1 DEF WriteFields
    <3>2. CASE \E x, y : op' = [op EXCEPT !.phase = "write", !.sel = x, !.next = y]
      BY <1>2, <3>2 DEF WriteFields
    <3>3. CASE op.phase = "write" /\ \E x : op' = [op EXCEPT !.next = x]
      BY <1>2, <3>3 DEF WriteFields
    <3> QED
      BY <1>5, <3>1, <3>2, <3>3
  <2> QED
    BY <1>5, <2>1, <2>2 DEF Advances
<1>6. CASE WriteHead \/ Select \/ WriteStructure
  <2>1. UNCHANGED <<dirty, calls, onReader, result, working, integrity>>
    BY <1>6 DEF WriteHead, Select, WriteStructure, cards
  <2>2. \/ \E x \in {"sum", "select", "verify"} : op' = [op EXCEPT !.phase = x]
        \/ \E x, y : op' = [op EXCEPT !.phase = "write", !.sel = x, !.next = y]
        \/ op.phase = "write" /\ \E x : op' = [op EXCEPT !.next = x]
    BY <1>6 DEF WriteHead, Select, WriteStructure, AtTag
  <2> QED
    BY <1>5, <2>1, <2>2
<1>7. CASE Verify
  BY <1>1, <1>7, VerifySucceeds DEF Verify, AtTag
<1>8. CASE Compare
  <2>1. UNCHANGED <<dirty, calls, onReader, working, integrity>>
        /\ (op' = NoOp \/ (op' = [op EXCEPT !.phase = "sum"] /\ result' = result))
    BY <1>8 DEF Compare, cards, Return
  <2> QED
    BY <1>5, <1>8, <2>1
<1>9. CASE MissingArray
  BY <1>5, <1>9 DEF MissingArray, Panic, cards
<1> QED
  BY <1>3, <1>4, <1>6, <1>7, <1>8, <1>9, NoneGivesUp DEF HandlerStep

-----------------------------------------------------------------------------
LEMMA CleanAtRest ==
  ASSUME Dues, ~ToBeWritten
  PROVE  \A i : ~IsDirty(i)
BY DEF Dues, IsDirty

LEMMA IdleIsNotWritten ==
  ASSUME Known, (op = NoOp /\ calls \in {<<>>, <<"LoadData">>}) \/ op.call = "LoadData"
  PROVE  ~ToBeWritten
<1>1. calls \in {<<>>, <<"LoadData">>}
  BY DEF Known, Kept, KeptHere, InPlace, NoOp
<1>2. op.call \notin Writes
  BY DEF NoOp, Writes
<1> QED
  BY <1>1, <1>2, CallsDiffer DEF ToBeWritten

\* Nothing is due when nothing is dirty.
LEMMA CleanIsDue ==
  ASSUME \A i : ~IsDirty(i)', op'.call # "Sync"
  PROVE  Dues'
BY DEF Dues, IsDirty

LEMMA CallOf ==
  ASSUME Known, op = NoOp, calls # <<>>
  PROVE  /\ Head(calls) = "LoadData" => calls = <<"LoadData">>
         /\ Head(calls) = "WriteSafeInfo" => calls = InfoThenSync /\ Tail(calls) = <<"Sync">>
         /\ Head(calls) = "WriteSafeStep" => calls = StepThenSync /\ Tail(calls) = <<"Sync">>
         /\ Head(calls) = "Sync" => calls = <<"Sync">>
BY CallsDiffer DEF Known, Kept, KeptHere, InPlace

LEMMA StartCallDues ==
  ASSUME Known, Dues, StartCall
  PROVE  Dues' /\ SyncFollows'
<1> USE DEF Known
<1>1. op = NoOp /\ calls # <<>> /\ calls' = Tail(calls)
  BY DEF StartCall
<1>2. CASE StartLoad
  <2>1. calls = <<"LoadData">> /\ dirty' = dirty /\ op'.call = "LoadData"
    BY <1>1, <1>2, CallOf DEF StartLoad, LoadData, cards
  <2>2. \A i : ~IsDirty(i)
    BY <1>1, <2>1, IdleIsNotWritten, CleanAtRest
  <2> QED
    BY <2>1, <2>2, CleanIsDue DEF IsDirty, SyncFollows
<1>3. CASE StartWriteSafeInfo \/ StartWriteSafeStep
  <2>1. /\ op'.call \in {"WriteSafeInfo", "WriteSafeStep"} /\ dirty' = dirty
        /\ working' = working /\ Head(calls) \in {"WriteSafeInfo", "WriteSafeStep"}
    BY <1>3 DEF StartWriteSafeInfo, StartWriteSafeStep, Writing
  <2>2. ToBeWritten' /\ op'.call # "Sync" /\ calls' = <<"Sync">>
    BY <1>1, <2>1, CallOf DEF ToBeWritten, Writes
  <2> QED
    BY <2>1, <2>2 DEF Dues, IsDirty, Pending, SyncFollows
<1>4. CASE StartSync
  <2> DEFINE runs == Runs(dirty)
             run == FirstOf(runs)
  <2>1. /\ UNCHANGED cards
        /\ op' = Writing("Sync", IF TRUE \in {dirty[i] : i \in DOMAIN dirty} THEN "sum"
                                 ELSE "compare", run, runs \ {run}, NoOp)
    BY <1>4 DEF StartSync
  <2>2. PICK n \in Nat : dirty \in [1 .. n -> BOOLEAN]
    BY DEF Arrays, Marks
  <2>3. /\ run \in runs /\ \A i \in 1 .. n : dirty[i] => \E r \in runs : i \in r.from .. r.to
        /\ \A r \in runs : r.to = 0 \/ (r.to \in 1 .. n /\ dirty[r.to])
    BY <2>2, RunsFit, RunsCover
  <2>4. (\A i \in DOMAIN dirty : ~dirty[i]) => runs = {[from |-> 0, to |-> 0]}
    BY <2>2, OneRun
  <2> HIDE DEF runs, run
  <2>5. /\ op'.call = "Sync" /\ RunsDue' = runs /\ op'.run = run /\ op'.left = runs \ {run}
        /\ op'.phase = "compare" => \A i \in DOMAIN dirty : ~dirty[i]
    BY <2>1, <2>2, <2>3 DEF Writing, RunsDue
  <2>6. ToBeWritten' /\ dirty' = dirty /\ working' = working
    BY <2>1, <2>5 DEF cards, ToBeWritten, Writes
  <2>7. \A r \in runs : r.to <= working.info.steps
    BY <2>2, <2>3 DEF Dues, Arrays, IsCopy, Counts
  <2>8. \A i \in DOMAIN dirty' : dirty'[i] => ToBeWritten' /\ i <= working'.info.steps
    BY <2>6 DEF Dues
  <2>9. \A i : IsDirty(i)' => Pending(i)'
    BY <2>2, <2>3, <2>5, <2>6 DEF IsDirty, Pending
  <2>10. op'.phase = "compare" => /\ op'.run = [from |-> 0, to |-> 0] /\ op'.left = {}
                                  /\ \A i \in DOMAIN dirty' : ~dirty'[i]
    BY <2>3, <2>4, <2>5, <2>6
  <2> QED
    BY <2>5, <2>6, <2>7, <2>8, <2>9, <2>10 DEF Dues, SyncFollows
<1> QED
  BY <1>2, <1>3, <1>4 DEF StartCall

LEMMA SizedMarks ==
  ASSUME NEW card, IsCopy(card), CopyFits(card), NEW n \in Nat, NEW i,
         HasMark(ChangeRecipeStepsSize(card, n).steps, i)
  PROVE  HasMark(card.steps, i)
<1>1. Len(card.steps) \in Nat /\ DOMAIN card.steps = 1 .. Len(card.steps)
  BY ArrayOf, MaxStepsAssumption DEF CopyFits
<1>2. CASE ChangeRecipeStepsSize(card, n) = card
  BY <1>2
<1>3. CASE ChangeRecipeStepsSize(card, n) # card
  <2>1. ChangeRecipeStepsSize(card, n).steps =
          [j \in 1 .. n |-> IF j <= Len(card.steps) THEN card.steps[j] ELSE EmptyStep]
    BY <1>3 DEF ChangeRecipeStepsSize, IsCopy
  <2>2. i \in 1 .. n /\ (IF i <= Len(card.steps) THEN card.steps[i] ELSE EmptyStep).reserved = ME
    BY <2>1 DEF HasMark
  <2>3. EmptyStep.reserved # ME
    BY MeAssumption DEF EmptyStep
  <2> QED
    BY <1>1, <2>2, <2>3 DEF HasMark
<1> QED
  BY <1>2, <1>3

\* A copy has no mark that neither of the two had, and a dirty step keeps its own.
LEMMA CopiedMarks ==
  ASSUME Arrays, CopyFits(working), NEW card, IsCopy(card), CopyFits(card),
         card.info.steps \in 0 .. MaxSteps, NEW infoData, NEW stepsData, NEW i,
         stepsData => CopyToWorking(card, infoData, stepsData).ok,
         HasMark(CopyToWorking(card, infoData, stepsData).card.steps, i)
  PROVE  HasMark(working.steps, i) \/ (stepsData /\ ~IsDirty(i) /\ HasMark(card.steps, i))
<1> DEFINE known == [working EXCEPT !.known = card.known]
           array == IF known.created THEN known
                    ELSE ChangeRecipeStepsSize(known, card.info.steps)
           named == [array EXCEPT !.loaded = card.loaded, !.uid = card.uid]
           sized == ChangeRecipeStepsSize(named, card.info.steps)
           told == IF infoData THEN [sized EXCEPT !.info = card.info] ELSE sized
           flags == Resize(dirty, told.info.steps)
           clean == {j \in DOMAIN flags : stepsData /\ ~flags[j]}
           copy == CopyToWorking(card, infoData, stepsData)
           Kin(c) == IsCopy(c) /\ CopyFits(c) /\ (HasMark(c.steps, i) => HasMark(working.steps, i))
<1>1. Kin(known)
  BY DEF Arrays, IsCopy, CopyFits, Counts
<1> HIDE DEF known
<1>2. ASSUME NEW c, Kin(c) PROVE Kin(ChangeRecipeStepsSize(c, card.info.steps))
  <2>1. card.info.steps \in Nat
    BY MaxStepsAssumption
  <2>2. IsCopy(ChangeRecipeStepsSize(c, card.info.steps))
    BY <1>2, <2>1, SizeChanged
  <2>3. CopyFits(ChangeRecipeStepsSize(c, card.info.steps))
    BY <1>2, Resized
  <2>4. HasMark(ChangeRecipeStepsSize(c, card.info.steps).steps, i) => HasMark(c.steps, i)
    BY <1>2, <2>1, SizedMarks
  <2> QED
    BY <1>2, <2>2, <2>3, <2>4
<1>3. Kin(array)
  BY <1>1, <1>2
<1> HIDE DEF array
<1>4. Kin(named)
  BY <1>3 DEF IsCopy, CopyFits, Counts
<1> HIDE DEF named
<1>5. Kin(sized)
  BY <1>2, <1>4
<1> HIDE DEF sized
<1>6. told.steps = sized.steps /\ IsCopy(told)
  BY <1>5 DEF IsCopy
<1>7. /\ copy.card = [told EXCEPT !.steps =
                        [j \in DOMAIN @ |-> IF j \in clean THEN card.steps[j] ELSE @[j]]]
      /\ copy.ok = \A j \in clean : j <= Len(card.steps) /\ j <= Len(told.steps)
  BY Zenon DEF CopyToWorking, known, array, named, sized
<1> HIDE DEF told, copy, clean
<1>8. /\ i \in DOMAIN sized.steps
      /\ (IF i \in clean THEN card.steps[i] ELSE sized.steps[i]).reserved = ME
  <2>1. copy.card.steps =
          [j \in DOMAIN sized.steps |-> IF j \in clean THEN card.steps[j] ELSE sized.steps[j]]
    BY <1>6, <1>7 DEF IsCopy
  <2>2. HasMark(copy.card.steps, i)
    BY Zenon DEF copy
  <2> QED
    BY <2>1, <2>2 DEF HasMark
<1>9. CASE i \notin clean
  BY <1>5, <1>8, <1>9 DEF HasMark
<1>10. CASE i \in clean
  <2>1. stepsData /\ i \in DOMAIN flags /\ ~flags[i]
    BY <1>10 DEF clean
  <2>2. i <= Len(card.steps)
    <3>1. copy.ok
      BY <2>1, Zenon DEF copy
    <3> QED
      BY <1>7, <1>10, <3>1
  <2>3. told.info.steps \in Nat
    BY <1>6 DEF IsCopy, Counts
  <2>4. i \in 1 .. told.info.steps /\ ~(i <= Len(dirty) /\ dirty[i])
    BY <2>1 DEF Resize
  <2>5. ~IsDirty(i)
    BY <2>3, <2>4 DEF IsDirty, Arrays, Marks
  <2>6. i \in DOMAIN card.steps
    BY <2>2, <2>3, <2>4, ArrayOf, MaxStepsAssumption DEF CopyFits
  <2> QED
    BY <1>8, <1>10, <2>1, <2>5, <2>6 DEF HasMark
<1> QED
  BY <1>9, <1>10
-----------------------------------------------------------------------------
LEMMA WriteDues ==
  ASSUME Known, Owing, HandlerStep, op.call \in Writes
  PROVE  Dues' /\ SyncFollows'
<1> USE DEF Known
<1> Dues /\ SyncFollows
  BY DEF Owing
<1>1. CASE Advances
  <2>1. ToBeWritten' /\ working'.info.steps = working.info.steps
    BY <1>1, SameIsEqual DEF Advances, ToBeWritten
  <2>2. \A i : (IsDirty(i)' <=> IsDirty(i)) /\ (Pending(i)' <=> Pending(i))
    BY <1>1 DEF Advances, IsDirty, Pending, RunsDue
  <2>3. op'.phase = "compare" => op.phase = "compare"
    BY <1>1 DEF Advances
  <2> QED
    BY <1>1, <2>1, <2>2, <2>3 DEF Advances, Dues, RunsDue, SyncFollows
<1>2. CASE Compare /\ op' = NoOp
  <2>1. /\ op.call = "Sync" /\ op.phase = "compare" /\ dirty' = dirty /\ op'.call = "none"
    BY <1>2 DEF Compare, Doing, cards, NoOp
  <2> QED
    BY <2>1, CleanIsDue DEF Dues, IsDirty, SyncFollows
<1>3. CASE SyncRunWritten /\ op # NoOp
  <2>1. /\ op.call = "Sync" /\ dirty' = Cleared /\ working' = working
        /\ op' = IF op.left = {} THEN NoOp
                 ELSE Writing("Sync", "sum", FirstOf(op.left), op.left \ {FirstOf(op.left)}, NoOp)
    BY <1>3, Zenon DEF SyncRunWritten, Return
  <2>2. \A i : IsDirty(i)' => IsDirty(i) /\ i \notin op.run.from .. op.run.to
    BY <2>1 DEF IsDirty, Cleared
  <2>3. CASE op.left = {}
    <3>1. \A i : ~IsDirty(i)'
      BY <2>1, <2>2, <2>3 DEF Dues, Pending, RunsDue
    <3> QED
      BY <2>1, <2>3, <3>1, CleanIsDue DEF SyncFollows, NoOp
  <2>4. CASE op.left # {}
    <3>1. op.left \in SUBSET Ranges
      BY <1>3, <2>1 DEF Carried, OpShape, LoadShape, WriteShape
    <3>2. FirstOf(op.left) \in op.left
      BY <2>4, <3>1, FirstRange
    <3>3. op'.call = "Sync" /\ RunsDue' = op.left /\ op'.phase = "sum" /\ ToBeWritten'
      BY <2>1, <2>4, <3>2 DEF Writing, RunsDue, ToBeWritten, Writes
    <3>4. \A i : IsDirty(i)' => Pending(i)'
      BY <2>1, <2>2, <3>3 DEF Dues, Pending, RunsDue
    <3>5. \A i : i \in DOMAIN dirty' /\ dirty'[i] => ToBeWritten' /\ i <= working'.info.steps
      BY <2>1, <2>2, <3>3 DEF Dues, IsDirty
    <3> QED
      BY <2>1, <3>3, <3>4, <3>5 DEF Dues, RunsDue, SyncFollows
  <2> QED
    BY <2>3, <2>4
<1>4. CASE SafeWriteDone
  <2>1. /\ calls' = calls /\ op' = NoOp /\ op.call \in {"WriteSafeInfo", "WriteSafeStep"}
        /\ Copy(integrity, TRUE, op.call = "WriteSafeStep")
    BY <1>4 DEF SafeWriteDone, Return
  <2>2. working'.info = integrity.info /\ dirty' = Resize(dirty, integrity.info.steps)
    <3>1. IsCopy(integrity) /\ KnownFits
      BY DEF Sound, Arrays
    <3>2. \A b, c : b \/ integrity.known =>
            LET copy == CopyToWorking(integrity, b, c)
            IN /\ b => copy.card.info = integrity.info
               /\ copy.dirty = Resize(dirty, integrity.info.steps)
      BY <3>1, CopyCounts
    <3> QED
      BY <2>1, <3>2, Zenon DEF Copy
  <2>3. ToBeWritten' /\ op'.call = "none"
    BY <2>1 DEF SyncFollows, ToBeWritten, NoOp
  <2>4. \A i \in DOMAIN dirty' : i <= working'.info.steps
    BY <2>2 DEF Resize
  <2> QED
    BY <2>3, <2>4 DEF Dues, Pending, IsDirty, SyncFollows
<1> QED
  BY <1>1, <1>2, <1>3, <1>4, WriteSteps

-----------------------------------------------------------------------------
\* What a load leaves: the copies are alike unless the steps are to be read, and
\* they have no mark that neither of them nor the tag had.
LoadLeaves ==
  /\ UNCHANGED <<tags, onReader, calls>> /\ onReader \in Tags
  /\ op' = NoOp \/ op'.call = "LoadData"
  /\ \A i : IsDirty(i)' => IsDirty(i)
  /\ Alike' \/ (Reads' /\ op'.needInfo)
  /\ op' = NoOp /\ result'.value = 0 => Same(working'.info, TagInfo) \/ working'.info.steps = 0
  /\ \A i : /\ HasMark(working'.steps, i) =>
                 HasMark(working.steps, i) \/ HasMark(tags[onReader].steps, i)
            /\ HasMark(integrity'.steps, i) =>
                 HasMark(integrity.steps, i) \/ HasMark(tags[onReader].steps, i)

LEMMA ResizedIsDirty ==
  ASSUME Arrays, NEW n \in Nat, dirty' = Resize(dirty, n)
  PROVE  \A i : IsDirty(i)' => IsDirty(i)
<1>1. PICK k \in Nat : dirty \in [1 .. k -> BOOLEAN]
  BY DEF Arrays, Marks
<1>2. Len(dirty) = k /\ DOMAIN dirty = 1 .. k
  BY <1>1
<1>3. \A i \in 1 .. n : dirty'[i] => i <= k /\ dirty[i]
  BY <1>2 DEF Resize
<1>4. DOMAIN dirty' = 1 .. n
  BY DEF Resize
<1> QED
  BY <1>2, <1>3, <1>4 DEF IsDirty

\* Before a load has read the info, the copies are alike.
LEMMA LoadFindsAlike ==
  ASSUME Known, CopiesMatch, op.call = "LoadData", op.phase = "info" \/ ~op.needInfo
  PROVE  Alike
BY IdleIsNotWritten DEF CopiesMatch, Reads

LEMMA LoadFailsLeaves ==
  ASSUME Known, CopiesMatch, LoadFails
  PROVE  LoadLeaves
<1>1. /\ op.call = "LoadData" /\ op.phase = "info"
      /\ UNCHANGED <<tags, onReader, working, dirty, calls>>
      /\ op' = NoOp /\ result'.value = 4 /\ op # NoOp
      /\ integrity' = integrity \/ integrity' = [integrity EXCEPT !.known = TRUE]
  BY DEF LoadFails, Doing, Return, NoOp
<1>2. onReader \in Tags
  BY <1>1 DEF Known, Kept, KeptHere, Stands, Waits, Arrays, TagsFit
<1>3. integrity'.info = integrity.info /\ integrity'.steps = integrity.steps
  BY <1>1 DEF Known, Arrays, IsCopy
<1>4. Alike'
  BY <1>1, <1>3, LoadFindsAlike DEF Alike
<1>5. \A i : IsDirty(i)' => IsDirty(i)
  BY <1>1 DEF IsDirty
<1> QED
  BY <1>1, <1>2, <1>3, <1>4, <1>5 DEF LoadLeaves

LEMMA LoadInfoLeaves ==
  ASSUME Known, CopiesMatch, LoadInfo
  PROVE  LoadLeaves
<1> USE DEF Known
<1> DEFINE found == tags[onReader].info
           is == IsSameData(found)
           needs == is.newCard \/ ~is.sameInfo
           card == [integrity EXCEPT !.known = TRUE, !.info.batch = found.batch]
           sized == ChangeRecipeStepsSize(card, found.steps)
           new == IF needs THEN [ChangeRecipeStepsSize(card, found.steps) EXCEPT !.info = found]
                  ELSE card
           copy == CopyToWorking(new, needs, FALSE)
<1>1. /\ op.call = "LoadData" /\ op.phase = "info" /\ UNCHANGED <<tags, onReader, calls>>
      /\ integrity.info.id = found.id => HasSteps(integrity)
      /\ integrity' = new
      /\ onReader \in Tags
  <2>1. op.call = "LoadData" /\ op.phase = "info" /\ UNCHANGED <<tags, onReader, calls>>
        /\ onReader # NoTag
    BY DEF LoadInfo, Doing
  <2>2. integrity' = new /\ (integrity.info.id = found.id => HasSteps(integrity))
    BY Zenon DEF LoadInfo
  <2> QED
    BY <2>1, <2>2 DEF Arrays, TagsFit
<1>2. \/ /\ working' = Follows(found) /\ dirty' = dirty
         /\ op' = [op EXCEPT !.phase = "steps", !.needInfo = needs]
      \/ /\ working' = IF needs THEN copy.card
                       ELSE [copy.card EXCEPT !.info.batch = Follows(found).info.batch]
         /\ dirty' = copy.dirty /\ op' = NoOp
  BY Zenon DEF LoadInfo, Return
<1>3. Counted(found) /\ Counts(found) /\ found.steps \in 0 .. MaxSteps /\ found.steps \in Nat
  BY <1>1 DEF Arrays, TagsFit, IsCopy, Counts, Sound, TagsCounted, Counted
<1>4. needs <=> (integrity.info.id # found.id \/ Bytes(integrity.info) # Bytes(found))
  BY DEF IsSameData
<1>5. /\ Alike /\ IsCopy(working) /\ IsCopy(integrity) /\ KnownFits
      /\ CopyFits(working) /\ CopyFits(integrity) /\ found = TagInfo
  BY <1>1, LoadFindsAlike DEF Arrays, Sound, Carried, CopiesFit, TagInfo
<1>6. /\ IsCopy(card) /\ CopyFits(card) /\ card.known /\ card.steps = integrity.steps
      /\ Bytes(card.info) = Bytes(integrity.info) /\ card.info.batch = found.batch
  BY <1>5 DEF KnownFits, IsCopy, Counts, Bytes, CopyFits
<1> HIDE DEF needs, is, card
<1>7. /\ IsCopy(sized) /\ CopyFits(sized) /\ sized.known
      /\ \A i : HasMark(sized.steps, i) => HasMark(integrity.steps, i)
  <2>1. IsCopy(sized)
    BY <1>3, <1>6, SizeChanged
  <2>2. CopyFits(sized) /\ sized.known = card.known
    BY <1>3, <1>6, Resized
  <2>3. \A i : HasMark(sized.steps, i) => HasMark(card.steps, i)
    BY <1>3, <1>6, SizedMarks
  <2> QED
    BY <1>6, <2>1, <2>2, <2>3
<1>8. (needs => new = [sized EXCEPT !.info = found]) /\ (~needs => new = card)
  OBVIOUS
<1> HIDE DEF sized, new
<1>9. /\ IsCopy(new) /\ CopyFits(new) /\ new.known
      /\ Same(new.info, found) /\ new.info.steps = found.steps
      /\ needs => new.info = found
      /\ ~needs => new.steps = integrity.steps
      /\ \A i : HasMark(new.steps, i) => HasMark(integrity.steps, i)
  <2>1. CASE needs
    <3>1. new.info = found /\ new.steps = sized.steps /\ IsCopy(new) /\ CopyFits(new) /\ new.known
      BY <1>3, <1>7, <1>8, <2>1 DEF IsCopy, CopyFits
    <3>2. Same(found, found)
      BY <1>3, SumIsApart
    <3> QED
      BY <1>7, <2>1, <3>1, <3>2
  <2>2. CASE ~needs
    <3>1. Bytes(integrity.info) = Bytes(found)
      BY <1>4, <2>2
    <3> QED
      BY <1>6, <1>8, <2>2, <3>1, SameCounts DEF Same
  <2> QED
    BY <2>1, <2>2
<1>10. ~needs => /\ Bytes(integrity.info) = Bytes(found)
                 /\ integrity.steps = <<>> => found.steps = 0
  <2>1. ASSUME ~needs PROVE Bytes(integrity.info) = Bytes(found) /\ integrity.info.id = found.id
    BY <1>4, <2>1
  <2>2. ASSUME ~needs, integrity.steps = <<>> PROVE found.steps = 0
    <3>1. integrity.info.steps <= 0 /\ integrity.info.steps = found.steps
      BY <1>1, <2>1, <2>2 DEF HasSteps, Bytes
    <3> QED
      BY <1>3, <3>1
  <2> QED
    BY <2>1, <2>2
<1>11. /\ IsCopy(Follows(found)) /\ Follows(found).steps = working.steps
       /\ ~needs /\ Same(working.info, integrity.info) =>
            /\ Same(Follows(found).info, found) /\ working.info.steps = found.steps
            /\ Same([working.info EXCEPT !.batch = Follows(found).info.batch], found)
  <2>1. IsCopy(Follows(found)) /\ Follows(found).steps = working.steps
    BY <1>5 DEF Follows, IsCopy, Counts
  <2>2. ASSUME ~needs, Same(working.info, integrity.info)
        PROVE  /\ Same(Follows(found).info, found) /\ working.info.steps = found.steps
               /\ Same([working.info EXCEPT !.batch = Follows(found).info.batch], found)
    <3>1. Bytes(working.info) = Bytes(found) /\ working.info.batch = integrity.info.batch
      BY <1>4, <2>2 DEF Same
    <3>2. Follows(found) = [working EXCEPT !.info.batch = found.batch]
      BY <3>1 DEF Follows
    <3>3. /\ Bytes(Follows(found).info) = Bytes(working.info)
          /\ Follows(found).info.batch = found.batch
      BY <1>5, <3>2 DEF Bytes, IsCopy, Counts
    <3>4. Same([working.info EXCEPT !.batch = found.batch], found)
      BY <1>5, <3>1 DEF Same, Bytes, IsCopy, Counts
    <3> QED
      BY <3>1, <3>3, <3>4 DEF Same, Bytes
  <2> QED
    BY <2>1, <2>2
<1> HIDE DEF found
<1>12. CASE /\ working' = Follows(found) /\ dirty' = dirty
            /\ op' = [op EXCEPT !.phase = "steps", !.needInfo = needs]
  <2>1. op' # NoOp /\ op'.call = "LoadData" /\ op'.phase = "steps" /\ (op'.needInfo <=> needs)
    <3>1. DOMAIN op = {"call", "phase", "needInfo"}
      BY <1>1 DEF Kept, KeptHere, Shaped, Writes, NoOp
    <3>2. op'.call = "LoadData" /\ op'.phase = "steps" /\ (op'.needInfo <=> needs)
      BY <1>1, <1>12, <3>1
    <3> QED
      BY <3>2 DEF NoOp
  <2>2. Alike' \/ (Reads' /\ op'.needInfo)
    <3>1. CASE needs
      BY <2>1, <3>1 DEF Reads
    <3>2. CASE ~needs /\ Same(working.info, integrity.info)
      BY <1>1, <1>9, <1>11, <1>12, <3>2, SameIsEqual DEF Alike
    <3>3. CASE ~needs /\ integrity.steps = <<>>
      BY <1>1, <1>9, <3>3 DEF Alike
    <3> QED
      BY <1>5, <3>1, <3>2, <3>3 DEF Alike
  <2>3. \A i : IsDirty(i)' => IsDirty(i)
    BY <1>12 DEF IsDirty
  <2> QED
    BY <1>1, <1>9, <1>11, <1>12, <2>1, <2>2, <2>3 DEF LoadLeaves
<1>13. CASE /\ working' = IF needs THEN copy.card
                          ELSE [copy.card EXCEPT !.info.batch = Follows(found).info.batch]
            /\ dirty' = copy.dirty /\ op' = NoOp
  <2>1. /\ IsCopy(copy.card)
        /\ needs => copy.card.info = new.info
        /\ copy.card.info.steps = found.steps
        /\ copy.dirty = Resize(dirty, found.steps)
        /\ ~needs /\ working.info.steps = found.steps => copy.card.info = working.info
        /\ \A i : HasMark(copy.card.steps, i) => HasMark(working.steps, i)
    <3>1. \A b, c : LET other == CopyToWorking(new, b, c)
                    IN /\ IsCopy(other.card)
                       /\ b => other.card.info = new.info
                       /\ other.card.info.steps = new.info.steps
                       /\ other.dirty = Resize(dirty, new.info.steps)
      BY <1>5, <1>9, CopyCounts DEF CopyFits, KnownFits
    <3>2. \A b, c : LET other == CopyToWorking(new, b, c)
                    IN ~b /\ working.info.steps = new.info.steps => other.card.info = working.info
      BY <1>9, CopiedInfo
    <3>3. \A b, c, i : (c => CopyToWorking(new, b, c).ok) =>
                       (HasMark(CopyToWorking(new, b, c).card.steps, i) =>
                        HasMark(working.steps, i) \/ (c /\ ~IsDirty(i) /\ HasMark(new.steps, i)))
      BY <1>3, <1>5, <1>9, CopiedMarks
    <3> QED
      BY <1>9, <3>1, <3>2, <3>3, Zenon
  <2> HIDE DEF copy
  <2>2. working'.steps = copy.card.steps /\ working'.info.steps = found.steps
    BY <1>13, <2>1 DEF IsCopy, Counts
  <2>3. needs => Same(working'.info, found) /\ Same(working'.info, new.info)
    BY <1>9, <1>13, <2>1, SameIsEqual
  <2>4. ~needs /\ Same(working.info, integrity.info) =>
          Same(working'.info, found) /\ Same(working'.info, new.info)
    <3>1. ASSUME ~needs, Same(working.info, integrity.info)
          PROVE  Same(working'.info, found) /\ Same(working'.info, new.info)
      <4>1. working'.info = [working.info EXCEPT !.batch = Follows(found).info.batch]
        BY <1>11, <1>13, <2>1, <3>1 DEF IsCopy
      <4> QED
        BY <1>9, <1>11, <3>1, <4>1, SameIsEqual
    <3> QED
      BY <3>1
  <2>5. Same(working'.info, found) \/ working'.info.steps = 0
    BY <1>5, <1>10, <2>2, <2>3, <2>4 DEF Alike
  <2>6. Alike'
    BY <1>1, <1>5, <1>9, <2>3, <2>4 DEF Alike
  <2>7. \A i : IsDirty(i)' => IsDirty(i)
    BY <1>3, <1>13, <2>1, ResizedIsDirty
  <2> QED
    BY <1>1, <1>5, <1>9, <1>13, <2>1, <2>2, <2>5, <2>6, <2>7 DEF LoadLeaves
<1> QED
  BY <1>2, <1>12, <1>13
LEMMA LoadStepsLeaves ==
  ASSUME Known, CopiesMatch, LoadSteps
  PROVE  LoadLeaves
<1> USE DEF Known
<1>1. /\ op.call = "LoadData" /\ op.phase = "steps" /\ UNCHANGED <<tags, onReader, calls>>
      /\ op' = NoOp /\ Reads /\ op # NoOp
  <2>1. op.call = "LoadData" /\ op.phase = "steps" /\ UNCHANGED <<tags, onReader, calls>>
    BY DEF LoadSteps, Doing
  <2>2. op' = NoOp
    BY Zenon DEF LoadSteps, Return
  <2> QED
    BY <2>1, <2>2 DEF NoOp, Reads
<1>2. onReader \in Tags
  BY <1>1 DEF Kept, KeptHere, Stands, Waits, Arrays, TagsFit
<1>3. Same(integrity.info, TagInfo) /\ Counted(integrity.info)
  <2>1. Same(integrity.info, TagInfo)
    BY <1>1 DEF Kept, KeptInfos, Agreed
  <2> QED
    BY <1>2, <2>1, SameCounts DEF TagInfo, Sound, TagsCounted, Same
<1>4. /\ IsCopy(integrity) /\ KnownFits /\ integrity.known /\ (op.needInfo \/ HasSteps(integrity))
      /\ CopyFits(working) /\ CopyFits(integrity) /\ TagFits(tags[onReader])
  BY <1>1, <1>2 DEF Arrays, Sound, CountedWhenLoaded, Carried, CopiesFit
<1>5. op.needInfo \/ Alike
  BY <1>1, LoadFindsAlike
<1>6. CASE ~integrity.created
  <2>1. UNCHANGED <<integrity, working, dirty>> /\ result' = [call |-> op.call, value |-> 5]
    BY <1>6, Zenon DEF LoadSteps, cards, Return
  <2>2. integrity.steps = <<>>
    BY <1>6 DEF Kept, KeptInfos, ArrayMade, IsMade
  <2>3. Alike' /\ result'.value # 0 /\ \A i : IsDirty(i)' => IsDirty(i)
    BY <2>1, <2>2 DEF Alike, IsDirty
  <2> QED
    BY <1>1, <1>2, <2>1, <2>3 DEF LoadLeaves
<1>7. CASE integrity.created
  <2> DEFINE read == StepsRead
             copy == CopyToWorking(read, op.needInfo, TRUE)
  <2>1. integrity' = read /\ working' = copy.card /\ dirty' = copy.dirty /\ copy.ok
    <3>1. onReader # NoTag
      BY <1>2, TagsAssumption
    <3> QED
      BY <3>1, <1>7, Zenon DEF LoadSteps, Copy
  <2>2. /\ IsCopy(read) /\ read.info = integrity.info /\ read.known
        /\ read.steps = [i \in 1 .. integrity.info.steps |-> tags[onReader].steps[i]]
        /\ integrity.info.steps = 0 => read.steps = <<>>
    <3>1. \A x : LET filled == [integrity EXCEPT !.steps = x, !.loaded = TRUE]
                 IN /\ IsCopy(filled) /\ filled.info = integrity.info /\ filled.known
                    /\ filled.steps = x
      BY <1>4 DEF IsCopy, KnownFits
    <3>2. StepsRead.steps = [i \in 1 .. integrity.info.steps |-> tags[onReader].steps[i]]
      BY <1>4 DEF StepsRead, IsCopy
    <3>3. integrity.info.steps = 0 => StepsRead.steps = <<>>
      BY <3>2
    <3> QED
      BY <3>1, <3>2, <3>3 DEF StepsRead
  <2>3. CopyFits(read) /\ read.info.steps \in 0 .. MaxSteps
    <3>1. integrity.info.steps \in 0 .. MaxSteps
      BY <1>3 DEF Counted
    <3>2. ArrayFits(read.steps)
      BY <1>4, <2>2, <3>1, MaxStepsAssumption DEF ArrayFits, TagFits
    <3>3. "known" \in DOMAIN read
      BY <1>4 DEF StepsRead, KnownFits
    <3> QED
      BY <2>2, <3>1, <3>2, <3>3 DEF CopyFits
  <2>4. \A i : HasMark(read.steps, i) => HasMark(tags[onReader].steps, i)
    <3>1. 1 .. integrity.info.steps \subseteq DOMAIN tags[onReader].steps
      BY <1>3, <1>4, MaxStepsAssumption DEF Counted, TagFits
    <3> QED
      BY <2>2, <3>1 DEF HasMark
  <2> HIDE DEF read
  <2>5. /\ op.needInfo => copy.card.info = integrity.info
        /\ copy.card.info.steps = integrity.info.steps
        /\ copy.dirty = Resize(dirty, integrity.info.steps)
        /\ ~op.needInfo /\ working.info.steps = integrity.info.steps =>
             copy.card.info = working.info
        /\ \A i : HasMark(copy.card.steps, i) =>
                    HasMark(working.steps, i) \/ HasMark(read.steps, i)
    <3>1. \A b, c : LET other == CopyToWorking(read, b, c)
                    IN /\ b => other.card.info = integrity.info
                       /\ other.card.info.steps = integrity.info.steps
                       /\ other.dirty = Resize(dirty, integrity.info.steps)
      BY <1>4, <2>2, CopyCounts
    <3>2. \A b, c : LET other == CopyToWorking(read, b, c)
                    IN ~b /\ working.info.steps = integrity.info.steps =>
                         other.card.info = working.info
      BY <2>2, CopiedInfo
    <3>3. \A b, c, i : (c => CopyToWorking(read, b, c).ok) =>
                       (HasMark(CopyToWorking(read, b, c).card.steps, i) =>
                        HasMark(working.steps, i) \/ (c /\ ~IsDirty(i) /\ HasMark(read.steps, i)))
      BY <1>4, <2>2, <2>3, CopiedMarks
    <3> QED
      BY <2>1, <3>1, <3>2, <3>3, Zenon
  <2> HIDE DEF copy
  <2>6. \A i : IsDirty(i)' => IsDirty(i)
    <3>1. integrity.info.steps \in Nat
      BY <1>4 DEF IsCopy, Counts
    <3> QED
      BY <2>1, <2>5, <3>1, ResizedIsDirty
  <2>7. Alike' /\ (Same(working'.info, TagInfo) \/ working'.info.steps = 0)
    <3>1. CASE op.needInfo \/ Same(working.info, integrity.info)
      <4>1. Same(working'.info, integrity.info)
        BY <1>3, <2>1, <2>5, <3>1, SameIsEqual
      <4> QED
        BY <1>3, <2>1, <2>2, <4>1, SameIsEqual DEF Alike
    <3>2. CASE ~op.needInfo /\ integrity.steps = <<>>
      <4>1. integrity.info.steps = 0
        BY <1>3, <1>4, <3>2 DEF HasSteps, Counted
      <4> QED
        BY <2>1, <2>2, <2>5, <4>1 DEF Alike
    <3> QED
      BY <1>5, <3>1, <3>2 DEF Alike
  <2> QED
    BY <1>1, <1>2, <2>1, <2>4, <2>5, <2>6, <2>7 DEF LoadLeaves
<1> QED
  BY <1>6, <1>7

\* Every step of a load that is under way.
LEMMA LoadStepLeaves ==
  ASSUME Known, CopiesMatch, HandlerStep, op.call = "LoadData"
  PROVE  LoadLeaves
<1>1. op # NoOp /\ op.phase \in {"info", "steps"}
  BY DEF Known, Kept, KeptHere, Shaped, NoOp, Writes
<1>2. CASE MissingArray
  <2>1. UNCHANGED <<tags, onReader, integrity, working, dirty, calls, op, result>>
    BY <1>2 DEF MissingArray, Panic, cards
  <2>2. Alike \/ (Reads /\ op.needInfo)
    BY <1>1, LoadFindsAlike DEF Reads
  <2>3. onReader \in Tags
    BY <1>1 DEF Known, Kept, KeptHere, Stands, Waits, Arrays, TagsFit
  <2>4. \A i : IsDirty(i)' => IsDirty(i)
    BY <2>1 DEF IsDirty
  <2>5. Alike' \/ (Reads' /\ op'.needInfo)
    BY <2>1, <2>2 DEF Alike, Reads
  <2> QED
    BY <1>1, <2>1, <2>3, <2>4, <2>5 DEF LoadLeaves
<1>3. ~(StartCall \/ Sum \/ OutOfRange \/ WriteHead \/ Select \/ WriteStructure \/ AccessLost
        \/ Verify \/ Compare \/ MissingArrayAtStart)
  BY <1>1 DEF StartCall, Sum, OutOfRange, WriteHead, Select, WriteStructure, AccessLost,
     Verify, Compare, MissingArrayAtStart, AtTag, Doing
<1> QED
  BY <1>2, <1>3, LoadFailsLeaves, LoadInfoLeaves, LoadStepsLeaves DEF HandlerStep

-----------------------------------------------------------------------------
\* Every step leaves what is dirty due.

LEMMA HandlerDues ==
  ASSUME Known, Owing, CopiesMatch, HandlerStep
  PROVE  Dues' /\ SyncFollows'
<1>1. CASE op = NoOp
  <2>1. CASE StartCall
    BY <2>1, StartCallDues DEF Owing
  <2>2. CASE MissingArrayAtStart
    BY <2>2 DEF MissingArrayAtStart, Panic, cards, Owing, Dues, IsDirty, Pending, RunsDue,
       ToBeWritten, SyncFollows
  <2>3. op.call = "none"
    BY <1>1 DEF NoOp
  <2> QED
    BY <1>1, <2>1, <2>2, <2>3 DEF HandlerStep, LoadFails, LoadInfo, LoadSteps, Sum, OutOfRange,
       WriteHead, Select, WriteStructure, AccessLost, Verify, Compare, MissingArray, AtTag, Doing
<1>2. CASE op.call \in Writes
  BY <1>2, WriteDues
<1>3. CASE op.call = "LoadData"
  <2>1. LoadLeaves
    BY <1>3, LoadStepLeaves
  <2>2. \A i : ~IsDirty(i)
    BY <1>3, IdleIsNotWritten, CleanAtRest DEF Owing
  <2>3. op' = NoOp => op'.call = "none"
    BY DEF NoOp
  <2> QED
    BY <2>1, <2>2, <2>3, CleanIsDue DEF LoadLeaves, SyncFollows
<1> QED
  BY <1>1, <1>2, <1>3 DEF Known, Kept, KeptHere, Shaped

LEMMA RestIsClean ==
  ASSUME Known, Owing, HandlerIdle
  PROVE  \A i : ~IsDirty(i)
BY IdleIsNotWritten, CleanAtRest DEF HandlerIdle, Owing

LEMMA RecipeDues ==
  ASSUME Arrays, Presun \/ NovyRecept
  PROVE  /\ op' = NoOp /\ calls' = <<"Sync">>
         /\ dirty' = [i \in 1 .. working'.info.steps |-> TRUE]
         /\ working'.info.steps \in Nat /\ (RecipesHaveSteps => working'.info.steps > 0)
<1>1. CASE Presun
  <2>1. /\ op' = NoOp /\ calls' = <<"Sync">> /\ dirty' = [i \in 1 .. Len(ToStorage) |-> TRUE]
        /\ working' = [NewRecipe(ToStorage) EXCEPT !.info.id = 1]
    BY <1>1 DEF Presun, Enters, Ready, HandlerIdle
  <2>2. /\ IsCopy(NewRecipe(ToStorage)) /\ NewRecipe(ToStorage).info.steps = Len(ToStorage)
        /\ Len(ToStorage) \in Nat
    BY RecipesAssumption, NewRecipeIsCopy
  <2>3. RecipesHaveSteps => Len(ToStorage) > 0
    BY <2>2, RecipesAssumption DEF RecipesHaveSteps
  <2> QED
    BY <2>1, <2>2, <2>3 DEF IsCopy, Counts
<1>2. CASE NovyRecept
  <2> DEFINE number == IF receiptCounter >= Len(Recipes) THEN 0 ELSE receiptCounter
             new == NewRecipe(Recipes[number + 1])
  <2>1. /\ op' = NoOp /\ calls' = <<"Sync">>
        /\ working' = IF integrity.known THEN [new EXCEPT !.info.id = integrity.info.id] ELSE new
        /\ dirty' = [i \in 1 .. new.info.steps |-> TRUE]
    BY <1>2, Zenon DEF NovyRecept, AddCardInfoToWorking, KeepTag, Enters, Ready, HandlerIdle
  <2>2. Recipes[number + 1] \in Seq(UInt16)
    BY RecipesAssumption DEF Arrays
  <2>3. IsCopy(new) /\ new.info.steps = Len(Recipes[number + 1])
        /\ Len(Recipes[number + 1]) \in Nat
    BY <2>2, NewRecipeIsCopy
  <2>4. RecipesHaveSteps => Len(Recipes[number + 1]) > 0
    <3>1. number + 1 \in DOMAIN Recipes
      BY RecipesAssumption DEF Arrays
    <3> QED
      BY <2>2, <3>1 DEF RecipesHaveSteps
  <2> HIDE DEF new
  <2> QED
    BY <2>1, <2>3, <2>4 DEF IsCopy, Counts
<1> QED
  BY <1>1, <1>2

LEMMA NextDues ==
  ASSUME Stays, Known, Owing, CopiesMatch, Next
  PROVE  Dues' /\ SyncFollows'
<1>1. CASE HandlerWorks
  BY <1>1, HandlerDues DEF HandlerWorks
<1>2. CASE UNCHANGED <<working, dirty, calls, op>>
  BY <1>2 DEF Owing, Dues, IsDirty, Pending, RunsDue, ToBeWritten, SyncFollows
<1>3. CASE HandlerIdle /\ UNCHANGED <<dirty, op>>
  <2>1. (\A i : ~IsDirty(i)') /\ op'.call = "none"
    BY <1>3, RestIsClean DEF IsDirty, HandlerIdle, NoOp
  <2> QED
    BY <2>1, CleanIsDue DEF SyncFollows
<1>4. CASE CompletionOk
  <2>1. /\ op' = NoOp /\ calls' = InfoThenSync /\ working' = Advance
        /\ dirty' = WriteStep(working, Current)
    BY <1>4 DEF CompletionOk, Calls, KeepTag, Ready, HandlerIdle, InfoThenSync
  <2>2. working'.info.steps = working.info.steps /\ DOMAIN dirty' = 1 .. working.info.steps
    BY <2>1 DEF Known, Arrays, IsCopy, Counts, Advance, WriteStep, Resize
  <2>3. op'.call = "none" /\ working.info.steps \in Nat
    BY <2>1 DEF NoOp, Known, Arrays, IsCopy, Counts
  <2> QED
    BY <2>1, <2>2, <2>3 DEF Dues, Pending, ToBeWritten, SyncFollows
<1>5. CASE Presun \/ NovyRecept
  <2>1. op' = NoOp => op'.call = "none"
    BY DEF NoOp
  <2> QED
    BY <1>5, <2>1, RecipeDues DEF Known, Dues, Pending, ToBeWritten, SyncFollows
<1>6. CASE Reboot
  <2>1. dirty' = <<>> /\ op'.call = "none"
    BY <1>6 DEF Reboot, Restart, NoOp
  <2> QED
    BY <2>1, CleanIsDue DEF IsDirty, SyncFollows
<1>7. CASE MimoPolozena \/ MarksDone \/ TargetReserved
  BY <1>3, <1>7 DEF MimoPolozena, MarksDone, MarkDone, TargetReserved, Enters, Ready, KeepTag,
     cards, Decide, Reported, Loaded
<1>8. CASE Unmoved \/ Moves \/ \E t \in Tags : DoneElsewhere(t) \/ SentHere(t)
  BY <1>2, <1>8 DEF Unmoved, hVars, Moves, cards, DoneElsewhere, SentHere
<1> QED
  BY <1>1, <1>4, <1>5, <1>6, <1>7, <1>8, StepsOf

LEMMA NextOwing ==
  ASSUME Stays, Known, Owing, CopiesMatch, Next
  PROVE  Owing'
BY NextDues, NextTransfers DEF Owing

LEMMA InitOwing == Init => Owing
<1> SUFFICES ASSUME Init PROVE Owing
  OBVIOUS
<1>1. dirty = <<>> /\ op = NoOp /\ op.call = "none"
  BY DEF Init, HandlerInit, NoOp
<1> QED
  BY <1>1 DEF Owing, Transfers, SyncFollows, Dues, IsDirty, Writes

-----------------------------------------------------------------------------
\* The copies are alike, but for what is to be written.

\* Where a copy is written to, the place does not count.
LEMMA NotDeciding ==
  ASSUME at' \notin {"loaded", "poll"}
  PROVE  Decided'
BY DEF Decided

LEMMA SyncingMatches ==
  ASSUME Same(working'.info, integrity'.info)
  PROVE  CopiesMatch'
BY DEF CopiesMatch, Alike

LEMMA StartCallMatches ==
  ASSUME Known, Owing, CopiesMatch, StartCall
  PROVE  CopiesMatch' /\ op' # NoOp
<1> USE DEF Known
<1>1. op = NoOp /\ calls # <<>> /\ calls' = Tail(calls) /\ ~Reads
  BY DEF StartCall, Reads, NoOp
<1>2. CASE StartLoad
  <2>1. calls = <<"LoadData">> /\ UNCHANGED cards /\ op'.call = "LoadData" /\ op' # NoOp
    BY <1>1, <1>2, CallOf DEF StartLoad, LoadData, NoOp
  <2>2. Alike
    BY <1>1, <2>1, IdleIsNotWritten DEF CopiesMatch
  <2> QED
    BY <2>1, <2>2 DEF CopiesMatch, Alike, cards, ToBeSynced
<1>3. CASE StartWriteSafeInfo \/ StartWriteSafeStep
  <2>1. op'.call \in {"WriteSafeInfo", "WriteSafeStep"} /\ op' # NoOp
    BY <1>3 DEF StartWriteSafeInfo, StartWriteSafeStep, Writing, NoOp
  <2> QED
    BY <2>1 DEF CopiesMatch, ToBeWritten, ToBeSynced, Writes
<1>4. CASE StartSync
  <2> DEFINE runs == Runs(dirty)
             run == FirstOf(runs)
  <2>1. /\ UNCHANGED cards
        /\ op' = Writing("Sync", IF TRUE \in {dirty[i] : i \in DOMAIN dirty} THEN "sum"
                                 ELSE "compare", run, runs \ {run}, NoOp)
    BY <1>4 DEF StartSync
  <2>2. PICK n \in Nat : dirty \in [1 .. n -> BOOLEAN]
    BY DEF Arrays, Marks
  <2>3. run.from = 0
    BY <2>2, RunsFit
  <2> HIDE DEF run
  <2>4. /\ op'.call = "Sync" /\ op'.run.from = 0 /\ op' # NoOp
        /\ (\E i \in DOMAIN dirty : dirty[i]) => op'.phase = "sum"
    BY <2>1, <2>2, <2>3 DEF Writing, NoOp
  <2>5. ToBeSynced
    BY <1>1, <1>4, CallOf DEF StartSync, ToBeSynced
  <2>6. Same(working.info, integrity.info) \/ op'.phase = "sum"
    BY <2>4, <2>5 DEF CopiesMatch
  <2> QED
    BY <2>1, <2>4, <2>6 DEF CopiesMatch, ToBeSynced, ToBeWritten, Writes, cards
<1> QED
  BY <1>2, <1>3, <1>4 DEF StartCall

LEMMA WriteMatches ==
  ASSUME Known, Owing, CopiesMatch, HandlerStep, op.call \in Writes
  PROVE  CopiesMatch'
<1> USE DEF Known
<1>1. CASE Advances
  <2>1. ToBeWritten' /\ op' # NoOp
    BY <1>1 DEF Advances, ToBeWritten, Writes, NoOp
  <2>2. op'.call = "Sync" => \/ Same(working'.info, integrity'.info)
                             \/ op'.run.from = 0 /\ op'.phase # "compare"
    <3>1. CASE op.call = "Sync" /\ Same(working.info, integrity.info)
      <4>1. Same(working'.info, integrity'.info)
        BY <1>1, <3>1, SameIsEqual DEF Advances
      <4> QED
        BY <4>1
    <3>2. CASE op.call = "Sync" /\ op.run.from = 0 /\ op.phase # "compare"
      BY <1>1, <3>2 DEF Advances
    <3> QED
      BY <1>1, <3>1, <3>2 DEF Advances, CopiesMatch
  <2> QED
    BY <2>1, <2>2 DEF CopiesMatch, ToBeSynced
<1>2. CASE Compare /\ op' = NoOp
  <2>1. op.call = "Sync" /\ op.phase = "compare" /\ UNCHANGED cards
    BY <1>2 DEF Compare, Doing
  <2>2. Same(working'.info, integrity'.info)
    BY <2>1 DEF CopiesMatch, cards
  <2> QED
    BY <2>2, SyncingMatches
<1>3. CASE SyncRunWritten
  <2>1. working' = working /\ integrity' = Written /\ op.call = "Sync"
    BY <1>3 DEF SyncRunWritten
  <2> DEFINE sized == ChangeRecipeStepsSize([integrity EXCEPT !.known = TRUE], working.info.steps)
             first == IF op.run.from # 0 THEN integrity ELSE [sized EXCEPT !.info = working.info]
  <2>2. IsCopy(sized) /\ IsCopy(integrity) /\ IsCopy(working)
    <3>1. IsCopy([integrity EXCEPT !.known = TRUE]) /\ working.info.steps \in Nat
      BY CopyChanged DEF Arrays, IsCopy, Counts
    <3> QED
      BY <3>1, SizeChanged DEF Arrays
  <2> HIDE DEF sized
  <2>3. IsCopy(first) /\ first.info = IF op.run.from # 0 THEN integrity.info ELSE working.info
    BY <2>2 DEF IsCopy
  <2>4. \E x : Written = [first EXCEPT !.steps = x]
    BY DEF Written, sized
  <2> HIDE DEF first
  <2>5. Written.info = IF op.run.from # 0 THEN integrity.info ELSE working.info
    BY <2>3, <2>4 DEF IsCopy
  <2>6. Same(working'.info, integrity'.info)
    BY <2>1, <2>5, CopiesSame DEF CopiesMatch
  <2> QED
    BY <2>6, SyncingMatches
<1>4. CASE SafeWriteDone
  <2>1. Copy(integrity, TRUE, op.call = "WriteSafeStep")
    BY <1>4 DEF SafeWriteDone
  <2>2. \A c : CopyToWorking(integrity, TRUE, c).card.info = integrity.info
    <3>1. IsCopy(integrity)
      BY DEF Arrays
    <3>2. \A b, c : LET copy == CopyToWorking(integrity, b, c)
                    IN /\ b => copy.card.info = integrity.info
                       /\ ~b /\ working.info.steps = integrity.info.steps =>
                            copy.card.info = working.info
      BY <3>1, CopiedInfo
    <3> QED
      BY <3>2
  <2>3. working'.info = integrity.info /\ integrity' = integrity
    BY <2>1, <2>2, Zenon DEF Copy
  <2>4. Same(working'.info, integrity'.info)
    BY <2>3, CopiesSame
  <2> QED
    BY <2>4, SyncingMatches
<1> QED
  BY <1>1, <1>2, <1>3, <1>4, WriteSteps

LEMMA HandlerMatches ==
  ASSUME Known, Owing, Matched, HandlerWorks
  PROVE  Matched'
<1> USE DEF Known
<1>1. HandlerStep /\ at' = at /\ (at = "poll" => Waits)
  BY DEF HandlerWorks, Kept, KeptHere, InPlace
<1>2. CASE op = NoOp
  <2>1. CASE StartCall
    <3>1. CopiesMatch' /\ op' # NoOp
      BY <2>1, StartCallMatches DEF Matched
    <3>2. at # "poll"
      BY <1>1, <2>1 DEF StartCall, Waits
    <3> QED
      BY <1>1, <3>1, <3>2 DEF Matched, Decided, Waits
  <2>2. CASE MissingArrayAtStart
    BY <1>1, <2>2 DEF MissingArrayAtStart, Panic, cards, Matched, CopiesMatch, Decided, ToBeWritten,
       ToBeSynced, Alike, Reads, Waits, TagInfo
  <2>3. op.call = "none"
    BY <1>2 DEF NoOp
  <2> QED
    BY <1>1, <1>2, <2>1, <2>2, <2>3 DEF HandlerStep, LoadFails, LoadInfo, LoadSteps, Sum,
       OutOfRange,
       WriteHead, Select, WriteStructure, AccessLost, Verify, Compare, MissingArray, AtTag, Doing
<1>3. CASE op.call \in Writes
  <2>1. op # NoOp
    BY <1>3 DEF NoOp, Writes
  <2>2. at \notin {"loaded", "poll"}
    BY <1>3, <2>1, WriteIsKnown
  <2> QED
    BY <1>1, <1>3, <2>2, WriteMatches, NotDeciding DEF Matched
<1>4. CASE op.call = "LoadData"
  <2>1. LoadLeaves
    BY <1>1, <1>4, LoadStepLeaves DEF Matched
  <2>2. op # NoOp /\ calls \in {<<>>, <<"LoadData">>} /\ at # "poll"
    BY <1>1, <1>4 DEF Kept, KeptHere, InPlace, NoOp, Waits
  <2>3. ~ToBeSynced' /\ op'.call # "Sync"
    <3>1. op' = NoOp => op'.call = "none"
      BY DEF NoOp
    <3> QED
      BY <2>1, <2>2, <3>1, CallsDiffer DEF LoadLeaves, ToBeSynced
  <2>4. TagInfo' = TagInfo
    BY <2>1 DEF LoadLeaves, TagInfo
  <2> QED
    BY <1>1, <2>1, <2>2, <2>3, <2>4 DEF LoadLeaves, Matched, CopiesMatch, Decided, Waits
<1> QED
  BY <1>2, <1>3, <1>4 DEF Kept, KeptHere, Shaped
-----------------------------------------------------------------------------
LEMMA Places ==
  ASSUME Next
  PROVE  \/ at' = at \/ at' \in {"loop", "written", "gate"}
         \/ MimoPolozena \/ LocalReserved \/ LocalMarked
BY DEF Next, Reader, Decides, Gone, LoadFailed, EmptyTag,
     ReportRefused, RecipeFinished, Rescan, LocalRefused,
     CompletionFailed, Calls, Loop, MarkDone,
     CompletionOk, PostStep, GateBlocked, Presun, KonecReceptu, NovyRecept, TargetRefused,
     TargetReserved,
     TransportFailed, TransportStarted, HandlerWorks, PollCard, GuardExpires, CellWorks,
     Leaves, TakeAway, Arrives, PutDown, Reboot, Restart, DoneElsewhere, SentHere, aasVars

\* A product that is worked at has its info in working.
LEMMA DecidedOn ==
  ASSUME Known, Decided, Decide
  PROVE  /\ Same(working.info, TagInfo) /\ working.info.actual < working.info.steps
         /\ HasSteps(working) /\ ~working.info.done /\ onReader \in Tags
<1>1. /\ Ready("Mimo", "loaded") /\ result.value = 0 /\ ~IsRecipeEmpty /\ ~Finished
  BY DEF Decide, Reported, Loaded
<1>2. Same(working.info, TagInfo) \/ working.info.steps = 0
  BY <1>1 DEF Decided, Ready, HandlerIdle, Waits
<1>3. working.info.steps # 0 /\ HasSteps(working)
  BY <1>1 DEF IsRecipeEmpty, Info
<1>4. ~working.info.done /\ ~(working.info.actual >= working.info.steps)
  BY <1>1 DEF Finished, Info
<1>5. IsCopy(working) /\ onReader \in Tags
  BY <1>1 DEF Known, Kept, KeptHere, Stands, Arrays, TagsFit, Ready
<1> QED
  BY <1>2, <1>3, <1>4, <1>5 DEF IsCopy, Counts

LEMMA UnmovedMatches ==
  ASSUME Known, Matched, Next, Unmoved
  PROVE  Matched'
<1>1. CopiesMatch'
  BY DEF Unmoved, hVars, Matched, CopiesMatch, ToBeWritten, ToBeSynced, Alike, Reads
<1>2. CASE at' = at
  BY <1>1, <1>2 DEF Unmoved, hVars, Matched, Decided, Waits, TagInfo
<1>3. CASE at' \in {"loop", "written", "gate"}
  BY <1>1, <1>3, NotDeciding DEF Matched
<1>4. CASE LocalReserved \/ LocalMarked
  <2>1. Decide /\ at' = "poll"
    BY <1>4 DEF LocalReserved, LocalMarked
  <2>2. Same(working.info, TagInfo)
    BY <2>1, DecidedOn DEF Matched
  <2> QED
    BY <1>1, <2>1, <2>2 DEF Matched, Decided, Unmoved, hVars, TagInfo
<1>5. ~MimoPolozena
  BY DEF MimoPolozena, Unmoved, hVars, Calls, Enters, Ready, HandlerIdle
<1> QED
  BY <1>1, <1>2, <1>3, <1>4, <1>5, Places DEF Matched

LEMMA RestIsAlike ==
  ASSUME Known, Matched, HandlerIdle
  PROVE  Alike
BY IdleIsNotWritten DEF HandlerIdle, Matched, CopiesMatch, Reads, NoOp

LEMMA NextMatched ==
  ASSUME Stays, RecipesHaveSteps, Known, Owing, Matched, Next
  PROVE  Matched'
<1>1. CASE HandlerWorks
  BY <1>1, HandlerMatches
<1>2. CASE Unmoved
  BY <1>2, UnmovedMatches
<1>3. CASE MimoPolozena
  <2>1. /\ HandlerIdle /\ calls' = <<"LoadData">> /\ at' = "loaded" /\ op' = op /\ UNCHANGED cards
    BY <1>3 DEF MimoPolozena, Enters, Ready, Calls
  <2>2. Alike'
    BY <2>1, RestIsAlike DEF Alike, cards
  <2>3. ~ToBeSynced' /\ op'.call # "Sync" /\ ~Waits'
    BY <2>1, CallsDiffer DEF ToBeSynced, Waits, HandlerIdle, NoOp
  <2> QED
    BY <2>1, <2>2, <2>3 DEF Matched, CopiesMatch, Decided
<1>4. CASE MarksDone \/ CompletionOk \/ TargetReserved
  <2>1. op' = NoOp /\ calls' \in {InfoThenSync, StepThenSync} /\ at' \in {"loop", "written", "gate"}
    BY <1>4 DEF MarksDone, MarkDone, CompletionOk, TargetReserved, Calls, Loop, KeepTag, Ready,
       HandlerIdle, Decide, Reported, Loaded, InfoThenSync, StepThenSync
  <2>2. op'.call = "none"
    BY <2>1 DEF NoOp
  <2> QED
    BY <2>1, <2>2, CallsDiffer, NotDeciding DEF Matched, CopiesMatch, ToBeWritten, ToBeSynced
<1>5. CASE Presun \/ NovyRecept
  <2>1. /\ op' = NoOp /\ calls' = <<"Sync">> /\ at' = "loop"
        /\ \E i \in DOMAIN dirty' : dirty'[i]
    <3>1. /\ op' = NoOp /\ calls' = <<"Sync">>
          /\ dirty' = [i \in 1 .. working'.info.steps |-> TRUE]
          /\ working'.info.steps \in Nat /\ working'.info.steps > 0
      BY <1>5, RecipeDues DEF Known
    <3>2. 1 \in DOMAIN dirty' /\ dirty'[1]
      BY <3>1
    <3>3. at' = "loop"
      BY <1>5 DEF Presun, NovyRecept, Loop
    <3> QED
      BY <3>1, <3>2, <3>3
  <2>2. op'.call = "none"
    BY <2>1 DEF NoOp
  <2> QED
    BY <2>1, <2>2, NotDeciding DEF Matched, CopiesMatch, ToBeWritten
<1>6. CASE Reboot
  <2>1. working' = integrity' /\ at' = "loop"
    BY <1>6 DEF Reboot, Restart, Loop
  <2>2. Same(working'.info, integrity'.info)
    BY <2>1 DEF Same
  <2> QED
    BY <2>1, <2>2, SyncingMatches, NotDeciding DEF Matched
<1>7. CASE Moves
  <2>1. at = "loop"
    BY <1>7 DEF Moves, Known, Kept, KeptHere, Stands, InPlace
  <2>2. UNCHANGED <<cards, calls, op, at>>
    BY <1>7 DEF Moves, aasVars
  <2> QED
    BY <2>1, <2>2, NotDeciding DEF Matched, CopiesMatch, ToBeWritten, ToBeSynced, Alike,
       Reads, cards
<1>8. CASE \E t \in Tags : DoneElsewhere(t) \/ SentHere(t)
  <2>1. PICK t \in Tags : DoneElsewhere(t) \/ SentHere(t)
    BY <1>8
  <2>2. /\ t # onReader /\ UNCHANGED <<onReader, integrity, working, dirty, calls, op, result, at>>
        /\ \A u \in Tags : u # t => tags'[u] = tags[u]
    BY <2>1, ElsewhereIsApart DEF Known
  <2>3. onReader \in Tags \/ (onReader = NoTag /\ at = "loop")
    BY DEF Known, Arrays, TagsFit, Kept, KeptHere, Stands
  <2>4. onReader \in Tags => TagInfo' = TagInfo
    BY <2>2 DEF TagInfo
  <2> QED
    BY <2>2, <2>3, <2>4 DEF Matched, CopiesMatch, Decided, ToBeWritten, ToBeSynced, Alike,
       Reads, Waits
<1> QED
  BY <1>1, <1>2, <1>3, <1>4, <1>5, <1>6, <1>7, <1>8, StepsOf

LEMMA InitMatched == Init => Matched
<1> SUFFICES ASSUME Init PROVE Matched
  OBVIOUS
<1>1. working = integrity /\ at = "loop" /\ op.call = "none" /\ calls = <<>>
  BY DEF Init, HandlerInit, NoOp
<1> QED
  BY <1>1 DEF Matched, CopiesMatch, Alike, Decided, Same, ToBeSynced

-----------------------------------------------------------------------------
\* What a tag counts as done is done: the handler, but for its writes.

LEMMA MarkIsOfOne ==
  ASSUME OneProduct, NoMark, NEW t \in Tags, NEW i, HasMark(tags[t].steps, i)
  PROVE  Travels /\ \A u \in Tags : u = t
BY DEF OneProduct, NoMark

LEMMA NotReplaced ==
  ASSUME op.call # "Sync" \/ op.phase # "write" \/ panicked
  PROVE  \A t, i : ~BeingReplaced(t, i)
BY DEF BeingReplaced

LEMMA StillEarned ==
  ASSUME TagsEarned, UNCHANGED <<tags, orders, made>>, \A t, i : ~BeingReplaced(t, i)
  PROVE  TagsEarned'
<1> SUFFICES ASSUME NEW t \in Tags
             PROVE  /\ Earned(tags[t].info, t)'
                    /\ \A i \in tags'[t].info.actual + 1 .. tags'[t].info.steps :
                         HasMark(tags'[t].steps, i) =>
                           i = tags'[t].info.actual + 1 /\ OrderedFor(tags[t].info, t)'
  BY DEF TagsEarned, HasMark
<1>1. Earned(tags[t].info, t)'
  BY DEF TagsEarned, Earned
<1>2. ASSUME NEW i \in tags'[t].info.actual + 1 .. tags'[t].info.steps,
             HasMark(tags'[t].steps, i)
      PROVE  i = tags'[t].info.actual + 1 /\ OrderedFor(tags[t].info, t)'
  <2>1. i = tags[t].info.actual + 1 /\ OrderedFor(tags[t].info, t)
    BY <1>2 DEF TagsEarned
  <2> QED
    BY <2>1 DEF OrderedFor, IsFor
<1> QED
  BY <1>1, <1>2

\* What the reader goes on to do is told by calls and op.
LEMMA StillDue ==
  ASSUME Continues, UNCHANGED <<tags, onReader, made>>,
         working'.info.batch = working.info.batch, working'.info.steps = working.info.steps,
         working'.info.actual = working.info.actual
  PROVE  Continues'
BY DEF Continues, Earned, TagInfo

LEMMA StartCallEarns ==
  ASSUME Named, Known, Owing, Dues', Earning, StartCall, UNCHANGED <<at, gate, orders, made>>
  PROVE  Earning'
<1> USE DEF Known, Earning
<1>1. /\ op = NoOp /\ calls # <<>> /\ UNCHANGED <<tags, onReader, working, dirty>>
      /\ op.call = "none" /\ op.call \notin Writes
  BY DEF StartCall, StartLoad, StartWriteSafeInfo, StartWriteSafeStep, StartSync, cards,
     NoOp, Writes
<1>2. TagsEarned' /\ NoMark'
  BY <1>1, NotReplaced, StillEarned DEF NoMark
<1>3. PollOrdered'
  BY <1>1 DEF PollOrdered, OrderedFor, IsFor
<1>4. CopyMarked'
  <2>1. \A i : Pending(i) => Pending(i)'
    <3>1. \A i : Pending(i) => IsDirty(i)'
      BY <1>1 DEF Pending, IsDirty
    <3> QED
      BY <3>1 DEF Dues
  <2>2. \A i : HasMark(integrity'.steps, i) => HasMark(integrity.steps, i)
    <3>1. CASE integrity'.steps = integrity.steps
      BY <3>1
    <3>2. CASE StartWriteSafeStep
      <4> DEFINE j == working.info.actual + 1
      <4>1. integrity' = [integrity EXCEPT !.steps[j] = working.steps[j]]
        BY <3>2 DEF StartWriteSafeStep
      <4>2. calls = StepThenSync
        BY <1>1, <3>2, CallOf DEF StartWriteSafeStep
      <4>3. at = "gate"
        BY <4>2 DEF Kept, KeptHere, InPlace
      <4>4. ToWrite /\ Marked
        <5>1. Marked /\ OnItsWay
          BY <4>3 DEF Carried, AtGate
        <5>2. calls \notin {<<>>, <<"Sync">>}
          BY <4>2, CallsDiffer
        <5> QED
          BY <5>1, <5>2 DEF OnItsWay, BeingWritten, ToSync, Syncing, Synced
      <4>5. working.steps[j].reserved # ME
        BY <4>3, <4>4 DEF ToWrite, Marked, GateStep, IsMarked, Named, GateElsewhere
      <4>6. integrity'.steps = [integrity.steps EXCEPT ![j] = working.steps[j]]
        BY <4>1 DEF Arrays, IsCopy
      <4> HIDE DEF j
      <4> QED
        BY <4>5, <4>6 DEF HasMark
    <3>3. CASE StartWriteSafeInfo
      BY <3>1, <3>3 DEF StartWriteSafeInfo, Arrays, IsCopy
    <3> QED
      BY <3>1, <3>2, <3>3 DEF StartCall, StartLoad, StartSync, cards
  <2> QED
    BY <1>1, <2>1, <2>2 DEF CopyMarked
<1>5. Due'
  <2> SUFFICES ASSUME ToBeWritten' PROVE Fresh' \/ Continues'
    BY DEF Due
  <2>1. CASE StartLoad
    <3>1. calls = <<"LoadData">> /\ op'.call = "LoadData"
      BY <1>1, <2>1, CallOf DEF StartLoad, LoadData
    <3>2. calls' = <<>>
      BY <3>1, CallsDiffer DEF StartCall
    <3> QED
      BY <3>1, <3>2, CallsDiffer DEF ToBeWritten, Writes
  <2>2. ASSUME ~StartLoad PROVE Fresh \/ Continues
    <3>1. calls \in {InfoThenSync, StepThenSync, <<"Sync">>}
      BY <1>1, <2>2, CallOf DEF StartCall, StartWriteSafeInfo, StartWriteSafeStep, StartSync
    <3> QED
      BY <3>1 DEF Due, ToBeWritten
  <2>3. CASE Continues
    BY <1>1, <2>3, StillDue
  <2>4. CASE Fresh
    <3>1. calls = <<"Sync">> /\ \A i \in 1 .. working.info.steps : IsDirty(i)
      BY <1>1, <2>4 DEF Fresh, ToBeSynced
    <3>2. StartSync
      <4>1. Head(calls) = "Sync"
        BY <3>1, CallsDiffer
      <4> QED
        BY <4>1 DEF StartCall, StartLoad, StartWriteSafeInfo, StartWriteSafeStep
    <3>3. PICK n \in Nat : dirty \in [1 .. n -> BOOLEAN]
      BY DEF Arrays, Marks
    <3> DEFINE k == working.info.steps
    <3>4. k \in 0 .. n /\ \A i \in 1 .. n : dirty[i] <=> i <= k
      <4>1. k \in Nat
        BY DEF Arrays, IsCopy, Counts
      <4>2. k > 0 => k \in 1 .. k /\ IsDirty(k)
        BY <3>1, <4>1
      <4>3. k <= n
        BY <3>3, <4>1, <4>2 DEF IsDirty
      <4>4. \A i \in 1 .. n : dirty[i] => i <= k
        BY <3>3 DEF Owing, Dues
      <4>5. \A i \in 1 .. n : i <= k => dirty[i]
        BY <3>1, <4>1 DEF IsDirty
      <4> QED
        BY <4>1, <4>3, <4>4, <4>5
    <3>5. Runs(dirty) = {[from |-> 0, to |-> k]}
      BY <3>3, <3>4, OneRun
    <3> DEFINE run == FirstOf(Runs(dirty))
    <3>6. run = [from |-> 0, to |-> k] /\ Runs(dirty) \ {run} = {}
      <4>1. run \in Runs(dirty)
        BY <3>3, RunsFit
      <4> QED
        BY <3>5, <4>1
    <3>7. op' = Writing("Sync", IF TRUE \in {dirty[i] : i \in DOMAIN dirty} THEN "sum"
                                ELSE "compare", run, Runs(dirty) \ {run}, NoOp)
      BY <3>2 DEF StartSync
    <3> HIDE DEF run
    <3>8. /\ op'.call = "Sync" /\ op'.left = {} /\ op'.run = [from |-> 0, to |-> k]
          /\ op'.phase # "head"
      BY <3>6, <3>7 DEF Writing
    <3> QED
      BY <1>1, <2>4, <3>8 DEF Fresh, HasMark
  <2> QED
    BY <2>1, <2>2, <2>3, <2>4
<1> QED
  BY <1>2, <1>3, <1>4, <1>5

LEMMA LoadEarns ==
  ASSUME OneProduct, Known, Owing, Earning, LoadLeaves, op.call = "LoadData",
         UNCHANGED <<at, orders, made>>
  PROVE  Earning'
<1> USE DEF Known, Earning
<1>1. /\ UNCHANGED <<tags, onReader, calls>> /\ onReader \in Tags
      /\ op' = NoOp \/ op'.call = "LoadData"
  BY DEF LoadLeaves
<1>2. op # NoOp /\ calls \in {<<>>, <<"LoadData">>} /\ at # "poll"
  BY DEF Kept, KeptHere, InPlace, NoOp, Waits
<1>3. TagsEarned' /\ NoMark'
  BY <1>1, NotReplaced, StillEarned DEF NoMark
<1>4. Due' /\ PollOrdered'
  <2>1. op'.call \notin Writes
    BY <1>1 DEF NoOp, Writes
  <2> QED
    BY <1>1, <1>2, <2>1, CallsDiffer DEF Due, ToBeWritten, PollOrdered
<1>5. CopyMarked'
  <2>1. \A i : ~Pending(i)
    BY IdleIsNotWritten, CleanAtRest DEF Owing, Pending
  <2>2. \A i : HasMark(tags[onReader].steps, i) => \A t \in Tags : HasMark(tags[t].steps, i)
    BY <1>1, MarkIsOfOne
  <2>3. \A i : HasMark(working.steps, i) => \A t \in Tags : HasMark(tags[t].steps, i)
    BY DEF CopyMarked
  <2>4. \A i : HasMark(integrity.steps, i) => \A t \in Tags : HasMark(tags[t].steps, i)
    BY <2>1 DEF CopyMarked
  <2>5. \A i : /\ HasMark(working'.steps, i) =>
                    HasMark(working.steps, i) \/ HasMark(tags[onReader].steps, i)
               /\ HasMark(integrity'.steps, i) =>
                    HasMark(integrity.steps, i) \/ HasMark(tags[onReader].steps, i)
    BY DEF LoadLeaves
  <2> QED
    BY <1>1, <2>2, <2>3, <2>4, <2>5 DEF CopyMarked
<1> QED
  BY <1>3, <1>4, <1>5

-----------------------------------------------------------------------------
\* The end of a call that writes.

LEMMA SyncRunEarns ==
  ASSUME Known, Owing, Earning, SyncRunWritten, op.phase = "verify", op # NoOp,
         UNCHANGED <<at, orders, made>>
  PROVE  Earning'
<1> USE DEF Known, Earning
<1>1. /\ op.call = "Sync" /\ UNCHANGED <<tags, onReader, working, calls>>
      /\ integrity' = Written
  BY DEF SyncRunWritten
<1>2. op' = IF op.left = {} THEN NoOp
            ELSE Writing("Sync", "sum", FirstOf(op.left), op.left \ {FirstOf(op.left)}, NoOp)
  BY Zenon DEF SyncRunWritten, Return
<1>3. at \notin {"loaded", "poll"} /\ calls = <<>>
  BY <1>1, WriteIsKnown DEF Writes
<1>4. TagsEarned' /\ NoMark' /\ PollOrdered'
  BY <1>1, <1>3, NotReplaced, StillEarned DEF NoMark, PollOrdered
<1>5. op.left # {} => op'.call = "Sync" /\ RunsDue' = op.left
  <2>1. ASSUME op.left # {} PROVE op'.call = "Sync" /\ RunsDue' = op.left
    <3>1. op.left \in SUBSET Ranges
      BY <1>1 DEF Carried, OpShape, LoadShape, WriteShape
    <3>2. FirstOf(op.left) \in op.left
      BY <2>1, <3>1, FirstRange
    <3> QED
      BY <1>2, <2>1, <3>2 DEF Writing, RunsDue
  <2> QED
    BY <2>1
<1>6. Due'
  <2>1. CASE op.left = {}
    <3>1. op'.call = "none"
      BY <1>2, <2>1 DEF NoOp
    <3> QED
      BY <1>1, <1>3, <3>1, CallsDiffer DEF Due, ToBeWritten, Writes
  <2>2. CASE op.left # {}
    <3>1. Continues
      BY <1>1, <2>2 DEF Due, ToBeWritten, Writes, Fresh, ToBeSynced
    <3>2. Continues'
      BY <1>1, <3>1, StillDue
    <3> QED
      BY <3>2 DEF Due
  <2> QED
    BY <2>1, <2>2
<1>7. CopyMarked'
  <2> SUFFICES ASSUME NEW i, HasMark(integrity'.steps, i)
               PROVE  (\A t \in Tags : HasMark(tags[t].steps, i)) \/ Pending(i)'
    BY <1>1 DEF CopyMarked
  <2> DEFINE known == [integrity EXCEPT !.known = TRUE]
             sized == ChangeRecipeStepsSize(known, working.info.steps)
             first == IF op.run.from # 0 THEN integrity ELSE [sized EXCEPT !.info = working.info]
  <2>1. /\ IsCopy(known) /\ CopyFits(known) /\ known.steps = integrity.steps
        /\ IsCopy(integrity) /\ CopyFits(integrity) /\ CopyFits(working)
        /\ working.info.steps \in Nat
    BY CopyChanged, CopyPut DEF Arrays, IsCopy, Counts, Carried, CopiesFit
  <2>2. IsCopy(sized) /\ \A j : HasMark(sized.steps, j) => HasMark(integrity.steps, j)
    <3>1. IsCopy(sized)
      BY <2>1, SizeChanged
    <3>2. \A j : HasMark(sized.steps, j) => HasMark(known.steps, j)
      BY <2>1, SizedMarks
    <3> QED
      BY <2>1, <3>1, <3>2
  <2> HIDE DEF known, sized
  <2>3. IsCopy(first) /\ (HasMark(first.steps, i) => HasMark(integrity.steps, i))
    <3>1. CASE op.run.from # 0
      BY <2>1, <3>1
    <3>2. CASE op.run.from = 0
      <4>1. first.steps = sized.steps /\ IsCopy(first)
        BY <2>1, <2>2, <3>2 DEF IsCopy, Arrays
      <4> QED
        BY <2>2, <4>1
    <3> QED
      BY <3>1, <3>2
  <2>4. Written = [first EXCEPT !.steps =
          [j \in DOMAIN @ |-> IF j \in op.run.from .. op.run.to THEN working.steps[j] ELSE @[j]]]
    BY Zenon DEF Written, known, sized
  <2> HIDE DEF first
  <2>5. Written.steps = [j \in DOMAIN first.steps |->
          IF j \in op.run.from .. op.run.to THEN working.steps[j] ELSE first.steps[j]]
    BY <2>3, <2>4 DEF IsCopy
  <2>6. CASE i \in op.run.from .. op.run.to
    <3>1. working.steps[i].reserved = ME /\ i \in DOMAIN first.steps
      BY <1>1, <2>5, <2>6 DEF HasMark
    <3>2. op.run.to <= working.info.steps /\ working.info.steps <= Len(working.steps)
      BY <1>1 DEF Carried, OpBounds, Card, Writes
    <3>3. first.steps = sized.steps \/ first.steps = integrity.steps
      BY <2>1, <2>2 DEF first, IsCopy
    <3>4. CopyFits(sized) \/ first.steps = integrity.steps
      <4>1. working.info.steps \in 0 .. MaxSteps
        BY <1>1, <2>1, <3>2, ArrayOf, MaxStepsAssumption DEF CopyFits
      <4> QED
        BY <2>1, <4>1, Resized DEF sized
    <3>5. ArrayFits(first.steps)
      BY <2>1, <3>3, <3>4 DEF CopyFits
    <3>6. i \in Nat /\ i >= 1
      BY <3>1, <3>5, ArrayOf, MaxStepsAssumption
    <3>7. i \in DOMAIN working.steps
      <4>1. op.run.to \in Nat /\ op.run.from \in Nat
        BY <1>1 DEF Carried, OpShape, LoadShape, WriteShape, Ranges
      <4>2. DOMAIN working.steps = 1 .. Len(working.steps) /\ Len(working.steps) \in Nat
        BY <2>1, ArrayOf, MaxStepsAssumption DEF CopyFits
      <4> QED
        BY <2>1, <2>6, <3>2, <3>6, <4>1, <4>2
    <3> QED
      BY <3>1, <3>7 DEF HasMark, CopyMarked
  <2>7. CASE i \notin op.run.from .. op.run.to
    <3>1. HasMark(integrity.steps, i)
      BY <1>1, <2>3, <2>5, <2>7 DEF HasMark
    <3>2. CASE Pending(i)
      <4>1. \E r \in op.left : i \in r.from .. r.to
        BY <1>1, <2>7, <3>2 DEF Pending, RunsDue
      <4> QED
        BY <1>5, <4>1 DEF Pending
    <3> QED
      BY <3>1, <3>2 DEF CopyMarked
  <2> QED
    BY <2>6, <2>7
<1> QED
  BY <1>4, <1>6, <1>7

LEMMA CompareEarns ==
  ASSUME Known, Owing, Earning, Compare, op' = NoOp, UNCHANGED <<at, orders, made>>
  PROVE  Earning'
<1> USE DEF Known, Earning
<1>1. /\ op.call = "Sync" /\ op.phase = "compare" /\ UNCHANGED <<tags, onReader, cards, calls>>
      /\ op'.call = "none" /\ op # NoOp
  BY DEF Compare, Doing, NoOp
<1>2. at \notin {"loaded", "poll"} /\ calls = <<>>
  BY <1>1, WriteIsKnown DEF Writes
<1>3. TagsEarned' /\ NoMark' /\ PollOrdered'
  BY <1>1, <1>2, NotReplaced, StillEarned DEF NoMark, PollOrdered
<1>4. Due'
  BY <1>1, <1>2, CallsDiffer DEF Due, ToBeWritten, Writes
<1>5. CopyMarked'
  <2>1. \A i : Pending(i) => i = 0
    BY <1>1 DEF Owing, Dues, Pending, RunsDue
  <2>2. \A i : HasMark(integrity.steps, i) => i # 0
    BY ArrayOf, MaxStepsAssumption DEF HasMark, Carried, CopiesFit, CopyFits
  <2> QED
    BY <1>1, <2>1, <2>2 DEF CopyMarked, cards
<1> QED
  BY <1>3, <1>4, <1>5

LEMMA SafeWriteEarns ==
  ASSUME Known, Owing, Earning, SafeWriteDone, op.phase = "verify", op # NoOp,
         UNCHANGED <<at, orders, made>>
  PROVE  Earning'
<1> USE DEF Known, Earning
<1>1. /\ op.call \in {"WriteSafeInfo", "WriteSafeStep"} /\ UNCHANGED <<tags, onReader, calls>>
      /\ CopyToWorking(integrity, TRUE, op.call = "WriteSafeStep").ok
      /\ Copy(integrity, TRUE, op.call = "WriteSafeStep") /\ op' = NoOp /\ op'.call = "none"
  BY DEF SafeWriteDone, Return, NoOp
<1>2. calls = <<"Sync">> /\ at \notin {"loaded", "poll"} /\ onReader # NoTag
  BY <1>1, WriteIsKnown DEF Owing, SyncFollows, Writes
<1>3. TagsEarned' /\ NoMark' /\ PollOrdered'
  BY <1>1, <1>2, NotReplaced, StillEarned DEF NoMark, PollOrdered
<1>4. Continues /\ onReader \in Tags
  BY <1>1, <1>2 DEF Due, ToBeWritten, Writes, Fresh, ToBeSynced, Arrays, TagsFit
<1> DEFINE stepsData == op.call = "WriteSafeStep"
           copy == CopyToWorking(integrity, TRUE, stepsData)
<1>5. /\ copy.card.info = integrity.info /\ copy.dirty = Resize(dirty, integrity.info.steps)
      /\ \A i : HasMark(copy.card.steps, i) =>
                  HasMark(working.steps, i) \/ (~IsDirty(i) /\ HasMark(integrity.steps, i))
  <2>1. IsCopy(integrity) /\ CopyFits(integrity) /\ CopyFits(working) /\ KnownFits
    BY DEF Arrays, Carried, CopiesFit, Sound
  <2>2. integrity.info.steps \in 0 .. MaxSteps
    <3>1. Counted(integrity.info)
      BY <1>1, CardCounts DEF Writes
    <3> QED
      BY <3>1 DEF Counted
  <2>3. \A b, c : b \/ integrity.known =>
          LET other == CopyToWorking(integrity, b, c)
          IN /\ b => other.card.info = integrity.info
             /\ other.dirty = Resize(dirty, integrity.info.steps)
    BY <2>1, CopyCounts
  <2>4. \A b, c, i : (c => CopyToWorking(integrity, b, c).ok) =>
                     (HasMark(CopyToWorking(integrity, b, c).card.steps, i) =>
                      HasMark(working.steps, i)
                      \/ (c /\ ~IsDirty(i) /\ HasMark(integrity.steps, i)))
    BY <2>1, <2>2, CopiedMarks
  <2>5. copy.card.info = integrity.info /\ copy.dirty = Resize(dirty, integrity.info.steps)
    BY <2>3, Zenon
  <2>6. \A i : (stepsData => copy.ok) =>
          (HasMark(copy.card.steps, i) =>
             HasMark(working.steps, i) \/ (stepsData /\ ~IsDirty(i) /\ HasMark(integrity.steps, i)))
    BY <2>4, Zenon
  <2>7. stepsData => copy.ok
    BY <1>1, Zenon
  <2> HIDE DEF copy, stepsData
  <2> QED
    BY <2>5, <2>6, <2>7
<1>6. /\ integrity' = integrity /\ working' = copy.card /\ dirty' = copy.dirty
  BY <1>1, Zenon DEF Copy
<1> HIDE DEF copy
<1>7. /\ integrity.info.batch = TagInfo.batch /\ integrity.info.steps = TagInfo.steps
      /\ integrity.info.steps = working.info.steps
      /\ TagInfo.actual <= integrity.info.actual /\ Earned(integrity.info, onReader)
  <2>1. CASE op.call = "WriteSafeInfo"
    <3>1. Same(integrity.info, working.info)
      BY <2>1 DEF Kept, KeptInfos, MayBeWritten
    <3>2. /\ integrity.info.batch = working.info.batch /\ integrity.info.steps = working.info.steps
          /\ integrity.info.actual = working.info.actual
      BY <3>1, SameCounts DEF Same
    <3> QED
      BY <1>4, <3>2 DEF Continues, Earned
  <2>2. CASE op.call = "WriteSafeStep"
    <3>1. Same(integrity.info, TagInfo)
      BY <2>2 DEF Kept, KeptInfos, MayBeWritten
    <3>2. /\ integrity.info.batch = TagInfo.batch /\ integrity.info.steps = TagInfo.steps
          /\ integrity.info.actual = TagInfo.actual
      BY <3>1, SameCounts DEF Same
    <3>3. Earned(TagInfo, onReader) /\ integrity.info.actual \in Nat
      BY <1>4 DEF TagsEarned, TagInfo, Arrays, IsCopy, Counts
    <3> QED
      BY <1>4, <3>2, <3>3 DEF Continues, Earned
  <2> QED
    BY <1>1, <2>1, <2>2
<1>8. Due'
  <2>1. Continues'
    BY <1>1, <1>5, <1>6, <1>7 DEF Continues, Earned, TagInfo
  <2> QED
    BY <2>1 DEF Due
<1>9. CopyMarked'
  <2>1. \A i : Pending(i) => IsDirty(i) /\ Pending(i)'
    <3>1. \A i : Pending(i) => IsDirty(i)
      BY <1>1 DEF Pending
    <3>2. \A i : IsDirty(i) => IsDirty(i)'
      <4>1. \A i : IsDirty(i) => i \in DOMAIN dirty /\ i <= integrity.info.steps
        BY <1>7 DEF Owing, Dues, IsDirty
      <4>2. integrity.info.steps \in Nat
        BY DEF Arrays, IsCopy, Counts
      <4>3. DOMAIN dirty \subseteq Nat \ {0}
        BY DEF Arrays, Marks
      <4>4. \A i \in DOMAIN dirty \cap 1 .. integrity.info.steps : dirty[i] => copy.dirty[i]
        BY <1>5, <4>2, ResizeKeeps
      <4>5. DOMAIN copy.dirty = 1 .. integrity.info.steps
        BY <1>5 DEF Resize
      <4> QED
        BY <1>6, <4>1, <4>2, <4>3, <4>4, <4>5 DEF IsDirty
    <3> QED
      BY <1>1, <3>1, <3>2 DEF Pending
  <2>2. \A i : HasMark(working'.steps, i) => \A t \in Tags : HasMark(tags[t].steps, i)
    BY <1>5, <1>6, <2>1 DEF CopyMarked
  <2> QED
    BY <1>1, <1>6, <2>1, <2>2 DEF CopyMarked
<1> QED
  BY <1>3, <1>8, <1>9

-----------------------------------------------------------------------------
\* The accesses of a call that writes.

LEMMA FreshStays ==
  ASSUME Advances, Fresh, op.call \in Writes, panicked' = panicked
  PROVE  Fresh'
<1>1. /\ op.call = "Sync" /\ op.left = {} /\ op.run = [from |-> 0, to |-> working.info.steps]
      /\ op.phase # "head" /\ working.info.actual = 0 /\ working.info.steps > 0
  BY DEF Fresh, ToBeSynced, Writes, NoOp
<1>2. working'.info.steps = working.info.steps /\ working'.info.actual = working.info.actual
  BY SameCounts DEF Advances, Same
<1>3. op'.phase # "head" /\ op'.call = "Sync" /\ op'.left = {} /\ op'.run = op.run
  BY <1>1 DEF Advances
<1> QED
  BY <1>1, <1>2, <1>3 DEF Fresh, HasMark, Advances

LEMMA ContinuesStays ==
  ASSUME Known, Advances, Continues, made' = made,
         Same(TagInfo', TagInfo) \/ Same(TagInfo', working.info)
  PROVE  Continues'
<1>1. /\ working'.info.steps = working.info.steps /\ working'.info.actual = working.info.actual
      /\ working'.info.batch = working.info.batch /\ onReader' = onReader
  BY SameCounts DEF Advances, Same
<1>2. CASE Same(TagInfo', TagInfo)
  BY <1>1, <1>2, SameCounts DEF Continues, Earned, Same
<1>3. CASE Same(TagInfo', working.info)
  <2>1. /\ TagInfo'.steps = working.info.steps /\ TagInfo'.actual = working.info.actual
        /\ TagInfo'.batch = working.info.batch /\ working.info.actual <= working.info.actual
    BY <1>3, SameCounts DEF Same, Known, Arrays, IsCopy, Counts
  <2> QED
    BY <1>1, <2>1 DEF Continues, Earned
<1> QED
  BY <1>2, <1>3

LEMMA MarksAdvance ==
  ASSUME Advances, op.call \in Writes
  PROVE  \A i : /\ Pending(i)' <=> Pending(i)
                /\ HasMark(working'.steps, i) <=> HasMark(working.steps, i)
                /\ HasMark(integrity'.steps, i) <=> HasMark(integrity.steps, i)
BY DEF Advances, Pending, IsDirty, RunsDue, HasMark

LEMMA QuietAdvanceEarns ==
  ASSUME Known, Earning, Advances, op.call \in Writes, tags' = tags, op.phase # "write",
         Panic \/ panicked' = panicked, UNCHANGED <<at, orders, made>>
  PROVE  Earning'
<1> USE DEF Known, Earning
<1>1. TagsEarned' /\ NoMark'
  BY NotReplaced, StillEarned DEF NoMark
<1>2. PollOrdered'
  BY WriteIsKnown DEF PollOrdered, NoOp, Writes
<1>3. CopyMarked'
  BY MarksAdvance DEF CopyMarked
<1>4. Due'
  <2>1. Same(TagInfo', TagInfo)
    BY DEF TagInfo, Same, Advances
  <2>2. Fresh \/ Continues
    BY DEF Due, ToBeWritten
  <2>3. Fresh => Fresh'
    <3>1. CASE Panic
      BY <3>1 DEF Panic, cards, Fresh, ToBeSynced, HasMark, IsDirty
    <3>2. CASE panicked' = panicked
      BY <3>2, FreshStays
    <3> QED
      BY <3>1, <3>2
  <2> QED
    BY <2>1, <2>2, <2>3, ContinuesStays DEF Due
<1> QED
  BY <1>1, <1>2, <1>3, <1>4

\* A written structure marks no step, and leaves those marked that working has
\* marked.
LEMMA PutMarks ==
  ASSUME Named, Known, CopyMarked, op.call \in Writes, op.phase \in {"head", "write"},
         NEW s \in Nat, s = 0 \/ (s \in op.run.from .. op.run.to), Put(onReader, s)
  PROVE  \A t \in Tags : \A i :
           /\ HasMark(tags'[t].steps, i) => HasMark(tags[t].steps, i)
           /\ HasMark(working.steps, i) => HasMark(tags'[t].steps, i)
           /\ HasMark(integrity.steps, i) => HasMark(tags'[t].steps, i) \/ Pending(i)
<1> USE DEF Known
<1>1. op # NoOp /\ onReader \in Tags /\ op.run \in Ranges
  BY WriteIsKnown DEF NoOp, Writes, Arrays, TagsFit, Carried, OpShape, LoadShape, WriteShape
<1>2. op.run.to <= Card.info.steps /\ Card.info.steps <= Len(Card.steps)
  BY DEF Carried, OpBounds
<1>3. /\ IsCopy(Card) /\ CopyFits(Card) /\ Card.info.steps \in Nat /\ Len(Card.steps) \in Nat
      /\ DOMAIN Card.steps = 1 .. Len(Card.steps) /\ op.run.to \in Nat /\ op.run.from \in Nat
  BY <1>1, ArrayOf, MaxStepsAssumption
     DEF Card, Arrays, IsCopy, Counts, Carried, CopiesFit, CopyFits, Ranges
<1>4. s <= Card.info.steps
  BY <1>1, <1>2, <1>3 DEF Ranges
<1>5. /\ \A t \in Tags : TagFits(tags'[t]) /\ TagFits(tags[t])
      /\ \A i \in 1 .. MaxSteps \ {s} : tags'[onReader].steps[i] = tags[onReader].steps[i]
      /\ s # 0 => tags'[onReader].steps[s] = Card.steps[s]
  BY <1>1, <1>2, <1>4, PutCarried DEF Carried, CopiesFit
<1>6. \A t \in Tags : /\ DOMAIN tags'[t].steps = 1 .. MaxSteps
                      /\ DOMAIN tags[t].steps = 1 .. MaxSteps
  BY <1>5 DEF TagFits
<1>7. \A t \in Tags : t # onReader => tags'[t] = tags[t]
  BY DEF Put, Arrays, TagsFit
<1> SUFFICES ASSUME NEW t \in Tags, NEW i
             PROVE  /\ HasMark(tags'[t].steps, i) => HasMark(tags[t].steps, i)
                    /\ HasMark(working.steps, i) => HasMark(tags'[t].steps, i)
                    /\ HasMark(integrity.steps, i) => HasMark(tags'[t].steps, i) \/ Pending(i)
  OBVIOUS
<1>8. /\ HasMark(working.steps, i) => HasMark(tags[t].steps, i)
      /\ HasMark(integrity.steps, i) => HasMark(tags[t].steps, i) \/ Pending(i)
  BY DEF CopyMarked
<1>9. CASE t # onReader \/ i # s \/ s = 0
  <2>1. HasMark(tags'[t].steps, i) <=> HasMark(tags[t].steps, i)
    <3>1. CASE t # onReader
      BY <1>7, <3>1
    <3>2. CASE t = onReader
      <4>1. i \in 1 .. MaxSteps => tags'[t].steps[i] = tags[t].steps[i]
        BY <1>5, <1>9, <3>2
      <4> QED
        BY <1>6, <4>1 DEF HasMark
    <3> QED
      BY <3>1, <3>2
  <2> QED
    BY <1>8, <2>1
<1>10. CASE t = onReader /\ i = s /\ s # 0
  <2>1. s \in op.run.from .. op.run.to /\ s \in 1 .. Len(Card.steps) /\ s \in 1 .. MaxSteps
    <3>1. Len(Card.steps) <= MaxSteps
      BY <1>3, ArrayOf, MaxStepsAssumption DEF CopyFits
    <3> QED
      BY <1>2, <1>3, <1>4, <1>10, <3>1, MaxStepsAssumption
  <2>2. HasMark(tags'[t].steps, i) <=> Card.steps[s].reserved = ME
    BY <1>5, <1>6, <1>10, <2>1 DEF HasMark
  <2>3. CASE op.call = "Sync"
    <3>1. HasMark(working.steps, i) <=> Card.steps[s].reserved = ME
      BY <1>3, <1>10, <2>1, <2>3 DEF HasMark, Card
    <3>2. Pending(i)
      BY <1>10, <2>1, <2>3 DEF Pending, RunsDue
    <3> QED
      BY <1>8, <2>2, <3>1, <3>2
  <2>4. CASE op.call = "WriteSafeInfo"
    <3>1. op.run = [from |-> 0, to |-> 0]
      BY <2>4 DEF Kept, KeptHere, InfoWritten
    <3> QED
      BY <1>10, <2>1, <3>1
  <2>5. CASE op.call = "WriteSafeStep"
    <3>1. at = "gate" /\ Marked /\ BeingWritten
      <4>1. at = "gate"
        BY <2>5 DEF Carried, OpBounds
      <4>2. BeingWritten \/ Syncing
        BY <1>1, <4>1, WriteUnderWay
      <4> QED
        BY <2>5, <4>1, <4>2 DEF Syncing, Carried, AtGate
    <3>2. s = GateStep
      BY <2>1, <3>1 DEF BeingWritten, Marked, GateStep
    <3>3. working.steps[s].reserved # ME /\ integrity.steps[s].reserved # ME
      BY <3>1, <3>2 DEF BeingWritten, Marked, IsMarked, Named, GateElsewhere
    <3>4. Card = integrity
      BY <2>5 DEF Card
    <3> QED
      BY <1>10, <2>2, <3>3, <3>4 DEF HasMark
  <2> QED
    BY <2>3, <2>4, <2>5 DEF Writes
<1> QED
  BY <1>9, <1>10

-----------------------------------------------------------------------------
\* The first structure of a new recipe tells that no step is done yet, and the
\* last one takes the last mark of the old recipe away.
PutNext(s) ==
  /\ Put(onReader, s) /\ s \in Nat
  /\ s = 0 \/ s \in op.run.from .. op.run.to
  /\ \/ op.phase = "head" /\ s = 0
     \/ /\ op.phase = "write" /\ s = op.next /\ s \in op.run.from .. op.run.to
        /\ op' = IF s = op.run.to THEN [op EXCEPT !.phase = "verify"]
                 ELSE [op EXCEPT !.next = @ + 1]
  /\ UNCHANGED <<working, integrity, panicked>> /\ ~panicked

LEMMA PutIsOfRecipe ==
  ASSUME Known, op.call \in Writes, Bides, NEW s, PutNext(s)
  PROVE  /\ TagInfo' = IF s = 0 THEN Card.info ELSE TagInfo
         /\ Same(TagInfo', TagInfo) \/ Same(TagInfo', working.info)
         /\ op.call = "Sync" => Card = working
         /\ onReader \in Tags /\ \A t \in Tags : t # onReader => tags'[t] = tags[t]
<1> USE DEF Known
<1>1. op # NoOp /\ onReader # NoTag /\ MayWrite(Card.info) /\ onReader \in Tags
  BY WriteIsKnown DEF NoOp, Writes, Arrays, TagsFit
<1>2. TagInfo' = IF s = 0 THEN Card.info ELSE TagInfo
  BY <1>1, PutKeepsRecipe DEF PutNext
<1>3. Same(Card.info, TagInfo) \/ Same(Card.info, working.info)
  <2>1. CASE op.call = "WriteSafeInfo" \/ op.call = "WriteSafeStep"
    BY <2>1 DEF Card, Kept, KeptInfos, MayBeWritten
  <2>2. CASE op.call = "Sync"
    BY <2>2, CopiesSame DEF Card
  <2> QED
    BY <2>1, <2>2 DEF Writes
<1>4. Same(TagInfo, TagInfo)
  BY DEF Same
<1>5. \A t \in Tags : t # onReader => tags'[t] = tags[t]
  BY DEF PutNext, Put, Arrays, TagsFit
<1> QED
  BY <1>1, <1>2, <1>3, <1>4, <1>5 DEF Card

LEMMA PutEarned ==
  ASSUME Named, Known, Owing, Earning, Advances, op.call \in Writes, Bides,
         NEW s, PutNext(s), UNCHANGED <<orders, made>>
  PROVE  TagsEarned'
<1> USE DEF Known, Earning
<1>1. /\ TagInfo' = IF s = 0 THEN Card.info ELSE TagInfo
      /\ Same(TagInfo', TagInfo) \/ Same(TagInfo', working.info)
      /\ op.call = "Sync" => Card = working
      /\ onReader \in Tags /\ \A t \in Tags : t # onReader => tags'[t] = tags[t]
      /\ onReader' = onReader /\ s \in Nat
  BY PutIsOfRecipe DEF Bides, PutNext
<1>2. \A t \in Tags : \A i : HasMark(tags'[t].steps, i) => HasMark(tags[t].steps, i)
  <2>1. \A t \in Tags : \A i :
           /\ HasMark(tags'[t].steps, i) => HasMark(tags[t].steps, i)
           /\ HasMark(working.steps, i) => HasMark(tags'[t].steps, i)
           /\ HasMark(integrity.steps, i) => HasMark(tags'[t].steps, i) \/ Pending(i)
    <3>1. op.phase \in {"head", "write"} /\ s \in Nat
      BY DEF PutNext
    <3> QED
      BY <3>1, PutMarks DEF PutNext
  <2> QED
    BY <2>1
<1> DEFINE Fine(t) == /\ Earned(tags[t].info, t)'
                      /\ \A i \in tags'[t].info.actual + 1 .. tags'[t].info.steps :
                           HasMark(tags'[t].steps, i) =>
                             \/ i = tags'[t].info.actual + 1 /\ OrderedFor(tags[t].info, t)'
                             \/ BeingReplaced(t, i)'
<1>3. ASSUME NEW t \in Tags, t # onReader PROVE Fine(t)
  <2>1. tags'[t] = tags[t] /\ \A i : ~BeingReplaced(t, i)
    BY <1>1, <1>3 DEF BeingReplaced
  <2>2. Earned(tags[t].info, t)'
    BY <2>1 DEF TagsEarned, Earned
  <2>3. ASSUME NEW i \in tags'[t].info.actual + 1 .. tags'[t].info.steps, HasMark(tags'[t].steps, i)
        PROVE  i = tags'[t].info.actual + 1 /\ OrderedFor(tags[t].info, t)'
    <3>1. i = tags[t].info.actual + 1 /\ OrderedFor(tags[t].info, t)
      BY <2>1, <2>3 DEF TagsEarned
    <3> QED
      BY <2>1, <3>1 DEF OrderedFor, IsFor
  <2> QED
    BY <2>2, <2>3
<1> DEFINE t == onReader
<1>4. /\ Earned(TagInfo, t) /\ IsCopy(tags[t])
      /\ \A i \in TagInfo.actual + 1 .. TagInfo.steps :
           HasMark(tags[t].steps, i) =>
             \/ i = TagInfo.actual + 1 /\ OrderedFor(TagInfo, t)
             \/ BeingReplaced(t, i)
  BY <1>1 DEF TagsEarned, TagInfo, Arrays, TagsFit
<1>5. TagInfo.actual \in Nat /\ TagInfo.steps \in Nat /\ TagInfo' = tags'[t].info
  BY <1>1, <1>4 DEF TagInfo, IsCopy, Counts
<1>6. CASE ~Fresh
  <2>1. Continues /\ \A i : ~BeingReplaced(t, i)
    BY <1>6 DEF Due, ToBeWritten, BeingReplaced
  <2>2. /\ TagInfo'.steps = TagInfo.steps /\ TagInfo'.batch = TagInfo.batch
        /\ TagInfo'.actual \in {TagInfo.actual, working.info.actual} /\ TagInfo'.actual \in Nat
        /\ TagInfo.actual <= TagInfo'.actual
    <3>1. CASE Same(TagInfo', TagInfo)
      BY <1>5, <3>1, SameCounts DEF Same
    <3>2. CASE Same(TagInfo', working.info)
      <4>1. working.info.actual \in Nat
        BY DEF Arrays, IsCopy, Counts
      <4> QED
        BY <2>1, <3>2, <4>1, SameCounts DEF Same, Continues
    <3> QED
      BY <1>1, <3>1, <3>2
  <2>3. Earned(tags[t].info, t)'
    <3>1. Earned(TagInfo', t)
      BY <1>4, <2>1, <2>2 DEF Earned, Continues
    <3> QED
      BY <1>1, <1>5, <3>1 DEF Earned
  <2>4. ASSUME NEW i \in tags'[t].info.actual + 1 .. tags'[t].info.steps, HasMark(tags'[t].steps, i)
        PROVE  i = tags'[t].info.actual + 1 /\ OrderedFor(tags[t].info, t)'
    <3>1. i \in TagInfo.actual + 1 .. TagInfo.steps /\ HasMark(tags[t].steps, i)
      BY <1>1, <1>2, <1>5, <2>2, <2>4
    <3>2. i = TagInfo.actual + 1 /\ OrderedFor(TagInfo, t)
      BY <1>4, <2>1, <3>1
    <3>3. TagInfo'.actual = TagInfo.actual
      BY <1>5, <2>2, <2>4, <3>2
    <3>4. OrderedFor(TagInfo', t)
      BY <2>2, <3>2, <3>3 DEF OrderedFor, IsFor
    <3> QED
      BY <1>1, <1>5, <3>2, <3>3, <3>4 DEF OrderedFor, IsFor
  <2> QED
    BY <1>1, <1>3, <2>3, <2>4 DEF TagsEarned
<1>7. CASE Fresh
  <2> DEFINE k == working.info.steps
  <2>1. /\ op.call = "Sync" /\ op.left = {} /\ op.run = [from |-> 0, to |-> k] /\ op.phase = "write"
        /\ working.info.actual = 0 /\ k > 0 /\ \A i : ~HasMark(working.steps, i)
    BY <1>7 DEF Fresh, ToBeSynced, PutNext, Writes, NoOp
  <2>2. /\ s = op.next /\ s \in 0 .. k
        /\ op' = IF s = k THEN [op EXCEPT !.phase = "verify"] ELSE [op EXCEPT !.next = @ + 1]
    BY <2>1 DEF PutNext
  <2>3. Fresh' /\ k \in Nat
    BY <1>7, FreshStays DEF PutNext, Arrays, IsCopy, Counts
  <2>4. ASSUME NEW i, i >= s + 1, s # k PROVE BeingReplaced(t, i)'
    <3>1. op'.call = "Sync" /\ op'.phase = "write" /\ op'.next = s + 1
      <4>1. DOMAIN op = WriteFields
        BY <2>1, WriteIsKnown DEF NoOp, Writes
      <4>2. op' = [op EXCEPT !.next = @ + 1]
        BY <2>2, <2>4
      <4> QED
        BY <2>1, <2>2, <4>1, <4>2 DEF WriteFields
    <3> QED
      BY <1>1, <2>3, <2>4, <3>1 DEF BeingReplaced, PutNext
  <2>5. CASE s = 0
    <3>1. TagInfo'.actual = 0
      BY <1>1, <2>1, <2>5
    <3>2. Earned(tags[t].info, t)'
      BY <1>1, <1>5, <3>1 DEF Earned
    <3>3. ASSUME NEW i \in tags'[t].info.actual + 1 .. tags'[t].info.steps
          PROVE BeingReplaced(t, i)'
      BY <1>1, <1>5, <2>1, <2>4, <2>5, <3>1
    <3> QED
      BY <1>1, <1>3, <3>2, <3>3 DEF TagsEarned
  <2>6. CASE s # 0
    <3>1. TagInfo' = TagInfo
      BY <1>1, <2>6
    <3>2. Earned(tags[t].info, t)'
      BY <1>1, <1>4, <1>5, <3>1 DEF Earned
    <3>3. ASSUME NEW i \in tags'[t].info.actual + 1 .. tags'[t].info.steps,
                 HasMark(tags'[t].steps, i)
          PROVE  \/ i = tags'[t].info.actual + 1 /\ OrderedFor(tags[t].info, t)'
                 \/ BeingReplaced(t, i)'
      <4>1. \/ i = TagInfo.actual + 1 /\ OrderedFor(TagInfo, t)
            \/ BeingReplaced(t, i)
        BY <1>1, <1>2, <1>4, <1>5, <3>1, <3>3
      <4>2. CASE OrderedFor(TagInfo, t) /\ i = TagInfo.actual + 1
        BY <1>1, <1>5, <3>1, <4>2 DEF OrderedFor, IsFor
      <4>3. CASE BeingReplaced(t, i)
        <5>1. i >= s
          BY <2>2, <4>3 DEF BeingReplaced
        <5>2. i # s
          <6>1. op.run.to <= Card.info.steps /\ Card.info.steps <= Len(Card.steps)
            BY <2>1 DEF Carried, OpBounds, Writes
          <6>2. s <= Card.info.steps /\ DOMAIN Card.steps = 1 .. Len(Card.steps)
                /\ Len(Card.steps) \in Nat /\ Card.info.steps \in Nat
            BY <1>1, <2>1, <2>2, <2>3, ArrayOf, MaxStepsAssumption DEF Carried, CopiesFit, CopyFits
          <6>3. tags'[t].steps[s] = working.steps[s]
            BY <1>1, <2>1, <2>6, <6>1, <6>2, PutCarried DEF PutNext
          <6>4. s \in DOMAIN working.steps
            BY <1>1, <2>1, <2>2, <2>3, <2>6, <6>1, <6>2
          <6> QED
            BY <2>1, <3>3, <6>3, <6>4 DEF HasMark
        <5>3. s # k
          <6>1. OnTag(0)
            <7>1. Transferred
              BY <2>1 DEF Owing, Transfers
            <7>2. 0 \in op.run.from .. op.next - 1
              BY <1>1, <2>1, <2>2, <2>6
            <7> QED
              BY <2>1, <7>1, <7>2 DEF Transferred
          <6>2. TagInfo.steps = k
            BY <1>1, <2>1, <6>1 DEF OnTag, AllBytes, Bytes, TagInfo
          <6> QED
            BY <1>1, <1>5, <2>3, <3>1, <3>3, <5>1, <5>2, <6>2
        <5> QED
          BY <1>1, <1>5, <2>4, <3>3, <5>1, <5>2, <5>3
      <4> QED
        BY <4>1, <4>2, <4>3
    <3> QED
      BY <1>1, <1>3, <3>2, <3>3 DEF TagsEarned
  <2> QED
    BY <2>5, <2>6
<1> QED
  BY <1>6, <1>7

LEMMA PutEarns ==
  ASSUME Named, Known, Owing, Earning, Advances, op.call \in Writes, Bides,
         NEW s, PutNext(s), UNCHANGED <<orders, made>>
  PROVE  Earning'
<1> USE DEF Known, Earning
<1>1. TagsEarned'
  BY PutEarned
<1>2. PollOrdered'
  BY WriteIsKnown DEF PollOrdered, NoOp, Writes, Bides
<1>3. \A t \in Tags : \A i :
         /\ HasMark(tags'[t].steps, i) => HasMark(tags[t].steps, i)
         /\ HasMark(working.steps, i) => HasMark(tags'[t].steps, i)
         /\ HasMark(integrity.steps, i) => HasMark(tags'[t].steps, i) \/ Pending(i)
  <2>1. op.phase \in {"head", "write"} /\ s \in Nat
    BY DEF PutNext
  <2> QED
    BY <2>1, PutMarks DEF PutNext
<1>4. NoMark'
  BY <1>3 DEF NoMark
<1>5. CopyMarked'
  BY <1>3, MarksAdvance DEF CopyMarked
<1>6. Due'
  <2>1. Same(TagInfo', TagInfo) \/ Same(TagInfo', working.info)
    BY PutIsOfRecipe
  <2>2. Fresh \/ Continues
    BY DEF Due, ToBeWritten
  <2> QED
    BY <2>1, <2>2, FreshStays, ContinuesStays DEF Due, PutNext
<1> QED
  BY <1>1, <1>2, <1>4, <1>5, <1>6

-----------------------------------------------------------------------------
LEMMA WriteEarns ==
  ASSUME Named, Known, Owing, Earning, HandlerStep, op.call \in Writes, Bides,
         UNCHANGED <<orders, made>>
  PROVE  Earning'
<1>1. op # NoOp /\ onReader # NoTag /\ at' = at
  BY WriteIsKnown DEF Known, NoOp, Writes, Bides
<1>2. CASE Advances
  <2>1. CASE WriteHead
    <3>1. PutNext(0)
      BY <1>1, <2>1 DEF WriteHead, AtTag, PutNext, cards
    <3> QED
      BY <1>2, <3>1, PutEarns
  <2>2. CASE WriteStructure
    <3>1. op.phase = "write"
      BY <2>2 DEF WriteStructure, AtTag
    <3>2. op.next \in op.run.from .. op.run.to /\ op.run \in Ranges
      BY <1>1, <3>1 DEF Known, Carried, OpBounds, OpShape, LoadShape, WriteShape, Writes
    <3>3. op.next \in Nat
      BY <3>2 DEF Ranges
    <3>4. PutNext(op.next)
      BY <1>1, <2>2, <3>1, <3>2, <3>3 DEF WriteStructure, AtTag, PutNext, cards
    <3> QED
      BY <1>2, <3>4, PutEarns
  <2>3. CASE ~WriteHead /\ ~WriteStructure
    <3>1. ~OutOfRange /\ ~AccessLost
      BY NoneGivesUp
    <3>2. op.phase \notin {"info", "steps"}
      BY <1>1, WriteIsKnown DEF Known
    <3>3. CASE Sum \/ Select \/ Compare
      <4>1. tags' = tags /\ op.phase # "write" /\ panicked' = panicked
        BY <3>3 DEF Sum, Select, Compare, AtTag, Doing
      <4> QED
        BY <1>1, <1>2, <4>1, QuietAdvanceEarns
    <3>4. CASE MissingArray
      <4>1. tags' = tags /\ op.phase # "write" /\ Panic
        BY <3>4 DEF MissingArray, Panic
      <4> QED
        BY <1>1, <1>2, <4>1, QuietAdvanceEarns
    <3>5. CASE Verify
      <4>1. tags' = tags /\ op.phase # "write" /\ panicked' = panicked
        <5>1. SyncRunWritten \/ SafeWriteDone
          BY <3>5, VerifySucceeds
        <5> QED
          BY <3>5, <5>1 DEF Verify, AtTag, SyncRunWritten, SafeWriteDone
      <4> QED
        BY <1>1, <1>2, <4>1, QuietAdvanceEarns
    <3> QED
      BY <1>1, <2>3, <3>1, <3>2, <3>3, <3>4, <3>5 DEF HandlerStep, StartCall, LoadFails, LoadInfo,
         LoadSteps, MissingArrayAtStart, Doing
  <2> QED
    BY <2>1, <2>2, <2>3
<1>3. CASE Compare /\ op' = NoOp
  BY <1>1, <1>3, CompareEarns
<1>4. CASE SyncRunWritten /\ op.phase = "verify"
  BY <1>1, <1>4, SyncRunEarns
<1>5. CASE SafeWriteDone /\ op.phase = "verify"
  BY <1>1, <1>5, SafeWriteEarns
<1> QED
  BY <1>2, <1>3, <1>4, <1>5, WriteSteps

LEMMA HandlerEarns ==
  ASSUME OneProduct, Named, Known, Owing, Matched, Dues', Earning, HandlerWorks
  PROVE  Earning'
<1>1. HandlerStep /\ UNCHANGED <<at, gate, orders, made>> /\ UNCHANGED <<raf, at, cardOnReader>>
  BY DEF HandlerWorks, plcVars
<1>2. CASE op = NoOp
  <2>1. CASE StartCall
    BY <1>1, <2>1, StartCallEarns
  <2>2. CASE MissingArrayAtStart
    <3>1. UNCHANGED <<tags, onReader, cards, calls, op>>
      BY <2>2 DEF MissingArrayAtStart, Panic
    <3>2. op.call = "none"
      BY <1>2 DEF NoOp
    <3>3. TagsEarned'
      BY <1>1, <3>1, <3>2, NotReplaced, StillEarned DEF Earning
    <3>4. Due'
      BY <1>1, <3>1 DEF Earning, Due, ToBeWritten, Fresh, Continues, ToBeSynced, HasMark, IsDirty,
         Earned, TagInfo, cards
    <3>5. CopyMarked' /\ NoMark' /\ PollOrdered'
      BY <1>1, <3>1, <3>2 DEF Earning, CopyMarked, NoMark, PollOrdered, OrderedFor, IsFor, Pending,
         HasMark, IsDirty, cards
    <3> QED
      BY <3>3, <3>4, <3>5 DEF Earning
  <2>3. op.call = "none"
    BY <1>2 DEF NoOp
  <2> QED
    BY <1>1, <1>2, <2>1, <2>2, <2>3 DEF HandlerStep, LoadFails, LoadInfo, LoadSteps, Sum,
       OutOfRange,
       WriteHead, Select, WriteStructure, AccessLost, Verify, Compare, MissingArray, AtTag, Doing
<1>3. CASE op.call \in Writes
  <2>1. op # NoOp
    BY <1>3 DEF NoOp, Writes
  <2>2. onReader' = onReader
    BY <1>1, <1>3, <2>1, NoneGivesUp, WriteSteps
       DEF Advances, Compare, SyncRunWritten, SafeWriteDone
  <2> QED
    BY <1>1, <1>3, <2>2, WriteEarns DEF Bides
<1>4. CASE op.call = "LoadData"
  BY <1>1, <1>4, LoadStepLeaves, LoadEarns DEF Matched
<1> QED
  BY <1>2, <1>3, <1>4 DEF Known, Kept, KeptHere, Shaped

-----------------------------------------------------------------------------
\* The steps that leave the handler as it is: orders are given and done.

LEMMA OrdersChange ==
  ASSUME Next
  PROVE  \/ UNCHANGED <<orders, made>> \/ LocalReserved \/ (LocalRefused /\ Taken) \/ CellWorks
         \/ \E t \in Tags : DoneElsewhere(t) \/ SentHere(t)
<1>1. CASE LocalRefused
  BY <1>1 DEF LocalRefused, Decide, Reported
<1> QED
  BY <1>1 DEF Next, Reader, Decides, Gone, MimoPolozena, LoadFailed, EmptyTag,
     ReportRefused, RecipeFinished, Rescan, LocalMarked,
     CompletionFailed, CompletionOk, PostStep, GateBlocked, Presun, KonecReceptu, NovyRecept,
     TargetRefused, TargetReserved, TransportFailed, TransportStarted, HandlerWorks, PollCard,
     GuardExpires, Leaves, TakeAway, Arrives, PutDown, Reboot, Restart, Reported, Decide, plcVars

LEMMA DecidesAtRest ==
  ASSUME Known, Decide
  PROVE  HandlerIdle /\ op.call = "none" /\ ~ToBeWritten /\ Current \in Nat
<1>1. HandlerIdle /\ op.call = "none"
  BY DEF Decide, Reported, Loaded, Ready, HandlerIdle, NoOp
<1>2. ~ToBeWritten
  BY <1>1, IdleIsNotWritten DEF HandlerIdle
<1>3. Current \in Nat
  BY DEF Known, Arrays, IsCopy, Counts, Current, Info
<1> QED
  BY <1>1, <1>2, <1>3

\* An order for the step at hand is for the product that has it marked.
LEMMA MarkIsOrdered ==
  ASSUME TagsEarned, Known, NEW t \in Tags, HasMark(tags[t].steps, tags[t].info.actual + 1),
         tags[t].info.actual < tags[t].info.steps, op.call = "none"
  PROVE  OrderedFor(tags[t].info, t)
<1>1. tags[t].info.actual + 1 \in tags[t].info.actual + 1 .. tags[t].info.steps
  BY DEF Known, Arrays, TagsFit, IsCopy, Counts
<1> QED
  BY <1>1, NotReplaced DEF TagsEarned

LEMMA HandlerUnmoved ==
  ASSUME Unmoved
  PROVE  /\ Fresh' <=> Fresh
         /\ \A t, i : BeingReplaced(t, i)' <=> BeingReplaced(t, i)
         /\ CopyMarked => CopyMarked'
         /\ NoMark => NoMark'
         /\ ToBeWritten' <=> ToBeWritten
<1>1. UNCHANGED <<tags, onReader, integrity, working, dirty, calls, op, panicked>>
  BY DEF Unmoved, hVars
<1>2. Fresh' <=> Fresh
  BY <1>1 DEF Fresh, HasMark, ToBeSynced, IsDirty
<1>3. \A t, i : BeingReplaced(t, i)' <=> BeingReplaced(t, i)
  BY <1>1, <1>2 DEF BeingReplaced
<1>4. CopyMarked => CopyMarked'
  BY <1>1 DEF CopyMarked, HasMark, Pending, RunsDue, IsDirty
<1>5. NoMark => NoMark'
  BY <1>1 DEF NoMark, HasMark
<1>6. ToBeWritten' <=> ToBeWritten
  BY <1>1 DEF ToBeWritten
<1> QED
  BY <1>2, <1>3, <1>4, <1>5, <1>6

LEMMA UnorderedEarns ==
  ASSUME Known, Matched, Earning, Next, Unmoved, UNCHANGED <<orders, made>>, ~LocalReserved
  PROVE  Earning'
<1> USE DEF Earning
<1>1. UNCHANGED <<tags, onReader, working>>
  BY DEF Unmoved, hVars
<1>2. CopyMarked' /\ NoMark'
  BY HandlerUnmoved
<1>3. Due'
  BY <1>1, HandlerUnmoved DEF Due, Continues, Earned, TagInfo
<1>4. TagsEarned'
  <2>1. \A t \in Tags : Earned(tags[t].info, t)' <=> Earned(tags[t].info, t)
    BY <1>1 DEF Earned
  <2>2. \A t \in Tags : OrderedFor(tags[t].info, t)' <=> OrderedFor(tags[t].info, t)
    BY <1>1 DEF OrderedFor, IsFor
  <2>3. \A t, i : BeingReplaced(t, i)' <=> BeingReplaced(t, i)
    BY HandlerUnmoved
  <2> QED
    BY <1>1, <2>1, <2>2, <2>3 DEF TagsEarned, HasMark
<1>5. PollOrdered'
  <2>1. CASE at' = at
    BY <1>1, <2>1 DEF PollOrdered, OrderedFor, IsFor
  <2>2. CASE at' \in {"loop", "written", "gate"}
    BY <2>2 DEF PollOrdered
  <2>3. CASE LocalMarked
    <3>1. Decide /\ AlreadyReserved
      BY <2>3 DEF LocalMarked
    <3>2. /\ Same(working.info, TagInfo) /\ working.info.actual < working.info.steps
          /\ HasSteps(working) /\ onReader \in Tags
      BY <3>1, DecidedOn DEF Matched
    <3>3. HasMark(working.steps, Current)
      <4>1. PICK n \in Nat : DOMAIN working.steps = 1 .. n /\ Len(working.steps) = n
        <5>1. PICK n \in 0 .. MaxSteps : working.steps \in [1 .. n -> Plain]
          BY DEF Known, Carried, CopiesFit, CopyFits, ArrayFits
        <5> QED
          BY <5>1
      <4>2. Current \in 1 .. n
        BY <3>2, <4>1 DEF Known, Arrays, IsCopy, Counts, Current, Info, HasSteps
      <4> QED
        BY <3>1, <4>1, <4>2 DEF HasMark, AlreadyReserved
    <3>4. HasMark(tags[onReader].steps, Current)
      BY <3>2, <3>3 DEF CopyMarked
    <3>5. /\ TagInfo.actual = working.info.actual /\ TagInfo.steps = working.info.steps
          /\ TagInfo.batch = working.info.batch
      BY <3>2 DEF Same, Bytes
    <3>6. OrderedFor(TagInfo, onReader)
      <4>1. op.call = "none"
        BY <3>1, DecidesAtRest
      <4> QED
        BY <3>2, <3>4, <3>5, <4>1, MarkIsOrdered DEF TagInfo, Current, Info
    <3> QED
      BY <1>1, <3>5, <3>6 DEF PollOrdered, OrderedFor, IsFor
  <2>4. ~MimoPolozena
    BY DEF MimoPolozena, Unmoved, hVars, Calls, Enters, Ready, HandlerIdle
  <2> QED
    BY <2>1, <2>2, <2>3, <2>4, Places
<1> QED
  BY <1>2, <1>3, <1>4, <1>5

\* The order that came in is for the step at hand, whether the reader heard of
\* it or not.
LEMMA TakenEarns ==
  ASSUME OneProduct, Named, Known, Matched, Earning,
         LocalReserved \/ (LocalRefused /\ Taken)
  PROVE  Earning'
<1> USE DEF Earning
<1>1. /\ Unmoved /\ UNCHANGED <<tags, onReader, working>> /\ made' = made /\ Decide
      /\ orders' = Ordered(Order(SrId, seen, Info.batch, Current))
  BY DEF LocalReserved, LocalRefused, Taken, Decide, Reported, Unmoved, hVars
<1>2. CopyMarked' /\ NoMark' /\ Due'
  BY <1>1, DecidesAtRest, HandlerUnmoved DEF Due
<1>3. \A o \in orders' : o.batch = working.info.batch /\ o.step = Current /\ ~o.done
  <2>1. SrId = NoUid /\ \A o \in orders : o.sr = NoUid
    BY DEF Named, Nameless, HasNoUid, IsOrder, SrId
  <2>2. orders' = {Order(SrId, seen, Info.batch, Current)}
    BY <1>1, <2>1 DEF Ordered, Order
  <2> QED
    BY <2>2 DEF Order, Info
<1>4. OrderedFor(working.info, onReader)'
  BY <1>1, <1>3 DEF OrderedFor, IsFor, Current, Info
<1>5. PollOrdered'
  BY <1>4 DEF PollOrdered
<1>6. Same(working.info, TagInfo) /\ onReader \in Tags
  BY <1>1, DecidedOn DEF Matched
<1>7. OrderedFor(tags[onReader].info, onReader)'
  <2>1. TagInfo.actual = working.info.actual /\ TagInfo.batch = working.info.batch
    BY <1>6 DEF Same, Bytes
  <2> QED
    BY <1>1, <1>3, <2>1 DEF OrderedFor, IsFor, TagInfo, Current, Info
<1>8. TagsEarned'
  <2>1. \A t \in Tags : Earned(tags[t].info, t)'
    BY <1>1 DEF TagsEarned, Earned
  <2>2. ASSUME NEW t \in Tags, NEW i \in tags[t].info.actual + 1 .. tags[t].info.steps,
               HasMark(tags[t].steps, i)
        PROVE  i = tags[t].info.actual + 1 /\ t = onReader
    <3>1. op.call = "none"
      BY <1>1, DecidesAtRest
    <3> QED
      BY <1>6, <2>2, <3>1, NotReplaced, MarkIsOfOne DEF TagsEarned
  <2> QED
    BY <1>1, <1>7, <2>1, <2>2 DEF TagsEarned, HasMark
<1> QED
  BY <1>2, <1>5, <1>8

LEMMA CellWorksEarns ==
  ASSUME OneProduct, Named, Known, Earning, CellWorks
  PROVE  Earning'
<1> USE DEF Earning
<1>1. /\ Unmoved /\ UNCHANGED <<tags, onReader, working, at>> /\ onReader \in Tags
  BY DEF CellWorks, Unmoved, hVars, aasVars, Known, Arrays, TagsFit
<1>2. PICK o \in orders : /\ orders' = (orders \ {o}) \cup {[o EXCEPT !.done = TRUE]}
                          /\ made' = made \cup {StepDone(onReader, o.batch, o.step)}
  BY DEF CellWorks, StepDone
<1>3. CopyMarked' /\ NoMark'
  BY <1>1, HandlerUnmoved
<1>4. Due'
  BY <1>1, <1>2, HandlerUnmoved DEF Due, Continues, Earned, TagInfo
<1>5. ASSUME NEW info, OrderedFor(info, onReader)
      PROVE  \A p \in orders' : /\ p.batch = info.batch /\ p.step = info.actual + 1
                                /\ p.done => StepDone(onReader, p.batch, p.step) \in made'
  <2>1. LET p == [o EXCEPT !.done = TRUE] IN p.batch = o.batch /\ p.step = o.step
    BY DEF Named, Nameless, IsOrder
  <2>2. \A p \in orders : IsFor(p, info, onReader)
    BY <1>5 DEF OrderedFor
  <2> QED
    BY <1>2, <2>1, <2>2 DEF IsFor
<1>6. PollOrdered'
  BY <1>1, <1>5 DEF PollOrdered, OrderedFor, IsFor
<1>7. TagsEarned'
  <2>1. \A t \in Tags : Earned(tags[t].info, t)'
    BY <1>1, <1>2 DEF TagsEarned, Earned
  <2>2. ASSUME NEW t \in Tags, NEW i \in tags[t].info.actual + 1 .. tags[t].info.steps,
               HasMark(tags[t].steps, i)
        PROVE  \/ i = tags[t].info.actual + 1 /\ OrderedFor(tags[t].info, t)'
               \/ BeingReplaced(t, i)'
    <3>1. t = onReader
      BY <1>1, <2>2, MarkIsOfOne
    <3>2. CASE i = tags[t].info.actual + 1 /\ OrderedFor(tags[t].info, t)
      BY <1>1, <1>5, <3>1, <3>2 DEF OrderedFor, IsFor
    <3> QED
      BY <1>1, <2>2, <3>2, HandlerUnmoved DEF TagsEarned
  <2> QED
    BY <1>1, <2>1, <2>2 DEF TagsEarned, HasMark
<1> QED
  BY <1>3, <1>4, <1>6, <1>7

LEMMA UnmovedEarns ==
  ASSUME OneProduct, Named, Known, Matched, Earning, Next, Unmoved,
         ~\E t \in Tags : DoneElsewhere(t) \/ SentHere(t)
  PROVE  Earning'
BY OrdersChange, UnorderedEarns, TakenEarns, CellWorksEarns

-----------------------------------------------------------------------------
\* The steps that give the handler something to do.

LEMMA RestEarns ==
  ASSUME Known, Owing, Earning, HandlerIdle, UNCHANGED <<tags, orders, made>>, at' # "poll",
         \A i : HasMark(integrity'.steps, i) => HasMark(integrity.steps, i),
         \A i : HasMark(working'.steps, i) => HasMark(working.steps, i)
  PROVE  TagsEarned' /\ CopyMarked' /\ NoMark' /\ PollOrdered'
<1> USE DEF Earning
<1>1. op.call = "none"
  BY DEF HandlerIdle, NoOp
<1>2. TagsEarned'
  BY <1>1, NotReplaced, StillEarned
<1>3. NoMark' /\ PollOrdered'
  BY DEF NoMark, PollOrdered
<1>4. \A i : ~Pending(i)
  BY <1>1, RestIsClean DEF Pending
<1> QED
  BY <1>2, <1>3, <1>4 DEF CopyMarked

\* What goes on from the tag's own info continues it.
LEMMA TagContinues ==
  ASSUME Known, TagsEarned, Same(working.info, TagInfo), onReader \in Tags,
         UNCHANGED <<tags, onReader>>, made' = made,
         working'.info.batch = working.info.batch, working'.info.steps = working.info.steps,
         \/ working'.info.actual = working.info.actual
         \/ /\ working'.info.actual = working.info.actual + 1
            /\ StepDone(onReader, working.info.batch, working.info.actual + 1) \in made
  PROVE  Continues'
<1>1. /\ TagInfo.actual = working.info.actual /\ TagInfo.steps = working.info.steps
      /\ TagInfo.batch = working.info.batch /\ TagInfo' = TagInfo
  BY DEF Same, Bytes, TagInfo
<1>2. working.info.actual \in Nat
  BY DEF Known, Arrays, IsCopy, Counts
<1>3. \A i \in 1 .. working.info.actual : StepDone(onReader, working.info.batch, i) \in made
  BY <1>1 DEF TagsEarned, Earned, TagInfo
<1>4. \A i \in 1 .. working'.info.actual : StepDone(onReader, working.info.batch, i) \in made
  BY <1>2, <1>3
<1>5. Earned(working'.info, onReader)
  BY <1>4 DEF Earned
<1>6. Earned(working.info, onReader)'
  BY <1>5 DEF Earned
<1> QED
  BY <1>1, <1>2, <1>6 DEF Continues

LEMMA LoadCallEarns ==
  ASSUME Known, Owing, Earning, MimoPolozena
  PROVE  Earning'
<1>1. /\ HandlerIdle /\ calls' = <<"LoadData">> /\ at' = "loaded" /\ op' = op
      /\ UNCHANGED <<tags, orders, made, integrity, working>>
  BY DEF MimoPolozena, Enters, Ready, Calls, plcVars, cards
<1>2. op'.call = "none"
  BY <1>1 DEF HandlerIdle, NoOp
<1>3. Due'
  BY <1>1, <1>2, CallsDiffer DEF Due, ToBeWritten, Writes
<1> QED
  BY <1>1, <1>3, RestEarns DEF Earning

LEMMA MarkDoneEarns ==
  ASSUME Known, Owing, Matched, Earning, MarksDone
  PROVE  Earning'
<1> USE DEF Earning
<1>1. /\ HandlerIdle /\ at' = "loop" /\ UNCHANGED <<tags, onReader, orders, made, integrity>>
      /\ working' = [working EXCEPT !.info.done = TRUE]
  BY DEF MarksDone, MarkDone, Loop, KeepTag
<1>2. IsCopy(working)
  BY DEF Known, Arrays
<1>3. /\ working'.steps = working.steps /\ working'.info.batch = working.info.batch
      /\ working'.info.steps = working.info.steps /\ working'.info.actual = working.info.actual
  BY <1>1, <1>2 DEF IsCopy, Counts
<1>4. Same(working.info, TagInfo) /\ onReader \in Tags
  <2>1. at = "poll" \/ (at = "loaded" /\ result.value = 0 /\ working.info.steps # 0)
    BY DEF MarksDone, Loaded, Ready, IsRecipeEmpty, Info
  <2>2. Same(working.info, TagInfo)
    BY <1>1, <2>1 DEF Matched, Decided, Waits, HandlerIdle
  <2>3. onReader \in Tags
    BY <2>1 DEF Known, Kept, KeptHere, Stands, Arrays, TagsFit
  <2> QED
    BY <2>2, <2>3
<1>5. Continues'
  BY <1>1, <1>3, <1>4, TagContinues
<1> QED
  BY <1>1, <1>3, <1>5, RestEarns DEF Due

\* The step that was polled for was done, and so it may count.
LEMMA CompletionEarns ==
  ASSUME Named, Known, Owing, Matched, Earning, CompletionOk
  PROVE  Earning'
<1> USE DEF Earning
<1>1. /\ HandlerIdle /\ at = "poll" /\ at' = "written" /\ working' = Advance
      /\ UNCHANGED <<tags, onReader, orders, made, integrity>>
  BY DEF CompletionOk, Ready, Calls, KeepTag, plcVars
<1>2. IsCopy(working)
  BY DEF Known, Arrays
<1>3. /\ working'.info.batch = working.info.batch /\ working'.info.steps = working.info.steps
      /\ working'.info.actual = working.info.actual + 1
      /\ working'.steps = [working.steps EXCEPT ![Current].done = TRUE]
  BY <1>1, <1>2 DEF Advance, IsCopy, Counts, Current, Info
<1>4. PICK n \in Nat : working.steps \in [1 .. n -> Plain]
  BY DEF Known, Carried, CopiesFit, CopyFits, ArrayFits
<1>5. \A i : HasMark(working'.steps, i) => HasMark(working.steps, i)
  BY <1>3, <1>4 DEF HasMark, Plain, TRecipeStep
<1>6. Same(working.info, TagInfo) /\ onReader \in Tags
  <2>1. onReader \in Tags
    BY <1>1 DEF Known, Kept, KeptHere, Stands, Arrays, TagsFit
  <2> QED
    BY <1>1, <2>1 DEF Matched, Decided
<1>7. StepDone(onReader, working.info.batch, working.info.actual + 1) \in made
  <2>1. PICK o \in orders : o.done
    BY DEF CompletionOk
  <2>2. IsFor(o, working.info, onReader)
    BY <1>1 DEF PollOrdered, OrderedFor
  <2> QED
    BY <2>1, <2>2 DEF IsFor
<1>8. Continues'
  BY <1>1, <1>3, <1>6, <1>7, TagContinues
<1> QED
  BY <1>1, <1>5, <1>8, RestEarns DEF Due

\* The step is reserved at another cell.
LEMMA ReserveEarns ==
  ASSUME Known, Owing, Matched, Earning, TargetReserved
  PROVE  Earning'
<1> USE DEF Earning
<1>1. /\ Decide /\ HandlerIdle /\ at' = "gate"
      /\ UNCHANGED <<tags, onReader, orders, made, integrity>>
      /\ working' = [working EXCEPT !.steps[Current].reserved = TargetOf(Current)]
      /\ TargetOf(Current) # ME
  BY DEF TargetReserved, Resolved, Calls, KeepTag, Decide, Reported, Loaded, Ready
<1>2. /\ working'.info = working.info
      /\ working'.steps = [working.steps EXCEPT ![Current].reserved = TargetOf(Current)]
  BY <1>1 DEF Known, Arrays, IsCopy
<1>3. PICK n \in Nat : working.steps \in [1 .. n -> Plain]
  BY DEF Known, Carried, CopiesFit, CopyFits, ArrayFits
<1>4. \A i : HasMark(working'.steps, i) => HasMark(working.steps, i)
  BY <1>1, <1>2, <1>3 DEF HasMark, Plain, TRecipeStep
<1>5. Same(working.info, TagInfo) /\ onReader \in Tags
  BY <1>1, DecidedOn DEF Matched
<1>6. Continues'
  BY <1>1, <1>2, <1>5, TagContinues
<1> QED
  BY <1>1, <1>4, <1>6, RestEarns DEF Due

LEMMA NewIsUnmarked ==
  ASSUME NEW owners
  PROVE  /\ NewRecipe(owners).info.actual = 0
         /\ \A i : ~HasMark(NewRecipe(owners).steps, i)
         /\ \A x : /\ [NewRecipe(owners) EXCEPT !.info.id = x].info.actual = 0
                   /\ [NewRecipe(owners) EXCEPT !.info.id = x].steps = NewRecipe(owners).steps
<1> DEFINE card == [info    |-> [noInfo EXCEPT !.steps = Len(owners), !.batch = batches + 1],
                    steps   |-> [i \in 1 .. Len(owners) |-> [EmptyStep EXCEPT !.owner = owners[i]]],
                    known   |-> TRUE,
                    created |-> owners # <<>>,
                    loaded  |-> FALSE,
                    uid     |-> NoUid]
<1>1. NewRecipe(owners) = [card EXCEPT !.info.cs = CheckSum(card)]
  BY DEF NewRecipe, GetCardInfoByNumber
<1>2. /\ {"info", "steps"} \subseteq DOMAIN card
      /\ {"actual", "id", "cs"} \subseteq DOMAIN card.info
      /\ card.info.actual = 0
  BY DEF noInfo
<1>3. \A i \in DOMAIN card.steps : card.steps[i].reserved = 0
  BY DEF EmptyStep
<1> DEFINE new == NewRecipe(owners)
<1> HIDE DEF card
<1>4. /\ {"info", "steps"} \subseteq DOMAIN new /\ {"actual", "id", "cs"} \subseteq DOMAIN new.info
      /\ new.info.actual = 0 /\ new.steps = card.steps
  BY <1>1, <1>2
<1> HIDE DEF new
<1>5. \A x : /\ [new EXCEPT !.info.id = x].info.actual = 0
             /\ [new EXCEPT !.info.id = x].steps = new.steps
  BY <1>4
<1>6. \A i : ~HasMark(new.steps, i)
  BY <1>3, <1>4, MeAssumption DEF HasMark
<1> QED
  BY <1>4, <1>5, <1>6 DEF new

LEMMA RecipeEarns ==
  ASSUME RecipesHaveSteps, Known, Owing, Earning, Presun \/ NovyRecept
  PROVE  Earning'
<1> USE DEF Earning
<1>1. HandlerIdle /\ at' = "loop" /\ UNCHANGED <<tags, orders, made, panicked>>
  BY DEF Presun, NovyRecept, Enters, Ready, Loop, KeepTag, plcVars
<1>2. working'.info.actual = 0 /\ \A i : ~HasMark(working'.steps, i)
  <2>1. CASE Presun
    BY <2>1, NewIsUnmarked, Zenon DEF Presun
  <2>2. CASE NovyRecept
    <3>1. PICK owners : AddCardInfoToWorking(NewRecipe(owners))
      BY <2>2, Zenon DEF NovyRecept
    <3>2. \/ working' = NewRecipe(owners)
          \/ working' = [NewRecipe(owners) EXCEPT !.info.id = integrity.info.id]
      BY <3>1, Zenon DEF AddCardInfoToWorking
    <3>3. /\ NewRecipe(owners).info.actual = 0
          /\ \A i : ~HasMark(NewRecipe(owners).steps, i)
          /\ [NewRecipe(owners) EXCEPT !.info.id = integrity.info.id].info.actual = 0
          /\ [NewRecipe(owners) EXCEPT !.info.id = integrity.info.id].steps
               = NewRecipe(owners).steps
      BY NewIsUnmarked
    <3> QED
      BY <3>2, <3>3, Zenon
  <2> QED
    BY <2>1, <2>2
<1>3. \A i : HasMark(integrity'.steps, i) => HasMark(integrity.steps, i)
  BY DEF Presun, NovyRecept, KeepTag, InitTCardInfo, HasMark
<1>4. /\ op' = NoOp /\ calls' = <<"Sync">>
      /\ dirty' = [i \in 1 .. working'.info.steps |-> TRUE]
      /\ working'.info.steps > 0
  BY RecipeDues DEF Known
<1>5. Fresh'
  BY <1>2, <1>4 DEF Fresh, ToBeSynced, IsDirty, HasMark
<1> QED
  BY <1>1, <1>2, <1>3, <1>5, RestEarns DEF Due

-----------------------------------------------------------------------------
\* What happens around the reader.

LEMMA RebootEarns ==
  ASSUME Earning, Reboot
  PROVE  Earning'
<1> USE DEF Earning
<1>1. /\ panicked /\ at' = "loop" /\ op' = NoOp /\ calls' = <<>>
      /\ UNCHANGED <<tags, orders, made>>
      /\ integrity' = InitTCardInfo(StackInfo) /\ working' = InitTCardInfo(StackInfo)
  BY DEF Reboot, Restart, Loop, plcVars
<1>2. TagsEarned'
  BY <1>1, NotReplaced, StillEarned
<1>3. Due'
  BY <1>1, CallsDiffer DEF Due, ToBeWritten, Writes, NoOp
<1>4. CopyMarked' /\ NoMark' /\ PollOrdered'
  BY <1>1 DEF CopyMarked, NoMark, PollOrdered, HasMark, InitTCardInfo
<1> QED
  BY <1>2, <1>3, <1>4

LEMMA MovesEarn ==
  ASSUME Known, Earning, Moves
  PROVE  Earning'
<1> USE DEF Earning
<1>1. /\ Waits /\ at = "loop" /\ op.call = "none"
  BY DEF Moves, Known, Kept, KeptHere, Stands, InPlace, HandlerIdle, Waits, NoOp
<1>2. UNCHANGED <<tags, integrity, working, dirty, calls, op, at, orders, made>>
  BY DEF Moves, aasVars, plcVars, cards
<1>3. TagsEarned'
  BY <1>1, <1>2, NotReplaced, StillEarned
<1>4. Due'
  BY <1>1, <1>2, IdleIsNotWritten DEF Due, ToBeWritten, Waits
<1>5. CopyMarked' /\ NoMark' /\ PollOrdered'
  BY <1>1, <1>2 DEF CopyMarked, NoMark, PollOrdered, HasMark, Pending, IsDirty
<1> QED
  BY <1>3, <1>4, <1>5

\* Where one product travels, nothing is under way at this reader then.
LEMMA AwayAtRest ==
  ASSUME OneProduct, Known, NEW t \in Tags, DoneElsewhere(t) \/ SentHere(t)
  PROVE  /\ \A u \in Tags : u = t
         /\ Waits /\ at = "loop" /\ op.call = "none" /\ ~ToBeWritten
         /\ UNCHANGED <<integrity, working, dirty, calls, op, at>>
         /\ Counts(tags[t].info) /\ {"info", "steps"} \subseteq DOMAIN tags[t]
         /\ t \in DOMAIN tags /\ Travels
<1>1. /\ t # onReader /\ Travels
      /\ UNCHANGED <<integrity, working, dirty, calls, op, at>>
  BY ElsewhereIsApart DEF Known
<1>2. \A u \in Tags : u = t
  BY <1>1 DEF OneProduct
<1>3. Waits /\ at = "loop"
  BY <1>1, <1>2 DEF Known, Arrays, TagsFit, Kept, KeptHere, Stands
<1>4. op.call = "none" /\ ~ToBeWritten
  BY <1>3, IdleIsNotWritten DEF Waits, NoOp
<1>5. Counts(tags[t].info) /\ {"info", "steps"} \subseteq DOMAIN tags[t] /\ t \in DOMAIN tags
  BY DEF Known, Arrays, TagsFit, IsCopy
<1> QED
  BY <1>1, <1>2, <1>3, <1>4, <1>5

\* The rest of it is as it was.
LEMMA AwayEarns ==
  ASSUME OneProduct, Known, Earning, NEW t \in Tags, DoneElsewhere(t) \/ SentHere(t),
         \A i : HasMark(tags[t].steps, i) => HasMark(tags'[t].steps, i),
         Earned(tags[t].info, t)',
         \A i \in tags'[t].info.actual + 1 .. tags'[t].info.steps :
           HasMark(tags'[t].steps, i) =>
             i = tags'[t].info.actual + 1 /\ OrderedFor(tags[t].info, t)'
  PROVE  Earning'
<1> USE DEF Earning
<1>1. /\ \A u \in Tags : u = t
      /\ at = "loop" /\ op.call = "none" /\ ~ToBeWritten /\ Travels
      /\ UNCHANGED <<integrity, working, dirty, calls, op, at>>
  BY AwayAtRest
<1>2. TagsEarned'
  BY <1>1 DEF TagsEarned, HasMark
<1>3. Due' /\ NoMark' /\ PollOrdered'
  BY <1>1 DEF Due, ToBeWritten, NoMark, PollOrdered
<1>4. CopyMarked'
  BY <1>1 DEF CopyMarked, HasMark, Pending, IsDirty
<1> QED
  BY <1>2, <1>3, <1>4

\* Another cell makes the step it counts, and the next one is marked by none.
LEMMA DoneElsewhereEarns ==
  ASSUME OneProduct, Known, Earning, NEW t \in Tags, DoneElsewhere(t)
  PROVE  Earning'
<1> USE DEF Earning
<1> DEFINE i == tags[t].info.actual + 1
           info == [tags[t].info EXCEPT !.actual = i, !.done = i = tags[t].info.steps]
           steps == [tags[t].steps EXCEPT ![i].done = TRUE]
           new == [info EXCEPT !.cs = CheckSum([info |-> info, steps |-> steps])]
<1>1. /\ Counts(tags[t].info) /\ {"info", "steps"} \subseteq DOMAIN tags[t]
      /\ t \in DOMAIN tags /\ op.call = "none"
  BY AwayAtRest
<1>2. tags' = [tags EXCEPT ![t] = [info |-> new, steps |-> steps]]
  BY Zenon DEF DoneElsewhere
<1>3. info.batch = tags[t].info.batch /\ info.actual = i /\ info.steps = tags[t].info.steps
      /\ {"batch", "actual", "steps", "cs"} \subseteq DOMAIN info
  BY <1>1 DEF Counts
<1>4. made' = made \cup {StepDone(t, info.batch, i)}
  BY Zenon DEF DoneElsewhere, StepDone
<1> HIDE DEF info
<1>5. new.batch = tags[t].info.batch /\ new.actual = i /\ new.steps = tags[t].info.steps
  BY <1>3
<1> HIDE DEF new
<1>6. /\ tags'[t].info.batch = tags[t].info.batch /\ tags'[t].info.actual = i
      /\ tags'[t].info.steps = tags[t].info.steps /\ tags'[t].steps = steps
  BY <1>1, <1>2, <1>5
<1>7. \A j : HasMark(tags'[t].steps, j) <=> HasMark(tags[t].steps, j)
  <2>1. tags[t].steps \in [1 .. MaxSteps -> Plain]
    BY DEF Known, Carried, CopiesFit, TagFits
  <2>2. \A j \in 1 .. MaxSteps : steps[j].reserved = tags[t].steps[j].reserved
    BY <2>1 DEF Plain, TRecipeStep
  <2>3. DOMAIN steps = 1 .. MaxSteps /\ DOMAIN tags[t].steps = 1 .. MaxSteps
    BY <2>1
  <2> HIDE DEF steps
  <2> QED
    BY <1>6, <2>2, <2>3 DEF HasMark
<1>8. i \in Nat /\ tags[t].info.actual \in Nat /\ tags[t].info.steps \in Nat
  BY <1>1 DEF Counts
<1>9. Earned(tags[t].info, t)'
  <2>1. \A j \in 1 .. tags[t].info.actual : StepDone(t, tags[t].info.batch, j) \in made
    BY DEF TagsEarned, Earned
  <2>2. \A j \in 1 .. i : StepDone(t, tags[t].info.batch, j) \in made'
    BY <1>3, <1>4, <1>8, <2>1
  <2> QED
    BY <1>6, <2>2 DEF Earned
<1>10. \A j \in tags'[t].info.actual + 1 .. tags'[t].info.steps : ~HasMark(tags'[t].steps, j)
  <2>1. \A u, j : ~BeingReplaced(u, j)
    BY <1>1, NotReplaced
  <2> QED
    BY <1>6, <1>7, <1>8, <2>1 DEF TagsEarned
<1> QED
  BY <1>7, <1>9, <1>10, AwayEarns

\* The one mark another cell makes here is that of the one order it gives.
LEMMA SentHereEarns ==
  ASSUME OneProduct, Named, Known, Earning, NEW t \in Tags, SentHere(t)
  PROVE  Earning'
<1> USE DEF Earning
<1> DEFINE i == tags[t].info.actual + 1
           steps == [tags[t].steps EXCEPT ![i].reserved = ME]
<1>1. /\ Counts(tags[t].info) /\ {"info", "steps"} \subseteq DOMAIN tags[t]
      /\ t \in DOMAIN tags /\ op.call = "none"
  BY AwayAtRest
<1>2. PICK cs : tags' = [tags EXCEPT ![t].steps = steps, ![t].info.cs = cs]
  BY Zenon DEF SentHere
<1>3. made' = made /\ orders' = Ordered(Order(NoUid, t, tags[t].info.batch, i))
  BY DEF SentHere
<1> HIDE DEF steps
<1>4. /\ tags'[t].info.batch = tags[t].info.batch /\ tags'[t].info.actual = tags[t].info.actual
      /\ tags'[t].info.steps = tags[t].info.steps /\ tags'[t].steps = steps
  BY <1>1, <1>2 DEF Counts
<1>5. \A j : /\ HasMark(tags[t].steps, j) => HasMark(tags'[t].steps, j)
             /\ HasMark(tags'[t].steps, j) => j = i \/ HasMark(tags[t].steps, j)
  <2>1. tags[t].steps \in [1 .. MaxSteps -> Plain]
    BY DEF Known, Carried, CopiesFit, TagFits
  <2>2. /\ \A j \in 1 .. MaxSteps : j # i => steps[j] = tags[t].steps[j]
        /\ i \in 1 .. MaxSteps => steps[i].reserved = ME
    BY <2>1 DEF Plain, TRecipeStep, steps
  <2>3. DOMAIN steps = 1 .. MaxSteps /\ DOMAIN tags[t].steps = 1 .. MaxSteps
    BY <2>1 DEF steps
  <2> QED
    BY <1>4, <2>2, <2>3 DEF HasMark
<1>6. \A o \in orders' : o.batch = tags[t].info.batch /\ o.step = i /\ ~o.done
  <2>1. \A o \in orders : o.sr = NoUid
    BY DEF Named, Nameless, IsOrder
  <2>2. orders' = {Order(NoUid, t, tags[t].info.batch, i)}
    BY <1>3, <2>1 DEF Ordered, Order
  <2> QED
    BY <2>2 DEF Order
<1>7. OrderedFor(tags[t].info, t)'
  BY <1>4, <1>6 DEF OrderedFor, IsFor
<1>8. Earned(tags[t].info, t)'
  BY <1>3, <1>4 DEF TagsEarned, Earned
<1>9. \A j \in tags'[t].info.actual + 1 .. tags'[t].info.steps :
        HasMark(tags'[t].steps, j) => j = i
  <2>1. \A u, j : ~BeingReplaced(u, j)
    BY <1>1, NotReplaced
  <2> QED
    BY <1>4, <1>5, <2>1 DEF TagsEarned
<1> QED
  BY <1>4, <1>5, <1>7, <1>8, <1>9, AwayEarns

-----------------------------------------------------------------------------
LEMMA NextEarning ==
  ASSUME OneProduct, Stays, RecipesHaveSteps, Named, Known, Owing, Matched, Earning, Next
  PROVE  Earning'
<1>1. CASE HandlerWorks
  <2>1. Dues'
    BY NextDues DEF Matched
  <2> QED
    BY <1>1, <2>1, HandlerEarns
<1>2. CASE \E t \in Tags : DoneElsewhere(t) \/ SentHere(t)
  BY <1>2, DoneElsewhereEarns, SentHereEarns
<1>3. CASE Unmoved
  BY <1>2, <1>3, UnmovedEarns
<1> QED
  BY <1>1, <1>2, <1>3, StepsOf, LoadCallEarns, MarkDoneEarns, CompletionEarns, ReserveEarns,
     RecipeEarns, RebootEarns, MovesEarn

LEMMA InitEarning ==
  ASSUME FirstTagsNew, Init
  PROVE  Earning
<1>1. /\ at = "loop" /\ op = NoOp /\ calls = <<>> /\ tags \in FirstTags
      /\ integrity = InitTCardInfo(StackInfo) /\ working = InitTCardInfo(StackInfo)
  BY DEF Init, HandlerInit
<1>2. Due /\ PollOrdered
  BY <1>1, CallsDiffer DEF Due, ToBeWritten, Writes, NoOp, PollOrdered
<1>3. \A t \in Tags : tags[t].info.actual = 0 /\ \A i : ~HasMark(tags[t].steps, i)
  <2> SUFFICES ASSUME NEW t \in Tags
               PROVE  tags[t].info.actual = 0 /\ \A i : ~HasMark(tags[t].steps, i)
    OBVIOUS
  <2>1. tags[t].info.actual = 0 /\ \A i \in 1 .. MaxSteps : tags[t].steps[i].reserved # ME
    BY <1>1 DEF FirstTagsNew
  <2>2. DOMAIN tags[t].steps = 1 .. MaxSteps
    BY <1>1, FirstTagsAssumption
  <2> QED
    BY <2>1, <2>2 DEF HasMark
<1>4. CopyMarked /\ NoMark
  BY <1>1, <1>3 DEF CopyMarked, NoMark, HasMark, InitTCardInfo
<1>5. TagsEarned
  BY <1>3 DEF TagsEarned, Earned
<1> QED
  BY <1>2, <1>4, <1>5 DEF Earning

-----------------------------------------------------------------------------
LEMMA StillNamed ==
  ASSUME Named, UNCHANGED vars
  PROVE  Named'
BY DEF vars, hVars, cards, aasVars, plcVars, Named, Nameless, HasNoUid, GateElsewhere

LEMMA StillOwing ==
  ASSUME Owing, UNCHANGED vars
  PROVE  Owing'
<1>1. UNCHANGED <<tags, onReader, integrity, working, dirty, calls, op>>
  BY DEF vars, hVars, cards
<1>2. Transferred => Transferred'
  BY <1>1 DEF Transferred, OnTag, SameOnTag, Card
<1>3. Transfers' /\ SyncFollows'
  BY <1>1, <1>2 DEF Owing, Transfers, SyncFollows
<1>4. Dues'
  BY <1>1 DEF Owing, Dues, IsDirty, Pending, RunsDue, ToBeWritten
<1> QED
  BY <1>3, <1>4 DEF Owing

LEMMA StillMatched ==
  ASSUME Matched, UNCHANGED vars
  PROVE  Matched'
BY DEF vars, hVars, cards, aasVars, Matched, CopiesMatch, ToBeWritten, ToBeSynced, Alike, Reads,
   Decided, Waits, TagInfo

LEMMA StillEarning ==
  ASSUME Earning, UNCHANGED vars
  PROVE  Earning'
<1> USE DEF Earning
<1>1. Unmoved /\ UNCHANGED <<tags, onReader, working, at, orders, made>>
  BY DEF Unmoved, vars, hVars, aasVars, plcVars
<1>2. CopyMarked' /\ NoMark'
  BY <1>1, HandlerUnmoved
<1>3. Due'
  BY <1>1, HandlerUnmoved DEF Due, Continues, Earned, TagInfo
<1>4. TagsEarned'
  <2>1. \A t \in Tags : Earned(tags[t].info, t)' <=> Earned(tags[t].info, t)
    BY <1>1 DEF Earned
  <2>2. \A t \in Tags : OrderedFor(tags[t].info, t)' <=> OrderedFor(tags[t].info, t)
    BY <1>1 DEF OrderedFor, IsFor
  <2>3. \A t, i : BeingReplaced(t, i)' <=> BeingReplaced(t, i)
    BY <1>1, HandlerUnmoved
  <2> QED
    BY <1>1, <2>1, <2>2, <2>3 DEF TagsEarned, HasMark
<1>5. PollOrdered'
  BY <1>1 DEF PollOrdered, OrderedFor, IsFor
<1> QED
  BY <1>2, <1>3, <1>4, <1>5

LEMMA StillKnown ==
  ASSUME Known, UNCHANGED vars
  PROVE  Known'
<1> USE DEF Known
<1>1. /\ Arrays'
      /\ UNCHANGED <<onReader, integrity, working, dirty, calls, op, result, raf, at,
                     cardOnReader, tags>>
  BY DEF vars, hVars, cards, aasVars, Arrays, Marks, TagsFit, OpFits
<1>2. Apart /\ Present'
  BY DEF vars, hVars, cards, aasVars, Apart, Carried, Present
<1>3. Carried'
  BY <1>1, <1>2, ApartCarries
<1>4. Kept'
  <2>1. TagInfo' = TagInfo /\ Stands'
    BY <1>1 DEF TagInfo, Kept, KeptHere, Stands, Waits
  <2> QED
    BY <1>1, <2>1, UnseenKept
<1>5. Sound'
  BY <1>1, StillSound DEF Sound, IdForRecipe
<1> QED
  BY <1>1, <1>3, <1>4, <1>5

\* A step the tag counts as done was done to the product (ProgressIsEarned), for
\* every number of steps, every set of recipes and every table of cells,
\* whatever the handler had left to write before, writes that are interrupted
\* and restarts: where products stay until they are waited for, where the
\* product that travels is a single one, where none comes with a step done, a
\* step reserved here or a cell inquired, and no recipe is without steps.
THEOREM ReaderEarnsProgress ==
  ASSUME Stays, OneProduct, NoneInquired, FirstTagsCount, FirstTagsNew, RecipesHaveSteps
  PROVE  Spec => []ProgressIsEarned
<1> DEFINE Parts == Known /\ Named /\ Owing /\ Matched /\ Earning
<1>1. Init => Parts
  BY InitFits, InitCarries, InitKept, InitSound, InitNamed, InitOwing, InitMatched, InitEarning
     DEF Known
<1>2. Parts /\ [Next]_vars => Parts'
  <2> SUFFICES ASSUME Parts, [Next]_vars PROVE Parts'
    OBVIOUS
  <2>1. CASE Next
    <3>1. Known'
      BY <2>1, NextKeeps, NextCarries, NextKept, NextStaysSound DEF Known
    <3>2. Named' /\ Owing' /\ Matched' /\ Earning'
      BY <2>1, NextNamed, NextOwing, NextMatched, NextEarning DEF Matched
    <3> QED
      BY <3>1, <3>2
  <2>2. CASE UNCHANGED vars
    BY <2>2, StillKnown, StillNamed, StillOwing, StillMatched, StillEarning
  <2> QED
    BY <2>1, <2>2
<1>3. Parts => ProgressIsEarned
  BY DEF Earning, TagsEarned, Earned, StepDone, ProgressIsEarned
<1> HIDE DEF Parts
<1> QED
  BY <1>1, <1>2, <1>3, PTL DEF Spec
=============================================================================
