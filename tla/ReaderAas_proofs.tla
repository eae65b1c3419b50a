--------------------------- MODULE ReaderAas_proofs ---------------------------
(***************************************************************************)
(* Proofs about the reader, for every number of tags, steps and recipes,   *)
(* products that come and go between any two accesses, and restarts.       *)
(*                                                                         *)
(* That a step is owed until it is written rests on one fact that the      *)
(* shape of sRecipeStepIndexArray gives: when it is resized, a mark within *)
(* the new length is kept.  For that its length has to be a number, and so *)
(* RecipeSteps of every info that is ever copied (Arrays).                 *)
(*                                                                         *)
(* That a product leaves marked follows the marker from the step in        *)
(* working over the write of that step and the Sync after it to the tag    *)
(* (Carried): in each phase of each call, what is on the tag already and   *)
(* what is still to be written.                                            *)
(*                                                                         *)
(* That a recipe is kept follows which of the tag and the two copies tell  *)
(* of the same recipe, call by call (Kept).  That no tag counts more steps *)
(* than it has rests on Kept, and on when working may be written: not      *)
(* before a load has given it the number of steps that integrity has       *)
(* (Sound).                                                                *)
(***************************************************************************)
EXTENDS ReaderAas, WellFoundedInduction, TLAPS

\* An info has its fields and counts its steps, and a copy has an info and an
\* array.
Counts(info) == {"id", "steps", "actual", "done", "cs", "batch"} \subseteq DOMAIN info
                /\ info.steps \in Nat /\ info.actual \in Nat
IsCopy(card) == {"info", "steps"} \subseteq DOMAIN card /\ Counts(card.info)

Marks(flags) == \E n \in Nat : flags \in [1 .. n -> BOOLEAN]
TagsFit == /\ DOMAIN tags = Tags /\ \A t \in Tags : IsCopy(tags[t])
           /\ onReader \in Tags \cup {NoTag}
OpFits == /\ "call" \in DOMAIN op
          /\ op.call = "WriteSafeInfo" => "saved" \in DOMAIN op /\ Counts(op.saved)

Arrays == /\ Marks(dirty) /\ IsCopy(integrity) /\ IsCopy(working)
          /\ TagsFit /\ OpFits /\ receiptCounter \in Nat

\* The marks that are kept.
Owed ==
  \A i \in DOMAIN dirty \cap DOMAIN dirty' :
    dirty[i] /\ ~dirty'[i] =>
      /\ onReader # NoTag
      /\ tags[onReader].steps[i] = working.steps[i]

\* A resized array keeps the marks within its new length.
LEMMA ResizeKeeps ==
  ASSUME Arrays, NEW n \in Nat
  PROVE  /\ Resize(dirty, n) \in [1 .. n -> BOOLEAN]
         /\ \A i \in DOMAIN dirty \cap 1 .. n : dirty[i] => Resize(dirty, n)[i]
<1>1. PICK m \in Nat : dirty \in [1 .. m -> BOOLEAN]
  BY DEF Arrays, Marks
<1>2. Len(dirty) = m /\ dirty \in Seq(BOOLEAN)
  BY <1>1
<1>3. \A i \in 1 .. n : (i <= Len(dirty) /\ dirty[i]) \in BOOLEAN
  OBVIOUS
<1> QED
  BY <1>1, <1>2 DEF Resize

LEMMA InfoCounts ==
  ASSUME NEW info \in TRecipeInfo
  PROVE  Counts(info)
<1>1. /\ {"id", "steps", "actual", "done", "cs", "batch"} \subseteq DOMAIN info
      /\ info.steps \in UInt8 /\ info.actual \in UInt8
  BY DEF TRecipeInfo
<1> QED
  BY <1>1 DEF Counts, UInt8

\* The changes of an info that keep its number of steps.
LEMMA SameNumber ==
  ASSUME NEW info, Counts(info), NEW x
  PROVE  /\ Counts([info EXCEPT !.cs = x])
         /\ Counts([info EXCEPT !.done = x])
         /\ Counts([info EXCEPT !.batch = x])
         /\ Counts([info EXCEPT !.id = x])
         /\ x \in Nat => Counts([info EXCEPT !.actual = x])
         /\ x \in Nat => Counts([info EXCEPT !.steps = x])
BY DEF Counts

LEMMA SizeChanged ==
  ASSUME NEW card, IsCopy(card), NEW n \in Nat
  PROVE  IsCopy(ChangeRecipeStepsSize(card, n))
BY DEF IsCopy, Counts, ChangeRecipeStepsSize

LEMMA CopiedToWorking ==
  ASSUME Arrays, NEW card, IsCopy(card), NEW infoData, NEW stepsData
  PROVE  LET copy == CopyToWorking(card, infoData, stepsData)
         IN /\ IsCopy(copy.card)
            /\ \E n \in Nat : copy.dirty = Resize(dirty, n)
<1> DEFINE known == [working EXCEPT !.known = card.known]
           array == IF known.created THEN known
                    ELSE ChangeRecipeStepsSize(known, card.info.steps)
           named == [array EXCEPT !.loaded = card.loaded, !.uid = card.uid]
           sized == ChangeRecipeStepsSize(named, card.info.steps)
           told == IF infoData THEN [sized EXCEPT !.info = card.info] ELSE sized
<1>1. card.info.steps \in Nat
  BY DEF IsCopy, Counts
<1>2. IsCopy(known)
  BY DEF Arrays, IsCopy, Counts
<1>3. IsCopy(array)
  BY <1>1, <1>2, SizeChanged
<1>4. IsCopy(named)
  <2> HIDE DEF array
  <2> QED
    BY <1>3 DEF IsCopy, Counts
<1>5. IsCopy(sized)
  <2> HIDE DEF named
  <2> QED
    BY <1>1, <1>4, SizeChanged
<1>6. IsCopy(told)
  <2> HIDE DEF sized
  <2> QED
    BY <1>5 DEF IsCopy
<1> DEFINE copy == CopyToWorking(card, infoData, stepsData)
           clean == {i \in DOMAIN Resize(dirty, told.info.steps) :
                       stepsData /\ ~Resize(dirty, told.info.steps)[i]}
<1>7. /\ copy.card = [told EXCEPT !.steps =
                        [i \in DOMAIN @ |-> IF i \in clean THEN card.steps[i] ELSE @[i]]]
      /\ copy.dirty = Resize(dirty, told.info.steps)
  BY Zenon DEF CopyToWorking
<1> HIDE DEF told, copy, clean
<1>8. IsCopy(copy.card)
  BY <1>6, <1>7 DEF IsCopy, Counts
<1>9. told.info.steps \in Nat
  BY <1>6 DEF IsCopy, Counts
<1> QED
  BY <1>7, <1>8, <1>9 DEF copy

LEMMA CopyChanged ==
  ASSUME NEW card, IsCopy(card), NEW x, NEW i
  PROVE  /\ IsCopy([card EXCEPT !.known = x])
         /\ IsCopy([card EXCEPT !.loaded = x])
         /\ IsCopy([card EXCEPT !.steps = x])
         /\ IsCopy([card EXCEPT !.steps[i] = x])
         /\ IsCopy([card EXCEPT !.steps[i].reserved = x])
         /\ IsCopy([card EXCEPT !.info.done = x])
         /\ IsCopy([card EXCEPT !.info.cs = x])
         /\ IsCopy([card EXCEPT !.info.batch = x])
         /\ Counts(x) => IsCopy([card EXCEPT !.info = x])
BY DEF IsCopy, Counts

\* A step that only moves the call on.
LEMMA OpMoves ==
  ASSUME OpFits, NEW x, NEW y, NEW z
  PROVE  /\ op' = op => OpFits'
         /\ op' = [op EXCEPT !.phase = x] => OpFits'
         /\ op' = [op EXCEPT !.sel = x] => OpFits'
         /\ op' = [op EXCEPT !.next = x] => OpFits'
         /\ op' = [op EXCEPT !.phase = x, !.sel = y, !.next = z] => OpFits'
         /\ op' = [op EXCEPT !.phase = x, !.needInfo = y] => OpFits'
         /\ op' = NoOp => OpFits'
         /\ op' = LoadData => OpFits'
<1>1. op' = NoOp => OpFits'
  BY DEF OpFits, NoOp
<1>2. op' = LoadData => OpFits'
  BY DEF OpFits, LoadData
<1>3. /\ op' = op => OpFits'
      /\ op' = [op EXCEPT !.phase = x] => OpFits'
      /\ op' = [op EXCEPT !.sel = x] => OpFits'
      /\ op' = [op EXCEPT !.next = x] => OpFits'
  BY DEF OpFits
<1>4. op' = [op EXCEPT !.phase = x, !.sel = y, !.next = z] => OpFits'
  BY DEF OpFits
<1>5. op' = [op EXCEPT !.phase = x, !.needInfo = y] => OpFits'
  BY DEF OpFits
<1> QED
  BY <1>1, <1>2, <1>3, <1>4, <1>5

LEMMA OpBegins ==
  ASSUME NEW call, NEW phase, NEW run, NEW left, NEW saved,
         op' = Writing(call, phase, run, left, saved),
         call = "WriteSafeInfo" => Counts(saved)
  PROVE  OpFits'
BY DEF OpFits, Writing

\* What the steps below leave to show.
LEMMA KeepsMarks ==
  ASSUME Arrays
  PROVE  /\ dirty' = dirty => Marks(dirty') /\ Owed
         /\ \A n \in Nat : dirty' = Resize(dirty, n) => Marks(dirty') /\ Owed
         /\ \A n \in Nat, i \in Int :
              dirty' = [Resize(dirty, n) EXCEPT ![i] = TRUE] => Marks(dirty') /\ Owed
         /\ \A n \in Nat : dirty' = [i \in 1 .. n |-> TRUE] => Marks(dirty') /\ Owed
<1>1. dirty' = dirty => Marks(dirty') /\ Owed
  BY DEF Arrays, Owed
<1>2. ASSUME NEW n \in Nat, dirty' = Resize(dirty, n)
      PROVE  Marks(dirty') /\ Owed
  BY <1>2, ResizeKeeps DEF Marks, Owed
<1>3. ASSUME NEW n \in Nat, NEW i \in Int, dirty' = [Resize(dirty, n) EXCEPT ![i] = TRUE]
      PROVE  Marks(dirty') /\ Owed
  <2>1. dirty' \in [1 .. n -> BOOLEAN]
    BY <1>3, ResizeKeeps
  <2> QED
    BY <1>3, <2>1, ResizeKeeps DEF Marks, Owed
<1>4. ASSUME NEW n \in Nat, dirty' = [i \in 1 .. n |-> TRUE]
      PROVE  Marks(dirty') /\ Owed
  BY <1>4 DEF Marks, Owed
<1> QED
  BY <1>1, <1>2, <1>3, <1>4

HandlerKept == /\ Marks(dirty') /\ IsCopy(integrity') /\ IsCopy(working')
               /\ TagsFit' /\ OpFits' /\ Owed

LEMMA StartCallKeeps ==
  ASSUME Arrays, StartCall
  PROVE  HandlerKept
<1>1. TagsFit' /\ Marks(dirty') /\ Owed /\ IsCopy(working')
  <2>1. dirty' = dirty /\ working' = working /\ tags' = tags /\ onReader' = onReader
    BY DEF StartCall, StartLoad, StartWriteSafeInfo, StartWriteSafeStep, StartSync, cards
  <2> QED
    BY <2>1, KeepsMarks DEF Arrays, TagsFit
<1>2. CASE StartLoad
  BY <1>1, <1>2, OpMoves DEF StartLoad, HandlerKept, Arrays, cards
<1>3. CASE StartWriteSafeInfo
  <2>1. Counts(integrity.info) /\ Counts(working.info)
    BY DEF Arrays, IsCopy
  <2>2. OpFits'
    BY <1>3, <2>1, OpBegins, Zenon DEF StartWriteSafeInfo
  <2>3. IsCopy(integrity')
    <3>1. IsCopy([integrity EXCEPT !.known = TRUE])
      BY CopyChanged DEF Arrays
    <3>2. IsCopy([[integrity EXCEPT !.known = TRUE] EXCEPT !.info = working.info])
      BY <2>1, <3>1, CopyChanged
    <3> QED
      BY <1>3, <3>2 DEF StartWriteSafeInfo
  <2> QED
    BY <1>1, <2>2, <2>3 DEF HandlerKept
<1>4. CASE StartWriteSafeStep
  <2>1. OpFits'
    BY <1>4, OpBegins, Zenon DEF StartWriteSafeStep
  <2>2. IsCopy(integrity')
    BY <1>4, CopyChanged DEF StartWriteSafeStep, Arrays
  <2> QED
    BY <1>1, <2>1, <2>2 DEF HandlerKept
<1>5. CASE StartSync
  <2>1. OpFits'
    BY <1>5, OpBegins, Zenon DEF StartSync
  <2> QED
    BY <1>1, <1>5, <2>1 DEF HandlerKept, StartSync, Arrays, cards
<1> QED
  BY <1>2, <1>3, <1>4, <1>5 DEF StartCall

\* What LoadData finds on the tag is an info.
LEMMA LoadInfoKeeps ==
  ASSUME Arrays, LoadInfo
  PROVE  HandlerKept
<1> DEFINE found == tags[onReader].info
           is == IsSameData(found)
           needs == is.newCard \/ ~is.sameInfo
           named == [integrity EXCEPT !.known = TRUE]
           card == [named EXCEPT !.info.batch = found.batch]
           sized == ChangeRecipeStepsSize(card, found.steps)
           new == IF needs THEN [sized EXCEPT !.info = found] ELSE card
           copy == CopyToWorking(new, needs, FALSE)
<1>1. Counts(found) /\ found.steps \in Nat
  BY DEF Arrays, TagsFit, LoadInfo, IsCopy, Counts
<1>2. IsCopy(card)
  <2>1. IsCopy(named)
    BY CopyChanged DEF Arrays
  <2> HIDE DEF named
  <2> QED
    BY <2>1, CopyChanged
<1>3. IsCopy(sized)
  <2> HIDE DEF card
  <2> QED
    BY <1>1, <1>2, SizeChanged
<1>4. IsCopy(new)
  <2> HIDE DEF card, sized, needs, found
  <2> QED
    BY <1>1, <1>2, <1>3, CopyChanged
<1>5. IsCopy(Follows(found)) /\ \A c : IsCopy(c) =>
        IsCopy([c EXCEPT !.info.batch = Follows(found).info.batch])
  BY CopyChanged DEF Follows, Arrays
<1>6. IsCopy(copy.card) /\ \E n \in Nat : copy.dirty = Resize(dirty, n)
  <2> HIDE DEF new, needs
  <2> QED
    BY <1>4, CopiedToWorking
<1>7. TagsFit'
  BY DEF LoadInfo, Arrays, TagsFit
<1>8. /\ integrity' = new
      /\ \/ /\ working' = Follows(found)
            /\ op' = [op EXCEPT !.phase = "steps", !.needInfo = needs]
            /\ dirty' = dirty
         \/ /\ \/ working' = copy.card
               \/ working' = [copy.card EXCEPT !.info.batch = Follows(found).info.batch]
            /\ dirty' = copy.dirty
            /\ op' = NoOp
  BY DEF LoadInfo, Return
<1> HIDE DEF found, new, copy, needs
<1>9. Marks(dirty') /\ Owed
  BY <1>6, <1>8, KeepsMarks
<1>10. IsCopy(working') /\ IsCopy(integrity')
  BY <1>4, <1>5, <1>6, <1>8
<1>11. OpFits'
  BY <1>8, OpMoves DEF Arrays
<1> QED
  BY <1>7, <1>9, <1>10, <1>11 DEF HandlerKept

\* Copying a card over leaves the marks that are owed.
LEMMA CopyKeeps ==
  ASSUME Arrays, NEW card, IsCopy(card), NEW infoData, NEW stepsData,
         Copy(card, infoData, stepsData)
  PROVE  Marks(dirty') /\ Owed /\ IsCopy(integrity') /\ IsCopy(working')
<1>1. /\ integrity' = card
      /\ working' = CopyToWorking(card, infoData, stepsData).card
      /\ dirty' = CopyToWorking(card, infoData, stepsData).dirty
  BY Zenon DEF Copy
<1>2. /\ IsCopy(CopyToWorking(card, infoData, stepsData).card)
      /\ \E n \in Nat :
           CopyToWorking(card, infoData, stepsData).dirty = Resize(dirty, n)
  BY CopiedToWorking, Zenon
<1> QED
  BY <1>1, <1>2, KeepsMarks

LEMMA LoadStepsKeeps ==
  ASSUME Arrays, LoadSteps
  PROVE  HandlerKept
<1>1. IsCopy(StepsRead)
  <2> DEFINE read == [i \in 1 .. integrity.info.steps |-> tags[onReader].steps[i]]
  <2>1. IsCopy([integrity EXCEPT !.steps = read])
    BY CopyChanged DEF Arrays
  <2> HIDE DEF read
  <2>2. IsCopy([[integrity EXCEPT !.steps = read] EXCEPT !.loaded = TRUE])
    BY <2>1, CopyChanged
  <2> QED
    BY <2>2 DEF StepsRead, read
<1>2. TagsFit' /\ OpFits'
  <2>1. tags' = tags /\ onReader' = onReader /\ op' = NoOp
    BY DEF LoadSteps, Return
  <2> QED
    BY <2>1, OpMoves DEF Arrays, TagsFit
<1>3. CASE UNCHANGED cards
  BY <1>2, <1>3, KeepsMarks DEF cards, HandlerKept, Arrays
<1>4. CASE Copy(StepsRead, op.needInfo, TRUE)
  BY <1>1, <1>2, <1>4, CopyKeeps DEF HandlerKept
<1> QED
  BY <1>3, <1>4 DEF LoadSteps

\* The copy that is written from.
LEMMA SetCardKeeps ==
  ASSUME Arrays, NEW c, IsCopy(c), SetCard(c)
  PROVE  IsCopy(integrity') /\ IsCopy(working')
BY DEF SetCard, Arrays

LEMMA PutKeeps ==
  ASSUME Arrays, NEW s, Put(onReader, s), onReader' = onReader
  PROVE  TagsFit'
<1>1. Counts(Card.info)
  BY DEF Arrays, Card, IsCopy
<1>2. ASSUME NEW t \in Tags
      PROVE  IsCopy(tags'[t])
  BY <1>1, CopyChanged DEF Put, Arrays, TagsFit
<1>3. DOMAIN tags' = Tags
  BY DEF Put, Arrays, TagsFit
<1> QED
  BY <1>2, <1>3 DEF TagsFit, Arrays

LEMMA GiveUpKeeps ==
  ASSUME Arrays, GiveUp
  PROVE  HandlerKept
<1>1. TagsFit' /\ OpFits' /\ Marks(dirty') /\ Owed /\ IsCopy(working')
  <2>1. /\ tags' = tags /\ onReader' = onReader /\ op' = NoOp
        /\ dirty' = dirty /\ working' = working
    BY DEF GiveUp, Return
  <2> QED
    BY <2>1, OpMoves, KeepsMarks DEF Arrays, TagsFit
<1>2. IsCopy(integrity')
  <2>1. CASE op.call = "WriteSafeInfo"
    <3>1. integrity' = [integrity EXCEPT !.info = op.saved] /\ Counts(op.saved)
      BY <2>1 DEF GiveUp, Arrays, OpFits
    <3> QED
      BY <3>1, CopyChanged DEF Arrays
  <2>2. CASE op.call = "WriteSafeStep"
    <3>1. integrity' = [integrity EXCEPT !.steps[op.run.from] = op.saved]
      BY <2>2 DEF GiveUp
    <3> QED
      BY <3>1, CopyChanged DEF Arrays
  <2>3. CASE op.call \notin {"WriteSafeInfo", "WriteSafeStep"}
    BY <2>3 DEF GiveUp, Arrays
  <2> QED
    BY <2>1, <2>2, <2>3
<1> QED
  BY <1>1, <1>2 DEF HandlerKept

\* The accesses of a write, before it is read back.
LEMMA WritingKeeps ==
  ASSUME Arrays,
         Retry \/ Sum \/ WriteHead \/ Select \/ WriteStructure \/ Compare
  PROVE  HandlerKept
<1>1. dirty' = dirty /\ onReader' = onReader
  BY DEF Retry, Sum, WriteHead, Select, WriteStructure, Compare, cards
<1>2. Marks(dirty') /\ Owed
  BY <1>1, KeepsMarks
<1>3. TagsFit'
  <2>1. CASE UNCHANGED tags
    BY <1>1, <2>1 DEF Arrays, TagsFit
  <2>2. CASE \E s : Put(onReader, s)
    BY <1>1, <2>2, PutKeeps
  <2> QED
    BY <2>1, <2>2 DEF Retry, Sum, WriteHead, Select, WriteStructure, Compare
<1>4. OpFits'
  <2>1. OpFits
    BY DEF Arrays
  <2>2. CASE Retry
    BY <2>1, <2>2, OpMoves DEF Retry
  <2>3. CASE Sum
    BY <2>1, <2>3, OpMoves DEF Sum
  <2>4. CASE WriteHead
    BY <2>1, <2>4, OpMoves DEF WriteHead
  <2>5. CASE Select
    BY <2>1, <2>5, OpMoves DEF Select
  <2>6. CASE WriteStructure
    BY <2>1, <2>6, OpMoves DEF WriteStructure
  <2>7. CASE Compare
    BY <2>1, <2>7, OpMoves DEF Compare, Return
  <2> QED
    BY <2>2, <2>3, <2>4, <2>5, <2>6, <2>7
<1>5. IsCopy(integrity') /\ IsCopy(working')
  <2>1. CASE Sum
    <3>1. IsCopy(Card)
      BY DEF Card, Arrays
    <3>2. IsCopy([Card EXCEPT !.info.cs = CheckSum(Card)])
      BY <3>1, CopyChanged
    <3>3. SetCard([Card EXCEPT !.info.cs = CheckSum(Card)])
      BY <2>1, Zenon DEF Sum
    <3> QED
      BY <3>2, <3>3, SetCardKeeps
  <2>2. CASE UNCHANGED cards
    BY <2>2 DEF cards, Arrays
  <2> QED
    BY <2>1, <2>2 DEF Retry, WriteHead, Select, WriteStructure, Compare
<1> QED
  BY <1>2, <1>3, <1>4, <1>5 DEF HandlerKept

\* The only step that takes marks off, and it has just seen their steps on the
\* tag.
LEMMA SyncRunWrittenKeeps ==
  ASSUME Arrays, SyncRunWritten, onReader # NoTag, SameOnTag(op.run)
  PROVE  HandlerKept
<1>1. TagsFit' /\ IsCopy(working')
  BY DEF SyncRunWritten, Arrays, TagsFit
<1>2. OpFits'
  <2>1. CASE op' = NoOp
    BY <2>1, OpMoves DEF Arrays
  <2>2. CASE op' = Writing("Sync", "sum", FirstOf(op.left), op.left \ {FirstOf(op.left)}, NoOp)
    BY <2>2, OpBegins
  <2> QED
    BY <2>1, <2>2, Zenon DEF SyncRunWritten, Return
<1>3. IsCopy(integrity')
  <2> DEFINE sized == ChangeRecipeStepsSize([integrity EXCEPT !.known = TRUE],
                                            working.info.steps)
             first == IF op.run.from # 0 THEN integrity
                      ELSE [sized EXCEPT !.info = working.info]
  <2>1. Counts(working.info) /\ working.info.steps \in Nat
    BY DEF Arrays, IsCopy, Counts
  <2>2. IsCopy(sized)
    BY <2>1, CopyChanged, SizeChanged DEF Arrays
  <2>3. IsCopy(first)
    <3> HIDE DEF sized
    <3> QED
      BY <2>1, <2>2, CopyChanged DEF Arrays
  <2>4. integrity' = [first EXCEPT !.steps =
          [i \in DOMAIN @ |-> IF i \in op.run.from .. op.run.to THEN working.steps[i] ELSE @[i]]]
    BY DEF SyncRunWritten, Written
  <2> HIDE DEF first
  <2> QED
    BY <2>3, <2>4, CopyChanged
<1>4. Marks(dirty')
  BY DEF SyncRunWritten, Cleared, Arrays, Marks
<1>5. Owed
  <2>1. ASSUME NEW i \in DOMAIN dirty, dirty[i], ~dirty'[i]
        PROVE  tags[onReader].steps[i] = working.steps[i]
    <3>1. i \in op.run.from .. op.run.to /\ i # 0
      BY <2>1 DEF SyncRunWritten, Cleared, Arrays, Marks
    <3>2. Card = working
      BY DEF SyncRunWritten, Card
    <3> QED
      BY <3>1, <3>2 DEF SameOnTag
  <2> QED
    BY <2>1 DEF Owed
<1> QED
  BY <1>1, <1>2, <1>3, <1>4, <1>5 DEF HandlerKept

LEMMA VerifyKeeps ==
  ASSUME Arrays, Verify
  PROVE  HandlerKept
<1>1. CASE GiveUp
  BY <1>1, GiveUpKeeps
<1>2. CASE Retry
  BY <1>2, WritingKeeps
<1>3. CASE onReader # NoTag /\ SameOnTag(op.run) /\ SyncRunWritten
  BY <1>3, SyncRunWrittenKeeps
<1>4. CASE SafeWriteDone
  <2>1. Copy(integrity, TRUE, op.call = "WriteSafeStep")
    BY <1>4 DEF SafeWriteDone
  <2>2. Marks(dirty') /\ Owed /\ IsCopy(integrity') /\ IsCopy(working')
    BY <2>1, CopyKeeps DEF Arrays
  <2>3. tags' = tags /\ onReader' = onReader /\ op' = NoOp
    BY <1>4 DEF SafeWriteDone, Return
  <2> QED
    BY <2>2, <2>3, OpMoves DEF HandlerKept, Arrays, TagsFit
<1> QED
  BY <1>1, <1>2, <1>3, <1>4 DEF Verify

\* Every step of the handler.
LEMMA HandlerKeeps ==
  ASSUME Arrays, HandlerStep
  PROVE  HandlerKept
<1>1. CASE StartCall
  BY <1>1, StartCallKeeps
<1>2. CASE LoadFails
  <2>1. IsCopy(integrity')
    <3>1. integrity' = integrity \/ integrity' = [integrity EXCEPT !.known = TRUE]
      BY <1>2 DEF LoadFails
    <3>2. IsCopy([integrity EXCEPT !.known = TRUE])
      BY CopyChanged DEF Arrays
    <3> QED
      BY <3>1, <3>2 DEF Arrays
  <2>2. /\ tags' = tags /\ onReader' = onReader /\ op' = NoOp
        /\ dirty' = dirty /\ working' = working
    BY <1>2 DEF LoadFails, Return
  <2> QED
    BY <2>1, <2>2, OpMoves, KeepsMarks DEF HandlerKept, Arrays, TagsFit
<1>3. CASE LoadInfo
  BY <1>3, LoadInfoKeeps
<1>4. CASE LoadSteps
  BY <1>4, LoadStepsKeeps
<1>5. CASE Sum \/ WriteHead \/ Select \/ WriteStructure \/ Compare
  BY <1>5, WritingKeeps
<1>6. CASE OutOfRange \/ AccessLost
  BY <1>6, WritingKeeps, GiveUpKeeps DEF OutOfRange, AccessLost
<1>7. CASE Verify
  BY <1>7, VerifyKeeps
<1>8. CASE MissingArray \/ MissingArrayAtStart
  <2>1. UNCHANGED <<tags, onReader, cards, op>>
    BY <1>8 DEF MissingArray, MissingArrayAtStart, Panic
  <2> QED
    BY <2>1, OpMoves, KeepsMarks DEF HandlerKept, Arrays, TagsFit, cards
<1> QED
  BY <1>1, <1>2, <1>3, <1>4, <1>5, <1>6, <1>7, <1>8 DEF HandlerStep

\* What the reader and its surroundings do between two calls.
StandsStill == UNCHANGED <<tags, onReader, integrity, working, dirty, op>>

LEMMA StillKeeps ==
  ASSUME Arrays, StandsStill
  PROVE  HandlerKept
BY OpMoves, KeepsMarks DEF StandsStill, HandlerKept, Arrays, TagsFit

LEMMA MarkDoneKeeps ==
  ASSUME Arrays, NEW s, MarkDone(s)
  PROVE  HandlerKept
<1>1. /\ working' = [working EXCEPT !.info.done = TRUE]
      /\ UNCHANGED <<tags, onReader, integrity, dirty, op>>
  BY DEF MarkDone, KeepTag
<1>2. IsCopy(working')
  BY <1>1, CopyChanged DEF Arrays
<1> QED
  BY <1>1, <1>2, OpMoves, KeepsMarks DEF HandlerKept, Arrays, TagsFit

LEMMA NewRecipeIsCopy ==
  ASSUME NEW owners \in Seq(UInt16)
  PROVE  /\ IsCopy(NewRecipe(owners)) /\ NewRecipe(owners).info.steps = Len(owners)
         /\ Len(owners) \in Nat
<1> DEFINE card == [info    |-> [noInfo EXCEPT !.steps = Len(owners), !.batch = batches + 1],
                    steps   |-> [i \in 1 .. Len(owners) |-> [EmptyStep EXCEPT !.owner = owners[i]]],
                    known   |-> TRUE,
                    created |-> owners # <<>>,
                    loaded  |-> FALSE,
                    uid     |-> NoUid]
<1>1. IsCopy(card) /\ card.info.steps = Len(owners)
  <2> DEFINE info == [noInfo EXCEPT !.steps = Len(owners), !.batch = batches + 1]
  <2>1. Counts(info) /\ info.steps = Len(owners)
    BY DEF Counts, noInfo
  <2>2. card.info = info /\ {"info", "steps"} \subseteq DOMAIN card
    OBVIOUS
  <2> QED
    BY <2>1, <2>2 DEF IsCopy
<1>2. NewRecipe(owners) = [card EXCEPT !.info.cs = CheckSum(card)]
  BY Zenon DEF NewRecipe, GetCardInfoByNumber
<1> HIDE DEF card
<1>3. IsCopy([card EXCEPT !.info.cs = CheckSum(card)])
  BY <1>1, CopyChanged
<1>4. [card EXCEPT !.info.cs = CheckSum(card)].info.steps = card.info.steps
  BY <1>1 DEF IsCopy, Counts
<1> QED
  BY <1>1, <1>2, <1>3, <1>4

LEMMA InitTCardInfoIsCopy ==
  ASSUME NEW info, Counts(info)
  PROVE  IsCopy(InitTCardInfo(info))
BY DEF IsCopy, InitTCardInfo

\* A step is marked when the cell has done it.
LEMMA CompletionOkKeeps ==
  ASSUME Arrays, CompletionOk
  PROVE  HandlerKept
<1>1. /\ working' = Advance /\ dirty' = WriteStep(working, Current)
      /\ UNCHANGED <<tags, onReader, integrity, op>>
  BY DEF CompletionOk, KeepTag
<1>2. IsCopy(Advance)
  <2>1. Counts(working.info) /\ Current \in Nat
    BY DEF Arrays, IsCopy, Counts, Current, Info
  <2>2. \A x, y : Counts([working.info EXCEPT !.actual = Current, !.done = x])
    BY <2>1 DEF Counts
  <2>3. /\ Advance.info = [working.info EXCEPT !.actual = Current,
                                              !.done = Info.done \/ Current >= Info.steps]
        /\ DOMAIN Advance = DOMAIN working
    BY DEF Advance, Arrays, IsCopy
  <2>4. Counts(Advance.info)
    BY <2>2, <2>3
  <2> QED
    BY <2>3, <2>4 DEF IsCopy, Arrays
<1>3. Marks(dirty') /\ Owed
  <2>1. working.info.steps \in Nat
    BY DEF Arrays, IsCopy, Counts
  <2>2. dirty' = [Resize(dirty, working.info.steps) EXCEPT ![Current] = TRUE]
    BY <1>1 DEF WriteStep
  <2> QED
    BY <2>1, <2>2, ResizeKeeps DEF Marks, Owed
<1> QED
  BY <1>1, <1>2, <1>3, OpMoves DEF HandlerKept, Arrays, TagsFit

\* With a recipe of the reader's own every step is owed.
LEMMA PresunKeeps ==
  ASSUME Arrays, Presun
  PROVE  HandlerKept
<1>1. /\ integrity' = InitTCardInfo(integrity.info)
      /\ working' = [NewRecipe(ToStorage) EXCEPT !.info.id = 1]
      /\ dirty' = [i \in 1 .. Len(ToStorage) |-> TRUE]
      /\ UNCHANGED <<tags, onReader, op>>
  BY DEF Presun
<1>2. IsCopy(NewRecipe(ToStorage)) /\ Len(ToStorage) \in Nat
  BY NewRecipeIsCopy, RecipesAssumption
<1>3. IsCopy(working')
  BY <1>1, <1>2 DEF IsCopy, Counts
<1>4. IsCopy(integrity')
  BY <1>1, InitTCardInfoIsCopy DEF Arrays, IsCopy
<1>5. Marks(dirty') /\ Owed
  BY <1>1, <1>2, KeepsMarks
<1> QED
  BY <1>1, <1>3, <1>4, <1>5, OpMoves DEF HandlerKept, Arrays, TagsFit

LEMMA NovyReceptKeeps ==
  ASSUME Arrays, NovyRecept
  PROVE  HandlerKept /\ receiptCounter' \in Nat
<1> DEFINE number == IF receiptCounter >= Len(Recipes) THEN 0 ELSE receiptCounter
           card == NewRecipe(Recipes[number + 1])
<1>1. number \in Nat /\ number + 1 \in 1 .. Len(Recipes)
  BY RecipesAssumption DEF Arrays
<1>2. Recipes[number + 1] \in Seq(UInt16)
  <2> HIDE DEF number
  <2>1. Recipes \in Seq(Seq(UInt16))
    BY RecipesAssumption
  <2> QED
    BY <1>1, <2>1
<1>3. /\ receiptCounter' = number + 1 /\ AddCardInfoToWorking(card)
      /\ UNCHANGED <<tags, onReader, integrity, op>>
  BY DEF NovyRecept, KeepTag
<1> HIDE DEF number
<1>4. IsCopy(card) /\ card.info.steps \in Nat
  BY <1>2, NewRecipeIsCopy
<1> HIDE DEF card
<1>5. IsCopy(working')
  BY <1>3, <1>4 DEF AddCardInfoToWorking, IsCopy, Counts
<1>6. Marks(dirty') /\ Owed
  BY <1>3, <1>4, KeepsMarks DEF AddCardInfoToWorking
<1>7. TagsFit' /\ OpFits' /\ IsCopy(integrity')
  BY <1>3, OpMoves DEF Arrays, TagsFit
<1>8. receiptCounter' \in Nat
  BY <1>1, <1>3
<1> QED
  BY <1>5, <1>6, <1>7, <1>8 DEF HandlerKept

LEMMA TargetReservedKeeps ==
  ASSUME Arrays, TargetReserved
  PROVE  HandlerKept
<1>1. /\ working' = [working EXCEPT !.steps[Current].reserved = TargetOf(Current)]
      /\ UNCHANGED <<tags, onReader, integrity, dirty, op>>
  BY DEF TargetReserved, KeepTag
<1>2. IsCopy([working EXCEPT !.steps[Current].reserved = TargetOf(Current)])
  BY CopyChanged DEF Arrays
<1>3. IsCopy(working')
  BY <1>1, <1>2
<1> QED
  BY <1>1, <1>3, OpMoves, KeepsMarks DEF HandlerKept, Arrays, TagsFit

\* After a restart no step is marked, nor has working any.
LEMMA RestartKeeps ==
  ASSUME Arrays, Restart
  PROVE  HandlerKept
<1>1. Counts(StackInfo)
  BY FirstTagsAssumption, InfoCounts
<1>2. IsCopy(integrity') /\ IsCopy(working')
  BY <1>1, InitTCardInfoIsCopy DEF Restart
<1>3. Marks(dirty') /\ Owed
  <2>1. dirty' = <<>>
    BY DEF Restart
  <2>2. dirty' \in [1 .. 0 -> BOOLEAN]
    BY <2>1
  <2> QED
    BY <2>2 DEF Marks, Owed
<1>4. tags' = tags /\ onReader' = onReader /\ op' = NoOp
  BY DEF Restart
<1> QED
  BY <1>2, <1>3, <1>4, OpMoves DEF HandlerKept, Arrays, TagsFit

\* What other cells write is an info too.
LEMMA ElsewhereKeeps ==
  ASSUME Arrays, NEW t \in Tags, DoneElsewhere(t) \/ SentHere(t)
  PROVE  HandlerKept
<1>1. UNCHANGED <<onReader, integrity, working, dirty, op>>
  BY DEF DoneElsewhere, SentHere, cards
<1>2. TagsFit'
  <2>1. CASE DoneElsewhere(t)
    <3> DEFINE i == tags[t].info.actual + 1
               last == i = tags[t].info.steps
               info == [tags[t].info EXCEPT !.actual = i, !.done = last]
    <3>1. Counts(info)
      BY DEF Arrays, TagsFit, IsCopy, Counts
    <3>2. \E x, y : tags' = [tags EXCEPT ![t] = [info |-> [info EXCEPT !.cs = x], steps |-> y]]
      BY <2>1, Zenon DEF DoneElsewhere
    <3> HIDE DEF info
    <3>3. PICK x, y :
            tags' = [tags EXCEPT ![t] = [info |-> [info EXCEPT !.cs = x], steps |-> y]]
      BY <3>2
    <3>4. Counts([info EXCEPT !.cs = x])
      BY <3>1, SameNumber
    <3> QED
      BY <1>1, <3>3, <3>4 DEF TagsFit, IsCopy, Arrays
  <2>2. CASE SentHere(t)
    <3>1. \E x, y : tags' = [tags EXCEPT ![t].steps = x, ![t].info.cs = y]
      BY <2>2, Zenon DEF SentHere
    <3>2. PICK x, y : tags' = [tags EXCEPT ![t].steps = x, ![t].info.cs = y]
      BY <3>1
    <3>3. DOMAIN tags' = Tags /\ \A u \in Tags \ {t} : tags'[u] = tags[u]
      BY <3>2 DEF Arrays, TagsFit
    <3>4. tags'[t] = [[tags[t] EXCEPT !.steps = x] EXCEPT !.info.cs = y]
      BY <3>2 DEF Arrays, TagsFit
    <3> DEFINE read == [tags[t] EXCEPT !.steps = x]
    <3>5. IsCopy(read)
      BY CopyChanged DEF Arrays, TagsFit
    <3> HIDE DEF read
    <3>6. IsCopy([read EXCEPT !.info.cs = y])
      BY <3>5, CopyChanged
    <3>7. tags'[t] = [read EXCEPT !.info.cs = y]
      BY <3>4 DEF read
    <3>8. IsCopy(tags'[t])
      BY <3>6, <3>7
    <3> QED
      BY <1>1, <3>3, <3>8 DEF TagsFit, Arrays
  <2> QED
    BY <2>1, <2>2
<1> QED
  BY <1>1, <1>2, OpMoves, KeepsMarks DEF HandlerKept, Arrays

LEMMA MovesKeep ==
  ASSUME Arrays, TakeAway \/ \E t \in Tags : PutDown(t)
  PROVE  HandlerKept
<1>1. UNCHANGED <<tags, integrity, working, dirty>> /\ onReader' \in Tags \cup {NoTag}
  BY DEF TakeAway, PutDown, cards
<1>2. op' = op \/ op' = [op EXCEPT !.sel = NoTag]
  BY DEF TakeAway, PutDown
<1>3. OpFits'
  BY <1>2, OpMoves DEF Arrays
<1>4. Marks(dirty') /\ Owed
  BY <1>1, KeepsMarks
<1> QED
  BY <1>1, <1>3, <1>4 DEF HandlerKept, Arrays, TagsFit

\* The steps of the reader that leave the copies and the tag alone.
LEMMA QuietKeeps ==
  ASSUME Arrays,
         \/ Gone \/ MimoPolozena \/ LoadFailed \/ EmptyTag \/ Rescan
         \/ LocalRefused \/ LocalReserved \/ LocalMarked
         \/ PostStep \/ GateBlocked \/ KonecReceptu
         \/ TargetRefused \/ TransportFailed \/ TransportStarted
  PROVE  HandlerKept /\ receiptCounter' = receiptCounter
<1>1. CASE Gone \/ LoadFailed \/ EmptyTag \/ PostStep \/ GateBlocked \/ KonecReceptu
           \/ TransportFailed \/ TransportStarted
  BY <1>1, StillKeeps DEF Gone, LoadFailed, EmptyTag, PostStep, GateBlocked, KonecReceptu,
     TransportFailed, TransportStarted, StandsStill, hVars, cards
<1>2. CASE MimoPolozena
  BY <1>2, StillKeeps DEF MimoPolozena, StandsStill, cards
<1>3. CASE Rescan \/ LocalRefused \/ LocalReserved \/ LocalMarked \/ TargetRefused
  <2>1. UNCHANGED hVars /\ Reported
    BY <1>3 DEF Rescan, LocalRefused, LocalReserved, LocalMarked, TargetRefused, Decide
  <2> QED
    BY <2>1, StillKeeps DEF StandsStill, hVars, cards, Reported
<1> QED
  BY <1>1, <1>2, <1>3

\* Every step of the reader and of what is around it.
LEMMA NextKeeps ==
  ASSUME Arrays, Next
  PROVE  Arrays' /\ Owed
<1> SUFFICES HandlerKept /\ receiptCounter' \in Nat
  BY DEF HandlerKept, Arrays
<1> receiptCounter \in Nat
  BY DEF Arrays
<1>1. CASE Gone \/ MimoPolozena \/ LoadFailed \/ EmptyTag \/ Rescan
           \/ LocalRefused \/ LocalReserved \/ LocalMarked
           \/ PostStep \/ GateBlocked \/ KonecReceptu
           \/ TargetRefused \/ TransportFailed \/ TransportStarted
  BY <1>1, QuietKeeps
<1>2. CASE ReportRefused \/ CompletionFailed
  BY <1>2, MarkDoneKeeps DEF ReportRefused, CompletionFailed
<1>3. CASE RecipeFinished
  <2>1. CASE MarkDone("Konec")
    BY <1>3, <2>1, MarkDoneKeeps DEF RecipeFinished, Reported
  <2>2. CASE KeepHandler
    BY <1>3, <2>2, StillKeeps DEF RecipeFinished, Reported, KeepHandler, StandsStill, hVars, cards
  <2> QED
    BY <1>3, <2>1, <2>2 DEF RecipeFinished
<1>4. CASE CompletionOk
  BY <1>4, CompletionOkKeeps DEF CompletionOk
<1>5. CASE Presun
  BY <1>5, PresunKeeps DEF Presun
<1>6. CASE NovyRecept
  BY <1>6, NovyReceptKeeps
<1>7. CASE TargetReserved
  <2>1. receiptCounter' = receiptCounter
    BY <1>7 DEF TargetReserved, Decide, Reported
  <2> QED
    BY <1>7, <2>1, TargetReservedKeeps
<1>8. CASE HandlerWorks
  BY <1>8, HandlerKeeps DEF HandlerWorks
<1>9. CASE PollCard \/ GuardExpires \/ CellWorks
  BY <1>9, StillKeeps DEF PollCard, GuardExpires, CellWorks, StandsStill, hVars, cards, aasVars
<1>10. CASE Leaves \/ \E t \in Tags : Arrives(t)
  BY <1>10, MovesKeep DEF Leaves, Arrives, aasVars
<1>11. CASE Reboot
  BY <1>11, RestartKeeps DEF Reboot, Restart
<1>12. CASE \E t \in Tags : DoneElsewhere(t) \/ SentHere(t)
  <2>1. receiptCounter' = receiptCounter
    BY <1>12 DEF DoneElsewhere, SentHere, aasVars
  <2> QED
    BY <1>12, <2>1, ElsewhereKeeps
<1> QED
  BY <1>1, <1>2, <1>3, <1>4, <1>5, <1>6, <1>7, <1>8, <1>9, <1>10, <1>11, <1>12
     DEF Next, Reader, Decides

LEMMA InitFits == Init => Arrays
<1> SUFFICES ASSUME Init PROVE Arrays
  OBVIOUS
<1>1. Marks(dirty) /\ OpFits /\ receiptCounter \in Nat
  BY DEF Init, HandlerInit, Marks, OpFits, NoOp
<1>2. Counts(StackInfo)
  BY FirstTagsAssumption, InfoCounts
<1>3. IsCopy(integrity) /\ IsCopy(working)
  BY <1>2, InitTCardInfoIsCopy DEF Init, HandlerInit
<1>4. TagsFit
  <2>1. tags \in [Tags -> [info : TRecipeInfo, steps : [1 .. MaxSteps -> TRecipeStep]]]
    BY FirstTagsAssumption DEF Init
  <2>2. \A t \in Tags : IsCopy(tags[t])
    BY <2>1, InfoCounts DEF IsCopy
  <2> QED
    BY <2>1, <2>2 DEF TagsFit, Init
<1> QED
  BY <1>1, <1>3, <1>4 DEF Arrays

\* A step working owes the tag is owed until a tag on the reader holds it, or
\* the recipe has another length or is given up (OwedUntilWritten), for every
\* number of tags and steps, every set of recipes, products lifted, exchanged and
\* put back between any two accesses, writes given up, and restarts.
THEOREM ReaderOwesUntilWritten == Spec => OwedUntilWritten
<1>1. Arrays /\ [Next]_vars => Arrays' /\ [Owed]_vars
  <2> SUFFICES ASSUME Arrays, [Next]_vars PROVE Arrays' /\ [Owed]_vars
    OBVIOUS
  <2>1. CASE Next
    BY <2>1, NextKeeps
  <2>2. CASE UNCHANGED vars
    BY <2>2 DEF vars, hVars, cards, aasVars, Arrays, Marks, TagsFit, OpFits
  <2> QED
    BY <2>1, <2>2
<1>2. Spec => [][Owed]_vars
  BY <1>1, InitFits, PTL DEF Spec
<1> QED
  BY <1>2, PTL DEF OwedUntilWritten, Owed

-----------------------------------------------------------------------------
\* A product leaves for a cell marked.

\* The hypotheses: products stay until they are waited for, a single one is
\* under way, and none comes with a cell the old flow has inquired.
Plain == {step \in TRecipeStep : step.cell = 0}
OneProduct == ~Travels \/ \A t, u \in Tags : t = u
NoneInquired == \A f \in FirstTags : \A t \in Tags : \A i \in 1 .. MaxSteps : f[t].steps[i].cell = 0

ArrayFits(steps) == \E n \in 0 .. MaxSteps : steps \in [1 .. n -> Plain]
CopyFits(card) == "known" \in DOMAIN card /\ ArrayFits(card.steps)
TagFits(tag) == tag.info.steps <= MaxSteps /\ tag.steps \in [1 .. MaxSteps -> Plain]

Writes == {"WriteSafeInfo", "WriteSafeStep", "Sync"}
WriteFields == {"call", "phase", "run", "left", "saved", "sel", "next"}
Ranges == {run \in [from : Nat, to : Nat] : run.from <= run.to}
LoadShape == /\ op.call = "LoadData" /\ DOMAIN op = {"call", "phase", "needInfo"}
             /\ op.phase \in {"info", "steps"} /\ op.needInfo \in BOOLEAN
WriteShape == /\ op.call \in Writes /\ DOMAIN op = WriteFields
              /\ op.phase \in {"compare", "sum", "head", "select", "write", "verify"}
              /\ op.run \in Ranges /\ op.left \subseteq Ranges
OpShape == op = NoOp \/ LoadShape \/ WriteShape

\* What a call has ensured by now.
OpBounds ==
  /\ op.call = "LoadData" /\ op.phase = "steps" =>
       integrity.known /\ integrity.info.steps <= MaxSteps
  /\ op.call = "WriteSafeStep" => op.saved \in Plain /\ at = "gate"
  /\ op.call \in Writes /\ op.phase \in {"head", "select", "write", "verify"} =>
       op.run.to <= Card.info.steps /\ Card.info.steps <= Len(Card.steps)
  /\ op.call \in Writes /\ op.phase = "write" => op.next \in op.run.from .. op.run.to

CallsFit ==
  \/ at = "gate"
  \/ calls \in {<<>>, <<"LoadData">>, <<"WriteSafeInfo", "Sync">>, <<"Sync">>}

Present == raf # "Wait" /\ (cardOnReader \/ at # "loop") => onReader # NoTag

\* The step the gate is for, on the tag or in a copy.
GateStep == gate.stepIndex + 1
IsMarked(step) == step.reserved = gate.targetCellId /\ step.owner = gate.targetCellId
OnTag(s) ==
  IF s = 0 THEN AllBytes(tags[onReader].info) = AllBytes(Card.info)
  ELSE tags[onReader].steps[s] = Card.steps[s]
Transferred ==
  /\ op.phase = "write" => op.sel = onReader
                           /\ \A s \in op.run.from .. op.next - 1 : OnTag(s)
  /\ op.phase = "verify" => SameOnTag(op.run)

Loading ==
  at = "loaded" =>
    \/ calls = <<"LoadData">> /\ op = NoOp
    \/ calls = <<>> /\ op.call = "LoadData"
    \/ calls = <<>> /\ op = NoOp
       /\ (result.value = 0 => integrity.known /\ working.info.steps = integrity.info.steps)

StepOnTag == IsMarked(tags[onReader].steps[GateStep])
InfoOnTag == tags[onReader].info.actual = working.info.actual

ToWrite == /\ calls = <<"WriteSafeStep", "Sync">> /\ op = NoOp
           /\ working.info.actual = gate.stepIndex
           /\ GateStep <= working.info.steps /\ working.info.steps = integrity.info.steps
           /\ integrity.known
BeingWritten == /\ calls = <<"Sync">> /\ op.call = "WriteSafeStep"
                /\ op.run = [from |-> GateStep, to |-> GateStep]
                /\ GateStep \in DOMAIN integrity.steps /\ GateStep <= integrity.info.steps
                /\ IsMarked(integrity.steps[GateStep]) /\ integrity.known
                /\ op.phase # "compare" /\ Transferred
ToSync == /\ calls = <<"Sync">> /\ op = NoOp /\ StepOnTag
          /\ Len(dirty) = working.info.steps /\ working.known
Syncing == /\ calls = <<>> /\ op.call = "Sync" /\ StepOnTag /\ working.known
           /\ op.run.to <= working.info.steps
           /\ \A r \in op.left : r.to <= working.info.steps
           /\ op.run.from = 0 \/ InfoOnTag
           /\ op.phase = "compare" => op.run.from = 0
           /\ Transferred
Synced == calls = <<>> /\ op = NoOp /\ StepOnTag /\ InfoOnTag

\* The step is marked in working, and the marker is on its way to the tag.
Marked == /\ targetHolds /\ gate.stepIndex \in Nat
          /\ GateStep \in DOMAIN working.steps /\ IsMarked(working.steps[GateStep])
OnItsWay == ToWrite \/ BeingWritten \/ ToSync \/ Syncing \/ Synced
AtGate == at = "gate" => Marked /\ OnItsWay

CopiesFit == /\ CopyFits(integrity) /\ CopyFits(working)
             /\ \A t \in Tags : TagFits(tags[t])
AtMimo == at # "loop" => raf = "Mimo"

Carried == /\ CopiesFit /\ OpShape /\ OpBounds
           /\ CallsFit /\ Present /\ AtMimo /\ Loading /\ AtGate

-----------------------------------------------------------------------------
\* Lemmas about steps, arrays and copies.

LEMMA PlainStep ==
  /\ \A step \in Plain : /\ step.owner \in UInt16 /\ step.cell = 0
                         /\ [step EXCEPT !.done = TRUE] \in Plain
                         /\ \A x \in UInt16 : /\ [step EXCEPT !.reserved = x] \in Plain
                                              /\ [step EXCEPT !.reserved = x].reserved = x
                                              /\ [step EXCEPT !.reserved = x].owner = step.owner
  /\ EmptyStep \in Plain /\ \A x \in UInt16 : [EmptyStep EXCEPT !.owner = x] \in Plain
<1>1. 0 \in UInt8 /\ 0 \in UInt16
  BY DEF UInt8, UInt16
<1>2. \A step \in Plain : step.owner \in UInt16 /\ step.cell = 0
  BY DEF Plain, TRecipeStep
<1>3. \A step \in Plain : [step EXCEPT !.done = TRUE] \in Plain
  BY DEF Plain, TRecipeStep
<1>4. \A step \in Plain : \A x \in UInt16 :
        /\ [step EXCEPT !.reserved = x] \in Plain
        /\ [step EXCEPT !.reserved = x].reserved = x
        /\ [step EXCEPT !.reserved = x].owner = step.owner
  BY DEF Plain, TRecipeStep
<1>5. EmptyStep \in Plain /\ \A x \in UInt16 : [EmptyStep EXCEPT !.owner = x] \in Plain
  BY <1>1 DEF Plain, TRecipeStep, EmptyStep
<1> QED
  BY <1>2, <1>3, <1>4, <1>5

LEMMA ArrayOf ==
  ASSUME NEW steps, ArrayFits(steps)
  PROVE  /\ Len(steps) \in 0 .. MaxSteps /\ DOMAIN steps = 1 .. Len(steps)
         /\ steps \in [1 .. Len(steps) -> Plain]
<1>1. PICK n \in 0 .. MaxSteps : steps \in [1 .. n -> Plain]
  BY DEF ArrayFits
<1>2. n \in Nat
  BY MaxStepsAssumption
<1>3. Len(steps) = n
  BY <1>1, <1>2
<1> QED
  BY <1>1, <1>3

LEMMA ArrayPut ==
  ASSUME NEW steps, ArrayFits(steps), NEW i, NEW x, i \in DOMAIN steps => x \in Plain
  PROVE  /\ ArrayFits([steps EXCEPT ![i] = x])
         /\ Len([steps EXCEPT ![i] = x]) = Len(steps)
<1>1. Len(steps) \in Nat /\ Len(steps) \in 0 .. MaxSteps
      /\ steps \in [1 .. Len(steps) -> Plain]
  BY ArrayOf, MaxStepsAssumption
<1>2. [steps EXCEPT ![i] = x] \in [1 .. Len(steps) -> Plain]
  BY <1>1
<1> QED
  BY <1>1, <1>2 DEF ArrayFits

\* What resizing an array keeps.
LEMMA Resized ==
  ASSUME NEW card, IsCopy(card), CopyFits(card), NEW n \in 0 .. MaxSteps
  PROVE  LET sized == ChangeRecipeStepsSize(card, n)
         IN /\ CopyFits(sized) /\ sized.known = card.known
            /\ sized.info.actual = card.info.actual
            /\ card.known => sized.info.steps = n
            /\ \A i \in DOMAIN card.steps :
                 i <= n => i \in DOMAIN sized.steps /\ sized.steps[i] = card.steps[i]
<1>0. n \in Nat
  BY MaxStepsAssumption
<1>1. CASE ~card.known \/ n = card.info.steps
  BY <1>1 DEF ChangeRecipeStepsSize
<1>2. CASE ~(~card.known \/ n = card.info.steps)
  <2> DEFINE array == [i \in 1 .. n |-> IF i <= Len(card.steps) THEN card.steps[i]
                                        ELSE EmptyStep]
  <2>1. array \in [1 .. n -> Plain]
    <3>1. Len(card.steps) \in Nat /\ card.steps \in [1 .. Len(card.steps) -> Plain]
      BY ArrayOf, MaxStepsAssumption DEF CopyFits
    <3> QED
      BY <3>1, PlainStep, <1>0
  <2>2. \A i \in DOMAIN card.steps : i <= n => i \in 1 .. n /\ array[i] = card.steps[i]
    BY ArrayOf, MaxStepsAssumption, <1>0 DEF CopyFits
  <2>3. PICK x, y : ChangeRecipeStepsSize(card, n) =
               [card EXCEPT !.info.steps = n, !.created = x, !.loaded = y, !.steps = array]
    BY <1>2, Zenon DEF ChangeRecipeStepsSize
  <2> DEFINE sized == [card EXCEPT !.info.steps = n, !.created = x, !.loaded = y,
                                   !.steps = array]
  <2> HIDE DEF array
  <2>4. /\ sized.steps = array /\ sized.known = card.known /\ "known" \in DOMAIN sized
        /\ sized.info.steps = n /\ sized.info.actual = card.info.actual
    BY DEF IsCopy, Counts, CopyFits
  <2>5. ArrayFits(array) /\ DOMAIN array = 1 .. n
    BY <2>1, <1>0 DEF ArrayFits
  <2> HIDE DEF sized
  <2>6. CopyFits(sized)
    BY <2>4, <2>5 DEF CopyFits
  <2>7. ChangeRecipeStepsSize(card, n) = sized
    BY <2>3 DEF sized
  <2> QED
    BY <2>2, <2>4, <2>5, <2>6, <2>7
<1> QED
  BY <1>1, <1>2

\* What each resizing leaves in c of working and of the card that is copied.
StillTold(c, card) ==
  /\ IsCopy(c) /\ CopyFits(c) /\ c.known = card.known
  /\ \A i \in DOMAIN working.steps :
       i <= card.info.steps => i \in DOMAIN c.steps /\ c.steps[i] = working.steps[i]

LEMMA ResizedStillTold ==
  ASSUME NEW card, card.info.steps \in 0 .. MaxSteps, NEW c, StillTold(c, card)
  PROVE  /\ StillTold(ChangeRecipeStepsSize(c, card.info.steps), card)
         /\ card.known => ChangeRecipeStepsSize(c, card.info.steps).info.steps = card.info.steps
<1> DEFINE n == card.info.steps
           resized == ChangeRecipeStepsSize(c, n)
<1>1. n \in Nat
  BY MaxStepsAssumption
<1>2. /\ CopyFits(resized) /\ resized.known = c.known
      /\ c.known => resized.info.steps = n
      /\ \A i \in DOMAIN c.steps :
           i <= n => i \in DOMAIN resized.steps /\ resized.steps[i] = c.steps[i]
  BY Resized DEF StillTold
<1>3. IsCopy(resized)
  BY <1>1, SizeChanged DEF StillTold
<1> HIDE DEF resized
<1> QED
  BY <1>2, <1>3 DEF resized, StillTold

\* What copying a card over keeps of working.
LEMMA Told ==
  ASSUME Arrays, CopyFits(working), NEW card, IsCopy(card), CopyFits(card),
         card.info.steps \in 0 .. MaxSteps, NEW infoData \in BOOLEAN, NEW stepsData \in BOOLEAN,
         stepsData => CopyToWorking(card, infoData, stepsData).ok
  PROVE  LET copy == CopyToWorking(card, infoData, stepsData)
         IN /\ CopyFits(copy.card) /\ copy.card.known = card.known
            /\ infoData => copy.card.info = card.info
            /\ card.known => copy.card.info.steps = card.info.steps
            /\ copy.dirty = Resize(dirty, copy.card.info.steps)
            /\ \A i \in DOMAIN working.steps :
                 i <= card.info.steps =>
                   /\ i \in DOMAIN copy.card.steps
                   /\ \/ copy.card.steps[i] = working.steps[i]
                      \/ i \in DOMAIN card.steps /\ copy.card.steps[i] = card.steps[i]
<1> DEFINE n == card.info.steps
           known == [working EXCEPT !.known = card.known]
           array == IF known.created THEN known ELSE ChangeRecipeStepsSize(known, n)
           named == [array EXCEPT !.loaded = card.loaded, !.uid = card.uid]
           sized == ChangeRecipeStepsSize(named, n)
           told == IF infoData THEN [sized EXCEPT !.info = card.info] ELSE sized
<1>1. StillTold(known, card)
  BY DEF Arrays, IsCopy, Counts, CopyFits, StillTold
<1>2. StillTold(ChangeRecipeStepsSize(known, n), card)
  BY <1>1, ResizedStillTold
<1>3. StillTold(array, card)
  BY <1>1, <1>2
<1>4. StillTold(named, card)
  <2> HIDE DEF array
  <2> QED
    BY <1>3 DEF IsCopy, CopyFits, StillTold
<1>5. StillTold(sized, card) /\ (card.known => sized.info.steps = n)
  <2> HIDE DEF named
  <2> QED
    BY <1>4, ResizedStillTold
<1>6. /\ StillTold(told, card) /\ (infoData => told.info = card.info)
      /\ card.known => told.info.steps = n
  <2> HIDE DEF sized
  <2> QED
    BY <1>5 DEF IsCopy, CopyFits, StillTold
<1> DEFINE flags == Resize(dirty, told.info.steps)
           clean == {i \in DOMAIN flags : stepsData /\ ~flags[i]}
           steps == [i \in DOMAIN told.steps |-> IF i \in clean THEN card.steps[i]
                                                 ELSE told.steps[i]]
           copy == CopyToWorking(card, infoData, stepsData)
<1>7. /\ copy.card = [told EXCEPT !.steps = steps]
      /\ copy.dirty = flags
      /\ copy.ok <=> \A i \in clean : i <= Len(card.steps) /\ i <= Len(told.steps)
  BY Zenon DEF CopyToWorking
<1> HIDE DEF told, copy, flags
<1>8. \A i \in clean : i \in Int /\ i >= 1
  <2>1. told.info.steps \in Nat
    BY <1>6 DEF StillTold, IsCopy, Counts
  <2> QED
    BY <2>1 DEF flags, Resize
<1>9. \A i \in clean : i \in DOMAIN card.steps
  <2>1. \A i \in clean : stepsData
    OBVIOUS
  <2>2. copy.ok => \A i \in clean : i <= Len(card.steps)
    BY <1>7, Zenon
  <2>3. stepsData => copy.ok
    BY DEF copy
  <2> HIDE DEF clean
  <2>4. \A i \in clean : i <= Len(card.steps)
    BY <2>1, <2>2, <2>3, Zenon
  <2>5. DOMAIN card.steps = 1 .. Len(card.steps) /\ Len(card.steps) \in Nat
    BY ArrayOf, MaxStepsAssumption DEF CopyFits
  <2> QED
    BY <1>8, <2>4, <2>5
<1> HIDE DEF clean
<1>10. ArrayFits(steps)
  <2>1. /\ Len(told.steps) \in 0 .. MaxSteps
        /\ told.steps \in [1 .. Len(told.steps) -> Plain]
    BY <1>6, ArrayOf DEF CopyFits, StillTold
  <2>2. \A i \in DOMAIN card.steps : card.steps[i] \in Plain
    BY ArrayOf DEF CopyFits
  <2>3. steps \in [1 .. Len(told.steps) -> Plain]
    BY <1>9, <2>1, <2>2
  <2> HIDE DEF steps
  <2> QED
    BY <2>1, <2>3 DEF ArrayFits
<1>11. \A i \in DOMAIN working.steps :
         i <= n => /\ i \in DOMAIN steps
                   /\ \/ steps[i] = working.steps[i]
                      \/ i \in DOMAIN card.steps /\ steps[i] = card.steps[i]
  BY <1>6, <1>9 DEF StillTold
<1> HIDE DEF steps
<1>12. /\ copy.card.steps = steps /\ copy.card.known = told.known
       /\ copy.card.info = told.info /\ "known" \in DOMAIN copy.card
  BY <1>6, <1>7 DEF IsCopy, CopyFits, StillTold
<1> QED
  BY <1>6, <1>7, <1>10, <1>11, <1>12 DEF CopyFits, copy, flags, StillTold

\* Of any numbers there is a least.
LEMMA LeastOf ==
  ASSUME NEW S \in SUBSET Nat, S # {}
  PROVE  \E least \in S : \A n \in S : least <= n
<1>1. \E least \in S : \A n \in S : ~ (<<n, least>> \in OpToRel(<, Nat))
  BY NatLessThanWellFounded, WFMin, Zenon
<1>2. \A least \in S : \A n \in S : n < least => <<n, least>> \in OpToRel(<, Nat)
  BY Zenon DEF OpToRel
<1>3. \A least \in S : \A n \in S : n < least \/ least <= n
  OBVIOUS
<1> QED
  BY <1>1, <1>2, <1>3, Zenon

\* The first range is one of them.
LEMMA FirstRange ==
  ASSUME NEW runs \in SUBSET Ranges, runs # {}
  PROVE  FirstOf(runs) \in runs /\ \A r \in runs : FirstOf(runs).from <= r.from
<1>1. {r.from : r \in runs} \in SUBSET Nat /\ {r.from : r \in runs} # {}
  BY DEF Ranges
<1>2. PICK least \in {r.from : r \in runs} : \A n \in {r.from : r \in runs} : least <= n
  BY <1>1, LeastOf
<1>3. PICK r \in runs : r.from = least
  BY <1>2
<1>4. \A s \in runs : r.from <= s.from
  BY <1>2, <1>3
<1> QED
  BY <1>4 DEF FirstOf

\* The ranges of a sync begin with the info and end within the recipe.
LEMMA RunsFit ==
  ASSUME NEW n \in Nat, NEW flags \in [1 .. n -> BOOLEAN]
  PROVE  /\ Runs(flags) \in SUBSET Ranges /\ \A r \in Runs(flags) : r.to <= n
         /\ FirstOf(Runs(flags)) \in Runs(flags) /\ FirstOf(Runs(flags)).from = 0
<1> DEFINE marked == {0} \cup {i \in DOMAIN flags : flags[i]}
<1>1. marked \subseteq 0 .. n
  OBVIOUS
<1>2. Runs(flags) = {run \in [from : marked, to : marked] :
                       /\ run.from <= run.to /\ run.from .. run.to \subseteq marked
                       /\ run.from - 1 \notin marked /\ run.to + 1 \notin marked}
  BY DEF Runs
<1>3. PICK m \in Nat \ marked : \A i \in Nat \ marked : m <= i
  <2>1. n + 1 \in Nat \ marked
    BY <1>1
  <2> QED
    BY <2>1, LeastOf
<1>4. m # 0 /\ m - 1 \in Nat /\ \A i \in 0 .. m - 1 : i \in marked
  <2>1. 0 \in marked
    OBVIOUS
  <2> HIDE DEF marked
  <2>2. m # 0 /\ m - 1 \in Nat
    BY <1>3, <2>1
  <2> QED
    BY <1>3, <2>2
<1> HIDE DEF marked
<1>5. [from |-> 0, to |-> m - 1] \in Runs(flags)
  <2>1. 0 - 1 \notin marked
    BY <1>1
  <2>2. 0 \in marked /\ m - 1 \in marked /\ (m - 1) + 1 \notin marked
    BY <1>3, <1>4
  <2> QED
    BY <1>2, <1>4, <2>1, <2>2
<1>6. Runs(flags) \in SUBSET Ranges /\ \A r \in Runs(flags) : r.to <= n
  <2>1. \A r \in Runs(flags) : r \in [from : marked, to : marked] /\ r.from <= r.to
    BY <1>2
  <2>2. marked \subseteq Nat /\ \A m2 \in marked : m2 <= n
    BY <1>1
  <2>3. \A r \in [from : marked, to : marked] : r \in [from : Nat, to : Nat] /\ r.to <= n
    BY <2>2
  <2> QED
    BY <2>1, <2>3 DEF Ranges
<1>7. FirstOf(Runs(flags)) \in Runs(flags) /\ FirstOf(Runs(flags)).from <= 0
  BY <1>5, <1>6, FirstRange
<1>8. FirstOf(Runs(flags)).from \in Nat
  BY <1>6, <1>7 DEF Ranges
<1> QED
  BY <1>6, <1>7, <1>8
-----------------------------------------------------------------------------
\* The steps of the handler, wherever the reader is.
HandlerCarried == CopiesFit' /\ OpShape' /\ OpBounds' /\ CallsFit' /\ Loading' /\ AtGate'

\* The place of the reader while the handler works.
Here == UNCHANGED <<at, gate, targetHolds>>

LEMMA CopyPut ==
  ASSUME NEW card, IsCopy(card), CopyFits(card), NEW x, NEW i
  PROVE  /\ CopyFits([card EXCEPT !.known = x])
         /\ CopyFits([card EXCEPT !.info = x])
         /\ CopyFits([card EXCEPT !.info.cs = x])
         /\ CopyFits([card EXCEPT !.info.done = x])
         /\ CopyFits([card EXCEPT !.info.batch = x])
         /\ ArrayFits(x) => CopyFits([card EXCEPT !.steps = x])
         /\ (i \in DOMAIN card.steps => x \in Plain) => CopyFits([card EXCEPT !.steps[i] = x])
<1>1. /\ CopyFits([card EXCEPT !.known = x])
      /\ CopyFits([card EXCEPT !.info = x])
      /\ CopyFits([card EXCEPT !.info.cs = x])
      /\ CopyFits([card EXCEPT !.info.done = x])
      /\ CopyFits([card EXCEPT !.info.batch = x])
  BY DEF IsCopy, CopyFits
<1>2. ArrayFits(x) => CopyFits([card EXCEPT !.steps = x])
  BY DEF IsCopy, CopyFits
<1>3. ASSUME i \in DOMAIN card.steps => x \in Plain
      PROVE  CopyFits([card EXCEPT !.steps[i] = x])
  <2>1. ArrayFits([card.steps EXCEPT ![i] = x])
    BY <1>3, ArrayPut DEF CopyFits
  <2>2. [card EXCEPT !.steps[i] = x].steps = [card.steps EXCEPT ![i] = x]
        /\ "known" \in DOMAIN [card EXCEPT !.steps[i] = x]
    BY DEF IsCopy, CopyFits
  <2> QED
    BY <2>1, <2>2 DEF CopyFits
<1> QED
  BY <1>1, <1>2, <1>3

\* The step in working is as it was.
LEMMA MarkedKept ==
  ASSUME Here, Marked, GateStep \in DOMAIN working'.steps,
         working'.steps[GateStep] = working.steps[GateStep]
  PROVE  Marked' /\ GateStep' = GateStep
  BY DEF Here, Marked, GateStep, IsMarked

LEMMA StartCallCarried ==
  ASSUME Arrays, Carried, StartCall, Here
  PROVE  HandlerCarried
<1> USE DEF Here
<1>1. calls # <<>> /\ op = NoOp /\ calls' = Tail(calls) /\ result' = result
      /\ UNCHANGED <<tags, onReader>>
  BY DEF StartCall
<1>2. at = "loaded" => calls = <<"LoadData">>
  BY <1>1 DEF Carried, Loading, NoOp
<1>3. at = "gate" => ToWrite \/ ToSync
  BY <1>1 DEF Carried, AtGate, OnItsWay, BeingWritten, Syncing, Synced, NoOp
<1>4. calls \in {<<"LoadData">>, <<"WriteSafeInfo", "Sync">>, <<"WriteSafeStep", "Sync">>,
                <<"Sync">>}
  BY <1>1, <1>3 DEF Carried, CallsFit, ToWrite, ToSync
<1>5. Head(calls) = "WriteSafeStep" => at = "gate" /\ ToWrite
  BY <1>1, <1>3, <1>4 DEF Carried, CallsFit, ToWrite, ToSync
<1>6. calls' \in {<<>>, <<"Sync">>} /\ CallsFit'
  <2>1. /\ Tail(<<"LoadData">>) = <<>> /\ Tail(<<"WriteSafeInfo", "Sync">>) = <<"Sync">>
        /\ Tail(<<"WriteSafeStep", "Sync">>) = <<"Sync">> /\ Tail(<<"Sync">>) = <<>>
    OBVIOUS
  <2>2. calls' \in {<<>>, <<"Sync">>}
    BY <1>1, <1>4, <2>1, Zenon
  <2> QED
    BY <2>2 DEF CallsFit
<1>7. CASE StartLoad
  <2>1. Head(calls) = "LoadData" /\ op' = LoadData /\ UNCHANGED cards
    BY <1>7 DEF StartLoad
  <2>2. calls = <<"LoadData">> /\ calls' = <<>> /\ at # "gate"
    BY <1>1, <1>3, <1>4, <2>1 DEF ToWrite, ToSync
  <2>3. CopiesFit'
    BY <1>1, <2>1 DEF Carried, CopiesFit, cards
  <2>4. OpShape' /\ OpBounds'
    BY <2>1 DEF OpShape, LoadShape, OpBounds, LoadData, Writes
  <2>5. Loading' /\ AtGate'
    BY <2>1, <2>2 DEF Loading, AtGate, LoadData
  <2> QED
    BY <1>6, <2>3, <2>4, <2>5 DEF HandlerCarried
<1>8. CASE StartWriteSafeInfo
  <2>1. /\ Head(calls) = "WriteSafeInfo" /\ UNCHANGED <<working, dirty>>
        /\ integrity' = [integrity EXCEPT !.known = TRUE, !.info = working.info]
        /\ op' = Writing("WriteSafeInfo", "sum", [from |-> 0, to |-> 0], {}, integrity.info)
    BY <1>8 DEF StartWriteSafeInfo
  <2>2. at # "gate" /\ at # "loaded"
    BY <1>2, <1>3, <2>1 DEF ToWrite, ToSync
  <2>3. CopyFits(integrity')
    <3>1. /\ IsCopy([integrity EXCEPT !.known = TRUE])
          /\ CopyFits([integrity EXCEPT !.known = TRUE])
      BY CopyPut, CopyChanged DEF Carried, CopiesFit, Arrays
    <3>2. CopyFits([[integrity EXCEPT !.known = TRUE] EXCEPT !.info = working.info])
      BY <3>1, CopyPut
    <3> QED
      BY <2>1, <3>2
  <2>4. CopiesFit'
    BY <1>1, <2>1, <2>3 DEF Carried, CopiesFit
  <2>5. OpShape' /\ OpBounds'
    BY <2>1 DEF OpShape, WriteShape, OpBounds, Writing, Writes, WriteFields, Ranges
  <2>6. Loading' /\ AtGate'
    BY <2>2 DEF Loading, AtGate
  <2> QED
    BY <1>6, <2>4, <2>5, <2>6 DEF HandlerCarried
<1>9. CASE StartWriteSafeStep
  <2> DEFINE i == working.info.actual + 1
  <2>1. /\ Head(calls) = "WriteSafeStep" /\ i <= Len(integrity.steps)
        /\ UNCHANGED <<working, dirty>>
        /\ integrity' = [integrity EXCEPT !.steps[i] = working.steps[i]]
        /\ op' = Writing("WriteSafeStep", "sum", [from |-> i, to |-> i], {},
                        integrity.steps[i])
    BY <1>9, Zenon DEF StartWriteSafeStep
  <2>2. at = "gate" /\ ToWrite /\ i = GateStep /\ i \in Nat \ {0}
    BY <1>5, <2>1 DEF ToWrite, GateStep, Arrays, IsCopy, Counts
  <2>3. /\ GateStep \in DOMAIN working.steps /\ IsMarked(working.steps[GateStep])
        /\ targetHolds /\ gate.stepIndex \in Nat /\ GateStep' = GateStep
    BY <2>2 DEF Carried, AtGate, Marked, GateStep
  <2>4. i \in DOMAIN integrity.steps /\ integrity.steps[i] \in Plain
        /\ working.steps[i] \in Plain
    BY <2>1, <2>2, <2>3, ArrayOf, MaxStepsAssumption DEF Carried, CopiesFit, CopyFits
  <2> HIDE DEF i
  <2>5. CopyFits(integrity')
    BY <2>1, <2>4, CopyPut DEF Carried, CopiesFit, Arrays
  <2>6. CopiesFit'
    BY <1>1, <2>1, <2>5 DEF Carried, CopiesFit
  <2>7. OpShape' /\ OpBounds'
    BY <2>1, <2>2, <2>4 DEF OpShape, WriteShape, OpBounds, Writing, Writes, WriteFields, Ranges
  <2>8. Loading' /\ AtGate'
    <3>1. calls' = <<"Sync">>
      BY <1>1, <2>2 DEF ToWrite
    <3>2. /\ integrity'.steps = [integrity.steps EXCEPT ![i] = working.steps[i]]
          /\ integrity'.info = integrity.info /\ integrity'.known = integrity.known
      BY <2>1 DEF Arrays, IsCopy, Carried, CopiesFit, CopyFits
    <3>3. i \in DOMAIN integrity'.steps /\ integrity'.steps[i] = working.steps[i]
      BY <2>4, <3>2
    <3>4. IsMarked(integrity.steps[GateStep])' /\ GateStep' \in DOMAIN integrity'.steps
      BY <2>2, <2>3, <3>3 DEF IsMarked
    <3>5. /\ integrity'.known /\ GateStep' <= integrity'.info.steps
          /\ op'.call = "WriteSafeStep" /\ op'.phase = "sum"
          /\ op'.run = [from |-> GateStep', to |-> GateStep']
      BY <2>1, <2>2, <2>3, <3>2 DEF ToWrite, Writing
    <3>6. BeingWritten'
      BY <3>1, <3>4, <3>5 DEF BeingWritten, Transferred
    <3>7. Marked'
      BY <2>1, <2>2, MarkedKept DEF Carried, AtGate, Marked
    <3> QED
      BY <2>2, <3>6, <3>7 DEF Loading, AtGate, OnItsWay
  <2> QED
    BY <1>6, <2>6, <2>7, <2>8 DEF HandlerCarried
<1>10. CASE StartSync
  <2>1. PICK phase \in {"sum", "compare"} :
          op' = Writing("Sync", phase, FirstOf(Runs(dirty)),
                        Runs(dirty) \ {FirstOf(Runs(dirty))}, NoOp)
    BY <1>10, Zenon DEF StartSync
  <2>2. UNCHANGED cards /\ Head(calls) = "Sync"
    BY <1>10 DEF StartSync
  <2>3. PICK n \in Nat : dirty \in [1 .. n -> BOOLEAN]
    BY DEF Arrays, Marks
  <2>4. Len(dirty) = n
    BY <2>3
  <2>5. /\ Runs(dirty) \in SUBSET Ranges /\ \A r \in Runs(dirty) : r.to <= n
        /\ FirstOf(Runs(dirty)) \in Runs(dirty) /\ FirstOf(Runs(dirty)).from = 0
    BY <2>3, RunsFit
  <2>6. at # "loaded" /\ (at = "gate" => ToSync)
    BY <1>2, <1>3, <2>2 DEF ToWrite
  <2>7. CopiesFit'
    BY <1>1, <2>2 DEF Carried, CopiesFit, cards
  <2>8. OpShape' /\ OpBounds'
    BY <2>1, <2>5 DEF OpShape, WriteShape, OpBounds, Writing, Writes, WriteFields
  <2>9. Loading' /\ AtGate'
    <3>1. Loading'
      BY <2>6 DEF Loading
    <3>2. ASSUME at = "gate" PROVE Syncing'
      <4>1. calls = <<"Sync">> /\ StepOnTag /\ n = working.info.steps /\ working.known
        BY <2>4, <2>6, <3>2 DEF ToSync
      <4>2. calls' = <<>>
        BY <1>1, <4>1
      <4>3. StepOnTag' /\ working' = working
        BY <1>1, <2>2, <4>1 DEF StepOnTag, IsMarked, GateStep, cards
      <4>4. /\ op'.call = "Sync" /\ op'.run = FirstOf(Runs(dirty)) /\ op'.phase = phase
            /\ op'.left \subseteq Runs(dirty)
        BY <2>1 DEF Writing
      <4>5. Transferred'
        BY <4>4 DEF Transferred
      <4> QED
        BY <2>5, <4>1, <4>2, <4>3, <4>4, <4>5 DEF Syncing
    <3>3. at = "gate" => Marked'
      BY <2>2, MarkedKept DEF AtGate, Carried, Marked, cards
    <3> QED
      BY <3>1, <3>2, <3>3 DEF AtGate, OnItsWay
  <2> QED
    BY <1>6, <2>7, <2>8, <2>9 DEF HandlerCarried
<1> QED
  BY <1>7, <1>8, <1>9, <1>10 DEF StartCall

\* A call that writes is under way.
LEMMA WriteUnderWay ==
  ASSUME Carried, op # NoOp,
         op.phase \in {"compare", "sum", "head", "select", "write", "verify"}
  PROVE  /\ WriteShape /\ op.call # "none" /\ at # "loaded"
         /\ op.call = "WriteSafeStep" => at = "gate"
         /\ at = "gate" => BeingWritten \/ Syncing
<1>1. WriteShape
  BY DEF Carried, OpShape, LoadShape
<1>2. op.call # "none" /\ op.call # "LoadData"
  BY <1>1 DEF WriteShape, Writes
<1>3. at # "loaded"
  BY <1>2 DEF Carried, Loading
<1>4. at = "gate" => BeingWritten \/ Syncing
  BY DEF Carried, AtGate, OnItsWay, ToWrite, ToSync, Synced
<1> QED
  BY <1>1, <1>2, <1>3, <1>4 DEF Carried, OpBounds

\* At the gate the product stands on the reader, and nothing goes wrong.
LEMMA GateHolds ==
  ASSUME Carried, at = "gate", BeingWritten \/ Syncing
  PROVE  /\ onReader # NoTag /\ Marked /\ Transferred
         /\ op.run.to <= Card.info.steps /\ Card.known
         /\ op.call = "Sync" <=> Syncing
         /\ op.call = "WriteSafeStep" <=> BeingWritten
<1>1. onReader # NoTag /\ Marked
  BY DEF Carried, AtMimo, Present, AtGate
<1>2. Transferred
  BY DEF BeingWritten, Syncing
<1>3. op.run.to <= Card.info.steps /\ Card.known
  BY DEF BeingWritten, Syncing, Card
<1> QED
  BY <1>1, <1>2, <1>3 DEF BeingWritten, Syncing

\* A write goes on: what its next access leaves to be shown.
SameSteps ==
  /\ integrity'.known = integrity.known /\ integrity'.steps = integrity.steps
  /\ integrity'.info.steps = integrity.info.steps
  /\ working'.known = working.known /\ working'.steps = working.steps
  /\ working'.info.steps = working.info.steps
  /\ working'.info.actual = working.info.actual

LEMMA WriteGoesOn ==
  ASSUME Carried, Here, op # NoOp, WriteShape, at # "loaded",
         op.call = "WriteSafeStep" => at = "gate",
         at = "gate" => BeingWritten \/ Syncing,
         DOMAIN op' = WriteFields,
         op'.call = op.call, op'.run = op.run, op'.left = op.left, op'.saved = op.saved,
         op'.phase \in {"sum", "head", "select", "write", "verify"},
         op'.phase # "sum" =>
           op.run.to <= Card.info.steps /\ Card.info.steps <= Len(Card.steps),
         op'.phase = "write" => op'.next \in op.run.from .. op.run.to,
         calls' = calls, CopiesFit', SameSteps,
         at = "gate" => Transferred',
         at = "gate" /\ StepOnTag => StepOnTag',
         at = "gate" /\ Syncing => op.run.from = 0 \/ InfoOnTag'
  PROVE  HandlerCarried
<1>1. OpShape'
  BY DEF OpShape, WriteShape
<1>2. OpBounds'
  <2>1. Card'.info.steps = Card.info.steps /\ Card'.steps = Card.steps
    BY DEF Card, SameSteps
  <2>2. op.call = "WriteSafeStep" => op.saved \in Plain /\ at = "gate"
    BY DEF Carried, OpBounds
  <2> QED
    BY <2>1, <2>2 DEF OpBounds, WriteShape, Writes, Here
<1>3. CallsFit'
  BY DEF Carried, CallsFit, Here
<1>4. Loading'
  BY DEF Loading, Here
<1>5. ASSUME at = "gate" PROVE Marked' /\ OnItsWay'
  <2>1. Marked' /\ GateStep' = GateStep
    BY <1>5, MarkedKept DEF Carried, AtGate, Marked, SameSteps
  <2>2. ASSUME BeingWritten PROVE BeingWritten'
    <3>1. IsMarked(integrity.steps[GateStep])'
      BY <2>1, <2>2 DEF BeingWritten, IsMarked, SameSteps, Here
    <3> QED
      BY <1>5, <2>1, <2>2, <3>1 DEF BeingWritten, SameSteps
  <2>3. ASSUME Syncing PROVE Syncing'
    BY <1>5, <2>3 DEF Syncing, SameSteps
  <2> QED
    BY <1>5, <2>1, <2>2, <2>3 DEF OnItsWay
<1> QED
  BY <1>1, <1>2, <1>3, <1>4, <1>5 DEF HandlerCarried, AtGate, Here

\* A write begins anew.
LEMMA RetryCarried ==
  ASSUME Carried, Retry, Here, op # NoOp,
         op.phase \in {"compare", "sum", "head", "select", "write", "verify"}
  PROVE  HandlerCarried
<1>1. /\ op' = [op EXCEPT !.phase = "sum"] /\ UNCHANGED cards /\ calls' = calls
      /\ tags' = tags /\ onReader' = onReader
  BY DEF Retry
<1>2. /\ WriteShape /\ at # "loaded" /\ (op.call = "WriteSafeStep" => at = "gate")
      /\ at = "gate" => BeingWritten \/ Syncing
  BY WriteUnderWay
<1>3. /\ DOMAIN op' = WriteFields /\ op'.call = op.call /\ op'.run = op.run
      /\ op'.left = op.left /\ op'.saved = op.saved /\ op'.phase = "sum"
  BY <1>1, <1>2 DEF WriteShape, WriteFields
<1>4. CopiesFit' /\ SameSteps
  BY <1>1 DEF Carried, CopiesFit, SameSteps, cards
<1>5. Transferred'
  BY <1>3 DEF Transferred
<1>6. (StepOnTag => StepOnTag') /\ (Syncing => op.run.from = 0 \/ InfoOnTag')
  BY <1>1 DEF StepOnTag, IsMarked, GateStep, Here, InfoOnTag, Syncing, cards
<1>7. /\ op'.phase \in {"sum", "head", "select", "write", "verify"}
      /\ op'.phase = "write" => op'.next \in op.run.from .. op.run.to
  BY <1>3
<1> QED
  BY <1>1, <1>2, <1>3, <1>4, <1>5, <1>6, <1>7, WriteGoesOn, Zenon

LEMMA SelectCarried ==
  ASSUME Carried, Select, Here
  PROVE  HandlerCarried
<1>1. /\ op' = [op EXCEPT !.phase = "write", !.sel = onReader, !.next = op.run.from]
      /\ UNCHANGED cards /\ calls' = calls /\ tags' = tags /\ onReader' = onReader
      /\ op # NoOp /\ op.phase = "select"
  BY DEF Select, AtTag
<1>2. /\ WriteShape /\ at # "loaded" /\ (op.call = "WriteSafeStep" => at = "gate")
      /\ at = "gate" => BeingWritten \/ Syncing
  BY <1>1, WriteUnderWay
<1>3. /\ DOMAIN op' = WriteFields /\ op'.call = op.call /\ op'.run = op.run
      /\ op'.left = op.left /\ op'.saved = op.saved /\ op'.phase = "write"
      /\ op'.sel = onReader /\ op'.next = op.run.from
  BY <1>1, <1>2 DEF WriteShape, WriteFields
<1>4. CopiesFit' /\ SameSteps
  BY <1>1 DEF Carried, CopiesFit, SameSteps, cards
<1>5. Transferred'
  BY <1>1, <1>2, <1>3 DEF Transferred, WriteShape, Ranges
<1>6. (StepOnTag => StepOnTag') /\ (Syncing => op.run.from = 0 \/ InfoOnTag')
  BY <1>1 DEF StepOnTag, IsMarked, GateStep, Here, InfoOnTag, Syncing, cards
<1>7. /\ op'.phase \in {"sum", "head", "select", "write", "verify"}
      /\ op'.phase = "write" => op'.next \in op.run.from .. op.run.to
      /\ op.run.to <= Card.info.steps /\ Card.info.steps <= Len(Card.steps)
  BY <1>1, <1>2, <1>3 DEF Carried, OpBounds, WriteShape, Ranges
<1> QED
  BY <1>1, <1>2, <1>3, <1>4, <1>5, <1>6, <1>7, WriteGoesOn, Zenon

LEMMA SumCarried ==
  ASSUME Arrays, Carried, Sum, Here
  PROVE  HandlerCarried
<1>1. PICK phase \in {"head", "select"} : op' = [op EXCEPT !.phase = phase]
  BY DEF Sum
<1>2. /\ op # NoOp /\ op.phase = "sum" /\ calls' = calls /\ tags' = tags
      /\ onReader' = onReader
      /\ op.run.to <= Card.info.steps /\ Card.info.steps <= Len(Card.steps)
  BY DEF Sum, AtTag, HasSteps
<1>3. /\ WriteShape /\ at # "loaded" /\ (op.call = "WriteSafeStep" => at = "gate")
      /\ at = "gate" => BeingWritten \/ Syncing
  BY <1>2, WriteUnderWay
<1>4. /\ DOMAIN op' = WriteFields /\ op'.call = op.call /\ op'.run = op.run
      /\ op'.left = op.left /\ op'.saved = op.saved /\ op'.phase \in {"head", "select"}
  BY <1>1, <1>3 DEF WriteShape, WriteFields
<1>5. CopiesFit' /\ SameSteps
  <2> DEFINE summed == [Card EXCEPT !.info.cs = CheckSum(Card)]
  <2>1. IsCopy(Card) /\ CopyFits(Card)
    BY DEF Card, Arrays, Carried, CopiesFit
  <2>2. CopyFits(summed)
    BY <2>1, CopyPut
  <2>3. /\ summed.known = Card.known /\ summed.steps = Card.steps
        /\ summed.info.steps = Card.info.steps /\ summed.info.actual = Card.info.actual
    BY <2>1 DEF IsCopy, Counts, CopyFits
  <2>4. SetCard(summed)
    BY Zenon DEF Sum
  <2> HIDE DEF summed
  <2>5. CASE op.call = "Sync"
    BY <1>2, <2>2, <2>3, <2>4, <2>5 DEF SetCard, Card, Carried, CopiesFit, SameSteps
  <2>6. CASE op.call # "Sync"
    BY <1>2, <2>2, <2>3, <2>4, <2>6 DEF SetCard, Card, Carried, CopiesFit, SameSteps
  <2> QED
    BY <2>5, <2>6
<1>6. Transferred'
  BY <1>4 DEF Transferred
<1>7. (StepOnTag => StepOnTag') /\ (Syncing => op.run.from = 0 \/ InfoOnTag')
  BY <1>2, <1>5 DEF StepOnTag, IsMarked, GateStep, Here, InfoOnTag, Syncing, SameSteps
<1>8. /\ op'.phase \in {"sum", "head", "select", "write", "verify"}
      /\ op'.phase = "write" => op'.next \in op.run.from .. op.run.to
  BY <1>4
<1> QED
  BY <1>2, <1>3, <1>4, <1>5, <1>6, <1>7, <1>8, WriteGoesOn, Zenon

\* What a written structure leaves on the tags.
LEMMA PutCarried ==
  ASSUME Arrays, Carried, NEW s \in Nat, Put(onReader, s),
         s <= Card.info.steps, Card.info.steps <= Len(Card.steps)
  PROVE  /\ \A t \in Tags : TagFits(tags'[t])
         /\ onReader \in Tags =>
              /\ \A i \in 1 .. MaxSteps \ {s} :
                   tags'[onReader].steps[i] = tags[onReader].steps[i]
              /\ s # 0 => /\ tags'[onReader].info = tags[onReader].info
                         /\ tags'[onReader].steps[s] = Card.steps[s]
              /\ s = 0 => tags'[onReader].info = Card.info
<1>1. IsCopy(Card) /\ CopyFits(Card)
  BY DEF Card, Arrays, Carried, CopiesFit
<1>2. /\ Len(Card.steps) \in Nat /\ Len(Card.steps) <= MaxSteps
      /\ Card.info.steps \in Nat /\ Card.info.steps <= MaxSteps
      /\ s # 0 => s \in 1 .. MaxSteps /\ Card.steps[s] \in Plain
  BY <1>1, ArrayOf, MaxStepsAssumption DEF CopyFits, IsCopy, Counts
<1>3. /\ \A t \in Tags : TagFits(tags[t]) /\ IsCopy(tags[t])
      /\ DOMAIN tags = Tags
  BY DEF Carried, CopiesFit, Arrays, TagsFit
<1>4. CASE s = 0
  <2>1. tags' = [tags EXCEPT ![onReader] = [@ EXCEPT !.info = Card.info]]
    BY <1>4 DEF Put
  <2>2. \A t \in Tags : /\ tags'[t].steps = tags[t].steps
                        /\ tags'[t].info = IF t = onReader THEN Card.info ELSE tags[t].info
    BY <1>3, <2>1 DEF IsCopy
  <2> QED
    BY <1>2, <1>3, <1>4, <2>2 DEF TagFits
<1>5. CASE s # 0
  <2>1. tags' = [tags EXCEPT ![onReader] = [@ EXCEPT !.steps[s] = Card.steps[s]]]
    BY <1>5 DEF Put
  <2>2. \A t \in Tags : /\ tags'[t].info = tags[t].info
                        /\ tags'[t].steps = IF t = onReader
                                              THEN [tags[t].steps EXCEPT ![s] = Card.steps[s]]
                                              ELSE tags[t].steps
    <3>1. ASSUME NEW t \in Tags, t = onReader
          PROVE  /\ tags'[t].info = tags[t].info
                 /\ tags'[t].steps = [tags[t].steps EXCEPT ![s] = Card.steps[s]]
      <4>1. tags'[t] = [tags[t] EXCEPT !.steps[s] = Card.steps[s]]
        BY <1>3, <2>1, <3>1
      <4> QED
        BY <1>3, <4>1 DEF IsCopy
    <3>2. ASSUME NEW t \in Tags, t # onReader
          PROVE  tags'[t] = tags[t]
      BY <1>3, <2>1, <3>2
    <3> QED
      BY <3>1, <3>2
  <2>3. \A t \in Tags : [tags[t].steps EXCEPT ![s] = Card.steps[s]] \in [1 .. MaxSteps -> Plain]
    BY <1>2, <1>3, <1>5 DEF TagFits
  <2>4. \A t \in Tags : TagFits(tags'[t])
    BY <1>3, <2>2, <2>3 DEF TagFits
  <2>5. \A t \in Tags, i \in 1 .. MaxSteps :
          [tags[t].steps EXCEPT ![s] = Card.steps[s]][i]
            = IF i = s THEN Card.steps[s] ELSE tags[t].steps[i]
    BY <1>2, <1>3, <1>5 DEF TagFits
  <2> QED
    BY <1>2, <1>5, <2>2, <2>4, <2>5
<1> QED
  BY <1>4, <1>5

\* The step of the gate is one a tag has room for.
LEMMA GateStepFits ==
  ASSUME Arrays, Carried, Marked
  PROVE  GateStep \in 1 .. MaxSteps
  BY ArrayOf, MaxStepsAssumption DEF Carried, CopiesFit, CopyFits, Marked

LEMMA WriteHeadCarried ==
  ASSUME Arrays, Carried, WriteHead, Here
  PROVE  HandlerCarried
<1>1. /\ op' = [op EXCEPT !.phase = "select"] /\ UNCHANGED cards /\ calls' = calls
      /\ onReader' = onReader /\ op # NoOp /\ op.phase = "head"
      /\ onReader = NoTag => tags' = tags
      /\ onReader # NoTag => Put(onReader, 0)
  BY DEF WriteHead, AtTag
<1>2. /\ WriteShape /\ at # "loaded" /\ (op.call = "WriteSafeStep" => at = "gate")
      /\ at = "gate" => BeingWritten \/ Syncing
  BY <1>1, WriteUnderWay
<1>3. /\ DOMAIN op' = WriteFields /\ op'.call = op.call /\ op'.run = op.run
      /\ op'.left = op.left /\ op'.saved = op.saved /\ op'.phase = "select"
  BY <1>1, <1>2 DEF WriteShape, WriteFields
<1>4. op.run.to <= Card.info.steps /\ Card.info.steps <= Len(Card.steps)
  BY <1>1, <1>2 DEF Carried, OpBounds, WriteShape
<1>5. /\ 0 <= Card.info.steps
      /\ \A t \in Tags : TagFits(tags[t])
  BY DEF Card, Arrays, IsCopy, Counts, Carried, CopiesFit
<1>6. /\ \A t \in Tags : TagFits(tags'[t])
      /\ onReader \in Tags /\ onReader # NoTag =>
           /\ \A i \in 1 .. MaxSteps : tags'[onReader].steps[i] = tags[onReader].steps[i]
           /\ tags'[onReader].info = Card.info
  BY <1>1, <1>4, <1>5, PutCarried
<1>7. CopiesFit' /\ SameSteps
  BY <1>1, <1>6 DEF Carried, CopiesFit, SameSteps, cards
<1>8. Transferred'
  BY <1>3 DEF Transferred
<1>9. at = "gate" =>
        (StepOnTag => StepOnTag') /\ (Syncing => op.run.from = 0 \/ InfoOnTag')
  <2> SUFFICES ASSUME at = "gate"
               PROVE  (StepOnTag => StepOnTag') /\ (Syncing => InfoOnTag')
    OBVIOUS
  <2>1. onReader # NoTag /\ Marked /\ (Syncing => Card = working)
    BY <1>2, GateHolds DEF Card
  <2>2. onReader \in Tags /\ GateStep \in 1 .. MaxSteps
    BY <2>1, GateStepFits DEF Arrays, TagsFit
  <2>3. StepOnTag => StepOnTag'
    BY <1>1, <1>6, <2>1, <2>2 DEF StepOnTag, IsMarked, GateStep, Here
  <2>4. Syncing => InfoOnTag'
    BY <1>1, <1>6, <2>1, <2>2 DEF InfoOnTag, cards
  <2> QED
    BY <2>3, <2>4
<1>10. /\ op'.phase \in {"sum", "head", "select", "write", "verify"}
       /\ op'.phase = "write" => op'.next \in op.run.from .. op.run.to
  BY <1>3
<1> QED
  BY <1>1, <1>2, <1>3, <1>4, <1>7, <1>8, <1>9, <1>10, WriteGoesOn, Zenon

LEMMA WriteStructureCarried ==
  ASSUME Arrays, Carried, WriteStructure, Here
  PROVE  HandlerCarried
<1>1. /\ op' = IF op.next = op.run.to THEN [op EXCEPT !.phase = "verify"]
               ELSE [op EXCEPT !.next = op.next + 1]
      /\ UNCHANGED cards /\ calls' = calls
      /\ onReader' = onReader /\ op # NoOp /\ op.phase = "write"
      /\ Put(onReader, op.next)
  BY DEF WriteStructure, AtTag
<1>2. /\ WriteShape /\ at # "loaded" /\ (op.call = "WriteSafeStep" => at = "gate")
      /\ at = "gate" => BeingWritten \/ Syncing
  BY <1>1, WriteUnderWay
<1>3. /\ op.run.to <= Card.info.steps /\ Card.info.steps <= Len(Card.steps)
      /\ op.next \in op.run.from .. op.run.to
      /\ op.run.from \in Nat /\ op.run.to \in Nat
  BY <1>1, <1>2 DEF Carried, OpBounds, WriteShape, Ranges
<1>4. /\ DOMAIN op' = WriteFields /\ op'.call = op.call /\ op'.run = op.run
      /\ op'.left = op.left /\ op'.saved = op.saved /\ op'.sel = op.sel
      /\ op'.phase \in {"write", "verify"}
      /\ op'.phase = "verify" => op.next = op.run.to
      /\ op'.phase = "write" => op'.next = op.next + 1 /\ op.next # op.run.to
  BY <1>1, <1>2 DEF WriteShape, WriteFields
<1>5. Card.info.steps \in Nat
  BY DEF Card, Arrays, IsCopy, Counts
<1>6. /\ \A t \in Tags : TagFits(tags'[t])
      /\ onReader \in Tags =>
           /\ \A i \in 1 .. MaxSteps \ {op.next} :
                tags'[onReader].steps[i] = tags[onReader].steps[i]
           /\ op.next # 0 => /\ tags'[onReader].info = tags[onReader].info
                            /\ tags'[onReader].steps[op.next] = Card.steps[op.next]
           /\ op.next = 0 => tags'[onReader].info = Card.info
  BY <1>1, <1>3, <1>5, PutCarried
<1>7. CopiesFit' /\ SameSteps /\ Card' = Card
  BY <1>1, <1>4, <1>6 DEF Carried, CopiesFit, SameSteps, cards, Card
<1>8. ASSUME at = "gate"
      PROVE  /\ Transferred' /\ (StepOnTag => StepOnTag')
             /\ Syncing => op.run.from = 0 \/ InfoOnTag'
  <2>1. /\ onReader # NoTag /\ Marked /\ Transferred
        /\ op.call = "Sync" <=> Syncing
    BY <1>2, <1>8, GateHolds
  <2>2. onReader \in Tags /\ GateStep \in 1 .. MaxSteps
    BY <2>1, GateStepFits DEF Arrays, TagsFit
  <2>3. Card.info.steps <= MaxSteps
    <3>1. CopyFits(Card)
      BY DEF Card, Carried, CopiesFit
    <3> QED
      BY <1>3, <1>5, <3>1, ArrayOf, MaxStepsAssumption DEF CopyFits
  <2>4. \A s \in op.run.from .. op.next : OnTag(s)'
    <3>1. op.sel = onReader /\ \A s \in op.run.from .. op.next - 1 : OnTag(s)
      BY <1>1, <2>1 DEF Transferred
    <3>2. ASSUME NEW s \in op.run.from .. op.next, s # op.next
          PROVE  OnTag(s)'
      <4>1. OnTag(s) /\ (s # 0 => s \in 1 .. MaxSteps \ {op.next})
        BY <1>3, <1>5, <2>3, <3>1, <3>2, MaxStepsAssumption
      <4>2. s = 0 => op.next # 0
        BY <3>2
      <4> QED
        BY <1>1, <1>6, <1>7, <2>2, <4>1, <4>2 DEF OnTag
    <3>3. \A s : s = op.next => OnTag(s)'
      BY <1>1, <1>6, <1>7, <2>2 DEF OnTag
    <3> QED
      BY <3>2, <3>3
  <2>5. Transferred'
    <3>1. op'.phase = "verify" => SameOnTag(op.run)'
      BY <1>4, <2>4 DEF SameOnTag, OnTag
    <3> QED
      BY <1>1, <1>3, <1>4, <2>1, <2>4, <3>1 DEF Transferred, SameOnTag
  <2>6. StepOnTag => StepOnTag'
    <3>1. CASE GateStep # op.next
      BY <1>1, <1>6, <2>2, <3>1 DEF StepOnTag, IsMarked, GateStep, Here
    <3>2. CASE GateStep = op.next
      <4>1. IsMarked(Card.steps[GateStep])
        BY <1>2, <1>8, <2>1 DEF Marked, BeingWritten, Card
      <4>2. tags'[onReader'].steps[GateStep'] = Card.steps[GateStep]
        BY <1>1, <1>6, <2>2, <3>2 DEF GateStep, Here
      <4> QED
        BY <4>1, <4>2 DEF StepOnTag, IsMarked, Here
    <3> QED
      BY <3>1, <3>2
  <2>7. Syncing => op.run.from = 0 \/ InfoOnTag'
    BY <1>1, <1>3, <1>6, <2>2 DEF Syncing, InfoOnTag, cards
  <2> QED
    BY <2>5, <2>6, <2>7
<1>9. /\ op'.phase \in {"sum", "head", "select", "write", "verify"}
      /\ op'.phase = "write" => op'.next \in op.run.from .. op.run.to
  BY <1>3, <1>4
<1> QED
  BY <1>1, <1>2, <1>3, <1>4, <1>7, <1>8, <1>9, WriteGoesOn, Zenon

\* The handler rests, with no call to come at the gate.
LEMMA CallEnds ==
  ASSUME Carried, Here, op' = NoOp, calls' = calls, CopiesFit',
         at # "loaded", at = "gate" => Marked' /\ OnItsWay'
  PROVE  HandlerCarried
<1>1. OpShape' /\ OpBounds'
  BY DEF OpShape, OpBounds, NoOp, Writes
<1>2. CallsFit' /\ Loading'
  BY DEF Carried, CallsFit, Loading, Here
<1> QED
  BY <1>1, <1>2 DEF HandlerCarried, AtGate, Here

LEMMA GiveUpCarried ==
  ASSUME Arrays, Carried, GiveUp, Here, op # NoOp, at # "gate",
         op.phase \in {"compare", "sum", "head", "select", "write", "verify"}
  PROVE  HandlerCarried
<1>1. /\ op' = NoOp /\ calls' = calls /\ tags' = tags /\ working' = working
  BY DEF GiveUp, Return
<1>2. at # "loaded" /\ op.call # "WriteSafeStep"
  BY WriteUnderWay
<1>3. integrity' = integrity \/ integrity' = [integrity EXCEPT !.info = op.saved]
  BY <1>2 DEF GiveUp
<1>4. CopyFits(integrity')
  <2>1. IsCopy(integrity) /\ CopyFits(integrity)
    BY DEF Arrays, Carried, CopiesFit
  <2>2. CopyFits([integrity EXCEPT !.info = op.saved])
    BY <2>1, CopyPut
  <2> QED
    BY <1>3, <2>1, <2>2, Zenon
<1> QED
  BY <1>1, <1>2, <1>4, CallEnds DEF Carried, CopiesFit

\* The calls that give up, which at the gate none does.
LEMMA LostCarried ==
  ASSUME Arrays, Carried, Here, OutOfRange \/ AccessLost
  PROVE  HandlerCarried
<1>1. op # NoOp /\ op.phase \in {"sum", "select", "write"}
  BY DEF OutOfRange, AccessLost, AtTag
<1>2. at = "gate" => BeingWritten \/ Syncing
  BY <1>1, WriteUnderWay
<1>3. at # "gate"
  <2> SUFFICES ASSUME at = "gate" PROVE FALSE
    OBVIOUS
  <2>1. onReader # NoTag /\ Transferred /\ op.run.to <= Card.info.steps
    BY <1>2, GateHolds
  <2>2. op.run.to \in Nat /\ Card.info.steps \in Nat
    BY <1>1, WriteUnderWay DEF WriteShape, Ranges, Card, Arrays, IsCopy, Counts
  <2>3. OutOfRange => ~(op.run.to <= Card.info.steps)
    BY <2>2 DEF OutOfRange
  <2>4. AccessLost => onReader = NoTag \/ (op.phase = "write" /\ op.sel = NoTag)
    BY DEF AccessLost, AtTag
  <2> QED
    BY <2>1, <2>3, <2>4 DEF Transferred
<1>4. GiveUp \/ Retry
  BY DEF OutOfRange, AccessLost
<1> QED
  BY <1>1, <1>3, <1>4, GiveUpCarried, RetryCarried

LEMMA CompareCarried ==
  ASSUME Arrays, Carried, Compare, Here
  PROVE  HandlerCarried
<1>1. /\ op # NoOp /\ op.call = "Sync" /\ op.phase = "compare"
      /\ UNCHANGED <<tags, onReader, cards, calls>>
  BY DEF Compare, Doing, NoOp
<1>2. /\ WriteShape /\ at # "loaded" /\ (op.call = "WriteSafeStep" => at = "gate")
      /\ at = "gate" => BeingWritten \/ Syncing
  BY <1>1, WriteUnderWay
<1>3. at = "gate" => Syncing /\ Marked /\ onReader # NoTag
  BY <1>1, <1>2, GateHolds
<1>4. CopiesFit' /\ SameSteps
  BY <1>1 DEF Carried, CopiesFit, SameSteps, cards
<1>5. (StepOnTag => StepOnTag') /\ (InfoOnTag => InfoOnTag')
  BY <1>1 DEF StepOnTag, IsMarked, GateStep, Here, InfoOnTag, cards
<1>6. CASE op' = NoOp
  <2>1. at = "gate" => SameOnTag(op.run)
    BY <1>3, <1>6 DEF Compare, Syncing, NoOp
  <2>2. ASSUME at = "gate" PROVE Marked' /\ Synced'
    <3>1. op.run.from = 0 /\ op.run.to \in Nat /\ Card = working
      BY <1>1, <1>2, <1>3, <2>2 DEF Syncing, WriteShape, Ranges, Card
    <3>2. AllBytes(tags[onReader].info) = AllBytes(working.info)
      BY <2>1, <2>2, <3>1 DEF SameOnTag
    <3>3. InfoOnTag
      BY <3>2 DEF InfoOnTag, AllBytes, Bytes
    <3>4. Marked'
      BY <1>3, <1>4, <2>2, MarkedKept DEF Marked, SameSteps
    <3> QED
      BY <1>1, <1>3, <1>5, <1>6, <2>2, <3>3, <3>4 DEF Synced, Syncing
  <2> QED
    BY <1>1, <1>2, <1>4, <1>6, <2>2, CallEnds DEF OnItsWay
<1>7. CASE op' = [op EXCEPT !.phase = "sum"]
  <2>2. /\ DOMAIN op' = WriteFields /\ op'.call = op.call /\ op'.run = op.run
        /\ op'.left = op.left /\ op'.saved = op.saved /\ op'.phase = "sum"
    BY <1>2, <1>7 DEF WriteShape, WriteFields
  <2>3. Transferred'
    BY <2>2 DEF Transferred
  <2>4. /\ op'.phase \in {"sum", "head", "select", "write", "verify"}
        /\ op'.phase = "write" => op'.next \in op.run.from .. op.run.to
        /\ calls' = calls
        /\ at = "gate" /\ Syncing => op.run.from = 0 \/ InfoOnTag'
    BY <1>1, <2>2 DEF Syncing
  <2> QED
    BY <1>1, <1>2, <1>4, <1>5, <2>2, <2>3, <2>4, WriteGoesOn, Zenon
<1> QED
  BY <1>6, <1>7, Zenon DEF Compare, Return

\* A run of a sync is on the tag.
LEMMA SyncRunWrittenCarried ==
  ASSUME Arrays, Carried, SyncRunWritten, Here, op # NoOp, op.phase = "verify",
         SameOnTag(op.run)
  PROVE  HandlerCarried
<1>1. /\ op.call = "Sync" /\ integrity' = Written /\ UNCHANGED <<tags, onReader, working, calls>>
      /\ IF op.left = {} THEN op' = NoOp
         ELSE op' = Writing("Sync", "sum", FirstOf(op.left), op.left \ {FirstOf(op.left)}, NoOp)
  BY DEF SyncRunWritten, Return
<1>2. /\ WriteShape /\ at # "loaded"
      /\ at = "gate" => BeingWritten \/ Syncing
  BY WriteUnderWay
<1>3. /\ op.run.to <= working.info.steps /\ working.info.steps <= Len(working.steps)
      /\ op.run.from \in Nat /\ op.run.to \in Nat /\ working.info.steps \in Nat
      /\ op.run.from <= op.run.to
  BY <1>1, <1>2 DEF Carried, OpBounds, WriteShape, Ranges, Card, Arrays, IsCopy, Counts
<1>4. /\ Len(working.steps) <= MaxSteps
      /\ \A i \in 1 .. Len(working.steps) : working.steps[i] \in Plain
  BY ArrayOf, MaxStepsAssumption DEF Carried, CopiesFit, CopyFits
<1>5. CopiesFit'
  <2> DEFINE known == [integrity EXCEPT !.known = TRUE]
             sized == ChangeRecipeStepsSize(known, working.info.steps)
             first == IF op.run.from # 0 THEN integrity
                      ELSE [sized EXCEPT !.info = working.info]
             array == [i \in DOMAIN first.steps |->
                         IF i \in op.run.from .. op.run.to THEN working.steps[i]
                         ELSE first.steps[i]]
  <2>1. IsCopy(known) /\ CopyFits(known) /\ working.info.steps \in 0 .. MaxSteps
    <3>1. IsCopy(integrity) /\ CopyFits(integrity)
      BY DEF Arrays, Carried, CopiesFit
    <3>2. IsCopy(known) /\ CopyFits(known)
      BY <3>1, CopyPut, CopyChanged
    <3>3. Len(working.steps) \in Nat
      BY ArrayOf, MaxStepsAssumption DEF Carried, CopiesFit, CopyFits
    <3> QED
      BY <1>3, <1>4, <3>2, <3>3, MaxStepsAssumption
  <2>2. CopyFits(sized) /\ IsCopy(sized)
    BY <2>1, <1>3, Resized, SizeChanged
  <2>3. CopyFits(first) /\ IsCopy(first)
    <3> HIDE DEF sized
    <3>1. /\ CopyFits([sized EXCEPT !.info = working.info])
          /\ IsCopy([sized EXCEPT !.info = working.info])
      BY <2>2, CopyPut, CopyChanged DEF Arrays, IsCopy
    <3> QED
      BY <3>1 DEF Arrays, Carried, CopiesFit
  <2>4. integrity' = [first EXCEPT !.steps = array]
    BY <1>1 DEF Written
  <2> HIDE DEF first
  <2>5. ArrayFits(array)
    <3>1. /\ Len(first.steps) \in 0 .. MaxSteps
          /\ first.steps \in [1 .. Len(first.steps) -> Plain]
      BY <2>3, ArrayOf DEF CopyFits
    <3>2. array \in [1 .. Len(first.steps) -> Plain]
      BY <1>3, <1>4, <3>1, MaxStepsAssumption
    <3> HIDE DEF array
    <3> QED
      BY <3>1, <3>2 DEF ArrayFits
  <2> HIDE DEF array
  <2>6. CopyFits(integrity')
    BY <2>3, <2>4, <2>5, CopyPut
  <2> QED
    BY <1>1, <2>6 DEF Carried, CopiesFit
<1>6. at = "gate" => Syncing /\ Marked
  BY <1>1, <1>2, GateHolds
<1>7. at = "gate" => InfoOnTag
  <2> SUFFICES ASSUME at = "gate", op.run.from = 0 PROVE InfoOnTag
    BY <1>6 DEF Syncing
  <2>1. AllBytes(tags[onReader].info) = AllBytes(working.info)
    BY <1>1, <1>3 DEF SameOnTag, Card
  <2> QED
    BY <2>1 DEF InfoOnTag, AllBytes, Bytes
<1>8. at = "gate" => Marked' /\ StepOnTag' /\ InfoOnTag'
  BY <1>1, <1>6, <1>7, MarkedKept
     DEF Marked, Syncing, StepOnTag, IsMarked, GateStep, Here, InfoOnTag
<1>9. CASE op.left = {}
  <2>1. op' = NoOp
    BY <1>1, <1>9
  <2>2. at = "gate" => Synced'
    BY <1>1, <1>6, <1>8, <2>1 DEF Synced, Syncing
  <2> QED
    BY <1>1, <1>2, <1>5, <1>8, <2>1, <2>2, CallEnds DEF OnItsWay
<1>10. CASE op.left # {}
  <2>1. FirstOf(op.left) \in op.left /\ op.left \subseteq Ranges
    BY <1>2, <1>10, FirstRange DEF WriteShape
  <2>2. /\ op'.call = "Sync" /\ op'.phase = "sum" /\ op'.run = FirstOf(op.left)
        /\ op'.left \subseteq op.left /\ DOMAIN op' = WriteFields
    BY <1>1, <1>10 DEF Writing, WriteFields
  <2>3. OpShape' /\ OpBounds'
    BY <2>1, <2>2 DEF OpShape, WriteShape, Writes, OpBounds
  <2>4. CallsFit' /\ Loading'
    BY <1>1, <1>2 DEF Carried, CallsFit, Loading, Here
  <2>5. at = "gate" => Syncing'
    BY <1>1, <1>6, <1>8, <2>1, <2>2 DEF Syncing, Transferred
  <2> QED
    BY <1>5, <1>8, <2>3, <2>4, <2>5 DEF HandlerCarried, AtGate, OnItsWay, Here
<1> QED
  BY <1>9, <1>10

\* A safe write is on the tag, and working learns of it.
LEMMA SafeWriteDoneCarried ==
  ASSUME Arrays, Carried, SafeWriteDone, Here, op # NoOp, op.phase = "verify",
         SameOnTag(op.run)
  PROVE  HandlerCarried
<1> DEFINE whole == op.call = "WriteSafeStep"
           copy == CopyToWorking(integrity, TRUE, whole)
<1>1. /\ op.call \in {"WriteSafeInfo", "WriteSafeStep"} /\ copy.ok /\ op' = NoOp
      /\ UNCHANGED <<tags, onReader, calls>>
      /\ integrity' = integrity /\ working' = copy.card /\ dirty' = copy.dirty
  BY DEF SafeWriteDone, Return, Copy
<1>2. /\ WriteShape /\ at # "loaded" /\ (whole => at = "gate")
      /\ at = "gate" => BeingWritten \/ Syncing
  BY WriteUnderWay
<1>3. /\ integrity.info.steps <= Len(integrity.steps) /\ integrity.info.steps \in Nat
      /\ IsCopy(integrity) /\ CopyFits(integrity) /\ CopyFits(working)
  BY <1>1, <1>2
     DEF Carried, CopiesFit, OpBounds, WriteShape, Card, Arrays, IsCopy, Counts
<1>4. integrity.info.steps \in 0 .. MaxSteps
  BY <1>3, ArrayOf, MaxStepsAssumption DEF CopyFits
<1>5. /\ CopyFits(copy.card) /\ copy.card.known = integrity.known
      /\ copy.card.info = integrity.info
      /\ copy.dirty = Resize(dirty, copy.card.info.steps)
      /\ \A i \in DOMAIN working.steps :
           i <= integrity.info.steps =>
             /\ i \in DOMAIN copy.card.steps
             /\ \/ copy.card.steps[i] = working.steps[i]
                \/ i \in DOMAIN integrity.steps /\ copy.card.steps[i] = integrity.steps[i]
  <2>1. whole \in BOOLEAN
    OBVIOUS
  <2>2. whole => CopyToWorking(integrity, TRUE, whole).ok
    BY <1>1
  <2> HIDE DEF whole
  <2> QED
    BY <1>3, <1>4, <2>1, <2>2, Told
<1> HIDE DEF copy, whole
<1>6. CopiesFit'
  BY <1>1, <1>5 DEF Carried, CopiesFit
<1>7. ASSUME at = "gate" PROVE Marked' /\ ToSync'
  <2>1. BeingWritten /\ Marked /\ ~Syncing
    BY <1>1, <1>2, <1>7, GateHolds DEF Syncing
  <2>2. GateStep \in DOMAIN working.steps /\ GateStep <= integrity.info.steps
        /\ IsMarked(working.steps[GateStep]) /\ IsMarked(integrity.steps[GateStep])
    BY <2>1 DEF Marked, BeingWritten
  <2>3. GateStep \in DOMAIN working'.steps /\ IsMarked(working'.steps[GateStep])
    BY <1>1, <1>5, <2>2
  <2>4. Marked'
    BY <2>1, <2>3 DEF Marked, GateStep, IsMarked, Here
  <2>5. StepOnTag'
    <3>1. GateStep \in 1 .. MaxSteps
      BY <2>1, GateStepFits
    <3>2. tags[onReader].steps[GateStep] = integrity.steps[GateStep]
      BY <1>1, <2>1, <3>1, MaxStepsAssumption DEF BeingWritten, SameOnTag, Card
    <3> QED
      BY <1>1, <2>2, <3>2 DEF StepOnTag, IsMarked, GateStep, Here
  <2>6. Len(dirty') = working'.info.steps
    BY <1>1, <1>3, <1>5 DEF Resize
  <2> QED
    BY <1>1, <1>5, <2>1, <2>4, <2>5, <2>6 DEF ToSync, BeingWritten
<1> QED
  BY <1>1, <1>2, <1>6, <1>7, CallEnds DEF OnItsWay

LEMMA VerifyCarried ==
  ASSUME Arrays, Carried, Verify, Here
  PROVE  HandlerCarried
<1>1. op # NoOp /\ op.phase = "verify"
  BY DEF Verify, AtTag
<1>2. CASE onReader # NoTag /\ SameOnTag(op.run) /\ (SyncRunWritten \/ SafeWriteDone)
  BY <1>1, <1>2, SyncRunWrittenCarried, SafeWriteDoneCarried
<1>3. CASE (onReader = NoTag \/ ~SameOnTag(op.run)) /\ (Retry \/ GiveUp)
  <2>1. at # "gate"
    <3>1. at = "gate" => BeingWritten \/ Syncing
      BY <1>1, WriteUnderWay
    <3>2. at = "gate" => onReader # NoTag /\ Transferred
      BY <3>1, GateHolds
    <3> QED
      BY <1>1, <1>3, <3>2 DEF Transferred
  <2> QED
    BY <1>1, <1>3, <2>1, RetryCarried, GiveUpCarried
<1> QED
  BY <1>2, <1>3 DEF Verify

\* A call that loads is under way: not at the gate.
LEMMA LoadUnderWay ==
  ASSUME Carried, op # NoOp, op.call = "LoadData"
  PROVE  LoadShape /\ at # "gate" /\ (at = "loaded" => calls = <<>>)
<1>1. LoadShape
  BY DEF Carried, OpShape, WriteShape, Writes
<1>2. at # "gate"
  BY DEF Carried, AtGate, OnItsWay, ToWrite, BeingWritten, ToSync, Syncing, Synced
<1>3. at = "loaded" => calls = <<>>
  BY DEF Carried, Loading
<1> QED
  BY <1>1, <1>2, <1>3

\* A load ends.
LEMMA LoadEnds ==
  ASSUME Carried, Here, op # NoOp, op.call = "LoadData", op' = NoOp, calls' = calls, CopiesFit',
         result'.value = 0 => integrity'.known /\ working'.info.steps = integrity'.info.steps
  PROVE  HandlerCarried
<1>1. at # "gate" /\ (at = "loaded" => calls = <<>>)
  BY LoadUnderWay
<1>2. OpShape' /\ OpBounds' /\ CallsFit' /\ AtGate'
  BY <1>1 DEF OpShape, OpBounds, NoOp, Writes, Carried, CallsFit, AtGate, Here
<1>3. Loading'
  BY <1>1 DEF Loading, Here
<1> QED
  BY <1>2, <1>3 DEF HandlerCarried

LEMMA LoadFailsCarried ==
  ASSUME Arrays, Carried, LoadFails, Here
  PROVE  HandlerCarried
<1>1. /\ op # NoOp /\ op.call = "LoadData" /\ op' = NoOp /\ calls' = calls
      /\ tags' = tags /\ working' = working /\ result'.value = 4
      /\ integrity' = integrity \/ integrity' = [integrity EXCEPT !.known = TRUE]
  BY DEF LoadFails, Doing, Return, NoOp
<1>2. CopyFits(integrity')
  <2>1. IsCopy(integrity) /\ CopyFits(integrity)
    BY DEF Arrays, Carried, CopiesFit
  <2>2. CopyFits([integrity EXCEPT !.known = TRUE])
    BY <2>1, CopyPut
  <2> QED
    BY <1>1, <2>1, <2>2, Zenon
<1>3. CopiesFit'
  BY <1>1, <1>2 DEF Carried, CopiesFit
<1>4. result'.value # 0
  BY <1>1
<1> QED
  BY <1>1, <1>3, <1>4, LoadEnds

LEMMA LoadInfoCarried ==
  ASSUME Arrays, Carried, LoadInfo, Here
  PROVE  HandlerCarried
<1> DEFINE found == tags[onReader].info
           is == IsSameData(found)
           needs == is.newCard \/ ~is.sameInfo
           card == [integrity EXCEPT !.known = TRUE, !.info.batch = found.batch]
           new == IF needs THEN [ChangeRecipeStepsSize(card, found.steps) EXCEPT !.info = found]
                  ELSE card
           copy == CopyToWorking(new, needs, FALSE)
<1>1. /\ op # NoOp /\ op.call = "LoadData" /\ onReader # NoTag /\ calls' = calls
      /\ UNCHANGED <<tags, onReader>> /\ integrity' = new
  <2>1. op.call = "LoadData" /\ onReader # NoTag /\ UNCHANGED <<tags, onReader, calls>>
    BY DEF LoadInfo, Doing
  <2>2. integrity' = new
    BY Zenon DEF LoadInfo
  <2>3. op # NoOp
    BY <2>1 DEF NoOp
  <2> QED
    BY <2>1, <2>2, <2>3
<1>2. LoadShape /\ at # "gate" /\ (at = "loaded" => calls = <<>>)
  BY <1>1, LoadUnderWay
<1>3. \/ /\ working' = Follows(found)
         /\ op' = [op EXCEPT !.phase = "steps", !.needInfo = needs]
      \/ /\ op' = NoOp
         /\ working' = IF needs THEN copy.card
                       ELSE [copy.card EXCEPT !.info.batch = Follows(found).info.batch]
  BY Zenon DEF LoadInfo, Return
<1>4. IsCopy(tags[onReader]) /\ TagFits(tags[onReader]) /\ found.steps \in 0 .. MaxSteps
  BY <1>1, MaxStepsAssumption DEF Arrays, TagsFit, IsCopy, Counts, Carried, CopiesFit, TagFits
<1>5. IsCopy(card) /\ CopyFits(card) /\ card.known
  <2>1. IsCopy(integrity) /\ CopyFits(integrity)
    BY DEF Arrays, Carried, CopiesFit
  <2>2. /\ IsCopy([integrity EXCEPT !.known = TRUE]) /\ CopyFits([integrity EXCEPT !.known = TRUE])
    BY <2>1, CopyPut, CopyChanged
  <2>3. card = [[integrity EXCEPT !.known = TRUE] EXCEPT !.info.batch = found.batch]
    BY Zenon
  <2>4. IsCopy(card) /\ CopyFits(card)
    BY <2>2, <2>3, CopyPut, CopyChanged
  <2>5. card.known
    BY <2>1 DEF CopyFits
  <2> QED
    BY <2>4, <2>5
<1>6. IsCopy(new) /\ CopyFits(new) /\ new.known /\ new.info.steps \in 0 .. MaxSteps
  <2>1. CASE needs
    <3> DEFINE sized == ChangeRecipeStepsSize(card, found.steps)
    <3>1. CopyFits(sized) /\ IsCopy(sized) /\ sized.known
      <4>1. found.steps \in Nat
        BY <1>4, MaxStepsAssumption
      <4>2. IsCopy(sized)
        BY <1>5, <4>1, SizeChanged
      <4>3. CopyFits(sized) /\ sized.known = card.known
        BY <1>4, <1>5, Resized
      <4> QED
        BY <1>5, <4>2, <4>3
    <3>2. new = [sized EXCEPT !.info = found]
      BY <2>1
    <3> HIDE DEF sized, new
    <3>3. Counts(found)
      BY <1>4 DEF IsCopy
    <3>4. IsCopy(new) /\ CopyFits(new)
      BY <3>1, <3>2, <3>3, CopyPut, CopyChanged
    <3>5. new.known /\ new.info = found
      BY <3>1, <3>2 DEF IsCopy, CopyFits
    <3> QED
      BY <1>4, <3>4, <3>5
  <2>2. CASE ~needs
    <3>1. new = card
      BY <2>2
    <3>2. card.info.steps = integrity.info.steps
      BY DEF Arrays, IsCopy, Counts
    <3>3. is.sameInfo
      BY <2>2
    <3>4. Bytes(integrity.info) = Bytes(found)
      BY <3>3 DEF IsSameData
    <3>5. integrity.info.steps = found.steps
      BY <3>4 DEF Bytes
    <3> QED
      BY <1>4, <1>5, <3>1, <3>2, <3>5
  <2> QED
    BY <2>1, <2>2
<1>7. IsCopy(Follows(found)) /\ CopyFits(Follows(found))
  <2>1. IsCopy(working) /\ CopyFits(working)
    BY DEF Arrays, Carried, CopiesFit
  <2>2. /\ IsCopy([working EXCEPT !.info.batch = found.batch])
        /\ CopyFits([working EXCEPT !.info.batch = found.batch])
    BY <2>1, CopyPut, CopyChanged
  <2> QED
    BY <2>1, <2>2, Zenon DEF Follows
<1>8. needs \in BOOLEAN
  OBVIOUS
<1> HIDE DEF new, card, is, needs
<1>9. CASE op' = [op EXCEPT !.phase = "steps", !.needInfo = needs]
  <2>1. CASE working' = Follows(found)
    <3>1. CopiesFit'
      BY <1>1, <1>6, <1>7, <2>1 DEF Carried, CopiesFit
    <3>2. /\ DOMAIN op' = DOMAIN op /\ op'.call = "LoadData" /\ op'.phase = "steps"
          /\ op'.needInfo = needs
      BY <1>1, <1>2, <1>9 DEF LoadShape
    <3>3. OpShape' /\ OpBounds'
      BY <1>1, <1>2, <1>6, <1>8, <3>2, MaxStepsAssumption
         DEF OpShape, LoadShape, OpBounds, Writes
    <3>4. CallsFit' /\ Loading' /\ AtGate'
      BY <1>1, <1>2, <3>2 DEF Carried, CallsFit, Loading, AtGate, Here
    <3> QED
      BY <3>1, <3>3, <3>4 DEF HandlerCarried
  <2>2. CASE working' # Follows(found)
    <3>1. op' = NoOp
      BY <1>3, <2>2
    <3>2. op'.call = "LoadData"
      BY <1>1, <1>2, <1>9 DEF LoadShape
    <3> QED
      BY <3>1, <3>2 DEF NoOp
  <2> QED
    BY <2>1, <2>2
<1>10. CASE op' # [op EXCEPT !.phase = "steps", !.needInfo = needs]
  <2>1. /\ op' = NoOp
        /\ working' = IF needs THEN copy.card
                      ELSE [copy.card EXCEPT !.info.batch = Follows(found).info.batch]
    BY <1>3, <1>10
  <2>2. /\ CopyFits(copy.card) /\ copy.card.info.steps = new.info.steps
    BY <1>6, <1>8, Told DEF Carried, CopiesFit
  <2>3. IsCopy(copy.card)
    BY <1>6, CopiedToWorking
  <2> HIDE DEF copy
  <2>4. CopyFits([copy.card EXCEPT !.info.batch = Follows(found).info.batch])
    BY <2>2, <2>3, CopyPut
  <2>5. [copy.card EXCEPT !.info.batch = Follows(found).info.batch].info.steps = new.info.steps
    BY <2>2, <2>3 DEF IsCopy, Counts
  <2>6. CopyFits(working') /\ working'.info.steps = new.info.steps
    BY <2>1, <2>2, <2>4, <2>5
  <2>7. CopiesFit'
    BY <1>1, <1>6, <2>6 DEF Carried, CopiesFit
  <2> QED
    BY <1>1, <1>6, <2>1, <2>6, <2>7, LoadEnds
<1> QED
  BY <1>9, <1>10

LEMMA LoadStepsCarried ==
  ASSUME Arrays, Carried, LoadSteps, Here
  PROVE  HandlerCarried
<1>1. /\ op # NoOp /\ op.call = "LoadData" /\ op.phase = "steps" /\ op' = NoOp /\ calls' = calls
      /\ UNCHANGED <<tags, onReader>>
  <2>1. op.call = "LoadData" /\ op.phase = "steps" /\ UNCHANGED <<tags, onReader, calls>>
    BY DEF LoadSteps, Doing
  <2>2. op' = NoOp
    BY Zenon DEF LoadSteps, Return
  <2>3. op # NoOp
    BY <2>1 DEF NoOp
  <2> QED
    BY <2>1, <2>2, <2>3
<1>2. CASE onReader = NoTag \/ ~integrity.created
  <2>1. UNCHANGED cards /\ Return(5)
    BY <1>2, Zenon DEF LoadSteps
  <2>2. CopiesFit' /\ result'.value # 0
    BY <1>1, <2>1 DEF Carried, CopiesFit, cards, Return
  <2> QED
    BY <1>1, <2>2, LoadEnds
<1>3. CASE ~(onReader = NoTag \/ ~integrity.created)
  <2> DEFINE read == StepsRead
             copy == CopyToWorking(read, op.needInfo, TRUE)
  <2>1. copy.ok /\ integrity' = read /\ working' = copy.card /\ onReader \in Tags
    BY <1>3 DEF LoadSteps, Copy, Arrays, TagsFit
  <2>2. op.needInfo \in BOOLEAN
    BY <1>1, LoadUnderWay DEF LoadShape
  <2>3. /\ integrity.known /\ integrity.info.steps <= MaxSteps
        /\ integrity.info.steps \in Nat /\ IsCopy(integrity) /\ CopyFits(integrity)
    BY <1>1 DEF Carried, OpBounds, Arrays, IsCopy, Counts, CopiesFit
  <2>4. ArrayFits([i \in 1 .. integrity.info.steps |-> tags[onReader].steps[i]])
    <3>1. tags[onReader].steps \in [1 .. MaxSteps -> Plain]
      BY <2>1 DEF Carried, CopiesFit, TagFits
    <3>2. [i \in 1 .. integrity.info.steps |-> tags[onReader].steps[i]]
            \in [1 .. integrity.info.steps -> Plain]
      BY <2>3, <3>1, MaxStepsAssumption
    <3> QED
      BY <2>3, <3>2, MaxStepsAssumption DEF ArrayFits
  <2>5. CopyFits(read) /\ IsCopy(read) /\ read.known = integrity.known
        /\ read.info = integrity.info
    BY <2>3, <2>4 DEF StepsRead, CopyFits, IsCopy
  <2> HIDE DEF read
  <2>6. CopyFits(copy.card) /\ copy.card.info.steps = read.info.steps
    <3>1. read.info.steps \in 0 .. MaxSteps /\ read.known
      BY <2>3, <2>5, MaxStepsAssumption
    <3>2. CopyFits(working)
      BY DEF Carried, CopiesFit
    <3> QED
      <4>1. CopyToWorking(read, op.needInfo, TRUE).ok
        BY <2>1
      <4>2. ASSUME NEW whole \in BOOLEAN, CopyToWorking(read, op.needInfo, whole).ok
            PROVE  /\ CopyFits(CopyToWorking(read, op.needInfo, whole).card)
                   /\ CopyToWorking(read, op.needInfo, whole).card.info.steps = read.info.steps
        BY <2>2, <2>5, <3>1, <3>2, <4>2, Told
      <4>3. CopyToWorking(read, op.needInfo, TRUE).ok =>
              /\ CopyFits(CopyToWorking(read, op.needInfo, TRUE).card)
              /\ CopyToWorking(read, op.needInfo, TRUE).card.info.steps = read.info.steps
        BY <4>2, Zenon
      <4> QED
        BY <4>1, <4>3
  <2>7. CopiesFit'
    BY <1>1, <2>1, <2>5, <2>6 DEF Carried, CopiesFit
  <2> QED
    BY <1>1, <2>1, <2>3, <2>5, <2>6, <2>7, LoadEnds
<1> QED
  BY <1>2, <1>3

\* Nothing the handler works with changes.
Rests == UNCHANGED <<tags, onReader, integrity, working, dirty, calls, op, result,
                     at, gate, targetHolds>>

LEMMA RestsCarried ==
  ASSUME Carried, Rests
  PROVE  HandlerCarried
<1> USE DEF Rests
<1>1. CopiesFit' /\ OpShape' /\ CallsFit' /\ Loading'
  BY DEF Carried, CopiesFit, OpShape, LoadShape, WriteShape, CallsFit, Loading
<1>2. OpBounds'
  BY DEF Carried, OpBounds, Card
<1>3. GateStep' = GateStep /\ (Marked => Marked')
  BY DEF Marked, GateStep, IsMarked
<1>4. StepOnTag' = StepOnTag /\ InfoOnTag' = InfoOnTag
  BY DEF StepOnTag, InfoOnTag, GateStep, IsMarked
<1>5. Transferred => Transferred'
  BY DEF Transferred, OnTag, SameOnTag, Card
<1>6. ToWrite => ToWrite'
  BY <1>3 DEF ToWrite
<1>7. BeingWritten => BeingWritten'
  BY <1>3, <1>5 DEF BeingWritten, IsMarked
<1>8. ToSync \/ Synced => ToSync' \/ Synced'
  BY <1>4 DEF ToSync, Synced
<1>9. Syncing => Syncing'
  BY <1>4, <1>5 DEF Syncing
<1>10. AtGate'
  BY <1>3, <1>6, <1>7, <1>8, <1>9 DEF Carried, AtGate, OnItsWay
<1> QED
  BY <1>1, <1>2, <1>10 DEF HandlerCarried

\* Every step of the handler.
LEMMA HandlerCarries ==
  ASSUME Arrays, Carried, HandlerWorks
  PROVE  Carried'
<1>1. Here /\ UNCHANGED <<raf, cardOnReader>> /\ HandlerStep
  BY DEF HandlerWorks, Here
<1>2. onReader' = onReader
  BY <1>1 DEF HandlerStep, StartCall, LoadFails, LoadInfo, LoadSteps, Sum, OutOfRange, WriteHead,
     Select, WriteStructure, AccessLost, Verify, Compare, MissingArray, MissingArrayAtStart,
     GiveUp, Retry, SyncRunWritten, SafeWriteDone, Panic
<1>3. HandlerCarried
  <2>1. CASE StartCall \/ LoadFails \/ LoadInfo \/ LoadSteps
    BY <1>1, <2>1, StartCallCarried, LoadFailsCarried, LoadInfoCarried, LoadStepsCarried
  <2>2. CASE Sum \/ WriteHead \/ Select \/ WriteStructure
    BY <1>1, <2>2, SumCarried, WriteHeadCarried, SelectCarried, WriteStructureCarried
  <2>3. CASE OutOfRange \/ AccessLost \/ Verify \/ Compare
    BY <1>1, <2>3, LostCarried, VerifyCarried, CompareCarried
  <2>4. CASE MissingArray \/ MissingArrayAtStart
    <3>1. UNCHANGED <<tags, onReader, integrity, working, dirty, calls, op, result>>
      BY <2>4 DEF MissingArray, MissingArrayAtStart, Panic, cards
    <3> QED
      BY <1>1, <3>1, RestsCarried DEF Rests, Here
  <2> QED
    BY <1>1, <2>1, <2>2, <2>3, <2>4 DEF HandlerStep
<1>4. Present' /\ AtMimo'
  BY <1>1, <1>2 DEF Carried, Present, AtMimo, Here
<1> QED
  BY <1>3, <1>4 DEF HandlerCarried, Carried

-----------------------------------------------------------------------------
\* The steps of the reader, which the handler lets go on when it rests.

LEMMA Goes ==
  ASSUME Carried, op = NoOp, op' = op, onReader' = onReader, onReader # NoTag,
         CopyFits(integrity'), CopyFits(working'), tags' = tags,
         calls' \in {<<>>, <<"LoadData">>, <<"WriteSafeInfo", "Sync">>, <<"Sync">>},
         at' \in {"loop", "poll", "written"}, at' = "loop" \/ raf' = "Mimo"
  PROVE  Carried'
<1>1. CopiesFit'
  BY DEF Carried, CopiesFit
<1>2. OpShape' /\ OpBounds'
  BY DEF OpShape, OpBounds, NoOp, Writes
<1>3. CallsFit' /\ Loading' /\ AtGate' /\ AtMimo' /\ Present'
  BY DEF CallsFit, Loading, AtGate, AtMimo, Present
<1> QED
  BY <1>1, <1>2, <1>3 DEF Carried

\* A reader that goes on stands before a product.
LEMMA ProductIsThere ==
  ASSUME Carried
  PROVE  /\ \A point \in Points \ {"loop"} : Ready("Mimo", point) => onReader # NoTag
         /\ \A s \in RafStates \ {"Wait"} : Enters(s) => onReader # NoTag
  BY DEF Carried, Present, Ready, Enters

LEMMA InfoIsDone ==
  ASSUME Arrays, Carried, NEW s, MarkDone(s), op = NoOp, onReader # NoTag
  PROVE  Carried'
<1>1. CopyFits([working EXCEPT !.info.done = TRUE])
  BY CopyPut DEF Arrays, Carried, CopiesFit
<1>2. /\ working' = [working EXCEPT !.info.done = TRUE]
      /\ calls' = <<"WriteSafeInfo", "Sync">>
      /\ UNCHANGED <<tags, onReader, integrity, op>> /\ at' = "loop"
  BY DEF MarkDone, KeepTag, Loop
<1>3. CopyFits(integrity) /\ CopyFits(working')
  BY <1>1, <1>2 DEF Carried, CopiesFit
<1> QED
  BY <1>2, <1>3, Goes

\* The steps that leave the copies as they are.
LEMMA QuietCarries ==
  ASSUME Carried,
         \/ LoadFailed \/ EmptyTag \/ Rescan \/ LocalRefused \/ LocalReserved \/ LocalMarked
         \/ PostStep \/ GateBlocked \/ KonecReceptu
         \/ TargetRefused \/ TransportFailed \/ TransportStarted
         \/ RecipeFinished /\ KeepHandler
  PROVE  Carried'
<1>1. UNCHANGED hVars /\ HandlerIdle
  BY DEF LoadFailed, EmptyTag, Rescan, LocalRefused, LocalReserved, LocalMarked, PostStep,
     GateBlocked, KonecReceptu, TargetRefused, TransportFailed, TransportStarted, RecipeFinished,
     KeepHandler, Decide, Reported, Loaded, Enters, Ready
<1>2. onReader # NoTag
  <2>1. \/ \E point \in Points \ {"loop"} : Ready("Mimo", point)
        \/ Enters("Konec")
    BY DEF LoadFailed, EmptyTag, Rescan, LocalRefused, LocalReserved, LocalMarked, PostStep,
       GateBlocked, KonecReceptu, TargetRefused, TransportFailed, TransportStarted, RecipeFinished,
       Decide, Reported, Loaded, Points
  <2> QED
    BY <2>1, ProductIsThere DEF RafStates
<1>3. at' \in {"loop", "poll"} /\ (at' = "loop" \/ raf' = "Mimo")
  <2>1. CASE LocalReserved \/ LocalMarked
    BY <2>1 DEF LocalReserved, LocalMarked, Decide, Reported, Loaded, Ready
  <2>2. CASE ~(LocalReserved \/ LocalMarked)
    <3>1. at' = "loop"
      BY <2>2 DEF LoadFailed, EmptyTag, Rescan, LocalRefused, PostStep, GateBlocked, KonecReceptu,
         TargetRefused, TransportFailed, TransportStarted, RecipeFinished, MarkDone, Loop
    <3> QED
      BY <3>1
  <2> QED
    BY <2>1, <2>2
<1>4. /\ op = NoOp /\ op' = op /\ onReader' = onReader /\ tags' = tags
      /\ integrity' = integrity /\ working' = working /\ calls' = <<>>
  BY <1>1 DEF hVars, cards, HandlerIdle
<1>5. CopyFits(integrity') /\ CopyFits(working')
  BY <1>4 DEF Carried, CopiesFit
<1> QED
  BY <1>2, <1>3, <1>4, <1>5, Goes

LEMMA MimoPolozenaCarries ==
  ASSUME Carried, MimoPolozena
  PROVE  Carried'
<1>1. /\ op = NoOp /\ op' = op /\ onReader' = onReader /\ tags' = tags
      /\ integrity' = integrity /\ working' = working /\ calls' = <<"LoadData">>
      /\ at' = "loaded" /\ raf = "Mimo" /\ raf' = raf
  BY DEF MimoPolozena, Calls, Enters, Ready, HandlerIdle, cards
<1>2. onReader # NoTag
  BY ProductIsThere DEF MimoPolozena, RafStates
<1>3. CopiesFit' /\ OpShape' /\ OpBounds'
  BY <1>1 DEF Carried, CopiesFit, OpShape, OpBounds, NoOp, Writes
<1>4. CallsFit' /\ Loading' /\ AtGate' /\ AtMimo' /\ Present'
  BY <1>1, <1>2 DEF CallsFit, Loading, AtGate, AtMimo, Present
<1> QED
  BY <1>3, <1>4 DEF Carried

LEMMA CompletionOkCarries ==
  ASSUME Arrays, Carried, CompletionOk
  PROVE  Carried'
<1>1. /\ op = NoOp /\ op' = op /\ onReader' = onReader /\ tags' = tags
      /\ integrity' = integrity /\ working' = Advance
      /\ calls' = <<"WriteSafeInfo", "Sync">> /\ at' = "written" /\ raf = "Mimo" /\ raf' = raf
  BY DEF CompletionOk, KeepTag, Calls, Ready, HandlerIdle
<1>2. onReader # NoTag
  BY ProductIsThere DEF CompletionOk, Points
<1>3. CopyFits(Advance)
  <2>1. CopyFits(working) /\ IsCopy(working)
    BY DEF Arrays, Carried, CopiesFit
  <2>2. /\ Advance.steps = [working.steps EXCEPT
                              ![Current] = [working.steps[Current] EXCEPT !.done = TRUE]]
        /\ "known" \in DOMAIN Advance
    BY <2>1 DEF Advance, IsCopy, CopyFits
  <2>3. Current \in DOMAIN working.steps => [working.steps[Current] EXCEPT !.done = TRUE] \in Plain
    BY <2>1, PlainStep, ArrayOf DEF CopyFits
  <2>4. ArrayFits([working.steps EXCEPT ![Current] = [working.steps[Current] EXCEPT !.done = TRUE]])
    BY <2>1, <2>3, ArrayPut DEF CopyFits
  <2> QED
    BY <2>2, <2>4 DEF CopyFits
<1>4. CopyFits(integrity') /\ CopyFits(working')
  BY <1>1, <1>3 DEF Carried, CopiesFit
<1> QED
  BY <1>1, <1>2, <1>4, Goes

\* The way to the gate: the marker is in working, and its write to come.
LEMMA TargetReservedCarries ==
  ASSUME Arrays, Carried, TargetReserved
  PROVE  Carried'
<1>1. /\ op = NoOp /\ op' = op /\ onReader' = onReader /\ tags' = tags
      /\ integrity' = integrity
      /\ working' = [working EXCEPT !.steps[Current].reserved = TargetOf(Current)]
      /\ calls' = <<"WriteSafeStep", "Sync">> /\ at' = "gate" /\ targetHolds'
      /\ gate' = [targetReserved |-> TRUE, stepIndex |-> working.info.actual,
                  targetCellId |-> TargetOf(Current)]
      /\ raf = "Mimo" /\ raf' = raf /\ working.known
  BY DEF TargetReserved, KeepTag, Calls, Decide, Reported, Loaded, Ready, HandlerIdle, Resolved,
     Info
<1>2. onReader # NoTag
  BY ProductIsThere DEF TargetReserved, Decide, Reported, Loaded, Points
<1>3. integrity.known /\ working.info.steps = integrity.info.steps
  <2>1. at = "loaded" /\ result.value = 0 /\ calls = <<>>
    BY DEF TargetReserved, Decide, Reported, Loaded, Ready, HandlerIdle
  <2> QED
    BY <1>1, <2>1 DEF Carried, Loading, NoOp
<1>4. /\ working.info.actual \in Nat /\ working.info.steps \in Nat
      /\ working.info.actual < working.info.steps /\ working.info.steps <= Len(working.steps)
  <2>1. working.info.actual \in Nat /\ working.info.steps \in Nat
    BY DEF Arrays, IsCopy, Counts
  <2>2. ~(working.info.actual >= working.info.steps)
    BY DEF TargetReserved, Decide, Finished, Info
  <2>3. working.info.steps <= Len(working.steps)
    BY DEF TargetReserved, Decide, Reported, IsRecipeEmpty, HasSteps
  <2> QED
    BY <2>1, <2>2, <2>3
<1>5. CopyFits(working) /\ IsCopy(working)
  BY DEF Arrays, Carried, CopiesFit
<1>6. Current = working.info.actual + 1 /\ Current \in DOMAIN working.steps
  BY <1>4, <1>5, ArrayOf, MaxStepsAssumption DEF CopyFits, Current, Info
<1>7. working.steps[Current] \in Plain
  BY <1>5, <1>6, ArrayOf DEF CopyFits
<1>8. TargetOf(Current) = working.steps[Current].owner /\ TargetOf(Current) \in UInt16
  BY <1>7, PlainStep DEF TargetOf, OwnerOf
<1> DEFINE step == [working.steps[Current] EXCEPT !.reserved = TargetOf(Current)]
<1>9. step \in Plain /\ step.reserved = TargetOf(Current) /\ step.owner = TargetOf(Current)
  BY <1>7, <1>8, PlainStep
<1>10. /\ working'.steps = [working.steps EXCEPT ![Current] = step]
       /\ working'.known = working.known /\ working'.info = working.info
       /\ "known" \in DOMAIN working'
  BY <1>1, <1>5 DEF IsCopy, CopyFits
<1> HIDE DEF step
<1>11. CopyFits(working')
  <2>1. ArrayFits([working.steps EXCEPT ![Current] = step])
    BY <1>5, <1>9, ArrayPut DEF CopyFits
  <2> QED
    BY <1>10, <2>1 DEF CopyFits
<1>12. CopiesFit' /\ OpShape' /\ OpBounds'
  BY <1>1, <1>11 DEF Carried, CopiesFit, OpShape, OpBounds, NoOp, Writes
<1>13. GateStep' = Current
  BY <1>1, <1>6 DEF GateStep
<1>14. Marked'
  <2>1. working'.steps[Current] = step /\ Current \in DOMAIN working'.steps
    BY <1>6, <1>10
  <2>2. gate'.targetCellId = TargetOf(Current) /\ gate'.stepIndex = working.info.actual
    BY <1>1
  <2> QED
    BY <1>1, <1>4, <1>9, <1>13, <2>1, <2>2 DEF Marked, IsMarked
<1>15. ToWrite'
  BY <1>1, <1>3, <1>4, <1>6, <1>10, <1>13 DEF ToWrite
<1>16. CallsFit' /\ Loading' /\ AtGate' /\ AtMimo' /\ Present'
  BY <1>1, <1>2, <1>14, <1>15 DEF CallsFit, Loading, AtGate, OnItsWay, AtMimo, Present
<1> QED
  BY <1>12, <1>16 DEF Carried

\* New recipes fit.
LEMMA NewRecipeFits ==
  ASSUME NEW owners \in Seq(UInt16), Len(owners) <= MaxSteps
  PROVE  CopyFits(NewRecipe(owners)) /\ IsCopy(NewRecipe(owners))
<1> DEFINE array == [i \in 1 .. Len(owners) |-> [EmptyStep EXCEPT !.owner = owners[i]]]
           card == [info    |-> [noInfo EXCEPT !.steps = Len(owners), !.batch = batches + 1],
                    steps   |-> array,
                    known   |-> TRUE,
                    created |-> owners # <<>>,
                    loaded  |-> FALSE,
                    uid     |-> NoUid]
<1>1. ArrayFits(array)
  <2>1. Len(owners) \in 0 .. MaxSteps
    BY MaxStepsAssumption
  <2>2. array \in [1 .. Len(owners) -> Plain]
    BY PlainStep
  <2> HIDE DEF array
  <2> QED
    BY <2>1, <2>2 DEF ArrayFits
<1>2. NewRecipe(owners) = [card EXCEPT !.info.cs = CheckSum(card)]
  BY Zenon DEF NewRecipe, GetCardInfoByNumber
<1> HIDE DEF array
<1>3. card.steps = array /\ {"info", "known", "steps"} \subseteq DOMAIN card
  OBVIOUS
<1> HIDE DEF card
<1>4. CopyFits([card EXCEPT !.info.cs = CheckSum(card)])
  BY <1>1, <1>3 DEF CopyFits
<1> QED
  BY <1>2, <1>4, NewRecipeIsCopy

LEMMA InitTCardInfoFits ==
  ASSUME NEW info
  PROVE  CopyFits(InitTCardInfo(info))
<1>1. <<>> \in [1 .. 0 -> Plain] /\ 0 \in 0 .. MaxSteps
  BY MaxStepsAssumption
<1>2. ArrayFits(<<>>)
  BY <1>1 DEF ArrayFits
<1> QED
  BY <1>2 DEF CopyFits, InitTCardInfo

LEMMA PresunCarries ==
  ASSUME Arrays, Carried, Presun
  PROVE  Carried'
<1>1. /\ op = NoOp /\ op' = op /\ onReader' = onReader /\ tags' = tags
      /\ integrity' = InitTCardInfo(integrity.info)
      /\ working' = [NewRecipe(ToStorage) EXCEPT !.info.id = 1]
      /\ calls' = <<"Sync">> /\ at' = "loop"
  BY DEF Presun, Enters, Ready, HandlerIdle, Loop
<1>2. onReader # NoTag
  BY ProductIsThere DEF Presun, RafStates
<1>3. CopyFits(working')
  <2>1. CopyFits(NewRecipe(ToStorage)) /\ IsCopy(NewRecipe(ToStorage))
    BY RecipesAssumption, NewRecipeFits
  <2> QED
    BY <1>1, <2>1 DEF CopyFits, IsCopy
<1>4. CopyFits(integrity')
  BY <1>1, InitTCardInfoFits
<1> QED
  BY <1>1, <1>2, <1>3, <1>4, Goes

LEMMA NovyReceptCarries ==
  ASSUME Arrays, Carried, NovyRecept
  PROVE  Carried'
<1> DEFINE number == IF receiptCounter >= Len(Recipes) THEN 0 ELSE receiptCounter
           card == NewRecipe(Recipes[number + 1])
<1>1. number + 1 \in 1 .. Len(Recipes)
  BY RecipesAssumption DEF Arrays
<1>2. /\ op = NoOp /\ op' = op /\ onReader' = onReader /\ tags' = tags
      /\ integrity' = integrity /\ AddCardInfoToWorking(card)
      /\ calls' = <<"Sync">> /\ at' = "loop"
  BY DEF NovyRecept, KeepTag, Enters, Ready, HandlerIdle, Loop
<1>3. onReader # NoTag
  BY ProductIsThere DEF NovyRecept, RafStates
<1> HIDE DEF number
<1>4. CopyFits(card) /\ IsCopy(card)
  <2>1. Recipes \in Seq(Seq(UInt16)) /\ \A i \in DOMAIN Recipes : Len(Recipes[i]) <= MaxSteps
    BY RecipesAssumption
  <2>2. Recipes[number + 1] \in Seq(UInt16) /\ Len(Recipes[number + 1]) <= MaxSteps
    BY <1>1, <2>1
  <2> QED
    BY <2>2, NewRecipeFits
<1> HIDE DEF card
<1>5. CopyFits(working')
  BY <1>2, <1>4 DEF AddCardInfoToWorking, CopyFits, IsCopy
<1>6. CopyFits(integrity')
  BY <1>2 DEF Carried, CopiesFit
<1> QED
  BY <1>2, <1>3, <1>5, <1>6, Goes

\* After a restart the reader forgets where it was.
LEMMA RestartCarries ==
  ASSUME Carried, Restart
  PROVE  Carried'
<1>1. /\ op' = NoOp /\ calls' = <<>> /\ at' = "loop" /\ raf' = "Mimo" /\ cardOnReader' = FALSE
      /\ integrity' = InitTCardInfo(StackInfo) /\ working' = InitTCardInfo(StackInfo)
      /\ tags' = tags
  BY DEF Restart, Loop
<1>2. CopyFits(integrity') /\ CopyFits(working')
  BY <1>1, InitTCardInfoFits
<1>3. CopiesFit'
  BY <1>1, <1>2 DEF Carried, CopiesFit
<1>4. OpShape' /\ OpBounds' /\ CallsFit' /\ Loading' /\ AtGate' /\ AtMimo' /\ Present'
  BY <1>1 DEF OpShape, OpBounds, NoOp, Writes, CallsFit, Loading, AtGate, AtMimo, Present
<1> QED
  BY <1>3, <1>4 DEF Carried

LEMMA GoneCarries ==
  ASSUME Carried, Gone
  PROVE  Carried'
<1>1. /\ op = NoOp /\ op' = op /\ calls' = <<>> /\ at' = "loop" /\ raf' = "Mimo"
      /\ ~cardOnReader' /\ UNCHANGED <<tags, integrity, working>>
  BY DEF Gone, HandlerIdle, Loop, hVars, cards
<1>2. CopiesFit'
  BY <1>1 DEF Carried, CopiesFit
<1>3. OpShape' /\ OpBounds' /\ CallsFit' /\ Loading' /\ AtGate' /\ AtMimo' /\ Present'
  BY <1>1 DEF OpShape, OpBounds, NoOp, Writes, CallsFit, Loading, AtGate, AtMimo, Present
<1> QED
  BY <1>2, <1>3 DEF Carried

-----------------------------------------------------------------------------
\* What happens around the reader.

\* The copies, the call and the place are as they were.
Apart == UNCHANGED <<integrity, working, dirty, calls, op, result, raf, at, gate, targetHolds>>

LEMMA ApartCarries ==
  ASSUME Carried, Apart, UNCHANGED <<tags, onReader>>, Present'
  PROVE  Carried'
<1>1. HandlerCarried
  BY RestsCarried DEF Rests, Apart
<1>2. AtMimo'
  BY DEF Carried, AtMimo, Apart
<1> QED
  BY <1>1, <1>2 DEF HandlerCarried, Carried

\* Away from the gate a tag may change, and another one come.
LEMMA AwayCarries ==
  ASSUME Carried, UNCHANGED <<integrity, working, calls, op, result, raf, at>>, at # "gate",
         \A t \in Tags : TagFits(tags'[t]), Present'
  PROVE  Carried'
<1>1. /\ CopiesFit' /\ OpShape' /\ OpBounds' /\ CallsFit' /\ AtMimo' /\ Loading' /\ AtGate'
  BY DEF Carried, CopiesFit, OpShape, LoadShape, WriteShape, OpBounds, Card, CallsFit,
     AtMimo, Loading, AtGate
<1> QED
  BY <1>1 DEF Carried

LEMMA LeavesCarries ==
  ASSUME Stays, Carried, Leaves
  PROVE  Carried'
<1>1. /\ raf = "Wait" /\ op = NoOp /\ op' = op
      /\ UNCHANGED <<tags, integrity, working, calls, result, raf, at>>
  BY DEF Leaves, TakeAway, HandlerIdle, cards, aasVars
<1>2. at # "gate" /\ Present'
  BY <1>1 DEF Carried, AtMimo, Present
<1>3. \A t \in Tags : TagFits(tags'[t])
  BY <1>1 DEF Carried, CopiesFit
<1> QED
  BY <1>1, <1>2, <1>3, AwayCarries

LEMMA ArrivesCarries ==
  ASSUME Carried, NEW t \in Tags, Arrives(t)
  PROVE  Carried'
<1>1. /\ onReader = NoTag /\ onReader' = t
      /\ UNCHANGED <<tags, integrity, working, calls, op, result, raf, at, cardOnReader>>
  BY DEF Arrives, PutDown, cards, aasVars
<1>2. at # "gate" /\ Present'
  BY <1>1, TagsAssumption DEF Carried, AtMimo, Present
<1>3. \A u \in Tags : TagFits(tags'[u])
  BY <1>1 DEF Carried, CopiesFit
<1> QED
  BY <1>1, <1>2, <1>3, AwayCarries

\* Another cell works on a product that is away: no reader is at the gate with it.
LEMMA ElsewhereCarries ==
  ASSUME OneProduct, Arrays, Carried, NEW t \in Tags, DoneElsewhere(t) \/ SentHere(t)
  PROVE  Carried'
<1>1. /\ Travels /\ onReader # t
      /\ UNCHANGED <<onReader, integrity, working, calls, op, result, raf, at, cardOnReader>>
  BY DEF DoneElsewhere, SentHere, cards, aasVars
<1>2. onReader = NoTag
  BY <1>1 DEF OneProduct, Arrays, TagsFit
<1>3. at # "gate" /\ Present'
  BY <1>1, <1>2 DEF Carried, AtMimo, Present
<1>4. /\ \A u \in Tags : IsCopy(tags[u]) /\ TagFits(tags[u])
      /\ DOMAIN tags = Tags
  BY DEF Arrays, TagsFit, Carried, CopiesFit
<1> DEFINE i == tags[t].info.actual + 1
<1>5. \A x \in {TRUE} : \A y \in {ME} :
        /\ [tags[t].steps EXCEPT ![i].done = x] \in [1 .. MaxSteps -> Plain]
        /\ [tags[t].steps EXCEPT ![i].reserved = y] \in [1 .. MaxSteps -> Plain]
  <2>1. tags[t].steps \in [1 .. MaxSteps -> Plain]
    BY <1>4 DEF TagFits
  <2>2. ME \in UInt16
    BY MeAssumption
  <2>3. \A j \in 1 .. MaxSteps : /\ [tags[t].steps[j] EXCEPT !.done = TRUE] \in Plain
                                /\ [tags[t].steps[j] EXCEPT !.reserved = ME] \in Plain
    BY <2>1, <2>2, PlainStep
  <2> HIDE DEF i
  <2> QED
    BY <2>1, <2>3
<1>6. CASE DoneElsewhere(t)
  <2>1. \E x, y : tags' = [tags EXCEPT ![t] =
          [info |-> [[tags[t].info EXCEPT !.actual = i, !.done = x] EXCEPT !.cs = y],
           steps |-> [tags[t].steps EXCEPT ![i].done = TRUE]]]
    BY <1>6, Zenon DEF DoneElsewhere
  <2>2. PICK x, y : tags' = [tags EXCEPT ![t] =
          [info |-> [[tags[t].info EXCEPT !.actual = i, !.done = x] EXCEPT !.cs = y],
           steps |-> [tags[t].steps EXCEPT ![i].done = TRUE]]]
    BY <2>1
  <2> HIDE DEF i
  <2>3. /\ tags'[t].steps = [tags[t].steps EXCEPT ![i].done = TRUE]
        /\ tags'[t].info.steps = tags[t].info.steps
        /\ \A u \in Tags \ {t} : tags'[u] = tags[u]
    BY <1>4, <2>2 DEF IsCopy, Counts
  <2>4. \A u \in Tags : TagFits(tags'[u])
    BY <1>4, <1>5, <2>3 DEF TagFits
  <2> QED
    BY <1>1, <1>3, <2>4, AwayCarries
<1>7. CASE SentHere(t)
  <2>1. \E y : tags' = [tags EXCEPT ![t].steps = [tags[t].steps EXCEPT ![i].reserved = ME],
                                   ![t].info.cs = y]
    BY <1>7, Zenon DEF SentHere
  <2>2. PICK y : tags' = [tags EXCEPT ![t].steps = [tags[t].steps EXCEPT ![i].reserved = ME],
                                      ![t].info.cs = y]
    BY <2>1
  <2> HIDE DEF i
  <2>3. /\ tags'[t].steps = [tags[t].steps EXCEPT ![i].reserved = ME]
        /\ tags'[t].info.steps = tags[t].info.steps
        /\ \A u \in Tags \ {t} : tags'[u] = tags[u]
    BY <1>4, <2>2 DEF IsCopy, Counts
  <2>4. \A u \in Tags : TagFits(tags'[u])
    BY <1>4, <1>5, <2>3 DEF TagFits
  <2> QED
    BY <1>1, <1>3, <2>4, AwayCarries
<1> QED
  BY <1>6, <1>7
-----------------------------------------------------------------------------
\* Every step, and where a product is sent away.

LEMMA ReportCarries ==
  ASSUME Arrays, Carried, ReportRefused \/ CompletionFailed \/ RecipeFinished
  PROVE  Carried'
<1>1. HandlerIdle /\ onReader # NoTag
  BY ProductIsThere DEF ReportRefused, CompletionFailed, RecipeFinished, Reported, Loaded, Ready,
     Points
<1>2. op = NoOp
  BY <1>1 DEF HandlerIdle
<1>3. \A s : MarkDone(s) => Carried'
  BY <1>1, <1>2, InfoIsDone
<1>4. CASE RecipeFinished /\ KeepHandler
  BY <1>4, QuietCarries
<1> QED
  BY <1>3, <1>4 DEF ReportRefused, CompletionFailed, RecipeFinished

LEMMA AroundCarries ==
  ASSUME Carried, PollCard \/ GuardExpires \/ CellWorks
  PROVE  Carried'
<1>1. Apart /\ UNCHANGED <<tags, onReader>>
  BY DEF PollCard, GuardExpires, CellWorks, Apart, hVars, cards, aasVars
<1>2. cardOnReader' = cardOnReader \/ cardOnReader' = (onReader # NoTag)
  BY DEF PollCard, GuardExpires, CellWorks, aasVars
<1>3. Present'
  BY <1>1, <1>2 DEF Carried, Present, Apart
<1> QED
  BY <1>1, <1>3, ApartCarries

\* Every step of the reader and of what is around it.
LEMMA NextCarries ==
  ASSUME Stays, OneProduct, Arrays, Carried, Next
  PROVE  Carried'
<1>1. CASE LoadFailed \/ EmptyTag \/ Rescan \/ LocalRefused \/ LocalReserved \/ LocalMarked
           \/ PostStep \/ GateBlocked \/ KonecReceptu
           \/ TargetRefused \/ TransportFailed \/ TransportStarted
  BY <1>1, QuietCarries
<1>2. CASE Gone \/ MimoPolozena
  BY <1>2, GoneCarries, MimoPolozenaCarries
<1>3. CASE ReportRefused \/ CompletionFailed \/ RecipeFinished
  BY <1>3, ReportCarries
<1>4. CASE CompletionOk \/ TargetReserved
  BY <1>4, CompletionOkCarries, TargetReservedCarries
<1>5. CASE Presun \/ NovyRecept
  BY <1>5, PresunCarries, NovyReceptCarries
<1>6. CASE HandlerWorks
  BY <1>6, HandlerCarries
<1>7. CASE PollCard \/ GuardExpires \/ CellWorks
  BY <1>7, AroundCarries
<1>8. CASE Leaves \/ Reboot
  BY <1>8, LeavesCarries, RestartCarries DEF Reboot
<1>9. CASE \E t \in Tags : DoneElsewhere(t) \/ SentHere(t) \/ Arrives(t)
  BY <1>9, ElsewhereCarries, ArrivesCarries
<1> QED
  BY <1>1, <1>2, <1>3, <1>4, <1>5, <1>6, <1>7, <1>8, <1>9 DEF Next, Reader, Decides

LEMMA InitCarries ==
  ASSUME NoneInquired, Init
  PROVE  Carried
<1>1. /\ integrity = InitTCardInfo(StackInfo) /\ working = InitTCardInfo(StackInfo)
      /\ calls = <<>> /\ op = NoOp /\ at = "loop" /\ cardOnReader = FALSE /\ tags \in FirstTags
  BY DEF Init, HandlerInit
<1>2. CopyFits(integrity) /\ CopyFits(working)
  BY <1>1, InitTCardInfoFits
<1>3. \A t \in Tags : TagFits(tags[t])
  <2>1. tags \in [Tags -> [info : TRecipeInfo, steps : [1 .. MaxSteps -> TRecipeStep]]]
        /\ \A t \in Tags : tags[t].info.steps <= MaxSteps
    BY <1>1, FirstTagsAssumption
  <2>2. \A t \in Tags : \A i \in 1 .. MaxSteps : tags[t].steps[i].cell = 0
    BY <1>1 DEF NoneInquired
  <2>3. \A t \in Tags : tags[t].steps \in [1 .. MaxSteps -> TRecipeStep]
    BY <2>1
  <2>4. \A t \in Tags : tags[t].steps \in [1 .. MaxSteps -> Plain]
    BY <2>2, <2>3 DEF Plain
  <2> QED
    BY <2>1, <2>4 DEF TagFits
<1>4. OpShape /\ OpBounds /\ CallsFit /\ Present /\ AtMimo /\ Loading /\ AtGate
  BY <1>1 DEF OpShape, OpBounds, NoOp, Writes, CallsFit, Present, AtMimo, Loading, AtGate
<1> QED
  BY <1>2, <1>3, <1>4 DEF Carried, CopiesFit

\* A product is sent away by a transport that has started, and by nothing else.
LEMMA SentByTransport ==
  ASSUME Carried, Next, at = "gate", at' = "loop", raf' = "Wait"
  PROVE  TransportStarted
<1>1. raf = "Mimo"
  BY DEF Carried, AtMimo
<1>2. ~ \E point \in Points \ {"gate"} : Ready("Mimo", point)
  BY DEF Ready
<1>3. ~Decides \/ GateBlocked
  BY <1>1, <1>2 DEF Decides, MimoPolozena, LoadFailed, EmptyTag, ReportRefused, RecipeFinished,
     Rescan, LocalRefused, LocalReserved, LocalMarked, CompletionFailed, CompletionOk, PostStep,
     Presun, KonecReceptu, NovyRecept, Loaded, Reported, Decide, Enters, Ready
<1>4. ~GateBlocked /\ ~TransportFailed /\ ~Gone /\ ~Reboot
  BY DEF GateBlocked, TransportFailed, Gone, Reboot, Restart, Loop
<1>5. ~TargetRefused /\ ~TargetReserved
  BY <1>1, <1>2 DEF TargetRefused, TargetReserved, Decide, Reported, Loaded, Ready
<1>6. ~HandlerWorks /\ ~PollCard /\ ~GuardExpires /\ ~CellWorks /\ ~Leaves
      /\ ~ \E t \in Tags : DoneElsewhere(t) \/ SentHere(t) \/ Arrives(t)
  BY DEF HandlerWorks, PollCard, GuardExpires, CellWorks, Leaves, DoneElsewhere, SentHere, Arrives,
     aasVars
<1> QED
  BY <1>3, <1>4, <1>5, <1>6 DEF Next, Reader

LEMMA TransportFindsMarker ==
  ASSUME Arrays, Carried, TransportStarted
  PROVE  /\ targetHolds /\ onReader # NoTag
         /\ LET i == tags[onReader].info.actual + 1
            IN /\ gate.stepIndex = i - 1
               /\ tags[onReader].steps[i].reserved = gate.targetCellId
               /\ tags[onReader].steps[i].owner = gate.targetCellId
<1>1. HandlerIdle /\ raf = "Mimo" /\ at = "gate" /\ gate.stepIndex = working.info.actual
  BY DEF TransportStarted, Ready, GateMatches, Info
<1>2. Marked /\ OnItsWay /\ onReader # NoTag
  BY <1>1 DEF Carried, AtGate, Present
<1>3. Synced
  BY <1>1, <1>2 DEF OnItsWay, ToWrite, BeingWritten, ToSync, Syncing, HandlerIdle, NoOp
<1>4. tags[onReader].info.actual = gate.stepIndex /\ gate.stepIndex \in Nat
  BY <1>1, <1>2, <1>3 DEF Synced, InfoOnTag, Marked
<1> QED
  BY <1>2, <1>3, <1>4 DEF Marked, Synced, StepOnTag, IsMarked, GateStep

\* A product leaves for a cell when that cell's PLC holds a reservation and the
\* tag says so at the step it is at (TransportIsMarked), for every number of
\* steps, every set of recipes and every table of cells, whatever the handler
\* had left to write before, and restarts: where products stay until they are
\* waited for, where the product that travels is a single one, and where none
\* comes with a cell inquired.
THEOREM ReaderMarksTransport ==
  ASSUME Stays, OneProduct, NoneInquired
  PROVE  Spec => TransportIsMarked
<1> DEFINE Sent == at = "gate" /\ at' = "loop" /\ raf' = "Wait" =>
                     /\ targetHolds
                     /\ onReader # NoTag
                     /\ LET i == tags[onReader].info.actual + 1
                        IN /\ gate.stepIndex = i - 1
                           /\ tags[onReader].steps[i].reserved = gate.targetCellId
                           /\ tags[onReader].steps[i].owner = gate.targetCellId
<1>1. Init => Arrays /\ Carried
  BY InitFits, InitCarries
<1>2. Arrays /\ Carried /\ [Next]_vars => (Arrays /\ Carried)' /\ [Sent]_vars
  <2> SUFFICES ASSUME Arrays, Carried, [Next]_vars
               PROVE  (Arrays /\ Carried)' /\ [Sent]_vars
    OBVIOUS
  <2>1. CASE Next
    <3>1. Arrays' /\ Carried'
      BY <2>1, NextKeeps, NextCarries
    <3>2. Sent
      BY <2>1, SentByTransport, TransportFindsMarker
    <3> HIDE DEF Sent
    <3> QED
      BY <3>1, <3>2
  <2>2. CASE UNCHANGED vars
    <3>1. Arrays'
      BY <2>2 DEF vars, hVars, cards, aasVars, Arrays, Marks, TagsFit, OpFits
    <3>2. Apart /\ UNCHANGED <<tags, onReader>> /\ Present'
      BY <2>2 DEF vars, hVars, cards, aasVars, Apart, Carried, Present
    <3>3. Carried'
      BY <3>2, ApartCarries
    <3> HIDE DEF Sent
    <3> QED
      BY <2>2, <3>1, <3>3
  <2> QED
    BY <2>1, <2>2
<1>3. Spec => [][Sent]_vars
  BY <1>1, <1>2, PTL DEF Spec
<1> QED
  BY <1>3 DEF TransportIsMarked

-----------------------------------------------------------------------------
\* A recipe is written over only when it is finished, given up or broken.

\* A recipe that may be written over, and two infos that tell the same.
Spent(info) == info.id = 0 \/ info.done \/ info.actual >= info.steps
Same(a, b) == Bytes(a) = Bytes(b) /\ a.batch = b.batch
TagInfo == tags[onReader].info

\* integrity has its array unless it was never made.
IsMade(card) == "created" \in DOMAIN card /\ (card.created \/ card.steps = <<>>)
ArrayMade == IsMade(integrity)

\* A product is away only while it is waited for.
Waits == op = NoOp /\ calls = <<>>
Stands ==
  onReader = NoTag => /\ Waits /\ at = "loop"
                      /\ raf = "Wait" \/ (raf = "Mimo" /\ ~cardOnReader)

\* Which calls are made where, and how far they are.
InfoThenSync == <<"WriteSafeInfo", "Sync">>
StepThenSync == <<"WriteSafeStep", "Sync">>
Shaped == \/ op = NoOp
          \/ /\ op.call = "LoadData" /\ DOMAIN op = {"call", "phase", "needInfo"}
             /\ op.phase \in {"info", "steps"}
          \/ /\ op.call \in Writes /\ DOMAIN op = WriteFields
             /\ op.phase \notin {"info", "steps"}
InPlace ==
  /\ at # "loop" => raf = "Mimo"
  /\ calls \in {<<>>, <<"LoadData">>, InfoThenSync, StepThenSync, <<"Sync">>}
  /\ \/ op = NoOp \/ calls = <<>>
     \/ calls = <<"Sync">> /\ op.call \in {"WriteSafeInfo", "WriteSafeStep"}
  /\ calls = <<"LoadData">> \/ op.call = "LoadData" => at = "loaded"
  /\ at = "loaded" => calls \in {<<>>, <<"LoadData">>} /\ (op = NoOp \/ op.call = "LoadData")
  /\ calls = StepThenSync \/ op.call = "WriteSafeStep" => at = "gate"
  /\ at = "poll" \/ raf \in {"Wait", "Presun", "Novy"} => Waits

\* The info that is written by itself.
InfoWritten ==
  op.call = "WriteSafeInfo" =>
    /\ op.run = [from |-> 0, to |-> 0]
    /\ op.phase = "write" => op.sel = onReader /\ op.next = 0
    /\ op.phase = "verify" => AllBytes(TagInfo) = AllBytes(integrity.info)

\* Between two calls the copies tell of the same recipe, unless integrity has
\* none that counts.
Settled ==
  \/ calls = InfoThenSync \/ (op.call = "LoadData" /\ op.phase = "steps")
  \/ Same(working.info, integrity.info) \/ Spent(integrity.info) \/ integrity.steps = <<>>

\* What the reader decides by is what the tag holds.
Agree == Same(integrity.info, TagInfo) /\ (Same(working.info, TagInfo) \/ Spent(TagInfo))
Agreed ==
  /\ (at = "loaded" /\ Waits /\ result.value = 0) \/ at = "poll" => Agree
  /\ at = "loaded" /\ Waits /\ result.value = 4 => TagInfo.id = 0
  /\ op.call = "LoadData" /\ op.phase = "steps" =>
       /\ Same(integrity.info, TagInfo)
       /\ op.needInfo \/ Same(working.info, TagInfo) \/ Spent(TagInfo)

\* What is to be written is the recipe on the tag, or the tag is free.
MayWrite(info) == Spent(TagInfo) \/ info.batch = TagInfo.batch
MayBeWritten ==
  /\ op.call \in Writes \/ calls \in {InfoThenSync, StepThenSync, <<"Sync">>} =>
       MayWrite(working.info)
  /\ op.call = "WriteSafeInfo" => Same(integrity.info, working.info)
  /\ op.call = "WriteSafeStep" \/ calls = StepThenSync => Same(integrity.info, TagInfo)
  /\ op.call = "Sync" => op.run.from = 0 \/ Same(working.info, integrity.info)

\* The way to a new recipe.
GivenUp ==
  /\ raf \in {"Konec", "Novy"} => /\ Spent(TagInfo) /\ Spent(integrity.info)
                                  /\ Waits \/ working.info.done
  /\ raf = "Presun" => TagInfo.id = 0

KeptHere == Shaped /\ Stands /\ InPlace /\ InfoWritten
KeptInfos == ArrayMade /\ Settled /\ Agreed /\ MayBeWritten /\ GivenUp
Kept == KeptHere /\ KeptInfos

\* No recipe is written over but a free one.
Keeps == \A t \in Tags : tags'[t].info.batch # tags[t].info.batch => Spent(tags[t].info)

-----------------------------------------------------------------------------
\* Lemmas about infos.

LEMMA SameIsEqual ==
  ASSUME NEW a, NEW b, Same(a, b)
  PROVE  /\ Same(b, a) /\ (Spent(a) <=> Spent(b)) /\ (a.done <=> b.done)
         /\ a.batch = b.batch /\ a.steps = b.steps /\ a.id = b.id
         /\ \A c : Same(b, c) => Same(a, c)
BY DEF Same, Bytes, Spent

LEMMA SumIsApart ==
  ASSUME NEW info, Counts(info), NEW x
  PROVE  Same([info EXCEPT !.cs = x], info) /\ Same(info, info)
BY DEF Same, Bytes, Counts

LEMMA EmptyStays ==
  /\ \A i, x : [<<>> EXCEPT ![i] = x] = <<>>
  /\ \A f : [i \in DOMAIN <<>> |-> f[i]] = <<>>
  /\ \A f : [i \in 1 .. 0 |-> f[i]] = <<>>
BY SMT

\* The calls to come are told apart.
LEMMA CallsDiffer ==
  /\ InfoThenSync \notin {<<>>, <<"LoadData">>, StepThenSync, <<"Sync">>}
  /\ StepThenSync \notin {<<>>, <<"LoadData">>, <<"Sync">>}
  /\ <<"LoadData">> \notin {<<>>, <<"Sync">>} /\ <<"Sync">> # <<>>
  /\ Head(InfoThenSync) = "WriteSafeInfo" /\ Tail(InfoThenSync) = <<"Sync">>
  /\ Head(StepThenSync) = "WriteSafeStep" /\ Tail(StepThenSync) = <<"Sync">>
  /\ Head(<<"LoadData">>) = "LoadData" /\ Tail(<<"LoadData">>) = <<>>
  /\ Head(<<"Sync">>) = "Sync" /\ Tail(<<"Sync">>) = <<>>
BY DEF InfoThenSync, StepThenSync

LEMMA SizedIsMade ==
  ASSUME NEW card, IsCopy(card), IsMade(card), NEW n \in Nat
  PROVE  IsMade(ChangeRecipeStepsSize(card, n))
<1>1. CASE ~card.known \/ n = card.info.steps
  BY <1>1 DEF ChangeRecipeStepsSize
<1>2. CASE ~(~card.known \/ n = card.info.steps)
  <2> DEFINE array == [i \in 1 .. n |-> IF i <= Len(card.steps) THEN card.steps[i] ELSE EmptyStep]
             new == ChangeRecipeStepsSize(card, n)
  <2>1. PICK y : new = [card EXCEPT !.info.steps = n, !.created = n > 0, !.loaded = y,
                                    !.steps = array]
    BY <1>2, Zenon DEF ChangeRecipeStepsSize
  <2>2. n = 0 => array = <<>>
    OBVIOUS
  <2> HIDE DEF array, new
  <2>3. "created" \in DOMAIN new /\ (new.created <=> n > 0) /\ new.steps = array
    BY <2>1 DEF IsCopy, IsMade
  <2> QED
    BY <2>2, <2>3 DEF new, IsMade
<1> QED
  BY <1>1, <1>2
-----------------------------------------------------------------------------
\* The accesses of a write.

\* The reader waits for the handler.
Bides == UNCHANGED <<raf, at, cardOnReader, onReader>>

LEMMA StandsWhileBusy ==
  ASSUME Kept, Bides, ~Waits
  PROVE  onReader # NoTag /\ Stands'
BY DEF Kept, KeptHere, Stands, Bides

\* The recipe a write is of is on the tag, or the tag is free.
LEMMA WriteIsKnown ==
  ASSUME Kept, op # NoOp, op.call \in Writes
  PROVE  /\ at \notin {"loaded", "poll"} /\ raf \notin {"Wait", "Presun", "Novy"}
         /\ onReader # NoTag /\ DOMAIN op = WriteFields
         /\ calls \in {<<>>, <<"Sync">>} /\ (op.call = "Sync" => calls = <<>>)
         /\ MayWrite(working.info) /\ MayWrite(Card.info)
         /\ op.call = "WriteSafeStep" => raf = "Mimo"
         /\ raf = "Konec" => Spent(TagInfo) /\ working.info.done /\ Spent(working.info)
         /\ op.phase \notin {"info", "steps"} /\ op.call # "none" /\ op.call # "LoadData"
<1>1. op.call \in {"WriteSafeInfo", "WriteSafeStep", "Sync"}
  BY DEF Writes
<1>2. onReader # NoTag /\ at \notin {"loaded", "poll"} /\ raf \notin {"Wait", "Presun", "Novy"}
  BY <1>1 DEF Kept, KeptHere, InPlace, Stands, Waits, NoOp
<1>3. DOMAIN op = WriteFields /\ op.phase \notin {"info", "steps"}
  BY <1>1 DEF Kept, KeptHere, Shaped
<1>4. calls \in {<<>>, <<"Sync">>} /\ (op.call = "Sync" => calls = <<>>)
  BY DEF Kept, KeptHere, InPlace
<1>5. MayWrite(working.info)
  BY DEF Kept, KeptInfos, MayBeWritten
<1>6. MayWrite(Card.info)
  <2>1. CASE op.call = "Sync"
    BY <1>5, <2>1 DEF Card
  <2>2. CASE op.call = "WriteSafeInfo"
    BY <1>5, <2>2, SameIsEqual DEF Card, Kept, KeptInfos, MayBeWritten, MayWrite
  <2>3. CASE op.call = "WriteSafeStep"
    BY <2>3, SameIsEqual DEF Card, Kept, KeptInfos, MayBeWritten, MayWrite
  <2> QED
    BY <1>1, <2>1, <2>2, <2>3
<1>7. op.call = "WriteSafeStep" => raf = "Mimo"
  BY DEF Kept, KeptHere, InPlace
<1>8. raf = "Konec" => Spent(TagInfo) /\ working.info.done /\ Spent(working.info)
  BY DEF Kept, KeptInfos, GivenUp, Waits, Spent
<1> QED
  BY <1>1, <1>2, <1>3, <1>4, <1>5, <1>6, <1>7, <1>8

\* A write goes on: what its next access leaves to be shown.
LEMMA WriteStillKept ==
  ASSUME Kept, Bides, op # NoOp, op.call \in Writes,
         DOMAIN op' = WriteFields, op'.call = op.call, op'.run = op.run,
         op'.phase \notin {"info", "steps"}, calls' = calls,
         ArrayMade', InfoWritten',
         Same(working'.info, working.info), Same(integrity'.info, integrity.info),
         integrity.steps = <<>> => integrity'.steps = <<>>,
         Same(TagInfo', TagInfo) \/ Same(TagInfo', Card.info)
  PROVE  Kept'
<1>1. /\ at \notin {"loaded", "poll"} /\ raf \notin {"Wait", "Presun", "Novy"}
      /\ onReader # NoTag /\ MayWrite(working.info) /\ MayWrite(Card.info)
      /\ calls \in {<<>>, <<"Sync">>} /\ (op.call = "Sync" => calls = <<>>)
      /\ raf = "Konec" => Spent(TagInfo) /\ working.info.done /\ Spent(working.info)
  BY WriteIsKnown
<1>2. op.call \in {"WriteSafeInfo", "WriteSafeStep", "Sync"} /\ op' # NoOp
  BY DEF Writes, NoOp, WriteFields
<1>3. KeptHere'
  <2>1. Shaped'
    BY DEF Shaped
  <2>2. Stands'
    BY <1>1 DEF Stands, Bides
  <2>3. InPlace'
    BY <1>1, <1>2 DEF InPlace, Kept, KeptHere, Bides
  <2> QED
    BY <2>1, <2>2, <2>3 DEF KeptHere
<1>4. Settled'
  <2>1. Same(working.info, integrity.info) \/ Spent(integrity.info) \/ integrity.steps = <<>>
    BY <1>1, <1>2, CallsDiffer DEF Kept, KeptInfos, Settled
  <2>2. Same(working.info, integrity.info) => Same(working'.info, integrity'.info)
    BY SameIsEqual
  <2>3. Spent(integrity.info) => Spent(integrity'.info)
    BY SameIsEqual
  <2> QED
    BY <2>1, <2>2, <2>3 DEF Settled
<1>5. Agreed'
  BY <1>1, <1>2 DEF Agreed, Bides, Waits
<1>6. op.call = "WriteSafeInfo" => Same(integrity.info, working.info)
  BY DEF Kept, KeptInfos, MayBeWritten
<1>7. op.call = "WriteSafeStep" => Same(integrity.info, TagInfo)
  BY DEF Kept, KeptInfos, MayBeWritten
<1>8. MayBeWritten'
  <2>1. MayWrite(working.info)'
    <3>1. CASE Same(TagInfo', TagInfo)
      BY <1>1, <3>1, SameIsEqual DEF MayWrite
    <3>2. CASE Same(TagInfo', Card.info) /\ op.call \in {"Sync", "WriteSafeInfo"}
      <4>1. Same(Card.info, working.info)
        BY <1>6, <3>2 DEF Card, Same
      <4> QED
        BY <3>2, <4>1, SameIsEqual DEF MayWrite
    <3>3. CASE Same(TagInfo', Card.info) /\ op.call = "WriteSafeStep"
      BY <1>1, <1>7, <3>3, SameIsEqual DEF Card, MayWrite
    <3> QED
      BY <1>2, <3>1, <3>2, <3>3
  <2>3. op.call = "WriteSafeInfo" => Same(integrity'.info, working'.info)
    BY <1>6, SameIsEqual
  <2>4. op.call = "WriteSafeStep" => Same(integrity'.info, TagInfo')
    <3>1. ASSUME op.call = "WriteSafeStep" PROVE Same(TagInfo', TagInfo)
      BY <1>7, <3>1, SameIsEqual DEF Card
    <3> QED
      BY <1>7, <3>1, SameIsEqual
  <2>5. op.call = "Sync" => op.run.from = 0 \/ Same(working'.info, integrity'.info)
    BY SameIsEqual DEF Kept, KeptInfos, MayBeWritten
  <2> QED
    BY <1>1, <2>1, <2>3, <2>4, <2>5, CallsDiffer DEF MayBeWritten
<1>9. GivenUp'
  <2>1. ASSUME raf = "Konec" PROVE Spent(TagInfo') /\ Spent(integrity'.info) /\ working'.info.done
    <3>1. Spent(integrity.info)
      BY <2>1 DEF Kept, KeptInfos, GivenUp
    <3>2. Spent(Card.info)
      BY <1>1, <2>1, <3>1 DEF Card
    <3> QED
      BY <1>1, <2>1, <3>1, <3>2, SameIsEqual
  <2> QED
    BY <1>1, <2>1 DEF GivenUp, Bides
<1> QED
  BY <1>3, <1>4, <1>5, <1>8, <1>9 DEF Kept, KeptInfos

\* What a written structure leaves on the tags.
LEMMA PutKeepsRecipe ==
  ASSUME Arrays, NEW s, Put(onReader, s), Bides, onReader # NoTag, MayWrite(Card.info)
  PROVE  /\ TagInfo' = IF s = 0 THEN Card.info ELSE TagInfo
         /\ Keeps
<1>1. onReader \in Tags /\ DOMAIN tags = Tags
  BY DEF Arrays, TagsFit
<1>2. tags' = [tags EXCEPT ![onReader] = IF s = 0 THEN [@ EXCEPT !.info = Card.info]
                                          ELSE [@ EXCEPT !.steps[s] = Card.steps[s]]]
  BY DEF Put
<1>3. IsCopy(tags[onReader])
  BY <1>1 DEF Arrays, TagsFit
<1>4. tags'[onReader].info = IF s = 0 THEN Card.info ELSE TagInfo
  BY <1>1, <1>2, <1>3 DEF IsCopy, TagInfo
<1>5. \A t \in Tags \ {onReader} : tags'[t] = tags[t]
  BY <1>1, <1>2
<1> QED
  BY <1>4, <1>5 DEF TagInfo, Keeps, Bides, MayWrite

LEMMA RetryKept ==
  ASSUME Arrays, Kept, Bides, Retry, op # NoOp, op.call \in Writes
  PROVE  Kept' /\ Keeps
<1>1. /\ op' = [op EXCEPT !.phase = "sum"] /\ UNCHANGED <<tags, cards, calls>>
      /\ DOMAIN op = WriteFields
  BY WriteIsKnown DEF Retry
<1>2. /\ DOMAIN op' = WriteFields /\ op'.call = op.call /\ op'.run = op.run
      /\ op'.phase = "sum"
  BY <1>1 DEF WriteFields
<1>3. ArrayMade' /\ InfoWritten' /\ TagInfo' = TagInfo
  BY <1>1, <1>2 DEF Kept, KeptInfos, KeptHere, ArrayMade, IsMade, InfoWritten, cards, TagInfo, Bides
<1>4. Kept'
  BY <1>1, <1>2, <1>3, WriteStillKept DEF cards, Same
<1> QED
  BY <1>1, <1>4 DEF Keeps

LEMMA SelectKept ==
  ASSUME Arrays, Kept, Bides, Select, op.call \in Writes
  PROVE  Kept' /\ Keeps
<1>1. /\ op' = [op EXCEPT !.phase = "write", !.sel = onReader, !.next = op.run.from]
      /\ UNCHANGED <<tags, cards, calls>> /\ op # NoOp
  BY DEF Select, AtTag
<1>2. /\ DOMAIN op' = WriteFields /\ op'.call = op.call /\ op'.run = op.run
      /\ op'.phase = "write" /\ op'.sel = onReader /\ op'.next = op.run.from
  BY <1>1, WriteIsKnown DEF WriteFields
<1>3. ArrayMade' /\ InfoWritten' /\ TagInfo' = TagInfo
  BY <1>1, <1>2 DEF Kept, KeptInfos, KeptHere, ArrayMade, IsMade, InfoWritten, cards, TagInfo, Bides
<1>4. Kept'
  BY <1>1, <1>2, <1>3, WriteStillKept DEF cards, Same
<1> QED
  BY <1>1, <1>4 DEF Keeps

LEMMA SumKept ==
  ASSUME Arrays, Kept, Bides, Sum, op.call \in Writes
  PROVE  Kept' /\ Keeps
<1>1. /\ op # NoOp /\ UNCHANGED <<tags, calls>>
      /\ SetCard([Card EXCEPT !.info.cs = CheckSum(Card)])
  BY Zenon DEF Sum, AtTag
<1>2. PICK phase \in {"head", "select"} : op' = [op EXCEPT !.phase = phase]
  BY DEF Sum
<1>3. /\ DOMAIN op' = WriteFields /\ op'.call = op.call /\ op'.run = op.run
      /\ op'.phase \in {"head", "select"}
  BY <1>1, <1>2, WriteIsKnown DEF WriteFields
<1>4. IsCopy(integrity) /\ IsCopy(working)
  BY DEF Arrays
<1>5. Same(working'.info, working.info) /\ Same(integrity'.info, integrity.info)
  <2>1. \A c, x : IsCopy(c) => /\ Same([c EXCEPT !.info.cs = x].info, c.info)
                               /\ Same(c.info, c.info)
    BY SumIsApart DEF IsCopy
  <2> QED
    BY <1>1, <1>4, <2>1 DEF SetCard, Card
<1>6. /\ integrity.steps = <<>> => integrity'.steps = <<>>
      /\ ArrayMade'
  <2>1. integrity' = integrity \/ \E x : integrity' = [integrity EXCEPT !.info.cs = x]
    BY <1>1 DEF SetCard, Card
  <2>2. ArrayMade
    BY DEF Kept, KeptInfos
  <2> QED
    BY <1>4, <2>1, <2>2 DEF ArrayMade, IsMade, IsCopy
<1>7. InfoWritten' /\ Same(TagInfo', TagInfo)
  BY <1>1, <1>3 DEF Kept, KeptHere, InfoWritten, TagInfo, Bides, Same
<1>8. Kept'
  BY <1>1, <1>3, <1>5, <1>6, <1>7, WriteStillKept
<1> QED
  BY <1>1, <1>8 DEF Keeps

LEMMA WriteHeadKept ==
  ASSUME Arrays, Kept, Bides, WriteHead, op.call \in Writes
  PROVE  Kept' /\ Keeps
<1>1. op # NoOp /\ op' = [op EXCEPT !.phase = "select"] /\ UNCHANGED <<cards, calls>>
  BY DEF WriteHead, AtTag
<1>2. onReader # NoTag /\ MayWrite(Card.info) /\ DOMAIN op = WriteFields
  BY <1>1, WriteIsKnown
<1>3. Put(onReader, 0)
  BY <1>2 DEF WriteHead
<1>4. TagInfo' = Card.info /\ Keeps
  BY <1>2, <1>3, PutKeepsRecipe
<1>5. /\ DOMAIN op' = WriteFields /\ op'.call = op.call /\ op'.run = op.run
      /\ op'.phase = "select"
  BY <1>1, <1>2 DEF WriteFields
<1>6. ArrayMade' /\ InfoWritten'
  BY <1>1, <1>5 DEF Kept, KeptInfos, KeptHere, ArrayMade, IsMade, InfoWritten, cards
<1>7. Kept'
  BY <1>1, <1>4, <1>5, <1>6, WriteStillKept DEF cards, Same
<1> QED
  BY <1>4, <1>7

LEMMA WriteStructureKept ==
  ASSUME Arrays, Kept, Bides, WriteStructure, op.call \in Writes
  PROVE  Kept' /\ Keeps
<1>1. /\ op # NoOp /\ op.phase = "write" /\ Put(onReader, op.next) /\ UNCHANGED <<cards, calls>>
      /\ op' = IF op.next = op.run.to THEN [op EXCEPT !.phase = "verify"]
               ELSE [op EXCEPT !.next = @ + 1]
  BY DEF WriteStructure, AtTag
<1>2. onReader # NoTag /\ MayWrite(Card.info) /\ DOMAIN op = WriteFields
  BY <1>1, WriteIsKnown
<1>3. TagInfo' = (IF op.next = 0 THEN Card.info ELSE TagInfo) /\ Keeps
  BY <1>1, <1>2, PutKeepsRecipe
<1>4. /\ DOMAIN op' = WriteFields /\ op'.call = op.call /\ op'.run = op.run
      /\ op'.phase \in {"write", "verify"}
      /\ op.next = op.run.to => op'.phase = "verify"
  BY <1>1, <1>2 DEF WriteFields
<1>5. ArrayMade'
  BY <1>1 DEF Kept, KeptInfos, ArrayMade, IsMade, cards
<1>6. InfoWritten'
  <2>1. op.call = "WriteSafeInfo" => op.run = [from |-> 0, to |-> 0] /\ op.next = 0
    BY <1>1 DEF Kept, KeptHere, InfoWritten
  <2>2. op.call = "WriteSafeInfo" => AllBytes(TagInfo') = AllBytes(integrity'.info)
    BY <1>1, <1>3, <2>1 DEF Card, cards
  <2>3. op.call = "WriteSafeInfo" => op'.phase = "verify"
    BY <1>4, <2>1
  <2> QED
    BY <1>4, <2>1, <2>2, <2>3 DEF InfoWritten
<1>7. Kept'
  BY <1>1, <1>3, <1>4, <1>5, <1>6, WriteStillKept DEF cards, Same
<1> QED
  BY <1>3, <1>7

\* The info of working after a copy.
LEMMA CopiedInfo ==
  ASSUME Arrays, NEW card, IsCopy(card), NEW infoData, NEW stepsData
  PROVE  LET copy == CopyToWorking(card, infoData, stepsData)
         IN /\ infoData => copy.card.info = card.info
            /\ ~infoData /\ working.info.steps = card.info.steps => copy.card.info = working.info
<1> DEFINE known == [working EXCEPT !.known = card.known]
           array == IF known.created THEN known
                    ELSE ChangeRecipeStepsSize(known, card.info.steps)
           named == [array EXCEPT !.loaded = card.loaded, !.uid = card.uid]
           sized == ChangeRecipeStepsSize(named, card.info.steps)
           told == IF infoData THEN [sized EXCEPT !.info = card.info] ELSE sized
<1>1. card.info.steps \in Nat
  BY DEF IsCopy, Counts
<1>2. IsCopy(known) /\ known.info = working.info
  BY DEF Arrays, IsCopy, Counts
<1> HIDE DEF known
<1>3. IsCopy(array) /\ (working.info.steps = card.info.steps => array.info = working.info)
  BY <1>1, <1>2, SizeChanged DEF ChangeRecipeStepsSize
<1> HIDE DEF array
<1>4. IsCopy(named) /\ (working.info.steps = card.info.steps => named.info = working.info)
  BY <1>3 DEF IsCopy, Counts
<1> HIDE DEF named
<1>5. IsCopy(sized) /\ (working.info.steps = card.info.steps => sized.info = working.info)
  BY <1>1, <1>4, SizeChanged DEF ChangeRecipeStepsSize
<1> HIDE DEF sized
<1>6. /\ IsCopy(told) /\ (infoData => told.info = card.info)
      /\ ~infoData /\ working.info.steps = card.info.steps => told.info = working.info
  BY <1>5 DEF IsCopy
<1> DEFINE clean == {i \in DOMAIN Resize(dirty, told.info.steps) :
                       stepsData /\ ~Resize(dirty, told.info.steps)[i]}
<1>7. CopyToWorking(card, infoData, stepsData).card =
        [told EXCEPT !.steps = [i \in DOMAIN @ |-> IF i \in clean THEN card.steps[i] ELSE @[i]]]
  BY Zenon DEF CopyToWorking, known, array, named, sized
<1> HIDE DEF told, clean
<1>8. CopyToWorking(card, infoData, stepsData).card.info = told.info
  BY <1>6, <1>7 DEF IsCopy
<1> QED
  BY <1>6, <1>8

\* The handler rests, or goes on to the next call.
LEMMA WriteReturns ==
  ASSUME Arrays, Kept, Bides, op # NoOp, op.call \in Writes,
         op' = NoOp, calls' = calls, tags' = tags,
         ArrayMade', Settled',
         Same(working'.info, working.info) \/ Same(working'.info, integrity.info),
         Same(integrity'.info, integrity.info) \/ Same(integrity'.info, working.info)
  PROVE  Kept' /\ Keeps
<1>1. /\ at \notin {"loaded", "poll"} /\ raf \notin {"Wait", "Presun", "Novy"}
      /\ onReader # NoTag /\ MayWrite(working.info)
      /\ calls \in {<<>>, <<"Sync">>} /\ (op.call = "Sync" => calls = <<>>)
      /\ op.call = "WriteSafeStep" => raf = "Mimo"
      /\ raf = "Konec" => Spent(TagInfo) /\ working.info.done /\ Spent(working.info)
  BY WriteIsKnown
<1>2. TagInfo' = TagInfo
  BY DEF Bides, TagInfo
<1>3. KeptHere'
  <2>1. Shaped' /\ Stands' /\ InfoWritten'
    BY <1>1 DEF Shaped, Stands, Bides, InfoWritten, NoOp
  <2>2. InPlace'
    BY <1>1, CallsDiffer DEF InPlace, Kept, KeptHere, Bides, NoOp
  <2> QED
    BY <2>1, <2>2 DEF KeptHere
<1>4. Agreed'
  BY <1>1 DEF Agreed, Bides, NoOp
<1>5. op.call # "Sync" => op.call \in {"WriteSafeInfo", "WriteSafeStep"}
  BY DEF Writes
<1>6. /\ op.call = "WriteSafeInfo" => Same(integrity.info, working.info)
      /\ op.call = "WriteSafeStep" => Same(integrity.info, TagInfo)
  BY DEF Kept, KeptInfos, MayBeWritten
<1>7. MayBeWritten'
  <2>1. ASSUME calls = <<"Sync">> PROVE MayWrite(working.info)'
    <3>1. op.call \in {"WriteSafeInfo", "WriteSafeStep"}
      BY <1>1, <1>5, <2>1, CallsDiffer
    <3>2. CASE Same(working'.info, working.info)
      BY <1>1, <1>2, <3>2, SameIsEqual DEF MayWrite
    <3>3. CASE Same(working'.info, integrity.info)
      BY <1>1, <1>2, <1>6, <3>1, <3>3, SameIsEqual DEF MayWrite
    <3> QED
      BY <3>2, <3>3
  <2> QED
    BY <1>1, <2>1, CallsDiffer DEF MayBeWritten, NoOp, Writes
<1>8. GivenUp'
  <2>1. ASSUME raf = "Konec"
        PROVE  Spent(TagInfo') /\ Spent(integrity'.info) /\ (Waits' \/ working'.info.done)
    <3>1. Spent(integrity.info)
      BY <2>1 DEF Kept, KeptInfos, GivenUp
    <3>2. Spent(integrity'.info)
      BY <1>1, <2>1, <3>1, SameIsEqual
    <3>3. CASE op.call = "Sync"
      BY <1>1, <1>2, <2>1, <3>2, <3>3 DEF Waits
    <3>4. CASE op.call = "WriteSafeInfo"
      BY <1>1, <1>2, <1>6, <2>1, <3>2, <3>4, SameIsEqual
    <3> QED
      BY <1>1, <1>5, <2>1, <3>3, <3>4
  <2> QED
    BY <1>1, <2>1 DEF GivenUp, Bides
<1> QED
  BY <1>3, <1>4, <1>7, <1>8 DEF Kept, KeptInfos, Keeps

\* An info written by itself is never given up while the product stands there.
LEMMA GiveUpKept ==
  ASSUME Arrays, Kept, Bides, GiveUp, op # NoOp, op.call \in {"WriteSafeStep", "Sync"}
  PROVE  Kept' /\ Keeps
<1>1. op' = NoOp /\ UNCHANGED <<tags, working, calls>> /\ op.call \in Writes
  BY DEF GiveUp, Return, Writes
<1>2. integrity' = integrity \/ \E i, x : integrity' = [integrity EXCEPT !.steps[i] = x]
  BY DEF GiveUp
<1>3. integrity'.info = integrity.info /\ (integrity.steps = <<>> => integrity'.steps = <<>>)
  BY <1>2, EmptyStays DEF Arrays, IsCopy
<1>4. ArrayMade'
  BY <1>2, <1>3 DEF Kept, KeptInfos, ArrayMade, IsMade, Arrays, IsCopy
<1>5. Settled'
  <2>1. calls # InfoThenSync /\ op.call # "LoadData"
    BY <1>1, WriteIsKnown, CallsDiffer
  <2> QED
    BY <1>1, <1>3, <2>1 DEF Kept, KeptInfos, Settled
<1> QED
  BY <1>1, <1>3, <1>4, <1>5, WriteReturns DEF Same

LEMMA CompareKept ==
  ASSUME Arrays, Kept, Bides, Compare
  PROVE  Kept' /\ Keeps
<1>1. op # NoOp /\ op.call = "Sync" /\ op.call \in Writes /\ UNCHANGED <<tags, cards, calls>>
  BY DEF Compare, Doing, NoOp, Writes
<1>2. ArrayMade' /\ Same(working'.info, working.info) /\ Same(integrity'.info, integrity.info)
  BY <1>1 DEF Kept, KeptInfos, ArrayMade, IsMade, cards, Same
<1>3. CASE op' = NoOp
  <2>1. calls # InfoThenSync /\ op.call # "LoadData"
    BY <1>1, WriteIsKnown, CallsDiffer
  <2>2. Settled'
    BY <1>1, <2>1 DEF Kept, KeptInfos, Settled, cards
  <2> QED
    BY <1>1, <1>2, <1>3, <2>2, WriteReturns DEF cards
<1>4. CASE op' = [op EXCEPT !.phase = "sum"]
  <2>1. /\ DOMAIN op' = WriteFields /\ op'.call = op.call /\ op'.run = op.run
        /\ op'.phase = "sum"
    BY <1>1, <1>4, WriteIsKnown DEF WriteFields
  <2>2. InfoWritten' /\ Same(TagInfo', TagInfo)
    BY <1>1, <2>1 DEF InfoWritten, TagInfo, Bides, Same
  <2>3. Kept'
    BY <1>1, <1>2, <2>1, <2>2, WriteStillKept DEF cards
  <2> QED
    BY <1>1, <2>3 DEF Keeps
<1> QED
  BY <1>3, <1>4, Zenon DEF Compare, Return

\* A run of a sync is on the tag, and integrity learns of it.
LEMMA SyncRunKept ==
  ASSUME Arrays, Kept, Bides, SyncRunWritten, op # NoOp
  PROVE  Kept' /\ Keeps
<1>1. /\ op.call = "Sync" /\ op.call \in Writes /\ UNCHANGED <<tags, working, calls>>
      /\ integrity' = Written
  BY DEF SyncRunWritten, Writes
<1>2. /\ at \notin {"loaded", "poll"} /\ raf \notin {"Wait", "Presun", "Novy"} /\ onReader # NoTag
      /\ calls = <<>> /\ MayWrite(working.info)
      /\ raf = "Konec" => Spent(TagInfo) /\ working.info.done /\ Spent(working.info)
  BY <1>1, WriteIsKnown
<1> DEFINE sized == ChangeRecipeStepsSize([integrity EXCEPT !.known = TRUE], working.info.steps)
           first == IF op.run.from # 0 THEN integrity ELSE [sized EXCEPT !.info = working.info]
<1>3. ArrayMade /\ IsCopy(integrity)
  BY DEF Kept, KeptInfos, Arrays
<1>4. IsCopy(sized) /\ IsMade(sized)
  <2> DEFINE card == [integrity EXCEPT !.known = TRUE]
  <2>1. IsCopy(card) /\ IsMade(card)
    BY <1>3 DEF ArrayMade, IsMade, IsCopy
  <2>2. working.info.steps \in Nat
    BY DEF Arrays, IsCopy, Counts
  <2> HIDE DEF card
  <2>3. IsCopy(ChangeRecipeStepsSize(card, working.info.steps))
        /\ IsMade(ChangeRecipeStepsSize(card, working.info.steps))
    BY <2>1, <2>2, SizeChanged, SizedIsMade
  <2> QED
    BY <2>3 DEF card
<1> HIDE DEF sized
<1>5. /\ IsCopy(first) /\ IsMade(first)
      /\ first.info = IF op.run.from # 0 THEN integrity.info ELSE working.info
  BY <1>3, <1>4 DEF ArrayMade, IsMade, IsCopy, Arrays
<1>6. integrity' = [first EXCEPT !.steps =
        [i \in DOMAIN @ |-> IF i \in op.run.from .. op.run.to THEN working.steps[i] ELSE @[i]]]
  BY <1>1 DEF Written, sized
<1> HIDE DEF first
<1>7. /\ integrity'.info = (IF op.run.from # 0 THEN integrity.info ELSE working.info)
      /\ ArrayMade'
  <2>1. /\ integrity'.info = first.info /\ "created" \in DOMAIN integrity'
        /\ integrity'.created = first.created
        /\ integrity'.steps = [i \in DOMAIN first.steps |->
             IF i \in op.run.from .. op.run.to THEN working.steps[i] ELSE first.steps[i]]
    BY <1>5, <1>6 DEF IsCopy, IsMade
  <2>2. first.steps = <<>> => integrity'.steps = <<>>
    BY <2>1
  <2> QED
    BY <1>5, <2>1, <2>2 DEF ArrayMade, IsMade
<1>8. Same(working'.info, integrity'.info) /\ Same(working'.info, working.info)
  <2>1. op.run.from = 0 \/ Same(working.info, integrity.info)
    BY <1>1 DEF Kept, KeptInfos, MayBeWritten
  <2> QED
    BY <1>1, <1>7, <2>1 DEF Same
<1>9. Settled'
  BY <1>8 DEF Settled
<1>10. CASE op' = NoOp
  BY <1>1, <1>7, <1>8, <1>9, <1>10, WriteReturns DEF Same
<1>11. CASE op' = Writing("Sync", "sum", FirstOf(op.left), op.left \ {FirstOf(op.left)}, NoOp)
  <2>1. /\ DOMAIN op' = WriteFields /\ op'.call = "Sync" /\ op'.phase = "sum" /\ op' # NoOp
    BY <1>11 DEF Writing, WriteFields, NoOp
  <2>2. KeptHere'
    <3>1. Shaped' /\ Stands' /\ InfoWritten'
      BY <1>2, <2>1 DEF Shaped, Stands, InfoWritten, Bides, Writes
    <3>2. InPlace'
      BY <1>1, <1>2, <2>1, CallsDiffer DEF InPlace, Kept, KeptHere, Bides
    <3> QED
      BY <3>1, <3>2 DEF KeptHere
  <2>3. Agreed' /\ TagInfo' = TagInfo
    BY <1>1, <1>2, <2>1 DEF Agreed, Bides, Waits, TagInfo
  <2>4. MayBeWritten'
    BY <1>1, <1>2, <1>8, <2>1, <2>3, CallsDiffer DEF MayBeWritten, MayWrite
  <2>5. GivenUp'
    <3>1. raf = "Konec" => Spent(integrity'.info)
      BY <1>1, <1>2, <1>8, SameIsEqual
    <3> QED
      BY <1>1, <1>2, <2>3, <3>1 DEF GivenUp, Bides
  <2> QED
    BY <1>1, <1>7, <1>9, <2>2, <2>3, <2>4, <2>5 DEF Kept, KeptInfos, Keeps
<1> QED
  BY <1>10, <1>11, Zenon DEF SyncRunWritten, Return

\* A safe write is on the tag, and working learns of it.
LEMMA SafeWriteKept ==
  ASSUME Arrays, Kept, Bides, SafeWriteDone, op # NoOp
  PROVE  Kept' /\ Keeps
<1>1. /\ op.call \in Writes /\ op' = NoOp /\ UNCHANGED <<tags, calls>>
      /\ integrity' = integrity
      /\ working' = CopyToWorking(integrity, TRUE, op.call = "WriteSafeStep").card
  BY Zenon DEF SafeWriteDone, Writes, Return, Copy
<1>2. working'.info = integrity.info
  <2>1. IsCopy(integrity)
    BY DEF Arrays
  <2>2. \A stepsData : CopyToWorking(integrity, TRUE, stepsData).card.info = integrity.info
    BY <2>1, CopiedInfo, ZenonT(40)
  <2> QED
    BY <1>1, <2>2, Zenon
<1>3. ArrayMade' /\ Settled'
  BY <1>1, <1>2 DEF Kept, KeptInfos, ArrayMade, IsMade, Settled, Same
<1> QED
  BY <1>1, <1>2, <1>3, WriteReturns DEF Same

LEMMA VerifyKept ==
  ASSUME Arrays, Kept, Bides, Verify
  PROVE  Kept' /\ Keeps
<1>1. op # NoOp /\ op.phase = "verify" /\ op.call \in Writes
  BY DEF Verify, AtTag, Kept, KeptHere, Shaped
<1>2. onReader # NoTag
  BY <1>1, WriteIsKnown
<1>3. CASE Retry
  BY <1>1, <1>3, RetryKept
<1>4. CASE SyncRunWritten
  BY <1>1, <1>4, SyncRunKept
<1>5. CASE SafeWriteDone
  BY <1>1, <1>5, SafeWriteKept
<1>6. CASE GiveUp /\ ~SameOnTag(op.run)
  <2>1. op.call # "WriteSafeInfo"
    <3>1. ASSUME op.call = "WriteSafeInfo" PROVE SameOnTag(op.run)
      <4>1. op.run = [from |-> 0, to |-> 0] /\ AllBytes(TagInfo) = AllBytes(integrity.info)
        BY <1>1, <3>1 DEF Kept, KeptHere, InfoWritten
      <4>2. Card = integrity
        BY <3>1 DEF Card
      <4>3. op.run.from .. op.run.to = {0}
        BY <4>1
      <4> QED
        BY <4>1, <4>2, <4>3 DEF SameOnTag, TagInfo
    <3> QED
      BY <1>6, <3>1
  <2> QED
    BY <1>1, <1>6, <2>1, GiveUpKept DEF Writes
<1> QED
  BY <1>2, <1>3, <1>4, <1>5, <1>6 DEF Verify

LEMMA LostKept ==
  ASSUME Arrays, Kept, Bides, OutOfRange \/ AccessLost
  PROVE  Kept' /\ Keeps
<1>1. op # NoOp /\ op.phase \in {"sum", "select", "write"} /\ op.call \in Writes
  BY DEF OutOfRange, AccessLost, AtTag, Kept, KeptHere, Shaped
<1>2. onReader # NoTag
  BY <1>1, WriteIsKnown
<1>3. CASE op.call = "WriteSafeInfo"
  <2>1. op.run.to = 0 /\ (op.phase = "write" => op.sel = onReader)
    BY <1>3 DEF Kept, KeptHere, InfoWritten
  <2>2. ~(op.run.to > Card.info.steps)
    BY <2>1 DEF Arrays, Card, IsCopy, Counts
  <2> QED
    BY <1>2, <2>1, <2>2 DEF OutOfRange, AccessLost, AtTag
<1>4. CASE op.call # "WriteSafeInfo"
  BY <1>1, <1>2, <1>4, GiveUpKept, RetryKept DEF OutOfRange, AccessLost, Writes
<1> QED
  BY <1>3, <1>4

-----------------------------------------------------------------------------
\* The accesses of a load, and the calls.

\* A load ends, or has to read the steps too.
LEMMA LoadStillKept ==
  ASSUME Arrays, Kept, Bides, op # NoOp, op.call = "LoadData", calls' = calls, tags' = tags,
         ArrayMade', Settled', Shaped', op'.call \in {"LoadData", "none"},
         op' = NoOp /\ result'.value = 0 => Agree',
         op' = NoOp /\ result'.value = 4 => TagInfo.id = 0,
         op' # NoOp => /\ op'.call = "LoadData"
                       /\ Same(integrity'.info, TagInfo)
                       /\ op'.needInfo \/ Same(working'.info, TagInfo) \/ Spent(TagInfo)
  PROVE  Kept' /\ Keeps
<1>1. /\ at = "loaded" /\ raf = "Mimo" /\ calls = <<>> /\ onReader # NoTag
  <2>1. at = "loaded" /\ raf = "Mimo"
    BY DEF Kept, KeptHere, InPlace
  <2>2. calls = <<>>
    BY DEF Kept, KeptHere, InPlace
  <2> QED
    BY <2>1, <2>2 DEF Kept, KeptHere, Stands, Waits
<1>2. TagInfo' = TagInfo
  BY DEF TagInfo, Bides
<1>3. op' = NoOp \/ (op' # NoOp /\ op'.call = "LoadData")
  OBVIOUS
<1>4. KeptHere'
  <2>1. Stands' /\ InfoWritten'
    BY <1>1 DEF Stands, Bides, InfoWritten, NoOp
  <2>2. InPlace'
    BY <1>1, <1>3, CallsDiffer DEF InPlace, Bides, NoOp
  <2> QED
    BY <2>1, <2>2 DEF KeptHere
<1>5. Agreed'
  BY <1>1, <1>2, <1>3 DEF Agreed, Bides, Waits, NoOp
<1>6. MayBeWritten' /\ GivenUp'
  BY <1>1, <1>3, CallsDiffer DEF MayBeWritten, GivenUp, Bides, Writes, NoOp
<1> QED
  BY <1>4, <1>5, <1>6 DEF Kept, KeptInfos, Keeps

LEMMA LoadFailsKept ==
  ASSUME Arrays, Kept, Bides, LoadFails
  PROVE  Kept' /\ Keeps
<1>1. /\ op # NoOp /\ op.call = "LoadData" /\ op.phase = "info"
      /\ UNCHANGED <<tags, working, calls>>
      /\ op' = NoOp /\ result'.value = 4
  BY DEF LoadFails, Doing, NoOp, Return
<1>2. onReader # NoTag
  BY <1>1 DEF Kept, KeptHere, Stands, Waits
<1>3. TagInfo.id = 0 /\ integrity' = [integrity EXCEPT !.known = TRUE]
  BY <1>2 DEF LoadFails, TagInfo
<1>4. integrity'.info = integrity.info /\ integrity'.steps = integrity.steps /\ ArrayMade'
  BY <1>3 DEF Arrays, IsCopy, Kept, KeptInfos, ArrayMade, IsMade
<1>5. Settled'
  <2>1. calls # InfoThenSync
    BY <1>1, CallsDiffer DEF Kept, KeptHere, InPlace
  <2> QED
    BY <1>1, <1>4, <2>1 DEF Kept, KeptInfos, Settled
<1>6. Shaped' /\ op'.call = "none"
  BY <1>1 DEF Shaped, NoOp
<1> QED
  BY <1>1, <1>3, <1>4, <1>5, <1>6, LoadStillKept

LEMMA LoadInfoKept ==
  ASSUME Arrays, Kept, Bides, LoadInfo
  PROVE  Kept' /\ Keeps
<1> DEFINE found == tags[onReader].info
           is == IsSameData(found)
           needs == is.newCard \/ ~is.sameInfo
           card == [integrity EXCEPT !.known = TRUE, !.info.batch = found.batch]
           new == IF needs THEN [ChangeRecipeStepsSize(card, found.steps) EXCEPT !.info = found]
                  ELSE card
           sized == ChangeRecipeStepsSize(card, found.steps)
           copy == CopyToWorking(new, needs, FALSE)
<1>1. /\ op # NoOp /\ op.call = "LoadData" /\ op.phase = "info" /\ UNCHANGED <<tags, calls>>
      /\ integrity.info.id = found.id => HasSteps(integrity)
      /\ integrity' = new
      /\ onReader \in Tags
  <2>1. op.call = "LoadData" /\ op.phase = "info" /\ UNCHANGED <<tags, calls>> /\ onReader # NoTag
    BY DEF LoadInfo, Doing
  <2>2. integrity' = new /\ (integrity.info.id = found.id => HasSteps(integrity))
    BY Zenon DEF LoadInfo
  <2> QED
    BY <2>1, <2>2 DEF NoOp, Arrays, TagsFit
<1>2. \/ /\ working' = Follows(found)
         /\ op' = [op EXCEPT !.phase = "steps", !.needInfo = needs]
      \/ /\ working' = IF needs THEN copy.card
                       ELSE [copy.card EXCEPT !.info.batch = Follows(found).info.batch]
         /\ op' = NoOp /\ result' = [call |-> op.call, value |-> 0]
  BY Zenon DEF LoadInfo, Return
<1>3. Counts(found) /\ found.steps \in Nat
  BY <1>1 DEF Arrays, TagsFit, IsCopy, Counts
<1>4. needs <=> (integrity.info.id # found.id \/ Bytes(integrity.info) # Bytes(found))
  BY DEF IsSameData
<1>5. found = TagInfo
  BY DEF TagInfo
<1> HIDE DEF needs, is
<1>6. IsCopy(card) /\ IsMade(card)
      /\ card.info = [integrity.info EXCEPT !.batch = found.batch]
  BY DEF Arrays, IsCopy, Counts, Kept, KeptInfos, ArrayMade, IsMade
<1> HIDE DEF card
<1>7. IsCopy(sized) /\ IsMade(sized)
  BY <1>3, <1>6, SizeChanged, SizedIsMade
<1>13. needs => new = [sized EXCEPT !.info = found]
  OBVIOUS
<1>14. ~needs => new = card
  OBVIOUS
<1> HIDE DEF sized, new
<1>8. IsCopy(new) /\ IsMade(new) /\ Same(new.info, found)
  <2>1. CASE needs
    BY <1>3, <1>7, <1>13, <2>1 DEF IsCopy, IsMade, Same
  <2>2. CASE ~needs
    <3>1. Bytes(integrity.info) = Bytes(found) /\ Counts(integrity.info)
      BY <1>4, <2>2 DEF Arrays, IsCopy
    <3> QED
      BY <1>6, <1>14, <2>2, <3>1 DEF Same, Bytes, Counts
  <2> QED
    BY <2>1, <2>2
<1>9. ~needs => Spent(found) \/ Same(working.info, integrity.info)
  <2>1. ASSUME ~needs, integrity.steps = <<>> PROVE Spent(found)
    <3>1. Bytes(integrity.info) = Bytes(found) /\ integrity.info.id = found.id
      BY <1>4, <2>1
    <3>2. integrity.info.steps <= 0
      BY <1>1, <2>1, <3>1 DEF HasSteps
    <3>3. found.steps <= 0
      BY <3>1, <3>2 DEF Bytes
    <3> QED
      BY <1>3, <3>3 DEF Spent, Counts
  <2>2. ASSUME ~needs, Spent(integrity.info) PROVE Spent(found)
    <3>1. Bytes(integrity.info) = Bytes(found)
      BY <1>4, <2>2
    <3> QED
      BY <2>2, <3>1 DEF Spent, Bytes
  <2>3. calls # InfoThenSync
    BY <1>1, CallsDiffer DEF Kept, KeptHere, InPlace
  <2> QED
    BY <1>1, <2>1, <2>2, <2>3 DEF Kept, KeptInfos, Settled
<1>10. ~needs /\ Same(working.info, integrity.info) =>
         Same(Follows(found).info, found) /\ working.info.steps = new.info.steps
  <2>1. ASSUME ~needs, Same(working.info, integrity.info)
        PROVE  Same(Follows(found).info, found) /\ working.info.steps = new.info.steps
    <3>1. Bytes(working.info) = Bytes(found) /\ working.info.batch = integrity.info.batch
      BY <1>4, <2>1 DEF Same
    <3>2. Follows(found) = [working EXCEPT !.info.batch = found.batch]
      BY <3>1 DEF Follows
    <3>3. IsCopy(working)
      BY DEF Arrays
    <3>4. Bytes(Follows(found).info) = Bytes(working.info)
          /\ Follows(found).info.batch = found.batch
      BY <3>2, <3>3 DEF Bytes, IsCopy, Counts
    <3>5. working.info.steps = found.steps /\ new.info.steps = found.steps
      BY <1>8, <3>1 DEF Bytes, Same
    <3> QED
      BY <3>1, <3>4, <3>5 DEF Same
  <2> QED
    BY <2>1
<1> HIDE DEF new, found
<1>11. CASE /\ working' = Follows(found)
            /\ op' = [op EXCEPT !.phase = "steps", !.needInfo = needs]
  <2>1. /\ DOMAIN op' = {"call", "phase", "needInfo"} /\ op'.call = "LoadData"
        /\ op'.phase = "steps" /\ (op'.needInfo <=> needs)
    BY <1>1, <1>11 DEF Kept, KeptHere, Shaped, Writes
  <2>2. op' # NoOp /\ Shaped' /\ Settled'
    BY <2>1 DEF Shaped, Settled, NoOp
  <2>3. op'.needInfo \/ Same(working'.info, TagInfo) \/ Spent(TagInfo)
    BY <1>5, <1>9, <1>10, <1>11, <2>1
  <2> QED
    BY <1>1, <1>5, <1>8, <2>1, <2>2, <2>3, LoadStillKept DEF ArrayMade
<1>12. CASE /\ working' = IF needs THEN copy.card
                          ELSE [copy.card EXCEPT !.info.batch = Follows(found).info.batch]
            /\ op' = NoOp /\ result' = [call |-> op.call, value |-> 0]
  <2>1. /\ needs => copy.card.info = new.info
        /\ ~needs /\ working.info.steps = new.info.steps => copy.card.info = working.info
        /\ IsCopy(copy.card)
    <3>1. \A b, c : LET other == CopyToWorking(new, b, c)
                    IN /\ b => other.card.info = new.info
                       /\ ~b /\ working.info.steps = new.info.steps =>
                               other.card.info = working.info
      BY <1>8, CopiedInfo
    <3>2. \A b, c : IsCopy(CopyToWorking(new, b, c).card)
      BY <1>8, CopiedToWorking
    <3> QED
      BY <3>1, <3>2, Zenon
  <2> HIDE DEF copy
  <2>2. ASSUME needs PROVE Same(working'.info, found)
    BY <1>8, <1>12, <2>1, <2>2 DEF Same
  <2>3. ASSUME ~needs, Same(working.info, integrity.info) PROVE Same(working'.info, found)
    <3>1. working'.info = [working.info EXCEPT !.batch = Follows(found).info.batch]
      BY <1>10, <1>12, <2>1, <2>3 DEF IsCopy
    <3>2. Bytes(working'.info) = Bytes(working.info)
          /\ working'.info.batch = Follows(found).info.batch
      BY <3>1 DEF Bytes, Arrays, IsCopy, Counts
    <3>3. Bytes(working.info) = Bytes(found)
      BY <1>4, <2>3 DEF Same
    <3> QED
      BY <1>10, <2>3, <3>2, <3>3 DEF Same
  <2>4. Same(working'.info, found) \/ Spent(found)
    BY <1>9, <2>2, <2>3
  <2>5. Agree' /\ Settled'
    <3>1. TagInfo' = TagInfo
      BY <1>1 DEF TagInfo, Bides
    <3> QED
      BY <1>1, <1>5, <1>8, <2>4, <3>1, SameIsEqual DEF Agree, Settled
  <2>6. Shaped' /\ op'.call = "none"
    BY <1>12 DEF Shaped, NoOp
  <2> QED
    BY <1>1, <1>8, <1>12, <2>5, <2>6, LoadStillKept DEF ArrayMade
<1> QED
  BY <1>2, <1>11, <1>12

LEMMA LoadStepsKept ==
  ASSUME Arrays, Kept, Bides, LoadSteps
  PROVE  Kept' /\ Keeps
<1>1. /\ op # NoOp /\ op.call = "LoadData" /\ op.phase = "steps" /\ UNCHANGED <<tags, calls>>
      /\ op' = NoOp
  <2>1. op.call = "LoadData" /\ op.phase = "steps" /\ UNCHANGED <<tags, calls>>
    BY DEF LoadSteps, Doing
  <2>2. op' = NoOp
    BY Zenon DEF LoadSteps, Return
  <2> QED
    BY <2>1, <2>2 DEF NoOp
<1>2. onReader # NoTag /\ onReader' = onReader
  BY <1>1 DEF Kept, KeptHere, Stands, Waits, Bides
<1>3. /\ Same(integrity.info, TagInfo)
      /\ op.needInfo \/ Same(working.info, TagInfo) \/ Spent(TagInfo)
  BY <1>1 DEF Kept, KeptInfos, Agreed
<1>4. Shaped' /\ op'.call = "none"
  BY <1>1 DEF Shaped, NoOp
<1>5. ArrayMade
  BY DEF Kept, KeptInfos
<1>6. CASE ~integrity.created
  <2>1. UNCHANGED <<integrity, working>> /\ result' = [call |-> op.call, value |-> 5]
    BY <1>6, Zenon DEF LoadSteps, cards, Return
  <2>2. ArrayMade' /\ Settled'
    BY <1>5, <1>6, <2>1 DEF ArrayMade, IsMade, Settled
  <2>3. result'.value = 5
    BY <2>1
  <2> QED
    BY <1>1, <1>4, <2>2, <2>3, LoadStillKept
<1>7. CASE integrity.created
  <2> DEFINE read == StepsRead
             copy == CopyToWorking(read, op.needInfo, TRUE)
  <2>1. integrity' = read /\ working' = copy.card
    BY <1>2, <1>7, Zenon DEF LoadSteps, Copy
  <2>2. /\ IsCopy(read) /\ read.info = integrity.info
        /\ "created" \in DOMAIN read /\ read.created
    BY <1>5, <1>7 DEF StepsRead, Arrays, IsCopy, ArrayMade, IsMade
  <2> HIDE DEF read
  <2>3. /\ op.needInfo => copy.card.info = integrity.info
        /\ ~op.needInfo /\ working.info.steps = integrity.info.steps =>
             copy.card.info = working.info
    <3>1. \A b, c : LET other == CopyToWorking(read, b, c)
                    IN /\ b => other.card.info = integrity.info
                       /\ ~b /\ working.info.steps = integrity.info.steps =>
                            other.card.info = working.info
      BY <2>2, CopiedInfo
    <3> QED
      BY <3>1, Zenon
  <2> HIDE DEF copy
  <2>4. Same(working'.info, TagInfo) \/ Spent(TagInfo)
    <3>1. CASE op.needInfo
      BY <1>3, <2>1, <2>3, <3>1
    <3>2. ASSUME ~op.needInfo, Same(working.info, TagInfo) PROVE Same(working'.info, TagInfo)
      <4>1. working.info.steps = integrity.info.steps
        BY <1>3, <3>2, SameIsEqual
      <4> QED
        BY <2>1, <2>3, <3>2, <4>1
    <3> QED
      BY <1>3, <3>1, <3>2
  <2>5. TagInfo' = TagInfo /\ Same(integrity'.info, TagInfo)
    BY <1>1, <1>2, <1>3, <2>1, <2>2 DEF TagInfo
  <2>6. Agree' /\ Settled'
    BY <2>4, <2>5, SameIsEqual DEF Agree, Settled
  <2>7. ArrayMade'
    BY <2>1, <2>2 DEF ArrayMade, IsMade
  <2>8. result'.value # 4
    <3>1. result' = [call |-> op.call, value |-> 0]
      BY <1>2, <1>7, Zenon DEF LoadSteps, Return
    <3> QED
      BY <3>1
  <2> QED
    BY <1>1, <1>4, <2>6, <2>7, <2>8, LoadStillKept
<1> QED
  BY <1>6, <1>7

\* The next call begins.
LEMMA StartCallKept ==
  ASSUME Arrays, Kept, Bides, StartCall
  PROVE  Kept' /\ Keeps
<1>1. /\ op = NoOp /\ calls # <<>> /\ calls' = Tail(calls) /\ tags' = tags
      /\ StartLoad \/ StartWriteSafeInfo \/ StartWriteSafeStep \/ StartSync
  BY DEF StartCall
<1>2. onReader # NoTag /\ at # "poll" /\ raf \notin {"Wait", "Presun", "Novy"}
  BY <1>1 DEF Kept, KeptHere, InPlace, Stands, Waits
<1>3. calls \in {<<"LoadData">>, InfoThenSync, StepThenSync, <<"Sync">>}
  BY <1>1 DEF Kept, KeptHere, InPlace
<1>4. TagInfo' = TagInfo /\ Keeps /\ Stands'
  BY <1>1, <1>2 DEF TagInfo, Bides, Keeps, Stands
<1>5. /\ at # "loop" => raf = "Mimo"
      /\ raf = "Konec" => Spent(TagInfo) /\ Spent(integrity.info) /\ working.info.done
  BY <1>1, <1>2 DEF Kept, KeptHere, InPlace, KeptInfos, GivenUp, Waits
<1>6. CASE StartLoad
  <2>1. calls = <<"LoadData">> /\ calls' = <<>>
    BY <1>1, <1>3, <1>6, CallsDiffer DEF StartLoad
  <2>2. op' = LoadData /\ UNCHANGED <<integrity, working>>
    BY <1>6 DEF StartLoad, cards
  <2>3. op' # NoOp /\ op'.call = "LoadData" /\ op'.phase = "info" /\ Shaped'
    BY <2>2 DEF LoadData, NoOp, Shaped
  <2>4. at = "loaded"
    BY <2>1 DEF Kept, KeptHere, InPlace
  <2>5. InPlace' /\ InfoWritten'
    BY <1>5, <2>1, <2>3, <2>4, CallsDiffer DEF InPlace, InfoWritten, Bides
  <2>6. Settled' /\ ArrayMade'
    BY <1>1, <2>1, <2>2, CallsDiffer DEF Kept, KeptInfos, Settled, ArrayMade, IsMade, NoOp
  <2>7. Agreed' /\ MayBeWritten' /\ GivenUp'
    BY <1>5, <2>1, <2>3, <2>4, CallsDiffer
       DEF Agreed, MayBeWritten, GivenUp, Bides, Waits, Writes
  <2> QED
    BY <1>4, <2>3, <2>5, <2>6, <2>7 DEF Kept, KeptHere, KeptInfos
<1>7. ASSUME calls' \in {<<>>, <<"Sync">>}, op' # NoOp, op'.call \in Writes,
             DOMAIN op' = WriteFields, op'.phase \in {"sum", "compare"},
             op'.call = "Sync" => calls' = <<>>,
             op'.call = "WriteSafeStep" => at = "gate",
             op'.call = "WriteSafeInfo" => op'.run = [from |-> 0, to |-> 0],
             at # "loaded", working' = working,
             Same(integrity'.info, integrity.info) \/ Same(integrity'.info, working.info),
             ArrayMade', Settled', MayBeWritten'
      PROVE  Kept'
  <2>1. Shaped' /\ InfoWritten'
    BY <1>7 DEF Shaped, InfoWritten
  <2>2. InPlace'
    BY <1>2, <1>5, <1>7, CallsDiffer DEF InPlace, Bides, Writes
  <2>3. Agreed'
    BY <1>2, <1>7 DEF Agreed, Bides, Waits, Writes
  <2>4. GivenUp'
    <3>1. raf = "Konec" => Spent(integrity'.info)
      BY <1>5, <1>7, SameIsEqual DEF Spent
    <3> QED
      BY <1>2, <1>4, <1>5, <1>7, <3>1 DEF GivenUp, Bides
  <2> QED
    BY <1>4, <1>7, <2>1, <2>2, <2>3, <2>4 DEF Kept, KeptHere, KeptInfos
<1>8. CASE StartWriteSafeInfo
  <2>1. calls = InfoThenSync /\ calls' = <<"Sync">>
    BY <1>1, <1>3, <1>8, CallsDiffer DEF StartWriteSafeInfo
  <2>2. /\ op' = Writing("WriteSafeInfo", "sum", [from |-> 0, to |-> 0], {}, integrity.info)
        /\ integrity' = [integrity EXCEPT !.known = TRUE, !.info = working.info]
        /\ working' = working
    BY <1>8 DEF StartWriteSafeInfo
  <2>3. /\ op' # NoOp /\ op'.call = "WriteSafeInfo" /\ op'.call \in Writes
        /\ DOMAIN op' = WriteFields /\ op'.phase = "sum" /\ op'.run = [from |-> 0, to |-> 0]
    BY <2>2 DEF Writing, NoOp, WriteFields, Writes
  <2>4. integrity'.info = working.info /\ ArrayMade'
    BY <2>2 DEF Arrays, IsCopy, Kept, KeptInfos, ArrayMade, IsMade
  <2>5. Settled'
    BY <2>2, <2>4 DEF Settled, Same
  <2>6. MayBeWritten'
    BY <1>4, <2>1, <2>2, <2>3, <2>4, CallsDiffer
       DEF Kept, KeptInfos, MayBeWritten, MayWrite, Same
  <2>7. at # "loaded"
    BY <2>1, CallsDiffer DEF Kept, KeptHere, InPlace
  <2> QED
    BY <1>4, <1>7, <2>1, <2>2, <2>3, <2>4, <2>5, <2>6, <2>7 DEF Same
<1>9. CASE StartWriteSafeStep
  <2>1. calls = StepThenSync /\ calls' = <<"Sync">>
    BY <1>1, <1>3, <1>9, CallsDiffer DEF StartWriteSafeStep
  <2>2. PICK i, run, saved :
          /\ op' = Writing("WriteSafeStep", "sum", run, {}, saved)
          /\ integrity' = [integrity EXCEPT !.steps[i] = working.steps[i]]
          /\ working' = working
    BY <1>9 DEF StartWriteSafeStep
  <2>3. /\ op' # NoOp /\ op'.call = "WriteSafeStep" /\ op'.call \in Writes
        /\ DOMAIN op' = WriteFields /\ op'.phase = "sum"
    BY <2>2 DEF Writing, NoOp, WriteFields, Writes
  <2>4. /\ integrity'.info = integrity.info
        /\ integrity.steps = <<>> => integrity'.steps = <<>>
    BY <2>2, EmptyStays DEF Arrays, IsCopy
  <2>5. ArrayMade'
    BY <2>2, <2>4 DEF Arrays, IsCopy, Kept, KeptInfos, ArrayMade, IsMade
  <2>6. Settled'
    BY <1>1, <2>1, <2>2, <2>4, CallsDiffer DEF Kept, KeptInfos, Settled, NoOp
  <2>7. MayBeWritten'
    BY <1>4, <2>1, <2>2, <2>3, <2>4, CallsDiffer
       DEF Kept, KeptInfos, MayBeWritten, MayWrite, Same
  <2>8. at = "gate"
    BY <2>1, CallsDiffer DEF Kept, KeptHere, InPlace
  <2> QED
    BY <1>4, <1>7, <2>1, <2>2, <2>3, <2>4, <2>5, <2>6, <2>7, <2>8 DEF Same
<1>10. CASE StartSync
  <2>1. calls = <<"Sync">> /\ calls' = <<>>
    BY <1>1, <1>3, <1>10, CallsDiffer DEF StartSync
  <2> DEFINE runs == Runs(dirty)
             run == FirstOf(runs)
  <2>2. PICK phase \in {"sum", "compare"} :
          op' = Writing("Sync", phase, run, runs \ {run}, NoOp)
    BY <1>10, Zenon DEF StartSync
  <2>3. run.from = 0
    BY RunsFit DEF Arrays, Marks
  <2> HIDE DEF run, runs
  <2>4. /\ op' # NoOp /\ op'.call = "Sync" /\ op'.call \in Writes
        /\ DOMAIN op' = WriteFields /\ op'.phase \in {"sum", "compare"} /\ op'.run.from = 0
    BY <2>2, <2>3 DEF Writing, NoOp, WriteFields, Writes
  <2>5. UNCHANGED <<integrity, working>>
    BY <1>10 DEF StartSync, cards
  <2>6. ArrayMade' /\ Settled'
    BY <1>1, <2>1, <2>5, CallsDiffer DEF Kept, KeptInfos, Settled, NoOp, ArrayMade, IsMade
  <2>7. MayBeWritten'
    BY <1>4, <2>1, <2>4, <2>5, CallsDiffer DEF Kept, KeptInfos, MayBeWritten, MayWrite
  <2>8. at # "loaded"
    BY <2>1, CallsDiffer DEF Kept, KeptHere, InPlace
  <2> QED
    BY <1>4, <1>7, <2>1, <2>4, <2>5, <2>6, <2>7, <2>8 DEF Same
<1> QED
  BY <1>1, <1>6, <1>8, <1>9, <1>10

\* The handler works, wherever the reader is.
LEMMA HandlerStillKept ==
  ASSUME Arrays, Kept, HandlerWorks
  PROVE  Kept' /\ Keeps
<1>1. Bides
  BY DEF HandlerWorks, HandlerStep, Bides, StartCall, LoadFails, LoadInfo, LoadSteps, Sum,
         OutOfRange, GiveUp, WriteHead, Select, WriteStructure, AccessLost, Verify, Retry,
         SyncRunWritten, SafeWriteDone, Compare, MissingArray, MissingArrayAtStart, Panic
<1>2. CASE Sum \/ WriteHead \/ Select \/ WriteStructure
  <2>1. op # NoOp /\ op.phase \in {"sum", "head", "select", "write"}
    BY <1>2 DEF Sum, WriteHead, Select, WriteStructure, AtTag
  <2>2. op.call \in Writes
    BY <2>1 DEF Kept, KeptHere, Shaped
  <2> QED
    BY <1>1, <1>2, <2>2, SumKept, WriteHeadKept, SelectKept, WriteStructureKept
<1>3. CASE MissingArray \/ MissingArrayAtStart
  <2>1. UNCHANGED <<tags, onReader, cards, calls, op, result, raf, at, cardOnReader>>
    BY <1>1, <1>3 DEF MissingArray, MissingArrayAtStart, Panic, Bides
  <2>2. KeptHere'
    BY <2>1 DEF cards, Kept, KeptHere, Shaped, Stands, Waits, InPlace, InfoWritten, TagInfo
  <2>3. KeptInfos'
    BY <2>1 DEF cards, Kept, KeptInfos, ArrayMade, IsMade, Settled, Agreed, Agree, MayBeWritten,
                MayWrite, GivenUp, TagInfo, Waits
  <2> QED
    BY <2>1, <2>2, <2>3 DEF Kept, Keeps
<1> QED
  BY <1>1, <1>2, <1>3, StartCallKept, LoadFailsKept, LoadInfoKept, LoadStepsKept, LostKept,
     VerifyKept, CompareKept
     DEF HandlerWorks, HandlerStep

-----------------------------------------------------------------------------
\* The steps of the reader.

\* The reader is back at the top of the loop, with nothing to be called.
LEMMA LoopKept ==
  ASSUME op' = NoOp, calls' = <<>>, at' = "loop", ArrayMade', Settled', Stands',
         raf' \in {"Konec", "Novy"} => Spent(TagInfo') /\ Spent(integrity'.info),
         raf' = "Presun" => TagInfo'.id = 0
  PROVE  Kept'
<1>1. KeptHere'
  BY CallsDiffer DEF KeptHere, Shaped, InPlace, InfoWritten, NoOp, Waits
<1>2. Agreed' /\ MayBeWritten' /\ GivenUp'
  BY CallsDiffer DEF Agreed, MayBeWritten, GivenUp, NoOp, Waits, Writes
<1> QED
  BY <1>1, <1>2 DEF Kept, KeptInfos

\* What the reader finds when the handler rests.
LEMMA RestedIsSettled ==
  ASSUME Kept, Waits
  PROVE  /\ Same(working.info, integrity.info) \/ Spent(integrity.info) \/ integrity.steps = <<>>
         /\ ArrayMade
         /\ raf \in {"Konec", "Novy"} => Spent(TagInfo) /\ Spent(integrity.info)
         /\ raf = "Presun" => TagInfo.id = 0
         /\ at \in {"loaded", "poll", "written", "gate"}
            \/ raf \in {"Konec", "Novy", "Presun"} \/ (raf = "Mimo" /\ cardOnReader) =>
              onReader # NoTag
         /\ at = "poll" \/ (at = "loaded" /\ result.value = 0) => Agree
         /\ at = "loaded" /\ result.value = 4 => TagInfo.id = 0
         /\ at # "loop" => raf = "Mimo"
<1>1. Same(working.info, integrity.info) \/ Spent(integrity.info) \/ integrity.steps = <<>>
  BY CallsDiffer DEF Kept, KeptInfos, Settled, Waits, NoOp
<1>2. /\ ArrayMade
      /\ raf \in {"Konec", "Novy"} => Spent(TagInfo) /\ Spent(integrity.info)
      /\ raf = "Presun" => TagInfo.id = 0
      /\ at = "poll" \/ (at = "loaded" /\ result.value = 0) => Agree
      /\ at = "loaded" /\ result.value = 4 => TagInfo.id = 0
  BY DEF Kept, KeptInfos, GivenUp, Agreed
<1>3. onReader = NoTag => at = "loop" /\ (raf = "Wait" \/ (raf = "Mimo" /\ ~cardOnReader))
  BY DEF Kept, KeptHere, Stands
<1>4. at # "loop" => raf = "Mimo"
  BY DEF Kept, KeptHere, InPlace
<1> QED
  BY <1>1, <1>2, <1>3, <1>4

\* The copies and the tag are as they were.
LEMMA QuietKept ==
  ASSUME Kept, Waits, UNCHANGED hVars, at' = "loop",
         onReader = NoTag => raf' = "Wait" \/ (raf' = "Mimo" /\ ~cardOnReader'),
         raf' \in {"Konec", "Novy"} => Spent(TagInfo) /\ Spent(integrity.info),
         raf' = "Presun" => TagInfo.id = 0
  PROVE  Kept' /\ Keeps
<1>1. /\ op' = NoOp /\ calls' = <<>> /\ op = NoOp /\ calls = <<>>
      /\ UNCHANGED <<tags, onReader, integrity, working>>
  BY DEF hVars, Waits
<1>2. TagInfo' = TagInfo /\ Keeps
  BY <1>1 DEF TagInfo, Keeps
<1>3. ArrayMade' /\ Settled'
  BY <1>1, RestedIsSettled DEF ArrayMade, IsMade, Settled
<1>4. Stands'
  BY <1>1 DEF Stands, Waits
<1> QED
  BY <1>1, <1>2, <1>3, <1>4, LoopKept

LEMMA QuietStepsKept ==
  ASSUME Kept,
         \/ Gone \/ LoadFailed \/ EmptyTag \/ Rescan \/ LocalRefused \/ PostStep \/ GateBlocked
         \/ KonecReceptu \/ TargetRefused \/ TransportFailed \/ TransportStarted
         \/ RecipeFinished /\ Info.done
  PROVE  Kept' /\ Keeps
<1>1. Waits /\ UNCHANGED hVars /\ at' = "loop"
  BY DEF Waits, HandlerIdle, Gone, LoadFailed, EmptyTag, Rescan, LocalRefused, PostStep,
     GateBlocked, KonecReceptu, TargetRefused, TransportFailed, TransportStarted, RecipeFinished,
     KeepHandler, Decide, Reported, Loaded, Enters, Ready, Loop
<1>2. CASE Gone
  <2>1. raf' = "Mimo" /\ ~cardOnReader'
    BY <1>2 DEF Gone, Loop
  <2> QED
    BY <1>1, <2>1, QuietKept
<1>3. CASE LoadFailed
  <2>1. at = "loaded" /\ (raf' = "Mimo" \/ (raf' = "Presun" /\ result.value = 4))
    BY <1>3 DEF LoadFailed, Loop, Ready
  <2> QED
    BY <1>1, <2>1, QuietKept, RestedIsSettled
<1>4. CASE EmptyTag \/ Rescan \/ LocalRefused \/ PostStep \/ GateBlocked \/ TargetRefused
           \/ TransportFailed \/ TransportStarted
  <2>1. at \in {"loaded", "written", "gate"} /\ raf' \in {"Wait", "Mimo"}
    BY <1>4 DEF EmptyTag, Rescan, LocalRefused, PostStep, GateBlocked, TargetRefused,
       TransportFailed, TransportStarted, Decide, Reported, Loaded, Ready, Loop
  <2> QED
    BY <1>1, <2>1, QuietKept, RestedIsSettled
<1>5. CASE KonecReceptu
  <2>1. raf = "Konec" /\ raf' = "Novy"
    BY <1>5 DEF KonecReceptu, Enters, Ready, Loop
  <2> QED
    BY <1>1, <2>1, QuietKept, RestedIsSettled
<1>6. CASE RecipeFinished /\ Info.done
  <2>1. at = "loaded" /\ result.value = 0 /\ raf' = "Konec" /\ working.info.done
    BY <1>6 DEF RecipeFinished, Reported, Loaded, Ready, Loop, Info
  <2>2. Agree /\ onReader # NoTag
    BY <1>1, <2>1, RestedIsSettled
  <2>3. Spent(TagInfo) /\ Spent(integrity.info)
    BY <2>1, <2>2, SameIsEqual DEF Agree, Spent
  <2> QED
    BY <1>1, <2>1, <2>2, <2>3, QuietKept
<1> QED
  BY <1>2, <1>3, <1>4, <1>5, <1>6

\* The load of a product that is there.
LEMMA MimoPolozenaKept ==
  ASSUME Kept, MimoPolozena
  PROVE  Kept' /\ Keeps
<1>1. /\ Waits /\ raf = "Mimo" /\ raf' = "Mimo" /\ cardOnReader /\ op' = NoOp
      /\ UNCHANGED <<tags, onReader, integrity, working>>
      /\ calls' = <<"LoadData">> /\ at' = "loaded"
  BY DEF MimoPolozena, Enters, Ready, HandlerIdle, Waits, Calls, cards
<1>2. onReader # NoTag /\ Keeps
  BY <1>1, RestedIsSettled DEF Keeps
<1>3. ArrayMade' /\ Settled'
  BY <1>1, RestedIsSettled DEF ArrayMade, IsMade, Settled
<1>4. KeptHere'
  BY <1>1, <1>2, CallsDiffer
     DEF KeptHere, Shaped, Stands, InPlace, InfoWritten, NoOp, Waits
<1>5. Agreed' /\ MayBeWritten' /\ GivenUp'
  BY <1>1, CallsDiffer DEF Agreed, MayBeWritten, GivenUp, Waits, NoOp, Writes
<1> QED
  BY <1>2, <1>3, <1>4, <1>5 DEF Kept, KeptInfos

\* The completion of a step is waited for.
LEMMA PollKept ==
  ASSUME Kept, LocalReserved \/ LocalMarked
  PROVE  Kept' /\ Keeps
<1>1. /\ Waits /\ at = "loaded" /\ result.value = 0 /\ raf = "Mimo" /\ raf' = "Mimo"
      /\ op' = NoOp /\ calls' = <<>> /\ at' = "poll"
      /\ UNCHANGED <<tags, onReader, integrity, working>>
  BY DEF LocalReserved, LocalMarked, Decide, Reported, Loaded, Ready, HandlerIdle, Waits,
     hVars, cards
<1>2. onReader # NoTag /\ Agree
  BY <1>1, RestedIsSettled
<1>3. Agree' /\ Keeps
  BY <1>1, <1>2 DEF Agree, TagInfo, Keeps
<1>4. ArrayMade' /\ Settled'
  BY <1>1, RestedIsSettled DEF ArrayMade, IsMade, Settled
<1>5. KeptHere'
  BY <1>1, <1>2, CallsDiffer
     DEF KeptHere, Shaped, Stands, InPlace, InfoWritten, NoOp, Waits
<1>6. Agreed' /\ MayBeWritten' /\ GivenUp'
  BY <1>1, <1>3, CallsDiffer DEF Agreed, MayBeWritten, GivenUp, Waits, NoOp, Writes
<1> QED
  BY <1>3, <1>4, <1>5, <1>6 DEF Kept, KeptInfos

\* The info the tag agrees with is changed, and is to be written.
LEMMA ToWriteKept ==
  ASSUME Kept, Waits, Agree, onReader # NoTag, UNCHANGED <<tags, onReader, integrity, op>>,
         working'.info.batch = working.info.batch, calls' = InfoThenSync,
         at' \in {"loop", "written"}, raf' \in {"Mimo", "Konec"}, at' # "loop" => raf' = "Mimo",
         raf' = "Konec" => Spent(TagInfo) /\ working'.info.done
  PROVE  Kept' /\ Keeps
<1>1. op' = NoOp /\ TagInfo' = TagInfo /\ Keeps
  BY DEF Waits, TagInfo, Keeps
<1>2. MayWrite(working.info)'
  BY <1>1, SameIsEqual DEF Agree, MayWrite
<1>3. ArrayMade' /\ Settled'
  BY RestedIsSettled DEF ArrayMade, IsMade, Settled
<1>4. KeptHere'
  BY <1>1, CallsDiffer DEF KeptHere, Shaped, Stands, InPlace, InfoWritten, NoOp
<1>5. MayBeWritten'
  BY <1>1, <1>2, CallsDiffer DEF MayBeWritten, NoOp, Writes
<1>6. Agreed' /\ GivenUp'
  BY <1>1, SameIsEqual DEF Agreed, GivenUp, Agree, NoOp, Waits
<1> QED
  BY <1>1, <1>3, <1>4, <1>5, <1>6 DEF Kept, KeptInfos

LEMMA WriteBackKept ==
  ASSUME Arrays, Kept,
         \/ ReportRefused \/ CompletionFailed \/ CompletionOk
         \/ RecipeFinished /\ ~Info.done
  PROVE  Kept' /\ Keeps
<1>1. /\ Waits /\ UNCHANGED <<tags, onReader, integrity, op>> /\ calls' = InfoThenSync
      /\ at = "poll" \/ (at = "loaded" /\ result.value = 0)
      /\ at' \in {"loop", "written"}
  BY DEF ReportRefused, CompletionFailed, CompletionOk, RecipeFinished, Reported, Loaded, Ready,
     HandlerIdle, Waits, MarkDone, Loop, KeepTag, Calls, InfoThenSync
<1>2. Agree /\ onReader # NoTag
  BY <1>1, RestedIsSettled
<1>3. IsCopy(working)
  BY DEF Arrays
<1>4. CASE CompletionOk
  <2>1. at' = "written" /\ raf' = "Mimo" /\ working' = Advance
    BY <1>4 DEF CompletionOk, Calls, Ready
  <2>2. working'.info.batch = working.info.batch
    BY <1>3, <2>1 DEF Advance, IsCopy, Counts
  <2> QED
    BY <1>1, <1>2, <2>1, <2>2, ToWriteKept
<1>5. CASE ReportRefused \/ CompletionFailed
  <2>1. /\ working' = [working EXCEPT !.info.done = TRUE] /\ raf' = "Mimo" /\ at' = "loop"
    BY <1>5 DEF ReportRefused, CompletionFailed, MarkDone, Loop
  <2>2. working'.info.batch = working.info.batch
    BY <1>3, <2>1 DEF IsCopy, Counts
  <2> QED
    BY <1>1, <1>2, <2>1, <2>2, ToWriteKept
<1>6. CASE RecipeFinished /\ ~Info.done
  <2>1. /\ working' = [working EXCEPT !.info.done = TRUE] /\ raf' = "Konec" /\ at' = "loop"
        /\ working.info.actual >= working.info.steps
    BY <1>6 DEF RecipeFinished, MarkDone, Loop, Finished, Info
  <2>2. working'.info.batch = working.info.batch /\ working'.info.done
    BY <1>3, <2>1 DEF IsCopy, Counts
  <2>3. Spent(TagInfo)
    BY <1>2, <2>1, SameIsEqual DEF Agree, Spent
  <2> QED
    BY <1>1, <1>2, <2>1, <2>2, <2>3, ToWriteKept
<1> QED
  BY <1>4, <1>5, <1>6

\* A step is marked, to be written and then synchronised.
LEMMA TargetReservedKept ==
  ASSUME Arrays, Kept, TargetReserved
  PROVE  Kept' /\ Keeps
<1>1. /\ Waits /\ at = "loaded" /\ result.value = 0 /\ raf = "Mimo" /\ raf' = "Mimo"
      /\ op' = NoOp /\ calls' = StepThenSync /\ at' = "gate"
      /\ UNCHANGED <<tags, onReader, integrity>>
  BY DEF TargetReserved, Decide, Reported, Loaded, Ready, HandlerIdle, Waits, KeepTag, Calls,
     StepThenSync
<1>2. working'.info = working.info
  <2>1. \E i, x : working' = [working EXCEPT !.steps[i].reserved = x]
    BY DEF TargetReserved
  <2> QED
    BY <2>1 DEF Arrays, IsCopy
<1>3. onReader # NoTag /\ Agree
  BY <1>1, RestedIsSettled
<1>4. TagInfo' = TagInfo /\ Keeps
  BY <1>1 DEF TagInfo, Keeps
<1>5. ArrayMade' /\ Settled'
  BY <1>1, <1>2, RestedIsSettled DEF ArrayMade, IsMade, Settled
<1>6. KeptHere'
  BY <1>1, <1>3, CallsDiffer
     DEF KeptHere, Shaped, Stands, InPlace, InfoWritten, NoOp, Waits
<1>7. MayWrite(working.info)' /\ Same(integrity'.info, TagInfo')
  BY <1>1, <1>2, <1>3, <1>4, SameIsEqual DEF Agree, MayWrite
<1>8. MayBeWritten'
  BY <1>1, <1>7, CallsDiffer DEF MayBeWritten, NoOp, Writes
<1>9. Agreed' /\ GivenUp'
  BY <1>1 DEF Agreed, GivenUp, NoOp
<1> QED
  BY <1>4, <1>5, <1>6, <1>8, <1>9 DEF Kept, KeptInfos

\* A new recipe, for a tag that is free.
LEMMA NewRecipeKept ==
  ASSUME Arrays, Kept, Presun \/ NovyRecept
  PROVE  Kept' /\ Keeps
<1>1. /\ Waits /\ op' = NoOp /\ calls' = <<"Sync">> /\ raf' = "Mimo" /\ at' = "loop"
      /\ UNCHANGED <<tags, onReader>>
      /\ raf = "Presun" \/ raf = "Novy"
  BY DEF Presun, NovyRecept, Enters, Ready, HandlerIdle, Waits, Loop, KeepTag
<1>2. TagInfo' = TagInfo /\ Keeps
  BY <1>1 DEF TagInfo, Keeps
<1>3. onReader # NoTag /\ Spent(TagInfo)
  BY <1>1, RestedIsSettled DEF Spent
<1>4. ArrayMade' /\ Settled'
  <2>1. CASE Presun
    <3>1. integrity' = InitTCardInfo(integrity.info)
      BY <2>1 DEF Presun
    <3> QED
      BY <3>1 DEF ArrayMade, IsMade, Settled, InitTCardInfo
  <2>2. CASE NovyRecept
    <3>1. integrity' = integrity /\ raf = "Novy"
      BY <2>2 DEF NovyRecept, KeepTag, Enters, Ready
    <3> QED
      BY <1>1, <3>1, RestedIsSettled DEF ArrayMade, IsMade, Settled
  <2> QED
    BY <2>1, <2>2
<1>5. KeptHere'
  BY <1>1, <1>3, CallsDiffer
     DEF KeptHere, Shaped, Stands, InPlace, InfoWritten, NoOp, Waits
<1>6. Agreed' /\ MayBeWritten' /\ GivenUp'
  BY <1>1, <1>2, <1>3, CallsDiffer
     DEF Agreed, MayBeWritten, MayWrite, GivenUp, Waits, NoOp, Writes
<1> QED
  BY <1>2, <1>4, <1>5, <1>6 DEF Kept, KeptInfos

-----------------------------------------------------------------------------
\* What happens around the reader.

\* The reader sees nothing of it.
LEMMA UnseenKept ==
  ASSUME Kept, UNCHANGED <<onReader, integrity, working, calls, op, result, raf, at>>,
         TagInfo' = TagInfo, Stands'
  PROVE  Kept'
<1>1. KeptHere'
  BY DEF Kept, KeptHere, Shaped, InPlace, InfoWritten, Waits
<1>2. KeptInfos'
  BY DEF Kept, KeptInfos, ArrayMade, IsMade, Settled, Agreed, Agree, MayBeWritten, MayWrite,
     GivenUp, Waits
<1> QED
  BY <1>1, <1>2 DEF Kept

LEMMA ApartKept ==
  ASSUME Kept, PollCard \/ GuardExpires \/ CellWorks
  PROVE  Kept' /\ Keeps
<1>1. UNCHANGED <<tags, onReader, integrity, working, calls, op, result, raf, at>>
  BY DEF PollCard, GuardExpires, CellWorks, hVars, cards, aasVars
<1>2. onReader = NoTag => cardOnReader' = cardOnReader \/ ~cardOnReader'
  BY DEF PollCard, GuardExpires, CellWorks, aasVars
<1>3. TagInfo' = TagInfo /\ Keeps
  BY <1>1 DEF TagInfo, Keeps
<1>4. Stands'
  <2>1. Stands
    BY DEF Kept, KeptHere
  <2>2. ASSUME onReader = NoTag, ~cardOnReader PROVE ~cardOnReader'
    BY <1>2, <2>2, Zenon
  <2> QED
    BY <1>1, <2>1, <2>2 DEF Stands, Waits
<1> QED
  BY <1>1, <1>3, <1>4, UnseenKept

\* A reader without a product waits, and so does one that is left.
LEMMA MovesKept ==
  ASSUME Stays, Kept, Leaves \/ \E t \in Tags : Arrives(t)
  PROVE  Kept' /\ Keeps
<1>1. UNCHANGED <<tags, integrity, working, calls, raf, at, cardOnReader>>
  BY DEF Leaves, Arrives, TakeAway, PutDown, cards, aasVars
<1>2. /\ Waits /\ op' = op /\ at = "loop"
      /\ raf = "Wait" \/ (raf = "Mimo" /\ ~cardOnReader)
  <2>1. CASE Leaves
    <3>1. raf = "Wait" /\ op = NoOp /\ calls = <<>> /\ op' = op
      BY <2>1 DEF Leaves, TakeAway, HandlerIdle
    <3> QED
      BY <3>1 DEF Waits, Kept, KeptHere, InPlace
  <2>2. CASE \E t \in Tags : Arrives(t)
    BY <2>2 DEF Arrives, PutDown, Kept, KeptHere, Stands
  <2> QED
    BY <2>1, <2>2
<1>3. ArrayMade' /\ Settled' /\ Keeps
  BY <1>1, <1>2, RestedIsSettled DEF ArrayMade, IsMade, Settled, Keeps
<1>4. Stands'
  BY <1>1, <1>2 DEF Stands, Waits
<1> QED
  BY <1>1, <1>2, <1>3, <1>4, LoopKept DEF Waits

LEMMA RebootKept ==
  ASSUME Reboot
  PROVE  Kept' /\ Keeps
<1>1. /\ op' = NoOp /\ calls' = <<>> /\ at' = "loop" /\ raf' = "Mimo" /\ cardOnReader' = FALSE
      /\ integrity' = InitTCardInfo(StackInfo) /\ tags' = tags
  BY DEF Reboot, Restart, Loop
<1>2. ArrayMade' /\ Settled'
  BY <1>1 DEF ArrayMade, IsMade, Settled, InitTCardInfo
<1> QED
  BY <1>1, <1>2, LoopKept DEF Stands, Waits, Keeps

\* Another cell works on a product, or marks it: it is away, and its recipe stays.
LEMMA ElsewhereKept ==
  ASSUME Arrays, Kept, NEW t \in Tags, DoneElsewhere(t) \/ SentHere(t)
  PROVE  Kept' /\ Keeps
<1>1. /\ onReader # t
      /\ UNCHANGED <<onReader, integrity, working, calls, op, result, raf, at, cardOnReader>>
  BY DEF DoneElsewhere, SentHere, cards, aasVars
<1>2. DOMAIN tags = Tags /\ IsCopy(tags[t])
  BY DEF Arrays, TagsFit
<1>3. /\ \A u \in Tags \ {t} : tags'[u] = tags[u]
      /\ tags'[t].info.batch = tags[t].info.batch
  <2>1. CASE DoneElsewhere(t)
    <3>1. PICK i, x, y, z :
            tags' = [tags EXCEPT ![t] =
                       [info  |-> [[tags[t].info EXCEPT !.actual = i, !.done = x] EXCEPT !.cs = y],
                        steps |-> z]]
      BY <2>1, Zenon DEF DoneElsewhere
    <3> QED
      BY <1>2, <3>1 DEF IsCopy, Counts
  <2>2. CASE SentHere(t)
    <3>1. PICK x, y : tags' = [tags EXCEPT ![t].steps = x, ![t].info.cs = y]
      BY <2>2, Zenon DEF SentHere
    <3> QED
      BY <1>2, <3>1 DEF IsCopy, Counts
  <2> QED
    BY <2>1, <2>2
<1>4. Keeps
  BY <1>3 DEF Keeps
<1>5. Stands'
  BY <1>1 DEF Kept, KeptHere, Stands, Waits
<1>6. CASE onReader \in Tags
  <2>1. TagInfo' = TagInfo
    BY <1>1, <1>3, <1>6 DEF TagInfo
  <2> QED
    BY <1>1, <1>4, <1>5, <2>1, UnseenKept
<1>7. CASE onReader = NoTag
  <2>1. Waits /\ at = "loop" /\ raf \in {"Wait", "Mimo"}
    BY <1>7 DEF Kept, KeptHere, Stands
  <2>2. ArrayMade' /\ Settled'
    BY <1>1, <2>1, RestedIsSettled DEF ArrayMade, IsMade, Settled
  <2> QED
    BY <1>1, <1>4, <1>5, <2>1, <2>2, LoopKept DEF Waits
<1> QED
  BY <1>6, <1>7 DEF Arrays, TagsFit

\* Every step of the reader and of what is around it.
LEMMA NextKept ==
  ASSUME Stays, Arrays, Kept, Next
  PROVE  Kept' /\ Keeps
<1>1. CASE Gone \/ LoadFailed \/ EmptyTag \/ Rescan \/ LocalRefused \/ PostStep \/ GateBlocked
           \/ KonecReceptu \/ TargetRefused \/ TransportFailed \/ TransportStarted
  BY <1>1, QuietStepsKept
<1>2. CASE MimoPolozena \/ LocalReserved \/ LocalMarked
  BY <1>2, MimoPolozenaKept, PollKept
<1>3. CASE ReportRefused \/ CompletionFailed \/ CompletionOk \/ RecipeFinished
  BY <1>3, QuietStepsKept, WriteBackKept
<1>4. CASE TargetReserved \/ Presun \/ NovyRecept
  BY <1>4, TargetReservedKept, NewRecipeKept
<1>5. CASE HandlerWorks
  BY <1>5, HandlerStillKept
<1>6. CASE PollCard \/ GuardExpires \/ CellWorks
  BY <1>6, ApartKept
<1>7. CASE Leaves \/ Reboot \/ \E t \in Tags : Arrives(t)
  BY <1>7, MovesKept, RebootKept
<1>8. CASE \E t \in Tags : DoneElsewhere(t) \/ SentHere(t)
  BY <1>8, ElsewhereKept
<1> QED
  BY <1>1, <1>2, <1>3, <1>4, <1>5, <1>6, <1>7, <1>8 DEF Next, Reader, Decides

LEMMA InitKept == Init => Kept
<1> SUFFICES ASSUME Init PROVE Kept
  OBVIOUS
<1>1. /\ onReader = NoTag /\ op = NoOp /\ calls = <<>> /\ at = "loop" /\ raf = "Mimo"
      /\ cardOnReader = FALSE /\ integrity = InitTCardInfo(StackInfo)
  BY DEF Init, HandlerInit
<1>2. KeptHere
  BY <1>1, CallsDiffer DEF KeptHere, Shaped, Stands, InPlace, InfoWritten, NoOp, Waits
<1>3. KeptInfos
  BY <1>1, CallsDiffer DEF KeptInfos, ArrayMade, IsMade, Settled, Agreed, MayBeWritten, GivenUp,
     NoOp, Waits, Writes, InitTCardInfo
<1> QED
  BY <1>2, <1>3 DEF Kept

\* A recipe is written over only when it is finished, given up or broken
\* (RecipeIsKept), for every number of tags that come and go, recipes and steps,
\* whatever another cell does to a product that is away, accesses that fail, and
\* restarts: where products stay until they are waited for.
THEOREM ReaderKeepsRecipes ==
  ASSUME Stays
  PROVE  Spec => RecipeIsKept
<1> DEFINE Stay == \A t \in Tags : tags'[t].info.batch # tags[t].info.batch =>
                     \/ tags[t].info.id = 0
                     \/ tags[t].info.done
                     \/ tags[t].info.actual >= tags[t].info.steps
<1>1. Init => Arrays /\ Kept
  BY InitFits, InitKept
<1>2. Arrays /\ Kept /\ [Next]_vars => (Arrays /\ Kept)' /\ [Stay]_vars
  <2> SUFFICES ASSUME Arrays, Kept, [Next]_vars
               PROVE  (Arrays /\ Kept)' /\ [Stay]_vars
    OBVIOUS
  <2>1. CASE Next
    <3>1. Arrays' /\ Kept' /\ Keeps
      BY <2>1, NextKeeps, NextKept
    <3>2. Stay
      BY <3>1 DEF Keeps, Spent
    <3> HIDE DEF Stay
    <3> QED
      BY <3>1, <3>2
  <2>2. CASE UNCHANGED vars
    <3>1. Arrays'
      BY <2>2 DEF vars, hVars, cards, aasVars, Arrays, Marks, TagsFit, OpFits
    <3>2. /\ UNCHANGED <<onReader, integrity, working, calls, op, result, raf, at, cardOnReader>>
          /\ tags' = tags
      BY <2>2 DEF vars, hVars, cards, aasVars
    <3>3. TagInfo' = TagInfo /\ Stands'
      BY <3>2 DEF TagInfo, Kept, KeptHere, Stands, Waits
    <3>4. Kept'
      BY <3>2, <3>3, UnseenKept
    <3> HIDE DEF Stay
    <3> QED
      BY <2>2, <3>1, <3>4
  <2> QED
    BY <2>1, <2>2
<1>3. Spec => [][Stay]_vars
  BY <1>1, <1>2, PTL DEF Spec
<1> QED
  BY <1>3 DEF RecipeIsKept

-----------------------------------------------------------------------------
\* Every variable keeps its type: what is written counts its steps.

\* The hypotheses: a tag comes with no more steps done than it has, and there
\* is room for the recipes they come with.
FirstTagsCount ==
  /\ \A f \in FirstTags : \A t \in Tags : f[t].info.actual <= f[t].info.steps
  /\ MaxBatch \in Nat /\ Cardinality(Tags) \in 0 .. MaxBatch

\* An info that counts its steps, and a tag with room for them.
Counted(info) == /\ info.id \in IdsOnTags
                 /\ info.steps \in 0 .. MaxSteps /\ info.actual \in 0 .. info.steps
Full(steps) == \E S : steps \in [1 .. MaxSteps -> S]
TagsCounted == \A t \in Tags : Counted(tags[t].info) /\ Full(tags[t].steps)

MarksFit == \E n \in 0 .. MaxSteps : dirty \in [1 .. n -> BOOLEAN]
KnownFits == "known" \in DOMAIN integrity /\ "known" \in DOMAIN working

\* working counts the steps whenever it may be written, and otherwise counts
\* them when integrity does: the infos are the same, or the next load takes
\* the steps of integrity for them.
Reads == op.call = "LoadData" /\ op.phase = "steps"
Paired ==
  \/ calls = InfoThenSync \/ (Reads /\ op.needInfo)
  \/ Bytes(working.info) = Bytes(integrity.info) \/ integrity.steps = <<>>
  \/ Counted(working.info) /\ working.info.actual = 0
CountedToWrite ==
  op.call \in Writes \/ calls \in {InfoThenSync, StepThenSync, <<"Sync">>} => Counted(working.info)
CountedWhenLoaded ==
  /\ Reads => integrity.known /\ (op.needInfo \/ HasSteps(integrity))
  /\ at = "loaded" /\ Waits /\ result.value = 0 => Counted(working.info) \/ working.info.steps = 0
  /\ at = "poll" => Counted(working.info) /\ working.info.actual < working.info.steps
IdForRecipe == raf \in {"Konec", "Novy"} => integrity.info.id \in IdsOnTags
PhaseFits == op = NoOp \/ op.phase \in Phases

Sound == /\ TagsCounted /\ MarksFit /\ KnownFits /\ PhaseFits
         /\ Paired /\ CountedToWrite /\ CountedWhenLoaded /\ IdForRecipe

-----------------------------------------------------------------------------
\* Lemmas about infos and copies.

LEMMA SameCounts ==
  ASSUME NEW a, NEW b, Bytes(a) = Bytes(b)
  PROVE  /\ Counted(a) <=> Counted(b)
         /\ a.id = b.id /\ a.steps = b.steps /\ a.actual = b.actual
<1>1. a.id = b.id /\ a.steps = b.steps /\ a.actual = b.actual
  BY DEF Bytes
<1> QED
  BY <1>1 DEF Counted

LEMMA FullPut ==
  ASSUME NEW steps, Full(steps), NEW i, NEW x
  PROVE  Full([steps EXCEPT ![i] = x]) /\ Len(steps) = MaxSteps
<1>1. PICK S : steps \in [1 .. MaxSteps -> S]
  BY DEF Full
<1>2. [steps EXCEPT ![i] = x] \in [1 .. MaxSteps -> S \cup {x}]
  BY <1>1
<1>3. Len(steps) = MaxSteps
  BY <1>1, MaxStepsAssumption
<1> QED
  BY <1>2, <1>3 DEF Full

LEMMA MarksResized ==
  ASSUME Arrays, NEW n \in 0 .. MaxSteps, dirty' = Resize(dirty, n)
  PROVE  MarksFit'
<1>1. n \in Nat
  BY MaxStepsAssumption
<1> QED
  BY <1>1, ResizeKeeps DEF MarksFit

\* What a copy leaves of the info of working.
LEMMA CopyCounts ==
  ASSUME Arrays, KnownFits, NEW card, IsCopy(card), NEW infoData, NEW stepsData,
         infoData \/ card.known
  PROVE  LET copy == CopyToWorking(card, infoData, stepsData)
         IN /\ IsCopy(copy.card) /\ "known" \in DOMAIN copy.card
            /\ infoData => copy.card.info = card.info
            /\ copy.card.info.steps = card.info.steps
            /\ ~infoData => /\ copy.card.info.id = working.info.id
                            /\ copy.card.info.actual = working.info.actual
            /\ copy.dirty = Resize(dirty, card.info.steps)
<1> DEFINE known == [working EXCEPT !.known = card.known]
           array == IF known.created THEN known
                    ELSE ChangeRecipeStepsSize(known, card.info.steps)
           named == [array EXCEPT !.loaded = card.loaded, !.uid = card.uid]
           sized == ChangeRecipeStepsSize(named, card.info.steps)
           told == IF infoData THEN [sized EXCEPT !.info = card.info] ELSE sized
           Kin(c) == /\ IsCopy(c) /\ "known" \in DOMAIN c /\ c.known = card.known
                     /\ c.info.id = working.info.id /\ c.info.actual = working.info.actual
<1>1. card.info.steps \in Nat
  BY DEF IsCopy, Counts
<1>2. Kin(known)
  BY DEF Arrays, IsCopy, Counts, KnownFits
<1> HIDE DEF known
<1>3. ASSUME NEW c, Kin(c)
      PROVE  /\ Kin(ChangeRecipeStepsSize(c, card.info.steps))
             /\ card.known => ChangeRecipeStepsSize(c, card.info.steps).info.steps = card.info.steps
  <2>1. IsCopy(ChangeRecipeStepsSize(c, card.info.steps))
    BY <1>1, <1>3, SizeChanged
  <2> QED
    BY <1>1, <1>3, <2>1 DEF ChangeRecipeStepsSize, IsCopy, Counts
<1>4. Kin(array)
  BY <1>2, <1>3
<1> HIDE DEF array
<1>5. Kin(named)
  BY <1>4 DEF IsCopy, Counts
<1> HIDE DEF named
<1>6. Kin(sized) /\ (card.known => sized.info.steps = card.info.steps)
  BY <1>3, <1>5
<1> HIDE DEF sized
<1>7. /\ IsCopy(told) /\ "known" \in DOMAIN told /\ told.info.steps = card.info.steps
      /\ infoData => told.info = card.info
      /\ ~infoData => told.info.id = working.info.id /\ told.info.actual = working.info.actual
  BY <1>6 DEF IsCopy
<1> DEFINE clean == {i \in DOMAIN Resize(dirty, told.info.steps) :
                       stepsData /\ ~Resize(dirty, told.info.steps)[i]}
           copy == CopyToWorking(card, infoData, stepsData)
<1>8. /\ copy.card =
           [told EXCEPT !.steps = [i \in DOMAIN @ |-> IF i \in clean THEN card.steps[i] ELSE @[i]]]
      /\ copy.dirty = Resize(dirty, told.info.steps)
  BY Zenon DEF CopyToWorking, known, array, named, sized
<1> HIDE DEF told, clean, copy
<1>9. copy.card.info = told.info /\ IsCopy(copy.card) /\ "known" \in DOMAIN copy.card
  BY <1>7, <1>8 DEF IsCopy
<1> QED
  BY <1>7, <1>8, <1>9 DEF copy

-----------------------------------------------------------------------------
\* The accesses of a write.

\* What is written counts its steps.
LEMMA CardCounts ==
  ASSUME Arrays, Kept, Sound, op # NoOp, op.call \in Writes
  PROVE  /\ Counted(working.info) /\ Counted(Card.info)
         /\ op.call # "Sync" => Counted(integrity.info)
<1>1. Counted(working.info)
  BY DEF Sound, CountedToWrite
<1>2. CASE op.call = "Sync"
  BY <1>1, <1>2 DEF Card
<1>3. CASE op.call = "WriteSafeInfo"
  <2>1. Bytes(integrity.info) = Bytes(working.info)
    BY <1>3 DEF Kept, KeptInfos, MayBeWritten, Same
  <2> QED
    BY <1>1, <1>3, <2>1, SameCounts DEF Card
<1>4. CASE op.call = "WriteSafeStep"
  <2>1. Bytes(integrity.info) = Bytes(TagInfo)
    BY <1>4 DEF Kept, KeptInfos, MayBeWritten, Same
  <2>2. onReader \in Tags
    BY WriteIsKnown DEF Arrays, TagsFit
  <2> QED
    BY <1>1, <1>4, <2>1, <2>2, SameCounts DEF Card, Sound, TagsCounted, TagInfo
<1> QED
  BY <1>2, <1>3, <1>4 DEF Writes

\* A write goes on.
LEMMA WriteStaysSound ==
  ASSUME Arrays, Kept, Sound, Bides, op # NoOp, op.call \in Writes,
         op'.call = op.call, op'.phase \in Phases \ {"info", "steps"}, UNCHANGED <<calls, dirty>>,
         Same(working'.info, working.info), Same(integrity'.info, integrity.info),
         integrity.steps = <<>> => integrity'.steps = <<>>,
         TagsCounted', KnownFits'
  PROVE  Sound'
<1>1. at \notin {"loaded", "poll"} /\ op.call # "LoadData" /\ op.call # "none"
  BY WriteIsKnown
<1>2. /\ Bytes(working'.info) = Bytes(working.info)
      /\ Bytes(integrity'.info) = Bytes(integrity.info)
  BY DEF Same
<1>3. Paired' /\ CountedToWrite'
  BY <1>1, <1>2, SameCounts DEF Sound, Paired, Reads, CountedToWrite
<1>4. CountedWhenLoaded' /\ PhaseFits' /\ MarksFit'
  BY <1>1 DEF Sound, CountedWhenLoaded, Reads, PhaseFits, MarksFit, Bides
<1>5. IdForRecipe'
  BY <1>2, SameCounts DEF Sound, IdForRecipe, Bides
<1> QED
  BY <1>3, <1>4, <1>5 DEF Sound

LEMMA PutCounts ==
  ASSUME Arrays, TagsCounted, NEW s, Put(onReader, s), onReader # NoTag, Counted(Card.info)
  PROVE  TagsCounted'
<1>1. onReader \in Tags /\ DOMAIN tags = Tags
  BY DEF Arrays, TagsFit
<1>2. IsCopy(tags[onReader]) /\ Counted(tags[onReader].info) /\ Full(tags[onReader].steps)
  BY <1>1 DEF Arrays, TagsFit, TagsCounted
<1>3. ASSUME NEW t \in Tags \ {onReader} PROVE tags'[t] = tags[t]
  BY <1>1, <1>3 DEF Put
<1>4. CASE s = 0
  <2>1. tags'[onReader] = [tags[onReader] EXCEPT !.info = Card.info]
    BY <1>1, <1>4 DEF Put
  <2>2. tags'[onReader].info = Card.info /\ tags'[onReader].steps = tags[onReader].steps
    BY <1>2, <2>1 DEF IsCopy
  <2> QED
    BY <1>2, <1>3, <2>2 DEF TagsCounted, Counted
<1>5. CASE s # 0
  <2>1. tags'[onReader] = [tags[onReader] EXCEPT !.steps[s] = Card.steps[s]]
    BY <1>1, <1>5 DEF Put
  <2>2. /\ tags'[onReader].info = tags[onReader].info
        /\ tags'[onReader].steps = [tags[onReader].steps EXCEPT ![s] = Card.steps[s]]
    BY <1>2, <2>1 DEF IsCopy
  <2>3. Full(tags'[onReader].steps)
    <3>1. \A i, x : Full([tags[onReader].steps EXCEPT ![i] = x])
      BY <1>2, FullPut
    <3> QED
      BY <2>2, <3>1
  <2> QED
    BY <1>2, <1>3, <2>2, <2>3 DEF TagsCounted, Counted
<1> QED
  BY <1>4, <1>5

LEMMA AccessStaysSound ==
  ASSUME Arrays, Kept, Sound, Bides, op.call \in Writes,
         Retry \/ Select \/ WriteHead \/ WriteStructure
  PROVE  Sound'
<1>1. op # NoOp /\ UNCHANGED <<cards, calls>>
  BY DEF Retry, Select, WriteHead, WriteStructure, AtTag, Writes, NoOp
<1>2. onReader # NoTag /\ DOMAIN op = WriteFields /\ Counted(Card.info)
      /\ op.phase \in Phases \ {"info", "steps"}
  BY <1>1, WriteIsKnown, CardCounts DEF Sound, PhaseFits
<1>3. op'.call = op.call /\ op'.phase \in Phases \ {"info", "steps"}
  BY <1>2 DEF Retry, Select, WriteHead, WriteStructure, WriteFields, Phases
<1>4. TagsCounted'
  <2>1. CASE UNCHANGED tags
    BY <2>1 DEF Sound, TagsCounted
  <2>2. CASE \E s : Put(onReader, s)
    BY <1>2, <2>2, PutCounts DEF Sound
  <2> QED
    BY <1>2, <2>1, <2>2 DEF Retry, Select, WriteHead, WriteStructure
<1>5. KnownFits' /\ Same(working'.info, working.info) /\ Same(integrity'.info, integrity.info)
  BY <1>1 DEF Sound, KnownFits, cards, Same
<1> QED
  BY <1>1, <1>3, <1>4, <1>5, WriteStaysSound DEF cards

LEMMA SumStaysSound ==
  ASSUME Arrays, Kept, Sound, Bides, Sum, op.call \in Writes
  PROVE  Sound'
<1>1. /\ op # NoOp /\ UNCHANGED <<tags, calls, dirty>>
      /\ SetCard([Card EXCEPT !.info.cs = CheckSum(Card)])
  BY Zenon DEF Sum, AtTag
<1>2. PICK phase \in {"head", "select"} : op' = [op EXCEPT !.phase = phase]
  BY DEF Sum
<1>3. op'.call = op.call /\ op'.phase \in Phases \ {"info", "steps"}
  BY <1>1, <1>2, WriteIsKnown DEF WriteFields, Phases
<1>4. IsCopy(integrity) /\ IsCopy(working)
  BY DEF Arrays
<1>5. Same(working'.info, working.info) /\ Same(integrity'.info, integrity.info)
  <2>1. \A c, x : IsCopy(c) => /\ Same([c EXCEPT !.info.cs = x].info, c.info)
                               /\ Same(c.info, c.info)
    BY SumIsApart DEF IsCopy
  <2> QED
    BY <1>1, <1>4, <2>1 DEF SetCard, Card
<1>6. KnownFits' /\ (integrity.steps = <<>> => integrity'.steps = <<>>)
  <2>1. /\ integrity' = integrity \/ \E x : integrity' = [integrity EXCEPT !.info.cs = x]
        /\ working' = working \/ \E x : working' = [working EXCEPT !.info.cs = x]
    BY <1>1 DEF SetCard, Card
  <2> QED
    BY <1>4, <2>1 DEF Sound, KnownFits, IsCopy
<1>7. TagsCounted'
  BY <1>1 DEF Sound, TagsCounted
<1> QED
  BY <1>1, <1>3, <1>5, <1>6, <1>7, WriteStaysSound

\* The handler rests, or goes on to the next call.
LEMMA WriteEndsSound ==
  ASSUME Arrays, Kept, Sound, Bides, op # NoOp, op.call \in Writes, op' = NoOp,
         UNCHANGED <<tags, calls>>,
         MarksFit', KnownFits', Paired', Counted(working'.info),
         integrity'.info.id \in {integrity.info.id, working.info.id}
  PROVE  Sound'
<1>1. at \notin {"loaded", "poll"} /\ op'.call = "none" /\ Counted(working.info)
  BY WriteIsKnown, CardCounts DEF NoOp
<1>2. CountedToWrite' /\ CountedWhenLoaded' /\ PhaseFits'
  BY <1>1 DEF CountedToWrite, CountedWhenLoaded, Reads, PhaseFits, Bides
<1>3. IdForRecipe' /\ TagsCounted'
  BY <1>1 DEF Sound, IdForRecipe, TagsCounted, Bides, Counted
<1> QED
  BY <1>2, <1>3 DEF Sound

LEMMA GiveUpStaysSound ==
  ASSUME Arrays, Kept, Sound, Bides, GiveUp, op # NoOp, op.call \in {"WriteSafeStep", "Sync"}
  PROVE  Sound'
<1>1. op' = NoOp /\ UNCHANGED <<tags, working, calls, dirty>> /\ op.call \in Writes
  BY DEF GiveUp, Return, Writes
<1>2. integrity' = integrity \/ \E i, x : integrity' = [integrity EXCEPT !.steps[i] = x]
  BY DEF GiveUp
<1>3. integrity'.info = integrity.info /\ (integrity.steps = <<>> => integrity'.steps = <<>>)
  BY <1>2, EmptyStays DEF Arrays, IsCopy
<1>4. KnownFits' /\ MarksFit'
  BY <1>1, <1>2 DEF Sound, KnownFits, MarksFit
<1>5. Paired'
  BY <1>1, <1>3 DEF Sound, Paired, Reads, Writes
<1>6. Counted(working'.info)
  BY <1>1, CardCounts
<1> QED
  BY <1>1, <1>3, <1>4, <1>5, <1>6, WriteEndsSound

LEMMA CompareStaysSound ==
  ASSUME Arrays, Kept, Sound, Bides, Compare
  PROVE  Sound'
<1>1. op # NoOp /\ op.call = "Sync" /\ op.call \in Writes /\ UNCHANGED <<tags, cards, calls>>
  BY DEF Compare, Doing, NoOp, Writes
<1>2. /\ KnownFits' /\ MarksFit' /\ TagsCounted'
      /\ Same(working'.info, working.info) /\ Same(integrity'.info, integrity.info)
  BY <1>1 DEF Sound, KnownFits, MarksFit, TagsCounted, cards, Same
<1>3. CASE op' = NoOp
  <2>1. Paired'
    BY <1>1 DEF Sound, Paired, Reads, cards
  <2>2. Counted(working'.info)
    BY <1>1, CardCounts DEF cards
  <2> QED
    BY <1>1, <1>2, <1>3, <2>1, <2>2, WriteEndsSound DEF cards
<1>4. CASE op' = [op EXCEPT !.phase = "sum"]
  <2>1. op'.call = op.call /\ op'.phase \in Phases \ {"info", "steps"}
    BY <1>1, <1>4, WriteIsKnown DEF WriteFields, Phases
  <2> QED
    BY <1>1, <1>2, <2>1, WriteStaysSound DEF cards
<1> QED
  BY <1>3, <1>4, Zenon DEF Compare, Return

LEMMA SyncRunStaysSound ==
  ASSUME Arrays, Kept, Sound, Bides, SyncRunWritten, op # NoOp
  PROVE  Sound'
<1>1. /\ op.call = "Sync" /\ op.call \in Writes /\ UNCHANGED <<tags, working, calls>>
      /\ integrity' = Written /\ dirty' = Cleared
  BY DEF SyncRunWritten, Writes
<1>2. at \notin {"loaded", "poll"} /\ Counted(working.info)
  BY <1>1, WriteIsKnown, CardCounts
<1> DEFINE sized == ChangeRecipeStepsSize([integrity EXCEPT !.known = TRUE], working.info.steps)
           first == IF op.run.from # 0 THEN integrity ELSE [sized EXCEPT !.info = working.info]
<1>3. IsCopy(integrity) /\ "known" \in DOMAIN integrity
  BY DEF Arrays, Sound, KnownFits
<1>4. IsCopy(sized) /\ "known" \in DOMAIN sized
  <2> DEFINE card == [integrity EXCEPT !.known = TRUE]
  <2>1. IsCopy(card) /\ "known" \in DOMAIN card
    BY <1>3 DEF IsCopy
  <2>2. working.info.steps \in Nat
    BY DEF Arrays, IsCopy, Counts
  <2> HIDE DEF card
  <2>3. IsCopy(ChangeRecipeStepsSize(card, working.info.steps))
        /\ "known" \in DOMAIN ChangeRecipeStepsSize(card, working.info.steps)
    BY <2>1, <2>2, SizeChanged DEF ChangeRecipeStepsSize
  <2> QED
    BY <2>3 DEF card
<1> HIDE DEF sized
<1>5. /\ IsCopy(first) /\ "known" \in DOMAIN first
      /\ first.info = IF op.run.from # 0 THEN integrity.info ELSE working.info
  BY <1>3, <1>4 DEF IsCopy, Arrays
<1>6. integrity' = [first EXCEPT !.steps =
        [i \in DOMAIN @ |-> IF i \in op.run.from .. op.run.to THEN working.steps[i] ELSE @[i]]]
  BY <1>1 DEF Written, sized
<1> HIDE DEF first
<1>7. /\ integrity'.info = (IF op.run.from # 0 THEN integrity.info ELSE working.info)
      /\ KnownFits'
  BY <1>1, <1>5, <1>6 DEF IsCopy, Sound, KnownFits
<1>8. Bytes(working'.info) = Bytes(integrity'.info)
  <2>1. op.run.from = 0 \/ Bytes(working.info) = Bytes(integrity.info)
    BY <1>1 DEF Kept, KeptInfos, MayBeWritten, Same
  <2> QED
    BY <1>1, <1>7, <2>1
<1>9. Paired' /\ MarksFit'
  <2>1. PICK n \in 0 .. MaxSteps : dirty \in [1 .. n -> BOOLEAN]
    BY DEF Sound, MarksFit
  <2>2. dirty' \in [1 .. n -> BOOLEAN]
    BY <1>1, <2>1 DEF Cleared
  <2> QED
    BY <1>8, <2>2 DEF Paired, MarksFit
<1>10. CASE op' = NoOp
  BY <1>1, <1>2, <1>7, <1>9, <1>10, WriteEndsSound
<1>11. CASE op' = Writing("Sync", "sum", FirstOf(op.left), op.left \ {FirstOf(op.left)}, NoOp)
  <2>1. op'.call = "Sync" /\ op'.phase = "sum" /\ op' # NoOp
    BY <1>11 DEF Writing, NoOp
  <2>2. CountedToWrite' /\ CountedWhenLoaded' /\ PhaseFits'
    BY <1>1, <1>2, <2>1 DEF CountedToWrite, CountedWhenLoaded, Reads, PhaseFits, Phases, Bides
  <2>3. IdForRecipe' /\ TagsCounted'
    BY <1>1, <1>2, <1>7 DEF Sound, IdForRecipe, TagsCounted, Bides, Counted
  <2> QED
    BY <1>7, <1>9, <2>2, <2>3 DEF Sound
<1> QED
  BY <1>10, <1>11, Zenon DEF SyncRunWritten, Return

LEMMA SafeWriteStaysSound ==
  ASSUME Arrays, Kept, Sound, Bides, SafeWriteDone, op # NoOp
  PROVE  Sound'
<1>1. /\ op.call \in Writes /\ op.call # "Sync" /\ op' = NoOp /\ UNCHANGED <<tags, calls>>
      /\ integrity' = integrity
      /\ working' = CopyToWorking(integrity, TRUE, op.call = "WriteSafeStep").card
      /\ dirty' = CopyToWorking(integrity, TRUE, op.call = "WriteSafeStep").dirty
  <2>1. Copy(integrity, TRUE, op.call = "WriteSafeStep")
    BY Zenon DEF SafeWriteDone
  <2>2. op.call \in Writes /\ op.call # "Sync" /\ op' = NoOp /\ UNCHANGED <<tags, calls>>
    BY DEF SafeWriteDone, Writes, Return
  <2> QED
    BY <2>1, <2>2, Zenon DEF Copy
<1>2. IsCopy(integrity) /\ KnownFits /\ Counted(integrity.info)
  BY <1>1, CardCounts DEF Arrays, Sound
<1>3. /\ "known" \in DOMAIN working' /\ working'.info = integrity.info
      /\ dirty' = Resize(dirty, integrity.info.steps)
  <2>1. \A b, c : b \/ integrity.known =>
          LET copy == CopyToWorking(integrity, b, c)
          IN /\ "known" \in DOMAIN copy.card
             /\ b => copy.card.info = integrity.info
             /\ copy.dirty = Resize(dirty, integrity.info.steps)
    BY <1>2, CopyCounts
  <2> QED
    BY <1>1, <2>1, Zenon
<1>4. MarksFit'
  BY <1>2, <1>3, MarksResized DEF Counted
<1>5. KnownFits' /\ Paired'
  BY <1>1, <1>2, <1>3 DEF KnownFits, Paired
<1> QED
  BY <1>1, <1>2, <1>3, <1>4, <1>5, WriteEndsSound

\* An info written by itself is not given up.
LEMMA VerifyStaysSound ==
  ASSUME Arrays, Kept, Sound, Bides, Verify
  PROVE  Sound'
<1>1. op # NoOp /\ op.phase = "verify" /\ op.call \in Writes
  BY DEF Verify, AtTag, Kept, KeptHere, Shaped
<1>2. onReader # NoTag
  BY <1>1, WriteIsKnown
<1>3. CASE Retry
  BY <1>1, <1>3, AccessStaysSound
<1>4. CASE SyncRunWritten
  BY <1>1, <1>4, SyncRunStaysSound
<1>5. CASE SafeWriteDone
  BY <1>1, <1>5, SafeWriteStaysSound
<1>6. CASE GiveUp /\ ~SameOnTag(op.run)
  <2>1. ASSUME op.call = "WriteSafeInfo" PROVE SameOnTag(op.run)
    <3>1. op.run = [from |-> 0, to |-> 0] /\ AllBytes(TagInfo) = AllBytes(integrity.info)
      BY <1>1, <2>1 DEF Kept, KeptHere, InfoWritten
    <3>2. Card = integrity /\ op.run.from .. op.run.to = {0}
      BY <2>1, <3>1 DEF Card
    <3> QED
      BY <3>1, <3>2 DEF SameOnTag, TagInfo
  <2> QED
    BY <1>1, <1>6, <2>1, GiveUpStaysSound DEF Writes
<1> QED
  BY <1>2, <1>3, <1>4, <1>5, <1>6 DEF Verify

LEMMA LostStaysSound ==
  ASSUME Arrays, Kept, Sound, Bides, OutOfRange \/ AccessLost
  PROVE  Sound'
<1>1. op # NoOp /\ op.phase \in {"sum", "select", "write"} /\ op.call \in Writes
  BY DEF OutOfRange, AccessLost, AtTag, Kept, KeptHere, Shaped
<1>2. onReader # NoTag
  BY <1>1, WriteIsKnown
<1>3. CASE op.call = "WriteSafeInfo"
  <2>1. op.run.to = 0 /\ (op.phase = "write" => op.sel = onReader)
    BY <1>3 DEF Kept, KeptHere, InfoWritten
  <2>2. ~(op.run.to > Card.info.steps)
    BY <2>1 DEF Arrays, Card, IsCopy, Counts
  <2> QED
    BY <1>2, <2>1, <2>2 DEF OutOfRange, AccessLost, AtTag
<1>4. CASE op.call # "WriteSafeInfo"
  BY <1>1, <1>2, <1>4, GiveUpStaysSound, AccessStaysSound DEF OutOfRange, AccessLost, Writes
<1> QED
  BY <1>3, <1>4

-----------------------------------------------------------------------------
\* The accesses of a load, and the calls.

\* Two copies as the handler leaves them between two calls.
PairOf(intended, read) ==
  \/ Bytes(intended.info) = Bytes(read.info) \/ read.steps = <<>>
  \/ Counted(intended.info) /\ intended.info.actual = 0

\* A load ends, or has to read the steps too.
LEMMA LoadStaysSound ==
  ASSUME Arrays, Kept, Sound, Bides, op.call = "LoadData", UNCHANGED <<tags, calls>>,
         op' = NoOp \/ (op' # NoOp /\ op'.call = "LoadData" /\ op'.phase = "steps"),
         MarksFit', KnownFits', Paired',
         op' = NoOp /\ result'.value = 0 => Counted(working'.info) \/ working'.info.steps = 0,
         op' # NoOp => integrity'.known /\ (op'.needInfo \/ HasSteps(integrity'))
  PROVE  Sound'
<1>1. at = "loaded" /\ raf = "Mimo" /\ calls = <<>>
  <2>1. op # NoOp
    BY DEF NoOp
  <2> QED
    BY <2>1 DEF Kept, KeptHere, InPlace
<1>2. op' = NoOp => op'.call = "none"
  BY DEF NoOp
<1>3. CountedToWrite' /\ PhaseFits' /\ TagsCounted'
  BY <1>1, <1>2, CallsDiffer DEF CountedToWrite, PhaseFits, Phases, Writes, Sound, TagsCounted
<1>4. CountedWhenLoaded' /\ IdForRecipe'
  BY <1>1, <1>2 DEF CountedWhenLoaded, IdForRecipe, Reads, Waits, Bides
<1> QED
  BY <1>3, <1>4 DEF Sound

\* Before a load has read the info, the copies are a pair.
LEMMA LoadFindsPair ==
  ASSUME Kept, Sound, op.call = "LoadData", op.phase = "info" \/ ~op.needInfo
  PROVE  PairOf(working, integrity)
<1>1. calls # InfoThenSync
  <2>1. op # NoOp /\ op.call = "LoadData"
    BY DEF NoOp
  <2> QED
    BY <2>1, CallsDiffer DEF Kept, KeptHere, InPlace
<1>2. ~(Reads /\ op.needInfo)
  BY DEF Reads
<1> QED
  BY <1>1, <1>2 DEF Sound, Paired, PairOf

LEMMA LoadFailsStaysSound ==
  ASSUME Arrays, Kept, Sound, Bides, LoadFails
  PROVE  Sound'
<1>1. /\ op.call = "LoadData" /\ op.phase = "info" /\ UNCHANGED <<tags, working, dirty, calls>>
      /\ op' = NoOp /\ result'.value = 4
      /\ integrity' = integrity \/ integrity' = [integrity EXCEPT !.known = TRUE]
  BY DEF LoadFails, Doing, Return
<1>2. integrity'.info = integrity.info /\ integrity'.steps = integrity.steps /\ KnownFits'
  BY <1>1 DEF Arrays, IsCopy, Sound, KnownFits
<1>3. Paired' /\ MarksFit'
  BY <1>1, <1>2, LoadFindsPair DEF PairOf, Paired, Sound, MarksFit
<1> QED
  BY <1>1, <1>2, <1>3, LoadStaysSound

LEMMA LoadInfoStaysSound ==
  ASSUME Arrays, Kept, Sound, Bides, LoadInfo
  PROVE  Sound'
<1> DEFINE found == tags[onReader].info
           is == IsSameData(found)
           needs == is.newCard \/ ~is.sameInfo
           card == [integrity EXCEPT !.known = TRUE, !.info.batch = found.batch]
           sized == ChangeRecipeStepsSize(card, found.steps)
           new == IF needs THEN [ChangeRecipeStepsSize(card, found.steps) EXCEPT !.info = found]
                  ELSE card
           copy == CopyToWorking(new, needs, FALSE)
<1>1. /\ op.call = "LoadData" /\ op.phase = "info" /\ UNCHANGED <<tags, calls>>
      /\ integrity.info.id = found.id => HasSteps(integrity)
      /\ integrity' = new
      /\ onReader \in Tags
  <2>1. op.call = "LoadData" /\ op.phase = "info" /\ UNCHANGED <<tags, calls>> /\ onReader # NoTag
    BY DEF LoadInfo, Doing
  <2>2. integrity' = new /\ (integrity.info.id = found.id => HasSteps(integrity))
    BY Zenon DEF LoadInfo
  <2> QED
    BY <2>1, <2>2 DEF Arrays, TagsFit
<1>2. \/ /\ working' = Follows(found) /\ dirty' = dirty
         /\ op' = [op EXCEPT !.phase = "steps", !.needInfo = needs]
      \/ /\ working' = IF needs THEN copy.card
                       ELSE [copy.card EXCEPT !.info.batch = Follows(found).info.batch]
         /\ dirty' = copy.dirty /\ op' = NoOp
  BY Zenon DEF LoadInfo, Return
<1>3. Counted(found) /\ Counts(found) /\ found.steps \in Nat
  BY <1>1 DEF Arrays, TagsFit, IsCopy, Counts, Sound, TagsCounted
<1>4. needs <=> (integrity.info.id # found.id \/ Bytes(integrity.info) # Bytes(found))
  BY DEF IsSameData
<1>5. PairOf(working, integrity) /\ IsCopy(working) /\ IsCopy(integrity) /\ KnownFits
  BY <1>1, LoadFindsPair DEF Arrays, Sound
<1>6. /\ IsCopy(card) /\ "known" \in DOMAIN card /\ card.known /\ card.steps = integrity.steps
      /\ Bytes(card.info) = Bytes(integrity.info)
  BY <1>5 DEF KnownFits, IsCopy, Counts, Bytes
<1> HIDE DEF needs, is, card
<1>7. IsCopy(sized) /\ "known" \in DOMAIN sized /\ sized.known
  BY <1>3, <1>6, SizeChanged DEF ChangeRecipeStepsSize
<1>8. (needs => new = [sized EXCEPT !.info = found]) /\ (~needs => new = card)
  OBVIOUS
<1> HIDE DEF sized, new
<1>9. /\ IsCopy(new) /\ "known" \in DOMAIN new /\ new.known
      /\ Bytes(new.info) = Bytes(found) /\ new.info.steps = found.steps
      /\ needs => new.info = found
      /\ ~needs => new.steps = integrity.steps
  <2>1. CASE needs
    BY <1>3, <1>7, <1>8, <2>1 DEF IsCopy
  <2>2. CASE ~needs
    <3>1. Bytes(integrity.info) = Bytes(found)
      BY <1>4, <2>2
    <3> QED
      BY <1>6, <1>8, <2>2, <3>1, SameCounts
  <2> QED
    BY <2>1, <2>2
<1>10. ~needs => /\ Bytes(integrity.info) = Bytes(found) /\ HasSteps(integrity)
                 /\ integrity.steps = <<>> => found.steps = 0
  <2>1. ASSUME ~needs PROVE Bytes(integrity.info) = Bytes(found) /\ integrity.info.id = found.id
    BY <1>4, <2>1
  <2>2. ASSUME ~needs, integrity.steps = <<>> PROVE found.steps = 0
    <3>1. integrity.info.steps <= 0 /\ integrity.info.steps = found.steps
      BY <1>1, <2>1, <2>2 DEF HasSteps, Bytes
    <3> QED
      BY <1>3, <3>1
  <2> QED
    BY <1>1, <2>1, <2>2
<1> HIDE DEF found
<1>11. /\ IsCopy(Follows(found)) /\ "known" \in DOMAIN Follows(found)
       /\ Bytes(Follows(found).info) = Bytes(working.info)
  BY <1>5 DEF Follows, IsCopy, Counts, KnownFits, Bytes
<1>12. CASE /\ working' = Follows(found) /\ dirty' = dirty
            /\ op' = [op EXCEPT !.phase = "steps", !.needInfo = needs]
  <2>1. op' # NoOp /\ op'.call = "LoadData" /\ op'.phase = "steps" /\ (op'.needInfo <=> needs)
    <3>1. DOMAIN op = {"call", "phase", "needInfo"}
      BY <1>1 DEF Kept, KeptHere, Shaped, Writes, NoOp
    <3>2. op'.call = "LoadData" /\ op'.phase = "steps" /\ (op'.needInfo <=> needs)
      BY <1>1, <1>12, <3>1
    <3> QED
      BY <3>2 DEF NoOp
  <2>2. MarksFit' /\ KnownFits'
    BY <1>1, <1>9, <1>11, <1>12 DEF Sound, MarksFit, KnownFits
  <2>3. Paired'
    <3>1. CASE needs
      BY <2>1, <3>1 DEF Paired, Reads
    <3>2. CASE ~needs
      <4>1. /\ Bytes(working'.info) = Bytes(working.info)
            /\ Bytes(integrity'.info) = Bytes(integrity.info) /\ integrity'.steps = integrity.steps
        BY <1>1, <1>9, <1>10, <1>11, <1>12, <3>2
      <4> QED
        BY <1>5, <4>1, SameCounts DEF PairOf, Paired
    <3> QED
      BY <3>1, <3>2
  <2>4. ~needs => HasSteps(integrity')
    <3>1. ASSUME ~needs PROVE HasSteps(integrity')
      <4>1. integrity'.steps = integrity.steps /\ integrity'.info.steps = integrity.info.steps
        BY <1>1, <1>9, <1>10, <3>1, SameCounts
      <4> QED
        BY <1>10, <3>1, <4>1 DEF HasSteps
    <3> QED
      BY <3>1
  <2> QED
    BY <1>1, <1>9, <2>1, <2>2, <2>3, <2>4, LoadStaysSound
<1>13. CASE /\ working' = IF needs THEN copy.card
                          ELSE [copy.card EXCEPT !.info.batch = Follows(found).info.batch]
            /\ dirty' = copy.dirty /\ op' = NoOp
  <2>1. /\ IsCopy(copy.card) /\ "known" \in DOMAIN copy.card
        /\ needs => copy.card.info = new.info
        /\ copy.card.info.steps = found.steps
        /\ ~needs => copy.card.info.id = working.info.id
                              /\ copy.card.info.actual = working.info.actual
        /\ copy.dirty = Resize(dirty, found.steps)
        /\ ~needs /\ working.info.steps = found.steps => copy.card.info = working.info
    <3>1. \A b, c : LET other == CopyToWorking(new, b, c)
                    IN /\ IsCopy(other.card) /\ "known" \in DOMAIN other.card
                       /\ b => other.card.info = new.info
                       /\ other.card.info.steps = new.info.steps
                       /\ ~b => /\ other.card.info.id = working.info.id
                                /\ other.card.info.actual = working.info.actual
                       /\ other.dirty = Resize(dirty, new.info.steps)
      BY <1>5, <1>9, CopyCounts
    <3>2. \A b, c : LET other == CopyToWorking(new, b, c)
                    IN ~b /\ working.info.steps = new.info.steps => other.card.info = working.info
      BY <1>9, CopiedInfo
    <3> QED
      BY <1>9, <3>1, <3>2, Zenon
  <2> HIDE DEF copy
  <2>2. /\ "known" \in DOMAIN working' /\ working'.info.id = copy.card.info.id
        /\ working'.info.steps = copy.card.info.steps
        /\ working'.info.actual = copy.card.info.actual
        /\ Bytes(working'.info) = Bytes(copy.card.info)
    BY <1>13, <2>1 DEF IsCopy, Counts, Bytes
  <2>3. MarksFit' /\ KnownFits'
    BY <1>1, <1>3, <1>9, <1>13, <2>1, <2>2, MarksResized DEF Counted, KnownFits
  <2>4. Paired' /\ (Counted(working'.info) \/ working'.info.steps = 0)
    <3>1. CASE needs
      <4>1. Bytes(working'.info) = Bytes(integrity'.info) /\ Bytes(working'.info) = Bytes(found)
        BY <1>1, <1>9, <2>1, <2>2, <3>1
      <4> QED
        BY <1>3, <4>1, SameCounts DEF Paired
    <3>2. CASE ~needs /\ Bytes(working.info) = Bytes(integrity.info)
      <4>1. working.info.steps = found.steps /\ Bytes(working.info) = Bytes(found)
        BY <1>10, <3>2, SameCounts
      <4>2. Bytes(working'.info) = Bytes(found) /\ Bytes(integrity'.info) = Bytes(found)
        BY <1>1, <1>9, <2>1, <2>2, <3>2, <4>1
      <4> QED
        BY <1>3, <4>2, SameCounts DEF Paired
    <3>3. CASE ~needs /\ integrity.steps = <<>>
      BY <1>1, <1>9, <1>10, <2>1, <2>2, <3>3 DEF Paired
    <3>4. CASE ~needs /\ Counted(working.info) /\ working.info.actual = 0
      BY <1>3, <2>1, <2>2, <3>4 DEF Paired, Counted
    <3> QED
      BY <1>5, <3>1, <3>2, <3>3, <3>4 DEF PairOf
  <2> QED
    BY <1>1, <1>13, <2>3, <2>4, LoadStaysSound
<1> QED
  BY <1>2, <1>12, <1>13

LEMMA LoadStepsStaysSound ==
  ASSUME Arrays, Kept, Sound, Bides, LoadSteps
  PROVE  Sound'
<1>1. /\ op.call = "LoadData" /\ op.phase = "steps" /\ UNCHANGED <<tags, calls>>
      /\ op' = NoOp /\ Reads /\ op # NoOp
  <2>1. op.call = "LoadData" /\ op.phase = "steps" /\ UNCHANGED <<tags, calls>>
    BY DEF LoadSteps, Doing
  <2>2. op' = NoOp
    BY Zenon DEF LoadSteps, Return
  <2> QED
    BY <2>1, <2>2 DEF NoOp, Reads
<1>2. onReader \in Tags
  BY <1>1 DEF Kept, KeptHere, Stands, Waits, Arrays, TagsFit
<1>3. Bytes(integrity.info) = Bytes(TagInfo) /\ Counted(integrity.info)
  <2>1. Bytes(integrity.info) = Bytes(TagInfo)
    BY <1>1 DEF Kept, KeptInfos, Agreed, Same
  <2> QED
    BY <1>2, <2>1, SameCounts DEF TagInfo, Sound, TagsCounted
<1>4. IsCopy(integrity) /\ KnownFits /\ integrity.known /\ (op.needInfo \/ HasSteps(integrity))
  BY <1>1 DEF Arrays, Sound, CountedWhenLoaded
<1>5. op.needInfo \/ PairOf(working, integrity)
  BY <1>1, LoadFindsPair
<1>6. CASE ~integrity.created
  <2>1. UNCHANGED <<integrity, working, dirty>> /\ result' = [call |-> op.call, value |-> 5]
    BY <1>6, Zenon DEF LoadSteps, cards, Return
  <2>2. integrity.steps = <<>>
    BY <1>6 DEF Kept, KeptInfos, ArrayMade, IsMade
  <2>3. MarksFit' /\ KnownFits' /\ Paired' /\ result'.value # 0
    BY <2>1, <2>2 DEF Sound, MarksFit, KnownFits, Paired
  <2> QED
    BY <1>1, <2>3, LoadStaysSound
<1>7. CASE integrity.created
  <2> DEFINE read == StepsRead
             copy == CopyToWorking(read, op.needInfo, TRUE)
  <2>1. integrity' = read /\ working' = copy.card /\ dirty' = copy.dirty
    <3>1. onReader # NoTag
      BY <1>2, TagsAssumption
    <3> QED
      BY <3>1, <1>7, Zenon DEF LoadSteps, Copy
  <2>2. /\ IsCopy(read) /\ read.info = integrity.info /\ read.known /\ "known" \in DOMAIN read
        /\ integrity.info.steps = 0 => read.steps = <<>>
    <3>1. \A x : LET filled == [integrity EXCEPT !.steps = x, !.loaded = TRUE]
                 IN /\ IsCopy(filled) /\ filled.info = integrity.info /\ filled.known
                    /\ "known" \in DOMAIN filled /\ filled.steps = x
      BY <1>4 DEF IsCopy, KnownFits
    <3>2. StepsRead.steps = [i \in 1 .. integrity.info.steps |-> tags[onReader].steps[i]]
      BY <1>4 DEF StepsRead, IsCopy
    <3>3. integrity.info.steps = 0 => StepsRead.steps = <<>>
      BY <3>2
    <3> QED
      BY <3>1, <3>3 DEF StepsRead
  <2> HIDE DEF read
  <2>3. /\ "known" \in DOMAIN copy.card
        /\ op.needInfo => copy.card.info = integrity.info
        /\ copy.card.info.steps = integrity.info.steps
        /\ ~op.needInfo => /\ copy.card.info.id = working.info.id
                           /\ copy.card.info.actual = working.info.actual
        /\ copy.dirty = Resize(dirty, integrity.info.steps)
        /\ ~op.needInfo /\ working.info.steps = integrity.info.steps =>
             copy.card.info = working.info
    <3>1. \A b, c : LET other == CopyToWorking(read, b, c)
                    IN /\ "known" \in DOMAIN other.card
                       /\ b => other.card.info = integrity.info
                       /\ other.card.info.steps = integrity.info.steps
                       /\ ~b => /\ other.card.info.id = working.info.id
                                /\ other.card.info.actual = working.info.actual
                       /\ other.dirty = Resize(dirty, integrity.info.steps)
      BY <1>4, <2>2, CopyCounts
    <3>2. \A b, c : LET other == CopyToWorking(read, b, c)
                    IN ~b /\ working.info.steps = integrity.info.steps =>
                         other.card.info = working.info
      BY <2>2, CopiedInfo
    <3> QED
      BY <3>1, <3>2, Zenon
  <2> HIDE DEF copy
  <2>4. MarksFit' /\ KnownFits'
    BY <1>3, <2>1, <2>2, <2>3, MarksResized DEF Counted, KnownFits
  <2>5. Paired' /\ (Counted(working'.info) \/ working'.info.steps = 0)
    <3>1. CASE op.needInfo
      BY <1>3, <2>1, <2>2, <2>3, <3>1 DEF Paired
    <3>2. CASE ~op.needInfo /\ Bytes(working.info) = Bytes(integrity.info)
      <4>1. working'.info = working.info
        BY <2>1, <2>3, <3>2, SameCounts
      <4> QED
        BY <1>3, <2>1, <2>2, <3>2, <4>1, SameCounts DEF Paired
    <3>3. CASE ~op.needInfo /\ integrity.steps = <<>>
      <4>1. integrity.info.steps = 0
        BY <1>3, <1>4, <3>3 DEF HasSteps, Counted
      <4> QED
        BY <2>1, <2>2, <2>3, <4>1 DEF Paired
    <3>4. CASE ~op.needInfo /\ Counted(working.info) /\ working.info.actual = 0
      BY <1>3, <2>1, <2>3, <3>4 DEF Paired, Counted
    <3> QED
      BY <1>5, <3>1, <3>2, <3>3, <3>4 DEF PairOf
  <2> QED
    BY <1>1, <2>4, <2>5, LoadStaysSound
<1> QED
  BY <1>6, <1>7

\* The next call begins.
LEMMA StartCallStaysSound ==
  ASSUME Arrays, Kept, Sound, Bides, StartCall
  PROVE  Sound'
<1>1. /\ op = NoOp /\ calls # <<>> /\ calls' = Tail(calls) /\ UNCHANGED <<tags, working, dirty>>
      /\ StartLoad \/ StartWriteSafeInfo \/ StartWriteSafeStep \/ StartSync
  BY DEF StartCall, StartLoad, StartWriteSafeInfo, StartWriteSafeStep, StartSync, cards
<1>2. calls \in {<<"LoadData">>, InfoThenSync, StepThenSync, <<"Sync">>} /\ at # "poll"
  BY <1>1 DEF Kept, KeptHere, InPlace, Waits
<1>3. calls' \in {<<>>, <<"Sync">>} /\ (Head(calls) \in {"LoadData", "Sync"} => calls' = <<>>)
  BY <1>1, <1>2, CallsDiffer
<1>4. Head(calls) \in Writes => at # "loaded" /\ Counted(working.info)
  BY <1>1, <1>2, CallsDiffer DEF Writes, Kept, KeptHere, InPlace, Sound, CountedToWrite
<1>5. op'.call = Head(calls) /\ op' # NoOp /\ op'.phase \in Phases \ {"steps"}
  <2>1. CASE StartLoad
    BY <2>1 DEF StartLoad, LoadData, NoOp, Phases
  <2>2. CASE StartWriteSafeInfo \/ StartWriteSafeStep \/ StartSync
    <3>1. \E phase \in {"sum", "compare"} : \E run, left, saved :
            op' = Writing(Head(calls), phase, run, left, saved)
      BY <2>2, Zenon DEF StartWriteSafeInfo, StartWriteSafeStep, StartSync
    <3> QED
      BY <3>1 DEF Writing, NoOp, Phases
  <2> QED
    BY <1>1, <2>1, <2>2
<1>6. Head(calls) \in {"LoadData"} \cup Writes
  BY <1>1 DEF StartLoad, StartWriteSafeInfo, StartWriteSafeStep, StartSync, Writes
<1>7. /\ KnownFits'
      /\ integrity.steps = <<>> => integrity'.steps = <<>>
      /\ integrity'.info = integrity.info
         \/ (Head(calls) = "WriteSafeInfo" /\ integrity'.info = working.info)
  <2>1. IsCopy(integrity) /\ KnownFits
    BY DEF Arrays, Sound
  <2>2. CASE StartLoad \/ StartSync
    BY <1>1, <2>1, <2>2 DEF StartLoad, StartSync, cards, KnownFits
  <2>3. CASE StartWriteSafeInfo
    BY <1>1, <2>1, <2>3 DEF StartWriteSafeInfo, KnownFits, IsCopy
  <2>4. CASE StartWriteSafeStep
    <3>1. Head(calls) = "WriteSafeStep"
          /\ \E i, x : integrity' = [integrity EXCEPT !.steps[i] = x]
      BY <2>4 DEF StartWriteSafeStep
    <3> QED
      BY <1>1, <2>1, <3>1, EmptyStays DEF KnownFits, IsCopy
  <2> QED
    BY <1>1, <2>2, <2>3, <2>4
<1>8. Paired'
  <2>1. CASE Head(calls) = "WriteSafeInfo" /\ integrity'.info = working.info
    BY <1>1, <2>1 DEF Paired
  <2>2. CASE integrity'.info = integrity.info /\ Head(calls) # "WriteSafeInfo"
    <3>1. calls # InfoThenSync /\ ~Reads
      BY <1>1, <2>2, CallsDiffer DEF Reads, NoOp
    <3> QED
      BY <1>1, <1>7, <2>2, <3>1 DEF Sound, Paired
  <2>3. Head(calls) = "WriteSafeInfo" => integrity'.info = working.info
    <3>1. ASSUME Head(calls) = "WriteSafeInfo" PROVE integrity'.info = working.info
      <4>1. StartWriteSafeInfo
        BY <1>1, <3>1 DEF StartLoad, StartWriteSafeStep, StartSync
      <4> QED
        BY <4>1 DEF StartWriteSafeInfo, Arrays, IsCopy
    <3> QED
      BY <3>1
  <2> QED
    BY <1>7, <2>1, <2>2, <2>3
<1>9. CountedToWrite'
  <2>1. ASSUME op'.call \in Writes \/ calls' \in {InfoThenSync, StepThenSync, <<"Sync">>}
        PROVE  Head(calls) \in Writes
    BY <1>3, <1>5, <1>6, <2>1, CallsDiffer DEF Writes
  <2> QED
    BY <1>1, <1>4, <2>1 DEF CountedToWrite
<1>10. CountedWhenLoaded' /\ IdForRecipe'
  BY <1>1, <1>2, <1>4, <1>5, <1>6, <1>7
     DEF CountedWhenLoaded, Reads, Waits, Bides, Sound, IdForRecipe, Writes, Counted
<1>11. TagsCounted' /\ MarksFit' /\ PhaseFits'
  BY <1>1, <1>5 DEF Sound, TagsCounted, MarksFit, PhaseFits
<1> QED
  BY <1>7, <1>8, <1>9, <1>10, <1>11 DEF Sound

\* The reader goes on, or stands still, with the copies and the tags as they were.
LEMMA StillSound ==
  ASSUME Sound, UNCHANGED <<tags, integrity, working, dirty, op>>,
         calls' = calls \/ (calls = <<>> /\ calls' = <<"LoadData">>),
         at' \in {"loaded", "poll"} => \/ (at' = at /\ UNCHANGED <<calls, result>>)
                                     \/ (at' = "loaded" /\ calls' # <<>>),
         raf' \in {"Konec", "Novy"} => raf' = raf \/ integrity.info.id \in IdsOnTags
  PROVE  Sound'
<1>1. TagsCounted' /\ MarksFit' /\ KnownFits' /\ PhaseFits'
  BY DEF Sound, TagsCounted, MarksFit, KnownFits, PhaseFits
<1>2. Paired' /\ CountedToWrite'
  BY CallsDiffer DEF Sound, Paired, Reads, CountedToWrite
<1>3. CountedWhenLoaded' /\ IdForRecipe'
  BY DEF Sound, CountedWhenLoaded, Reads, Waits, IdForRecipe
<1> QED
  BY <1>1, <1>2, <1>3 DEF Sound

\* The handler works, wherever the reader is.
LEMMA HandlerStaysSound ==
  ASSUME Arrays, Kept, Sound, HandlerWorks
  PROVE  Sound'
<1>1. Bides
  BY DEF HandlerWorks, HandlerStep, Bides, StartCall, LoadFails, LoadInfo, LoadSteps, Sum,
         OutOfRange, GiveUp, WriteHead, Select, WriteStructure, AccessLost, Verify, Retry,
         SyncRunWritten, SafeWriteDone, Compare, MissingArray, MissingArrayAtStart, Panic
<1>2. CASE Sum \/ WriteHead \/ Select \/ WriteStructure
  <2>1. op # NoOp /\ op.phase \in {"sum", "head", "select", "write"}
    BY <1>2 DEF Sum, WriteHead, Select, WriteStructure, AtTag
  <2>2. op.call \in Writes
    BY <2>1 DEF Kept, KeptHere, Shaped
  <2> QED
    BY <1>1, <1>2, <2>2, SumStaysSound, AccessStaysSound
<1>3. CASE MissingArray \/ MissingArrayAtStart
  <2>1. UNCHANGED <<tags, integrity, working, dirty, calls, op, result, raf, at>>
    BY <1>1, <1>3 DEF MissingArray, MissingArrayAtStart, Panic, Bides, cards
  <2> QED
    BY <2>1, StillSound DEF Sound, IdForRecipe
<1> QED
  BY <1>1, <1>2, <1>3, StartCallStaysSound, LoadFailsStaysSound, LoadInfoStaysSound,
     LoadStepsStaysSound, LostStaysSound, VerifyStaysSound, CompareStaysSound
     DEF HandlerWorks, HandlerStep

-----------------------------------------------------------------------------
\* The steps of the reader.

\* A tag whose recipe is gone through counts its steps, in both copies.
LEMMA LoadedCounts ==
  ASSUME Arrays, Kept, Sound, Loaded
  PROVE  Waits /\ integrity.info.id \in IdsOnTags /\ (~IsRecipeEmpty => Counted(working.info))
<1>1. Waits /\ at = "loaded" /\ result.value = 0
  BY DEF Loaded, Ready, HandlerIdle, Waits
<1>2. onReader \in Tags /\ Bytes(integrity.info) = Bytes(TagInfo)
  BY <1>1, RestedIsSettled DEF Agree, Same, Arrays, TagsFit
<1>3. integrity.info.id \in IdsOnTags
  BY <1>2, SameCounts DEF Sound, TagsCounted, TagInfo, Counted
<1>4. ~IsRecipeEmpty => Counted(working.info)
  BY <1>1 DEF Sound, CountedWhenLoaded, IsRecipeEmpty, Info
<1> QED
  BY <1>1, <1>3, <1>4

LEMMA QuietStaysSound ==
  ASSUME Arrays, Kept, Sound,
         \/ Gone \/ LoadFailed \/ EmptyTag \/ Rescan \/ LocalRefused \/ PostStep \/ GateBlocked
         \/ KonecReceptu \/ TargetRefused \/ TransportFailed \/ TransportStarted
         \/ RecipeFinished /\ Info.done
  PROVE  Sound'
<1>1. UNCHANGED <<tags, integrity, working, dirty, op, calls>> /\ at' = "loop"
  BY DEF Gone, LoadFailed, EmptyTag, Rescan, LocalRefused, PostStep, GateBlocked, KonecReceptu,
         TargetRefused, TransportFailed, TransportStarted, RecipeFinished, KeepHandler, Loop,
         hVars, cards
<1>2. raf' \in {"Konec", "Novy"} => integrity.info.id \in IdsOnTags
  <2>1. CASE RecipeFinished
    BY <2>1, LoadedCounts DEF RecipeFinished, Reported
  <2>2. CASE KonecReceptu
    BY <2>2 DEF KonecReceptu, Enters, Ready, Sound, IdForRecipe
  <2>3. CASE ~RecipeFinished /\ ~KonecReceptu
    BY <2>3 DEF Gone, LoadFailed, EmptyTag, Rescan, LocalRefused, PostStep, GateBlocked,
         TargetRefused, TransportFailed, TransportStarted, Loop
  <2> QED
    BY <2>1, <2>2, <2>3
<1> QED
  BY <1>1, <1>2, StillSound

\* The reader begins to load, or to wait for a step that is left to be done.
LEMMA PollStaysSound ==
  ASSUME Arrays, Kept, Sound, MimoPolozena \/ LocalReserved \/ LocalMarked
  PROVE  Sound'
<1>1. CASE MimoPolozena
  <2>1. /\ UNCHANGED <<tags, integrity, working, dirty, op, raf>>
        /\ calls = <<>> /\ calls' = <<"LoadData">> /\ at' = "loaded" /\ raf = "Mimo"
    BY <1>1 DEF MimoPolozena, Enters, Ready, HandlerIdle, Calls, cards
  <2> QED
    BY <2>1, CallsDiffer, StillSound
<1>2. CASE LocalReserved \/ LocalMarked
  <2>1. /\ UNCHANGED <<tags, integrity, working, dirty, op, calls, raf>> /\ at' = "poll"
        /\ Loaded /\ ~IsRecipeEmpty /\ ~Finished
    BY <1>2 DEF LocalReserved, LocalMarked, Decide, Reported, hVars, cards
  <2>2. Counted(working.info) /\ Waits /\ working.info.actual < working.info.steps
    BY <2>1, LoadedCounts DEF Finished, Info, Counted
  <2>3. TagsCounted' /\ MarksFit' /\ KnownFits' /\ PhaseFits' /\ IdForRecipe'
    BY <2>1 DEF Sound, TagsCounted, MarksFit, KnownFits, PhaseFits, IdForRecipe
  <2>4. Paired' /\ CountedToWrite' /\ CountedWhenLoaded'
    BY <2>1, <2>2 DEF Sound, Paired, Reads, CountedToWrite, CountedWhenLoaded, Waits, NoOp
  <2> QED
    BY <2>3, <2>4 DEF Sound
<1> QED
  BY <1>1, <1>2

\* working is changed, and is to be written.
LEMMA ToWriteSound ==
  ASSUME Arrays, Kept, Sound, Waits, op' = op, tags' = tags, MarksFit', KnownFits', Paired',
         Counted(working'.info), integrity'.info = integrity.info,
         calls' \in {InfoThenSync, StepThenSync, <<"Sync">>}, at' # "poll",
         raf' \in {"Konec", "Novy"} => integrity.info.id \in IdsOnTags
  PROVE  Sound'
<1>1. op'.call = "none" /\ op' = NoOp /\ calls' # <<>>
  BY CallsDiffer DEF Waits, NoOp
<1>2. TagsCounted' /\ PhaseFits' /\ IdForRecipe'
  BY <1>1 DEF Sound, TagsCounted, PhaseFits, IdForRecipe
<1>3. CountedToWrite' /\ CountedWhenLoaded'
  BY <1>1 DEF CountedToWrite, CountedWhenLoaded, Reads, Waits
<1> QED
  BY <1>2, <1>3 DEF Sound

LEMMA WriteBackStaysSound ==
  ASSUME Arrays, Kept, Sound,
         \/ ReportRefused \/ CompletionFailed \/ CompletionOk
         \/ RecipeFinished /\ ~Info.done
  PROVE  Sound'
<1>1. /\ Waits /\ UNCHANGED <<tags, integrity, op>> /\ calls' = InfoThenSync
      /\ at' \in {"loop", "written"} /\ Paired'
  BY DEF ReportRefused, CompletionFailed, CompletionOk, RecipeFinished, Reported, Loaded, Ready,
     HandlerIdle, Waits, MarkDone, Loop, KeepTag, Calls, InfoThenSync, Paired
<1>2. IsCopy(working) /\ KnownFits
  BY DEF Arrays, Sound
<1>3. CASE CompletionOk
  <2>1. /\ working' = Advance /\ dirty' = WriteStep(working, Current)
        /\ raf' = "Mimo" /\ at = "poll"
    BY <1>3 DEF CompletionOk, Ready, Calls
  <2>2. Counted(working.info) /\ working.info.actual < working.info.steps
    BY <2>1 DEF Sound, CountedWhenLoaded
  <2>3. Counted(working'.info) /\ KnownFits'
    <3>1. PICK i, x : working' = [working EXCEPT !.steps[i].done = TRUE,
                                                 !.info.actual = working.info.actual + 1,
                                                 !.info.done = x]
      BY <2>1, Zenon DEF Advance, Current, Info
    <3>2. /\ "known" \in DOMAIN working' /\ working'.info.id = working.info.id
          /\ working'.info.steps = working.info.steps
          /\ working'.info.actual = working.info.actual + 1
      BY <1>2, <3>1 DEF IsCopy, Counts, KnownFits
    <3> QED
      BY <1>1, <1>2, <2>2, <3>2 DEF Counted, KnownFits
  <2>4. MarksFit'
    <3>1. working.info.steps \in Nat /\ working.info.steps \in 0 .. MaxSteps
      BY <2>2, MaxStepsAssumption DEF Counted
    <3>2. Resize(dirty, working.info.steps) \in [1 .. working.info.steps -> BOOLEAN]
      BY <3>1, ResizeKeeps
    <3>3. dirty' \in [1 .. working.info.steps -> BOOLEAN]
      BY <2>1, <3>2 DEF WriteStep
    <3> QED
      BY <3>1, <3>3 DEF MarksFit
  <2> QED
    BY <1>1, <2>1, <2>3, <2>4, ToWriteSound
<1>4. CASE ~CompletionOk
  <2>1. /\ working' = [working EXCEPT !.info.done = TRUE] /\ dirty' = dirty /\ at' = "loop"
        /\ raf' \in {"Mimo", "Konec"} /\ (raf' = "Konec" => RecipeFinished)
    BY <1>4 DEF ReportRefused, CompletionFailed, RecipeFinished, MarkDone, Loop
  <2>2. Counted(working.info)
    <3>1. CASE CompletionFailed
      BY <3>1 DEF CompletionFailed, Ready, Sound, CountedWhenLoaded
    <3>2. CASE ReportRefused \/ RecipeFinished
      BY <3>2, LoadedCounts DEF ReportRefused, RecipeFinished, Reported
    <3> QED
      BY <1>4, <3>1, <3>2
  <2>3. Counted(working'.info) /\ KnownFits' /\ MarksFit'
    BY <1>1, <1>2, <2>1, <2>2 DEF Counted, IsCopy, Counts, KnownFits, Sound, MarksFit
  <2>4. raf' \in {"Konec", "Novy"} => integrity.info.id \in IdsOnTags
    BY <2>1, LoadedCounts DEF RecipeFinished, Reported
  <2> QED
    BY <1>1, <2>1, <2>3, <2>4, ToWriteSound
<1> QED
  BY <1>3, <1>4

LEMMA TargetReservedStaysSound ==
  ASSUME Arrays, Kept, Sound, TargetReserved
  PROVE  Sound'
<1>1. /\ Waits /\ UNCHANGED <<tags, integrity, op, dirty>> /\ calls' = StepThenSync
      /\ at' = "gate" /\ raf = "Mimo" /\ raf' = "Mimo" /\ Loaded /\ ~IsRecipeEmpty
      /\ calls = <<>> /\ op = NoOp
  BY DEF TargetReserved, Decide, Reported, Loaded, Ready, HandlerIdle, Waits, KeepTag, Calls,
     StepThenSync
<1>2. working'.info = working.info /\ KnownFits'
  <2>1. \E i, x : working' = [working EXCEPT !.steps[i].reserved = x]
    BY DEF TargetReserved
  <2> QED
    BY <1>1, <2>1 DEF Arrays, IsCopy, Sound, KnownFits
<1>3. Counted(working'.info) /\ MarksFit'
  BY <1>1, <1>2, LoadedCounts DEF Sound, MarksFit
<1>4. Paired'
  BY <1>1, <1>2, CallsDiffer DEF Sound, Paired, Reads, NoOp
<1> QED
  BY <1>1, <1>2, <1>3, <1>4, ToWriteSound

LEMMA NewRecipeCounts ==
  ASSUME NEW owners \in Seq(UInt16), Len(owners) <= MaxSteps, NEW id \in IdsOnTags
  PROVE  LET new == [NewRecipe(owners) EXCEPT !.info.id = id]
         IN /\ Counted(new.info) /\ new.info.actual = 0 /\ "known" \in DOMAIN new
            /\ Counted(NewRecipe(owners).info) /\ NewRecipe(owners).info.actual = 0
            /\ "known" \in DOMAIN NewRecipe(owners)
<1>1. 0 \in IdsOnTags /\ Len(owners) \in 0 .. MaxSteps
  BY DEF IdsOnTags
<1>2. \E x : NewRecipe(owners).info =
        [[noInfo EXCEPT !.steps = Len(owners), !.batch = batches + 1] EXCEPT !.cs = x]
  BY DEF NewRecipe, GetCardInfoByNumber
<1>3. /\ NewRecipe(owners).info.steps = Len(owners) /\ NewRecipe(owners).info.actual = 0
      /\ NewRecipe(owners).info.id = 0
      /\ {"id", "steps", "actual"} \subseteq DOMAIN NewRecipe(owners).info
  BY <1>2 DEF noInfo
<1>4. {"info", "known"} \subseteq DOMAIN NewRecipe(owners)
  BY DEF NewRecipe, GetCardInfoByNumber
<1> QED
  BY <1>1, <1>3, <1>4 DEF Counted

LEMMA NewRecipeStaysSound ==
  ASSUME Arrays, Kept, Sound, Presun \/ NovyRecept
  PROVE  Sound'
<1>1. /\ Waits /\ op' = op /\ tags' = tags /\ calls' = <<"Sync">> /\ raf' = "Mimo" /\ at' = "loop"
  BY DEF Presun, NovyRecept, Enters, Ready, HandlerIdle, Waits, Loop, KeepTag
<1>2. CASE Presun
  <2>1. /\ integrity' = InitTCardInfo(integrity.info)
        /\ working' = [NewRecipe(ToStorage) EXCEPT !.info.id = 1]
        /\ dirty' = [i \in 1 .. Len(ToStorage) |-> TRUE]
    BY <1>2 DEF Presun
  <2>2. ToStorage \in Seq(UInt16) /\ Len(ToStorage) \in 0 .. MaxSteps /\ 1 \in IdsOnTags
    BY RecipesAssumption, MaxStepsAssumption DEF IdsOnTags
  <2>3. Counted(working'.info) /\ "known" \in DOMAIN working'
    BY <2>1, <2>2, NewRecipeCounts
  <2>4. /\ integrity'.info = integrity.info /\ integrity'.steps = <<>>
        /\ "known" \in DOMAIN integrity'
    BY <2>1 DEF InitTCardInfo
  <2>5. Paired' /\ KnownFits' /\ MarksFit'
    BY <2>1, <2>2, <2>3, <2>4 DEF Paired, KnownFits, MarksFit
  <2> QED
    BY <1>1, <2>3, <2>4, <2>5, ToWriteSound
<1>3. CASE NovyRecept
  <2>1. PICK n \in DOMAIN Recipes :
          AddCardInfoToWorking(NewRecipe(Recipes[n])) /\ integrity' = integrity /\ raf = "Novy"
    <3> DEFINE number == IF receiptCounter >= Len(Recipes) THEN 0 ELSE receiptCounter
    <3>1. /\ AddCardInfoToWorking(NewRecipe(Recipes[number + 1]))
          /\ integrity' = integrity /\ raf = "Novy"
      BY <1>3, Zenon DEF NovyRecept, KeepTag, Enters, Ready
    <3>2. Len(Recipes) \in Nat \ {0} /\ DOMAIN Recipes = 1 .. Len(Recipes)
      BY RecipesAssumption
    <3>3. number + 1 \in DOMAIN Recipes
      BY <3>2 DEF Arrays
    <3> HIDE DEF number
    <3> QED
      BY <3>1, <3>3
  <2> DEFINE new == NewRecipe(Recipes[n])
  <2>2. /\ working' = IF integrity.known THEN [new EXCEPT !.info.id = integrity.info.id] ELSE new
        /\ dirty' = [i \in 1 .. new.info.steps |-> TRUE]
    BY <2>1, Zenon DEF AddCardInfoToWorking
  <2>3. Recipes[n] \in Seq(UInt16) /\ Len(Recipes[n]) <= MaxSteps
    BY RecipesAssumption
  <2>4. integrity.info.id \in IdsOnTags
    BY <2>1 DEF Sound, IdForRecipe
  <2>5. /\ Counted(new.info) /\ new.info.actual = 0 /\ "known" \in DOMAIN new
        /\ Counted([new EXCEPT !.info.id = integrity.info.id].info)
        /\ [new EXCEPT !.info.id = integrity.info.id].info.actual = 0
        /\ "known" \in DOMAIN [new EXCEPT !.info.id = integrity.info.id]
    BY <2>3, <2>4, NewRecipeCounts
  <2> HIDE DEF new
  <2>6. Counted(working'.info) /\ working'.info.actual = 0 /\ KnownFits'
    BY <2>1, <2>2, <2>5 DEF Sound, KnownFits
  <2>7. MarksFit' /\ Paired'
    BY <2>2, <2>5, <2>6 DEF MarksFit, Paired, Counted
  <2> QED
    BY <1>1, <2>1, <2>6, <2>7, ToWriteSound
<1> QED
  BY <1>2, <1>3

-----------------------------------------------------------------------------
\* What happens around the reader.

LEMMA AroundStaysSound ==
  ASSUME Stays, Kept, Sound,
         PollCard \/ GuardExpires \/ CellWorks \/ Leaves \/ \E t \in Tags : Arrives(t)
  PROVE  Sound'
<1>1. UNCHANGED <<tags, integrity, working, dirty, op, calls, result, raf, at>>
  <2>1. CASE PollCard \/ GuardExpires \/ CellWorks
    BY <2>1 DEF PollCard, GuardExpires, CellWorks, hVars, cards, aasVars
  <2>2. CASE Leaves
    BY <2>2 DEF Leaves, TakeAway, HandlerIdle, cards, aasVars
  <2>3. CASE \E t \in Tags : Arrives(t)
    BY <2>3 DEF Arrives, PutDown, cards, aasVars
  <2> QED
    BY <2>1, <2>2, <2>3
<1> QED
  BY <1>1, StillSound DEF Sound, IdForRecipe

\* After a restart both copies hold what the memory held.
LEMMA RebootStaysSound ==
  ASSUME Sound, Reboot
  PROVE  Sound'
<1>1. /\ op' = NoOp /\ calls' = <<>> /\ at' = "loop" /\ raf' = "Mimo" /\ dirty' = <<>>
      /\ integrity' = InitTCardInfo(StackInfo) /\ working' = InitTCardInfo(StackInfo)
      /\ tags' = tags
  BY DEF Reboot, Restart, Loop
<1>2. TagsCounted' /\ KnownFits' /\ PhaseFits' /\ Paired'
  BY <1>1 DEF Sound, TagsCounted, KnownFits, PhaseFits, Paired, InitTCardInfo
<1>3. MarksFit'
  <2>1. dirty' \in [1 .. 0 -> BOOLEAN] /\ 0 \in 0 .. MaxSteps
    BY <1>1, MaxStepsAssumption
  <2> QED
    BY <2>1 DEF MarksFit
<1>4. CountedToWrite' /\ CountedWhenLoaded' /\ IdForRecipe'
  BY <1>1, CallsDiffer DEF CountedToWrite, CountedWhenLoaded, IdForRecipe, Reads, Writes, NoOp
<1> QED
  BY <1>2, <1>3, <1>4 DEF Sound

\* Another cell counts the steps of a product too.
LEMMA ElsewhereStaysSound ==
  ASSUME Arrays, Sound, NEW t \in Tags, DoneElsewhere(t) \/ SentHere(t)
  PROVE  Sound'
<1>1. UNCHANGED <<integrity, working, dirty, op, calls, result, raf, at>>
  BY DEF DoneElsewhere, SentHere, cards, aasVars
<1>2. /\ DOMAIN tags = Tags /\ IsCopy(tags[t])
      /\ Counted(tags[t].info) /\ Full(tags[t].steps)
  BY DEF Arrays, TagsFit, Sound, TagsCounted
<1>3. /\ \A u \in Tags \ {t} : tags'[u] = tags[u]
      /\ Counted(tags'[t].info) /\ Full(tags'[t].steps)
  <2>0. \A i, x : Full([tags[t].steps EXCEPT ![i] = x])
    BY <1>2, FullPut
  <2>1. CASE DoneElsewhere(t)
    <3> DEFINE i == tags[t].info.actual + 1
    <3>1. PICK x, y : tags' = [tags EXCEPT ![t] =
              [info  |-> [[tags[t].info EXCEPT !.actual = i, !.done = x] EXCEPT !.cs = y],
               steps |-> [tags[t].steps EXCEPT ![i].done = TRUE]]]
      BY <2>1, Zenon DEF DoneElsewhere
    <3>2. tags[t].info.actual < tags[t].info.steps
      BY <2>1 DEF DoneElsewhere, Owned
    <3>3. i \in 0 .. tags[t].info.steps
      BY <1>2, <3>2 DEF Counted
    <3> HIDE DEF i
    <3>4. /\ tags'[t].info.id = tags[t].info.id /\ tags'[t].info.steps = tags[t].info.steps
          /\ tags'[t].info.actual = i
          /\ tags'[t].steps = [tags[t].steps EXCEPT ![i].done = TRUE]
          /\ \A u \in Tags \ {t} : tags'[u] = tags[u]
      BY <1>2, <3>1 DEF IsCopy, Counts
    <3> QED
      BY <1>2, <2>0, <3>3, <3>4, SMTT(40) DEF Counted
  <2>2. CASE SentHere(t)
    <3>1. PICK i, y : tags' = [tags EXCEPT ![t].steps = [tags[t].steps EXCEPT ![i].reserved = ME],
                                           ![t].info.cs = y]
      BY <2>2, Zenon DEF SentHere
    <3>2. /\ tags'[t].info.id = tags[t].info.id /\ tags'[t].info.steps = tags[t].info.steps
          /\ tags'[t].info.actual = tags[t].info.actual
          /\ tags'[t].steps = [tags[t].steps EXCEPT ![i].reserved = ME]
          /\ \A u \in Tags \ {t} : tags'[u] = tags[u]
      BY <1>2, <3>1 DEF IsCopy, Counts
    <3> QED
      BY <1>2, <2>0, <3>2 DEF Counted
  <2> QED
    BY <2>1, <2>2
<1>4. TagsCounted'
  BY <1>3 DEF Sound, TagsCounted
<1>5. MarksFit' /\ KnownFits' /\ PhaseFits' /\ Paired' /\ CountedToWrite'
  BY <1>1, SameCounts DEF Sound, MarksFit, KnownFits, PhaseFits, Paired, Reads,
     CountedToWrite, Counted
<1>6. CountedWhenLoaded' /\ IdForRecipe'
  BY <1>1 DEF Sound, CountedWhenLoaded, Reads, Waits, IdForRecipe
<1> QED
  BY <1>4, <1>5, <1>6 DEF Sound

\* Every step of the reader and of what is around it.
LEMMA NextStaysSound ==
  ASSUME Stays, Arrays, Kept, Sound, Next
  PROVE  Sound'
<1>1. CASE Gone \/ LoadFailed \/ EmptyTag \/ Rescan \/ LocalRefused \/ PostStep \/ GateBlocked
           \/ KonecReceptu \/ TargetRefused \/ TransportFailed \/ TransportStarted
  BY <1>1, QuietStaysSound
<1>2. CASE MimoPolozena \/ LocalReserved \/ LocalMarked
  BY <1>2, PollStaysSound
<1>3. CASE ReportRefused \/ CompletionFailed \/ CompletionOk \/ RecipeFinished
  BY <1>3, QuietStaysSound, WriteBackStaysSound
<1>4. CASE TargetReserved \/ Presun \/ NovyRecept
  BY <1>4, TargetReservedStaysSound, NewRecipeStaysSound
<1>5. CASE HandlerWorks
  BY <1>5, HandlerStaysSound
<1>6. CASE PollCard \/ GuardExpires \/ CellWorks \/ Leaves \/ \E t \in Tags : Arrives(t)
  BY <1>6, AroundStaysSound
<1>7. CASE Reboot
  BY <1>7, RebootStaysSound
<1>8. CASE \E t \in Tags : DoneElsewhere(t) \/ SentHere(t)
  BY <1>8, ElsewhereStaysSound
<1> QED
  BY <1>1, <1>2, <1>3, <1>4, <1>5, <1>6, <1>7, <1>8 DEF Next, Reader, Decides

LEMMA InitSound ==
  ASSUME FirstTagsCount, Init
  PROVE  Sound
<1>1. /\ op = NoOp /\ calls = <<>> /\ at = "loop" /\ raf = "Mimo" /\ dirty = <<>>
      /\ integrity = InitTCardInfo(StackInfo) /\ working = InitTCardInfo(StackInfo)
      /\ tags \in FirstTags
  BY DEF Init, HandlerInit
<1>2. TagsCounted
  <2>1. tags \in [Tags -> [info : TRecipeInfo, steps : [1 .. MaxSteps -> TRecipeStep]]]
    BY <1>1, FirstTagsAssumption
  <2>2. ASSUME NEW t \in Tags PROVE Counted(tags[t].info) /\ Full(tags[t].steps)
    <3>1. tags[t].info \in TRecipeInfo /\ Full(tags[t].steps)
      BY <2>1 DEF Full
    <3>2. tags[t].info.steps <= MaxSteps /\ tags[t].info.actual <= tags[t].info.steps
      BY <1>1, FirstTagsAssumption DEF FirstTagsCount
    <3>3. tags[t].info.steps \in Nat /\ tags[t].info.actual \in Nat
      BY <3>1 DEF TRecipeInfo, UInt8
    <3>4. tags[t].info.id \in IdsOnTags
      BY <1>1 DEF IdsOnTags
    <3> QED
      BY <3>1, <3>2, <3>3, <3>4, MaxStepsAssumption DEF Counted
  <2> QED
    BY <2>2 DEF TagsCounted
<1>3. KnownFits /\ PhaseFits /\ Paired
  BY <1>1 DEF KnownFits, PhaseFits, Paired, InitTCardInfo
<1>4. MarksFit
  <2>1. dirty \in [1 .. 0 -> BOOLEAN] /\ 0 \in 0 .. MaxSteps
    BY <1>1, MaxStepsAssumption
  <2> QED
    BY <2>1 DEF MarksFit
<1>5. CountedToWrite /\ CountedWhenLoaded /\ IdForRecipe
  BY <1>1, CallsDiffer DEF CountedToWrite, CountedWhenLoaded, IdForRecipe, Reads, Writes, NoOp
<1> QED
  BY <1>2, <1>3, <1>4, <1>5 DEF Sound

-----------------------------------------------------------------------------
\* The variables that hold no more than their own type.

MachineFits == raf \in RafStates /\ at \in Points /\ seen \in Tags \cup {NoTag}
FlagsFit == {cardOnReader, guarded, targetHolds, steady, panicked} \subseteq BOOLEAN
NumbersFit == receiptCounter \in 0 .. Len(Recipes) /\ batches \in 0 .. MaxBatch

LEMMA MachineStaysFit ==
  ASSUME Arrays, MachineFits, Next
  PROVE  MachineFits'
<1>1. CASE Gone \/ Decides
  <2>1. raf' \in RafStates /\ seen' = seen
    BY <1>1 DEF MachineFits, RafStates, Gone, Decides, MimoPolozena, LoadFailed, EmptyTag,
       ReportRefused, RecipeFinished, Rescan, LocalRefused, LocalReserved, LocalMarked,
       CompletionFailed, CompletionOk, PostStep, GateBlocked, Presun, KonecReceptu, NovyRecept,
       Reported, Decide, MarkDone, Loop, ghosts
  <2>2. at' \in Points
    BY <1>1 DEF MachineFits, Points, Gone, Decides, MimoPolozena, LoadFailed, EmptyTag,
       ReportRefused, RecipeFinished, Rescan, LocalRefused, LocalReserved, LocalMarked,
       CompletionFailed, CompletionOk, PostStep, GateBlocked, Presun, KonecReceptu, NovyRecept,
       MarkDone, Loop, Calls
  <2> QED
    BY <2>1, <2>2 DEF MachineFits
<1>2. CASE TargetRefused \/ TargetReserved \/ TransportFailed \/ TransportStarted
  BY <1>2 DEF MachineFits, RafStates, Points, TargetRefused, TargetReserved, TransportFailed,
     TransportStarted, Decide, Reported, Loop, Calls, ghosts
<1>3. CASE HandlerWorks
  BY <1>3 DEF MachineFits, HandlerWorks, Arrays, TagsFit
<1>4. CASE PollCard \/ GuardExpires \/ CellWorks \/ Leaves \/ Reboot
  BY <1>4 DEF MachineFits, RafStates, Points, PollCard, GuardExpires, CellWorks, Leaves, Reboot,
     Restart, Loop, ghosts, aasVars
<1>5. CASE \E t \in Tags : DoneElsewhere(t) \/ SentHere(t) \/ Arrives(t)
  BY <1>5 DEF MachineFits, DoneElsewhere, SentHere, Arrives, ghosts, aasVars
<1> QED
  BY <1>1, <1>2, <1>3, <1>4, <1>5 DEF Next, Reader

LEMMA FlagsStayFit ==
  ASSUME FlagsFit, Next
  PROVE  FlagsFit'
<1>1. CASE Reader
  <2>1. /\ UNCHANGED <<cardOnReader, steady, panicked>>
        /\ guarded' \in {guarded, TRUE}
        /\ targetHolds' \in {targetHolds, TRUE}
    BY <1>1 DEF Reader, Gone, Decides, MimoPolozena, LoadFailed, EmptyTag,
       ReportRefused, RecipeFinished, Rescan, LocalRefused, LocalReserved, LocalMarked,
       CompletionFailed, CompletionOk, PostStep, GateBlocked, Presun, KonecReceptu, NovyRecept,
       TargetRefused, TargetReserved, TransportFailed, TransportStarted,
       Reported, Decide, MarkDone, KeepTag, KeepHandler, hVars
  <2> QED
    BY <2>1 DEF FlagsFit
<1>2. CASE HandlerWorks
  <2>1. /\ UNCHANGED <<cardOnReader, guarded, targetHolds>>
        /\ steady' \in {steady, TRUE, FALSE} /\ panicked' \in {panicked, TRUE}
    BY <1>2 DEF HandlerWorks, HandlerStep, StartCall, LoadFails, LoadInfo, LoadSteps, Sum,
       OutOfRange, GiveUp, WriteHead, Select, WriteStructure, AccessLost, Verify, Retry,
       SyncRunWritten, SafeWriteDone, Compare, MissingArray, MissingArrayAtStart, Panic
  <2> QED
    BY <2>1 DEF FlagsFit
<1>3. CASE PollCard \/ GuardExpires \/ CellWorks \/ Leaves \/ Reboot
  BY <1>3 DEF FlagsFit, PollCard, GuardExpires, CellWorks, Leaves, TakeAway, Reboot, Restart,
     hVars, aasVars
<1>4. CASE \E t \in Tags : DoneElsewhere(t) \/ SentHere(t) \/ Arrives(t)
  BY <1>4 DEF FlagsFit, DoneElsewhere, SentHere, Arrives, PutDown, aasVars
<1> QED
  BY <1>1, <1>2, <1>3, <1>4 DEF Next

LEMMA NumbersStayFit ==
  ASSUME MaxBatch \in Nat, NumbersFit, Next
  PROVE  NumbersFit'
<1>1. CASE Presun \/ NovyRecept
  <2>1. batches' \in 0 .. MaxBatch
    BY <1>1 DEF Presun, NovyRecept, CountRecipe, NumbersFit
  <2>2. receiptCounter' \in 0 .. Len(Recipes)
    <3>1. Len(Recipes) \in Nat \ {0}
      BY RecipesAssumption
    <3>2. CASE Presun
      BY <3>2 DEF Presun, NumbersFit
    <3>3. CASE NovyRecept
      <4> DEFINE number == IF receiptCounter >= Len(Recipes) THEN 0 ELSE receiptCounter
      <4>1. receiptCounter' = number + 1
        BY <3>3, Zenon DEF NovyRecept
      <4> QED
        BY <3>1, <4>1 DEF NumbersFit
    <3> QED
      BY <1>1, <3>2, <3>3
  <2> QED
    BY <2>1, <2>2 DEF NumbersFit
<1>2. CASE Reader /\ ~(Presun \/ NovyRecept)
  BY <1>2 DEF NumbersFit, Reader, Gone, Decides, MimoPolozena, LoadFailed, EmptyTag,
     ReportRefused, RecipeFinished, Rescan, LocalRefused, LocalReserved, LocalMarked,
     CompletionFailed, CompletionOk, PostStep, GateBlocked, KonecReceptu,
     TargetRefused, TargetReserved, TransportFailed, TransportStarted,
     Reported, Decide, ghosts
<1>3. CASE HandlerWorks
  BY <1>3 DEF NumbersFit, HandlerWorks
<1>4. CASE PollCard \/ GuardExpires \/ CellWorks \/ Leaves \/ Reboot
  <2>1. 0 \in 0 .. Len(Recipes)
    BY RecipesAssumption
  <2> QED
    BY <1>4, <2>1 DEF NumbersFit, PollCard, GuardExpires, CellWorks, Leaves, Reboot, Restart,
       ghosts, aasVars
<1>5. CASE \E t \in Tags : DoneElsewhere(t) \/ SentHere(t) \/ Arrives(t)
  BY <1>5 DEF NumbersFit, DoneElsewhere, SentHere, Arrives, ghosts, aasVars
<1> QED
  BY <1>1, <1>2, <1>3, <1>4, <1>5 DEF Next

LEMMA TwiceStaysMade ==
  ASSUME twice \subseteq made, Next
  PROVE  twice' \subseteq made'
<1>1. CASE CellWorks \/ \E t \in Tags : DoneElsewhere(t)
  <2>1. \E step : made' = made \cup {step} /\ twice' = twice \cup ({step} \cap made)
    <3>1. CASE CellWorks
      BY <3>1, Zenon DEF CellWorks
    <3>2. CASE \E t \in Tags : DoneElsewhere(t)
      BY <3>2, Zenon DEF DoneElsewhere
    <3> QED
      BY <1>1, <3>1, <3>2
  <2> QED
    BY <2>1
<1>2. CASE Reader
  BY <1>2 DEF Reader, Gone, Decides, MimoPolozena, LoadFailed, EmptyTag,
     ReportRefused, RecipeFinished, Rescan, LocalRefused, LocalReserved, LocalMarked,
     CompletionFailed, CompletionOk, PostStep, GateBlocked, Presun, KonecReceptu, NovyRecept,
     TargetRefused, TargetReserved, TransportFailed, TransportStarted,
     Reported, Decide, plcVars
<1>3. CASE \/ HandlerWorks \/ PollCard \/ GuardExpires \/ Leaves \/ Reboot
           \/ \E t \in Tags : SentHere(t) \/ Arrives(t)
  BY <1>3 DEF HandlerWorks, PollCard, GuardExpires, Leaves, Reboot, Restart, SentHere, Arrives,
     plcVars
<1> QED
  BY <1>1, <1>2, <1>3 DEF Next

\* The parts together are what the variables may hold.
LEMMA PartsAreTypes ==
  ASSUME Arrays, Kept, Sound, MachineFits, FlagsFit, NumbersFit, twice \subseteq made
  PROVE  TypeOK
<1>1. onReader \in Tags \cup {NoTag}
  BY DEF Arrays, TagsFit
<1>2. ASSUME NEW t \in Tags
      PROVE  /\ tags[t].info.id \in IdsOnTags
             /\ tags[t].info.steps \in 0 .. MaxSteps
             /\ tags[t].info.actual \in 0 .. tags[t].info.steps
             /\ Len(tags[t].steps) = MaxSteps
  BY FullPut DEF Sound, TagsCounted, Counted
<1>3. at # "loop" => raf = "Mimo"
  BY DEF Kept, KeptHere, InPlace
<1>4. Len(dirty) \in 0 .. MaxSteps
  <2>1. PICK n \in 0 .. MaxSteps : dirty \in [1 .. n -> BOOLEAN]
    BY DEF Sound, MarksFit
  <2>2. Len(dirty) = n
    BY <2>1, MaxStepsAssumption
  <2> QED
    BY <2>2
<1>5. Len(calls) <= 2
  <2>1. calls \in {<<>>, <<"LoadData">>, InfoThenSync, StepThenSync, <<"Sync">>}
    BY DEF Kept, KeptHere, InPlace
  <2>2. /\ Len(<<>>) = 0 /\ Len(<<"LoadData">>) = 1 /\ Len(<<"Sync">>) = 1
        /\ Len(InfoThenSync) = 2 /\ Len(StepThenSync) = 2
    BY DEF InfoThenSync, StepThenSync
  <2>3. Len(calls) \in {0, 1, 2}
    BY <2>1, <2>2, Zenon
  <2> QED
    BY <2>3
<1>6. op = NoOp \/ op.phase \in Phases
  BY DEF Sound, PhaseFits
<1> QED
  BY <1>1, <1>2, <1>3, <1>4, <1>5, <1>6 DEF TypeOK, MachineFits, FlagsFit, NumbersFit

\* Every variable keeps its type (TypeOK): no tag, and no copy that is written,
\* ever counts more steps than it has or holds an ID that none came with, for
\* every number of tags and steps, every set of recipes, whatever the memory
\* held before, writes given up, and restarts: where products stay until they
\* are waited for, and none comes with more steps done than it has.
THEOREM ReaderTypes ==
  ASSUME Stays, FirstTagsCount
  PROVE  Spec => []TypeOK
<1> DEFINE Parts == /\ Arrays /\ Kept /\ Sound
                    /\ MachineFits /\ FlagsFit /\ NumbersFit /\ twice \subseteq made
<1>1. Init => Parts
  <2> SUFFICES ASSUME Init PROVE Parts
    OBVIOUS
  <2>1. Arrays /\ Kept /\ Sound
    BY InitFits, InitKept, InitSound
  <2>2. MachineFits /\ FlagsFit /\ twice \subseteq made
    BY DEF Init, HandlerInit, MachineFits, RafStates, Points, FlagsFit
  <2>3. NumbersFit
    BY RecipesAssumption DEF Init, NumbersFit, FirstTagsCount
  <2> QED
    BY <2>1, <2>2, <2>3
<1>2. Parts /\ [Next]_vars => Parts'
  <2> SUFFICES ASSUME Parts, [Next]_vars PROVE Parts'
    OBVIOUS
  <2>1. CASE Next
    <3>1. Arrays' /\ Kept' /\ Sound'
      BY <2>1, NextKeeps, NextKept, NextStaysSound
    <3>2. MachineFits' /\ FlagsFit' /\ NumbersFit' /\ twice' \subseteq made'
      BY <2>1, MachineStaysFit, FlagsStayFit, NumbersStayFit, TwiceStaysMade DEF FirstTagsCount
    <3> QED
      BY <3>1, <3>2
  <2>2. CASE UNCHANGED vars
    <3>1. /\ Arrays'
          /\ UNCHANGED <<onReader, integrity, working, dirty, calls, op, result, raf, at,
                         cardOnReader, tags>>
      BY <2>2 DEF vars, hVars, cards, aasVars, Arrays, Marks, TagsFit, OpFits
    <3>2. Kept'
      <4>1. TagInfo' = TagInfo /\ Stands'
        BY <3>1 DEF TagInfo, Kept, KeptHere, Stands, Waits
      <4> QED
        BY <3>1, <4>1, UnseenKept
    <3>3. Sound'
      BY <3>1, StillSound DEF Sound, IdForRecipe
    <3>4. MachineFits' /\ FlagsFit' /\ NumbersFit' /\ twice' \subseteq made'
      BY <2>2 DEF vars, hVars, aasVars, plcVars, MachineFits, FlagsFit, NumbersFit
    <3> QED
      BY <3>1, <3>2, <3>3, <3>4
  <2> QED
    BY <2>1, <2>2
<1>3. Parts => TypeOK
  BY PartsAreTypes
<1> HIDE DEF Parts
<1> QED
  BY <1>1, <1>2, <1>3, PTL DEF Spec
=============================================================================
