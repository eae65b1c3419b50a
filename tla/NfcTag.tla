------------------------------- MODULE NfcTag -------------------------------
(***************************************************************************)
(* What a product's NFC tag holds and the firmware's copies of it          *)
(* (TRecipeInfo, TRecipeStep, TCardInfo of NFC_Reader), with the functions *)
(* that work on a copy alone.                                              *)
(*                                                                         *)
(* A tag is numbered by structures, as the firmware numbers them:          *)
(* structure 0 is the recipe info, structure i the i-th recipe step.       *)
(*                                                                         *)
(* Kept of the info: ID, RecipeSteps, ActualRecipeStep, RecipeDone and     *)
(* CheckSum.  ID 0 stands for an info whose ID and RightNumber do not add  *)
(* up to 255.  batch numbers the recipe an info belongs to; it is on no    *)
(* tag and no operation looks at it.  Kept of a step: the cell its         *)
(* TypeOfProcess belongs to, ProcessCellID, ProcessCellReservationID,      *)
(* whether there is a TimeOfProcess, NeedForTransport, IsProcess and       *)
(* IsStepDone.                                                             *)
(***************************************************************************)
EXTENDS Integers, Sequences, FiniteSets
LOCAL INSTANCE FiniteSetsExt

NoUid == "zeros"    \* the seven zero bytes NFC_InitTCardInfo writes

\* What an info and a step can hold.
UInt8 == 0 .. 255
UInt16 == 0 .. 65535
TRecipeInfo == [id : UInt8, steps : UInt8, actual : UInt8, done : BOOLEAN, cs : UInt16,
                batch : Nat]
TRecipeStep == [owner : UInt16, cell : UInt8, reserved : UInt16, timed : BOOLEAN,
                need : BOOLEAN, process : BOOLEAN, done : BOOLEAN]

noInfo == [id |-> 0, steps |-> 0, actual |-> 0, done |-> FALSE, cs |-> 0, batch |-> 0]
EmptyStep == [owner |-> 0, cell |-> 0, reserved |-> 0, timed |-> FALSE,
              need |-> FALSE, process |-> FALSE, done |-> FALSE]

\* The info's bytes, without and with the checksum, which is the last of them.
Bytes(info) == <<info.id, info.steps, info.actual, info.done>>
AllBytes(info) == <<Bytes(info), info.cs>>

\* NFC_InitTCardInfo: the info keeps what the memory held.
InitTCardInfo(info) ==
  [info |-> info, steps |-> <<>>, known |-> FALSE, created |-> FALSE,
   loaded |-> FALSE, uid |-> NoUid]

\* The sum is taken through a pointer; a copy whose array is missing, or
\* shorter than RecipeSteps, has none and the processor traps.
HasSteps(card) == card.info.steps <= Len(card.steps)

\* Byte p of the steps counts p % 4 + 1 times; a step has 31 bytes, with
\* TypeOfProcess at 2, ProcessCellID at 11, ProcessCellReservationID at 12,
\* TimeOfProcess from 14 and the flags at 30.
CheckSum(card) ==
  LET weight(i, offset) == ((31 * (i - 1) + offset) % 4) + 1
      bit(b, value) == IF b THEN value ELSE 0
      flags(step) == bit(step.need, 1) + bit(step.process, 4) + bit(step.done, 8)
      sum(i) == LET step == card.steps[i]
                IN step.owner * weight(i, 2) + step.cell * weight(i, 11)
                   + step.reserved * weight(i, 12) + bit(step.timed, 1) * weight(i, 14)
                   + flags(step) * weight(i, 30)
  IN MapThenSumSet(sum, 1 .. card.info.steps) % 65536

\* Nothing is done when RecipeSteps already says n, array or no array.
ChangeRecipeStepsSize(card, n) ==
  IF ~card.known \/ n = card.info.steps THEN card
  ELSE [card EXCEPT
          !.info.steps = n,
          !.created = n > 0,
          !.loaded  = n > 0 /\ (card.loaded \/ card.created),
          !.steps   = [i \in 1 .. n |-> IF i <= Len(card.steps) THEN card.steps[i]
                                        ELSE EmptyStep]]

\* GetCardInfoByNumber: a new recipe, a step for each owner.
GetCardInfoByNumber(owners, batch) ==
  LET card == [info    |-> [noInfo EXCEPT !.steps = Len(owners), !.batch = batch],
               steps   |-> [i \in 1 .. Len(owners) |-> [EmptyStep EXCEPT !.owner = owners[i]]],
               known   |-> TRUE,
               created |-> owners # <<>>,
               loaded  |-> FALSE,
               uid     |-> NoUid]
  IN [card EXCEPT !.info.cs = CheckSum(card)]

\* Stops at the first step that is not dirty.
Slip_Runs(dirty) ==
  {[from |-> 0, to |-> Max({j \in 0 .. Len(dirty) : \A i \in 1 .. j : dirty[i]})]}

\* The ranges NFC_Handler_Sync writes: the info with the dirty steps next to
\* it, then each run of dirty steps, as [from, to] in structure numbers.
Runs(dirty) ==
  LET marked == {0} \cup {i \in DOMAIN dirty : dirty[i]}
  IN {run \in [from : marked, to : marked] :
        /\ run.from <= run.to /\ run.from .. run.to \subseteq marked
        /\ run.from - 1 \notin marked /\ run.to + 1 \notin marked}
=============================================================================
