---------------------------- MODULE ReaderLegacy ----------------------------
(***************************************************************************)
(* The reader with the flow it had before the PLC's queues, which it still *)
(* falls back to whenever a report is not answered: it inquires a cell for *)
(* the step, reserves what was offered, has it started and waits until it  *)
(* is finished (State_Inicializace_ZiskaniAdres to                         *)
(* State_Vyroba_SpravneProvedeni in app.c, with NFC_recipes.c and the five *)
(* methods of the old servers in OPC_klient.c).                            *)
(*                                                                         *)
(* Both flows use one recipe step: in ProcessCellReservationID the old one *)
(* keeps the number of its reservation and the new one the number of the   *)
(* cell it has reserved.                                                   *)
(*                                                                         *)
(* A product leaves when the reader waits for that.  Then no step is at the *)
(* wrong cell in State_Vyroba_Objeveni and the gate matches neither a step *)
(* that needs a transport nor one just reserved (AsksNoTransport), so that *)
(* nothing here adds a transport to a recipe or asks an old server for     *)
(* one.  No recipe has a step of type Transport.  No semaphore times out.  *)
(***************************************************************************)
EXTENDS ReaderAas

CONSTANTS Common,      \* the cells listed for every type of process
          Offers,      \* the owners of the steps a listed cell offers to do
          Tokens       \* the numbers an old server gives its reservations

ASSUME StaysAssumption == Stays
ASSUME OneCellOffers ==
  \A c, d \in Listed : c # d => Offers[c] \cap Offers[d] = {}

VARIABLES rafNext,     \* RAFnext
          bunky,       \* the cells in Bunky
          tempInfo,    \* tempInfo
          skipFor,     \* the step s_legacyFlowGuard has seen a transport for
          offers       \* what the old servers know of their reservations

legacyVars == <<rafNext, bunky, tempInfo, skipFor, offers>>
allVars == <<vars, legacyVars>>

NoSkip == MaxSteps
Step == working.steps[Current]
InCell == integrity.steps[integrity.info.actual + 1]

\* What the states of the old flow leave alone.
others == <<cardOnReader, receiptCounter, guarded, ghosts, orders, made, twice, unheard>>

-----------------------------------------------------------------------------
\* State_Mimo_Polozena, from where the answer to the report has got lost.
Unanswered ==
  /\ Loaded /\ ~IsRecipeEmpty
  /\ reported' = SrId
  /\ UNCHANGED <<hVars, others, gate, targetHolds, bunky, tempInfo, skipFor, offers>>

To(next) == Loop("Adresy") /\ rafNext' = next
Pending == ~Info.done /\ Info.actual < Info.steps
IsHere == Step.timed /\ Step.cell = ME

Recept ==
  /\ Unanswered /\ ~Pending
  /\ Loop(IF Info.actual >= Info.steps THEN "Presun" ELSE "Konec")
  /\ UNCHANGED rafNext

\* Goes on with the cells fetched before.
Slip_PoProcesu ==
  Unanswered /\ Pending /\ Step.process /\ Loop("Spravne") /\ UNCHANGED rafNext

PoProcesu == Unanswered /\ Pending /\ Step.process /\ To("Spravne")

BezTransportu == Unanswered /\ Pending /\ ~Step.process /\ IsHere /\ To("Objeveni")

\* It stays where it is: the gate has matched no other cell.
CekaNaTransport ==
  /\ Unanswered /\ Pending /\ ~Step.process /\ ~IsHere
  /\ Step.need /\ Loop("Mimo")
  /\ UNCHANGED rafNext

NaRezervace ==
  /\ Unanswered /\ Pending /\ ~Step.process /\ ~IsHere /\ ~Step.need
  /\ To(IF Step.reserved # 0 THEN "Rezervace" ELSE "Poptavka")

\* State_Inicializace_ZiskaniAdres: the cells with a transport, a storage or
\* the step's type.
ZiskaniAdres ==
  /\ Enters("Adresy")
  /\ IF skipFor = Info.actual
       THEN Loop("Mimo") /\ UNCHANGED bunky
       ELSE /\ Loop(rafNext)
            /\ bunky' = Common \cup {c \in Listed : OwnerOf(Current) \in Offers[c]}
  /\ UNCHANGED <<hVars, others, gate, targetHolds, reported, rafNext, tempInfo, skipFor,
                 offers>>

-----------------------------------------------------------------------------
\* GetWinningCell, of one bid: each type of process is offered by one cell.
Winner == CHOOSE c \in bunky : OwnerOf(Current) \in Offers[c]

\* The numbers a cell has not given yet.
Fresh(cell) == {n \in Tokens : \A o \in offers : <<o.cell, o.id>> # <<cell, n>>}

\* Inquire is answered with the next number of the cell.  The
\* step is written at once, from integrity: working learns of it only then.
PoptavkaVyroba ==
  /\ Enters("Poptavka")
  /\ Current <= Len(integrity.steps)
  /\ \E id \in Fresh(Winner) :
       /\ \A n \in Fresh(Winner) : id <= n
       /\ offers' = offers \cup {[cell |-> Winner, id |-> id, batch |-> Info.batch,
                                  step |-> Current, state |-> "offered"]}
       /\ integrity' = [integrity EXCEPT !.steps[Current] =
                          [Step EXCEPT !.cell = Winner, !.reserved = id,
                                       !.need = Winner # ME]]
  /\ op' = Writing("WriteSafeStep", "sum", [from |-> Current, to |-> Current], {},
                   integrity.steps[Current])
  /\ steady' = (onReader # NoTag)
  /\ at' = IF Winner = ME THEN "offered" ELSE "offered away"
  /\ UNCHANGED <<tags, onReader, working, dirty, calls, result, panicked, raf, others, gate,
                 targetHolds, reported, rafNext, bunky, tempInfo, skipFor>>

\* A step of the old flow that only goes on.
GoesOn(s) ==
  /\ Loop(s)
  /\ UNCHANGED <<hVars, others, gate, targetHolds, reported, legacyVars>>

\* What became of the write is not looked at.
PoptavkaZapsana ==
  \/ Ready("Poptavka", "offered") /\ GoesOn("Transporty")
  \/ /\ Ready("Poptavka", "offered away")
     /\ GoesOn(IF GateMatches THEN "Transporty" ELSE "Mimo")

PoptavkaTransporty ==
  Enters("Transporty") /\ GoesOn(IF Step.need THEN "Mimo" ELSE "Rezervace")

-----------------------------------------------------------------------------
\* State_Rezervace goes through the steps from the one integrity is at, up to
\* the first that has no cell.
Asked ==
  LET first == integrity.info.actual + 1
  IN {i \in first .. integrity.info.steps :
        \A j \in first .. i : integrity.steps[j].cell # 0}

\* The reservations steps have, in a state, and those once they are in another.
Held(steps, s) ==
  {o \in offers : /\ o.state = s
                  /\ \E i \in steps : o.cell = integrity.steps[i].cell
                                     /\ o.id = integrity.steps[i].reserved}
Becomes(set, s) == (offers \ set) \cup {[o EXCEPT !.state = s] : o \in set}

AfterRezervace == IF GateMatches THEN "Transport" ELSE "Mimo"

\* AskForValidOffer: an offer has changed.
NabidkaNeplati == Enters("Rezervace") /\ Asked # {} /\ GoesOn("Poptavka")

\* The steps are reserved, and the time kept at the step working is at.
\* Whether the server has reserved anything is not looked at.
Reserve(steps) ==
  /\ \E got \in SUBSET Held(steps, "offered") : offers' = Becomes(got, "reserved")
  /\ IF steps = {} THEN UNCHANGED <<working, dirty>>
     ELSE /\ \E t \in BOOLEAN : working' = [working EXCEPT !.steps[Current].timed = t]
          /\ dirty' = WriteStep(working, Current)

\* ReserveAllOfferedReservation, when Rezervation fails for the n-th step.
RezervaceSelhala ==
  /\ Enters("Rezervace")
  /\ \E n \in Asked : Reserve({i \in Asked : i < n})
  /\ Loop(AfterRezervace)
  /\ KeepTag
  /\ UNCHANGED <<calls, others, gate, targetHolds, reported, rafNext, bunky, tempInfo, skipFor>>

Rezervace ==
  /\ Enters("Rezervace")
  /\ Reserve(Asked)
  /\ Calls(<<"Sync">>, "reserved")
  /\ KeepTag
  /\ UNCHANGED <<raf, others, gate, targetHolds, reported, rafNext, bunky, tempInfo, skipFor>>

Zarezervovano == Ready("Rezervace", "reserved") /\ GoesOn(AfterRezervace)

\* State_Vyroba_Objeveni, at the cell that was inquired.
Objeveni == Enters("Objeveni") /\ InCell.cell = ME /\ GoesOn("Oznameni")

-----------------------------------------------------------------------------
\* Leaves the tag to the next Sync.
Slip_OznameniOProvedeni ==
  /\ Enters("Oznameni")
  /\ tempInfo' = Info
  /\ working' = [working EXCEPT !.steps[Current].process = TRUE]
  /\ dirty' = WriteStep(working, Current)
  /\ Calls(<<>>, "started")
  /\ KeepTag
  /\ UNCHANGED <<raf, others, gate, targetHolds, reported, rafNext, bunky, skipFor, offers>>

\* State_Vyroba_OznameniOProvedeni: the tag is told first.
OznameniOProvedeni ==
  /\ Enters("Oznameni")
  /\ tempInfo' = Info
  /\ working' = [working EXCEPT !.steps[Current].process = TRUE]
  /\ dirty' = WriteStep(working, Current)
  /\ Calls(<<"Sync">>, "started")
  /\ KeepTag
  /\ UNCHANGED <<raf, others, gate, targetHolds, reported, rafNext, bunky, skipFor, offers>>

\* DoReservation: whether DoProcess was answered is not looked at.
Zahajeno ==
  /\ Ready("Oznameni", "started")
  /\ Loop("Spravne")
  /\ \/ UNCHANGED offers
     \/ Step.cell # 0 /\ offers' = Becomes(Held({integrity.info.actual + 1}, "reserved"), "started")
  /\ UNCHANGED <<hVars, others, gate, targetHolds, reported, rafNext, bunky, tempInfo, skipFor>>

\* The reservation at another cell is for the step that is done now.
CilZarezervovan(info) ==
  \/ info.done /\ UNCHANGED <<gate, targetHolds>>
  \/ ~info.done /\ gate' = GateReset /\ UNCHANGED targetHolds
  \/ ~info.done /\ gate' = GateReset /\ Resolved /\ targetHolds' = TRUE
  \/ /\ ~info.done /\ Resolved /\ ~targetHolds /\ targetHolds' = TRUE
     /\ gate' = [targetReserved |-> TRUE, stepIndex |-> Info.actual,
                 targetCellId |-> TargetOf(Current)]

\* State_Vyroba_SpravneProvedeni, once IsFinished says so: tempInfo is what
\* the last start has left there.  The last step is its own next one.
SpravneProvedeni ==
  LET info == IF Current = Info.steps THEN [tempInfo EXCEPT !.done = TRUE]
              ELSE [tempInfo EXCEPT !.actual = Current]
  IN /\ Enters("Spravne")
     /\ Step.cell # 0 /\ Held({integrity.info.actual + 1}, "finished") # {}
     /\ tempInfo' = info
     /\ working' = [working EXCEPT !.steps[Current].process = FALSE,
                                   !.steps[Current].done = TRUE, !.info = info]
     /\ dirty' = Resize(WriteStep(working, Current), info.steps)
     /\ calls' = <<"Sync">> /\ Loop("Mimo")
     /\ CilZarezervovan(info)
     /\ KeepTag
     /\ UNCHANGED <<others, reported, rafNext, bunky, skipFor, offers>>

-----------------------------------------------------------------------------
\* The machine of the old server does what was started, to the product that
\* stands in it.
OldCellWorks ==
  /\ onReader # NoTag
  /\ \E o \in offers :
       LET step == [tag |-> onReader, batch |-> o.batch, step |-> o.step]
       IN /\ o.state = "started"
          /\ offers' = Becomes({o}, "finished")
          /\ made' = made \cup {step}
          /\ twice' = twice \cup ({step} \cap made)
  /\ UNCHANGED <<hVars, aasVars, reported, orders, unheard, rafNext, bunky, tempInfo,
                 skipFor>>

\* The top of the loop, for a product that is gone: a product that is waited
\* for leaves the guard as it is.
Removed ==
  /\ HandlerIdle /\ at = "loop" /\ ~cardOnReader
  /\ IF raf = "Wait" THEN UNCHANGED skipFor ELSE skipFor' = NoSkip
  /\ Loop("Mimo")
  /\ UNCHANGED <<hVars, others, gate, targetHolds, reported, rafNext, bunky, tempInfo, offers>>

\* The power fails while the machine is waited for, the longest of all waits.
PowerFails ==
  /\ raf = "Spravne" /\ Restart
  /\ rafNext' = "Mimo" /\ bunky' = {} /\ tempInfo' = StackInfo /\ skipFor' = NoSkip
  /\ UNCHANGED offers

OldFlow ==
  \/ Recept \/ PoProcesu \/ BezTransportu \/ CekaNaTransport \/ NaRezervace
  \/ ZiskaniAdres \/ PoptavkaVyroba \/ PoptavkaZapsana \/ PoptavkaTransporty
  \/ NabidkaNeplati \/ RezervaceSelhala \/ Rezervace \/ Zarezervovano \/ Objeveni
  \/ OznameniOProvedeni \/ Zahajeno \/ SpravneProvedeni

NewFlow ==
  /\ \/ Decides /\ UNCHANGED skipFor
     \/ (TargetRefused \/ TargetReserved \/ TransportFailed) /\ skipFor' = NoSkip
     \/ TransportStarted /\ skipFor' = Info.actual
  /\ UNCHANGED <<rafNext, bunky, tempInfo, offers>>

Around ==
  /\ HandlerWorks \/ PollCard \/ GuardExpires \/ CellWorks \/ Leaves
     \/ \E t \in Tags : Arrives(t) \/ DoneElsewhere(t)
  /\ UNCHANGED legacyVars

LegacyNext == OldFlow \/ NewFlow \/ Around \/ OldCellWorks \/ Removed \/ PowerFails

LegacyInit ==
  /\ Init
  /\ rafNext = "Mimo" /\ bunky = {} /\ tempInfo = StackInfo /\ skipFor = NoSkip
  /\ offers = {}

LegacySpec == LegacyInit /\ [][LegacyNext]_allVars

-----------------------------------------------------------------------------
\* The way to a transport of the old flow is never taken: the gate closes
\* before it could match what was inquired or reserved.
AsksNoTransport ==
  /\ raf # "Transport"
  /\ raf = "Transporty" => ~(Step.need /\ GateMatches)
  /\ raf = "Objeveni" => InCell.cell = ME

\* Whatever was offered, reserved and started before, in this visit, an earlier
\* one or before the power failed, the cells the old flow calls are among
\* those fetched for the step: the search for a cell that is not there leaves
\* tempCell as it was on the stack (AskForValidOffer, DoReservation and
\* IsDoneReservation in NFC_recipes.c).
CallsListedCells ==
  /\ AsksNoTransport
  /\ raf = "Rezervace" /\ at = "loop" =>
       \A i \in Asked : integrity.steps[i].cell \in bunky
  /\ raf = "Oznameni" /\ at = "started" /\ Step.cell # 0 => InCell.cell \in bunky \cup {0}
  /\ raf = "Spravne" => Step.cell # 0 /\ InCell.cell \in bunky

\* What an old server is told to start is the step its product is at, and the
\* tag says so before, whichever flow has written the step in between
\* (State_Vyroba_OznameniOProvedeni; ProcessCellReservationID is the marker of
\* the one flow and the reservation of the other).
StartsTheStep ==
  [][\A o \in offers' \ offers : o.state = "started" =>
       /\ o.batch = tags[onReader].info.batch
       /\ o.step = tags[onReader].info.actual + 1
       /\ tags[onReader].steps[o.step].process]_allVars

-----------------------------------------------------------------------------
\* What the documents say of the code and the runs refute.

\* A step that is finished changes nothing of the recipe's info but the step
\* that is next or that the recipe is done, and its checksum
\* (State_Vyroba_SpravneProvedeni).
OnlyProgress ==
  [][raf = "Spravne" /\ calls' # <<>> =>
       [working'.info EXCEPT !.cs = Info.cs] \in
         {[Info EXCEPT !.actual = Current], [Info EXCEPT !.done = TRUE]}]_allVars

=============================================================================
