# Verification of the ESP32 reader and its AAS service provider PLC

The repository holds two programs that work together on a production line:

- `ESP32_Firmware_ASS_Interpreter/`: the firmware of an NFC **reader** at a
  production cell. A product carries an NFC tag with its recipe: a list of
  steps, which of them are done, and who reserved the next one. The reader reads the
  tag, asks PLCs over OPC UA to perform the next step or to transport the
  product, and writes the progress back to the tag.
- `PLC_code/` and `PLC_code -Transport/`: the **service provider** PLC (SCL), a
  passive Asset Administration Shell. It offers six OPC UA methods to any number
  of readers, keeps a priority queue of reserved actions and a queue of reported
  products, and drives one machine through a handshake when a reserved
  product is also reported.

This directory models them in TLA+, checks the models with TLC and proves with TLAPS
what the PLC keeps true: its queues, its methods and its cycle, the readers around it, and
the transport with its machine. In this text `app.c`, `NFC_handler.c` and
so on are the files of these names under `src/`; `informace/` holds the repository's reports.

## Inventory

| component | state | operations | talks to |
|---|---|---|---|
| Product queue (`Queue_*.scl`) | array of products, first index, next index, count | push, get, find, remove at a position | called by all PLC blocks below |
| Priority queue (`PQueue_*.scl`) | one product queue per priority, and counters and flags that repeat their state, `activeItemPosition` | push at a priority, find by id, get and remove by global position | called by the methods and by the cycle |
| OPC UA methods (`AAS/OPC UA Methods`) | `PQueue`, `ReportedProductsQueue`, `OutputPositionSr` | ReportProduct, ReserveAction, GetSupported, GetStatus, FreeFromQueue, FreeFromPosition | called by readers, share the queues with the cycle |
| Passive AAS cycle (`Passive_AAS.scl`, `CheckAction`, `DeviceSlow`, `RemoveFinishedProduct`) | selected item and its two positions, `deviceRunning`, handshake step and timer, history | one cycle: select, drive, remove, publish | the machine (status bits in, commands out), the queues |
| Transport PLC (`PLC_code -Transport`) | the same, the trip, the bits and the timer of the simulated machine `Simulace1` | the same cycle, and the machine's | readers that ask for a trip |
| Reader flow (`main/app.c`, `State_Machine`) | state, last report, re-scan guard, transport gate, recipe counter | read, report, reserve, wait, write, request transport | NFC handler, OPC UA client, card poll |
| Reader flow from before the PLC's queues (the same function, `NFC_recipes.c`) | `RAFnext`, `Bunky`, `tempInfo`, the guard against it | inquire, reserve, start, wait, write | the servers of the cells, NFC handler |
| NFC handler (`components/NFC_Handler`) | three copies of the tag's content (working, integrity, temporary), dirty flags | load, copy, write, sync, safe write | NFC reader (blocks of the tag), the flow |
| NFC reader (`components/NFC_Reader`) | none of its own | read, write and verify blocks, checksum | PN532 driver |
| Recipes (`components/NFC_Recipes`) | table of cells | next recipe, offers and reservations of the cells | the flow |
| OPC UA client (`components/OPC_Klient`) | connection | one call per method, completion poll | the PLCs and the old servers |
| Tasks of the reader | `CardOnReader`, semaphores of the NFC reader and of Ethernet | card detection, flow, connection test | each other |

What makes this system hard:

- Several readers call one PLC; a reader remembers an answer (an offer, a position, a
  reservation) while others change the queues, and an answer may get lost after the PLC has acted.
- The PLC keeps the same fact in several places (ring indices, counts,
  per-priority counters, full and empty flags) and names an entry by a
  *position*, which moves with every push and removal; there are two numberings of
  positions, one inside a priority, one over all.
- The handshake lasts many PLC cycles, with method calls between any two of them; a
  machine may fail or never answer.
- The tag is the only memory a product has. The card may be taken away or exchanged
  between any two accesses, and an access may fail.
- Two flows work on one recipe: whenever a report is not answered the reader falls back to
  the older one, which uses the same fields of the step for something else.
- After a restart the reader goes on from what the tag says, with everything else lost.

What makes each part correct, in a sentence: a product queue is a list; the
priority queue's counters say what its rings say; no product is reserved or reported
twice; a reservation disappears by its own removal or by being run, never
by another's; what the machine was told is what leaves the queues; a handshake
ends; ready work starts; a step is started once; what a tag is said to hold it holds; progress is
what was done; a product leaves for a cell that expects it.

## Modules

| module | models | corresponds to |
|---|---|---|
| `ProductList` | the promise: a bounded list | abstract, of no code |
| `ProductQueue` | the ring buffer | `Queue functions/*.scl`, one operator per function, which returns the new queue and the status word |
| `ProductQueueSpec` | one ring as a state machine, one action per function | any caller of the four functions |
| `ListLemmas` | facts about sequences and numbers the proofs share | |
| `QueueLemmas` | what each function of the ring and of the priority queue does to the lists of entries, and the sums of the counters | |
| `ProductQueue_proofs` | the theorems about the ring | |
| `PriorityQueue` | rings per priority with counters and flags | `Priority Queue functions/*.scl` |
| `ServiceProvider` | the six methods, one action each | `AAS/OPC UA Methods/*.scl` |
| `PassiveAAS` | the cycle, one action `Scan` with one disjunct per branch of `DeviceSlow`, and the method calls between cycles | `Passive_AAS.scl`, `CheckAction.scl`, `DeviceSlow.scl`, `RemoveFinishedProduct.scl`, `AddItemIdToBuffer.scl` |
| `Plc_proofs` | the theorems about the methods and the cycle, that they implement the promise, and those about the transport, which has the same blocks | |
| `AasService` | the promise to a client: two lists of which the first ready action is run | the same, without rings, counters, positions and handshake steps |
| `PassiveAasRefinement` | the mapping under which the blocks implement it | |
| `CellCalls` | that service with the reader of its cell and the readers of the others, answers lost | the calls of `app.c` and `OPC_klient.c` |
| `CellCalls_proofs` | the theorems about it | |
| `TransportCell` | `PassiveAAS` with the simulated machine and the readers that ask for trips | `Simulace1.scl`, `DeviceSlow.scl` of the transport PLC, `request_transport_plc` |
| `NfcTag` | what a tag holds, a copy of it in memory and the functions on a copy alone | `NFC_reader.c` (checksum, size change, `NFC_InitTCardInfo`), `GetCardInfoByNumber`, the runs `NFC_Handler_Sync` writes |
| `NfcBlocks` | the layout of a recipe in blocks and pages, byte by byte | `NFC_WriteStructRange`, the loads and the comparison of `NFC_reader.c` |
| `NfcBlocks_proofs` | the theorems about it | |
| `NfcHandler` | the handler's calls, one action per access to the tag, and the product that comes and goes | `NFC_handler.c`, `NFC_WriteCheck` and what it calls |
| `ReaderAas` | the flow of a reader, the card poll, the cell and the rest of the plant around it | `State_Machine` and `Is_Card_On_Reader` of `app.c` |
| `ReaderAas_proofs`, `ReaderProgress_proofs` | the theorems about it; the second that what a tag counts was made | |
| `ReaderLegacy` | the same with the flow it falls back to, the old servers and power cuts | `State_Inicializace_ZiskaniAdres` to `State_Vyroba_SpravneProvedeni`, `NFC_recipes.c` |
| `MCProductQueue`, `MCPassiveAAS`, `MCCellCalls`, `MCTransportCell`, `MCReaderAas`, `MCReaderLegacy` | small instances | |

`ServiceProvider` extends `PriorityQueue`, which extends `ProductQueue`;
`PassiveAAS` extends `ServiceProvider`, `TransportCell` extends `PassiveAAS`; `ProductQueueSpec` instantiates
`ProductList` under the mapping `list <- Contents(q)`, `PassiveAasRefinement` instantiates
`AasService`, and `CellCalls` extends it. `ReaderLegacy` extends `ReaderAas`, which extends
`NfcHandler`, which extends `NfcTag`; `NfcBlocks` stands beside `NfcHandler`, one level lower.

What the models of the PLC abstract:

- A PLC executes a block to its end before anything else touches its data, so a
  method call and a cycle are atomic actions. One method call per cycle.
- `MOVE_BLK_VARIANT` within one array copies as if the source were read first.
- An action's parameter is the support range it falls into (`100`, `60` or
  none); a message is its meaning (the outcome, the position or the support value in it).
  Product ids are model values; `noId` is id 0, which a text that is no number gives.
- Temporary variables of optimised blocks and unassigned outputs start at 0, so an error without
  a sub-status is the text `Error:XXXX`, which a reader takes for an error.
- `subElementCount` written past its end (`PQueue_removeByPosition` with a position past
  the last entry) is taken as no write.
- In `PassiveAAS` the machine is any machine: in a waiting step each of the awaited bit and
  the error bit may be seen or not. Time is one bit: a timer that was already
  running may have expired.
- `SelectWhile` says for which values of `deviceRunning` the cycle calls `CheckAction`.
  The code has `{TRUE}`; the repository's reports recommend to remove the gate
  (`{TRUE, FALSE}`) or to invert it (`{FALSE}`). The methods run is the committed
  code. Because the committed gate never lets a handshake start (see Findings), the properties
  of a handshake are checked under the two recommended changes.
- `Simulace1` has no caller under `src/`; it is taken to be called once per cycle. The outputs no block reads
  (`Occupied`, `run_time`, `State_Int`) are left out. A trip takes 8 s at most and the step timer 60 s, so a
  trip never times out.
- In `CellCalls` a reader is the place it is at with its product, and a tag the owner of the next step
  and the marker. Each product has an id of its own there, as the readers mean it; what follows from the one
  `sr_id` all products have is the subject of the reader's modules.

What the models of the reader keep and abstract:

- The variables `integrity`, `working` and `dirty` are `sIntegrityCardInfo`,
  `sWorkingCardInfo` and `sRecipeStepIndexArray`; `raf` is the state of
  `State_Machine`, and `at` says after which handler call it goes on. The flow puts its
  handler calls into `calls`; the handler takes them one by one, and between any two of its
  accesses to the tag the product may be taken away, put back or exchanged. The card poll comes between two
  groups of calls: both tasks take the semaphore of the NFC reader. No semaphore times out.
- `NfcHandler` numbers a tag by structures: 0 the info, i the i-th step. Blocks shared by two structures are the subject of
  `NfcBlocks`. Of the info the models keep id, number of steps, the step it is at, the
  done flag and the checksum; of a step its owner (what `TypeOfProcess` comes
  to), `ProcessCellID`, `ProcessCellReservationID`, whether it has a `TimeOfProcess`, `NeedForTransport`, `IsProcess`
  and `IsStepDone`. Budget, prices and the number of drinks, which no branch looks at, are left out.
- The checksum is the additive one of the code, over the bytes the model keeps at the
  positions they have in a step, so two steps may have one sum here as there.
- Memory that is not initialised is a fixed filling (`StackInfo`), as FreeRTOS fills a stack. What the
  functions called before have left there may be something else; the numbers of steps in it are cut to what fits the model.
- `MAXERRORREADING` tries are any number of tries: an access without a tag fails,
  and a call may give up after each failure. With a tag on the reader an access succeeds.
- `sr_id` is the UID of `working`. It is `NoUid` throughout, because no code copies the UID
  that was read (see Findings).
- In `ReaderAas` the PLCs are what the reader sees of them. A report is always answered: taken or refused. A
  `ReserveAction` for the reader's own cell may be answered or not, and one without an answer may have been taken
  all the same; it is refused when the product has a reservation. The completion poll may end either
  way but well only after the cell has worked. `CellWorks` does what was ordered for the reported `sr_id` to the
  product that stands there. Other cells (`DoneElsewhere`, `SentHere`) do their steps and mark
  this cell on the tag; that the answer to such a reader is lost is `CellCalls`' subject, as is the PLC inside.
- `batch` numbers recipes, `made` and `twice` record the work done, `unheard` the steps ordered without an answer, `seen` the
  tag last loaded, `steady` that no product moved during a call: these are history, which no action
  of the reader looks at.
- `ReaderLegacy` adds the states after an unanswered report. `bunky` is the set of cells in `Bunky`, `offers` what the old
  servers know of their reservations. A server gives its numbers in order; every answer may be lost where the code
  does not look at the result. A product leaves when the reader waits for that (`StaysAssumption`), and a type is
  offered by one cell, as in the table of `GetCellInfoFromLDS` (`OneCellOffers`), so that the price by which `GetWinningCell` chooses
  does not matter.

## Runs

| run | checks | instance | why it is enough |
|---|---|---|---|
| `product_queue` | type, `RingInvariant`, `ImplementsList` | array of 4, 3 products of which two share an id | 3 slots would already give a window that wraps, with the removed entry before, at and after the wrap |
| `methods` | type, `QueuesConsistent`, `NoDoubleEntry`, `OfferIsKept`, `ReservationsExact` | committed gate, all six methods, 3 ids, 2 priorities of 2 slots, symmetric | two priorities make the two numberings differ, more ids than slots make a ring full |
| `idle_gate` | `ActiveIsRunning`, `RemovalIsExact`, `HandshakeEnds`, `WorkStarts`, `ServedInTurn` | gate inverted, 2 products, one priority, entering calls only | a second product is reserved or reported at any point of the first one's handshake, and again whenever it has left, without end |
| `no_gate` | `ImplementsService`, `AnswersFromTheLists` | gate removed, 2 products, 2 priorities, one of the two parameter sets is accepted by ReserveAction and rejected by DeviceSlow, symmetric | any product overtakes any other at any step of a handshake |
| `cell_calls` | type, `StartedOnce`, `MarkedIsReserved` | 2 products, this cell's and another's reader, 2 priorities, the code's 3 polls, 2 answers lost | one answer lost at any call leaves reader and PLC of different minds, and a second one meets its repetition; two products compete for the machine and for the place before the reader |
| `transport` | type, `FailsOnlyInTrouble`, `StuckForGood`, `CarriedFromItsCell`, `RemovesWhatItRan`, `WaitEnds` | gate inverted, 2 products at 2 cells, 3 priorities, trips with and without a time, one product returns, 1 answer lost, machine switched at any time | a trip follows one that succeeded, failed, timed out or was never answered |
| `tag_blocks` | type, `VerifiesAtOnce`, `SyncedIsOnTag`, `LoadedIsOnTag`, `OnlyTheRange` | recipes of 1 to 3 steps on both kinds of tag, 2 edits, lifted between any two blocks | 3 steps of 31 bytes begin at three different places of a page and of a block, and a sector trailer lies inside the recipe; that a marker given up is taken back by the write of the step before it (`OnlyTheRange`) needs a step whose marker lies in the block its neighbour ends in, the 10th on a Classic, and is left to the theorem |
| `reader_one` | type, `TwiceOnlyUnheard`, `ProgressIsEarned`, `SyncLeavesNothing`, `RecipeIsKept`, `TransportIsMarked` | 1 product, blank, empty or with a recipe; recipes of up to 2 steps of this cell and another; 5 recipes, with the one it comes with; each `ReserveAction` answered, lost, or taken with its answer lost | a recipe with a local step first, one with a foreign step first, and the return to storage: every branch of the decision, and the product comes back with its steps done elsewhere |
| `reader_moves` | `OwedUntilWritten` | 1 product that may be lifted at any point, fresh or with its first step done; one recipe written | the second case has a marked step that is not next to the info: two runs in one `Sync` |
| `legacy` | `CallsListedCells`, `LoadedIsOnTag`, `StartsTheStep` | 2 products with recipes of 2 steps or none, in any order on one reader, each report answered or not; a reservation number is 7 or 8; the power may fail while a machine is waited for | each step can be begun by one flow and met by the other, in one visit or the next, and the cache has to tell two tags apart |
| `order_for_product`, `power_cut` | one statement of the repository each, violated | small ones that show it | |

The bounds of the reader's instances: `MaxSteps` 2 (the smallest at which steps differ in
ownership and a run can leave one out), `MaxBatch` recipes in all, counting those the products came
with. `Stays` says that a product leaves only when the reader waits for that, which
is how the plant is meant to work; with `Stays = FALSE` it may be lifted at any point.
`ProgressIsEarned`, `TwiceOnlyUnheard`, `RecipeIsKept`, `LoadedIsOnTag`, `SyncLeavesNothing` and
`TransportIsMarked` are claimed under `Stays` only: with free moves the write-back after the poll
reaches whatever tag lies there, an interrupted write leaves a stale
checksum, a load torn between info and steps leaves the old info in `working`, and a marker whose
`WriteSafeStep` was given up in a lift is in memory and not on the tag when the transport is requested. `OwedUntilWritten`
needs no such condition. `Travels` is FALSE in `reader_moves` to keep it small; no reader run has products lifted freely *and*
worked on elsewhere. `TwiceOnlyUnheard` and `ProgressIsEarned` are claimed for the new flow alone: it does not
look at `IsProcess`, so a step the old flow has started may be done again, and after a power cut
the info is overwritten (`power_cut`). The bounds of `legacy` beside those: the reader of cell 1 only, whose
products always find their cell in `Bunky`; reservation numbers that are no number of a cell, because one that is makes
the new flow take the step for reserved (`app.c:1058`); the power fails in `State_Vyroba_SpravneProvedeni`, the longest of all waits; no new
recipes (`MaxBatch` 2).

Why `idle_gate` has one priority: with two, an item reserved at a higher priority
during a handshake shifts the global positions, and the `itemPositionP` kept from the selection
names another item. It is a hazard of the recommended repair, not of the committed
code; `transport` has three priorities and shows with `RemovesWhatItRan` that nothing else than this goes wrong.
In `no_gate` the selection is made again in every cycle, so the item may change in the middle of a handshake, which
`AasService` says as well. `HandshakeEnds` is checked in `idle_gate` only: symmetry is not sound for liveness.

What the runs show beyond their properties' names:

- `StartedOnce` names the four ways in which a machine is started twice for one step (a reservation unheard of, one left
  behind, a handshake while the product was away, an item that takes over the handshake); every other is excluded by the
  marker on the tag and by the PLC's refusals. A visit that the re-scan guard cuts short is none of them.
- `TwiceOnlyUnheard` is the same seen from one reader and its tag: a step is done twice to a product only when a `ReserveAction`
  for it had no answer and was taken, which does happen (see Findings).
- `ServedInTurn`: whoever comes in behind, however often, does not keep a product from its turn. It is claimed within one priority.
  Over several, `CheckAction` takes an action of an earlier priority first (`CheckAction.scl:49`), so a stream of these that never ends
  starves a later one; with the gate removed, an action that `ReserveAction` takes and `DeviceSlow` refuses blocks what is behind it.
- `StuckForGood`: a handshake that fails, or a cold start (the simulated machine's bits start as FALSE, and `Idle` is
  only set by the end of a handshake), leaves the machine unable to work until someone sets the bit by hand.
- `WaitEnds`: `GetStatus` may answer "inProgress" for a waiting product of another priority, upon which its reader stops asking. It is
  served nevertheless.
- `CallsListedCells` includes `AsksNoTransport`: with products that stay, the gate never matches what the old flow has
  inquired or reserved, so its own way to a transport (`State_Poptavka_Transporty` with a need, `State_Transport`,
  the transport step added at a wrong cell) is dead code.
- Each step of a firmware recipe that cell 4, 5 or 6 owns is refused for ever: the table of
  cells (`GetCellInfoFromLDS`) has three entries. Every recipe of the firmware has such a step; in `reader_one` the return to storage (owner 5) is one.

### Findings

With a run:

- The UID that is read never reaches the cards `sr_id` is made from; all products have one
  `sr_id`, and the cell does to one what was ordered for another (`order_for_product`).
- After a power cut during a step of an old server, `State_Vyroba_SpravneProvedeni` writes the uninitialised `tempInfo` over the
  info of the recipe on the tag (`power_cut`): it is filled only in `State_Vyroba_OznameniOProvedeni`, which a product that
  is met with `IsProcess` set does not pass (`app.c:1330`, `1868`, `1895`). Without a power cut the property holds.

The models show more that the documents say otherwise, without a run of its own:

- With the committed gate (`Passive_AAS.scl:4`) no reserved and reported product is ever started: `CheckAction` is called while
  `deviceRunning`, which only `DeviceSlow` sets, for an item only `CheckAction` finds. `informace/plc_aas_current_state_report.md:194`
  describes the queue as processed; other reports suspect the gate. `WorkStarts`, which `idle_gate` checks, is violated with `SelectWhile <- Gated`.
- `FreeFromQueue` (`FreeFromQueue.scl:55`) removes by a position in one priority as if it were a global one:
  it may take out another product than `informace/plc_aas_methods_table.md:4` says.
- A tag that cannot be read is answered like one with a broken recipe (`NFC_handler.c:312`), and the return to storage is
  written over its recipe.
- A failed transport is never successfully tried again (`app.c:1301`): the target refuses the reservation it
  already holds. The same happens at the transport PLC when ReserveAction succeeded and what followed failed: "Error:8501" is
  taken for a rejection each time (`app.c:682`).
- `OPC_klient.c:840` says that the status text may be "finished"; `GetStatus` never answers it. After a completed action the product is not found, the
  poll fails, and the recipe is given up: in `cell_calls` every completed action ends so.
- A `ReserveAction` without an answer is taken for a failure: the step stays pending and the re-scan guard is not set
  (`app.c:1091`-`1102`). When the PLC had taken it and the machine is done, the next try is accepted and the step is done again. These are the steps
  `TwiceOnlyUnheard` leaves out. `informace/recipe_step_routing_implementation.md:63` says of the guard that it prevents duplicate `ReserveAction` calls.
- `GetStatus` answers the position inside one priority (`Queue_find`'s, which `PQueue_find` passes on) and compares it with `activeItemPosition`,
  which counts over all of them. `informace/current_aas_plc_explanation.md:432` calls the first global as well. After one product is reserved at priority 0
  and another at priority 1, the second is answered position 0, or "inProgress" while the first is run. `AnswersFromTheLists` says what is
  answered, not what the documents promise.
- `ReserveAction` lets a score fall below 0 and then takes it for supported; `GetSupported`
  reports such an item as 0.
- With no step marked, `NFC_Handler_Sync` compares the info alone and answers that nothing is to be
  written, although a step `WriteSafeStep` could not write differs from the tag.
- After a recovery (`NFC_Handler_Init`, then a `Sync`) `TRecipeStepLoaded` stays false, the next
  `LoadData` finds the data the same and copies the flag: no step of another cell can be
  routed until another tag is read. `NFC_Handler_Init` also drops the arrays and keeps the infos; an access to the missing
  array traps the processor (`Reboot`).
- `informace/cross_cell_handover_flow.md:8` on says that the next step's target is reserved when a step is finished; the code reserves
  for the step that is finished (`app.c:1879`), so the gate set there never matches.
- `informace/reader_plc_aas_flow.md:78` says that the old flow is used only when `LEGACY_FLOW` is defined; the code falls back to it
  at run time. There a server that does not answer is inquired for ever (`State_Poptavka_Vyroba`), and the report to
  the PLC is not tried again until the product is taken away. An unanswered report of a finished recipe leads to the
  return to storage instead of `State_KonecReceptu`; a product that needs a transport is never served by the old flow.
- The two flows use `ProcessCellReservationID` differently (`app.c:1258` writes the cell, `app.c:1498` the reservation), which
  `informace/reservation_id_semantics_lifecycle_report.md` does not say; they also disagree about who does what (type Shaker is
  offered by cell 1 and owned by cell 3).
- The results of `DoReservation` and `IsFinished` are not looked at; `DoReservation` is called also when the tag could not be written.
- On the tag: a new recipe written half is not noticed by the next load when the old sum fits; a marker write lifted between its last block and
  the comparison is on the tag while memory says that it is not; nothing compares a recipe's size with the tag's room, and the page
  number is cut to 8 bits.

### Fairness

`FairSpec` of `PassiveAAS` assumes that the PLC cycle goes on (weak fairness of `Scan`: the
cycle is run by the PLC's operating system for ever) and that a running step
timer expires (weak fairness of `TimeOut`: `DeviceSlow` uses a TON timer). Nothing is assumed of
clients or of the machine. Both conditions are written with a state
predicate for ENABLED (`Settled`: a cycle would change nothing; `Timing`: the timer
runs), because TLC takes minutes to evaluate ENABLED of these actions in a few hundred states. `TransportFairness` says the same of `TransportCell`
and that the simulated machine's own timer expires; `CycleStep` tells a step of the cycle from a reader's. `AasService`, `CellCalls` and the reader modules state no fairness: what they claim is safety.

### What the properties catch

Beside some definitions stands an operator `Slip_<name>`: the same definition
with one likely mistake, such as a dropped guard, the wrong bound or two swapped positions.
`PROJECT.json` pairs every property of every passing run with a slip; with the slip in the
place of the definition, TLC finds that property violated in the same run.

## Proofs

What follows holds for every value of the constants: every length of the arrays, number of
priorities, set of products, parameters and readers, and number of lost answers. The
proofs use the assumptions the modules name (`SubQueueCountAssumption`, `ProductAssumption`,
`PriorityCountAssumption`, `ItemAssumption` and so on), which say no more than that the
sizes are positive and that id 0 is no product's; a theorem that needs more says so in its `ASSUME`.

| theorem | says |
|---|---|
| **The ring** (`ProductQueue_proofs`) | |
| `TypeCorrect`, `RingCorrect` | the indices and the count describe one window of the ring, filled without a hole |
| `QueueIsList` | the ring implements the list: `ImplementsList` |
| **The blocks of the PLC** (`Plc_proofs`), under `NoneFreedInHandshake` | |
| `PlcTypeCorrect`, `PlcQueuesConsistent`, `PlcNoDoubleEntry` | `TypeOK`, `QueuesConsistent`, `NoDoubleEntry` |
| `PlcOfferIsKept`, `PlcReservationsExact` | the two action properties of the methods |
| `PlcActiveIsRunning` | `ActiveIsRunning`, with one priority |
| `PlcRemovalIsExact` | `RemovalIsExact`, with the gate removed or with one priority |
| `PlcAnswersFromTheLists` | `AnswersFromTheLists` |
| `PlcImplementsService` | the blocks implement the service, `ImplementsService`, with the gate removed (`SelectWhile = BOOLEAN`) |
| **The service and the readers around it** (`CellCalls_proofs`) | |
| `CellTypeCorrect`, `CellStartsOnce`, `CellKeepsReservation` | `TypeOK`, `StartedOnce`, `MarkedIsReserved` |
| `CellHoldsHandshake` | while the machine is busy, the product it was told of is reserved and reported |
| **The transport** (`Plc_proofs`) | |
| `TransportTypeCorrect`, `TransportFailsOnlyInTrouble`, `TransportStuckForGood` | `TransportTypeOK`, `FailsOnlyInTrouble`, `StuckForGood` |
| `TransportKeepsQueues` | `QueuesConsistent` and `NoDoubleEntry` of the transport PLC |
| `TransportCarries`, `TransportRemovesWhatItRan` | `CarriedFromItsCell`, `RemovesWhatItRan`, when the gate is not removed (`SelectWhile # BOOLEAN`) |
| **The blocks of a tag** (`NfcBlocks_proofs`) | |
| `BlocksAgree` | the inductive invariant: which copy each byte of the tag agrees with |
| `BlocksTypes`, `BlocksVerify`, `SyncIsOnTag`, `LoadIsOnTag`, `BlocksKeepToTheRange` | `TypeOK`, `VerifiesAtOnce`, `SyncedIsOnTag`, `LoadedIsOnTag`, `OnlyTheRange` |
| **The reader** (`ReaderAas_proofs`, the last in `ReaderProgress_proofs`) | |
| `ReaderOwesUntilWritten` | `OwedUntilWritten` |
| `ReaderMarksTransport` | `TransportIsMarked`, where products stay until they are waited for, a single one travels, and none enters with a cell inquired |
| `ReaderKeepsRecipes` | `RecipeIsKept`, where products stay until they are waited for |
| `ReaderTypes` | `TypeOK`, where products stay and the first tags count their steps (`FirstTagsCount`) |
| `ReaderEarnsProgress` | `ProgressIsEarned`, under the hypotheses of `ReaderMarksTransport` and `ReaderTypes`, where a product enters with no step done and none reserved at this cell (`FirstTagsNew`) and no recipe is empty (`RecipesHaveSteps`) |

How the arguments go:

- **Ring.** `IInv` is `TypeOK /\ RingInvariant`: the window alone is not inductive without the types, and the
  types alone are not, because that `count` stays within the array after a push follows from the window's shape
  (`next # first` says that the ring is not full). The steps rest on lemmas about the slot arithmetic
  (`SlotIndex` and those after it) and about `CloseGap` in each of its branches. For the refinement
  `PushContents` and `RemoveContents` say that a push appends to the list of the entries and a removal takes out
  the entry at its position, whichever way the block moves go.
- **Priority queue.** An entry has a place (priority and local position) and one global position, the sum of
  the counters of the earlier priorities plus the local position. `CountUpTo` is a recursive function; `CountSteps`
  gets its recursion out of the definition, and `PlaceIsUnique` and `PlaceIsFound` say that the search
  loop's answer is the one place of a position. `PQPush`, `PQRemove` and `PQFind` say what each function does to the lists.
- **Methods and cycle.** `IInv` of `Plc_proofs` adds to type, consistency and no double entry: while the device
  runs, its item is reserved and reported and the two positions kept for the removal lie inside the queues
  (`HandshakeKeeps`); with one priority the kept position is still the item's (`OneListKeeps`). Without
  it a removal could be told a position past the end, which leaves the counters wrong.
- **`NoneFreedInHandshake`** is `SelectWhile = {TRUE}`, the committed code, or that no client calls `FreeFromQueue`.
  It is needed, because the invariant is false otherwise: with the gate changed, `FreeFromQueue` compares a position of one
  numbering with one of the other and may take out the running product, or an earlier one, under the device;
  the position kept then lies past the end and `PQueue_removeByPosition` breaks the counters. The readers of the repository
  never call that method. The two theorems with a further hypothesis fail without it in the way `idle_gate`'s
  single priority is explained above.
- **Refinement of the service.** A place of the service is an entry's priority and the index in its list. `PlacesInOrder`
  says that the service's order of two places is the order of their global positions, so that the first of some places is
  the one with the least (`FirstPlace`), and `PositionIsGlobal` counts the places before one by a bijection with the
  positions below it. From these `PickIsFound`: what the walk of `CheckAction` finds is what the service picks, at
  the position the service publishes. `RemovalIsPromised` says that the two removals by position at the end of a
  handshake take out that action and its report, for which `NoDoubleEntry` is needed: the service removes the report by
  its id, the code by its position. The rest is one lemma per branch of `DeviceSlow` and per method, and `RunsInStep`
  (the device runs just while its step is not 0), without which `Announce` might begin twice. The hypotheses are
  those of `no_gate`: with the committed gate nothing is ever run, and an item kept over the cycles is not the service's pick.
- **Service and readers.** The invariant has three parts. `ListedOnce`: no product is in a list twice, so a removal by place takes out all
  there is of it. `GuardSpent`: the re-scan guard never holds a product that has yet to reserve or has just been
  reported with a step of this cell to do, so it cuts no such visit short. For `StartedOnce` the invariant `Sound` says for each product without a
  mishap what its reader's stage, the lists, the marker and the machine may say together: a product whose step was
  started is in the running handshake or reserved no more, and its reader will not reserve it.
- **Transport.** `TInv` adds to the PLC's invariant, which needs no hypothesis here because no reader frees, that the machine is
  in one of seven phases and, in a handshake without trouble, in the phase the step of `DeviceSlow` expects
  (`InStepWithMachine`). `Carries` says that the device has the item and the trip it was told of, and that a
  product which has left its cell is reported only until its own handshake ends; `KeepsPlace` that the position
  kept is the item's place unless a reservation came before it. With the gate removed the item may change during a
  handshake, so both are claimed without that.

- **Blocks.** The arithmetic comes first. The loop of `NFC_GetMifareClassicIndex` gives `1 + i + (i + 1) \div 3`
  (`ClassicIndex`; the model's recursive function is compared with this at the least index where they would differ),
  so blocks have places of their own which are never a trailer (`PlacesApart`); a byte is read at the address
  it is written to, although an Ultralight is written by 4 bytes and read by 16 (`ReadWhereWritten`); the load loops,
  with their cases for a step that begins inside a block, fill every index with the byte that belongs there
  (`AllCopied`). From there tag and copies are compared byte by byte. A block that is written carries bytes of the
  structures next to the range (`Neighbours`), so `BlocksInv` says which copy those agree with at each point of a
  pass. After a load it is both copies, but for dirty steps (`AgreesLoaded`). While a safe write is under way it is
  `integrity`, but for the marker that is written or was given up (`AgreesEdited`). In `Sync` it is `working`, except in
  the ranges still to come, and no two of these are next to each other (`RunsOf`, `AgreesSyncing`): if they were, the first one's
  last block would put bytes of the second on the tag before its turn. `BlocksWritten` says that the blocks already
  written of a range hold what they were filled with, of which the verification follows (`WrittenIsSame`).
  The theorems hold for every `MaxSteps`; `Init` has no state on a kind of tag whose numbers of blocks or pages
  would not fit (`LongestRecipe`: 98 steps on a Classic, 6 on an Ultralight). The code does not
  compare a recipe with that room: `NFC_GetMifareClassicIndex` returns a `uint8_t`, and block 191 (from 0) of a longer
  recipe gets the number of the manufacturer's block.
- **Reader.** The action property `OwedUntilWritten` needs of a state only that the numbers of steps are numbers and
  `dirty` an array (`Arrays`): then a resize keeps each mark within its new length, whatever the length, and only
  `NFC_Handler_SafeWrite`'s verified write takes one away. No product need stay, and tags, recipes and
  what the stack holds are any (`RecipesAssumption`, `FirstTagsAssumption` say what fits the fields of the structures).
  `Arrays` is not `TypeOK`: that the copies have the length their infos say is false in the code after a load that
  fails between info and steps, and only with products that stay (`MCReaderOne`) would it be an invariant to prove.

  `TransportIsMarked` is about one marker across two calls of the handler and their accesses to the tag. `Carried`
  follows the marker: in `working` with its write to come (`ToWrite`), in the integrity copy and, step by step of the
  run, on the tag (`BeingWritten`), on the tag with the info to come (`ToSync`, `Syncing`: the `Sync` may write this
  step again, with the same marker, or give up), and on the tag whose info agrees (`Synced`), the only stage at which
  the handler is idle. With the product in place a write is not given up: what is read back is what was
  written (`Transferred`), and its run lies within the recipe. For that `Carried` says what a load leaves before the decision
  (`Loading`): the lengths of `working` and of the integrity copy agree when `LoadData` answered 0. A missing array
  panics, and the restart is at the loop's top.
  The hypotheses are `reader_one`'s and are needed: a product lifted between the reservation and the transport leaves
  unmarked (`Stays`); a product that comes with `ProcessCellID` of another cell than the owner is marked for that
  one (`NoneInquired`); and the model keeps one `targetHolds`, the reservation of the one product under way (`OneProduct`).

  `RecipeIsKept` is about the two copies and the tag, of which the code compares the bytes and never the recipe.
  `Kept` says which of the three infos tell the same (`Same`) at each point of a visit. After `LoadData` has answered 0
  the integrity copy and the tag do, and `working` does unless the tag is free (`Agree`); what is written from then on
  is of the tag's recipe, or the tag is free (`MayBeWritten`); and on the way to a new recipe both the tag and the
  integrity copy are free (`GivenUp`). Between two visits `working` and the integrity copy tell the same, or the
  latter is free or has no steps (`Settled`): this is what a load relies on that reads nothing because the bytes are the same
  (`NFC_Handler_IsSameData`). It needs `ArrayMade`, that a copy with steps has its array `created`, so that a load that fails for a
  missing array leaves no steps by which the copies would have to agree; `Stands`, that a reader
  without a product is in no call; and `InfoWritten`, that the info written by itself is never taken back
  while the product stays. Any number of products may come one after the other, and other cells may work on those that
  are away. `Stays` is needed: a write goes to whatever tag lies on the reader.

  The reader's `TypeOK` says that no tag ever counts more steps done than it has, while the copies in memory may:
  `working` begins as what the stack held, and a load that fails between info and steps leaves the two copies with
  different numbers. `Sound` says when they count: `working` whenever a write may start or is under
  way (`CountedToWrite`) and when a load has answered 0 or the cell is polled (`CountedWhenLoaded`), and otherwise it tells the
  same as `integrity`, or the load under way brings it the info, or it has no step done (`Paired`). That `actual` moves on
  only where a step is left comes from the decision (`~Finished`), three calls of the handler before it is written. `Stays` is needed:
  a product lifted during a load leaves an info on which the next write-back would build.

  `ProgressIsEarned` relates the tag to what the machines did, and between the two lie the PLC's orders, both copies and
  every write. The PLC knows each product by the same `sr_id` (`Nameless`), so the answer to a poll is for *the* order, whatever
  product it was given for; that this is the step at hand is `PollOrdered`, which follows from the reservation just made, or
  from the mark the reader found; an order the PLC took and the reader heard nothing of is for the step at hand as well, and is
  replaced only when it is done. A mark is trusted by the code without asking the PLC (`AlreadyReserved`), so the
  invariant follows the marks: one on the tag, at or behind the step the info is at, is at that step and the order there is
  is for it (`TagsEarned`); one in `working` is on the tag too, and one in the integrity copy is, or its step is still to
  be written (`CopyMarked`). While a new recipe is written over a finished one, its info, with no step done, is on the tag
  before the old marks are gone; those are of steps still to be written (`BeingReplaced`), and a restart in
  the middle of that does not happen, because the sum that could trap was taken before the first structure. What
  `working` has for the tag is always one of two: that new recipe from its first structure on (`Fresh`), or the tag's own
  recipe, further on by steps that were made (`Continues`). The second needs that a `Sync` is entered with the info
  that was decided on, so that the copies tell the same wherever nothing is left to be written (`Matched`), for
  which each step marked dirty is covered by a run of that `Sync` (`Owing`; `RunsCover` says so of `Runs`). The further hypotheses: a tag
  that came with steps done would have had them done before the first state, and one that came reserved would have been
  ordered before; the recipes of `GetCardInfoByNumber` that `State_NovyRecept` and `State_Presun` ask for have steps, and an empty one would
  leave nothing dirty to be written.

TLC has checked the invariants on the instances of the runs before they were proved.

Model-checked only:

- liveness (`HandshakeEnds`, `WorkStarts`, `ServedInTurn`, `WaitEnds`) and what rests on ENABLED, which
  the prover does not reach;
- of the reader: `SyncLeavesNothing`, `TwiceOnlyUnheard` and `LoadedIsOnTag`. They rest on the checksum telling the steps in memory from
  those on the tag (`NFC_Handler_IsSameData`), and a sum of 16 bits does so only for some constants: with a cell number of 32768
  at a byte that counts twice, a marker leaves it as it was. The runs show them for the cell numbers of the plant;
- of the old flow `CallsListedCells` and `StartsTheStep`.

## Not modelled

- `GetMessage` and `GetPQueueStatus` (text), the vendored libraries (open62541, PN532 driver,
  Ethernet, telnet, mDNS), which are most of the lines of the repository, and the screens.
- Of the old flow: two cells that offer one type and the price between them; a product that moves
  freely; its way to a transport, which is not reached; `resolve_next_target_cell` and the helpers no flow calls.
- The timeouts of the semaphores: a taker that gives up tries again in the next iteration, except where
  the step is written without one; the connection test and telnet tasks, which change nothing the flow reads.
- `NFC_WriteAllData`, `NFC_LoadAllData`, `NFC_CopyTCardInfo`, `NFC_Handler_RemoveIndex`, which no flow calls.

## Plan

1. Proofs: `TwiceOnlyUnheard`, to which `ReaderEarnsProgress` is one half, from the assumption that the sums of the steps met differ.
2. The semaphores of the reader's tasks with their timeouts, each access that goes on without the semaphore as an interleaving.
3. An abstract specification of the handler (a tag with pending changes) that `NfcHandler` implements.
