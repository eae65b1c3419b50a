------------------------------ MODULE NfcBlocks ------------------------------
(***************************************************************************)
(* How a recipe lies on a tag (NFC_Reader): an info of 12 bytes and steps  *)
(* of 31 bytes without a gap, written in blocks of 16 bytes on a MIFARE    *)
(* Classic and in pages of 4 on an Ultralight, read by 16 bytes on both.   *)
(* A block at a border belongs to two structures and is written with each  *)
(* of them, the foreign part from the copy in memory.  NfcHandler writes   *)
(* whole structures; this module is what lies below.                       *)
(*                                                                         *)
(* A byte is the version of the edit it stems from.  One product, which    *)
(* may be lifted between any two blocks; no other reader writes to it.  A  *)
(* load is that of a card new to the reader: what the cache lets it skip   *)
(* is in NfcHandler.                                                       *)
(***************************************************************************)
EXTENDS NfcTag

CONSTANTS MaxSteps,    \* the longest recipe
          MaxEdits     \* edits, to bound the runs

ASSUME SizesAssumption == MaxSteps \in Nat \ {0} /\ MaxEdits \in Nat

VARIABLES medium,      \* the kind of tag
          tag,         \* its memory, by address
          sizes,       \* RecipeSteps of the info of each version
          integrity,   \* the two copies, [n, at]: RecipeSteps and bytes
          working,
          dirty,       \* sRecipeStepIndexArray
          op,          \* the write under way, or NoWrite
          unsure,      \* bytes of markers given up before they were read back
          turn,        \* what the pass of the flow has come to: it loads, edits, syncs
          synced       \* nothing was edited since Sync answered that all is written

vars == <<medium, tag, sizes, integrity, working, dirty, op, unsure, turn, synced>>

Media == {"classic", "ultralight"}
TRecipeInfo_Size == 12
TRecipeStep_Size == 31
PAGESIZE_CLASSIC == 16
PAGESIZE_ULTRALIGHT == 4
OFFSETDATA_ULTRALIGHT == 8
Size(n) == TRecipeInfo_Size + n * TRecipeStep_Size
Offsets == 0 .. Size(MaxSteps) - 1

\* The bytes of structure s.
First(s) == IF s = 0 THEN 0 ELSE TRecipeInfo_Size + (s - 1) * TRecipeStep_Size
BytesOf(s) == First(s) .. First(s + 1) - 1
BytesOfRun(run) == UNION {BytesOf(s) : s \in run.from .. run.to}

\* The bytes of the fields that change: CheckSum, ActualRecipeStep, RecipeDone and
\* CheckSum, ProcessCellReservationID and the flags of step i.
CheckSumBytes == {10, 11}
Progress == {4, 9} \cup CheckSumBytes
Marker(i) == {First(i) + 12, First(i) + 13}
Flags(i) == {First(i) + 30}

-----------------------------------------------------------------------------
\* Where a block lies.

\* Skips no trailer.
Slip_MifareClassicIndex == [i \in 0 .. Size(MaxSteps) |-> i + 1]

\* NFC_GetMifareClassicIndex: block 0 is the manufacturer's and every fourth one
\* the trailer of a sector.
MifareClassicIndex ==
  LET number[i \in 0 .. Size(MaxSteps)] ==
        IF i = 0 THEN 2
        ELSE LET next == number[i - 1] + 1 IN IF next % 4 = 0 THEN next + 1 ELSE next
  IN [i \in 0 .. Size(MaxSteps) |-> number[i] - 1]

Page == [m \in Media |-> IF m = "classic" THEN PAGESIZE_CLASSIC ELSE PAGESIZE_ULTRALIGHT]
PlaceOf(m, block) == IF m = "classic" THEN MifareClassicIndex[block]
                     ELSE block + OFFSETDATA_ULTRALIGHT

\* The bytes of the blocks the longest recipe takes; the address each is written
\* to, and the one it is read from.
Bytewise == 0 .. (Size(MaxSteps) \div PAGESIZE_CLASSIC + 1) * PAGESIZE_CLASSIC - 1
WrittenTo == [m \in Media |-> [b \in Bytewise |->
                PlaceOf(m, b \div Page[m]) * Page[m] + (b % Page[m])]]
ReadFrom == [m \in Media |-> [b \in Bytewise |->
               LET chunk == b \div PAGESIZE_CLASSIC
                   block == chunk * (PAGESIZE_CLASSIC \div Page[m])
               IN PlaceOf(m, block) * Page[m] + (b % PAGESIZE_CLASSIC)]]

\* The memory of the tag and the part of it recipes may use.
Addresses == UNION {0 .. WrittenTo[m][b] : m \in Media, b \in Bytewise}
ForData(a) == IF medium = "classic" THEN a \div 16 # 0 /\ (a \div 16) % 4 # 3
              ELSE a \div 4 >= 4

\* The longest recipe whose blocks have numbers that fit a byte, and whose pages
\* the driver does not refuse; nothing compares a recipe with the room on its tag.
LongestRecipe == [m \in Media |-> IF m = "classic" THEN 98 ELSE 6]

-----------------------------------------------------------------------------
\* Reading.

\* Forgets that the steps begin inside a block once the first is read.
Slip_Copied(zacatek, end, base) ==
  LET first == zacatek \div PAGESIZE_CLASSIC
      posun == zacatek % PAGESIZE_CLASSIC
  IN [i \in base .. base + end - zacatek - 1 |->
        IF i - base + posun < PAGESIZE_CLASSIC
          THEN first * PAGESIZE_CLASSIC + posun + i - base
          ELSE first * PAGESIZE_CLASSIC + i - base]

\* The loop of NFC_LoadTRecipeSteps and NFC_LoadTRecipeStep over the bytes from
\* zacatek to end - 1: for each index of the array of steps it fills, counted
\* from base, the byte it takes.
Copied(zacatek, end, base) ==
  LET first == zacatek \div PAGESIZE_CLASSIC
      posun == zacatek % PAGESIZE_CLASSIC
      inFirst == {k \in 0 .. PAGESIZE_CLASSIC - 1 :
                    k + first * PAGESIZE_CLASSIC < end /\ k + posun < PAGESIZE_CLASSIC}
      later == (first + 1) * PAGESIZE_CLASSIC .. end - 1
      filled == {k + base : k \in inFirst}
                \cup {b - first * PAGESIZE_CLASSIC - posun + base : b \in later}
  IN [i \in filled |-> first * PAGESIZE_CLASSIC + posun + i - base]

\* For each byte of the copy in memory that is filled, the byte of the recipe it
\* is filled with; the array of steps begins where the info ends.
IntoSteps(copied) ==
  [b \in {TRecipeInfo_Size + i : i \in DOMAIN copied} |-> copied[b - TRecipeInfo_Size]]
NFC_LoadTRecipeInfoStructure == [b \in 0 .. TRecipeInfo_Size - 1 |-> b]
NFC_LoadTRecipeSteps ==
  [n \in 1 .. MaxSteps |-> IntoSteps(Copied(TRecipeInfo_Size, Size(n), 0))]
NFC_LoadTRecipeStep ==
  [s \in 1 .. MaxSteps |->
    LET zacatek == TRecipeInfo_Size + (s - 1) * TRecipeStep_Size
    IN IntoSteps(Copied(zacatek, zacatek + TRecipeStep_Size, (s - 1) * TRecipeStep_Size))]

\* What is read by such a function, zero where nothing is.
Read(from, b) == IF b \in DOMAIN from THEN tag[ReadFrom[medium][from[b]]] ELSE 0

\* NFC_CheckStructArrayIsSame
SameOnTag(card, run) ==
  \A s \in run.from .. run.to : \A b \in BytesOf(s) :
    card.at[b] = Read(IF s = 0 THEN NFC_LoadTRecipeInfoStructure
                      ELSE NFC_LoadTRecipeStep[s], b)

\* NFC_Handler_LoadData, of the card that is read anew.
Loaded ==
  LET n == sizes[Read(NFC_LoadTRecipeInfoStructure, 3)]
  IN [n |-> n, at |-> [b \in Offsets |->
                         Read(IF b < TRecipeInfo_Size THEN NFC_LoadTRecipeInfoStructure
                              ELSE NFC_LoadTRecipeSteps[n], b)]]

-----------------------------------------------------------------------------
\* Writing.

NoWrite == [call |-> "none", phase |-> "none"]
Idle == op = NoWrite

\* As many blocks as the bytes of the range fill.
Slip_Blocks(run) ==
  LET first == First(run.from) \div Page[medium]
  IN first .. first + (Cardinality(BytesOfRun(run)) - 1) \div Page[medium]

\* The first and the last byte of a range as NFC_WriteStructRange reckons them.
Blocks(run) ==
  LET zacatek == IF run.from > 0 THEN First(run.from) ELSE 0
      konec == IF run.to > 0
                 THEN TRecipeInfo_Size + (run.from - 1) * TRecipeStep_Size
                      + TRecipeStep_Size * (run.to - run.from + 1) - 1
                 ELSE TRecipeInfo_Size - 1
  IN zacatek \div Page[medium] .. konec \div Page[medium]

Info == [from |-> 0, to |-> 0]
FirstBlock(run) == CHOOSE i \in Blocks(run) : \A j \in Blocks(run) : i <= j

Writing(call, run, left, saved) ==
  [call |-> call, run |-> run, left |-> left, saved |-> saved,
   phase |-> IF call = "WriteSafeStep" THEN "head" ELSE "write",
   block |-> IF call = "WriteSafeStep" THEN FirstBlock(Info) ELSE FirstBlock(run)]

Card == IF op.call = "Sync" THEN working ELSE integrity

\* What a block is filled with at byte b.
Filled(b) == IF b < Size(Card.n) THEN Card.at[b] ELSE 0

PutBlock(block) ==
  LET page  == Page[medium]
      place == PlaceOf(medium, block)
  IN tag' = [a \in Addresses |->
               IF a \div page = place THEN Filled(block * page + (a % page)) ELSE tag[a]]

NextBlock ==
  LET range == IF op.phase = "head" THEN Blocks(Info) ELSE Blocks(op.run)
  IN op' = IF op.block + 1 \in range THEN [op EXCEPT !.block = @ + 1]
           ELSE IF op.phase = "head"
                  THEN [op EXCEPT !.phase = "write", !.block = FirstBlock(op.run)]
           ELSE [op EXCEPT !.phase = "verify"]

WriteBlock ==
  /\ op.phase \in {"head", "write"}
  /\ PutBlock(op.block)
  /\ NextBlock
  /\ UNCHANGED <<medium, sizes, integrity, working, dirty, unsure, turn, synced>>

\* The product is lifted: the write is begun again, goes on behind the info
\* nobody looks after, or is given up, and a safe write takes its change back.
Lifted ==
  /\ ~Idle
  /\ \/ /\ op' = Writing(op.call, op.run, op.left, op.saved)
        /\ UNCHANGED <<integrity, unsure>>
     \/ /\ op.phase = "head"
        /\ op' = [op EXCEPT !.phase = "write", !.block = FirstBlock(op.run)]
        /\ UNCHANGED <<integrity, unsure>>
     \/ /\ op' = NoWrite
        /\ unsure' = unsure \cup (IF op.call = "WriteSafeStep" THEN Marker(op.run.from) ELSE {})
        /\ integrity' = IF op.call = "Sync" THEN integrity ELSE op.saved
  /\ UNCHANGED <<medium, tag, sizes, working, dirty, turn, synced>>

\* Steps still to be written keep what working says.
CopiedToWorking(card, steps) ==
  [n  |-> card.n,
   at |-> [b \in Offsets |->
             IF b < TRecipeInfo_Size
                \/ \E s \in steps : b \in BytesOf(s) /\ ~(s \in DOMAIN dirty /\ dirty[s])
               THEN card.at[b] ELSE working.at[b]]]

Verified ==
  /\ op.phase = "verify"
  /\ SameOnTag(Card, op.run)
  /\ IF op.call = "Sync"
       THEN /\ integrity' =
                 [n  |-> working.n,
                  at |-> [b \in Offsets |-> IF b \in BytesOfRun(op.run) THEN working.at[b]
                                            ELSE integrity.at[b]]]
            /\ dirty' = [s \in DOMAIN dirty |-> dirty[s] /\ s \notin op.run.from .. op.run.to]
            /\ UNCHANGED working
            /\ IF op.left = {} THEN op' = NoWrite /\ synced' = TRUE
               ELSE LET run == CHOOSE r \in op.left : \A q \in op.left : r.from <= q.from
                    IN /\ op' = Writing("Sync", run, op.left \ {run}, op.saved)
                       /\ UNCHANGED synced
       ELSE /\ working' = CopiedToWorking(integrity, IF op.call = "WriteSafeStep"
                                                     THEN 1 .. integrity.n ELSE {})
            /\ op' = NoWrite
            /\ UNCHANGED <<integrity, dirty, synced>>
  /\ UNCHANGED <<medium, tag, sizes, unsure, turn>>

-----------------------------------------------------------------------------
\* What the flow does with the copies.

Edited(card, bytes, version) ==
  [card EXCEPT !.at = [b \in Offsets |-> IF b \in bytes THEN version ELSE @[b]]]
NewVersion(n) == Len(sizes) <= MaxEdits /\ sizes' = Append(sizes, n)
Version == Len(sizes) + 1

\* A step is done: WriteStep, then WriteSafeInfo, which sends the old checksum.
StepDone(i) ==
  /\ Idle /\ turn = "edit" /\ i <= working.n /\ NewVersion(working.n)
  /\ working' = Edited(working, Flags(i) \cup Progress, Version)
  /\ dirty' = [dirty EXCEPT ![i] = TRUE]
  /\ integrity' = Edited(integrity, Progress \ CheckSumBytes, Version)
  /\ op' = Writing("WriteSafeInfo", Info, {}, integrity)
  /\ synced' = FALSE /\ turn' = "sync"
  /\ UNCHANGED <<medium, tag, unsure>>

\* A step is reserved: WriteSafeStep.
StepMarked(i) ==
  /\ Idle /\ turn = "edit" /\ i <= integrity.n /\ NewVersion(integrity.n)
  /\ integrity' = Edited(integrity, Marker(i) \cup CheckSumBytes, Version)
  /\ op' = Writing("WriteSafeStep", [from |-> i, to |-> i], {},
                   Edited(integrity, CheckSumBytes, Version))
  /\ synced' = FALSE /\ turn' = "sync"
  /\ UNCHANGED <<medium, tag, working, dirty, unsure>>

\* A new recipe of n steps is put into working.
NewRecipe(n) ==
  /\ Idle /\ turn = "edit" /\ NewVersion(n)
  /\ working' = [n |-> n, at |-> [b \in Offsets |-> IF b < Size(n) THEN Version ELSE 0]]
  /\ dirty' = [i \in 1 .. n |-> TRUE]
  /\ synced' = FALSE /\ turn' = "sync"
  /\ UNCHANGED <<medium, tag, integrity, op, unsure>>

\* NFC_Handler_Sync
Sync ==
  LET runs == Runs(dirty)
      run  == CHOOSE r \in runs : \A q \in runs : r.from <= q.from
  IN /\ Idle /\ turn = "sync"
     /\ op' = Writing("Sync", run, runs \ {run}, integrity)
     /\ turn' = "load"
     /\ UNCHANGED <<medium, tag, sizes, integrity, working, dirty, unsure, synced>>

\* Keeps the array of the last recipe.
Slip_Resized(n) == dirty

\* The array of flags for a recipe of n steps.
Resized(n) == [i \in 1 .. n |-> i \in DOMAIN dirty /\ dirty[i]]

\* NFC_Handler_LoadData
Load ==
  /\ Idle
  /\ integrity' = Loaded
  /\ dirty' = Resized(Loaded.n)
  /\ working' = CopiedToWorking(Loaded, 1 .. Loaded.n)
  /\ synced' = FALSE /\ turn' = "edit" /\ unsure' = {}
  /\ UNCHANGED <<medium, tag, sizes, op>>

Next ==
  \/ WriteBlock \/ Lifted \/ Verified \/ Sync \/ Load
  \/ \E i \in 1 .. MaxSteps : StepDone(i) \/ StepMarked(i) \/ NewRecipe(i)

\* A tag with room for MaxSteps steps, and a recipe of so many that was written
\* by this reader.
Init ==
  /\ medium \in Media /\ MaxSteps <= LongestRecipe[medium]
  /\ sizes = <<MaxSteps>>
  /\ integrity = [n |-> MaxSteps, at |-> [b \in Offsets |-> 1]]
  /\ working = integrity
  /\ tag = [a \in Addresses |-> IF \E b \in Offsets : WrittenTo[medium][b] = a THEN 1 ELSE 0]
  /\ dirty = [i \in 1 .. MaxSteps |-> FALSE]
  /\ op = NoWrite /\ synced = FALSE /\ turn = "load" /\ unsure = {}

Spec == Init /\ [][Next]_vars

-----------------------------------------------------------------------------
\* Every variable keeps its type, and there is one mark for each step.
TypeOK ==
  /\ medium \in Media
  /\ tag \in [Addresses -> 0 .. Len(sizes)]
  /\ \A c \in {integrity, working} : c.n \in 1 .. MaxSteps
                                   /\ c.at \in [Offsets -> 0 .. Len(sizes)]
  /\ Len(dirty) = working.n
  /\ op.phase \in {"none", "head", "write", "verify"} /\ turn \in {"load", "edit", "sync"}

\* A write changes bytes of the structures it is told to write and the zeros
\* behind the recipe, no byte of another structure, though blocks are shared,
\* but for a marker that was given up, which it takes back, and no block that is
\* not for data (NFC_WriteStructRange).
OnlyTheRange ==
  [][\A a \in Addresses : tag'[a] # tag[a] =>
       \/ \E b \in BytesOfRun(op.run) : WrittenTo[medium][b] = a
       \/ op.call = "WriteSafeStep" /\ \E b \in BytesOf(0) : WrittenTo[medium][b] = a
       \/ \E b \in unsure : WrittenTo[medium][b] = a
       \/ ForData(a) /\ tag'[a] = 0]_vars

\* Once all its blocks are written, however often it was begun again, a write
\* passes its verification: the blocks that are written and the loops that read
\* them back agree on every byte of the range (NFC_CheckStructArrayIsSame).
VerifiesAtOnce == op.phase = "verify" => SameOnTag(Card, op.run)

\* When Sync has answered that all is written, however often the product was
\* lifted before, the tag holds working byte by byte.
SyncedIsOnTag ==
  synced => \A b \in (0 .. Size(working.n) - 1) \ unsure :
              tag[WrittenTo[medium][b]] = working.at[b]

\* A card that is loaded is what the tag holds, byte by byte.
LoadedIsOnTag ==
  LET card == Loaded
      written == WrittenTo[medium]
  IN \A b \in Offsets : card.at[b] = IF b < Size(card.n) THEN tag[written[b]] ELSE 0
=============================================================================
