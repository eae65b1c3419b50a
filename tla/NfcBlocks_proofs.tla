-------------------------- MODULE NfcBlocks_proofs --------------------------
(***************************************************************************)
(* That the layout of a recipe on a tag, the loops that read it and the    *)
(* writes of whole blocks go together, for recipes of any length the tag   *)
(* has room for, on both kinds of tag.                                     *)
(*                                                                         *)
(* Every byte of a recipe has a place of its own in the part of the tag    *)
(* for data (PlacesApart), is read from where it is written                *)
(* (ReadWhereWritten) and copied into the place it belongs to (AllCopied). *)
(* So reads and writes may be taken byte by byte, and what remains is      *)
(* which copy each byte of the tag agrees with: a block at a border        *)
(* carries bytes of a neighbour, which must be on the tag already          *)
(* (Neighbours, AgreesSyncing).                                            *)
(***************************************************************************)
EXTENDS NfcBlocks, ListLemmas, TLAPS

USE SizesAssumption

-----------------------------------------------------------------------------
\* Where the bytes lie.

\* The structures lie one behind the other.
LEMMA Structures ==
  /\ First(0) = 0 /\ First(1) = 12
  /\ \A s \in Nat : First(s) \in Nat /\ First(s + 1) = Size(s) /\ Size(s) = 31 * s + 12
  /\ \A s \in Nat : s > 0 => First(s) = 31 * s - 19
BY DEF First, Size, TRecipeInfo_Size, TRecipeStep_Size

\* A byte lies in a structure.
LEMMA StructureOf ==
  ASSUME NEW n \in Nat, NEW b \in Nat, b < Size(n)
  PROVE  \E s \in 0 .. n : b \in BytesOf(s)
<1>1. b < 31 * n + 12
  BY Structures
<1>2. CASE b < 12
  <2>1. b \in BytesOf(0)
    <3>1. First(0) = 0 /\ First(0 + 1) = 12
      BY Structures
    <3> QED
      BY <1>2, <3>1 DEF BytesOf
  <2> QED
    BY <2>1
<1>3. ASSUME b >= 12 PROVE \E s \in 0 .. n : b \in BytesOf(s)
  <2> DEFINE k == (b - 12) \div 31
  <2>1. k \in Nat /\ k < n /\ 31 * k <= b - 12 /\ b - 12 < 31 * k + 31
    BY <1>1, <1>3
  <2> HIDE DEF k
  <2>2. First(k + 1) = 31 * k + 12 /\ First(k + 1 + 1) = 31 * (k + 1) + 12
    <3>1. k + 1 \in Nat
      BY <2>1
    <3>2. First(k + 1) = Size(k) /\ Size(k) = 31 * k + 12
      BY <2>1, Structures, Zenon
    <3>3. First(k + 1 + 1) = Size(k + 1) /\ Size(k + 1) = 31 * (k + 1) + 12
      BY <3>1, Structures, Zenon
    <3> QED
      BY <3>2, <3>3
  <2>3. b \in BytesOf(k + 1)
    BY <2>1, <2>2 DEF BytesOf
  <2> QED
    BY <2>1, <2>3
<1> QED
  BY <1>2, <1>3

\* The page of each kind of tag.
LEMMA MediaPages ==
  \A m \in Media : Page[m] = IF m = "classic" THEN 16 ELSE 4
BY DEF Media, Page, PAGESIZE_CLASSIC, PAGESIZE_ULTRALIGHT

\* The bytes of whole blocks of 16 are numbers, and those of a recipe among them.
LEMMA BytewiseNat ==
  /\ Size(MaxSteps) \in Nat
  /\ Bytewise = 0 .. (Size(MaxSteps) \div 16 + 1) * 16 - 1
  /\ Bytewise \subseteq Nat
  /\ Offsets \subseteq Bytewise
BY DEF Bytewise, Size, Offsets, TRecipeInfo_Size, TRecipeStep_Size, PAGESIZE_CLASSIC

\* The address a byte is written to, as an equation.
LEMMA WrittenAt ==
  ASSUME NEW m \in Media, NEW b \in Bytewise
  PROVE  WrittenTo[m][b] = PlaceOf(m, b \div Page[m]) * Page[m] + (b % Page[m])
BY DEF WrittenTo

\* Every byte is read from where it is written.
LEMMA ReadWhereWritten ==
  ASSUME NEW m \in Media, NEW b \in Bytewise
  PROVE  ReadFrom[m][b] = WrittenTo[m][b]
<1> USE DEF PAGESIZE_CLASSIC, PAGESIZE_ULTRALIGHT
<1>1. CASE m = "classic"
  <2>1. Page[m] = 16 /\ (b \div 16) * (16 \div 16) = b \div 16
    BY <1>1, BytewiseNat, MediaPages
  <2>2. ReadFrom[m][b] = PlaceOf(m, (b \div 16) * (16 \div 16)) * 16 + (b % 16)
    BY <2>1 DEF ReadFrom
  <2> QED
    BY <2>1, <2>2, WrittenAt
<1>2. CASE m = "ultralight"
  <2>1. Page[m] = 4
    BY <1>2, MediaPages
  <2>2. ReadFrom[m][b] = PlaceOf(m, (b \div 16) * (16 \div 4)) * 4 + (b % 16)
    BY <2>1 DEF ReadFrom
  <2>3. \A k : PlaceOf(m, k) = k + 8
    BY <1>2 DEF PlaceOf, OFFSETDATA_ULTRALIGHT
  <2>4. ReadFrom[m][b] = ((b \div 16) * 4 + 8) * 4 + (b % 16)
    BY <2>2, <2>3, BytewiseNat
  <2>5. WrittenTo[m][b] = ((b \div 4) + 8) * 4 + (b % 4)
    BY <2>1, <2>3, WrittenAt
  <2> QED
    BY <2>4, <2>5, BytewiseNat
<1> QED
  BY <1>1, <1>2 DEF Media

\* The number of the block after a number, and the loop of NFC_GetMifareClassicIndex
\* as an equation.
After(number) == LET next == number + 1 IN IF next % 4 = 0 THEN next + 1 ELSE next
Counted(number) ==
  number = [i \in 0 .. Size(MaxSteps) |->
              IF i = 0 THEN 2
              ELSE LET next == number[i - 1] + 1 IN IF next % 4 = 0 THEN next + 1 ELSE next]

\* The loop skips a trailer after every three blocks.
LEMMA ClassicIndex ==
  ASSUME NEW i \in 0 .. Size(MaxSteps)
  PROVE  MifareClassicIndex[i] = 1 + i + (i + 1) \div 3
<1> DEFINE last == Size(MaxSteps)
           closed == [k \in 0 .. last |-> 2 + k + (k + 1) \div 3]
           number == CHOOSE f : Counted(f)
<1>0. last \in Nat
  BY BytewiseNat
<1>1. MifareClassicIndex = [k \in 0 .. last |-> number[k] - 1]
  BY Zenon DEF MifareClassicIndex, Counted
<1> HIDE DEF last
<1>2. Counted(closed)
  <2>1. ASSUME NEW k \in 0 .. last
        PROVE  closed[k] = IF k = 0 THEN 2 ELSE After(closed[k - 1])
    <3>1. CASE k = 0
      BY <1>0, <3>1
    <3>2. CASE k > 0
      <4>1. closed[k] = 2 + k + (k + 1) \div 3 /\ closed[k - 1] = 1 + k + k \div 3
        BY <1>0, <3>2
      <4>2. After(1 + k + k \div 3) = 2 + k + (k + 1) \div 3
        BY <1>0, <3>2 DEF After
      <4> QED
        BY <3>2, <4>1, <4>2
    <3> QED
      BY <1>0, <3>1, <3>2
  <2> QED
    BY <2>1 DEF Counted, After, last
<1>3. Counted(number)
  BY <1>2, Zenon
<1> HIDE DEF number
<1>4. ASSUME NEW k \in 0 .. last PROVE number[k] = closed[k]
  <2> DEFINE off == {h \in 0 .. last : number[h] # closed[h]}
  <2>1. SUFFICES ASSUME k \in off PROVE FALSE
    OBVIOUS
  <2>2. PICK h \in off : \A g \in off : h <= g
    <3>1. off \in SUBSET Nat /\ off # {}
      BY <1>0, <2>1
    <3> HIDE DEF off
    <3> QED
      BY <3>1, LeastNumber
  <2>3. number[h] = IF h = 0 THEN 2 ELSE After(number[h - 1])
    BY <1>3, <2>2 DEF Counted, After, last
  <2>4. closed[h] = IF h = 0 THEN 2 ELSE After(closed[h - 1])
    BY <1>2, <2>2 DEF Counted, After, last
  <2>5. h = 0 \/ h - 1 \in (0 .. last) \ off
    BY <1>0, <2>2
  <2> QED
    BY <2>2, <2>3, <2>4, <2>5
<1> QED
  BY <1>0, <1>1, <1>4 DEF last

\* The blocks of the longest recipe.
AllBlocks(m) == 0 .. (Size(MaxSteps) \div 16 + 1) * (16 \div Page[m]) - 1

\* A byte is in a block, at an offset.
LEMMA BlockOfByte ==
  ASSUME NEW m \in Media, NEW b \in Bytewise
  PROVE  b \div Page[m] \in AllBlocks(m) /\ b % Page[m] \in 0 .. Page[m] - 1
                                         /\ b = (b \div Page[m]) * Page[m] + (b % Page[m])
<1> DEFINE last == Size(MaxSteps) \div 16
<1>1. last \in Nat /\ b \in 0 .. (last + 1) * 16 - 1
  BY BytewiseNat
<1>2. AllBlocks(m) = 0 .. (last + 1) * (16 \div Page[m]) - 1
  BY DEF AllBlocks
<1> HIDE DEF last
<1>3. CASE Page[m] = 16
  BY <1>1, <1>2, <1>3
<1>4. CASE Page[m] = 4
  BY <1>1, <1>2, <1>4
<1> QED
  BY <1>3, <1>4, MediaPages

\* A block and an offset make a byte.
LEMMA ByteOfBlock ==
  ASSUME NEW m \in Media, NEW k \in AllBlocks(m), NEW i \in 0 .. Page[m] - 1
  PROVE  /\ k * Page[m] + i \in Bytewise
         /\ (k * Page[m] + i) \div Page[m] = k /\ (k * Page[m] + i) % Page[m] = i
<1> DEFINE last == Size(MaxSteps) \div 16
<1>1. last \in Nat /\ Bytewise = 0 .. (last + 1) * 16 - 1
  BY BytewiseNat
<1>2. AllBlocks(m) = 0 .. (last + 1) * (16 \div Page[m]) - 1
  BY DEF AllBlocks
<1> HIDE DEF last
<1>3. CASE Page[m] = 16
  BY <1>1, <1>2, <1>3
<1>4. CASE Page[m] = 4
  <2>1. k \in 0 .. (last + 1) * 4 - 1 /\ i \in 0 .. 3
    BY <1>1, <1>2, <1>4
  <2>2. k * 4 + i \in Bytewise /\ (k * 4 + i) \div 4 = k /\ (k * 4 + i) % 4 = i
    BY <1>1, <2>1
  <2> QED
    BY <1>4, <2>2
<1> QED
  BY <1>3, <1>4, MediaPages

\* Every block has a place of its own, in the part of the tag for data.
LEMMA PlacesApart ==
  ASSUME NEW m \in Media
  PROVE  /\ \A k \in AllBlocks(m) : PlaceOf(m, k) \in Nat
         /\ \A k, h \in AllBlocks(m) : PlaceOf(m, k) = PlaceOf(m, h) => k = h
         /\ \A k \in AllBlocks(m) :
              IF m = "classic" THEN PlaceOf(m, k) # 0 /\ PlaceOf(m, k) % 4 # 3
              ELSE PlaceOf(m, k) >= 4
<1> DEFINE last == Size(MaxSteps)
<1>0. last \in Nat /\ last > 2
  BY Structures, BytewiseNat
<1>1. CASE m = "classic"
  <2>1. AllBlocks(m) \subseteq 0 .. last
    <3> HIDE DEF last
    <3>1. last \div 16 + 1 <= last /\ Page[m] = 16 /\ 16 \div 16 = 1
      BY <1>0, <1>1, MediaPages
    <3>2. AllBlocks(m) = 0 .. (last \div 16 + 1) * (16 \div 16) - 1
      BY <3>1 DEF AllBlocks, last
    <3> QED
      BY <1>0, <3>1, <3>2
  <2>2. \A k \in 0 .. last : PlaceOf(m, k) = 1 + k + (k + 1) \div 3
    BY <1>1, ClassicIndex DEF PlaceOf
  <2> HIDE DEF last
  <2>3. \A k \in 0 .. last : PlaceOf(m, k) \in Nat /\ PlaceOf(m, k) # 0 /\ PlaceOf(m, k) % 4 # 3
    BY <1>0, <2>2
  <2>4. \A k, h \in 0 .. last : k < h => PlaceOf(m, k) < PlaceOf(m, h)
    BY <1>0, <2>2
  <2>5. \A k, h \in 0 .. last : PlaceOf(m, k) = PlaceOf(m, h) => k = h
    BY <1>0, <2>3, <2>4
  <2> QED
    BY <1>1, <2>1, <2>3, <2>5
<1>2. CASE m = "ultralight"
  <2>1. \A k : PlaceOf(m, k) = k + 8
    BY <1>2 DEF PlaceOf, OFFSETDATA_ULTRALIGHT
  <2>2. AllBlocks(m) \subseteq Nat
    BY DEF AllBlocks
  <2> QED
    BY <1>2, <2>1, <2>2
<1> QED
  BY <1>1, <1>2 DEF Media

\* What an address tells.
LEMMA AddressOf ==
  ASSUME NEW m \in Media, NEW b \in Bytewise
  PROVE  /\ WrittenTo[m][b] \in Addresses /\ WrittenTo[m][b] \in Nat
         /\ WrittenTo[m][b] \div Page[m] = PlaceOf(m, b \div Page[m])
         /\ WrittenTo[m][b] % Page[m] = b % Page[m]
<1> DEFINE a == WrittenTo[m][b]
           place == PlaceOf(m, b \div Page[m])
<1>1. place \in Nat
  BY BlockOfByte, PlacesApart
<1>2. b % Page[m] \in 0 .. Page[m] - 1
  BY BlockOfByte
<1>3. a = place * Page[m] + (b % Page[m])
  BY WrittenAt
<1> HIDE DEF place
<1>4. a \in Nat /\ a \div Page[m] = place /\ a % Page[m] = b % Page[m]
  <2> DEFINE i == b % Page[m]
  <2> HIDE DEF a, i
  <2>1. i \in 0 .. Page[m] - 1 /\ a = place * Page[m] + i
    BY <1>2, <1>3 DEF i
  <2>2. a \in Nat /\ a \div Page[m] = place /\ a % Page[m] = i
    <3>1. CASE Page[m] = 16
      BY <1>1, <2>1, <3>1
    <3>2. CASE Page[m] = 4
      BY <1>1, <2>1, <3>2
    <3> QED
      BY <3>1, <3>2, MediaPages
  <2> QED
    BY <2>2 DEF i
<1>5. a \in Addresses
  <2>1. a \in 0 .. a
    BY <1>4
  <2> DEFINE ranges == {0 .. WrittenTo[n][c] : n \in Media, c \in Bytewise}
  <2>2. 0 .. a \in ranges
    OBVIOUS
  <2>3. Addresses = UNION ranges
    BY DEF Addresses
  <2> HIDE DEF a, ranges
  <2>4. a \in UNION ranges
    BY <2>1, <2>2, Zenon
  <2> QED
    BY <2>3, <2>4
<1> QED
  BY <1>4, <1>5 DEF place

\* Addresses are numbers.
LEMMA AddressesNat == Addresses \subseteq Nat
<1> DEFINE ranges == {0 .. WrittenTo[n][c] : n \in Media, c \in Bytewise}
<1>1. ASSUME NEW r \in ranges PROVE r \subseteq Nat
  <2>1. PICK n \in Media, c \in Bytewise : r = 0 .. WrittenTo[n][c]
    BY <1>1
  <2>2. WrittenTo[n][c] \in Nat
    BY AddressOf
  <2> QED
    BY <2>1, <2>2
<1>2. Addresses = UNION ranges
  BY DEF Addresses
<1> HIDE DEF ranges
<1> QED
  BY <1>1, <1>2, Zenon

\* The byte that lies at an address of a block.
LEMMA ByteAt ==
  ASSUME NEW m \in Media, NEW k \in AllBlocks(m), NEW a \in Nat,
         a \div Page[m] = PlaceOf(m, k)
  PROVE  /\ k * Page[m] + (a % Page[m]) \in Bytewise
         /\ WrittenTo[m][k * Page[m] + (a % Page[m])] = a
<1> DEFINE b == k * Page[m] + (a % Page[m])
<1>1. a % Page[m] \in 0 .. Page[m] - 1 /\ a = (a \div Page[m]) * Page[m] + (a % Page[m])
  BY MediaPages
<1>2. b \in Bytewise /\ b \div Page[m] = k /\ b % Page[m] = a % Page[m]
  BY <1>1, ByteOfBlock
<1> QED
  BY <1>1, <1>2, WrittenAt

-----------------------------------------------------------------------------
\* What the loops read.

\* The loop takes every byte of its range, each into the place it belongs to,
\* wherever in a block the range begins.
LEMMA AllCopied ==
  ASSUME NEW zacatek \in Nat, NEW end \in Nat, NEW base \in Nat, zacatek + 16 <= end
  PROVE  /\ DOMAIN Copied(zacatek, end, base) = base .. base + end - zacatek - 1
         /\ \A i \in base .. base + end - zacatek - 1 :
              Copied(zacatek, end, base)[i] = zacatek + i - base
<1> DEFINE first == zacatek \div 16
           posun == zacatek % 16
           inFirst == {k \in 0 .. 15 : k + first * 16 < end /\ k + posun < 16}
           later == (first + 1) * 16 .. end - 1
           filled == {k + base : k \in inFirst} \cup {b - first * 16 - posun + base : b \in later}
<1>1. Copied(zacatek, end, base) = [i \in filled |-> first * 16 + posun + i - base]
  BY DEF Copied, PAGESIZE_CLASSIC
<1>2. first \in Nat /\ posun \in 0 .. 15 /\ zacatek = first * 16 + posun
  OBVIOUS
<1> HIDE DEF first, posun
<1>3. inFirst = 0 .. 15 - posun
  BY <1>2
<1>4. ASSUME NEW i \in filled PROVE i \in base .. base + end - zacatek - 1
  <2>1. CASE \E k \in inFirst : i = k + base
    <3> HIDE DEF inFirst
    <3> QED
      BY <1>2, <1>3, <2>1
  <2>2. CASE \E b \in later : i = b - first * 16 - posun + base
    BY <1>2, <2>2
  <2> QED
    BY <1>4, <2>1, <2>2
<1>5. ASSUME NEW i \in base .. base + end - zacatek - 1 PROVE i \in filled
  <2>1. CASE i - base + posun < 16
    <3>1. i - base \in inFirst /\ i = (i - base) + base
      BY <1>2, <1>3, <2>1
    <3> HIDE DEF inFirst, later
    <3> QED
      BY <3>1
  <2>2. CASE i - base + posun >= 16
    <3> DEFINE b == i - base + first * 16 + posun
    <3>1. b \in later /\ i = b - first * 16 - posun + base
      BY <1>2, <2>2
    <3> HIDE DEF b, later, inFirst
    <3> QED
      BY <3>1
  <2> QED
    BY <1>2, <2>1, <2>2
<1>6. filled = base .. base + end - zacatek - 1
  <2> HIDE DEF filled
  <2> QED
    BY <1>4, <1>5
<1> HIDE DEF filled
<1> QED
  BY <1>1, <1>2, <1>6

\* So a load of the info, of a step or of all steps takes every byte as it is.
LEMMA InfoLoaded ==
  /\ DOMAIN NFC_LoadTRecipeInfoStructure = BytesOf(0)
  /\ \A b \in BytesOf(0) : NFC_LoadTRecipeInfoStructure[b] = b
<1>1. BytesOf(0) = 0 .. 11
  BY DEF BytesOf, First, TRecipeInfo_Size, TRecipeStep_Size
<1> QED
  BY <1>1 DEF NFC_LoadTRecipeInfoStructure, TRecipeInfo_Size

\* The copy in the array of steps, by the bytes of the recipe.
LEMMA StepsCopied ==
  ASSUME NEW zacatek \in Nat, NEW end \in Nat, zacatek + 16 <= end, zacatek >= 12
  PROVE  /\ DOMAIN IntoSteps(Copied(zacatek, end, zacatek - 12)) = zacatek .. end - 1
         /\ \A b \in zacatek .. end - 1 : IntoSteps(Copied(zacatek, end, zacatek - 12))[b] = b
<1> DEFINE copied == Copied(zacatek, end, zacatek - 12)
           bytes == {12 + i : i \in DOMAIN copied}
<1>1. /\ DOMAIN copied = zacatek - 12 .. end - 13
      /\ \A i \in zacatek - 12 .. end - 13 : copied[i] = i + 12
  <2> DEFINE base == zacatek - 12
  <2>1. base \in Nat /\ base + end - zacatek - 1 = end - 13
    OBVIOUS
  <2>2. \A i \in base .. end - 13 : zacatek + i - base = i + 12
    OBVIOUS
  <2>3. /\ DOMAIN Copied(zacatek, end, base) = base .. base + end - zacatek - 1
        /\ \A i \in base .. base + end - zacatek - 1 :
             Copied(zacatek, end, base)[i] = zacatek + i - base
    <3> HIDE DEF base
    <3> QED
      BY <2>1, AllCopied
  <2> QED
    BY <2>1, <2>2, <2>3
<1>2. IntoSteps(copied) = [b \in bytes |-> copied[b - 12]]
  BY DEF IntoSteps, TRecipeInfo_Size
<1> HIDE DEF copied
<1>3. ASSUME NEW b PROVE b \in bytes <=> b \in zacatek .. end - 1
  <2>1. ASSUME b \in zacatek .. end - 1 PROVE b \in bytes
    <3>1. b - 12 \in DOMAIN copied /\ b = 12 + (b - 12)
      BY <1>1, <2>1
    <3> QED
      BY <3>1
  <2>2. ASSUME b \in bytes PROVE b \in zacatek .. end - 1
    BY <1>1, <2>2
  <2> QED
    BY <2>1, <2>2
<1>4. bytes = zacatek .. end - 1
  <2> HIDE DEF bytes
  <2> QED
    BY <1>3
<1> HIDE DEF bytes
<1>5. ASSUME NEW b \in zacatek .. end - 1 PROVE copied[b - 12] = b
  BY <1>1, <1>5
<1>6. /\ DOMAIN IntoSteps(copied) = zacatek .. end - 1
      /\ \A b \in zacatek .. end - 1 : IntoSteps(copied)[b] = b
  BY <1>2, <1>4, <1>5
<1> QED
  BY <1>6 DEF copied

\* NFC_LoadTRecipeSteps copies every byte of the steps as it is.
LEMMA StepsLoaded ==
  ASSUME NEW n \in 1 .. MaxSteps
  PROVE  /\ DOMAIN NFC_LoadTRecipeSteps[n] = 12 .. Size(n) - 1
         /\ \A b \in 12 .. Size(n) - 1 : NFC_LoadTRecipeSteps[n][b] = b
<1>1. NFC_LoadTRecipeSteps[n] = IntoSteps(Copied(12, Size(n), 0))
  BY DEF NFC_LoadTRecipeSteps, TRecipeInfo_Size
<1>2. Size(n) \in Nat /\ 12 + 16 <= Size(n)
  BY DEF Size, TRecipeInfo_Size, TRecipeStep_Size
<1>3. NFC_LoadTRecipeSteps[n] = IntoSteps(Copied(12, Size(n), 12 - 12))
  BY <1>1
<1> QED
  BY <1>2, <1>3, StepsCopied

\* NFC_LoadTRecipeStep copies every byte of its step as it is.
LEMMA StepLoaded ==
  ASSUME NEW s \in 1 .. MaxSteps
  PROVE  /\ DOMAIN NFC_LoadTRecipeStep[s] = BytesOf(s)
         /\ \A b \in BytesOf(s) : NFC_LoadTRecipeStep[s][b] = b
<1> DEFINE zacatek == 12 + (s - 1) * 31
           end == zacatek + 31
<1>1. NFC_LoadTRecipeStep[s] = IntoSteps(Copied(zacatek, end, (s - 1) * 31))
  BY DEF NFC_LoadTRecipeStep, TRecipeInfo_Size, TRecipeStep_Size
<1>2. zacatek \in Nat /\ end \in Nat /\ zacatek + 16 <= end /\ zacatek >= 12
      /\ (s - 1) * 31 = zacatek - 12
  OBVIOUS
<1>3. BytesOf(s) = zacatek .. end - 1
  <2>1. First(s) = zacatek /\ First(s + 1) = end
    BY DEF First, TRecipeInfo_Size, TRecipeStep_Size
  <2> QED
    BY <2>1 DEF BytesOf
<1> HIDE DEF zacatek, end
<1> QED
  BY <1>1, <1>2, <1>3, StepsCopied

-----------------------------------------------------------------------------
\* The inductive invariant.

\* What the tag holds where byte b of the recipe lies.
OnTag(b) == tag[WrittenTo[medium][b]]

\* A card with bytes of versions there are, and the writes of such cards.
Cards == [n : 1 .. MaxSteps, at : [Offsets -> 0 .. Len(sizes)]]
Ranges == {run \in [from : 0 .. MaxSteps, to : 0 .. MaxSteps] : run.from <= run.to}
SafeCalls == {"WriteSafeInfo", "WriteSafeStep"}
WritesOf(cards) ==
  [call : SafeCalls \cup {"Sync"}, run : Ranges, left : SUBSET Ranges, saved : cards,
   phase : {"head", "write", "verify"}, block : Nat]
Writes == WritesOf(Cards)

\* The copies and the tag hold versions there are, and a number of steps.
Typed ==
  /\ medium \in Media
  /\ sizes \in Seq(1 .. MaxSteps) /\ Len(sizes) > 0
  /\ tag \in [Addresses -> 0 .. Len(sizes)]
  /\ integrity \in Cards /\ working \in Cards
  /\ dirty \in [1 .. working.n -> BOOLEAN]
  /\ op = NoWrite \/ op \in Writes
  /\ turn \in {"load", "edit", "sync"} /\ synced \in BOOLEAN
\* The byte of RecipeSteps always stems from some version.
NumberKept ==
  /\ OnTag(3) > 0 /\ integrity.at[3] > 0 /\ working.at[3] > 0
  /\ op \in Writes => op.saved.at[3] > 0

\* A write is of structures its copy has, and knows its next block.
WriteStands ==
  op \in Writes =>
    /\ op.run.to <= Card.n /\ \A r \in op.left : r.to <= Card.n
    /\ op.call = "WriteSafeInfo" => op.run = Info
    /\ op.call = "WriteSafeStep" => op.run.from > 0 /\ op.run.to = op.run.from
    /\ op.call \in SafeCalls => /\ turn = "sync" /\ integrity.n = working.n
                                /\ op.saved.n = integrity.n
    /\ op.call = "Sync" => turn = "load"
    /\ op.phase = "head" => op.call = "WriteSafeStep" /\ op.block \in Blocks(Info)
    /\ op.phase = "write" => op.block \in Blocks(op.run)

\* The blocks of the range that are written hold what they are filled with.
BlocksWritten ==
  op \in Writes /\ op.phase # "head" =>
    \A b \in Bytewise :
      /\ b \div Page[medium] \in Blocks(op.run)
      /\ op.phase = "verify" \/ b \div Page[medium] < op.block
      => OnTag(b) = Filled(b)

\* The bytes that need not agree with the tag: markers given up or under way.
Doubtful == unsure \cup (IF op \in Writes /\ op.call = "WriteSafeStep"
                         THEN Marker(op.run.from) ELSE {})
Clean(s) == ~ (s \in DOMAIN dirty /\ dirty[s])
Pending(s) == \E r \in op.left \cup {op.run} : s \in r.from .. r.to

\* Between a load and an edit the copies agree with the tag, but for steps still
\* to be written.
AgreesLoaded ==
  turn = "edit" =>
    /\ op = NoWrite /\ unsure = {} /\ integrity.n = working.n
    /\ \A s \in 0 .. working.n : \A b \in BytesOf(s) :
         OnTag(b) = integrity.at[b] /\ (Clean(s) => OnTag(b) = working.at[b])

\* From there to Sync the steps that are not dirty are in working as on the tag,
\* and those of integrity while a safe write is under way.
AgreesEdited ==
  turn = "sync" =>
    \A s \in 1 .. working.n : \A b \in BytesOf(s) \ Doubtful :
      /\ Clean(s) => OnTag(b) = working.at[b]
      /\ op # NoWrite => OnTag(b) = integrity.at[b]

\* In Sync every structure is on the tag but those of the range and of ranges to
\* come, which are not next to each other.
AgreesSyncing ==
  op \in Writes /\ op.call = "Sync" =>
    /\ \A s \in 0 .. working.n :
         Pending(s) \/ \A b \in BytesOf(s) \ unsure : OnTag(b) = working.at[b]
    /\ \A p, q \in op.left \cup {op.run} :
         p = q \/ p.to + 1 < q.from \/ q.to + 1 < p.from

\* When Sync has answered nothing is pending.
AgreesSynced ==
  synced =>
    /\ op = NoWrite /\ turn = "load"
    /\ \A s \in 0 .. working.n : \A b \in BytesOf(s) \ unsure : OnTag(b) = working.at[b]

Agrees == AgreesLoaded /\ AgreesEdited /\ AgreesSyncing /\ AgreesSynced
BlocksInv == Typed /\ NumberKept /\ WriteStands /\ BlocksWritten /\ Agrees

-----------------------------------------------------------------------------
\* Structures and the blocks they lie in.

\* The bytes of a structure of a recipe are bytes of that recipe.
LEMMA BytesInside ==
  ASSUME NEW n \in 1 .. MaxSteps, NEW s \in 0 .. n, NEW b \in BytesOf(s)
  PROVE  /\ b \in Nat /\ b < Size(n) /\ b \in Offsets /\ b \in Bytewise
         /\ IF s = 0 THEN b < 12 ELSE b >= 12
<1>1. b \in First(s) .. First(s + 1) - 1
  BY DEF BytesOf
<1>2. s = 0 \/ s > 0
  OBVIOUS
<1>3. b \in Nat /\ Size(n) \in Nat /\ b < Size(n) /\ Size(n) <= Size(MaxSteps) /\ (IF s = 0 THEN b < 12 ELSE b >= 12)
  BY <1>1, <1>2 DEF First, Size, TRecipeInfo_Size, TRecipeStep_Size
<1>4. b \in Offsets
  BY <1>3, BytewiseNat DEF Offsets
<1> QED
  BY <1>3, <1>4, BytewiseNat

\* No byte is of two structures.
LEMMA BytesApart ==
  ASSUME NEW s \in Nat, NEW t \in Nat, NEW b \in BytesOf(s), b \in BytesOf(t)
  PROVE  s = t
BY DEF BytesOf, First, TRecipeInfo_Size, TRecipeStep_Size

\* A recipe is no longer than the longest.
LEMMA SizesGrow ==
  ASSUME NEW n \in 1 .. MaxSteps
  PROVE  /\ Size(n) \in Nat /\ Size(n) <= Size(MaxSteps) /\ Size(n) >= 43
         /\ 0 .. Size(n) - 1 \subseteq Offsets
<1>1. Size(n) \in Nat /\ Size(n) <= Size(MaxSteps) /\ Size(n) >= 43
  BY DEF Size, TRecipeInfo_Size, TRecipeStep_Size
<1> QED
  BY <1>1, BytewiseNat DEF Offsets

\* The blocks NFC_WriteStructRange reckons for a range, from its first byte to its last.
LEMMA RangeBlocks ==
  ASSUME medium \in Media, NEW run \in Ranges
  PROVE  /\ Blocks(run) = First(run.from) \div Page[medium] .. (Size(run.to) - 1) \div Page[medium]
         /\ First(run.from) \in Nat /\ Size(run.to) - 1 \in Nat /\ Size(run.to) \in Nat
         /\ First(run.from) <= Size(run.to) - 1 /\ Size(run.to) <= Size(MaxSteps)
<1>1. run.from \in 0 .. MaxSteps /\ run.to \in 0 .. MaxSteps /\ run.from <= run.to
  BY DEF Ranges
<1> DEFINE zacatek == IF run.from > 0 THEN First(run.from) ELSE 0
           konec == IF run.to > 0 THEN 12 + (run.from - 1) * 31 + 31 * (run.to - run.from + 1) - 1
                    ELSE 12 - 1
<1>2. zacatek = First(run.from) /\ konec = Size(run.to) - 1
  <2>1. CASE run.to > 0
    BY <1>1, <2>1 DEF First, Size, TRecipeInfo_Size, TRecipeStep_Size
  <2>2. CASE run.to = 0
    BY <1>1, <2>2 DEF First, Size, TRecipeInfo_Size, TRecipeStep_Size
  <2> QED
    BY <1>1, <2>1, <2>2
<1>3. Blocks(run) = zacatek \div Page[medium] .. konec \div Page[medium]
  BY DEF Blocks, TRecipeInfo_Size, TRecipeStep_Size
<1>4. /\ First(run.from) \in Nat /\ Size(run.to) - 1 \in Nat /\ Size(run.to) \in Nat
      /\ First(run.from) <= Size(run.to) - 1 /\ Size(run.to) <= Size(MaxSteps)
  BY <1>1 DEF First, Size, TRecipeInfo_Size, TRecipeStep_Size
<1> QED
  BY <1>2, <1>3, <1>4

\* The blocks of a range are an interval of the recipe's, with those of its bytes.
LEMMA RangeInBlocks ==
  ASSUME medium \in Media, NEW run \in Ranges
  PROVE  /\ Blocks(run) \subseteq AllBlocks(medium)
         /\ \E i, j \in Nat : i <= j /\ Blocks(run) = i .. j
         /\ \A s \in run.from .. run.to : \A b \in BytesOf(s) :
              b \div Page[medium] \in Blocks(run)
<1> DEFINE P == Page[medium]
           z == First(run.from)
           k == Size(run.to) - 1
           M == Size(MaxSteps)
<1>1. /\ Blocks(run) = z \div P .. k \div P
      /\ z \in Nat /\ k \in Nat /\ z <= k /\ k < M /\ M \in Nat
  BY RangeBlocks, BytewiseNat
<1>2. P = 16 \/ P = 4
  BY MediaPages
<1>3. ASSUME NEW s \in run.from .. run.to, NEW b \in BytesOf(s)
      PROVE  b \in Nat /\ z <= b /\ b <= k
  <2>1. run.from \in Nat /\ run.to \in Nat /\ b \in First(s) .. First(s + 1) - 1
    BY DEF Ranges, BytesOf
  <2> QED
    BY <2>1 DEF First, Size, TRecipeInfo_Size, TRecipeStep_Size
<1> DEFINE top == (M \div 16 + 1) * (16 \div P) - 1
<1>4. AllBlocks(medium) = 0 .. top
  BY DEF AllBlocks
<1> HIDE DEF P, z, k, M
<1>5. /\ z \div P \in Nat /\ k \div P \in Nat /\ z \div P <= k \div P
      /\ k \div P <= top /\ top \in Int
      /\ \A b \in Nat : z <= b /\ b <= k => b \div P \in z \div P .. k \div P
  <2>1. CASE P = 16
    BY <1>1, <2>1
  <2>2. CASE P = 4
    BY <1>1, <2>2
  <2> QED
    BY <1>2, <2>1, <2>2
<1>6. \A s \in run.from .. run.to : \A b \in BytesOf(s) : b \div P \in Blocks(run)
  BY <1>1, <1>3, <1>5
<1> HIDE DEF top
<1>7. Blocks(run) \subseteq AllBlocks(medium)
  BY <1>1, <1>4, <1>5
<1>8. \E i, j \in Nat : i <= j /\ Blocks(run) = i .. j
  BY <1>1, <1>5
<1> QED
  BY <1>6, <1>7, <1>8 DEF P

\* A write begins at the least block of its range.
LEMMA FirstOfBlocks ==
  ASSUME medium \in Media, NEW run \in Ranges
  PROVE  /\ FirstBlock(run) \in Blocks(run) /\ FirstBlock(run) \in Nat
         /\ \A k \in Blocks(run) : FirstBlock(run) <= k
<1>1. PICK i \in Nat, j \in Nat : i <= j /\ Blocks(run) = i .. j
  BY RangeInBlocks
<1>2. i \in Blocks(run) /\ \A k \in Blocks(run) : i <= k
  BY <1>1
<1>3. FirstBlock(run) \in Blocks(run) /\ \A k \in Blocks(run) : FirstBlock(run) <= k
  BY <1>2, Zenon DEF FirstBlock
<1> QED
  BY <1>1, <1>3

\* A block of a range reaches no further than into the structures beside it.
LEMMA Neighbours ==
  ASSUME medium \in Media, NEW run \in Ranges, NEW n \in 1 .. MaxSteps, run.to <= n,
         NEW b \in Bytewise, b \div Page[medium] \in Blocks(run), b < Size(n)
  PROVE  \E s \in 0 .. n : /\ b \in BytesOf(s)
                           /\ s \in run.from - 1 .. run.to + 1
<1> DEFINE P == Page[medium]
           z == First(run.from)
           k == Size(run.to) - 1
<1>1. Blocks(run) = z \div P .. k \div P /\ z \in Nat /\ k \in Nat /\ z <= k
  BY RangeBlocks
<1>2. P = 16 \/ P = 4
  BY MediaPages
<1>3. b \in Nat
  BY BytewiseNat
<1>4. PICK s \in 0 .. n : b \in BytesOf(s)
  BY <1>3, StructureOf
<1>5. run.from \in Nat /\ run.to \in Nat /\ b \in First(s) .. First(s + 1) - 1
  BY <1>4 DEF Ranges, BytesOf
<1>6. b > z - 16 /\ b < k + 16 /\ (z \in {0, 12} => b >= 0)
  <2> HIDE DEF P, z, k
  <2>1. b \div P >= z \div P /\ b \div P <= k \div P
    BY <1>1 DEF P
  <2>2. CASE P = 16
    BY <1>1, <1>3, <2>1, <2>2
  <2>3. CASE P = 4
    BY <1>1, <1>3, <2>1, <2>3
  <2> QED
    BY <1>2, <2>2, <2>3
<1>7. s >= run.from - 1
  BY <1>5, <1>6 DEF First, Size, TRecipeInfo_Size, TRecipeStep_Size
<1>8. s <= run.to + 1
  BY <1>5, <1>6 DEF First, Size, TRecipeInfo_Size, TRecipeStep_Size
<1> QED
  BY <1>4, <1>5, <1>7, <1>8

-----------------------------------------------------------------------------
\* What is read, and what a write leaves on the tag.

\* What a load reads of a structure is what the tag holds of it.
LEMMA ReadStructure ==
  ASSUME medium \in Media, NEW s \in 0 .. MaxSteps, NEW b \in BytesOf(s)
  PROVE  Read(IF s = 0 THEN NFC_LoadTRecipeInfoStructure ELSE NFC_LoadTRecipeStep[s], b)
           = OnTag(b)
<1> DEFINE from == IF s = 0 THEN NFC_LoadTRecipeInfoStructure ELSE NFC_LoadTRecipeStep[s]
<1>1. b \in DOMAIN from /\ from[b] = b
  <2>1. CASE s = 0
    BY <2>1, InfoLoaded
  <2>2. CASE s # 0
    BY <2>2, StepLoaded
  <2> QED
    BY <2>1, <2>2
<1>2. b \in Bytewise
  BY BytesInside
<1> HIDE DEF from
<1>3. Read(from, b) = OnTag(b)
  BY <1>1, <1>2, ReadWhereWritten DEF Read, OnTag
<1> QED
  BY <1>3 DEF from

\* The card that is loaded.
LEMMA LoadedCard ==
  ASSUME Typed, NumberKept
  PROVE  /\ Loaded \in Cards /\ Loaded.at[3] > 0
         /\ \A b \in Offsets : Loaded.at[b] = IF b < Size(Loaded.n) THEN OnTag(b) ELSE 0
<1> DEFINE number == Read(NFC_LoadTRecipeInfoStructure, 3)
           n == sizes[number]
           from(b) == IF b < 12 THEN NFC_LoadTRecipeInfoStructure ELSE NFC_LoadTRecipeSteps[n]
<1>1. medium \in Media /\ sizes \in Seq(1 .. MaxSteps) /\ tag \in [Addresses -> 0 .. Len(sizes)]
  BY DEF Typed
<1>2. BytesOf(0) = 0 .. 11
  BY DEF BytesOf, First, TRecipeInfo_Size, TRecipeStep_Size
<1>3. number = OnTag(3)
  BY <1>1, <1>2, ReadStructure
<1>4. \A b \in Bytewise : OnTag(b) \in 0 .. Len(sizes)
  BY <1>1, AddressOf DEF OnTag
<1>5. 3 \in Bytewise
  BY <1>2, BytesInside
<1>6. n \in 1 .. MaxSteps
  BY <1>1, <1>3, <1>4, <1>5 DEF NumberKept
<1>7. Loaded = [n |-> n, at |-> [b \in Offsets |-> Read(from(b), b)]]
  BY DEF Loaded, TRecipeInfo_Size
<1> HIDE DEF n, number
<1>8. ASSUME NEW b \in Offsets
      PROVE  Read(from(b), b) = IF b < Size(n) THEN OnTag(b) ELSE 0
  <2>1. b \in Bytewise /\ b \in Nat /\ Size(n) \in Nat /\ Size(n) >= 43
    BY <1>6, BytewiseNat, SizesGrow
  <2>2. CASE b < 12
    <3>1. from(b) = NFC_LoadTRecipeInfoStructure /\ b \in BytesOf(0)
      BY <1>2, <2>1, <2>2
    <3>2. Read(from(b), b) = OnTag(b)
      BY <1>1, <3>1, ReadStructure
    <3> QED
      BY <2>1, <2>2, <3>2
  <2>3. CASE b >= 12
    <3>1. from(b) = NFC_LoadTRecipeSteps[n]
      BY <2>1, <2>3
    <3>2. DOMAIN from(b) = 12 .. Size(n) - 1 /\ \A c \in 12 .. Size(n) - 1 : from(b)[c] = c
      BY <1>6, <3>1, StepsLoaded
    <3> HIDE DEF from
    <3>3. Read(from(b), b) = IF b \in 12 .. Size(n) - 1 THEN OnTag(b) ELSE 0
      BY <1>1, <2>1, <3>2, ReadWhereWritten DEF Read, OnTag
    <3> QED
      BY <2>1, <2>3, <3>3
  <2> QED
    BY <2>1, <2>2, <2>3
<1> HIDE DEF from
<1>9. Loaded.n = n /\ \A b \in Offsets : Loaded.at[b] = IF b < Size(n) THEN OnTag(b) ELSE 0
  BY <1>7, <1>8
<1>10. Loaded \in Cards
  <2>1. \A b \in Offsets : Read(from(b), b) \in 0 .. Len(sizes)
    BY <1>1, <1>4, <1>8, BytewiseNat
  <2> QED
    BY <1>6, <1>7, <2>1 DEF Cards
<1>11. Loaded.at[3] > 0
  <2>1. 3 \in Offsets /\ 3 < Size(n)
    BY <1>2, <1>6, BytesInside, SizesGrow
  <2> QED
    BY <1>9, <2>1 DEF NumberKept
<1> QED
  BY <1>9, <1>10, <1>11

\* The copy a write is taken from is a card.
LEMMA CardIs ==
  ASSUME Typed PROVE Card \in Cards
BY DEF Typed, Card

\* A block is filled from the copy, and with zeros behind it.
LEMMA FilledIs ==
  ASSUME Typed, NEW b \in Bytewise
  PROVE  /\ Filled(b) \in 0 .. Len(sizes)
         /\ b < Size(Card.n) => Filled(b) = Card.at[b] /\ b \in Offsets
         /\ b >= Size(Card.n) => Filled(b) = 0
<1>1. Card.n \in 1 .. MaxSteps /\ Card.at \in [Offsets -> 0 .. Len(sizes)]
  BY CardIs DEF Cards
<1>2. b \in Nat /\ Size(Card.n) \in Nat /\ 0 .. Size(Card.n) - 1 \subseteq Offsets
  BY <1>1, BytewiseNat, SizesGrow
<1>3. Len(sizes) \in Nat
  BY DEF Typed
<1> QED
  BY <1>1, <1>2, <1>3 DEF Filled

\* The block that is written next is one of the recipe's.
LEMMA BlockStands ==
  ASSUME Typed, WriteStands, op.phase \in {"head", "write"}
  PROVE  op \in Writes /\ op.block \in AllBlocks(medium) /\ Info \in Ranges
<1>1. op \in Writes /\ medium \in Media
  BY DEF Typed, NoWrite
<1>2. Info \in Ranges /\ op.run \in Ranges
  BY <1>1 DEF Info, Ranges, Writes, WritesOf
<1>3. op.block \in Blocks(Info) \/ op.block \in Blocks(op.run)
  BY <1>1 DEF WriteStands
<1> QED
  BY <1>1, <1>2, <1>3, RangeInBlocks

\* A block is written: its bytes are filled, the others stay.
LEMMA BlockPut ==
  ASSUME Typed, WriteStands, op.phase \in {"head", "write"}, PutBlock(op.block),
         UNCHANGED medium
  PROVE  /\ tag' \in [Addresses -> 0 .. Len(sizes)]
         /\ \A b \in Bytewise : OnTag(b)' = IF b \div Page[medium] = op.block THEN Filled(b)
                                            ELSE OnTag(b)
<1> DEFINE P == Page[medium]
           k == op.block
           place == PlaceOf(medium, k)
<1>1. medium \in Media /\ tag \in [Addresses -> 0 .. Len(sizes)] /\ k \in AllBlocks(medium)
  BY BlockStands DEF Typed
<1>2. tag' = [a \in Addresses |-> IF a \div P = place THEN Filled(k * P + (a % P)) ELSE tag[a]]
  BY DEF PutBlock
<1>3. Addresses \subseteq Nat
  BY AddressesNat
<1> HIDE DEF place
<1>4. ASSUME NEW a \in Addresses
      PROVE  (IF a \div P = place THEN Filled(k * P + (a % P)) ELSE tag[a]) \in 0 .. Len(sizes)
  <2>1. ASSUME a \div P = place PROVE Filled(k * P + (a % P)) \in 0 .. Len(sizes)
    <3>1. k * P + (a % P) \in Bytewise
      BY <1>1, <1>3, <2>1, ByteAt DEF place
    <3> QED
      BY <3>1, FilledIs
  <2> QED
    BY <1>1, <2>1
<1>5. ASSUME NEW b \in Bytewise
      PROVE  OnTag(b)' = IF b \div P = k THEN Filled(b) ELSE OnTag(b)
  <2> DEFINE a == WrittenTo[medium][b]
  <2>1. /\ a \in Addresses /\ a \div P = PlaceOf(medium, b \div P) /\ a % P = b % P
        /\ b \div P \in AllBlocks(medium) /\ b = (b \div P) * P + (b % P)
    BY <1>1, AddressOf, BlockOfByte
  <2>2. OnTag(b)' = tag'[a] /\ OnTag(b) = tag[a]
    BY DEF OnTag
  <2> HIDE DEF a
  <2>3. tag'[a] = IF a \div P = place THEN Filled(k * P + (a % P)) ELSE tag[a]
    BY <1>2, <2>1
  <2>4. a \div P = place <=> b \div P = k
    BY <1>1, <2>1, PlacesApart DEF place
  <2>5. b \div P = k => k * P + (a % P) = b
    BY <2>1
  <2> QED
    BY <2>2, <2>3, <2>4, <2>5
<1> QED
  BY <1>2, <1>4, <1>5

-----------------------------------------------------------------------------
\* The steps of a write.

\* The next block is of the info before a safe step, then of the range, until all are written.
LEMMA NextBlockIs ==
  ASSUME Typed, WriteStands, op.phase \in {"head", "write"}, NextBlock
  PROVE  /\ op' \in Writes
         /\ op'.call = op.call /\ op'.run = op.run /\ op'.left = op.left /\ op'.saved = op.saved
         /\ \/ op.phase = "head" /\ op'.phase = "head" /\ op'.block \in Blocks(Info)
            \/ op.phase = "head" /\ op'.phase = "write" /\ op'.block = FirstBlock(op.run)
            \/ op.phase = "write" /\ op'.phase = "write" /\ op'.block = op.block + 1
                                  /\ op'.block \in Blocks(op.run)
            \/ op.phase = "write" /\ op'.phase = "verify"
                                  /\ \A k \in Blocks(op.run) : k < op.block + 1
<1>1. op \in Writes /\ op.block \in Nat /\ medium \in Media /\ op.run \in Ranges
  BY BlockStands DEF Typed, Writes, WritesOf
<1>2. FirstBlock(op.run) \in Nat
  BY <1>1, FirstOfBlocks
<1>3. CASE op.phase = "head"
  <2>1. op' = IF op.block + 1 \in Blocks(Info) THEN [op EXCEPT !.block = op.block + 1]
              ELSE [op EXCEPT !.phase = "write", !.block = FirstBlock(op.run)]
    BY <1>3, Zenon DEF NextBlock
  <2>2. CASE op.block + 1 \in Blocks(Info)
    <3>1. op' = [op EXCEPT !.block = op.block + 1]
      BY <2>1, <2>2
    <3> QED
      BY <1>1, <1>3, <2>2, <3>1 DEF Writes, WritesOf
  <2>3. CASE op.block + 1 \notin Blocks(Info)
    <3>1. op' = [op EXCEPT !.phase = "write", !.block = FirstBlock(op.run)]
      BY <2>1, <2>3
    <3> HIDE DEF FirstBlock
    <3> QED
      BY <1>1, <1>2, <1>3, <3>1 DEF Writes, WritesOf
  <2> QED
    BY <2>2, <2>3
<1>4. CASE op.phase = "write"
  <2>1. op' = IF op.block + 1 \in Blocks(op.run) THEN [op EXCEPT !.block = op.block + 1]
              ELSE [op EXCEPT !.phase = "verify"]
    BY <1>4, Zenon DEF NextBlock
  <2>2. CASE op.block + 1 \in Blocks(op.run)
    <3>1. op' = [op EXCEPT !.block = op.block + 1]
      BY <2>1, <2>2
    <3> QED
      BY <1>1, <1>4, <2>2, <3>1 DEF Writes, WritesOf
  <2>3. CASE op.block + 1 \notin Blocks(op.run)
    <3>1. op' = [op EXCEPT !.phase = "verify"]
      BY <2>1, <2>3
    <3>2. PICK i \in Nat, j \in Nat : i <= j /\ Blocks(op.run) = i .. j
      BY <1>1, RangeInBlocks
    <3>3. op.block \in i .. j /\ op.block + 1 \notin i .. j
      BY <1>1, <1>4, <2>3, <3>2 DEF WriteStands
    <3>4. \A k \in Blocks(op.run) : k < op.block + 1
      BY <1>1, <3>2, <3>3
    <3> QED
      BY <1>1, <1>4, <3>1, <3>4 DEF Writes, WritesOf
  <2> QED
    BY <2>2, <2>3
<1> QED
  BY <1>3, <1>4

\* A write under way: what kind it is.
LEMMA WriteKinds ==
  ASSUME Typed, WriteStands, op \in Writes
  PROVE  /\ op # NoWrite
         /\ \/ op.call \in SafeCalls /\ turn = "sync" /\ Card = integrity /\ integrity.n = working.n
            \/ op.call = "Sync" /\ turn = "load" /\ Card = working
         /\ op.run \in Ranges /\ op.run.to <= Card.n /\ Card.n \in 1 .. MaxSteps
<1>1. op.call \in SafeCalls \cup {"Sync"} /\ op # NoWrite /\ op.run \in Ranges
  BY DEF Writes, WritesOf, NoWrite
<1>2. op.call \in SafeCalls => op.call # "Sync"
  BY DEF SafeCalls
<1>3. op.run.to <= Card.n /\ (op.call = "Sync" => turn = "load")
      /\ (op.call \in SafeCalls => turn = "sync" /\ integrity.n = working.n)
  BY DEF WriteStands
<1>4. Card.n \in 1 .. MaxSteps
  BY CardIs DEF Cards
<1> QED
  BY <1>1, <1>2, <1>3, <1>4 DEF Card

\* A block that is written leaves the tag agreeing with the copies: the bytes of a neighbour
\* in it are on the tag already.
LEMMA WriteBlockKeeps ==
  ASSUME BlocksInv, WriteBlock
  PROVE  BlocksInv'
<1>1. /\ Typed /\ NumberKept /\ WriteStands /\ BlocksWritten
      /\ AgreesLoaded /\ AgreesEdited /\ AgreesSyncing /\ AgreesSynced
  BY DEF BlocksInv, Agrees
<1>2. /\ op.phase \in {"head", "write"} /\ PutBlock(op.block) /\ NextBlock
      /\ medium' = medium /\ sizes' = sizes /\ integrity' = integrity /\ working' = working
      /\ dirty' = dirty /\ unsure' = unsure /\ turn' = turn /\ synced' = synced
  BY DEF WriteBlock
<1>3. op \in Writes /\ medium \in Media /\ Info \in Ranges
  BY <1>1, <1>2, BlockStands DEF Typed
<1>4. /\ op' \in Writes
      /\ op'.call = op.call /\ op'.run = op.run /\ op'.left = op.left /\ op'.saved = op.saved
      /\ \/ op.phase = "head" /\ op'.phase = "head" /\ op'.block \in Blocks(Info)
         \/ op.phase = "head" /\ op'.phase = "write" /\ op'.block = FirstBlock(op.run)
         \/ op.phase = "write" /\ op'.phase = "write" /\ op'.block = op.block + 1
                               /\ op'.block \in Blocks(op.run)
         \/ op.phase = "write" /\ op'.phase = "verify"
                               /\ \A k \in Blocks(op.run) : k < op.block + 1
  BY <1>1, <1>2, NextBlockIs
<1>5. /\ tag' \in [Addresses -> 0 .. Len(sizes)]
      /\ \A b \in Bytewise : OnTag(b)' = IF b \div Page[medium] = op.block THEN Filled(b)
                                         ELSE OnTag(b)
  BY <1>1, <1>2, BlockPut
<1>6. /\ op # NoWrite
      /\ \/ op.call \in SafeCalls /\ turn = "sync" /\ Card = integrity /\ integrity.n = working.n
         \/ op.call = "Sync" /\ turn = "load" /\ Card = working
      /\ op.run \in Ranges /\ op.run.to <= Card.n /\ Card.n \in 1 .. MaxSteps
  BY <1>1, <1>3, WriteKinds
<1>7. Card' = Card
  BY <1>2, <1>4 DEF Card
<1>8. \A b : Filled(b)' = Filled(b)
  BY <1>7 DEF Filled
<1>9. Blocks(op.run)' = Blocks(op.run) /\ Blocks(Info)' = Blocks(Info)
  BY <1>2, <1>4 DEF Blocks, Info
<1>10. \A b \in Bytewise : Filled(b) = IF b < Size(Card.n) THEN Card.at[b] ELSE 0
  BY DEF Filled
<1>11. Typed'
  <2>1. Writes' = Writes /\ Cards' = Cards
    BY <1>2 DEF Writes, WritesOf, Cards
  <2> QED
    BY <1>1, <1>2, <1>4, <1>5, <2>1 DEF Typed
<1>12. NumberKept'
  <2>1. 3 \in Bytewise /\ 3 < Size(Card.n)
    BY <1>6, SizesGrow, BytewiseNat
  <2>2. Card.at[3] > 0
    BY <1>1, <1>6 DEF NumberKept
  <2>3. OnTag(3)' > 0
    BY <1>1, <1>5, <1>10, <2>1, <2>2 DEF NumberKept
  <2> QED
    BY <1>1, <1>2, <1>3, <1>4, <2>3 DEF NumberKept
<1>13. WriteStands'
  <2>1. op.phase = "head" => op.call = "WriteSafeStep"
    BY <1>1, <1>3 DEF WriteStands
  <2>2. op'.phase = "head" => op'.call = "WriteSafeStep" /\ op'.block \in Blocks(Info)
    BY <1>4, <2>1
  <2>3. op'.phase = "write" => op'.block \in Blocks(op.run)
    BY <1>3, <1>4, <1>6, FirstOfBlocks
  <2> QED
    BY <1>1, <1>2, <1>3, <1>4, <1>7, <1>9, <2>2, <2>3 DEF WriteStands
<1>14. BlocksWritten'
  <2>1. SUFFICES ASSUME op'.phase # "head", NEW b \in Bytewise,
                        b \div Page[medium] \in Blocks(op.run),
                        op'.phase = "verify" \/ b \div Page[medium] < op'.block
                 PROVE  OnTag(b)' = Filled(b)
    BY <1>2, <1>8, <1>9 DEF BlocksWritten
  <2> DEFINE k == b \div Page[medium]
  <2>2. CASE op.phase = "head"
    <3>1. op'.phase = "write" /\ op'.block = FirstBlock(op.run)
      BY <1>4, <2>1, <2>2
    <3>2. FirstBlock(op.run) <= k /\ FirstBlock(op.run) \in Nat /\ k \in Int
      BY <1>3, <1>6, <2>1, FirstOfBlocks, RangeInBlocks
    <3> QED
      BY <2>1, <3>1, <3>2
  <2>3. CASE op.phase = "write"
    <3>1. op.block \in Nat /\ k \in Int
      BY <1>3, <1>6, <2>1, RangeInBlocks DEF Writes, WritesOf
    <3>2. k < op.block + 1
      BY <1>4, <2>1, <2>3
    <3>3. k = op.block \/ k < op.block
      BY <3>1, <3>2
    <3>4. k < op.block => OnTag(b) = Filled(b)
      BY <1>1, <1>3, <2>1, <2>3 DEF BlocksWritten
    <3> QED
      BY <1>5, <3>3, <3>4
  <2> QED
    BY <1>2, <2>2, <2>3
<1>15. AgreesLoaded'
  BY <1>2, <1>6 DEF AgreesLoaded
<1>16. AgreesEdited'
  <2>1. SUFFICES ASSUME turn = "sync", NEW s \in 1 .. working.n, NEW b \in BytesOf(s) \ Doubtful
                 PROVE  OnTag(b)' = OnTag(b)
    <3>1. Doubtful' = Doubtful
      <4>1. op' \in Writes'
        BY <1>11, <1>4 DEF Typed, NoWrite, Writes, WritesOf
      <4> QED
        BY <1>2, <1>3, <1>4, <4>1 DEF Doubtful, Marker
    <3>2. \A s : Clean(s)' = Clean(s)
      BY <1>2 DEF Clean
    <3> QED
      BY <1>1, <1>2, <1>6, <2>1, <3>1, <3>2 DEF AgreesEdited
  <2>2. Card = integrity /\ integrity.n = working.n
    BY <1>6, <2>1 DEF SafeCalls
  <2>3. b \in Bytewise /\ b < Size(Card.n)
    BY <1>6, <2>2, BytesInside
  <2>4. OnTag(b) = integrity.at[b]
    BY <1>1, <1>6, <2>1 DEF AgreesEdited
  <2> QED
    BY <1>5, <1>10, <2>2, <2>3, <2>4
<1>17. AgreesSyncing'
  <2>1. SUFFICES ASSUME op.call = "Sync"
                 PROVE  \A s \in 0 .. working.n :
                          Pending(s) \/ \A b \in BytesOf(s) \ unsure : OnTag(b)' = working.at[b]
    <3>1. \A s : Pending(s)' = Pending(s)
      BY <1>4 DEF Pending
    <3> QED
      BY <1>1, <1>2, <1>3, <1>4, <2>1, <3>1 DEF AgreesSyncing
  <2>2. Card = working
    BY <2>1 DEF Card
  <2>3. ASSUME NEW s \in 0 .. working.n, ~ Pending(s), NEW b \in BytesOf(s) \ unsure
        PROVE  OnTag(b)' = working.at[b]
    <3>1. OnTag(b) = working.at[b]
      BY <1>1, <1>3, <2>1, <2>3 DEF AgreesSyncing
    <3>2. b \in Bytewise /\ b < Size(Card.n)
      BY <1>6, <2>2, BytesInside
    <3> QED
      BY <1>5, <1>10, <2>2, <3>1, <3>2
  <2> QED
    BY <2>3
<1>18. AgreesSynced'
  BY <1>1, <1>2, <1>6 DEF AgreesSynced
<1> QED
  BY <1>11, <1>12, <1>13, <1>14, <1>15, <1>16, <1>17, <1>18 DEF BlocksInv, Agrees

\* A write that has put none of its blocks, or none but those of the info.
Fresh(w, cards) ==
  /\ w \in WritesOf(cards)
  /\ \/ w.phase = "head" /\ w.call = "WriteSafeStep" /\ w.block \in Blocks(Info)
     \/ w.phase = "write" /\ w.block = FirstBlock(w.run)

\* A write that begins is fresh.
LEMMA WritingIs ==
  ASSUME medium \in Media, NEW call \in SafeCalls \cup {"Sync"}, NEW run \in Ranges,
         NEW left \in SUBSET Ranges, NEW saved \in Cards
  PROVE  /\ Fresh(Writing(call, run, left, saved), Cards)
         /\ Writing(call, run, left, saved).call = call
         /\ Writing(call, run, left, saved).run = run
         /\ Writing(call, run, left, saved).left = left
         /\ Writing(call, run, left, saved).saved = saved
<1> DEFINE w == Writing(call, run, left, saved)
           first == IF call = "WriteSafeStep" THEN FirstBlock(Info) ELSE FirstBlock(run)
           phase == IF call = "WriteSafeStep" THEN "head" ELSE "write"
<1>1. w = [call |-> call, run |-> run, left |-> left, saved |-> saved, phase |-> phase,
           block |-> first]
  BY DEF Writing
<1>2. Info \in Ranges
  BY DEF Info, Ranges
<1>3. FirstBlock(Info) \in Nat /\ FirstBlock(Info) \in Blocks(Info) /\ FirstBlock(run) \in Nat
  BY <1>2, FirstOfBlocks
<1> HIDE DEF w
<1>4. w \in WritesOf(Cards)
  BY <1>1, <1>3 DEF WritesOf
<1>5. Fresh(w, Cards)
  BY <1>1, <1>3, <1>4 DEF Fresh
<1> QED
  BY <1>1, <1>5 DEF w

\* Of a fresh write nothing need be on the tag.
LEMMA FreshOf ==
  ASSUME Fresh(op', Cards'), medium' \in Media, medium' = medium, op'.run \in Ranges
  PROVE  /\ op' \in Writes'
         /\ BlocksWritten'
         /\ op'.phase = "head" => op'.call = "WriteSafeStep" /\ op'.block \in Blocks(Info)'
         /\ op'.phase = "write" => op'.block \in Blocks(op.run)'
<1>1. op' \in Writes'
  BY DEF Fresh, Writes
<1>2. Blocks(Info)' = Blocks(Info) /\ Blocks(op.run)' = Blocks(op'.run)
  BY DEF Blocks, Info
<1>3. \A k \in Blocks(op'.run) : FirstBlock(op'.run) <= k /\ FirstBlock(op'.run) \in Nat
                                 /\ k \in Int /\ FirstBlock(op'.run) \in Blocks(op'.run)
  BY FirstOfBlocks, RangeInBlocks
<1>4. op'.phase # "head" => op'.phase = "write" /\ op'.block = FirstBlock(op'.run)
  BY DEF Fresh
<1>5. ASSUME op'.phase # "head", NEW b \in Bytewise,
             b \div Page[medium] \in Blocks(op'.run),
             op'.phase = "verify" \/ b \div Page[medium] < op'.block
      PROVE  FALSE
  BY <1>3, <1>4, <1>5
<1>6. BlocksWritten'
  BY <1>2, <1>5 DEF BlocksWritten
<1>7. FirstBlock(op'.run) \in Blocks(op'.run)
  BY FirstOfBlocks
<1>8. op'.phase = "head" => op'.call = "WriteSafeStep" /\ op'.block \in Blocks(Info)
  BY DEF Fresh
<1> QED
  BY <1>1, <1>2, <1>4, <1>6, <1>7, <1>8

\* The same where the versions stay.
LEMMA FreshWritten ==
  ASSUME Fresh(op', Cards), medium' \in Media, medium' = medium, op'.run \in Ranges, sizes' = sizes
  PROVE  /\ op' \in Writes'
         /\ BlocksWritten'
         /\ op'.phase = "head" => op'.call = "WriteSafeStep" /\ op'.block \in Blocks(Info)'
         /\ op'.phase = "write" => op'.block \in Blocks(op.run)'
<1>1. Cards' = Cards
  BY DEF Cards
<1> QED
  BY <1>1, FreshOf

\* A write that is begun again, or goes on behind the info, has lost nothing.
LEMMA BegunAgain ==
  ASSUME BlocksInv, op \in Writes, Fresh(op', Cards),
         op'.call = op.call, op'.run = op.run, op'.left = op.left, op'.saved = op.saved,
         UNCHANGED <<medium, tag, sizes, integrity, working, dirty, unsure, turn, synced>>
  PROVE  BlocksInv'
<1>1. /\ Typed /\ NumberKept /\ WriteStands /\ BlocksWritten
      /\ AgreesLoaded /\ AgreesEdited /\ AgreesSyncing /\ AgreesSynced
  BY DEF BlocksInv, Agrees
<1>2. /\ op # NoWrite
      /\ \/ op.call \in SafeCalls /\ turn = "sync" /\ Card = integrity /\ integrity.n = working.n
         \/ op.call = "Sync" /\ turn = "load" /\ Card = working
      /\ op.run \in Ranges /\ op.run.to <= Card.n /\ Card.n \in 1 .. MaxSteps
  BY <1>1, WriteKinds
<1>3. /\ op' \in Writes' /\ op' \in Writes /\ BlocksWritten'
      /\ op'.phase = "head" => op'.call = "WriteSafeStep" /\ op'.block \in Blocks(Info)'
      /\ op'.phase = "write" => op'.block \in Blocks(op.run)'
  <2>1. Writes' = Writes
    BY DEF Cards, Writes, WritesOf
  <2> QED
    BY <1>1, <1>2, <2>1, FreshWritten DEF Typed
<1>4. Card' = Card /\ Info' = Info /\ Doubtful' = Doubtful /\ \A b : OnTag(b)' = OnTag(b)
  BY <1>3 DEF Card, Info, Doubtful, Marker, OnTag
<1>5. \A s : Clean(s)' = Clean(s) /\ Pending(s)' = Pending(s)
  BY DEF Clean, Pending
<1>6. Typed'
  <2>1. Cards' = Cards
    BY DEF Cards
  <2> QED
    BY <1>1, <1>3, <2>1 DEF Typed
<1>7. NumberKept'
  BY <1>1, <1>4 DEF NumberKept
<1>8. WriteStands'
  BY <1>1, <1>3, <1>4 DEF WriteStands
<1>9. AgreesLoaded' /\ AgreesSynced'
  BY <1>1, <1>2 DEF AgreesLoaded, AgreesSynced
<1>10. AgreesEdited'
  BY <1>1, <1>2, <1>4, <1>5 DEF AgreesEdited
<1>11. AgreesSyncing'
  BY <1>1, <1>4, <1>5 DEF AgreesSyncing
<1> QED
  BY <1>3, <1>6, <1>7, <1>8, <1>9, <1>10, <1>11 DEF BlocksInv, Agrees

\* A product that is lifted leaves bytes of the range on the tag, and in doubt only a marker.
LEMMA LiftedKeeps ==
  ASSUME BlocksInv, Lifted
  PROVE  BlocksInv'
<1>1. /\ Typed /\ NumberKept /\ WriteStands /\ BlocksWritten
      /\ AgreesLoaded /\ AgreesEdited /\ AgreesSyncing /\ AgreesSynced
  BY DEF BlocksInv, Agrees
<1>2. op \in Writes /\ medium \in Media
  BY <1>1 DEF Lifted, Idle, Typed
<1>3. /\ op # NoWrite
      /\ \/ op.call \in SafeCalls /\ turn = "sync" /\ Card = integrity /\ integrity.n = working.n
         \/ op.call = "Sync" /\ turn = "load" /\ Card = working
      /\ op.run \in Ranges /\ op.run.to <= Card.n /\ Card.n \in 1 .. MaxSteps
  BY <1>1, <1>2, WriteKinds
<1>4. UNCHANGED <<medium, tag, sizes, working, dirty, turn, synced>>
  BY DEF Lifted
<1>5. CASE op' = Writing(op.call, op.run, op.left, op.saved) /\ UNCHANGED <<integrity, unsure>>
  <2>1. /\ Fresh(op', Cards)
        /\ op'.call = op.call /\ op'.run = op.run /\ op'.left = op.left /\ op'.saved = op.saved
    BY <1>2, <1>5, WritingIs DEF Writes, WritesOf
  <2> QED
    BY <1>2, <1>4, <1>5, <2>1, BegunAgain
<1>6. CASE /\ op.phase = "head" /\ UNCHANGED <<integrity, unsure>>
           /\ op' = [op EXCEPT !.phase = "write", !.block = FirstBlock(op.run)]
  <2>1. FirstBlock(op.run) \in Nat
    BY <1>2, <1>3, FirstOfBlocks
  <2> HIDE DEF FirstBlock
  <2>2. /\ op' \in Writes /\ op'.phase = "write" /\ op'.block = FirstBlock(op'.run)
        /\ op'.call = op.call /\ op'.run = op.run /\ op'.left = op.left /\ op'.saved = op.saved
    BY <1>2, <1>6, <2>1 DEF Writes, WritesOf
  <2>3. Fresh(op', Cards)
    BY <2>2 DEF Fresh, Writes
  <2> QED
    BY <1>2, <1>4, <1>6, <2>2, <2>3, BegunAgain
<1>7. CASE /\ op' = NoWrite
           /\ unsure' = unsure \cup (IF op.call = "WriteSafeStep" THEN Marker(op.run.from) ELSE {})
           /\ integrity' = IF op.call = "Sync" THEN integrity ELSE op.saved
  <2>1. op' \notin Writes' /\ op' # op
    BY <1>2, <1>7 DEF NoWrite, Writes, WritesOf
  <2>2. Doubtful' = Doubtful
    BY <1>2, <1>7, <2>1 DEF Doubtful
  <2>3. \A b : OnTag(b)' = OnTag(b)
    BY <1>4 DEF OnTag
  <2>4. Typed'
    <3>1. op.saved \in Cards /\ Cards' = Cards
      BY <1>2, <1>4 DEF Writes, WritesOf, Cards
    <3> QED
      BY <1>1, <1>4, <1>7, <3>1 DEF Typed
  <2>5. NumberKept'
    BY <1>1, <1>2, <1>4, <1>7, <2>1, <2>3 DEF NumberKept
  <2>6. WriteStands' /\ BlocksWritten' /\ AgreesSyncing'
    BY <2>1 DEF WriteStands, BlocksWritten, AgreesSyncing
  <2>7. AgreesLoaded' /\ AgreesSynced'
    BY <1>1, <1>3, <1>4 DEF AgreesLoaded, AgreesSynced
  <2>8. AgreesEdited'
    <3>1. \A s : Clean(s)' = Clean(s)
      BY <1>4 DEF Clean
    <3> QED
      BY <1>1, <1>3, <1>4, <1>7, <2>2, <2>3, <3>1 DEF AgreesEdited
  <2> QED
    BY <2>4, <2>5, <2>6, <2>7, <2>8 DEF BlocksInv, Agrees
<1> QED
  BY <1>5, <1>6, <1>7, Zenon DEF Lifted

\* Once all its blocks are written, the range is on the tag.
LEMMA RangeOnTag ==
  ASSUME Typed, WriteStands, BlocksWritten, op.phase = "verify"
  PROVE  /\ op \in Writes
         /\ \A s \in op.run.from .. op.run.to : \A b \in BytesOf(s) :
              b \in Bytewise /\ OnTag(b) = Card.at[b]
<1>1. op \in Writes /\ medium \in Media
  BY DEF Typed, NoWrite
<1>2. op.run \in Ranges /\ op.run.to <= Card.n /\ Card.n \in 1 .. MaxSteps
  BY <1>1, WriteKinds
<1>3. ASSUME NEW s \in op.run.from .. op.run.to, NEW b \in BytesOf(s)
      PROVE  b \in Bytewise /\ OnTag(b) = Card.at[b]
  <2>1. s \in 0 .. Card.n
    BY <1>2 DEF Ranges
  <2>2. b \in Bytewise /\ b < Size(Card.n) /\ b \in Nat
    BY <1>2, <2>1, BytesInside
  <2>3. b \div Page[medium] \in Blocks(op.run)
    BY <1>1, <1>2, RangeInBlocks
  <2>4. OnTag(b) = Filled(b)
    BY <1>1, <2>2, <2>3 DEF BlocksWritten
  <2> QED
    BY <2>2, <2>4 DEF Filled
<1> QED
  BY <1>1, <1>3

\* A read of a range that is written finds it as it is in the copy.
LEMMA WrittenIsSame ==
  ASSUME Typed, WriteStands, BlocksWritten, op.phase = "verify"
  PROVE  SameOnTag(Card, op.run)
<1>1. op \in Writes /\ medium \in Media /\ op.run \in Ranges
  BY RangeOnTag, WriteKinds DEF Typed
<1>2. ASSUME NEW s \in op.run.from .. op.run.to, NEW b \in BytesOf(s)
      PROVE  Card.at[b] = Read(IF s = 0 THEN NFC_LoadTRecipeInfoStructure
                               ELSE NFC_LoadTRecipeStep[s], b)
  <2>1. s \in 0 .. MaxSteps
    BY <1>1 DEF Ranges
  <2>2. Card.at[b] = OnTag(b)
    BY RangeOnTag
  <2> QED
    BY <1>1, <2>1, <2>2, ReadStructure
<1> QED
  BY <1>2 DEF SameOnTag

\* What NFC_Handler_CopyToWorking makes of a card.
LEMMA WorkingIs ==
  ASSUME NEW card \in Cards, working \in Cards, NEW steps \in SUBSET Nat
  PROVE  /\ CopiedToWorking(card, steps) \in Cards
         /\ CopiedToWorking(card, steps).n = card.n
         /\ \A b \in Offsets : b < 12 => CopiedToWorking(card, steps).at[b] = card.at[b]
         /\ \A s \in 1 .. MaxSteps : \A b \in BytesOf(s) :
              CopiedToWorking(card, steps).at[b] = IF s \in steps /\ Clean(s) THEN card.at[b]
                                                   ELSE working.at[b]
<1> DEFINE copied == CopiedToWorking(card, steps)
           kept(b) == b < 12 \/ \E s \in steps : b \in BytesOf(s) /\ Clean(s)
<1>1. copied = [n |-> card.n, at |-> [b \in Offsets |-> IF kept(b) THEN card.at[b]
                                                        ELSE working.at[b]]]
  BY DEF CopiedToWorking, Clean, TRecipeInfo_Size
<1> HIDE DEF copied, kept
<1>2. copied \in Cards /\ copied.n = card.n
  BY <1>1 DEF Cards
<1>3. \A b \in Offsets : copied.at[b] = IF kept(b) THEN card.at[b] ELSE working.at[b]
  BY <1>1
<1>4. \A b \in Offsets : b < 12 => copied.at[b] = card.at[b]
  BY <1>3 DEF kept
<1>5. ASSUME NEW s \in 1 .. MaxSteps, NEW b \in BytesOf(s)
      PROVE  copied.at[b] = IF s \in steps /\ Clean(s) THEN card.at[b] ELSE working.at[b]
  <2>1. b \in Offsets /\ ~ (b < 12)
    <3>1. b >= 12 /\ b \in Nat /\ b \in Offsets
      BY BytesInside
    <3> QED
      BY <3>1
  <2>2. \A t \in steps : b \in BytesOf(t) => t = s
    BY BytesApart
  <2>3. kept(b) <=> s \in steps /\ Clean(s)
    BY <2>1, <2>2, Zenon DEF kept
  <2> QED
    BY <1>3, <2>1, <2>3
<1> QED
  BY <1>2, <1>4, <1>5 DEF copied

\* The range that is taken next.
LEMMA LeastRange ==
  ASSUME NEW L \in SUBSET Ranges, L # {}
  PROVE  (CHOOSE r \in L : \A q \in L : r.from <= q.from) \in L
<1> DEFINE starts == {r.from : r \in L}
<1>1. starts \in SUBSET Nat /\ starts # {}
  BY DEF Ranges
<1>2. PICK i \in starts : \A j \in starts : i <= j
  <2> HIDE DEF starts
  <2> QED
    BY <1>1, LeastNumber
<1>3. PICK r \in L : r.from = i
  BY <1>2
<1>4. \A q \in L : r.from <= q.from
  BY <1>2, <1>3
<1> QED
  BY <1>4, Zenon

\* A range of Sync that is verified is no longer pending.
LEMMA SyncedRange ==
  ASSUME BlocksInv, Verified, op.call = "Sync"
  PROVE  BlocksInv'
<1>1. /\ Typed /\ NumberKept /\ WriteStands /\ BlocksWritten
      /\ AgreesLoaded /\ AgreesEdited /\ AgreesSyncing /\ AgreesSynced
  BY DEF BlocksInv, Agrees
<1>2. /\ op.phase = "verify"
      /\ UNCHANGED <<medium, tag, sizes, unsure, turn, working>>
      /\ integrity' = [n |-> working.n,
                       at |-> [b \in Offsets |-> IF b \in BytesOfRun(op.run) THEN working.at[b]
                                                 ELSE integrity.at[b]]]
      /\ dirty' = [s \in DOMAIN dirty |-> dirty[s] /\ s \notin op.run.from .. op.run.to]
  BY DEF Verified
<1>3. \/ op.left = {} /\ op' = NoWrite /\ synced' = TRUE
      \/ /\ op.left # {} /\ UNCHANGED synced
         /\ LET run == CHOOSE r \in op.left : \A q \in op.left : r.from <= q.from
            IN op' = Writing("Sync", run, op.left \ {run}, op.saved)
  BY Zenon DEF Verified
<1>4. /\ op \in Writes
      /\ \A s \in op.run.from .. op.run.to : \A b \in BytesOf(s) :
           b \in Bytewise /\ OnTag(b) = Card.at[b]
  BY <1>1, <1>2, RangeOnTag
<1>5. /\ op # NoWrite /\ turn = "load" /\ Card = working
      /\ op.run \in Ranges /\ op.run.to <= Card.n /\ Card.n \in 1 .. MaxSteps
  BY <1>1, <1>4, WriteKinds DEF SafeCalls
<1>6. integrity' \in Cards /\ integrity'.at[3] > 0
  <2>1. \A b \in Offsets : integrity'.at[b] \in {working.at[b], integrity.at[b]}
    BY <1>2
  <2>2. 3 \in Offsets
    BY <1>5, SizesGrow
  <2>3. integrity.at[3] > 0 /\ working.at[3] > 0
    BY <1>1 DEF NumberKept
  <2>4. integrity'.at[3] > 0
    BY <2>1, <2>2, <2>3
  <2>5. working \in Cards /\ integrity \in Cards
    BY <1>1 DEF Typed
  <2>6. integrity' \in Cards
    BY <1>2, <2>5 DEF Cards
  <2> QED
    BY <2>4, <2>6
<1>7. dirty' \in [1 .. working.n -> BOOLEAN] /\ synced' \in BOOLEAN
  BY <1>1, <1>2, <1>3 DEF Typed
<1>8. Cards' = Cards /\ Writes' = Writes /\ \A b : OnTag(b)' = OnTag(b)
  BY <1>2 DEF Cards, Writes, WritesOf, OnTag
<1>9. AgreesLoaded' /\ AgreesEdited'
  BY <1>2, <1>5 DEF AgreesLoaded, AgreesEdited
<1>10. ASSUME NEW s \in 0 .. working.n, \A r \in op.left : s \notin r.from .. r.to
       PROVE  \A b \in BytesOf(s) \ unsure : OnTag(b) = working.at[b]
  <2>1. CASE s \in op.run.from .. op.run.to
    BY <1>4, <1>5, <2>1
  <2>2. CASE s \notin op.run.from .. op.run.to
    <3>1. ~ Pending(s)
      BY <1>10, <2>2 DEF Pending
    <3> QED
      BY <1>1, <1>4, <3>1 DEF AgreesSyncing
  <2> QED
    BY <2>1, <2>2
<1>11. CASE op.left = {} /\ op' = NoWrite /\ synced' = TRUE
  <2>1. op' \notin Writes'
    BY <1>11 DEF NoWrite, Writes, WritesOf
  <2>2. Typed' /\ NumberKept'
    BY <1>1, <1>2, <1>6, <1>7, <1>8, <1>11, <2>1 DEF Typed, NumberKept
  <2>3. WriteStands' /\ BlocksWritten' /\ AgreesSyncing'
    BY <2>1 DEF WriteStands, BlocksWritten, AgreesSyncing
  <2>4. AgreesSynced'
    BY <1>2, <1>5, <1>8, <1>10, <1>11 DEF AgreesSynced
  <2> QED
    BY <1>9, <2>2, <2>3, <2>4 DEF BlocksInv, Agrees
<1>12. ASSUME op.left # {}, UNCHANGED synced,
              NEW run, run = CHOOSE r \in op.left : \A q \in op.left : r.from <= q.from,
              op' = Writing("Sync", run, op.left \ {run}, op.saved)
       PROVE  BlocksInv'
  <2>1. op.left \in SUBSET Ranges /\ op.saved \in Cards
    BY <1>4 DEF Writes, WritesOf
  <2>2. run \in op.left /\ run \in Ranges
    BY <1>12, <2>1, LeastRange
  <2>3. /\ Fresh(op', Cards) /\ op'.call = "Sync" /\ op'.run = run /\ op'.left = op.left \ {run}
        /\ op'.saved = op.saved
    <3>1. op.left \ {run} \in SUBSET Ranges /\ "Sync" \in SafeCalls \cup {"Sync"}
          /\ medium \in Media
      BY <1>1, <2>1 DEF Typed
    <3> DEFINE rest == op.left \ {run}
    <3>2. \A call \in SafeCalls \cup {"Sync"}, others \in SUBSET Ranges :
            LET w == Writing(call, run, others, op.saved)
            IN Fresh(w, Cards) /\ w.call = call /\ w.run = run /\ w.left = others /\ w.saved = op.saved
      BY <2>1, <2>2, <3>1, WritingIs
    <3> HIDE DEF rest
    <3>3. op' = Writing("Sync", run, rest, op.saved)
      BY <1>12 DEF rest
    <3> QED
      BY <3>1, <3>2, <3>3 DEF rest
  <2>4. /\ op' \in Writes' /\ BlocksWritten'
        /\ op'.phase = "head" => op'.call = "WriteSafeStep" /\ op'.block \in Blocks(Info)'
        /\ op'.phase = "write" => op'.block \in Blocks(op.run)'
    BY <1>1, <1>2, <2>2, <2>3, FreshWritten DEF Typed
  <2>5. op'.left \cup {op'.run} = op.left
    BY <2>2, <2>3
  <2>6. Card' = working
    BY <1>2, <2>3 DEF Card
  <2>7. Typed' /\ NumberKept'
    BY <1>1, <1>2, <1>4, <1>6, <1>7, <1>8, <2>3, <2>4 DEF Typed, NumberKept
  <2>8. WriteStands'
    BY <1>1, <1>2, <1>4, <1>5, <2>2, <2>3, <2>4, <2>6 DEF WriteStands, SafeCalls
  <2>9. AgreesSyncing'
    <3>1. \A s : Pending(s)' <=> \E r \in op.left : s \in r.from .. r.to
      BY <2>5 DEF Pending
    <3>2. \A p, q \in op.left : p = q \/ p.to + 1 < q.from \/ q.to + 1 < p.from
      BY <1>1, <1>4 DEF AgreesSyncing
    <3> QED
      BY <1>2, <1>8, <1>10, <2>5, <3>1, <3>2 DEF AgreesSyncing
  <2>10. AgreesSynced'
    BY <1>1, <1>5, <1>12 DEF AgreesSynced
  <2> QED
    BY <1>9, <2>4, <2>7, <2>8, <2>9, <2>10 DEF BlocksInv, Agrees
<1> QED
  BY <1>3, <1>11, <1>12

\* A safe write that is verified puts integrity and the tag into working.
LEMMA VerifiedSafe ==
  ASSUME BlocksInv, Verified, op.call # "Sync"
  PROVE  BlocksInv'
<1>1. /\ Typed /\ NumberKept /\ WriteStands /\ BlocksWritten
      /\ AgreesLoaded /\ AgreesEdited /\ AgreesSyncing /\ AgreesSynced
  BY DEF BlocksInv, Agrees
<1> DEFINE steps == IF op.call = "WriteSafeStep" THEN 1 .. integrity.n ELSE {}
<1>2. /\ op.phase = "verify" /\ op' = NoWrite /\ working' = CopiedToWorking(integrity, steps)
      /\ UNCHANGED <<medium, tag, sizes, unsure, turn, integrity, dirty, synced>>
  BY Zenon DEF Verified
<1>3. /\ op \in Writes
      /\ \A s \in op.run.from .. op.run.to : \A b \in BytesOf(s) :
           b \in Bytewise /\ OnTag(b) = Card.at[b]
  BY <1>1, <1>2, RangeOnTag
<1>4. /\ op # NoWrite /\ op.call \in SafeCalls /\ turn = "sync" /\ Card = integrity
      /\ integrity.n = working.n /\ integrity.n \in 1 .. MaxSteps
  BY <1>1, <1>3, WriteKinds
<1>5. op' \notin Writes'
  BY <1>2 DEF NoWrite, Writes, WritesOf
<1>6. Cards' = Cards /\ \A b : OnTag(b)' = OnTag(b)
  BY <1>2 DEF Cards, OnTag
<1>7. /\ working' \in Cards /\ working'.n = working.n
      /\ \A b \in Offsets : b < 12 => working'.at[b] = integrity.at[b]
      /\ \A s \in 1 .. MaxSteps : \A b \in BytesOf(s) :
           working'.at[b] = IF s \in steps /\ Clean(s) THEN integrity.at[b] ELSE working.at[b]
  <2>1. integrity \in Cards /\ working \in Cards /\ steps \in SUBSET Nat
    BY <1>1, <1>4 DEF Typed
  <2> HIDE DEF steps
  <2> QED
    BY <1>2, <1>4, <2>1, WorkingIs
<1> HIDE DEF steps
<1>8. Typed'
  BY <1>1, <1>2, <1>6, <1>7 DEF Typed
<1>9. NumberKept'
  <2>1. 3 \in Offsets
    BY <1>4, SizesGrow
  <2> QED
    BY <1>1, <1>2, <1>5, <1>6, <1>7, <2>1 DEF NumberKept
<1>10. WriteStands' /\ BlocksWritten' /\ AgreesSyncing'
  BY <1>5 DEF WriteStands, BlocksWritten, AgreesSyncing
<1>11. AgreesLoaded' /\ AgreesSynced'
  BY <1>1, <1>2, <1>4 DEF AgreesLoaded, AgreesSynced
<1>12. ASSUME NEW s \in 1 .. working.n, Clean(s), NEW b \in BytesOf(s) \ unsure
       PROVE  OnTag(b) = working'.at[b]
  <2>1. s \in 1 .. MaxSteps
    BY <1>4
  <2>2. CASE b \notin Doubtful
    <3>1. OnTag(b) = working.at[b] /\ OnTag(b) = integrity.at[b]
      BY <1>1, <1>4, <1>12, <2>2 DEF AgreesEdited
    <3> QED
      BY <1>7, <2>1, <3>1
  <2>3. CASE b \in Doubtful
    <3>1. op.call = "WriteSafeStep" /\ b \in Marker(op.run.from)
      BY <1>12, <2>3 DEF Doubtful
    <3>2. op.run.from \in Nat /\ op.run.from > 0 /\ op.run.to = op.run.from
      BY <1>1, <1>3, <3>1 DEF WriteStands, Writes, WritesOf, Ranges
    <3>3. b \in BytesOf(op.run.from)
      BY <3>1, <3>2 DEF Marker, BytesOf, First, TRecipeInfo_Size, TRecipeStep_Size
    <3>4. OnTag(b) = integrity.at[b]
      BY <1>3, <1>4, <3>2, <3>3
    <3>5. s \in steps
      BY <1>4, <3>1 DEF steps
    <3> QED
      BY <1>7, <1>12, <2>1, <3>4, <3>5
  <2> QED
    BY <2>2, <2>3
<1>13. AgreesEdited'
  <2>1. Doubtful' = unsure
    BY <1>2, <1>5 DEF Doubtful
  <2>2. \A s : Clean(s)' = Clean(s)
    BY <1>2 DEF Clean
  <2> QED
    BY <1>2, <1>6, <1>7, <1>12, <2>1, <2>2 DEF AgreesEdited
<1> QED
  BY <1>8, <1>9, <1>10, <1>11, <1>13 DEF BlocksInv, Agrees

\* A write that is verified leaves the copies agreeing with the tag.
LEMMA VerifiedKeeps ==
  ASSUME BlocksInv, Verified
  PROVE  BlocksInv'
BY SyncedRange, VerifiedSafe

-----------------------------------------------------------------------------
\* The ranges of Sync.

\* Every dirty step and the info lie in a range, and two ranges are apart.
LEMMA RunsOf ==
  ASSUME NEW n \in 1 .. MaxSteps, dirty \in [1 .. n -> BOOLEAN]
  PROVE  /\ Runs(dirty) \subseteq Ranges /\ \A r \in Runs(dirty) : r.to <= n
         /\ \A s \in 0 .. n : (Clean(s) /\ s > 0) \/ \E r \in Runs(dirty) : s \in r.from .. r.to
         /\ \A p, q \in Runs(dirty) : p = q \/ p.to + 1 < q.from \/ q.to + 1 < p.from
<1> DEFINE marked == {0} \cup {i \in DOMAIN dirty : dirty[i]}
           isRun(run) == /\ run.from <= run.to /\ run.from .. run.to \subseteq marked
                         /\ run.from - 1 \notin marked /\ run.to + 1 \notin marked
<1>1. Runs(dirty) = {run \in [from : marked, to : marked] : isRun(run)}
  BY DEF Runs
<1>2. marked \subseteq 0 .. n /\ 0 \in marked
  OBVIOUS
<1>3. \A s \in 0 .. n : (Clean(s) /\ s > 0) \/ s \in marked
  BY DEF Clean
<1> HIDE DEF marked
<1>4. ASSUME NEW r \in Runs(dirty)
      PROVE  /\ r \in [from : marked, to : marked] /\ isRun(r)
             /\ r.from \in 0 .. n /\ r.to \in 0 .. n /\ r.from <= r.to
             /\ r = [from |-> r.from, to |-> r.to] /\ r \in Ranges
  <2>1. r \in [from : marked, to : marked] /\ isRun(r)
    BY <1>1, Zenon
  <2>2. r.from \in marked /\ r.to \in marked /\ r = [from |-> r.from, to |-> r.to]
    <3> HIDE DEF isRun
    <3> QED
      BY <2>1
  <2>3. r.from \in 0 .. n /\ r.to \in 0 .. n /\ r.from <= r.to
    BY <1>2, <2>1, <2>2
  <2>4. r \in [from : 0 .. MaxSteps, to : 0 .. MaxSteps]
    BY <2>2, <2>3
  <2> QED
    BY <2>1, <2>2, <2>3, <2>4, Zenon DEF Ranges
<1>5. ASSUME NEW s \in marked PROVE \E r \in Runs(dirty) : s \in r.from .. r.to
  <2> DEFINE starts == {f \in 0 .. s : f .. s \subseteq marked}
             ends == {t \in Nat : t >= s /\ t + 1 \notin marked}
  <2>1. s \in 0 .. n
    BY <1>2
  <2>2. PICK f \in starts : \A g \in starts : f <= g
    <3>1. starts \in SUBSET Nat /\ s \in starts
      BY <2>1
    <3> HIDE DEF starts
    <3> QED
      BY <3>1, LeastNumber
  <2>3. PICK t \in ends : \A g \in ends : t <= g
    <3>1. ends \in SUBSET Nat /\ n \in ends
      BY <1>2, <2>1
    <3> HIDE DEF ends
    <3> QED
      BY <3>1, LeastNumber
  <2>4. f - 1 \notin marked
    <3>1. SUFFICES ASSUME f - 1 \in marked PROVE FALSE
      OBVIOUS
    <3>2. f - 1 \in 0 .. s /\ f - 1 .. s \subseteq marked
      BY <1>2, <2>1, <2>2, <3>1
    <3>3. f - 1 \in starts
      BY <3>2
    <3> QED
      BY <2>2, <3>3
  <2>5. \A k \in s .. t : k \in marked
    <3> DEFINE off == {k \in s .. t : k \notin marked}
    <3>1. SUFFICES ASSUME off # {} PROVE FALSE
      OBVIOUS
    <3>2. PICK k \in off : \A g \in off : k <= g
      <4>1. off \in SUBSET Nat
        BY <2>1
      <4> HIDE DEF off
      <4> QED
        BY <3>1, <4>1, LeastNumber
    <3>3. k # s
      BY <1>5, <3>2
    <3>4. k - 1 \in ends
      BY <2>1, <3>2, <3>3
    <3> QED
      BY <2>1, <2>3, <3>2, <3>4
  <2>6. f .. t \subseteq marked /\ f <= s /\ s <= t /\ f \in Nat /\ t \in Nat
    BY <2>1, <2>2, <2>3, <2>5
  <2> DEFINE r == [from |-> f, to |-> t]
  <2>7. r.from = f /\ r.to = t /\ r \in [from : marked, to : marked]
    <3>1. f \in f .. t /\ t \in f .. t
      BY <2>1, <2>6
    <3> QED
      BY <2>6, <3>1
  <2> HIDE DEF r
  <2>8. isRun(r)
    BY <2>1, <2>3, <2>4, <2>6, <2>7
  <2>9. r \in Runs(dirty)
    BY <1>1, <2>7, <2>8
  <2>10. s \in r.from .. r.to
    BY <2>1, <2>6, <2>7
  <2> QED
    BY <2>9, <2>10
<1>6. ASSUME NEW p \in Runs(dirty), NEW q \in Runs(dirty),
             ~ (p.to + 1 < q.from), ~ (q.to + 1 < p.from)
      PROVE  p = q
  <2>1. /\ isRun(p) /\ isRun(q)
        /\ p = [from |-> p.from, to |-> p.to] /\ q = [from |-> q.from, to |-> q.to]
    BY <1>4
  <2>2. p.from \in Nat /\ p.to \in Nat /\ q.from \in Nat /\ q.to \in Nat
    BY <1>4
  <2>3. ~ (p.from < q.from)
    <3>1. ASSUME p.from < q.from PROVE q.from - 1 \in p.from .. p.to
      BY <1>6, <2>2, <3>1
    <3> QED
      BY <2>1, <3>1
  <2>4. ~ (q.from < p.from)
    <3>1. ASSUME q.from < p.from PROVE p.from - 1 \in q.from .. q.to
      BY <1>6, <2>2, <3>1
    <3> QED
      BY <2>1, <3>1
  <2>5. p.from = q.from
    BY <2>2, <2>3, <2>4
  <2>6. ~ (p.to < q.to)
    <3>1. ASSUME p.to < q.to PROVE p.to + 1 \in q.from .. q.to
      BY <2>1, <2>2, <2>5, <3>1
    <3> QED
      BY <2>1, <3>1
  <2>7. ~ (q.to < p.to)
    <3>1. ASSUME q.to < p.to PROVE q.to + 1 \in p.from .. p.to
      BY <2>1, <2>2, <2>5, <3>1
    <3> QED
      BY <2>1, <3>1
  <2>8. p.to = q.to
    BY <2>2, <2>6, <2>7
  <2> QED
    BY <2>1, <2>5, <2>8
<1>7. \A s \in 0 .. n : (Clean(s) /\ s > 0) \/ \E r \in Runs(dirty) : s \in r.from .. r.to
  BY <1>3, <1>5
<1> HIDE DEF isRun
<1>8. \A p, q \in Runs(dirty) : p = q \/ p.to + 1 < q.from \/ q.to + 1 < p.from
  BY <1>6
<1>9. Runs(dirty) \subseteq Ranges /\ \A r \in Runs(dirty) : r.to <= n
  BY <1>4
<1> QED
  BY <1>7, <1>8, <1>9

\* Sync begins with every structure on the tag but those of its ranges.
LEMMA SyncKeeps ==
  ASSUME BlocksInv, Sync
  PROVE  BlocksInv'
<1>1. /\ Typed /\ NumberKept /\ WriteStands /\ BlocksWritten
      /\ AgreesLoaded /\ AgreesEdited /\ AgreesSyncing /\ AgreesSynced
  BY DEF BlocksInv, Agrees
<1> DEFINE runs == Runs(dirty)
<1>2. PICK run : /\ run = CHOOSE r \in runs : \A q \in runs : r.from <= q.from
                 /\ op' = Writing("Sync", run, runs \ {run}, integrity)
  BY Zenon DEF Sync
<1>3. /\ op = NoWrite /\ turn = "sync" /\ turn' = "load"
      /\ UNCHANGED <<medium, tag, sizes, integrity, working, dirty, unsure, synced>>
  BY DEF Sync, Idle
<1>4. working.n \in 1 .. MaxSteps /\ dirty \in [1 .. working.n -> BOOLEAN] /\ medium \in Media
      /\ integrity \in Cards
  BY <1>1 DEF Typed, Cards
<1>5. /\ runs \in SUBSET Ranges /\ \A r \in runs : r.to <= working.n
      /\ \A s \in 0 .. working.n : (Clean(s) /\ s > 0) \/ \E r \in runs : s \in r.from .. r.to
      /\ \A p, q \in runs : p = q \/ p.to + 1 < q.from \/ q.to + 1 < p.from
  BY <1>4, RunsOf
<1> HIDE DEF runs
<1>6. run \in runs
  <2>1. runs # {}
    BY <1>4, <1>5
  <2> QED
    BY <1>2, <1>5, <2>1, LeastRange
<1>7. /\ Fresh(op', Cards) /\ op'.call = "Sync" /\ op'.run = run /\ op'.left = runs \ {run}
      /\ op'.saved = integrity
  <2> DEFINE rest == runs \ {run}
  <2>1. rest \in SUBSET Ranges /\ run \in Ranges /\ "Sync" \in SafeCalls \cup {"Sync"}
    BY <1>5, <1>6
  <2>2. \A call \in SafeCalls \cup {"Sync"}, others \in SUBSET Ranges :
          LET w == Writing(call, run, others, integrity)
          IN Fresh(w, Cards) /\ w.call = call /\ w.run = run /\ w.left = others /\ w.saved = integrity
    BY <1>4, <2>1, WritingIs
  <2>3. op' = Writing("Sync", run, rest, integrity)
    BY <1>2
  <2> HIDE DEF rest
  <2> QED
    BY <2>1, <2>2, <2>3 DEF rest
<1>8. /\ op' \in Writes' /\ BlocksWritten'
      /\ op'.phase = "head" => op'.call = "WriteSafeStep" /\ op'.block \in Blocks(Info)'
      /\ op'.phase = "write" => op'.block \in Blocks(op.run)'
  BY <1>3, <1>4, <1>5, <1>6, <1>7, FreshWritten
<1>9. op'.left \cup {op'.run} = runs
  BY <1>6, <1>7
<1>10. Card' = working
  BY <1>3, <1>7 DEF Card
<1>11. Cards' = Cards /\ \A b : OnTag(b)' = OnTag(b)
  BY <1>3 DEF Cards, OnTag
<1>12. Typed' /\ NumberKept'
  BY <1>1, <1>3, <1>7, <1>8, <1>11 DEF Typed, NumberKept
<1>13. WriteStands'
  BY <1>3, <1>5, <1>6, <1>7, <1>8, <1>10 DEF WriteStands, SafeCalls
<1>14. AgreesLoaded' /\ AgreesEdited' /\ AgreesSynced'
  BY <1>1, <1>3 DEF AgreesLoaded, AgreesEdited, AgreesSynced
<1>15. AgreesSyncing'
  <2>1. \A s : Pending(s)' <=> \E r \in runs : s \in r.from .. r.to
    BY <1>9 DEF Pending
  <2>2. ASSUME NEW s \in 0 .. working.n, ~ \E r \in runs : s \in r.from .. r.to
        PROVE  \A b \in BytesOf(s) \ unsure : OnTag(b) = working.at[b]
    <3>1. Clean(s) /\ s \in 1 .. working.n
      BY <1>4, <1>5, <2>2
    <3>2. Doubtful = unsure
      BY <1>3 DEF Doubtful, NoWrite, Writes, WritesOf
    <3> QED
      BY <1>1, <1>3, <3>1, <3>2 DEF AgreesEdited
  <2> QED
    BY <1>3, <1>5, <1>9, <1>11, <2>1, <2>2 DEF AgreesSyncing
<1> QED
  BY <1>8, <1>12, <1>13, <1>14, <1>15 DEF BlocksInv, Agrees

-----------------------------------------------------------------------------
\* The edits and the load.

\* An edit is one version more.
LEMMA NewVersionIs ==
  ASSUME Typed, NEW n \in 1 .. MaxSteps, NewVersion(n)
  PROVE  /\ sizes' \in Seq(1 .. MaxSteps) /\ Len(sizes') = Version /\ Version = Len(sizes) + 1
         /\ Len(sizes) \in Nat /\ Cards \subseteq Cards'
<1>1. sizes \in Seq(1 .. MaxSteps) /\ sizes' = Append(sizes, n) /\ Len(sizes) \in Nat
  BY DEF Typed, NewVersion
<1>2. sizes' \in Seq(1 .. MaxSteps) /\ Len(sizes') = Len(sizes) + 1
  BY <1>1
<1>3. 0 .. Len(sizes) \subseteq 0 .. Len(sizes')
  BY <1>1, <1>2
<1>4. Cards' = [n : 1 .. MaxSteps, at : [Offsets -> 0 .. Len(sizes')]]
  BY DEF Cards
<1>5. Cards \subseteq Cards'
  BY <1>3, <1>4 DEF Cards
<1> QED
  BY <1>1, <1>2, <1>5 DEF Version

\* An edit of a card changes the bytes it is told to.
LEMMA EditedIs ==
  ASSUME Typed, NEW n \in 1 .. MaxSteps, NewVersion(n), NEW card \in Cards, NEW bytes
  PROVE  /\ Edited(card, bytes, Version) \in Cards'
         /\ Edited(card, bytes, Version).n = card.n
         /\ \A b \in Offsets : Edited(card, bytes, Version).at[b] = IF b \in bytes THEN Version
                                                                    ELSE card.at[b]
<1> DEFINE card2 == Edited(card, bytes, Version)
<1>1. Len(sizes') = Version /\ Version \in Nat /\ Version > Len(sizes) /\ Len(sizes) \in Nat
  BY NewVersionIs
<1>2. card2 = [card EXCEPT !.at = [b \in Offsets |-> IF b \in bytes THEN Version ELSE card.at[b]]]
  BY DEF Edited
<1> HIDE DEF card2
<1>3. card2 = [n |-> card.n,
               at |-> [b \in Offsets |-> IF b \in bytes THEN Version ELSE card.at[b]]]
  BY <1>2 DEF Cards
<1>4. Cards' = [n : 1 .. MaxSteps, at : [Offsets -> 0 .. Len(sizes')]]
  BY DEF Cards
<1>5. \A b \in Offsets : card.at[b] \in 0 .. Len(sizes) /\ card.n \in 1 .. MaxSteps
  BY DEF Cards
<1>6. card2 \in Cards'
  <2>1. [b \in Offsets |-> IF b \in bytes THEN Version ELSE card.at[b]]
          \in [Offsets -> 0 .. Len(sizes')]
    BY <1>1, <1>5
  <2>2. card.n \in 1 .. MaxSteps
    BY DEF Cards
  <2> QED
    BY <1>3, <1>4, <2>1, <2>2
<1> QED
  BY <1>3, <1>6 DEF card2

\* The bytes of the fields lie in their structures.
LEMMA FieldBytes ==
  /\ \A b \in Progress \cup CheckSumBytes : b \in 0 .. 11 /\ b # 3
  /\ \A i \in Nat : i > 0 => Flags(i) \subseteq BytesOf(i) /\ Marker(i) \subseteq BytesOf(i)
  /\ \A s \in Nat : \A b \in BytesOf(s) : s > 0 => b \notin Progress \cup CheckSumBytes /\ b # 3
BY DEF Progress, CheckSumBytes, Flags, Marker, BytesOf, First, TRecipeInfo_Size, TRecipeStep_Size

\* What holds while nothing is edited yet.
LEMMA BeforeEdit ==
  ASSUME BlocksInv, turn = "edit"
  PROVE  /\ Typed /\ NumberKept /\ op = NoWrite /\ unsure = {} /\ integrity.n = working.n
         /\ \A s \in 0 .. working.n : \A b \in BytesOf(s) :
              OnTag(b) = integrity.at[b] /\ (Clean(s) => OnTag(b) = working.at[b])
         /\ working.n \in 1 .. MaxSteps /\ medium \in Media
         /\ integrity \in Cards /\ working \in Cards /\ 3 \in Offsets
<1>1. Typed /\ NumberKept /\ AgreesLoaded
  BY DEF BlocksInv, Agrees
<1>2. working.n \in 1 .. MaxSteps /\ medium \in Media /\ integrity \in Cards /\ working \in Cards
  BY <1>1 DEF Typed, Cards
<1>3. 3 \in Offsets
  BY <1>2, SizesGrow
<1> QED
  BY <1>1, <1>2, <1>3 DEF AgreesLoaded

\* A step that is done is dirty in working.
LEMMA StepDoneKeeps ==
  ASSUME BlocksInv, NEW i \in 1 .. MaxSteps, StepDone(i)
  PROVE  BlocksInv'
<1>1. /\ turn = "edit" /\ i <= working.n /\ NewVersion(working.n) /\ turn' = "sync"
      /\ working' = Edited(working, Flags(i) \cup Progress, Version)
      /\ dirty' = [dirty EXCEPT ![i] = TRUE]
      /\ integrity' = Edited(integrity, Progress \ CheckSumBytes, Version)
      /\ op' = Writing("WriteSafeInfo", Info, {}, integrity)
      /\ synced' = FALSE
      /\ UNCHANGED <<medium, tag, unsure>>
  BY Zenon DEF StepDone
<1>2. /\ Typed /\ NumberKept /\ op = NoWrite /\ unsure = {} /\ integrity.n = working.n
      /\ \A s \in 0 .. working.n : \A b \in BytesOf(s) :
           OnTag(b) = integrity.at[b] /\ (Clean(s) => OnTag(b) = working.at[b])
      /\ working.n \in 1 .. MaxSteps /\ medium \in Media
      /\ integrity \in Cards /\ working \in Cards /\ 3 \in Offsets
  BY <1>1, BeforeEdit
<1>3. /\ sizes' \in Seq(1 .. MaxSteps) /\ Len(sizes') = Version /\ Version = Len(sizes) + 1
      /\ Len(sizes) \in Nat /\ Cards \subseteq Cards'
  BY <1>1, <1>2, NewVersionIs
<1>4. /\ working' \in Cards' /\ working'.n = working.n
      /\ \A b \in Offsets : working'.at[b] = IF b \in Flags(i) \cup Progress THEN Version
                                             ELSE working.at[b]
  BY <1>1, <1>2, EditedIs
<1>5. /\ integrity' \in Cards' /\ integrity'.n = integrity.n
      /\ \A b \in Offsets : integrity'.at[b] = IF b \in Progress \ CheckSumBytes THEN Version
                                               ELSE integrity.at[b]
  BY <1>1, <1>2, EditedIs
<1>6. /\ Fresh(op', Cards') /\ op'.call = "WriteSafeInfo" /\ op'.run = Info /\ op'.left = {}
      /\ op'.saved = integrity /\ Info \in Ranges
  <2>1. Info \in Ranges /\ Info.to = 0
    BY DEF Info, Ranges
  <2>2. \A call \in SafeCalls \cup {"Sync"}, others \in SUBSET Ranges :
          LET w == Writing(call, Info, others, integrity)
          IN Fresh(w, Cards) /\ w.call = call /\ w.run = Info /\ w.left = others
                             /\ w.saved = integrity
    BY <1>2, <2>1, WritingIs
  <2>3. "WriteSafeInfo" \in SafeCalls \cup {"Sync"} /\ {} \in SUBSET Ranges
    BY DEF SafeCalls
  <2>4. /\ Fresh(op', Cards) /\ op'.call = "WriteSafeInfo" /\ op'.run = Info /\ op'.left = {}
        /\ op'.saved = integrity
    BY <1>1, <2>2, <2>3
  <2>5. Fresh(op', Cards')
    BY <1>3, <2>4 DEF Fresh, WritesOf
  <2> QED
    BY <2>1, <2>4, <2>5
<1>7. /\ op' \in Writes' /\ BlocksWritten'
      /\ op'.phase = "head" => op'.call = "WriteSafeStep" /\ op'.block \in Blocks(Info)'
      /\ op'.phase = "write" => op'.block \in Blocks(op.run)'
  BY <1>1, <1>2, <1>6, FreshOf
<1>8. \A b : OnTag(b)' = OnTag(b)
  BY <1>1 DEF OnTag
<1>9. Typed'
  <2>1. tag' \in [Addresses -> 0 .. Len(sizes')]
    BY <1>1, <1>2, <1>3 DEF Typed
  <2>2. dirty' \in [1 .. working.n -> BOOLEAN]
    BY <1>1, <1>2 DEF Typed
  <2>3. medium' \in Media /\ turn' \in {"load", "edit", "sync"} /\ synced' \in BOOLEAN
    BY <1>1, <1>2
  <2>4. Len(sizes') > 0 /\ dirty' \in [1 .. working'.n -> BOOLEAN]
    BY <1>3, <1>4, <2>2
  <2> QED
    BY <1>3, <1>4, <1>5, <1>7, <2>1, <2>3, <2>4, Zenon DEF Typed
<1>10. NumberKept'
  <2>1. Version > 0
    BY <1>3
  <2> QED
    BY <1>2, <1>4, <1>5, <1>6, <1>8, <2>1 DEF NumberKept
<1>11. WriteStands'
  <2>1. Card'.n = working.n
    BY <1>2, <1>5, <1>6 DEF Card
  <2>2. Info' = Info /\ Info.to = 0 /\ Info.from = 0
    BY DEF Info
  <2> QED
    BY <1>1, <1>2, <1>4, <1>5, <1>6, <1>7, <2>1, <2>2 DEF WriteStands, SafeCalls
<1>12. AgreesLoaded' /\ AgreesSyncing' /\ AgreesSynced'
  BY <1>1, <1>6 DEF AgreesLoaded, AgreesSyncing, AgreesSynced
<1>13. AgreesEdited'
  <2>1. SUFFICES ASSUME NEW s \in 1 .. working.n, NEW b \in BytesOf(s)
                 PROVE  /\ Clean(s)' => OnTag(b) = working'.at[b]
                        /\ OnTag(b) = integrity'.at[b]
    BY <1>4, <1>8 DEF AgreesEdited
  <2>2. b \in Offsets /\ b \notin Progress
    BY <1>2, BytesInside, FieldBytes
  <2>3. OnTag(b) = integrity.at[b] /\ (Clean(s) => OnTag(b) = working.at[b])
    BY <1>2
  <2>4. Clean(s)' => Clean(s) /\ s # i
    BY <1>1, <1>2 DEF Clean, Typed
  <2>5. s # i => b \notin Flags(i)
    BY FieldBytes, BytesApart
  <2> QED
    BY <1>4, <1>5, <2>2, <2>3, <2>4, <2>5
<1> QED
  BY <1>7, <1>9, <1>10, <1>11, <1>12, <1>13 DEF BlocksInv, Agrees

\* A step that is marked is in doubt by its marker alone.
LEMMA StepMarkedKeeps ==
  ASSUME BlocksInv, NEW i \in 1 .. MaxSteps, StepMarked(i)
  PROVE  BlocksInv'
<1> DEFINE range == [from |-> i, to |-> i]
           saved == Edited(integrity, CheckSumBytes, Version)
<1>1. /\ turn = "edit" /\ i <= integrity.n /\ NewVersion(integrity.n) /\ turn' = "sync"
      /\ integrity' = Edited(integrity, Marker(i) \cup CheckSumBytes, Version)
      /\ op' = Writing("WriteSafeStep", range, {}, saved)
      /\ synced' = FALSE
      /\ UNCHANGED <<medium, tag, working, dirty, unsure>>
  BY Zenon DEF StepMarked
<1>2. /\ Typed /\ NumberKept /\ op = NoWrite /\ unsure = {} /\ integrity.n = working.n
      /\ \A s \in 0 .. working.n : \A b \in BytesOf(s) :
           OnTag(b) = integrity.at[b] /\ (Clean(s) => OnTag(b) = working.at[b])
      /\ working.n \in 1 .. MaxSteps /\ medium \in Media
      /\ integrity \in Cards /\ working \in Cards /\ 3 \in Offsets
  BY <1>1, BeforeEdit
<1>3. /\ sizes' \in Seq(1 .. MaxSteps) /\ Len(sizes') = Version /\ Version = Len(sizes) + 1
      /\ Len(sizes) \in Nat /\ Cards \subseteq Cards'
  BY <1>1, <1>2, NewVersionIs
<1>4. /\ saved \in Cards' /\ saved.n = integrity.n
      /\ \A b \in Offsets : saved.at[b] = IF b \in CheckSumBytes THEN Version ELSE integrity.at[b]
  BY <1>1, <1>2, EditedIs
<1>5. /\ integrity' \in Cards' /\ integrity'.n = integrity.n
      /\ \A b \in Offsets : integrity'.at[b] = IF b \in Marker(i) \cup CheckSumBytes THEN Version
                                               ELSE integrity.at[b]
  BY <1>1, <1>2, EditedIs
<1> HIDE DEF saved
<1>6. /\ Fresh(op', Cards') /\ op'.call = "WriteSafeStep" /\ op'.run = range /\ op'.left = {}
      /\ op'.saved = saved /\ range \in Ranges
  <2>1. Info \in Ranges /\ range \in Ranges
    BY DEF Info, Ranges
  <2>2. FirstBlock(Info) \in Nat /\ FirstBlock(Info) \in Blocks(Info)
    BY <1>2, <2>1, FirstOfBlocks
  <2>3. op' = [call |-> "WriteSafeStep", run |-> range, left |-> {}, saved |-> saved,
               phase |-> "head", block |-> FirstBlock(Info)]
    BY <1>1 DEF Writing
  <2> HIDE DEF range
  <2>4. op' \in WritesOf(Cards')
    BY <1>4, <2>1, <2>2, <2>3 DEF WritesOf, SafeCalls
  <2> QED
    BY <2>1, <2>2, <2>3, <2>4 DEF Fresh
<1>7. /\ op' \in Writes' /\ BlocksWritten'
      /\ op'.phase = "head" => op'.call = "WriteSafeStep" /\ op'.block \in Blocks(Info)'
      /\ op'.phase = "write" => op'.block \in Blocks(op.run)'
  BY <1>1, <1>2, <1>6, FreshOf
<1>8. \A b : OnTag(b)' = OnTag(b)
  BY <1>1 DEF OnTag
<1>9. Typed'
  <2>1. tag' \in [Addresses -> 0 .. Len(sizes')]
    BY <1>1, <1>2, <1>3 DEF Typed
  <2>2. dirty' \in [1 .. working'.n -> BOOLEAN] /\ working' \in Cards'
    BY <1>1, <1>2, <1>3 DEF Typed
  <2>3. medium' \in Media /\ turn' \in {"load", "edit", "sync"} /\ synced' \in BOOLEAN
    BY <1>1, <1>2
  <2>4. Len(sizes') > 0
    BY <1>3
  <2> QED
    BY <1>3, <1>5, <1>7, <2>1, <2>2, <2>3, <2>4, Zenon DEF Typed
<1>10. NumberKept'
  <2>1. Version > 0
    BY <1>3
  <2> QED
    BY <1>1, <1>2, <1>4, <1>5, <1>6, <1>8, <2>1 DEF NumberKept
<1>11. WriteStands'
  <2>1. Card'.n = working.n /\ range.from = i /\ range.to = i
    BY <1>2, <1>5, <1>6 DEF Card
  <2> HIDE DEF range
  <2> QED
    BY <1>1, <1>2, <1>4, <1>5, <1>6, <1>7, <2>1 DEF WriteStands, SafeCalls
<1>12. AgreesLoaded' /\ AgreesSyncing' /\ AgreesSynced'
  BY <1>1, <1>6 DEF AgreesLoaded, AgreesSyncing, AgreesSynced
<1>13. AgreesEdited'
  <2>1. Doubtful' = Marker(i)
    <3>1. op'.run.from = i
      BY <1>6
    <3> QED
      BY <1>1, <1>2, <1>6, <1>7, <3>1 DEF Doubtful, Marker
  <2>2. SUFFICES ASSUME NEW s \in 1 .. working.n, NEW b \in BytesOf(s), b \notin Marker(i)
                 PROVE  /\ Clean(s) => OnTag(b) = working.at[b]
                        /\ OnTag(b) = integrity'.at[b]
    <3>1. \A s : Clean(s)' = Clean(s)
      BY <1>1 DEF Clean
    <3> QED
      BY <1>1, <1>8, <2>1, <3>1 DEF AgreesEdited
  <2>3. b \in Offsets /\ b \notin CheckSumBytes
    BY <1>2, BytesInside, FieldBytes
  <2>4. OnTag(b) = integrity.at[b] /\ (Clean(s) => OnTag(b) = working.at[b])
    BY <1>2
  <2> QED
    BY <1>5, <2>2, <2>3, <2>4
<1> QED
  BY <1>7, <1>9, <1>10, <1>11, <1>12, <1>13 DEF BlocksInv, Agrees

\* A new recipe is dirty in all its steps.
LEMMA NewRecipeKeeps ==
  ASSUME BlocksInv, NEW n \in 1 .. MaxSteps, NewRecipe(n)
  PROVE  BlocksInv'
<1>1. /\ turn = "edit" /\ NewVersion(n) /\ turn' = "sync"
      /\ working' = [n |-> n, at |-> [b \in Offsets |-> IF b < Size(n) THEN Version ELSE 0]]
      /\ dirty' = [i \in 1 .. n |-> TRUE]
      /\ synced' = FALSE
      /\ UNCHANGED <<medium, tag, integrity, op, unsure>>
  BY DEF NewRecipe
<1>2. /\ Typed /\ NumberKept /\ op = NoWrite /\ unsure = {} /\ integrity.n = working.n
      /\ medium \in Media /\ integrity \in Cards /\ 3 \in Offsets
  BY <1>1, BeforeEdit
<1>3. /\ sizes' \in Seq(1 .. MaxSteps) /\ Len(sizes') = Version /\ Version = Len(sizes) + 1
      /\ Len(sizes) \in Nat /\ Cards \subseteq Cards'
  BY <1>1, <1>2, NewVersionIs
<1>4. op' \notin Writes'
  BY <1>1, <1>2 DEF NoWrite, Writes, WritesOf
<1>5. \A b : OnTag(b)' = OnTag(b)
  BY <1>1 DEF OnTag
<1>6. working' \in Cards' /\ working'.at[3] > 0
  <2>1. Cards' = [n : 1 .. MaxSteps, at : [Offsets -> 0 .. Len(sizes')]]
    BY DEF Cards
  <2>2. Version \in 0 .. Len(sizes') /\ 0 \in 0 .. Len(sizes') /\ Version > 0
    BY <1>3
  <2>3. Size(n) > 3
    BY SizesGrow
  <2> HIDE DEF Version
  <2> QED
    BY <1>1, <1>2, <2>1, <2>2, <2>3
<1>7. Typed'
  <2>1. tag' \in [Addresses -> 0 .. Len(sizes')]
    BY <1>1, <1>2, <1>3 DEF Typed
  <2>2. dirty' \in [1 .. working'.n -> BOOLEAN] /\ integrity' \in Cards'
    BY <1>1, <1>2, <1>3
  <2>3. medium' \in Media /\ turn' \in {"load", "edit", "sync"} /\ synced' \in BOOLEAN
        /\ op' = NoWrite
    BY <1>1, <1>2
  <2>4. Len(sizes') > 0
    BY <1>3
  <2> QED
    BY <1>3, <1>6, <2>1, <2>2, <2>3, <2>4, Zenon DEF Typed, NoWrite
<1>8. NumberKept'
  BY <1>1, <1>2, <1>4, <1>5, <1>6 DEF NumberKept
<1>9. WriteStands' /\ BlocksWritten' /\ AgreesSyncing'
  BY <1>4 DEF WriteStands, BlocksWritten, AgreesSyncing
<1>10. AgreesLoaded' /\ AgreesSynced'
  BY <1>1 DEF AgreesLoaded, AgreesSynced
<1>11. AgreesEdited'
  <2>1. \A s \in 1 .. working'.n : ~ Clean(s)'
    BY <1>1 DEF Clean
  <2>2. op' = NoWrite
    BY <1>1, <1>2
  <2> QED
    BY <2>1, <2>2 DEF AgreesEdited, NoWrite
<1> QED
  BY <1>7, <1>8, <1>9, <1>10, <1>11 DEF BlocksInv, Agrees

\* A load makes the copies agree with the tag, but for the steps still to be written.
LEMMA LoadKeeps ==
  ASSUME BlocksInv, Load
  PROVE  BlocksInv'
<1>1. Typed /\ NumberKept
  BY DEF BlocksInv
<1>2. /\ op = NoWrite /\ integrity' = Loaded /\ dirty' = Resized(Loaded.n)
      /\ working' = CopiedToWorking(Loaded, 1 .. Loaded.n)
      /\ synced' = FALSE /\ turn' = "edit" /\ unsure' = {}
      /\ UNCHANGED <<medium, tag, sizes, op>>
  BY DEF Load, Idle
<1> DEFINE card == Loaded
<1>3. /\ card \in Cards /\ card.at[3] > 0
      /\ \A b \in Offsets : card.at[b] = IF b < Size(card.n) THEN OnTag(b) ELSE 0
  BY <1>1, LoadedCard
<1> HIDE DEF card
<1>4. integrity' = card /\ dirty' = Resized(card.n)
      /\ working' = CopiedToWorking(card, 1 .. card.n)
  BY <1>2 DEF card
<1>5. card.n \in 1 .. MaxSteps /\ working \in Cards
  BY <1>1, <1>3 DEF Typed, Cards
<1>6. /\ working' \in Cards /\ working'.n = card.n
      /\ \A b \in Offsets : b < 12 => working'.at[b] = card.at[b]
      /\ \A s \in 1 .. MaxSteps : \A b \in BytesOf(s) :
           working'.at[b] = IF s \in 1 .. card.n /\ Clean(s) THEN card.at[b] ELSE working.at[b]
  <2> DEFINE steps == 1 .. card.n
  <2>1. steps \in SUBSET Nat
    BY <1>5
  <2>2. working' = CopiedToWorking(card, steps)
    BY <1>4
  <2> HIDE DEF steps
  <2>3. /\ working' \in Cards /\ working'.n = card.n
        /\ \A b \in Offsets : b < 12 => working'.at[b] = card.at[b]
        /\ \A s \in 1 .. MaxSteps : \A b \in BytesOf(s) :
             working'.at[b] = IF s \in steps /\ Clean(s) THEN card.at[b] ELSE working.at[b]
    BY <1>3, <1>5, <2>1, <2>2, WorkingIs
  <2> QED
    BY <2>3 DEF steps
<1>7. dirty' \in [1 .. card.n -> BOOLEAN] /\ \A s \in 1 .. card.n : Clean(s)' => Clean(s)
  <2>1. dirty' = [i \in 1 .. card.n |-> i \in DOMAIN dirty /\ dirty[i]]
    BY <1>4 DEF Resized
  <2>2. \A i \in DOMAIN dirty : dirty[i] \in BOOLEAN
    BY <1>1 DEF Typed
  <2> QED
    BY <2>1, <2>2 DEF Clean
<1>8. op' \notin Writes' /\ Cards' = Cards /\ \A b : OnTag(b)' = OnTag(b)
  BY <1>2 DEF NoWrite, Writes, WritesOf, Cards, OnTag
<1>9. Typed'
  BY <1>1, <1>2, <1>3, <1>4, <1>6, <1>7, <1>8 DEF Typed
<1>10. NumberKept'
  <2>1. 3 \in Offsets
    BY <1>5, SizesGrow
  <2> QED
    BY <1>1, <1>3, <1>4, <1>6, <1>8, <2>1 DEF NumberKept
<1>11. WriteStands' /\ BlocksWritten' /\ AgreesSyncing'
  BY <1>8 DEF WriteStands, BlocksWritten, AgreesSyncing
<1>12. AgreesEdited' /\ AgreesSynced'
  BY <1>2 DEF AgreesEdited, AgreesSynced
<1>13. ASSUME NEW s \in 0 .. card.n, NEW b \in BytesOf(s)
       PROVE  OnTag(b) = card.at[b] /\ (Clean(s)' => OnTag(b) = working'.at[b])
  <2>1. b \in Offsets /\ b < Size(card.n) /\ (IF s = 0 THEN b < 12 ELSE b >= 12)
    BY <1>5, BytesInside
  <2>2. OnTag(b) = card.at[b]
    BY <1>3, <2>1
  <2>3. CASE s = 0
    BY <1>6, <2>1, <2>2, <2>3
  <2>4. CASE s # 0
    <3>1. s \in 1 .. card.n /\ s \in 1 .. MaxSteps
      BY <1>5, <2>4
    <3> QED
      BY <1>6, <1>7, <2>2, <3>1
  <2> QED
    BY <2>3, <2>4
<1>14. AgreesLoaded'
  BY <1>2, <1>4, <1>6, <1>8, <1>13 DEF AgreesLoaded
<1> QED
  BY <1>9, <1>10, <1>11, <1>12, <1>14 DEF BlocksInv, Agrees

-----------------------------------------------------------------------------
\* The invariant, and what follows from it.

\* A tag with one version on it and a reader that has loaded nothing since.
LEMMA InitBlocks == Init => BlocksInv
<1> SUFFICES ASSUME Init PROVE BlocksInv
  OBVIOUS
<1> DEFINE ones == [n |-> MaxSteps, at |-> [b \in Offsets |-> 1]]
<1>1. /\ medium \in Media /\ sizes = <<MaxSteps>> /\ integrity = ones /\ working = ones
      /\ tag = [a \in Addresses |-> IF \E b \in Offsets : WrittenTo[medium][b] = a THEN 1 ELSE 0]
      /\ dirty = [i \in 1 .. MaxSteps |-> FALSE]
      /\ op = NoWrite /\ synced = FALSE /\ turn = "load" /\ unsure = {}
  BY DEF Init
<1>2. MaxSteps \in 1 .. MaxSteps
  OBVIOUS
<1>3. sizes \in Seq(1 .. MaxSteps) /\ Len(sizes) = 1
  BY <1>1, <1>2
<1>4. ones \in Cards
  BY <1>2, <1>3 DEF Cards
<1>5. 3 \in Offsets /\ 3 \in Bytewise
  BY <1>2, SizesGrow, BytewiseNat
<1>6. op \notin Writes
  BY <1>1 DEF NoWrite, Writes, WritesOf
<1>7. Typed
  <2>1. tag \in [Addresses -> 0 .. Len(sizes)]
    BY <1>1, <1>3
  <2>2. dirty \in [1 .. working.n -> BOOLEAN]
    BY <1>1
  <2>3. synced \in BOOLEAN
    BY <1>1, Zenon
  <2>5. turn \in {"load", "edit", "sync"} /\ Len(sizes) > 0
    BY <1>1, <1>3
  <2>4. integrity \in Cards /\ working \in Cards
    BY <1>1, <1>4
  <2> QED
    BY <1>1, <1>3, <2>1, <2>2, <2>3, <2>4, <2>5, Zenon DEF Typed
<1>8. NumberKept
  <2>1. OnTag(3) = 1
    BY <1>1, <1>5, AddressOf DEF OnTag
  <2> QED
    BY <1>1, <1>5, <1>6, <2>1 DEF NumberKept
<1>9. WriteStands /\ BlocksWritten /\ Agrees
  BY <1>1, <1>6 DEF WriteStands, BlocksWritten, Agrees, AgreesLoaded, AgreesEdited, AgreesSyncing,
                    AgreesSynced
<1> QED
  BY <1>7, <1>8, <1>9 DEF BlocksInv

\* No step breaks the invariant.
LEMMA BlocksStep == BlocksInv /\ [Next]_vars => BlocksInv'
<1> SUFFICES ASSUME BlocksInv, [Next]_vars PROVE BlocksInv'
  OBVIOUS
<1>1. CASE WriteBlock
  BY <1>1, WriteBlockKeeps
<1>2. CASE Lifted
  BY <1>2, LiftedKeeps
<1>3. CASE Verified
  BY <1>3, VerifiedKeeps
<1>4. CASE Sync
  BY <1>4, SyncKeeps
<1>5. CASE Load
  BY <1>5, LoadKeeps
<1>6. ASSUME NEW i \in 1 .. MaxSteps, StepDone(i) PROVE BlocksInv'
  BY <1>6, StepDoneKeeps
<1>7. ASSUME NEW i \in 1 .. MaxSteps, StepMarked(i) PROVE BlocksInv'
  BY <1>7, StepMarkedKeeps
<1>8. ASSUME NEW i \in 1 .. MaxSteps, NewRecipe(i) PROVE BlocksInv'
  BY <1>8, NewRecipeKeeps
<1>9. CASE UNCHANGED vars
  <2>1. /\ medium' = medium /\ tag' = tag /\ sizes' = sizes /\ integrity' = integrity
        /\ working' = working /\ dirty' = dirty /\ op' = op /\ unsure' = unsure
        /\ turn' = turn /\ synced' = synced
    BY <1>9 DEF vars
  <2>2. Typed' /\ NumberKept'
    BY <2>1 DEF BlocksInv, Typed, NumberKept, Cards, Writes, WritesOf, OnTag
  <2>3. WriteStands' /\ BlocksWritten'
    BY <2>1 DEF BlocksInv, WriteStands, BlocksWritten, Writes, WritesOf, Cards, Card, Blocks, Info,
                OnTag, Filled
  <2>4. Agrees'
    BY <2>1 DEF BlocksInv, Agrees, AgreesLoaded, AgreesEdited, AgreesSyncing, AgreesSynced, Writes,
                WritesOf, Cards, OnTag, Doubtful, Marker, Clean, Pending
  <2> QED
    BY <2>2, <2>3, <2>4 DEF BlocksInv
<1> QED
  BY <1>1, <1>2, <1>3, <1>4, <1>5, <1>6, <1>7, <1>8, <1>9 DEF Next

\* The copies and the tag agree on every byte but those of steps still to be written and
\* of markers in doubt, through every load, edit, write and lifting of the product.
THEOREM BlocksAgree == Spec => []BlocksInv
BY InitBlocks, BlocksStep, PTL DEF Spec

\* Every variable keeps its type, however long the recipes are.
THEOREM BlocksTypes == Spec => []TypeOK
<1>1. BlocksInv => TypeOK
  <2> SUFFICES ASSUME BlocksInv PROVE TypeOK
    OBVIOUS
  <2>1. /\ medium \in Media /\ tag \in [Addresses -> 0 .. Len(sizes)]
        /\ integrity \in Cards /\ working \in Cards /\ dirty \in [1 .. working.n -> BOOLEAN]
        /\ op = NoWrite \/ op \in Writes
        /\ turn \in {"load", "edit", "sync"}
    BY DEF BlocksInv, Typed
  <2>2. \A c \in {integrity, working} : c.n \in 1 .. MaxSteps
                                        /\ c.at \in [Offsets -> 0 .. Len(sizes)]
    BY <2>1 DEF Cards
  <2>3. Len(dirty) = working.n
    BY <2>1, <2>2
  <2>4. op.phase \in {"none", "head", "write", "verify"}
    BY <2>1 DEF NoWrite, Writes, WritesOf
  <2> QED
    BY <2>1, <2>2, <2>3, <2>4 DEF TypeOK
<1> QED
  BY <1>1, BlocksAgree, PTL

\* A write that has put its blocks passes its verification, on both kinds of tag and
\* wherever in a block its structures begin.
THEOREM BlocksVerify == Spec => []VerifiesAtOnce
<1>1. BlocksInv => VerifiesAtOnce
  BY WrittenIsSame DEF BlocksInv, VerifiesAtOnce
<1> QED
  BY <1>1, BlocksAgree, PTL

\* When Sync has answered, the tag holds working byte by byte, but for markers given up.
THEOREM SyncIsOnTag == Spec => []SyncedIsOnTag
<1>1. BlocksInv => SyncedIsOnTag
  <2> SUFFICES ASSUME BlocksInv, synced, NEW b \in (0 .. Size(working.n) - 1) \ unsure
               PROVE  tag[WrittenTo[medium][b]] = working.at[b]
    BY DEF SyncedIsOnTag
  <2>1. working.n \in 1 .. MaxSteps
    BY DEF BlocksInv, Typed, Cards
  <2>2. b \in Nat /\ b < Size(working.n)
    BY <2>1, SizesGrow
  <2>3. PICK s \in 0 .. working.n : b \in BytesOf(s)
    BY <2>1, <2>2, StructureOf
  <2> QED
    BY <2>3 DEF BlocksInv, Agrees, AgreesSynced, OnTag
<1> QED
  BY <1>1, BlocksAgree, PTL

\* A card that is loaded is what the tag holds, byte by byte, though blocks and steps
\* begin at different places.
THEOREM LoadIsOnTag == Spec => []LoadedIsOnTag
<1>1. BlocksInv => LoadedIsOnTag
  BY LoadedCard DEF BlocksInv, LoadedIsOnTag, OnTag
<1> QED
  BY <1>1, BlocksAgree, PTL

\* A write changes its range, the zeros behind the recipe, and nothing else but markers
\* that were given up.
LEMMA WriteChanges ==
  ASSUME BlocksInv, WriteBlock, NEW a \in Addresses, tag'[a] # tag[a]
  PROVE  \/ \E b \in BytesOfRun(op.run) : WrittenTo[medium][b] = a
         \/ op.call = "WriteSafeStep" /\ \E b \in BytesOf(0) : WrittenTo[medium][b] = a
         \/ \E b \in unsure : WrittenTo[medium][b] = a
         \/ ForData(a) /\ tag'[a] = 0
<1>1. Typed /\ WriteStands /\ AgreesEdited /\ AgreesSyncing /\ medium \in Media
  BY DEF BlocksInv, Agrees, Typed
<1>2. /\ op.phase \in {"head", "write"} /\ PutBlock(op.block) /\ UNCHANGED medium
  BY DEF WriteBlock
<1>3. op \in Writes /\ op.block \in AllBlocks(medium) /\ Info \in Ranges
  BY <1>1, <1>2, BlockStands
<1>4. /\ op # NoWrite
      /\ \/ op.call \in SafeCalls /\ turn = "sync" /\ Card = integrity /\ integrity.n = working.n
         \/ op.call = "Sync" /\ turn = "load" /\ Card = working
      /\ op.run \in Ranges /\ op.run.to <= Card.n /\ Card.n \in 1 .. MaxSteps
  BY <1>1, <1>3, WriteKinds
<1> DEFINE P == Page[medium]
           place == PlaceOf(medium, op.block)
           b == op.block * P + (a % P)
<1>5. tag' = [c \in Addresses |-> IF c \div P = place THEN Filled(op.block * P + (c % P)) ELSE tag[c]]
  BY <1>2 DEF PutBlock
<1>6. a \div P = place /\ tag'[a] = Filled(b)
  <2> HIDE DEF P, place
  <2> QED
    BY <1>5
<1>7. a \in Nat
  BY AddressesNat
<1>8. b \in Bytewise /\ WrittenTo[medium][b] = a
  BY <1>1, <1>3, <1>6, <1>7, ByteAt
<1>9. b \div P = op.block
  <2>1. a % P \in 0 .. P - 1
    BY <1>1, <1>7, MediaPages
  <2> QED
    BY <1>1, <1>3, <2>1, ByteOfBlock
<1>10. Filled(b) # OnTag(b) /\ tag'[a] = Filled(b)
  BY <1>6, <1>8 DEF OnTag
<1> HIDE DEF b
<1>11. CASE b >= Size(Card.n)
  <2>1. tag'[a] = 0
    BY <1>1, <1>8, <1>10, <1>11, FilledIs
  <2>2. ForData(a)
    <3>1. IF medium = "classic" THEN place # 0 /\ place % 4 # 3 ELSE place >= 4
      BY <1>1, <1>3, PlacesApart
    <3>2. P = IF medium = "classic" THEN 16 ELSE 4
      BY <1>1, MediaPages
    <3> HIDE DEF P, place
    <3> QED
      BY <1>6, <3>1, <3>2 DEF ForData
  <2> QED
    BY <2>1, <2>2
<1>12. CASE b < Size(Card.n)
  <2>1. b \in Nat /\ Filled(b) = Card.at[b]
    BY <1>1, <1>8, <1>12, BytewiseNat, FilledIs
  <2>2. CASE op.call = "Sync"
    <3>1. op.phase = "write"
      BY <1>1, <1>2, <1>3, <2>2 DEF WriteStands
    <3>2. op.block \in Blocks(op.run)
      BY <1>1, <1>3, <3>1 DEF WriteStands
    <3>3. PICK s \in 0 .. Card.n : b \in BytesOf(s) /\ s \in op.run.from - 1 .. op.run.to + 1
      BY <1>1, <1>4, <1>8, <1>9, <1>12, <3>2, Neighbours
    <3>4. Card = working /\ s \in 0 .. working.n
      BY <2>2, <3>3 DEF Card
    <3>5. CASE s \in op.run.from .. op.run.to
      BY <1>8, <3>3, <3>5 DEF BytesOfRun
    <3>6. CASE s \notin op.run.from .. op.run.to
      <4>1. op.run.from \in Nat /\ op.run.to \in Nat /\ op.run.from <= op.run.to
        BY <1>4 DEF Ranges
      <4>2. \A r \in op.left : r.from \in Nat /\ r.to \in Nat /\ r.from <= r.to
        BY <1>3 DEF Writes, WritesOf, Ranges
      <4>3. s = op.run.from - 1 \/ s = op.run.to + 1
        BY <3>3, <3>6, <4>1
      <4>4. \A r \in op.left : s \notin r.from .. r.to
        <5>1. SUFFICES ASSUME NEW r \in op.left, s \in r.from .. r.to PROVE FALSE
          OBVIOUS
        <5>2. r # op.run
          BY <3>6, <5>1
        <5>3. r.to + 1 < op.run.from \/ op.run.to + 1 < r.from
          BY <1>1, <1>3, <2>2, <5>2 DEF AgreesSyncing
        <5> QED
          BY <4>1, <4>2, <4>3, <5>1, <5>3
      <4>5. ~ Pending(s)
        BY <3>6, <4>4 DEF Pending
      <4>6. b \in unsure
        BY <1>1, <1>3, <1>10, <2>1, <2>2, <3>3, <3>4, <4>5 DEF AgreesSyncing
      <4> QED
        BY <1>8, <4>6
    <3> QED
      BY <3>5, <3>6
  <2>3. CASE op.call \in SafeCalls
    <3>1. turn = "sync" /\ Card = integrity /\ integrity.n = working.n
      BY <1>4, <2>3 DEF SafeCalls
    <3>2. PICK s \in 0 .. working.n : b \in BytesOf(s)
      BY <1>4, <1>12, <2>1, <3>1, StructureOf
    <3>3. CASE s = 0
      <4>1. CASE op.call = "WriteSafeStep"
        BY <1>8, <3>2, <3>3, <4>1
      <4>2. CASE op.call = "WriteSafeInfo"
        <5>1. 0 \in op.run.from .. op.run.to
          BY <1>1, <1>3, <4>2 DEF WriteStands, Info
        <5> QED
          BY <1>8, <3>2, <3>3, <5>1 DEF BytesOfRun
      <4> QED
        BY <2>3, <4>1, <4>2 DEF SafeCalls
    <3>4. CASE s # 0
      <4>1. b \in Doubtful
        BY <1>1, <1>4, <1>10, <2>1, <3>1, <3>2, <3>4 DEF AgreesEdited
      <4>2. CASE b \in unsure
        BY <1>8, <4>2
      <4>3. CASE b \notin unsure
        <5>1. op.call = "WriteSafeStep" /\ b \in Marker(op.run.from)
          BY <4>1, <4>3 DEF Doubtful
        <5>2. op.run.from \in Nat /\ op.run.from > 0 /\ op.run.from \in op.run.from .. op.run.to
          BY <1>1, <1>3, <1>4, <5>1 DEF WriteStands, Ranges
        <5>3. b \in BytesOf(op.run.from)
          BY <5>1, <5>2, FieldBytes
        <5> QED
          BY <1>8, <5>2, <5>3 DEF BytesOfRun
      <4> QED
        BY <4>2, <4>3
    <3> QED
      BY <3>3, <3>4
  <2> QED
    BY <1>4, <2>2, <2>3
<1>13. b \in Nat /\ Size(Card.n) \in Nat
  BY <1>4, <1>8, BytewiseNat, SizesGrow
<1> QED
  BY <1>11, <1>12, <1>13

\* A write changes bytes of its structures and zeros behind the recipe, no byte of a
\* neighbour it shares a block with but a marker that was given up, and no block that
\* is not for data.
THEOREM BlocksKeepToTheRange == Spec => OnlyTheRange
<1>1. ASSUME BlocksInv, [Next]_vars
      PROVE  [\A a \in Addresses : tag'[a] # tag[a] =>
                \/ \E b \in BytesOfRun(op.run) : WrittenTo[medium][b] = a
                \/ op.call = "WriteSafeStep" /\ \E b \in BytesOf(0) : WrittenTo[medium][b] = a
                \/ \E b \in unsure : WrittenTo[medium][b] = a
                \/ ForData(a) /\ tag'[a] = 0]_vars
  <2>1. CASE WriteBlock
    BY <1>1, <2>1, WriteChanges
  <2>2. ASSUME ~ WriteBlock PROVE tag' = tag
    BY <1>1, <2>2 DEF Next, vars, Lifted, Verified, Sync, Load, StepDone, StepMarked, NewRecipe
  <2> QED
    BY <2>1, <2>2
<1> QED
  BY <1>1, BlocksAgree, PTL DEF Spec, OnlyTheRange
=============================================================================
