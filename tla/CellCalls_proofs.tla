-------------------------- MODULE CellCalls_proofs --------------------------
(***************************************************************************)
(* Proofs about the service and the readers around it, for every number of *)
(* products, priorities and lost answers and every length of the PLC's     *)
(* lists.                                                                  *)
(*                                                                         *)
(* The service.  Its lists are looked at through their places: a           *)
(* reservation adds one place, the end of a handshake takes one out and    *)
(* moves those behind it up, and nothing else touches them.  That the      *)
(* service lists a product once follows from these three facts.            *)
(*                                                                         *)
(* The readers.  StartedOnce is not inductive: what makes it true is that  *)
(* a product nothing happened to is reserved only where its reader knows   *)
(* of it (Known), and that after its start its reader has no way back to a *)
(* reservation (Spent).  Both rest on where the marker is set and cleared  *)
(* (Shaped) and on the handshake being for a product that stays on both    *)
(* lists until it ends (HandshakeHolds).  That the re-scan guard never cuts *)
(* a visit short that matters is an invariant beside it (GuardSpent).      *)
(***************************************************************************)
EXTENDS CellCalls, ListLemmas, FiniteSetTheorems

\* No product is reported twice, nor reserved twice over all the priorities.
ListedOnce ==
  /\ \A i, j \in DOMAIN reported : reported[i] = reported[j] => i = j
  /\ \A a, b \in Places : Entry(a).id = Entry(b).id => a = b

\* Of any places there is one that goes first: First is well defined.
LEMMA FirstIsLeast ==
  ASSUME NEW places \in SUBSET (Nat \X Nat), places # {}
  PROVE  First(places) \in places /\ \A b \in places : ~Before(b, First(places))
<1>1. PICK p \in {place[1] : place \in places} :
        \A q \in {place[1] : place \in places} : p <= q
  <2>1. {place[1] : place \in places} \in SUBSET Nat
    OBVIOUS
  <2>2. {place[1] : place \in places} # {}
    OBVIOUS
  <2> QED
    BY <2>1, <2>2, LeastNumber
<1> DEFINE row == {place[2] : place \in {place \in places : place[1] = p}}
<1>2. PICK i \in row : \A j \in row : i <= j
  <2>1. row \in SUBSET Nat /\ row # {}
    OBVIOUS
  <2> QED
    BY <2>1, LeastNumber
<1>3. PICK a \in places : a[1] = p /\ a[2] = i
  OBVIOUS
<1>4. \A b \in places : ~Before(b, a)
  <2> SUFFICES ASSUME NEW b \in places, Before(b, a) PROVE FALSE
    OBVIOUS
  <2>1. b[1] \in Nat /\ b[2] \in Nat /\ p \in Nat /\ i \in Nat
    BY <1>3
  <2>2. p <= b[1] /\ (b[1] = p => i <= b[2])
    BY <1>1, <1>2
  <2> QED
    BY <1>3, <2>1, <2>2 DEF Before
<1> QED
  BY <1>4 DEF First

-----------------------------------------------------------------------------
\* A place is a priority and an index of its list.
LEMMA PlaceMember ==
  ASSUME NEW place
  PROVE  /\ place \in Places <=>
              \E p \in Priorities : \E i \in DOMAIN reserved[p] : place = <<p, i>>
         /\ place \in Places' <=>
              \E p \in Priorities : \E i \in DOMAIN reserved'[p] : place = <<p, i>>
  BY DEF Places

\* The places are pairs of numbers, and not more than the lists can hold.
LEMMA PlacesBounded ==
  ASSUME ServiceTypeOK
  PROVE  /\ Places \in SUBSET (Nat \X Nat)
         /\ Places \subseteq Priorities \X (1 .. Capacity)
         /\ \A place \in Places :
              /\ place[1] \in Priorities
              /\ place[2] \in 1 .. Len(reserved[place[1]])
              /\ Entry(place) \in Actions
<1>1. \A p \in Priorities : /\ reserved[p] \in Seq(Actions)
                            /\ Len(reserved[p]) \in Nat
                            /\ DOMAIN reserved[p] = 1 .. Len(reserved[p])
                            /\ Len(reserved[p]) <= Capacity
  BY LenProperties DEF ServiceTypeOK
<1>2. Priorities \subseteq Nat /\ Capacity \in Nat
  BY ServiceAssumption DEF Priorities
<1>3. ASSUME NEW place \in Places
      PROVE  /\ place \in Nat \X Nat /\ place \in Priorities \X (1 .. Capacity)
             /\ place[1] \in Priorities
             /\ place[2] \in 1 .. Len(reserved[place[1]])
             /\ Entry(place) \in Actions
  <2>1. PICK p \in Priorities : \E i \in DOMAIN reserved[p] : place = <<p, i>>
    BY PlaceMember
  <2>2. PICK i \in DOMAIN reserved[p] : place = <<p, i>>
    BY <2>1
  <2>3. i \in 1 .. Len(reserved[p]) /\ i \in Nat /\ i \in 1 .. Capacity
    BY <1>1, <1>2, <2>2
  <2>4. reserved[p][i] \in Actions
    BY <1>1, <2>3, ElementOfSeq
  <2> QED
    BY <1>2, <2>2, <2>3, <2>4 DEF Entry
<1> QED
  BY <1>3

\* A position counts the places before it, so it stays below what fits.
LEMMA PositionBound ==
  ASSUME ServiceTypeOK, NEW place
  PROVE  Position(place) \in 0 .. PriorityCount * Capacity
<1> DEFINE room == Priorities \X (1 .. Capacity)
           behind == {other \in Places : Before(other, place)}
<1>1. PriorityCount \in Nat /\ Capacity \in Nat
  BY ServiceAssumption
<1>2. /\ IsFiniteSet(Priorities) /\ Cardinality(Priorities) = PriorityCount
      /\ IsFiniteSet(1 .. Capacity) /\ Cardinality(1 .. Capacity) = Capacity
  <2>1. 0 \in Int /\ 1 \in Int /\ PriorityCount - 1 \in Int /\ Capacity \in Int
    BY <1>1
  <2>2. /\ IsFiniteSet(0 .. PriorityCount - 1)
        /\ Cardinality(0 .. PriorityCount - 1) =
             IF 0 > PriorityCount - 1 THEN 0 ELSE (PriorityCount - 1) - 0 + 1
    BY ONLY <2>1, FS_Interval
  <2>3. /\ IsFiniteSet(1 .. Capacity)
        /\ Cardinality(1 .. Capacity) = IF 1 > Capacity THEN 0 ELSE Capacity - 1 + 1
    BY ONLY <2>1, FS_Interval
  <2> QED
    BY <2>2, <2>3, ServiceAssumption DEF Priorities
<1>3. IsFiniteSet(room) /\ Cardinality(room) = PriorityCount * Capacity
  BY <1>2, FS_Product
<1>4. behind \in SUBSET room
  BY PlacesBounded
<1>5. IsFiniteSet(behind) /\ Cardinality(behind) <= PriorityCount * Capacity
  BY <1>3, <1>4, FS_Subset
<1>6. Cardinality(behind) \in Nat
  BY <1>5, FS_CardinalityType
<1>7. PriorityCount * Capacity \in Nat
  BY <1>3, FS_CardinalityType
<1> QED
  BY <1>5, <1>6, <1>7 DEF Position

\* When some reserved product is reported, Pick is such a place.
LEMMA PickIsReady ==
  ASSUME ServiceTypeOK, Ready # {}
  PROVE  Pick \in Ready /\ Pick \in Places
<1>1. Ready \in SUBSET (Nat \X Nat) /\ Ready \subseteq Places
  BY PlacesBounded DEF Ready
<1> QED
  BY <1>1, FirstIsLeast DEF Pick

-----------------------------------------------------------------------------
\* A granted reservation adds one place, with the new action in it.
LEMMA ReserveGranted ==
  ASSUME ServiceTypeOK, NEW id \in Id, NEW priority \in Priorities,
         NEW params \in Params, Reserve(id, priority, params),
         ReserveAnswer(id, priority, params) = "Success"
  PROVE  /\ \E new : /\ Places' = Places \cup {new} /\ new \notin Places
                     /\ Entry(new)' = [id |-> id, params |-> params]
         /\ \A place \in Places : Entry(place)' = Entry(place)
         /\ reserved' \in [Priorities -> Seq(Actions)]
         /\ \A p \in Priorities : Len(reserved'[p]) <= Capacity
<1>0. PICK list, action, new : /\ list = reserved[priority]
                               /\ action = [id |-> id, params |-> params]
                               /\ new = <<priority, Len(list) + 1>>
  OBVIOUS
<1>1. /\ reserved \in [Priorities -> Seq(Actions)] /\ action \in Actions
      /\ list \in Seq(Actions) /\ Len(list) \in Nat /\ Len(list) <= Capacity
      /\ Capacity \in Nat
  BY <1>0, LenProperties, ServiceAssumption DEF ServiceTypeOK, Actions
<1>2. reserved' = [reserved EXCEPT ![priority] = Append(list, action)]
  BY <1>0 DEF Reserve
<1>3. /\ Append(list, action) \in Seq(Actions)
      /\ Len(Append(list, action)) = Len(list) + 1
      /\ DOMAIN Append(list, action) = 1 .. Len(list) + 1
      /\ \A i \in 1 .. Len(list) : Append(list, action)[i] = list[i]
      /\ Append(list, action)[Len(list) + 1] = action
      /\ DOMAIN list = 1 .. Len(list)
  BY <1>1, AppendProperties, LenProperties
<1>4. Len(list) # Capacity
  BY <1>0 DEF ReserveAnswer
<1>5. /\ reserved'[priority] = Append(list, action)
      /\ \A p \in Priorities : p # priority => reserved'[p] = reserved[p]
      /\ reserved' \in [Priorities -> Seq(Actions)]
  BY <1>1, <1>2, <1>3
<1>6. ASSUME NEW p \in Priorities PROVE Len(reserved'[p]) <= Capacity
  <2>1. Len(list) + 1 <= Capacity
    BY <1>1, <1>4
  <2> QED
    BY <1>3, <1>5, <2>1 DEF ServiceTypeOK
<1>7. ASSUME NEW place
      PROVE  place \in Places' <=> place \in Places \/ place = new
  <2>1. DOMAIN reserved'[priority] = DOMAIN list \cup {Len(list) + 1}
    BY <1>1, <1>3, <1>5
  <2> QED
    BY <1>0, <1>5, <2>1, PlaceMember
<1>8. new \notin Places
  <2>1. Len(list) + 1 \notin DOMAIN list
    BY <1>1, <1>3
  <2> QED
    BY <1>0, <2>1, PlaceMember
<1>9. ASSUME NEW place \in Places PROVE Entry(place)' = Entry(place)
  <2>1. PICK p \in Priorities : \E i \in DOMAIN reserved[p] : place = <<p, i>>
    BY PlaceMember
  <2>2. PICK i \in DOMAIN reserved[p] : place = <<p, i>>
    BY <2>1
  <2>3. reserved'[p][i] = reserved[p][i]
    BY <1>0, <1>3, <1>5, <2>2
  <2> QED
    BY <2>2, <2>3 DEF Entry
<1>10. Entry(new)' = action
  BY <1>0, <1>3, <1>5 DEF Entry
<1> QED
  BY <1>0, <1>5, <1>6, <1>7, <1>8, <1>9, <1>10

\* A refused one changes nothing.
LEMMA ReserveRefused ==
  ASSUME NEW id, NEW priority, NEW params, Reserve(id, priority, params),
         ReserveAnswer(id, priority, params) # "Success"
  PROVE  UNCHANGED serviceVars
  BY DEF Reserve, serviceVars

\* What a call of ReserveAction does to who is reserved.
LEMMA ReserveStep ==
  ASSUME ServiceTypeOK, ListedOnce, NEW id \in Id, NEW priority \in Priorities,
         NEW params \in Params, Reserve(id, priority, params)
  PROVE  /\ ServiceTypeOK' /\ ListedOnce'
         /\ UNCHANGED <<reported, device, told>>
         /\ \A other : IsReported(other)' <=> IsReported(other)
         /\ \A other : IsReserved(other)' <=>
              \/ IsReserved(other)
              \/ other = id /\ ReserveAnswer(id, priority, params) = "Success"
<1>1. UNCHANGED <<reported, device, told, active>>
  BY DEF Reserve
<1>2. \A other : IsReported(other)' <=> IsReported(other)
  BY <1>1 DEF IsReported
<1>3. CASE ReserveAnswer(id, priority, params) = "Success"
  <2>0. PICK new : /\ Places' = Places \cup {new} /\ new \notin Places
                   /\ Entry(new)' = [id |-> id, params |-> params]
    BY <1>3, ReserveGranted
  <2>1. /\ \A place \in Places : Entry(place)' = Entry(place)
        /\ reserved' \in [Priorities -> Seq(Actions)]
        /\ \A p \in Priorities : Len(reserved'[p]) <= Capacity
    BY <1>3, ReserveGranted
  <2>2. \A other : IsReserved(other)' <=> IsReserved(other) \/ other = id
    BY <2>0, <2>1 DEF IsReserved
  <2>3. ~IsReserved(id)
    BY <1>3 DEF ReserveAnswer
  <2>4. \A a, b \in Places' : Entry(a)'.id = Entry(b)'.id => a = b
    BY <2>0, <2>1, <2>3 DEF IsReserved, ListedOnce
  <2>5. ServiceTypeOK'
    BY <1>1, <2>1 DEF ServiceTypeOK
  <2>6. ListedOnce'
    BY <1>1, <2>4 DEF ListedOnce
  <2> QED
    BY <1>1, <1>2, <1>3, <2>2, <2>5, <2>6
<1>4. CASE ReserveAnswer(id, priority, params) # "Success"
  <2>1. UNCHANGED serviceVars
    BY <1>4, ReserveRefused
  <2> QED
    BY <1>1, <1>2, <1>4, <2>1
       DEF serviceVars, ServiceTypeOK, ListedOnce, Places, Entry, IsReserved
<1> QED
  BY <1>3, <1>4

\* What a call of ReportProduct does to who is reported.
LEMMA ReportStep ==
  ASSUME ServiceTypeOK, ListedOnce, NEW id \in Id, Report(id)
  PROVE  /\ ServiceTypeOK' /\ ListedOnce'
         /\ UNCHANGED <<reserved, device, told>>
         /\ \A other : IsReserved(other)' <=> IsReserved(other)
         /\ \A other : IsReported(other) => IsReported(other)'
<1>1. UNCHANGED <<reserved, device, told, active>>
  BY DEF Report
<1>2. \A other : IsReserved(other)' <=> IsReserved(other)
  BY <1>1 DEF IsReserved, Places, Entry
<1>3. CASE ReportAnswer(id) = "Success"
  <2>1. reported' = Append(reported, id) /\ Len(reported) # Capacity /\ ~IsReported(id)
    BY <1>3 DEF Report, ReportAnswer
  <2>2. PICK n \in Nat : n = Len(reported)
    BY LenProperties DEF ServiceTypeOK
  <2>3. /\ reported \in Seq(Id) /\ n < Capacity /\ DOMAIN reported = 1 .. n
        /\ reported' \in Seq(Id) /\ Len(reported') = n + 1
        /\ DOMAIN reported' = 1 .. n + 1
        /\ \A i \in 1 .. n : reported'[i] = reported[i]
        /\ reported'[n + 1] = id
    <3>1. reported \in Seq(Id) /\ DOMAIN reported = 1 .. n /\ n <= Capacity
      BY <2>2, LenProperties DEF ServiceTypeOK
    <3>2. /\ Append(reported, id) \in Seq(Id)
          /\ Len(Append(reported, id)) = n + 1
          /\ \A i \in 1 .. n : Append(reported, id)[i] = reported[i]
          /\ Append(reported, id)[n + 1] = id
      BY <2>2, <3>1, AppendProperties
    <3>3. DOMAIN Append(reported, id) = 1 .. n + 1
      BY <3>2, LenProperties
    <3> QED
      BY <2>1, <2>2, <3>1, <3>2, <3>3, ServiceAssumption
  <2>4. ServiceTypeOK'
    BY <1>1, <2>3, ServiceAssumption DEF ServiceTypeOK
  <2>5. \A i, j \in DOMAIN reported' : reported'[i] = reported'[j] => i = j
    <3>1. \A i \in 1 .. n : reported[i] # id
      BY <2>1, <2>3 DEF IsReported
    <3>2. \A i, j \in 1 .. n : reported[i] = reported[j] => i = j
      BY <2>3 DEF ListedOnce
    <3>3. \A i \in 1 .. n + 1 : i \in 1 .. n \/ i = n + 1
      OBVIOUS
    <3> QED
      BY <2>3, <3>1, <3>2, <3>3
  <2>6. ListedOnce'
    BY <1>1, <2>5 DEF ListedOnce, Places, Entry
  <2>7. \A other : IsReported(other) => IsReported(other)'
    BY <2>3 DEF IsReported
  <2> QED
    BY <1>1, <1>2, <2>4, <2>6, <2>7
<1>4. CASE ReportAnswer(id) # "Success"
  <2>1. reported' = reported
    BY <1>4 DEF Report
  <2> QED
    BY <1>1, <1>2, <2>1 DEF ServiceTypeOK, ListedOnce, Places, Entry, IsReported
<1> QED
  BY <1>3, <1>4

-----------------------------------------------------------------------------
\* Taking an action out leaves every other one, in a place that may be one
\* further up in the same list.
LEMMA TakenOut ==
  ASSUME ServiceTypeOK, NEW place \in Places,
         reserved' = [reserved EXCEPT ![place[1]] = RemoveAt(@, place[2])]
  PROVE  /\ reserved' \in [Priorities -> Seq(Actions)]
         /\ \A p \in Priorities : Len(reserved'[p]) <= Capacity
         /\ \E origin :
              /\ \A b \in Places' : /\ origin[b] \in Places \ {place}
                                    /\ Entry(b)' = Entry(origin[b])
              /\ \A a \in Places \ {place} : \E b \in Places' : origin[b] = a
              /\ \A b, c \in Places' : origin[b] = origin[c] => b = c
<1>1. PICK p \in Priorities, k \in Nat : place = <<p, k>> /\ k \in DOMAIN reserved[p]
  BY PlacesBounded, PlaceMember
<1>2. PICK n \in Nat : n = Len(reserved[p])
  BY LenProperties DEF ServiceTypeOK
<1>3. /\ reserved[p] \in Seq(Actions) /\ DOMAIN reserved[p] = 1 .. n /\ k \in 1 .. n
      /\ n <= Capacity
  BY <1>1, <1>2, LenProperties DEF ServiceTypeOK
<1>4. /\ reserved'[p] \in Seq(Actions) /\ Len(reserved'[p]) = n - 1
      /\ DOMAIN reserved'[p] = 1 .. n - 1
      /\ \A i \in 1 .. n - 1 :
           reserved'[p][i] = IF i < k THEN reserved[p][i] ELSE reserved[p][i + 1]
      /\ \A q \in Priorities : q # p => reserved'[q] = reserved[q]
      /\ reserved' \in [Priorities -> Seq(Actions)]
  <2>1. /\ RemoveAt(reserved[p], k) \in Seq(Actions)
        /\ Len(RemoveAt(reserved[p], k)) = n - 1
        /\ \A i \in 1 .. n - 1 : RemoveAt(reserved[p], k)[i] =
             IF i < k THEN reserved[p][i] ELSE reserved[p][i + 1]
    BY <1>2, <1>3, RemoveAtProperties
  <2>2. DOMAIN RemoveAt(reserved[p], k) = 1 .. n - 1
    BY <2>1, LenProperties
  <2>3. /\ reserved'[p] = RemoveAt(reserved[p], k)
        /\ \A q \in Priorities : q # p => reserved'[q] = reserved[q]
        /\ reserved' \in [Priorities -> Seq(Actions)]
    BY <1>1, <2>1 DEF ServiceTypeOK
  <2> QED
    BY <2>1, <2>2, <2>3
<1>5. ASSUME NEW q \in Priorities PROVE Len(reserved'[q]) <= Capacity
  <2>1. CASE q = p
    BY <1>3, <1>4, <2>1, ServiceAssumption
  <2>2. CASE q # p
    BY <1>4, <2>2 DEF ServiceTypeOK
  <2> QED
    BY <2>1, <2>2
<1>6. PICK origin : origin = [b \in Places' |->
        IF b[1] = p /\ b[2] >= k THEN <<p, b[2] + 1>> ELSE b]
  OBVIOUS
<1>7. \A b \in Places' : \E q \in Priorities : \E i \in Nat :
        /\ b = <<q, i>> /\ i \in DOMAIN reserved'[q]
        /\ origin[b] = IF q = p /\ i >= k THEN <<p, i + 1>> ELSE <<q, i>>
  <2> SUFFICES ASSUME NEW b \in Places'
               PROVE  \E q \in Priorities : \E i \in Nat :
                        /\ b = <<q, i>> /\ i \in DOMAIN reserved'[q]
                        /\ origin[b] = IF q = p /\ i >= k THEN <<p, i + 1>> ELSE <<q, i>>
    OBVIOUS
  <2>1. PICK q \in Priorities : \E i \in DOMAIN reserved'[q] : b = <<q, i>>
    BY PlaceMember
  <2>2. PICK i \in DOMAIN reserved'[q] : b = <<q, i>>
    BY <2>1
  <2>3. DOMAIN reserved'[q] = 1 .. Len(reserved'[q]) /\ Len(reserved'[q]) \in Nat
    BY <1>4, LenProperties
  <2>4. i \in Nat /\ b[1] = q /\ b[2] = i
    BY <2>2, <2>3
  <2>5. origin[b] = IF q = p /\ i >= k THEN <<p, i + 1>> ELSE <<q, i>>
    BY <1>6, <2>2, <2>4
  <2> QED
    BY <2>2, <2>4, <2>5
<1>8. ASSUME NEW b \in Places'
      PROVE  origin[b] \in Places \ {place} /\ Entry(b)' = Entry(origin[b])
  <2>1. PICK q \in Priorities, i \in Nat :
          /\ b = <<q, i>> /\ i \in DOMAIN reserved'[q]
          /\ origin[b] = IF q = p /\ i >= k THEN <<p, i + 1>> ELSE <<q, i>>
    BY <1>7
  <2>2. CASE q = p
    BY <1>1, <1>3, <1>4, <2>1, <2>2, PlaceMember DEF Entry
  <2>3. CASE q # p
    BY <1>1, <1>4, <2>1, <2>3, PlaceMember DEF Entry
  <2> QED
    BY <2>2, <2>3
<1>9. ASSUME NEW a \in Places \ {place} PROVE \E b \in Places' : origin[b] = a
  <2>1. PICK q \in Priorities, i \in Nat : a = <<q, i>> /\ i \in DOMAIN reserved[q]
    BY PlacesBounded, PlaceMember
  <2>2. CASE q = p /\ i > k
    <3>1. <<p, i - 1>> \in Places'
      BY <1>3, <1>4, <2>1, <2>2, PlaceMember
    <3>2. origin[<<p, i - 1>>] = a
      BY <1>3, <1>6, <2>1, <2>2, <3>1
    <3> QED
      BY <3>1, <3>2
  <2>3. CASE q = p /\ i < k
    <3>1. a \in Places'
      BY <1>3, <1>4, <2>1, <2>3, PlaceMember
    <3>2. origin[a] = a
      BY <1>3, <1>6, <2>1, <2>3, <3>1
    <3> QED
      BY <3>1, <3>2
  <2>4. CASE q # p
    <3>1. a \in Places'
      BY <1>4, <2>1, <2>4, PlaceMember
    <3>2. origin[a] = a
      BY <1>6, <2>1, <2>4, <3>1
    <3> QED
      BY <3>1, <3>2
  <2>5. ~(q = p /\ i = k)
    BY <1>1, <2>1
  <2> QED
    BY <1>3, <2>2, <2>3, <2>4, <2>5
<1>10. ASSUME NEW b \in Places', NEW c \in Places', origin[b] = origin[c]
       PROVE  b = c
  <2>1. PICK q \in Priorities, i \in Nat :
          /\ b = <<q, i>>
          /\ origin[b] = IF q = p /\ i >= k THEN <<p, i + 1>> ELSE <<q, i>>
    BY <1>7
  <2>2. PICK r \in Priorities, j \in Nat :
          /\ c = <<r, j>>
          /\ origin[c] = IF r = p /\ j >= k THEN <<p, j + 1>> ELSE <<r, j>>
    BY <1>7
  <2> QED
    BY <1>10, <2>1, <2>2
<1> QED
  BY <1>4, <1>5, <1>8, <1>9, <1>10

\* The end of a handshake takes the picked action and its product off the
\* lists, and nothing else.
LEMMA EndStep ==
  ASSUME ServiceTypeOK, ListedOnce, Ready # {}, End
  PROVE  /\ ServiceTypeOK' /\ ListedOnce'
         /\ device' = "idle" /\ told' = told
         /\ Entry(Pick).id \in Id
         /\ \A other : IsReserved(other)' <=> IsReserved(other) /\ other # Entry(Pick).id
         /\ \A other : IsReported(other)' <=> IsReported(other) /\ other # Entry(Pick).id
<1>1. PICK place, id : place = Pick /\ id = Entry(Pick).id
  OBVIOUS
<1>2. /\ place \in Places /\ id = Entry(place).id /\ id \in Id
      /\ IsReported(id)
  BY <1>1, PickIsReady, PlacesBounded DEF Ready, Actions
<1>3. /\ device' = "idle" /\ active' = -1 /\ told' = told
      /\ reserved' = [reserved EXCEPT ![place[1]] = RemoveAt(@, place[2])]
      /\ reported' = RemoveAt(reported, CHOOSE i \in DOMAIN reported : reported[i] = id)
  BY <1>1 DEF End, Withdraw
<1>4. PICK origin : /\ \A b \in Places' : /\ origin[b] \in Places \ {place}
                                          /\ Entry(b)' = Entry(origin[b])
                    /\ \A a \in Places \ {place} : \E b \in Places' : origin[b] = a
                    /\ \A b, c \in Places' : origin[b] = origin[c] => b = c
  BY <1>2, <1>3, TakenOut
<1>5. /\ reserved' \in [Priorities -> Seq(Actions)]
      /\ \A p \in Priorities : Len(reserved'[p]) <= Capacity
  BY <1>2, <1>3, TakenOut
<1>6. \A a \in Places : Entry(a).id = id <=> a = place
  BY <1>2 DEF ListedOnce
<1>7. \A other : IsReserved(other)' <=> IsReserved(other) /\ other # id
  BY <1>4, <1>6 DEF IsReserved
<1>8. \A a, b \in Places' : Entry(a)'.id = Entry(b)'.id => a = b
  BY <1>4 DEF ListedOnce
<1>9. /\ reported' \in Seq(Id) /\ Len(reported') <= Capacity
      /\ \A i, j \in DOMAIN reported' : reported'[i] = reported'[j] => i = j
      /\ \A other : IsReported(other)' <=> IsReported(other) /\ other # id
  <2>1. PICK n \in Nat : n = Len(reported)
    BY LenProperties DEF ServiceTypeOK
  <2>2. reported \in Seq(Id) /\ DOMAIN reported = 1 .. n /\ n <= Capacity
    BY <2>1, LenProperties DEF ServiceTypeOK
  <2>3. PICK k \in 1 .. n : reported[k] = id /\ reported' = RemoveAt(reported, k)
    BY <1>2, <1>3, <2>2 DEF IsReported
  <2>4. /\ reported' \in Seq(Id) /\ Len(reported') = n - 1
        /\ \A i \in 1 .. n - 1 :
             reported'[i] = IF i < k THEN reported[i] ELSE reported[i + 1]
    BY <2>1, <2>2, <2>3, RemoveAtProperties
  <2>5. DOMAIN reported' = 1 .. n - 1
    BY <2>4, LenProperties
  <2>6. \A i, j \in 1 .. n : reported[i] = reported[j] => i = j
    BY <2>2 DEF ListedOnce
  <2>7. \A i, j \in 1 .. n - 1 : reported'[i] = reported'[j] => i = j
    BY <2>4, <2>6
  <2>8. ASSUME NEW other
        PROVE  IsReported(other)' <=> IsReported(other) /\ other # id
    <3>1. ASSUME NEW i \in 1 .. n - 1, reported'[i] = other
          PROVE  IsReported(other) /\ other # id
      <4>1. PICK j \in 1 .. n : j # k /\ reported[j] = other
        BY <2>4, <3>1
      <4> QED
        BY <2>2, <2>3, <2>6, <4>1 DEF IsReported
    <3>2. ASSUME NEW i \in 1 .. n, reported[i] = other, other # id
          PROVE  \E j \in 1 .. n - 1 : reported'[j] = other
      <4>1. i # k
        BY <2>3, <3>2
      <4>2. CASE i < k
        BY <2>4, <3>2, <4>2
      <4>3. CASE i > k
        <5>1. i - 1 \in 1 .. n - 1 /\ ~(i - 1 < k) /\ (i - 1) + 1 = i
          BY <4>3
        <5> QED
          BY <2>4, <3>2, <5>1
      <4> QED
        BY <4>1, <4>2, <4>3
    <3> QED
      BY <2>2, <2>5, <3>1, <3>2 DEF IsReported
  <2>9. n - 1 <= Capacity
    BY <2>2, ServiceAssumption
  <2> QED
    BY <2>4, <2>5, <2>7, <2>8, <2>9
<1>10. ServiceTypeOK'
  <2>1. -1 \in -1 .. PriorityCount * Capacity
    <3>1. Position(Pick) \in 0 .. PriorityCount * Capacity
      BY PositionBound
    <3>2. PriorityCount * Capacity \in Int
      BY ServiceAssumption
    <3> QED
      BY <3>1, <3>2
  <2> QED
    BY <1>3, <1>5, <1>9, <2>1 DEF ServiceTypeOK, DeviceStates
<1>11. ListedOnce'
  BY <1>8, <1>9 DEF ListedOnce
<1> QED
  BY <1>1, <1>2, <1>3, <1>7, <1>9, <1>10, <1>11

\* A cycle either ends a handshake or leaves both lists alone; one that begins
\* a handshake begins it for a reserved and reported product.
LEMMA CycleStep ==
  ASSUME ServiceTypeOK, ListedOnce, Cycle
  PROVE  /\ ServiceTypeOK' /\ ListedOnce'
         /\ \/ /\ device # "idle" /\ Ready # {} /\ End
            \/ /\ UNCHANGED <<reserved, reported>>
               /\ \/ device' = device /\ told' = told
                  \/ /\ device = "idle" /\ device' = "told" /\ told' \in Id
                     /\ IsReserved(told') /\ IsReported(told')
                  \/ device = "told" /\ device' = "started" /\ told' = told /\ Start
                  \/ device \in {"told", "started"} /\ device' = "failing" /\ told' = told
<1> DEFINE range == -1 .. PriorityCount * Capacity
<1>1. PriorityCount * Capacity \in Int
  BY ServiceAssumption
<1>2. -1 \in range /\ Position(Pick) \in range
  BY <1>1, PositionBound
<1>3. ASSUME UNCHANGED <<reserved, reported>>, active' \in range,
             device' \in DeviceStates, told' \in Id \cup {noId}
      PROVE  ServiceTypeOK' /\ ListedOnce'
  BY <1>3 DEF ServiceTypeOK, ListedOnce, Places, Entry
<1> HIDE DEF range
<1>4. CASE Rest
  BY <1>2, <1>3, <1>4 DEF Rest, ServiceTypeOK
<1>5. CASE Begin
  <2>1. /\ device = "idle" /\ device' = "told" /\ told' = Entry(Pick).id
        /\ active' = Position(Pick) /\ UNCHANGED <<reserved, reported>>
    BY <1>5 DEF Begin
  <2>2. Pick \in Ready /\ Pick \in Places
    BY <1>5, PickIsReady DEF Begin, Runs
  <2>3. Entry(Pick).id \in Id /\ IsReserved(Entry(Pick).id) /\ IsReported(Entry(Pick).id)
    BY <2>2, PlacesBounded DEF Ready, Actions, IsReserved
  <2>4. device' \in DeviceStates
    BY <2>1 DEF DeviceStates
  <2> QED
    BY <1>2, <1>3, <2>1, <2>3, <2>4
<1>6. CASE Hold
  <2>1. device' = device /\ told' = told /\ active' = Position(Pick)
        /\ UNCHANGED <<reserved, reported>>
    BY <1>6 DEF Hold, Proceed
  <2> QED
    BY <1>2, <1>3, <2>1 DEF ServiceTypeOK
<1>7. CASE Start
  <2>1. device = "told" /\ device' = "started" /\ told' = told
        /\ active' = Position(Pick) /\ UNCHANGED <<reserved, reported>>
    BY <1>7 DEF Start, Proceed
  <2> QED
    BY <1>2, <1>3, <1>7, <2>1 DEF ServiceTypeOK, DeviceStates
<1>8. CASE Break
  <2>1. device \in {"told", "started"} /\ device' = "failing" /\ told' = told
        /\ active' = Position(Pick) /\ UNCHANGED <<reserved, reported>>
    BY <1>8 DEF Break, Proceed
  <2> QED
    BY <1>2, <1>3, <2>1 DEF ServiceTypeOK, DeviceStates
<1>9. CASE Complete \/ Fail \/ Reject
  <2>1. device # "idle" /\ Ready # {} /\ End
    BY <1>9 DEF Complete, Fail, Reject, Runs
  <2> QED
    BY <2>1, EndStep
<1> QED
  BY <1>4, <1>5, <1>6, <1>7, <1>8, <1>9 DEF Cycle, Advance

-----------------------------------------------------------------------------
\* The empty lists are well formed.
LEMMA ServiceInitOK == ServiceInit => ServiceTypeOK /\ ListedOnce
<1> SUFFICES ASSUME ServiceInit PROVE ServiceTypeOK /\ ListedOnce
  OBVIOUS
<1>1. /\ reserved = [p \in Priorities |-> <<>>] /\ reported = <<>>
      /\ device = "idle" /\ told = noId /\ active = 0
  BY DEF ServiceInit
<1>2. <<>> \in Seq(Actions) /\ <<>> \in Seq(Id) /\ Len(<<>>) = 0
  BY EmptySeq
<1>3. 0 \in -1 .. PriorityCount * Capacity /\ 0 <= Capacity
  <2>1. PriorityCount * Capacity \in Nat
    BY ServiceAssumption
  <2> QED
    BY <2>1, ServiceAssumption
<1>4. ServiceTypeOK
  BY <1>1, <1>2, <1>3 DEF ServiceTypeOK, DeviceStates
<1>5. \A place : place \notin Places
  BY <1>1, PlaceMember
<1>6. ListedOnce
  BY <1>1, <1>5 DEF ListedOnce
<1> QED
  BY <1>4, <1>6

-----------------------------------------------------------------------------
\* The product the machine was told stays reserved and reported meanwhile.
HandshakeHolds ==
  device # "idle" => told \in Id /\ IsReserved(told) /\ IsReported(told)

\* Stages of a product reserved in its reader's knowledge, and the marker.
Shaped(id) ==
  /\ Stage(id) \in {"reserve", "poll", "confirm", "marked", "sent"}
       => errand[id].wants = "this"
  /\ Stage(id) \in {"marked", "sent"} => errand[id].marked
  /\ Stage(id) = "confirm" => errand[id].polls > 0

\* A product on its way here has its reservation and no handshake runs for it.
Kept(id) ==
  Stage(id) \in {"confirm", "marked", "sent"} /\ mishap[id] # "astray"
    => IsReserved(id) /\ (device # "idle" => told # id)

\* A reader that heard of everything and gave up nothing is either at the
\* reservation or holds the marker.
Known(id) ==
  mishap[id] = "none" /\ IsReserved(id)
    => \/ errand[id].wants = "nothing"
       \/ /\ errand[id].wants = "this"
          /\ \/ Stage(id) \in {"confirm", "marked", "sent", "poll"}
             \/ Stage(id) \in {"loop", "report"} /\ errand[id].marked

\* Once the machine was started for a product, the product is on its way out:
\* it is in the running handshake or not reserved, and its reader will not
\* reserve it.
Spent(id) ==
  mishap[id] = "none" /\ starts[id] > 0
    => /\ IsReserved(id) => told = id /\ device \in {"started", "failing"}
       /\ \/ errand[id].wants = "nothing"
          \/ /\ errand[id].wants = "this"
             /\ \/ Stage(id) = "poll"
                \/ Stage(id) = "report" /\ errand[id].marked

Sound(id) == Shaped(id) /\ Kept(id) /\ Known(id) /\ Spent(id)

IInv == /\ TypeOK /\ ListedOnce /\ StartedOnce /\ HandshakeHolds
        /\ \A id \in Id : Sound(id)

\* The re-scan guard cuts no visit short that a step of this cell is left in:
\* the reader polls for the product it guards against, or has given it up.
GuardSpent ==
  \A id \in Id : guarded = id =>
    \/ errand[id].wants = "nothing"
    \/ errand[id].wants = "this" /\ Stage(id) = "poll"

-----------------------------------------------------------------------------
\* A step of one reader leaves the other products as they are: what remains to
\* be shown is that its own product stays sound.
LEMMA OneReader ==
  ASSUME IInv, NEW id \in Id,
         ServiceTypeOK', ListedOnce', UNCHANGED <<device, told, starts>>,
         \A other : IsReported(other) => IsReported(other)',
         \A other : IsReserved(other) => IsReserved(other)',
         \A other : IsReserved(other)' => IsReserved(other) \/ other = id,
         errand' \in [Id -> Errand], guarded' \in Id \cup {noId}, lost' \in 0 .. MaxLost,
         mishap' \in [Id -> {"none", "unaware", "astray"}],
         \A other \in Id \ {id} :
           errand'[other] = errand[other] /\ mishap'[other] = mishap[other],
         Sound(id)'
  PROVE  IInv'
<1>1. TypeOK'
  BY DEF IInv, TypeOK
<1>2. StartedOnce'
  BY DEF IInv, StartedOnce
<1>3. HandshakeHolds'
  BY DEF IInv, HandshakeHolds
<1>4. ASSUME NEW other \in Id \ {id} PROVE Sound(other)'
  <2>1. Sound(other)
    BY DEF IInv
  <2>2. /\ Stage(other)' = Stage(other) /\ errand'[other] = errand[other]
        /\ mishap'[other] = mishap[other] /\ starts'[other] = starts[other]
        /\ IsReserved(other)' <=> IsReserved(other)
    BY DEF Stage
  <2>3. Shaped(other)'
    BY <2>1, <2>2 DEF Sound, Shaped
  <2>4. Kept(other)'
    BY <2>1, <2>2 DEF Sound, Kept
  <2>5. Known(other)'
    BY <2>1, <2>2 DEF Sound, Known
  <2>6. Spent(other)'
    BY <2>1, <2>2 DEF Sound, Spent
  <2> QED
    BY <2>3, <2>4, <2>5, <2>6 DEF Sound
<1> QED
  BY <1>1, <1>2, <1>3, <1>4 DEF IInv

\* A call that never arrives, or a step without one, leaves the PLC as it is.
LEMMA ServiceRests ==
  ASSUME ServiceTypeOK, ListedOnce, UNCHANGED serviceVars
  PROVE  /\ ServiceTypeOK' /\ ListedOnce' /\ UNCHANGED <<device, told>>
         /\ \A other : IsReported(other)' <=> IsReported(other)
         /\ \A other : IsReserved(other)' <=> IsReserved(other)
  BY DEF serviceVars, ServiceTypeOK, ListedOnce, IsReported, IsReserved, Places, Entry

\* The errand of one product changes.
LEMMA BecomesStep ==
  ASSUME errand \in [Id -> Errand], NEW id \in Id, NEW new \in Errand, Becomes(id, new)
  PROVE  /\ errand' \in [Id -> Errand] /\ errand'[id] = new
         /\ \A other \in Id \ {id} : errand'[other] = errand[other]
  BY DEF Becomes

\* A mishap is recorded once; nothing takes it back.
LEMMA UnawareStep ==
  ASSUME mishap \in [Id -> {"none", "unaware", "astray"}], NEW id \in Id, Unaware(id)
  PROVE  /\ mishap' \in [Id -> {"none", "unaware", "astray"}]
         /\ mishap'[id] # "none" /\ (mishap'[id] = "astray" <=> mishap[id] = "astray")
         /\ \A other \in Id \ {id} : mishap'[other] = mishap[other]
  BY DEF Unaware

\* An answer that is lost is within the bound of those.
LEMMA LostStep ==
  ASSUME lost \in 0 .. MaxLost, NEW outcome \in Outcomes,
         IF outcome = "answer lost" THEN lost < MaxLost /\ lost' = lost + 1 ELSE UNCHANGED lost
  PROVE  lost' \in 0 .. MaxLost
<1>1. lost \in 0 .. MaxLost /\ MaxLost \in Nat
  BY CellAssumption
<1>2. CASE outcome = "answer lost"
  <2>1. lost < MaxLost /\ lost' = lost + 1
    BY <1>2
  <2> QED
    BY ONLY <1>1, <2>1
<1>3. CASE outcome # "answer lost"
  BY <1>3
<1> QED
  BY <1>2, <1>3

\* No answer of GetItemStatus says that a product is finished.
LEMMA StatusMessages ==
  ASSUME NEW id
  PROVE  StatusAnswer(id).message \in {"PQErrItemNotFound", "inProgress", "position"}
  BY DEF StatusAnswer

-----------------------------------------------------------------------------
\* The first step holds it.
LEMMA InitIInv == Init => IInv
<1> SUFFICES ASSUME Init PROVE IInv
  OBVIOUS
<1>1. ServiceTypeOK /\ ListedOnce
  BY ServiceInitOK DEF Init
<1>2. PICK wants \in [Id -> {"this", "other"}] :
        errand = [id \in Id |-> [stage |-> "loop", wants |-> wants[id], marked |-> FALSE,
                                 polls |-> 0]]
  BY DEF Init
<1>3. guarded = noId /\ lost = 0 /\ device = "idle"
      /\ reserved = [p \in Priorities |-> <<>>]
      /\ starts = [id \in Id |-> 0] /\ mishap = [id \in Id |-> "none"]
  BY DEF Init, ServiceInit
<1>4. 0 \in 0 .. StatusPolls /\ 0 \in 0 .. MaxLost
  BY CellAssumption
<1>5. TypeOK
  BY <1>1, <1>2, <1>3, <1>4 DEF TypeOK, Errand, Away
<1>6. \A id : ~IsReserved(id)
  BY <1>3, PlaceMember DEF IsReserved
<1>7. ASSUME NEW id \in Id PROVE Sound(id)
  BY <1>2, <1>3, <1>6, <1>7 DEF Sound, Shaped, Kept, Known, Spent, Stage
<1>8. StartedOnce /\ HandshakeHolds
  BY <1>3 DEF StartedOnce, HandshakeHolds
<1> QED
  BY <1>1, <1>5, <1>7, <1>8 DEF IInv

\* What AfterReport makes of an errand.
LEMMA AfterReportStep ==
  ASSUME NEW id \in Id, errand[id] \in Errand
  PROVE  /\ AfterReport(id) \in Errand
         /\ AfterReport(id).wants = errand[id].wants
         /\ AfterReport(id).marked = errand[id].marked
         /\ \/ AfterReport(id).stage = "wait" /\ (guarded = id \/ errand[id].wants # "this")
            \/ /\ guarded # id /\ errand[id].wants = "this"
               /\ AfterReport(id).stage = IF errand[id].marked THEN "poll" ELSE "reserve"
<1>1. PICK e : e = errand[id]
  OBVIOUS
<1>2. /\ e \in Errand /\ e.wants = errand[id].wants /\ e.marked = errand[id].marked
      /\ \A stage \in {"wait", "poll", "reserve"} :
           /\ [e EXCEPT !.stage = stage] \in Errand
           /\ [e EXCEPT !.stage = stage].stage = stage
           /\ [e EXCEPT !.stage = stage].wants = e.wants
           /\ [e EXCEPT !.stage = stage].marked = e.marked
  BY <1>1 DEF Errand, Here
<1>3. AfterReport(id) = [e EXCEPT !.stage = IF guarded = id \/ e.wants # "this" THEN "wait"
                                            ELSE IF e.marked THEN "poll" ELSE "reserve"]
  BY <1>1 DEF AfterReport
<1>4. CASE guarded = id \/ e.wants # "this"
  BY <1>2, <1>3, <1>4
<1>5. CASE guarded # id /\ e.wants = "this" /\ e.marked
  BY <1>2, <1>3, <1>5
<1>6. CASE guarded # id /\ e.wants = "this" /\ ~e.marked
  BY <1>2, <1>3, <1>6
<1> QED
  BY <1>1, <1>4, <1>5, <1>6

\* State_Mimo_Polozena's report: only an answered one moves the errand on.
LEMMA LocalReportKeeps ==
  ASSUME IInv, GuardSpent, NEW id \in Id, NEW outcome \in Outcomes, LocalReport(id, outcome)
  PROVE  IInv'
<1>1. /\ TypeOK /\ ServiceTypeOK /\ ListedOnce /\ Sound(id) /\ errand[id] \in Errand
      /\ errand \in [Id -> Errand] /\ mishap \in [Id -> {"none", "unaware", "astray"}]
  BY DEF IInv, TypeOK
<1>2. Stage(id) = "report" /\ guarded' = guarded /\ starts' = starts
  BY DEF LocalReport, ghosts
<1>3. /\ ServiceTypeOK' /\ ListedOnce' /\ UNCHANGED <<device, told>>
      /\ \A other : IsReported(other) => IsReported(other)'
      /\ \A other : IsReserved(other)' <=> IsReserved(other)
  <2>1. CASE outcome = "call lost"
    BY <1>1, <2>1, ServiceRests DEF LocalReport, Transmit
  <2>2. CASE outcome # "call lost"
    BY <1>1, <2>2, ReportStep DEF LocalReport, Transmit
  <2> QED
    BY <2>1, <2>2
<1>4. lost' \in 0 .. MaxLost
  BY <1>1, LostStep DEF LocalReport, Transmit, TypeOK
<1>5. CASE outcome # "answered"
  <2>1. UNCHANGED <<errand, mishap>>
    BY <1>5 DEF LocalReport, ghosts
  <2>2. Sound(id)'
    BY <1>1, <1>2, <1>3, <2>1 DEF Sound, Shaped, Kept, Known, Spent, Stage
  <2> QED
    BY <1>1, <1>2, <1>3, <1>4, <2>1, <2>2, OneReader DEF TypeOK
<1>6. CASE outcome = "answered" /\ ReportAnswer(id) \notin {"Success", "RQErrIdAlreadyKnown"}
  <2>1. PICK new : new = [errand[id] EXCEPT !.wants = "nothing"]
    OBVIOUS
  <2>2. Becomes(id, new) /\ mishap' = mishap
    BY <1>6, <2>1 DEF LocalReport, ghosts
  <2>3. new \in Errand /\ new.stage = "report" /\ new.wants = "nothing"
    BY <1>1, <1>2, <2>1 DEF Errand, Stage
  <2>4. /\ errand' \in [Id -> Errand] /\ errand'[id] = new
        /\ \A other \in Id \ {id} : errand'[other] = errand[other]
    BY <1>1, <2>2, <2>3, BecomesStep
  <2>5. Sound(id)'
    BY <1>1, <1>2, <1>3, <2>2, <2>3, <2>4 DEF Sound, Shaped, Kept, Known, Spent, Stage
  <2> QED
    BY <1>1, <1>2, <1>3, <1>4, <2>2, <2>4, <2>5, OneReader DEF TypeOK
<1>7. CASE outcome = "answered" /\ ReportAnswer(id) \in {"Success", "RQErrIdAlreadyKnown"}
  <2>1. PICK new : new = AfterReport(id)
    OBVIOUS
  <2>2. Becomes(id, new) /\ mishap' = mishap /\ ~(guarded = id /\ errand[id].wants = "this")
    BY <1>2, <1>7, <2>1 DEF LocalReport, ghosts, GuardSpent, Stage
  <2>3. /\ new \in Errand /\ new.wants = errand[id].wants /\ new.marked = errand[id].marked
        /\ \/ new.stage = "wait" /\ (guarded = id \/ errand[id].wants # "this")
           \/ /\ guarded # id /\ errand[id].wants = "this"
              /\ new.stage = IF errand[id].marked THEN "poll" ELSE "reserve"
    BY <1>1, <2>1, AfterReportStep
  <2>4. /\ errand' \in [Id -> Errand] /\ errand'[id] = new
        /\ \A other \in Id \ {id} : errand'[other] = errand[other]
    BY <1>1, <2>2, <2>3, BecomesStep
  <2>5. /\ mishap' \in [Id -> {"none", "unaware", "astray"}]
        /\ \A other \in Id \ {id} : mishap'[other] = mishap[other]
        /\ mishap'[id] = "none" =>
             mishap[id] = "none" /\ ~(guarded = id /\ errand[id].wants = "this")
    BY <1>1, <2>2
  <2>6. Sound(id)'
    <3>1. Shaped(id)' /\ Kept(id)'
      BY <2>3, <2>4 DEF Shaped, Kept, Stage
    <3>2. Known(id)'
      BY <1>1, <1>2, <1>3, <2>3, <2>4, <2>5 DEF Sound, Known, Stage
    <3>3. Spent(id)'
      BY <1>1, <1>2, <1>3, <2>3, <2>4, <2>5 DEF Sound, Spent, Stage
    <3> QED
      BY <3>1, <3>2, <3>3 DEF Sound
  <2> QED
    BY <1>1, <1>2, <1>3, <1>4, <2>4, <2>5, <2>6, OneReader DEF TypeOK
<1> QED
  BY <1>5, <1>6, <1>7

\* State_Mimo_Polozena's reservation: the reader goes on to poll only with a
\* granted answer in hand.
LEMMA LocalReserveKeeps ==
  ASSUME IInv, NEW id \in Id, NEW params \in Params, NEW outcome \in Outcomes,
         LocalReserve(id, params, outcome)
  PROVE  IInv'
<1>1. /\ TypeOK /\ ServiceTypeOK /\ ListedOnce /\ Sound(id) /\ errand[id] \in Errand
      /\ errand \in [Id -> Errand] /\ mishap \in [Id -> {"none", "unaware", "astray"}]
      /\ guarded \in Id \cup {noId} /\ 0 \in Priorities
  BY ServiceAssumption DEF IInv, TypeOK, Priorities
<1>2. PICK granted, took : /\ granted = Granted(id, 0, params, outcome)
                           /\ took = (ReserveAnswer(id, 0, params) = "Success")
  OBVIOUS
<1>3. PICK new : new = [errand[id] EXCEPT !.stage = IF granted THEN "poll" ELSE "report"]
  OBVIOUS
<1>4. /\ Stage(id) = "reserve" /\ starts' = starts /\ guarded' \in Id \cup {noId}
      /\ Transmit(Reserve(id, 0, params), outcome) /\ Becomes(id, new)
      /\ Unheard(id, 0, params, outcome)
  BY <1>1, <1>2, <1>3 DEF LocalReserve, Go
<1>5. /\ ServiceTypeOK' /\ ListedOnce' /\ UNCHANGED <<device, told>>
      /\ \A other : IsReported(other) => IsReported(other)'
      /\ \A other : IsReserved(other)' <=>
           IsReserved(other) \/ (other = id /\ took /\ outcome # "call lost")
  <2>1. CASE outcome = "call lost"
    BY <1>1, <1>4, <2>1, ServiceRests DEF Transmit
  <2>2. CASE outcome # "call lost"
    BY <1>1, <1>2, <1>4, <2>2, ReserveStep DEF Transmit
  <2> QED
    BY <2>1, <2>2
<1>6. lost' \in 0 .. MaxLost
  BY <1>1, <1>4, LostStep DEF Transmit, TypeOK
<1>7. granted <=> outcome = "answered" /\ took
  BY <1>2 DEF Granted
<1>8. /\ new \in Errand /\ new.wants = "this"
      /\ new.stage \in {"poll", "report"} /\ (new.stage = "poll" <=> granted)
  BY <1>1, <1>3, <1>4 DEF Errand, Here, Sound, Shaped, Stage
<1>9. /\ errand' \in [Id -> Errand] /\ errand'[id] = new
      /\ \A other \in Id \ {id} : errand'[other] = errand[other]
  BY <1>1, <1>4, <1>8, BecomesStep
<1>10. /\ mishap' \in [Id -> {"none", "unaware", "astray"}]
       /\ \A other \in Id \ {id} : mishap'[other] = mishap[other]
       /\ mishap'[id] = "none" => mishap[id] = "none" /\ ~(outcome = "answer lost" /\ took)
  BY <1>1, <1>2, <1>4, UnawareStep DEF Unheard
<1>11. mishap[id] = "none" => ~IsReserved(id) /\ ~(starts[id] > 0)
  BY <1>1, <1>4 DEF Sound, Shaped, Known, Spent
<1>12. Sound(id)'
  <2>1. Shaped(id)' /\ Kept(id)'
    BY <1>8, <1>9 DEF Shaped, Kept, Stage
  <2>2. Known(id)'
    BY <1>5, <1>7, <1>8, <1>9, <1>10, <1>11 DEF Known, Stage, Outcomes
  <2>3. Spent(id)'
    BY <1>4, <1>10, <1>11 DEF Spent
  <2> QED
    BY <2>1, <2>2, <2>3 DEF Sound
<1> QED
  BY <1>4, <1>5, <1>6, <1>9, <1>10, <1>12, OneReader

\* reserve_remote_target: a granted reservation is never of the product the
\* machine was told, which is reserved already.
LEMMA RemoteReserveKeeps ==
  ASSUME IInv, NEW id \in Id, NEW priority \in Priorities \ {0}, NEW params \in Params,
         NEW outcome \in Outcomes, RemoteReserve(id, priority, params, outcome)
  PROVE  IInv'
<1>1. /\ TypeOK /\ ServiceTypeOK /\ ListedOnce /\ Sound(id) /\ errand[id] \in Errand
      /\ errand \in [Id -> Errand] /\ mishap \in [Id -> {"none", "unaware", "astray"}]
      /\ guarded \in Id \cup {noId} /\ HandshakeHolds
  BY DEF IInv, TypeOK
<1>2. PICK granted, took : /\ granted = Granted(id, priority, params, outcome)
                           /\ took = (ReserveAnswer(id, priority, params) = "Success")
  OBVIOUS
<1>3. PICK new : new = IF granted
                         THEN [errand[id] EXCEPT !.stage = "confirm", !.polls = StatusPolls]
                         ELSE errand[id]
  OBVIOUS
<1>4. /\ Stage(id) = "loop" /\ errand[id].wants = "this"
      /\ starts' = starts /\ guarded' = guarded
      /\ Transmit(Reserve(id, priority, params), outcome)
      /\ Unheard(id, priority, params, outcome)
  BY DEF RemoteReserve
<1>5. /\ ServiceTypeOK' /\ ListedOnce' /\ UNCHANGED <<device, told>>
      /\ \A other : IsReported(other) => IsReported(other)'
      /\ \A other : IsReserved(other)' <=>
           IsReserved(other) \/ (other = id /\ took /\ outcome # "call lost")
  <2>1. CASE outcome = "call lost"
    BY <1>1, <1>4, <2>1, ServiceRests DEF Transmit
  <2>2. CASE outcome # "call lost"
    BY <1>1, <1>2, <1>4, <2>2, ReserveStep, ZenonT(60) DEF Transmit
  <2> QED
    BY <2>1, <2>2
<1>6. lost' \in 0 .. MaxLost
  BY <1>1, <1>4, LostStep DEF Transmit, TypeOK
<1>7. granted <=> outcome = "answered" /\ took
  BY <1>2 DEF Granted
<1>8. /\ new \in Errand /\ new.wants = "this" /\ new.marked = errand[id].marked
      /\ new.stage = IF granted THEN "confirm" ELSE "loop"
      /\ granted => new.polls = StatusPolls
  <2>1. StatusPolls \in 0 .. StatusPolls
    BY CellAssumption
  <2>2. CASE granted
    BY <1>1, <1>3, <1>4, <2>1, <2>2 DEF Errand, Away, Stage
  <2>3. CASE ~granted
    BY <1>1, <1>3, <1>4, <2>3 DEF Stage
  <2> QED
    BY <2>2, <2>3
<1>9. /\ errand' \in [Id -> Errand] /\ errand'[id] = new
      /\ \A other \in Id \ {id} : errand'[other] = errand[other]
  <2>1. CASE granted
    BY <1>1, <1>2, <1>3, <1>8, <2>1, BecomesStep DEF RemoteReserve
  <2>2. CASE ~granted
    BY <1>1, <1>2, <1>3, <2>2 DEF RemoteReserve
  <2> QED
    BY <2>1, <2>2
<1>10. /\ mishap' \in [Id -> {"none", "unaware", "astray"}]
       /\ \A other \in Id \ {id} : mishap'[other] = mishap[other]
       /\ mishap'[id] = "none" => mishap[id] = "none" /\ ~(outcome = "answer lost" /\ took)
  BY <1>1, <1>2, <1>4, UnawareStep DEF Unheard
<1>11. took => ~IsReserved(id)
  BY <1>2 DEF ReserveAnswer
<1>12. Sound(id)'
  <2>1. Shaped(id)'
    BY <1>8, <1>9, CellAssumption DEF Shaped, Stage
  <2>2. Kept(id)'
    BY <1>1, <1>5, <1>7, <1>8, <1>9, <1>11 DEF Kept, Stage, HandshakeHolds
  <2>3. Known(id)'
    BY <1>1, <1>4, <1>5, <1>7, <1>8, <1>9, <1>10 DEF Sound, Known, Stage, Outcomes
  <2>4. Spent(id)'
    BY <1>1, <1>4, <1>10 DEF Sound, Spent
  <2> QED
    BY <2>1, <2>2, <2>3, <2>4 DEF Sound
<1> QED
  BY <1>1, <1>4, <1>5, <1>6, <1>9, <1>10, <1>12, OneReader

-----------------------------------------------------------------------------
\* The steps of a reader that change nothing at the PLC.
LEMMA NoCall ==
  ASSUME IInv, NEW id \in Id, NEW new \in Errand, Becomes(id, new),
         UNCHANGED <<serviceVars, lost, starts>>, guarded' \in Id \cup {noId},
         Unaware(id) \/ mishap' = mishap,
         (\A other : IsReserved(other)' <=> IsReserved(other))
           /\ errand'[id] = new /\ UNCHANGED <<device, told>> => Sound(id)'
  PROVE  IInv'
<1>1. /\ ServiceTypeOK /\ ListedOnce /\ errand \in [Id -> Errand] /\ lost \in 0 .. MaxLost
      /\ mishap \in [Id -> {"none", "unaware", "astray"}]
  BY DEF IInv, TypeOK
<1>2. /\ ServiceTypeOK' /\ ListedOnce' /\ UNCHANGED <<device, told>>
      /\ \A other : IsReported(other)' <=> IsReported(other)
      /\ \A other : IsReserved(other)' <=> IsReserved(other)
  BY <1>1, ServiceRests
<1>3. /\ errand' \in [Id -> Errand] /\ errand'[id] = new
      /\ \A other \in Id \ {id} : errand'[other] = errand[other]
  BY <1>1, BecomesStep
<1>4. /\ mishap' \in [Id -> {"none", "unaware", "astray"}]
      /\ \A other \in Id \ {id} : mishap'[other] = mishap[other]
  BY <1>1, UnawareStep
<1>5. Sound(id)'
  BY <1>2, <1>3
<1> QED
  BY <1>1, <1>2, <1>3, <1>4, <1>5, OneReader

\* A recipe that is given up leaves no reservation unnoticed.
LEMMA AbandonKeeps ==
  ASSUME IInv, NEW id \in Id, Abandon(id), UNCHANGED <<serviceVars, lost, starts>>,
         guarded' \in Id \cup {noId}
  PROVE  IInv'
<1>1. PICK new : new = [errand[id] EXCEPT !.stage = "report", !.wants = "nothing"]
  OBVIOUS
<1>2. /\ errand[id] \in Errand /\ mishap \in [Id -> {"none", "unaware", "astray"}]
      /\ Sound(id)
  BY DEF IInv, TypeOK
<1>3. new \in Errand /\ new.stage = "report" /\ new.wants = "nothing"
  BY <1>1, <1>2 DEF Errand, Here
<1>4. Becomes(id, new) /\ (Unaware(id) \/ mishap' = mishap)
  BY <1>1 DEF Abandon, LeavesReservation
<1>5. mishap'[id] = "none" => ~IsReserved(id)
  BY <1>2, UnawareStep DEF Abandon, LeavesReservation
<1>6. ASSUME \A other : IsReserved(other)' <=> IsReserved(other), errand'[id] = new
      PROVE  Sound(id)'
  BY <1>3, <1>5, <1>6 DEF Sound, Shaped, Kept, Known, Spent, Stage
<1> QED
  BY <1>3, <1>4, <1>6, NoCall

\* OPC_AAS_WaitCompletionPoll: no answer is one of a finished step.
LEMMA LocalPollKeeps ==
  ASSUME IInv, NEW id \in Id, NEW outcome \in Outcomes, LocalPoll(id, outcome)
  PROVE  IInv'
<1>1. UNCHANGED <<serviceVars, guarded, lost, starts>> /\ guarded \in Id \cup {noId}
  BY DEF LocalPoll, IInv, TypeOK
<1>2. Abandon(id) \/ UNCHANGED <<errand, mishap>>
  BY StatusMessages DEF LocalPoll, Terminal, Pending
<1>3. CASE Abandon(id)
  BY <1>1, <1>3, AbandonKeeps
<1>4. CASE UNCHANGED <<errand, mishap>>
  <2>1. errand[id] \in Errand /\ Becomes(id, errand[id]) /\ Sound(id)
    BY <1>4 DEF IInv, TypeOK, Becomes
  <2>2. ASSUME \A other : IsReserved(other)' <=> IsReserved(other), UNCHANGED <<device, told>>
        PROVE  Sound(id)'
    BY <1>1, <1>4, <2>1, <2>2 DEF Sound, Shaped, Kept, Known, Spent, Stage
  <2> QED
    BY <1>1, <1>4, <2>1, <2>2, NoCall
<1> QED
  BY <1>2, <1>3, <1>4

LEMMA LocalTimeoutKeeps ==
  ASSUME IInv, NEW id \in Id, LocalTimeout(id)
  PROVE  IInv'
<1>1. Abandon(id) /\ guarded' \in Id \cup {noId} /\ UNCHANGED <<serviceVars, lost, starts>>
  BY DEF LocalTimeout
<1> QED
  BY <1>1, AbandonKeeps

\* confirm_target_passive: asked in vain the last time, the reader leaves the
\* reservation behind; the marker is set at no other place.
LEMMA RemoteConfirmKeeps ==
  ASSUME IInv, NEW id \in Id, NEW outcome \in Outcomes, RemoteConfirm(id, outcome)
  PROVE  IInv'
<1>1. /\ errand[id] \in Errand /\ guarded \in Id \cup {noId} /\ Sound(id)
      /\ mishap \in [Id -> {"none", "unaware", "astray"}]
  BY DEF IInv, TypeOK
<1>2. /\ Stage(id) = "confirm" /\ errand[id].wants = "this" /\ errand[id].polls > 0
      /\ UNCHANGED <<serviceVars, guarded, lost, starts>>
  BY <1>1 DEF RemoteConfirm, Sound, Shaped
<1>3. CASE Passive(id, outcome)
  <2>1. PICK new : new = [errand[id] EXCEPT !.stage = "marked", !.marked = TRUE, !.polls = 0]
    OBVIOUS
  <2>2. Becomes(id, new) /\ mishap' = mishap
    BY <1>3, <2>1 DEF RemoteConfirm
  <2>3. new \in Errand /\ new.stage = "marked" /\ new.marked /\ new.wants = "this"
    <3>1. 0 \in 0 .. StatusPolls
      BY CellAssumption
    <3> QED
      BY <1>1, <1>2, <2>1, <3>1 DEF Errand, Away
  <2>4. ASSUME \A other : IsReserved(other)' <=> IsReserved(other), errand'[id] = new,
               UNCHANGED <<device, told>>
        PROVE  Sound(id)'
    BY <1>1, <1>2, <2>2, <2>3, <2>4 DEF Sound, Shaped, Kept, Known, Spent, Stage
  <2> QED
    BY <1>1, <1>2, <2>2, <2>3, <2>4, NoCall
<1>4. CASE ~Passive(id, outcome)
  <2>1. PICK left, new :
          /\ left = errand[id].polls - 1
          /\ new = [errand[id] EXCEPT !.stage = IF left = 0 THEN "loop" ELSE @,
                                      !.polls = left]
    OBVIOUS
  <2>2. /\ Becomes(id, new)
        /\ IF left = 0 THEN LeavesReservation(id) ELSE UNCHANGED mishap
    BY <1>4, <2>1 DEF RemoteConfirm
  <2>3. left \in 0 .. StatusPolls
    <3>1. StatusPolls \in Nat /\ errand[id].polls \in 0 .. StatusPolls
      BY <1>1, CellAssumption DEF Errand
    <3> QED
      BY <1>2, <2>1, <3>1
  <2>4. /\ new \in Errand /\ new.wants = "this" /\ new.polls = left
        /\ new.stage = IF left = 0 THEN "loop" ELSE "confirm"
    <3>1. CASE left = 0
      BY <1>1, <1>2, <2>1, <2>3, <3>1 DEF Errand, Away
    <3>2. CASE left # 0
      BY <1>1, <1>2, <2>1, <2>3, <3>2 DEF Errand, Away, Stage
    <3> QED
      BY <3>1, <3>2
  <2>5. Unaware(id) \/ mishap' = mishap
    BY <2>2 DEF LeavesReservation
  <2>6. mishap'[id] = "none" => mishap[id] = "none" /\ (left = 0 => ~IsReserved(id))
    BY <1>1, <2>2, UnawareStep DEF LeavesReservation
  <2>7. left # 0 => mishap' = mishap
    BY <2>2
  <2>8. ASSUME \A other : IsReserved(other)' <=> IsReserved(other), errand'[id] = new,
               UNCHANGED <<device, told>>
        PROVE  Sound(id)'
    <3>1. Shaped(id)'
      BY <2>3, <2>4, <2>8 DEF Shaped, Stage
    <3>2. Kept(id)'
      BY <1>1, <1>2, <2>4, <2>7, <2>8 DEF Sound, Kept, Stage
    <3>3. Known(id)'
      BY <2>4, <2>6, <2>8 DEF Known, Stage
    <3>4. Spent(id)'
      BY <1>1, <1>2, <2>6 DEF Sound, Spent
    <3> QED
      BY <3>1, <3>2, <3>3, <3>4 DEF Sound
  <2> QED
    BY <1>1, <1>2, <2>2, <2>4, <2>5, <2>8, NoCall
<1> QED
  BY <1>3, <1>4

\* Moves of the product without a word to the PLC.
LEMMA MovesKeep ==
  ASSUME IInv, NEW id \in Id, RemoteTransport(id) \/ Arrive(id) \/ Leave(id)
  PROVE  IInv'
<1>1. errand[id] \in Errand /\ guarded \in Id \cup {noId} /\ Sound(id)
  BY DEF IInv, TypeOK
<1>2. /\ UNCHANGED <<serviceVars, guarded, lost, starts>> /\ mishap' = mishap
      /\ \E new \in Errand :
           /\ Becomes(id, new) /\ new.marked = errand[id].marked
           /\ \/ /\ new.wants = errand[id].wants
                 /\ \/ Stage(id) = "marked" /\ new.stage \in {"sent", "loop"}
                    \/ Stage(id) \in {"loop", "sent"} /\ new.stage = "report"
              \/ /\ Stage(id) = "wait" /\ new.stage = "loop"
                 /\ new.wants = IF errand[id].wants = "other" THEN "this"
                                ELSE errand[id].wants
  <2>1. ASSUME NEW stage \in {"sent", "loop", "report"}
        PROVE  LET new == [errand[id] EXCEPT !.stage = stage]
               IN /\ new \in Errand /\ new.marked = errand[id].marked
                  /\ new.wants = errand[id].wants /\ new.stage = stage
    BY <1>1 DEF Errand, Away, Here
  <2>2. CASE RemoteTransport(id)
    BY <2>1, <2>2 DEF RemoteTransport, Go, ghosts
  <2>3. CASE Arrive(id)
    BY <2>1, <2>3 DEF Arrive, Go, ghosts
  <2>4. CASE Leave(id)
    <3>1. PICK new : new = [errand[id] EXCEPT !.stage = "loop",
                                              !.wants = IF @ = "other" THEN "this" ELSE @]
      OBVIOUS
    <3>2. /\ new \in Errand /\ new.marked = errand[id].marked /\ new.stage = "loop"
          /\ new.wants = IF errand[id].wants = "other" THEN "this" ELSE errand[id].wants
      BY <1>1, <3>1 DEF Errand, Away
    <3> QED
      BY <2>4, <3>1, <3>2 DEF Leave, ghosts
  <2> QED
    BY <2>2, <2>3, <2>4
<1>3. PICK new \in Errand :
        /\ Becomes(id, new) /\ new.marked = errand[id].marked
        /\ \/ /\ new.wants = errand[id].wants
              /\ \/ Stage(id) = "marked" /\ new.stage \in {"sent", "loop"}
                 \/ Stage(id) \in {"loop", "sent"} /\ new.stage = "report"
           \/ /\ Stage(id) = "wait" /\ new.stage = "loop"
              /\ new.wants = IF errand[id].wants = "other" THEN "this" ELSE errand[id].wants
  BY <1>2
<1>4. ASSUME \A other : IsReserved(other)' <=> IsReserved(other), errand'[id] = new,
             UNCHANGED <<device, told>>
      PROVE  Sound(id)'
  <2>1. Shaped(id)' /\ Kept(id)'
    BY <1>1, <1>2, <1>3, <1>4 DEF Sound, Shaped, Kept, Stage
  <2>2. Known(id)'
    BY <1>1, <1>2, <1>3, <1>4 DEF Sound, Shaped, Known, Stage
  <2>3. Spent(id)'
    BY <1>1, <1>2, <1>3, <1>4 DEF Sound, Spent, Stage
  <2> QED
    BY <2>1, <2>2, <2>3 DEF Sound
<1> QED
  BY <1>1, <1>2, <1>3, <1>4, NoCall

LEMMA GuardExpiresKeeps == ASSUME IInv, GuardExpires PROVE IInv'
<1>1. /\ guarded' = noId /\ UNCHANGED <<errand, lost, starts, mishap>>
      /\ ServiceTypeOK' /\ ListedOnce' /\ UNCHANGED <<device, told>>
      /\ \A other : IsReported(other)' <=> IsReported(other)
      /\ \A other : IsReserved(other)' <=> IsReserved(other)
  BY ServiceRests DEF GuardExpires, ghosts, IInv, TypeOK
<1>2. TypeOK' /\ StartedOnce' /\ HandshakeHolds'
  BY <1>1 DEF IInv, TypeOK, StartedOnce, HandshakeHolds
<1>3. ASSUME NEW id \in Id PROVE Sound(id)'
  BY <1>1 DEF IInv, Sound, Shaped, Kept, Known, Spent, Stage
<1> QED
  BY <1>1, <1>2, <1>3 DEF IInv

-----------------------------------------------------------------------------
\* A cycle of the PLC: what it takes off the lists, and for whom it starts the
\* machine, is the product the handshake began for, or the ghost says so.
LEMMA PlcCycleKeeps == ASSUME IInv, PlcCycle PROVE IInv'
<1> DEFINE hit == Displaced \cup RunAway
<1>1. /\ ServiceTypeOK /\ ListedOnce /\ HandshakeHolds /\ Cycle
      /\ errand' = errand /\ guarded' = guarded /\ lost' = lost
      /\ mishap \in [Id -> {"none", "unaware", "astray"}] /\ starts \in [Id -> Nat]
  BY DEF IInv, TypeOK, PlcCycle, readerVars
<1>2. /\ ServiceTypeOK' /\ ListedOnce'
      /\ \/ /\ device # "idle" /\ Ready # {} /\ End
         \/ /\ UNCHANGED <<reserved, reported>>
            /\ \/ device' = device /\ told' = told
               \/ /\ device = "idle" /\ device' = "told" /\ told' \in Id
                  /\ IsReserved(told') /\ IsReported(told')
               \/ device = "told" /\ device' = "started" /\ told' = told /\ Start
               \/ device \in {"told", "started"} /\ device' = "failing" /\ told' = told
  BY <1>1, CycleStep
<1>3. /\ mishap' \in [Id -> {"none", "unaware", "astray"}]
      /\ \A id \in Id : mishap'[id] = IF id \in hit THEN "astray" ELSE mishap[id]
  BY <1>1 DEF PlcCycle
<1>4. ASSUME NEW id \in Id PROVE Shaped(id)'
  BY <1>1 DEF IInv, Sound, Shaped, Stage
<1>5. ASSUME NEW id \in Id, id \in hit PROVE Sound(id)'
  BY <1>3, <1>4, <1>5 DEF Sound, Kept, Known, Spent
<1>6. Start => device = "told" /\ device' = "started" /\ told' = told
  BY DEF Start, Proceed
<1>7. \/ starts' = starts
      \/ Start /\ mishap'[told] = "none" /\ starts' = [starts EXCEPT ![told] = @ + 1]
  BY DEF PlcCycle
<1>8. \A id \in Id : device' # "idle" /\ told' = id /\ id \notin hit => Stage(id) \notin Away
  BY DEF RunAway
<1>9. CASE device # "idle" /\ Ready # {} /\ End
  <2>1. PICK taken : taken = Entry(Pick).id
    OBVIOUS
  <2>2. /\ device' = "idle" /\ told' = told
        /\ \A other : IsReserved(other)' <=> IsReserved(other) /\ other # taken
    BY <1>1, <1>9, <2>1, EndStep
  <2>3. starts' = starts
    BY <1>6, <1>7, <2>2
  <2>4. taken # told => told \in hit /\ taken \in hit
    BY <1>9, <2>1 DEF Displaced
  <2>5. ASSUME NEW id \in Id, id \notin hit PROVE Sound(id)'
    <3>1. Sound(id) /\ mishap'[id] = mishap[id] /\ Stage(id)' = Stage(id)
      BY <1>1, <1>3, <2>5 DEF IInv, Stage
    <3>2. id = taken => id = told
      BY <2>4, <2>5
    <3>3. Kept(id)'
      BY <1>9, <2>2, <3>1, <3>2 DEF Sound, Kept
    <3>4. Known(id)'
      BY <1>1, <2>2, <3>1 DEF Sound, Known
    <3>5. id # told \/ id = taken
      BY <2>4, <2>5
    <3>6. Spent(id)'
      BY <1>1, <2>2, <2>3, <3>1, <3>5 DEF Sound, Spent
    <3> QED
      BY <1>4, <3>3, <3>4, <3>6 DEF Sound
  <2>6. TypeOK' /\ StartedOnce' /\ HandshakeHolds'
    BY <1>1, <1>2, <1>3, <2>2, <2>3 DEF IInv, TypeOK, StartedOnce, HandshakeHolds
  <2> QED
    BY <1>2, <1>5, <2>5, <2>6 DEF IInv
<1>10. CASE /\ UNCHANGED <<reserved, reported>>
            /\ \/ device' = device /\ told' = told
               \/ /\ device = "idle" /\ device' = "told" /\ told' \in Id
                  /\ IsReserved(told') /\ IsReported(told')
               \/ device = "told" /\ device' = "started" /\ told' = told /\ Start
               \/ device \in {"told", "started"} /\ device' = "failing" /\ told' = told
  <2>1. /\ \A other : IsReserved(other)' <=> IsReserved(other)
        /\ \A other : IsReported(other)' <=> IsReported(other)
    BY <1>10 DEF IsReserved, IsReported, Places, Entry
  <2>2. HandshakeHolds'
    BY <1>1, <1>10, <2>1 DEF HandshakeHolds
  <2>3. ASSUME NEW id \in Id, id \notin hit PROVE Sound(id)'
    <3>1. Sound(id) /\ mishap'[id] = mishap[id] /\ Stage(id)' = Stage(id)
      BY <1>1, <1>3, <2>3 DEF IInv, Stage
    <3>2. Kept(id)'
      BY <1>8, <2>1, <2>3, <3>1 DEF Sound, Kept, Away
    <3>3. Known(id)'
      BY <1>1, <2>1, <3>1 DEF Sound, Known
    <3>4. Spent(id)'
      <4>1. CASE starts'[id] = starts[id]
        BY <1>1, <1>10, <2>1, <3>1, <4>1 DEF Sound, Spent
      <4>2. CASE Start /\ told = id
        <5>1. device' = "started" /\ told' = id /\ Stage(id) \notin Away
          BY <1>6, <1>8, <2>3, <4>2
        <5>2. IsReserved(id)
          BY <1>1, <1>6, <4>2 DEF HandshakeHolds
        <5> QED
          BY <1>1, <3>1, <5>1, <5>2 DEF Sound, Known, Spent, Away, Stage
      <4> QED
        BY <1>1, <1>7, <4>1, <4>2
    <3> QED
      BY <1>4, <3>2, <3>3, <3>4 DEF Sound
  <2>4. starts' \in [Id -> Nat] /\ StartedOnce'
    <3>1. CASE starts' = starts
      BY <1>1, <3>1 DEF IInv, StartedOnce
    <3>2. CASE /\ Start /\ mishap'[told] = "none"
               /\ starts' = [starts EXCEPT ![told] = @ + 1]
      <4>1. told \in Id /\ IsReserved(told) /\ device = "told"
        BY <1>1, <1>6, <3>2 DEF HandshakeHolds
      <4>2. mishap[told] = "none" /\ Sound(told)
        BY <1>3, <3>2, <4>1 DEF IInv
      <4>3. starts[told] = 0
        BY <1>1, <4>1, <4>2 DEF Sound, Spent
      <4> QED
        BY <1>1, <3>2, <4>1, <4>3 DEF IInv, StartedOnce
    <3> QED
      BY <1>7, <3>1, <3>2
  <2>5. TypeOK'
    BY <1>1, <1>2, <1>3, <2>4 DEF IInv, TypeOK
  <2> QED
    BY <1>2, <1>5, <2>2, <2>3, <2>4, <2>5 DEF IInv
<1> QED
  BY <1>2, <1>9, <1>10

\* Every step of the PLC and of the readers keeps the invariant.
LEMMA NextKeeps == IInv /\ GuardSpent /\ [Next]_vars => IInv'
<1> SUFFICES ASSUME IInv, GuardSpent, [Next]_vars PROVE IInv'
  OBVIOUS
<1>1. CASE PlcCycle
  BY <1>1, PlcCycleKeeps
<1>2. CASE GuardExpires
  BY <1>2, GuardExpiresKeeps
<1>3. ASSUME NEW id \in Id, Reader(id) PROVE IInv'
  <2>1. ASSUME NEW outcome \in Outcomes,
               LocalReport(id, outcome) \/ LocalPoll(id, outcome) \/ RemoteConfirm(id, outcome)
        PROVE  IInv'
    BY <2>1, LocalReportKeeps, LocalPollKeeps, RemoteConfirmKeeps
  <2>2. ASSUME NEW outcome \in Outcomes, NEW params \in Params,
               LocalReserve(id, params, outcome)
        PROVE  IInv'
    BY <2>2, LocalReserveKeeps
  <2>3. ASSUME NEW outcome \in Outcomes, NEW params \in Params, NEW p \in Priorities \ {0},
               RemoteReserve(id, p, params, outcome)
        PROVE  IInv'
    BY <2>3, RemoteReserveKeeps
  <2>4. CASE LocalTimeout(id)
    BY <2>4, LocalTimeoutKeeps
  <2>5. CASE RemoteTransport(id) \/ Arrive(id) \/ Leave(id)
    BY <2>5, MovesKeep
  <2> QED
    BY <1>3, <2>1, <2>2, <2>3, <2>4, <2>5 DEF Reader
<1>4. CASE UNCHANGED vars
  <2>1. /\ UNCHANGED <<errand, guarded, lost, starts, mishap>> /\ UNCHANGED serviceVars
    BY <1>4 DEF vars, readerVars, ghosts
  <2>2. /\ ServiceTypeOK' /\ ListedOnce' /\ UNCHANGED <<device, told>>
        /\ \A other : IsReported(other)' <=> IsReported(other)
        /\ \A other : IsReserved(other)' <=> IsReserved(other)
    BY <2>1, ServiceRests DEF IInv, TypeOK
  <2>3. TypeOK' /\ StartedOnce' /\ HandshakeHolds'
    BY <2>1, <2>2 DEF IInv, TypeOK, StartedOnce, HandshakeHolds
  <2>4. ASSUME NEW id \in Id PROVE Sound(id)'
    BY <2>1, <2>2 DEF IInv, Sound, Shaped, Kept, Known, Spent, Stage
  <2> QED
    BY <2>2, <2>3, <2>4 DEF IInv
<1> QED
  BY <1>1, <1>2, <1>3, <1>4 DEF Next

\* A step that leaves the errands of other products and, of the guarded one,
\* its errand or that it was given up.
LEMMA GuardStays ==
  ASSUME GuardSpent, NEW id \in Id, guarded' \in {guarded, noId},
         \A other \in Id \ {id} : errand'[other] = errand[other],
         guarded = id => errand'[id] = errand[id] \/ errand'[id].wants = "nothing"
  PROVE  GuardSpent'
  BY ServiceAssumption DEF GuardSpent, Stage

\* A reader with a step of this cell before it that does not poll is not guarded.
LEMMA NotGuarded ==
  ASSUME GuardSpent, NEW id \in Id, errand[id].wants = "this", Stage(id) # "poll"
  PROVE  guarded # id
  BY DEF GuardSpent

LEMMA LocalReportSpends ==
  ASSUME IInv, GuardSpent, NEW id \in Id, NEW outcome \in Outcomes, LocalReport(id, outcome)
  PROVE  GuardSpent'
<1>1. errand \in [Id -> Errand] /\ errand[id] \in Errand /\ guarded' = guarded
      /\ Stage(id) = "report"
  BY DEF IInv, TypeOK, LocalReport
<1>2. guarded = id => errand[id].wants = "nothing"
  BY <1>1 DEF GuardSpent
<1>3. CASE errand' = errand
  BY <1>1, <1>3, GuardStays
<1>4. CASE \/ Becomes(id, [errand[id] EXCEPT !.wants = "nothing"]) \/ Becomes(id, AfterReport(id))
  <2>1. AfterReport(id).wants = errand[id].wants
    BY <1>1, AfterReportStep
  <2>2. [errand[id] EXCEPT !.wants = "nothing"].wants = "nothing"
    BY <1>1 DEF Errand
  <2>3. PICK new : /\ errand' = [errand EXCEPT ![id] = new]
                   /\ new.wants = "nothing" \/ new.wants = errand[id].wants
    BY <1>4, <2>1, <2>2 DEF Becomes
  <2> QED
    BY <1>1, <1>2, <2>3, GuardStays
<1> QED
  BY <1>3, <1>4 DEF LocalReport

LEMMA LocalReserveSpends ==
  ASSUME IInv, GuardSpent, NEW id \in Id, NEW params \in Params, NEW outcome \in Outcomes,
         LocalReserve(id, params, outcome)
  PROVE  GuardSpent'
<1>1. /\ errand \in [Id -> Errand] /\ errand[id] \in Errand
      /\ Stage(id) = "reserve" /\ errand[id].wants = "this"
  BY DEF IInv, TypeOK, LocalReserve, Sound, Shaped
<1>2. guarded # id
  BY <1>1, NotGuarded
<1>3. PICK granted : granted = Granted(id, 0, params, outcome)
  OBVIOUS
<1>4. PICK new : new = [errand[id] EXCEPT !.stage = IF granted THEN "poll" ELSE "report"]
  OBVIOUS
<1>5. errand' = [errand EXCEPT ![id] = new] /\ guarded' = IF granted THEN id ELSE guarded
  BY <1>3, <1>4 DEF LocalReserve, Go, Becomes
<1>6. new.wants = "this" /\ (granted => new.stage = "poll")
  BY <1>1, <1>4 DEF Errand
<1>7. CASE granted
  BY <1>1, <1>5, <1>6, <1>7 DEF GuardSpent, Stage
<1>8. CASE ~granted
  BY <1>1, <1>2, <1>5, <1>8, GuardStays
<1> QED
  BY <1>7, <1>8

LEMMA AbandonSpends ==
  ASSUME IInv, GuardSpent, NEW id \in Id, Abandon(id), guarded' \in {guarded, noId}
  PROVE  GuardSpent'
<1>1. errand \in [Id -> Errand] /\ errand[id] \in Errand
  BY DEF IInv, TypeOK
<1>2. PICK new : new = [errand[id] EXCEPT !.stage = "report", !.wants = "nothing"]
  OBVIOUS
<1>3. errand' = [errand EXCEPT ![id] = new]
  BY <1>2 DEF Abandon, Becomes
<1>4. new.wants = "nothing"
  BY <1>1, <1>2 DEF Errand
<1> QED
  BY <1>1, <1>3, <1>4, GuardStays

LEMMA AwaySpends ==
  ASSUME IInv, GuardSpent, NEW id \in Id, guarded' = guarded,
         NEW new, Becomes(id, new), Stage(id) # "poll",
         \/ errand[id].wants = "this" \/ new.wants = errand[id].wants
         \/ errand[id].wants = "other"
  PROVE  GuardSpent'
<1>1. errand' = [errand EXCEPT ![id] = new] /\ errand \in [Id -> Errand]
  BY DEF IInv, TypeOK, Becomes
<1>2. guarded = id => new.wants = "nothing"
  BY DEF GuardSpent
<1> QED
  BY <1>1, <1>2, GuardStays

LEMMA MovesSpend ==
  ASSUME IInv, GuardSpent, NEW id \in Id, RemoteTransport(id) \/ Arrive(id) \/ Leave(id)
  PROVE  GuardSpent'
<1>1. errand[id] \in Errand /\ guarded' = guarded /\ Stage(id) # "poll"
  BY DEF IInv, TypeOK, RemoteTransport, Arrive, Leave
<1>2. \A stage : [errand[id] EXCEPT !.stage = stage].wants = errand[id].wants
  BY <1>1 DEF Errand
<1>3. CASE RemoteTransport(id) \/ Arrive(id)
  BY <1>1, <1>2, <1>3, AwaySpends DEF RemoteTransport, Arrive, Go
<1>4. CASE Leave(id)
  <2>1. PICK new : new = [errand[id] EXCEPT !.stage = "loop",
                                            !.wants = IF @ = "other" THEN "this" ELSE @]
    OBVIOUS
  <2>2. new.wants = IF errand[id].wants = "other" THEN "this" ELSE errand[id].wants
    BY <1>1, <2>1 DEF Errand
  <2>3. Becomes(id, new)
    BY <1>4, <2>1 DEF Leave
  <2> QED
    BY <1>1, <2>2, <2>3, AwaySpends
<1> QED
  BY <1>3, <1>4

LEMMA ReaderSpends ==
  ASSUME IInv, GuardSpent, NEW id \in Id, Reader(id)
  PROVE  GuardSpent'
<1>1. ASSUME NEW outcome \in Outcomes, LocalPoll(id, outcome) PROVE GuardSpent'
  <2>1. Abandon(id) \/ errand' = errand
    BY <1>1, StatusMessages DEF LocalPoll, Terminal, Pending
  <2>2. guarded' = guarded
    BY <1>1 DEF LocalPoll
  <2> QED
    BY <2>1, <2>2, AbandonSpends, GuardStays
<1>2. CASE LocalTimeout(id)
  BY <1>2, AbandonSpends DEF LocalTimeout
<1>3. ASSUME NEW outcome \in Outcomes, RemoteConfirm(id, outcome) PROVE GuardSpent'
  <2>1. guarded' = guarded /\ errand[id].wants = "this" /\ Stage(id) # "poll"
    BY <1>3 DEF RemoteConfirm, IInv, Sound, Shaped
  <2>2. \E new : Becomes(id, new)
    BY <1>3 DEF RemoteConfirm
  <2> QED
    BY <2>1, <2>2, AwaySpends
<1>4. ASSUME NEW outcome \in Outcomes, NEW params \in Params, NEW p \in Priorities \ {0},
             RemoteReserve(id, p, params, outcome)
      PROVE  GuardSpent'
  <2>1. guarded' = guarded /\ errand[id].wants = "this" /\ Stage(id) # "poll"
    BY <1>4 DEF RemoteReserve
  <2>2. errand' = errand \/ \E new : Becomes(id, new)
    BY <1>4 DEF RemoteReserve
  <2> QED
    BY <2>1, <2>2, AwaySpends, GuardStays
<1> QED
  BY <1>1, <1>2, <1>3, <1>4, LocalReportSpends, LocalReserveSpends, MovesSpend DEF Reader

LEMMA NextSpends == IInv /\ GuardSpent /\ [Next]_vars => GuardSpent'
<1> SUFFICES ASSUME IInv, GuardSpent, [Next]_vars PROVE GuardSpent'
  OBVIOUS
<1>1. CASE errand' = errand /\ guarded' \in {guarded, noId}
  BY <1>1, ServiceAssumption DEF GuardSpent, Stage
<1>2. CASE PlcCycle \/ GuardExpires \/ UNCHANGED vars
  BY <1>1, <1>2 DEF PlcCycle, GuardExpires, vars, readerVars
<1> QED
  BY <1>2, ReaderSpends DEF Next

LEMMA InvariantHolds == Spec => []IInv
<1>1. Init => GuardSpent
  BY ServiceAssumption DEF Init, GuardSpent
<1> QED
  BY <1>1, InitIInv, NextKeeps, NextSpends, PTL DEF Spec

\* Whatever is reported, reserved, lost, given up or carried between cells, the
\* PLC's lists hold what they may and every reader's errand is one it knows.
THEOREM CellTypeCorrect == Spec => []TypeOK
<1>1. IInv => TypeOK
  BY DEF IInv
<1> QED
  BY <1>1, InvariantHolds, PTL

\* The machine runs a product's step once, for any number of products, calls
\* and priorities, unless one of the four mishaps happened to it.
THEOREM CellStartsOnce == Spec => []StartedOnce
<1>1. IInv => StartedOnce
  BY DEF IInv
<1> QED
  BY <1>1, InvariantHolds, PTL

\* A product sent to this cell still has its reservation, unless a handshake
\* went astray.
THEOREM CellKeepsReservation == Spec => []MarkedIsReserved
<1>1. IInv => MarkedIsReserved
  BY DEF IInv, Sound, Kept, MarkedIsReserved
<1> QED
  BY <1>1, InvariantHolds, PTL

\* While the machine is busy, the product it was told of stays reserved and
\* reported: no call of any reader, and no turn of another product, takes it off
\* the lists under the machine's hands.
THEOREM CellHoldsHandshake == Spec => []HandshakeHolds
<1>1. IInv => HandshakeHolds
  BY DEF IInv
<1> QED
  BY <1>1, InvariantHolds, PTL
=============================================================================
