----------------------------- MODULE Plc_proofs -----------------------------
(***************************************************************************)
(* What the PLCs keep true, proved: that of a service provider, for every  *)
(* number of priorities, every length of the arrays, every set of ids and  *)
(* parameters and each of the gates; and that of the transport, which has  *)
(* the same blocks, for every number of cells and products, every set of   *)
(* trips and whatever answers get lost.                                    *)
(***************************************************************************)
EXTENDS PassiveAasRefinement, TransportCell, QueueLemmas, FiniteSetTheorems, FunctionTheorems

\* What the safety of the queues rests on: either the device never runs, as
\* committed, or no client takes a reservation back while it does.  With the
\* gate changed and FreeFromQueue called, the position kept for the removal
\* may lie past the end (README).
NoneFreedInHandshake == SelectWhile = {TRUE} \/ "FreeFromQueue" \notin Called

QueuesGood == GoodPQueue(pq) /\ GoodQueue(rq)

\* No two entries of all priorities have the same id.
Apart(q) ==
  \A p, r \in Priorities :
    \A j \in 1 .. Len(Listed(q, p)), k \in 1 .. Len(Listed(q, r)) :
      Listed(q, p)[j].id = Listed(q, r)[k].id => p = r /\ j = k

NothingTwice == Distinct(Contents(rq)) /\ Apart(pq)

\* While the device runs, its product stays reserved and reported, and the
\* positions kept for the removal stay positions of the queues.
HandshakeKeeps ==
  /\ isFoundItem = deviceRunning
  /\ deviceRunning =>
       /\ SelectWhile # {TRUE}
       /\ item.id \in ReservedIds(pq)
       /\ itemPositionP \in 0 .. pq.queueProductCount - 1
       /\ itemPositionRP \in 0 .. rq.count - 1
       /\ Contents(rq)[itemPositionRP + 1].id = item.id

\* With one priority its entry does not move either.
OneListKeeps ==
  PriorityCount = 1 /\ deviceRunning =>
    /\ pq.activeItemPosition = itemPositionP
    /\ Listed(pq, 0)[itemPositionP + 1] = item

\* An offer that was just made counts the entries up to its priority.
OfferStands ==
  reply.method = "GetSupported" =>
    /\ reply.priority \in Priorities
    /\ reply.position = CountUpTo(pq, reply.priority)

IInv == TypeOK /\ QueuesGood /\ NothingTwice /\ HandshakeKeeps /\ OneListKeeps /\ OfferStands

-----------------------------------------------------------------------------
\* The ids that are reserved, by the place of their entry.
LEMMA ReservedByPlace ==
  ASSUME NEW q, GoodPQueue(q)
  PROVE  \A id : id \in ReservedIds(q) <=>
                   \E p \in Priorities : \E k \in 1 .. Len(Listed(q, p)) :
                     Listed(q, p)[k].id = id
<1>1. DOMAIN Entries(q) = 1 .. q.queueProductCount /\ q.queueProductCount \in Nat
  <2>1. Entries(q) \in Seq(Product) /\ Len(Entries(q)) = q.queueProductCount
    BY EntriesByPlace
  <2> QED
    BY <2>1, LenProperties
<1>2. ASSUME NEW i \in DOMAIN Entries(q)
      PROVE  \E p \in Priorities : \E k \in 1 .. Len(Listed(q, p)) :
               Listed(q, p)[k] = Entries(q)[i]
  <2>1. PICK p, k : p = TableIndex(q, i - 1) /\ k = LocalPosition(q, i - 1)
    OBVIOUS
  <2>2. i - 1 \in 0 .. q.queueProductCount - 1 /\ (i - 1) + 1 = i
    BY <1>1
  <2>3. Place(q, p, k, i - 1)
    BY <2>1, <2>2, PlaceIsFound
  <2>4. Entries(q)[i] = Listed(q, p)[k + 1]
    BY <2>2, <2>3, EntriesByPlace
  <2>5. p \in Priorities /\ Len(Listed(q, p)) \in Nat /\ k + 1 \in 1 .. Len(Listed(q, p))
    BY <2>3, GoodCounts, SubQueueCountAssumption DEF Place
  <2> QED
    BY <2>4, <2>5
<1>3. ASSUME NEW p \in Priorities, NEW k \in 1 .. Len(Listed(q, p))
      PROVE  \E i \in DOMAIN Entries(q) : Entries(q)[i] = Listed(q, p)[k]
  <2>1. PICK i : i = CountUpTo(q, p - 1) + (k - 1)
    OBVIOUS
  <2>2. Len(Listed(q, p)) \in Nat /\ CountUpTo(q, p - 1) \in Nat
    BY GoodCounts, SubQueueCountAssumption
  <2>3. Place(q, p, k - 1, i) /\ (k - 1) + 1 = k
    BY <2>1, <2>2 DEF Place
  <2>4. i \in 0 .. q.queueProductCount - 1 /\ Entries(q)[i + 1] = Listed(q, p)[(k - 1) + 1]
    BY <2>3, PlaceIsUnique, EntriesByPlace
  <2>5. i + 1 \in DOMAIN Entries(q)
    BY <1>1, <2>4
  <2> QED
    BY <2>3, <2>4, <2>5
<1> QED
  BY <1>2, <1>3 DEF ReservedIds

\* Entries that are apart by place are distinct in the order of all places.
LEMMA ApartIsDistinct ==
  ASSUME NEW q, GoodPQueue(q), Apart(q)
  PROVE  Distinct(Entries(q))
<1>1. DOMAIN Entries(q) = 1 .. q.queueProductCount /\ q.queueProductCount \in Nat
  <2>1. Entries(q) \in Seq(Product) /\ Len(Entries(q)) = q.queueProductCount
    BY EntriesByPlace
  <2> QED
    BY <2>1, LenProperties
<1>2. ASSUME NEW i \in DOMAIN Entries(q)
      PROVE  \E p \in Priorities : \E k \in 1 .. Len(Listed(q, p)) :
               /\ Listed(q, p)[k] = Entries(q)[i]
               /\ i = CountUpTo(q, p - 1) + k
  <2>1. PICK p, k : p = TableIndex(q, i - 1) /\ k = LocalPosition(q, i - 1)
    OBVIOUS
  <2>2. i - 1 \in 0 .. q.queueProductCount - 1 /\ (i - 1) + 1 = i
    BY <1>1
  <2>3. Place(q, p, k, i - 1)
    BY <2>1, <2>2, PlaceIsFound
  <2>4. Entries(q)[i] = Listed(q, p)[k + 1]
    BY <2>2, <2>3, EntriesByPlace
  <2>5. /\ p \in Priorities /\ Len(Listed(q, p)) \in Nat /\ k + 1 \in 1 .. Len(Listed(q, p))
        /\ CountUpTo(q, p - 1) \in Nat /\ i - 1 = CountUpTo(q, p - 1) + k /\ k \in Nat
    BY <2>3, GoodCounts, SubQueueCountAssumption DEF Place
  <2>6. i = CountUpTo(q, p - 1) + (k + 1)
    BY <1>1, <2>5
  <2> QED
    BY <2>4, <2>5, <2>6
<1>3. ASSUME NEW i \in DOMAIN Entries(q), NEW j \in DOMAIN Entries(q),
             Entries(q)[i].id = Entries(q)[j].id
      PROVE  i = j
  <2>1. PICK p, k : /\ p \in Priorities /\ k \in 1 .. Len(Listed(q, p))
                    /\ Listed(q, p)[k] = Entries(q)[i] /\ i = CountUpTo(q, p - 1) + k
    BY <1>2
  <2>2. PICK r, m : /\ r \in Priorities /\ m \in 1 .. Len(Listed(q, r))
                    /\ Listed(q, r)[m] = Entries(q)[j] /\ j = CountUpTo(q, r - 1) + m
    BY <1>2
  <2> QED
    BY <1>3, <2>1, <2>2 DEF Apart
<1> QED
  BY <1>3 DEF Distinct

\* The published position is not part of the lists.
LEMMA ActiveOnly ==
  ASSUME NEW q, GoodPQueue(q), NEW a \in -1 .. PriorityCount * SubQueueCount,
         NEW r, r = [q EXCEPT !.activeItemPosition = a]
  PROVE  /\ GoodPQueue(r) /\ r.activeItemPosition = a
         /\ r.queueProductCount = q.queueProductCount
         /\ \A p \in Priorities : Listed(r, p) = Listed(q, p)
<1>1. q \in PQueueData
  BY DEF GoodPQueue
<1>2. /\ r.buffer = q.buffer /\ r.subElementCount = q.subElementCount
      /\ r.isFullBuffer = q.isFullBuffer /\ r.isEmptyBuffer = q.isEmptyBuffer
      /\ r.queueProductCount = q.queueProductCount /\ r.activeItemPosition = a
      /\ r \in PQueueData
  BY <1>1 DEF PQueueData
<1>3. CountUpTo(r, PriorityCount - 1) = CountUpTo(q, PriorityCount - 1)
  <2>1. Counters(q) /\ Counters(r) /\ q.subElementCount[0] \in Nat /\ 0 \in Priorities
    BY <1>2, GoodCounts, PrioritiesProperties DEF Counters
  <2>2. PriorityCount - 1 \in -1 .. PriorityCount - 1
    BY PriorityCountAssumption
  <2>3. CountUpTo(r, PriorityCount - 1) =
          IF PriorityCount - 1 < 0 THEN CountUpTo(q, PriorityCount - 1)
          ELSE CountUpTo(q, PriorityCount - 1) + r.subElementCount[0] - q.subElementCount[0]
    BY <1>2, <2>1, <2>2, CountChange
  <2>4. CountUpTo(q, PriorityCount - 1) \in Nat
    BY <2>1, <2>2, CountSteps
  <2> QED
    BY <1>2, <2>1, <2>3, <2>4
<1>4. CountersAgree(r)
  BY <1>2, <1>3, Zenon DEF GoodPQueue, CountersAgree
<1> QED
  BY <1>2, <1>4 DEF GoodPQueue, Listed

\* The entry at a place, and its item, stay where they are when the lists do.
LEMMA SameListsSamePlaces ==
  ASSUME NEW q, GoodPQueue(q), NEW r, GoodPQueue(r),
         \A p \in Priorities : Listed(r, p) = Listed(q, p)
  PROVE  \A n \in -1 .. PriorityCount - 1 : CountUpTo(r, n) = CountUpTo(q, n)
<1>1. /\ Counters(q) /\ Counters(r) /\ 0 \in Priorities
      /\ \A p \in Priorities : r.subElementCount[p] = q.subElementCount[p]
      /\ q.subElementCount[0] \in Nat
  <2>1. Counters(q) /\ Counters(r) /\ 0 \in Priorities
    BY GoodCounts, PrioritiesProperties
  <2>2. \A p \in Priorities : /\ r.subElementCount[p] = Len(Listed(r, p))
                             /\ q.subElementCount[p] = Len(Listed(q, p))
    BY GoodCounts
  <2> QED
    BY <2>1, <2>2 DEF Counters
<1>2. ASSUME NEW n \in -1 .. PriorityCount - 1 PROVE CountUpTo(r, n) = CountUpTo(q, n)
  <2>1. CountUpTo(r, n) =
          IF n < 0 THEN CountUpTo(q, n)
          ELSE CountUpTo(q, n) + r.subElementCount[0] - q.subElementCount[0]
    BY <1>1, CountChange
  <2>2. CountUpTo(q, n) \in Nat
    BY <1>1, CountSteps
  <2> QED
    BY <1>1, <2>1, <2>2
<1> QED
  BY <1>2

-----------------------------------------------------------------------------
\* Where the elements of a list go when one is taken out.
LEMMA RemoveAtIndices ==
  ASSUME NEW s \in Seq(Product), NEW k \in 1 .. Len(s)
  PROVE  /\ RemoveAt(s, k) \in Seq(Product) /\ Len(RemoveAt(s, k)) = Len(s) - 1
         /\ \A j \in 1 .. Len(s) - 1 :
              \E m \in 1 .. Len(s) : /\ m = IF j < k THEN j ELSE j + 1
                                     /\ m # k /\ RemoveAt(s, k)[j] = s[m]
         /\ \A m \in 1 .. Len(s) : m # k =>
              \E j \in 1 .. Len(s) - 1 : RemoveAt(s, k)[j] = s[m]
<1>1. Len(s) \in Nat
  BY LenProperties
<1>2. /\ RemoveAt(s, k) \in Seq(Product) /\ Len(RemoveAt(s, k)) = Len(s) - 1
      /\ \A i \in 1 .. Len(s) - 1 :
           RemoveAt(s, k)[i] = IF i < k THEN s[i] ELSE s[i + 1]
  BY RemoveAtProperties
<1>3. ASSUME NEW j \in 1 .. Len(s) - 1
      PROVE  \E m \in 1 .. Len(s) : /\ m = IF j < k THEN j ELSE j + 1
                                    /\ m # k /\ RemoveAt(s, k)[j] = s[m]
  <2>1. CASE j < k
    <3>1. j \in 1 .. Len(s) /\ j # k /\ RemoveAt(s, k)[j] = s[j]
      BY <1>1, <1>2, <2>1
    <3> QED
      BY <2>1, <3>1
  <2>2. CASE ~ (j < k)
    <3>1. j + 1 \in 1 .. Len(s) /\ j + 1 # k /\ RemoveAt(s, k)[j] = s[j + 1]
      BY <1>1, <1>2, <2>2
    <3> QED
      BY <2>2, <3>1
  <2> QED
    BY <2>1, <2>2
<1>4. ASSUME NEW m \in 1 .. Len(s), m # k
      PROVE  \E j \in 1 .. Len(s) - 1 : RemoveAt(s, k)[j] = s[m]
  <2>1. CASE m < k
    <3>1. m \in 1 .. Len(s) - 1 /\ RemoveAt(s, k)[m] = s[m]
      BY <1>1, <1>2, <2>1
    <3> QED
      BY <3>1
  <2>2. CASE ~ (m < k)
    <3>1. m - 1 \in 1 .. Len(s) - 1 /\ ~ (m - 1 < k) /\ (m - 1) + 1 = m
      BY <1>1, <1>4, <2>2
    <3>2. RemoveAt(s, k)[m - 1] = s[m]
      BY <1>2, <3>1
    <3> QED
      BY <3>1, <3>2
  <2> QED
    BY <2>1, <2>2
<1> QED
  BY <1>2, <1>3, <1>4

LEMMA AppendDistinct ==
  ASSUME NEW s \in Seq(Product), Distinct(s), NEW e \in Product,
         \A j \in 1 .. Len(s) : s[j].id # e.id
  PROVE  Distinct(Append(s, e))
<1>1. /\ Append(s, e) \in Seq(Product) /\ Len(Append(s, e)) = Len(s) + 1
      /\ \A i \in 1 .. Len(s) : Append(s, e)[i] = s[i]
      /\ Append(s, e)[Len(s) + 1] = e /\ Len(s) \in Nat
      /\ DOMAIN s = 1 .. Len(s)
  BY AppendProperties, LenProperties
<1>2. DOMAIN Append(s, e) = 1 .. Len(s) + 1
  BY <1>1, LenProperties
<1>3. \A i \in 1 .. Len(s) + 1 : i \in 1 .. Len(s) \/ i = Len(s) + 1
  BY <1>1
<1> QED
  BY <1>1, <1>2, <1>3, Zenon DEF Distinct

LEMMA RemoveDistinct ==
  ASSUME NEW s \in Seq(Product), Distinct(s), NEW k \in 1 .. Len(s)
  PROVE  Distinct(RemoveAt(s, k))
<1>1. Len(s) \in Nat /\ DOMAIN s = 1 .. Len(s) /\ DOMAIN RemoveAt(s, k) = 1 .. Len(s) - 1
  BY RemoveAtIndices, LenProperties
<1>2. ASSUME NEW i \in 1 .. Len(s) - 1, NEW j \in 1 .. Len(s) - 1,
             RemoveAt(s, k)[i].id = RemoveAt(s, k)[j].id
      PROVE  i = j
  <2>1. PICK m \in 1 .. Len(s) : /\ m = IF i < k THEN i ELSE i + 1
                                 /\ RemoveAt(s, k)[i] = s[m]
    BY RemoveAtIndices
  <2>2. PICK n \in 1 .. Len(s) : /\ n = IF j < k THEN j ELSE j + 1
                                 /\ RemoveAt(s, k)[j] = s[n]
    BY RemoveAtIndices
  <2>3. m = n
    BY <1>1, <1>2, <2>1, <2>2 DEF Distinct
  <2> QED
    BY <1>1, <2>1, <2>2, <2>3
<1> QED
  BY <1>1, <1>2 DEF Distinct

\* A push reserves its id when it succeeds, and nothing else.
LEMMA PushReserves ==
  ASSUME NEW q, GoodPQueue(q), NEW item_ \in Product, NEW p \in Priorities,
         NEW r, r = PQueue_push(q, item_, p)
  PROVE  /\ r.status # PQNoError => r.pqueue = q
         /\ r.status = PQNoError => r.pqueue.queueProductCount = q.queueProductCount + 1
         /\ r.status \in {PQNoError, "PQErrBufferIsFull"}
         /\ \A id : id \in ReservedIds(r.pqueue) <=>
                      id \in ReservedIds(q) \/ (r.status = PQNoError /\ id = item_.id)
         /\ Apart(q) /\ item_.id \notin ReservedIds(q) => Apart(r.pqueue)
<1>1. /\ GoodPQueue(r.pqueue)
      /\ Len(Listed(q, p)) = SubQueueCount =>
              r.status = "PQErrBufferIsFull" /\ r.pqueue = q
      /\ Len(Listed(q, p)) # SubQueueCount =>
              /\ r.status = PQNoError
              /\ r.pqueue.queueProductCount = q.queueProductCount + 1
              /\ \A h \in Priorities :
                   Listed(r.pqueue, h) = IF h = p THEN Append(Listed(q, p), item_)
                                                  ELSE Listed(q, h)
  BY PQPush
<1>2. CASE Len(Listed(q, p)) = SubQueueCount
  BY <1>1, <1>2 DEF PQNoError
<1>3. CASE Len(Listed(q, p)) # SubQueueCount
  <2>1. PICK n, L : n = r.pqueue /\ L = Len(Listed(q, p))
    OBVIOUS
  <2>2. /\ L \in Nat /\ Listed(q, p) \in Seq(Product)
        /\ Len(Listed(n, p)) = L + 1
        /\ Listed(n, p)[L + 1] = item_
        /\ \A k \in 1 .. L : Listed(n, p)[k] = Listed(q, p)[k]
        /\ \A h \in Priorities \ {p} : Listed(n, h) = Listed(q, h)
    <3>1. PICK s : s = Listed(q, p)
      OBVIOUS
    <3>2. s \in Seq(Product) /\ L \in Nat /\ L = Len(s)
      BY <2>1, <3>1, GoodCounts, LenProperties
    <3>3. /\ Len(Append(s, item_)) = L + 1 /\ Append(s, item_)[L + 1] = item_
          /\ \A k \in 1 .. L : Append(s, item_)[k] = s[k]
      BY <3>2, AppendProperties
    <3>4. \A h \in Priorities : Listed(n, h) = IF h = p THEN Append(s, item_)
                                                        ELSE Listed(q, h)
      BY <1>1, <1>3, <2>1, <3>1
    <3> QED
      BY <3>1, <3>2, <3>3, <3>4
  <2>3. \A k \in 1 .. L + 1 : k \in 1 .. L \/ k = L + 1
    BY <2>2
  <2>4. L + 1 \in 1 .. L + 1 /\ \A k \in 1 .. L : k \in 1 .. L + 1
    BY <2>2
  <2>5. ASSUME NEW id
        PROVE  id \in ReservedIds(n) <=> id \in ReservedIds(q) \/ id = item_.id
    <3>1. id \in ReservedIds(n) <=>
            \E h \in Priorities : \E k \in 1 .. Len(Listed(n, h)) : Listed(n, h)[k].id = id
      BY <1>1, <2>1, ReservedByPlace
    <3>2. id \in ReservedIds(q) <=>
            \E h \in Priorities : \E k \in 1 .. Len(Listed(q, h)) : Listed(q, h)[k].id = id
      BY ReservedByPlace
    <3>3. ASSUME NEW h \in Priorities, NEW k \in 1 .. Len(Listed(n, h)), Listed(n, h)[k].id = id
          PROVE  id \in ReservedIds(q) \/ id = item_.id
      <4>1. CASE h = p
        BY <2>1, <2>2, <2>3, <3>2, <3>3, <4>1
      <4>2. CASE h # p
        BY <2>2, <3>2, <3>3, <4>2
      <4> QED
        BY <4>1, <4>2
    <3>4. ASSUME NEW h \in Priorities, NEW k \in 1 .. Len(Listed(q, h)), Listed(q, h)[k].id = id
          PROVE  id \in ReservedIds(n)
      <4>1. CASE h = p
        BY <2>1, <2>2, <2>4, <3>1, <3>4, <4>1
      <4>2. CASE h # p
        BY <2>2, <3>1, <3>4, <4>2
      <4> QED
        BY <4>1, <4>2
    <3>5. id = item_.id => id \in ReservedIds(n)
      BY <2>2, <2>4, <3>1
    <3> QED
      BY <3>1, <3>2, <3>3, <3>4, <3>5
  <2>6. ASSUME Apart(q), item_.id \notin ReservedIds(q) PROVE Apart(n)
    <3>1. \A h \in Priorities : \A k \in 1 .. Len(Listed(q, h)) : Listed(q, h)[k].id # item_.id
      BY <2>6, ReservedByPlace
    <3> DEFINE Old(h, k) == k \in 1 .. Len(Listed(q, h)) /\ Listed(n, h)[k] = Listed(q, h)[k]
               New(h, k) == h = p /\ k = L + 1 /\ Listed(n, h)[k] = item_
    <3>2. ASSUME NEW h \in Priorities, NEW k \in 1 .. Len(Listed(n, h))
          PROVE  Old(h, k) \/ New(h, k)
      <4>1. CASE h = p
        BY <2>1, <2>2, <2>3, <4>1
      <4>2. CASE h # p
        BY <2>2, <4>2
      <4> QED
        BY <4>1, <4>2
    <3>3. ASSUME NEW h \in Priorities, NEW g \in Priorities,
                 NEW j \in 1 .. Len(Listed(n, h)), NEW k \in 1 .. Len(Listed(n, g)),
                 Listed(n, h)[j].id = Listed(n, g)[k].id
          PROVE  h = g /\ j = k
      <4>1. CASE Old(h, j) /\ Old(g, k)
        BY <2>6, <3>3, <4>1 DEF Apart
      <4>2. ~ (Old(h, j) /\ New(g, k)) /\ ~ (New(h, j) /\ Old(g, k))
        BY <3>1, <3>3
      <4>3. CASE New(h, j) /\ New(g, k)
        BY <4>3
      <4> HIDE DEF Old, New
      <4> QED
        BY <3>2, <4>1, <4>2, <4>3
    <3> QED
      BY <3>3 DEF Apart
  <2> QED
    BY <1>1, <1>3, <2>1, <2>5, <2>6
<1> QED
  BY <1>2, <1>3

\* A removal at the place of an entry frees its id when no other entry has it,
\* and never another id.
LEMMA RemoveFrees ==
  ASSUME NEW q, GoodPQueue(q), NEW p, NEW k, NEW i, Place(q, p, k, i),
         NEW n, n = PQueue_removeByPosition(q, i).pqueue
  PROVE  /\ \A id : id \in ReservedIds(n) => id \in ReservedIds(q)
         /\ Apart(q) =>
              /\ Apart(n)
              /\ \A id : id \in ReservedIds(n) <=>
                           id \in ReservedIds(q) /\ id # Listed(q, p)[k + 1].id
<1>1. PICK r : r = PQueue_removeByPosition(q, i)
  OBVIOUS
<1>2. /\ GoodPQueue(n)
      /\ \A h \in Priorities :
           Listed(n, h) = IF h = p THEN RemoveAt(Listed(q, p), k + 1) ELSE Listed(q, h)
  BY <1>1, PQRemove
<1>3. PICK L, m : L = Len(Listed(q, p)) /\ m = k + 1
  OBVIOUS
<1>4. /\ p \in Priorities /\ L \in Nat /\ Listed(q, p) \in Seq(Product)
      /\ m \in 1 .. L /\ Listed(n, p) = RemoveAt(Listed(q, p), m)
  BY <1>2, <1>3, GoodCounts, SubQueueCountAssumption DEF Place
<1>5. /\ Len(Listed(n, p)) = L - 1
      /\ \A j \in 1 .. L - 1 :
           \E a \in 1 .. L : /\ a = IF j < m THEN j ELSE j + 1
                             /\ a # m /\ Listed(n, p)[j] = Listed(q, p)[a]
      /\ \A a \in 1 .. L : a # m =>
           \E j \in 1 .. L - 1 : Listed(n, p)[j] = Listed(q, p)[a]
  <2>1. PICK s : s = Listed(q, p)
    OBVIOUS
  <2>2. s \in Seq(Product) /\ L = Len(s) /\ m \in 1 .. Len(s)
    BY <1>3, <1>4, <2>1
  <2>3. /\ Len(RemoveAt(s, m)) = L - 1
        /\ \A j \in 1 .. L - 1 :
             \E a \in 1 .. L : /\ a = IF j < m THEN j ELSE j + 1
                               /\ a # m /\ RemoveAt(s, m)[j] = s[a]
        /\ \A a \in 1 .. L : a # m =>
             \E j \in 1 .. L - 1 : RemoveAt(s, m)[j] = s[a]
    BY <2>2, RemoveAtIndices, ZenonT(60)
  <2> QED
    BY <1>4, <2>1, <2>3
\* Every entry that is left was there before, and was not the one removed.
<1> DEFINE IsFrom(h, j, a) ==
             /\ a \in 1 .. Len(Listed(q, h)) /\ Listed(n, h)[j] = Listed(q, h)[a]
             /\ h = p => a # m /\ a = IF j < m THEN j ELSE j + 1
             /\ h # p => a = j
<1>6. ASSUME NEW h \in Priorities, NEW j \in 1 .. Len(Listed(n, h))
      PROVE  \E a : IsFrom(h, j, a)
  <2>1. CASE h = p
    BY <1>3, <1>5, <2>1
  <2>2. CASE h # p
    <3>1. IsFrom(h, j, j)
      BY <1>2, <2>2
    <3> QED
      BY <3>1
  <2> QED
    BY <2>1, <2>2
<1>7. ASSUME NEW h \in Priorities, NEW a \in 1 .. Len(Listed(q, h)), ~ (h = p /\ a = m)
      PROVE  \E j \in 1 .. Len(Listed(n, h)) : Listed(n, h)[j] = Listed(q, h)[a]
  <2>1. CASE h = p
    BY <1>3, <1>5, <1>7, <2>1
  <2>2. CASE h # p
    BY <1>2, <2>2
  <2> QED
    BY <2>1, <2>2
<1>8. /\ \A id : id \in ReservedIds(n) <=>
            \E h \in Priorities : \E j \in 1 .. Len(Listed(n, h)) : Listed(n, h)[j].id = id
      /\ \A id : id \in ReservedIds(q) <=>
            \E h \in Priorities : \E j \in 1 .. Len(Listed(q, h)) : Listed(q, h)[j].id = id
  BY <1>2, ReservedByPlace
<1>9. ASSUME NEW id, id \in ReservedIds(n) PROVE id \in ReservedIds(q)
  BY <1>6, <1>8, <1>9
<1>10. ASSUME Apart(q), NEW id
       PROVE  id \in ReservedIds(n) <=> id \in ReservedIds(q) /\ id # Listed(q, p)[m].id
  <2>1. ASSUME id \in ReservedIds(n) PROVE id # Listed(q, p)[m].id
    <3>1. PICK h, j : h \in Priorities /\ j \in 1 .. Len(Listed(n, h)) /\ Listed(n, h)[j].id = id
      BY <1>8, <2>1
    <3>2. PICK a : IsFrom(h, j, a)
      BY <1>6, <3>1
    <3>3. ASSUME Listed(q, h)[a].id = Listed(q, p)[m].id PROVE FALSE
      <4>1. h = p /\ a = m
        BY <1>3, <1>4, <1>10, <3>1, <3>2, <3>3 DEF Apart
      <4> QED
        BY <3>2, <4>1
    <3> QED
      BY <3>1, <3>2, <3>3
  <2>2. ASSUME id \in ReservedIds(q), id # Listed(q, p)[m].id PROVE id \in ReservedIds(n)
    <3>1. PICK h, a : h \in Priorities /\ a \in 1 .. Len(Listed(q, h)) /\ Listed(q, h)[a].id = id
      BY <1>8, <2>2
    <3>2. ~ (h = p /\ a = m)
      BY <2>2, <3>1
    <3> QED
      BY <1>7, <1>8, <3>1, <3>2
  <2> QED
    BY <1>9, <2>1, <2>2
<1>11. ASSUME Apart(q) PROVE Apart(n)
  <2>1. ASSUME NEW h \in Priorities, NEW g \in Priorities,
               NEW j \in 1 .. Len(Listed(n, h)), NEW l \in 1 .. Len(Listed(n, g)),
               Listed(n, h)[j].id = Listed(n, g)[l].id
        PROVE  h = g /\ j = l
    <3>1. PICK a : IsFrom(h, j, a)
      BY <1>6
    <3>2. PICK b : IsFrom(g, l, b)
      BY <1>6
    <3>3. h = g /\ a = b
      BY <1>11, <2>1, <3>1, <3>2 DEF Apart
    <3>4. j \in Int /\ l \in Int /\ m \in Int
      BY <1>4
    <3> QED
      BY <3>1, <3>2, <3>3, <3>4
  <2> QED
    BY <2>1 DEF Apart
<1> QED
  BY <1>3, <1>9, <1>10, <1>11

-----------------------------------------------------------------------------
\* With one priority the global positions are the positions of its list.
LEMMA OneList ==
  ASSUME PriorityCount = 1, NEW q, GoodPQueue(q)
  PROVE  /\ Priorities = {0} /\ q.queueProductCount = Len(Listed(q, 0))
         /\ \A k \in 0 .. q.queueProductCount - 1 : Place(q, 0, k, k)
<1>1. Priorities = {0}
  BY DEF Priorities
<1>2. /\ q.queueProductCount = CountUpTo(q, 0)
      /\ CountUpTo(q, 0) = CountUpTo(q, 0 - 1) + Len(Listed(q, 0))
      /\ CountUpTo(q, -1) = 0 /\ Len(Listed(q, 0)) \in Nat
  BY <1>1, GoodCounts, CountSteps, SubQueueCountAssumption
<1>3. 0 - 1 = -1
  OBVIOUS
<1> QED
  BY <1>1, <1>2, <1>3 DEF Place

LEMMA ReplyFields ==
  ASSUME NEW m, NEW i, NEW p, NEW t, NEW o, NEW u
  PROVE  /\ DOMAIN Reply(m, i, p, t, o, u) = DOMAIN NoReply
         /\ Reply(m, i, p, t, o, u).method = m /\ Reply(m, i, p, t, o, u).id = i
         /\ Reply(m, i, p, t, o, u).priority = p /\ Reply(m, i, p, t, o, u).message = t
         /\ Reply(m, i, p, t, o, u).position = o
BY DEF Reply, NoReply

\* In the first state every queue is empty and nothing runs.
LEMMA InitIInv == Init => IInv
<1> SUFFICES ASSUME Init PROVE IInv
  OBVIOUS
<1>1. GoodPQueue(pq) /\ GoodQueue(rq) /\ \A p \in Priorities : Listed(pq, p) = <<>>
  BY EmptyPQueueGood, EmptyQueueGood DEF Init, SPInit
<1>2. TypeOK
  <2>1. 0 \in Slots /\ PriorityCount * SubQueueCount \in Nat
    BY SubQueueCountAssumption, PriorityCountAssumption DEF Slots, SubQueueCountSmall
  <2>2. SPTypeOK
    BY <1>1 DEF SPTypeOK, Init, SPInit, GoodPQueue, GoodQueue
  <2>3. history \in [1 .. HistoryLength -> Id \cup {noId}]
    BY DEF Init
  <2>4. itemPositionRP \in Slots /\ itemPositionP \in 0 .. PriorityCount * SubQueueCount
    BY <2>1 DEF Init
  <2>5. /\ isFoundItem \in BOOLEAN /\ deviceRunning \in BOOLEAN /\ timerRunning \in BOOLEAN
        /\ item \in Product \cup {emptyItem} /\ cmdProductID \in Id \cup {noId}
        /\ actionStatus \in {"idle", "inProgress", "failed"}
    BY DEF Init
  <2>6. seqState \in SeqStates /\ cmd \in Commands
    BY DEF Init, SeqStates, Commands
  <2> QED
    BY <2>2, <2>3, <2>4, <2>5, <2>6 DEF TypeOK
<1>3. NothingTwice
  <2>1. DOMAIN Contents(rq) = {}
    BY DEF Init, SPInit, EmptyQueue, Contents
  <2> QED
    BY <1>1, <2>1 DEF NothingTwice, Distinct, Apart
<1>4. reply.method = "none"
  BY ReplyFields DEF Init, SPInit, NoReply
<1> QED
  BY <1>1, <1>2, <1>3, <1>4
     DEF IInv, QueuesGood, HandshakeKeeps, OneListKeeps, OfferStands, Init

-----------------------------------------------------------------------------
\* A method call changes none of the cycle's own variables.
Aside == UNCHANGED <<selection, device, history>>

LEMMA AsideTypes ==
  ASSUME TypeOK, Aside, GoodPQueue(pq'), GoodQueue(rq'),
         outputPositionSr' \in Id \cup {noId}, DOMAIN reply' = DOMAIN NoReply
  PROVE  TypeOK'
BY DEF TypeOK, SPTypeOK, Aside, selection, device, GoodPQueue, GoodQueue

\* A call that leaves the queues alone.
LEMMA AnswerKeepsIInv ==
  ASSUME IInv, Aside, UNCHANGED <<pq, rq>>, outputPositionSr' \in Id \cup {noId},
         DOMAIN reply' = DOMAIN NoReply, OfferStands'
  PROVE  IInv'
<1>1. TypeOK'
  BY AsideTypes DEF IInv, QueuesGood
<1> QED
  BY <1>1
     DEF IInv, QueuesGood, NothingTwice, HandshakeKeeps, OneListKeeps, Aside,
         selection, device

\* An answer other than an offer leaves nothing to keep.
LEMMA NoOffer ==
  ASSUME NEW m, NEW i, NEW p, NEW t, NEW o, NEW u, m # "GetSupported",
         reply' = Reply(m, i, p, t, o, u)
  PROVE  DOMAIN reply' = DOMAIN NoReply /\ OfferStands'
BY ReplyFields DEF OfferStands

LEMMA ReportKeepsIInv ==
  ASSUME IInv, Aside, NEW id \in Id \cup {noId}, ReportProduct(id)
  PROVE  IInv'
<1>1. PICK t : reply' = Reply("ReportProduct", id, 0, t, 0, 0)
  BY Zenon DEF ReportProduct, Answer
<1>2. DOMAIN reply' = DOMAIN NoReply /\ OfferStands'
  BY <1>1, NoOffer
<1>3. pq' = pq /\ outputPositionSr' \in Id \cup {noId}
  BY DEF ReportProduct, IInv, TypeOK, SPTypeOK
<1>4. CASE rq' = rq
  BY <1>2, <1>3, <1>4, AnswerKeepsIInv
<1>5. CASE id # noId /\ ~ Queue_find(rq, id).found
           /\ rq' = Queue_push(rq, [id |-> id, params |-> NoParams]).queue
  <2>1. PICK it : it = [id |-> id, params |-> NoParams]
    OBVIOUS
  <2>2. it \in Product /\ it.id = id
    BY <1>5, <2>1, ItemAssumption
  <2>3. /\ GoodQueue(rq) /\ GoodPQueue(pq) /\ Distinct(Contents(rq)) /\ Apart(pq)
        /\ rq.count \in 0 .. SubQueueCount /\ Contents(rq) \in Seq(Product)
        /\ Len(Contents(rq)) = rq.count
    BY ContentsProperties DEF IInv, QueuesGood, NothingTwice
  <2>4. GoodQueue(rq')
    BY <1>5, <2>1, <2>2, <2>3, PushGood
  <2>5. TypeOK'
    BY <1>2, <1>3, <2>3, <2>4, AsideTypes DEF IInv
  <2>6. CASE rq.count = SubQueueCount
    <3>1. rq' = rq
      BY <1>5, <2>1, <2>2, <2>3, <2>6, PushContents
    <3> QED
      BY <1>4, <3>1
  <2>7. CASE rq.count # SubQueueCount
    <3>1. Contents(rq') = Append(Contents(rq), it) /\ rq'.count = rq.count + 1
      BY <1>5, <2>1, <2>2, <2>3, <2>7, PushContents
    <3>2. \A j \in 1 .. Len(Contents(rq)) : Contents(rq)[j].id # it.id
      BY <1>5, <2>2, <2>3, FindContents
    <3>3. Distinct(Contents(rq'))
      BY <2>2, <2>3, <3>1, <3>2, AppendDistinct
    <3>4. NothingTwice'
      BY <1>3, <2>3, <3>3 DEF NothingTwice
    <3>5. HandshakeKeeps'
      <4>1. ASSUME deviceRunning
            PROVE  /\ itemPositionRP \in 0 .. rq'.count - 1
                   /\ Contents(rq')[itemPositionRP + 1].id = item.id
        <5>1. /\ itemPositionRP \in 0 .. rq.count - 1
              /\ Contents(rq)[itemPositionRP + 1].id = item.id
          BY <4>1 DEF IInv, HandshakeKeeps
        <5>2. itemPositionRP + 1 \in 1 .. Len(Contents(rq))
          BY <2>3, <5>1, SubQueueCountAssumption
        <5>3. Contents(rq')[itemPositionRP + 1] = Contents(rq)[itemPositionRP + 1]
          BY <2>2, <2>3, <3>1, <5>2, AppendProperties
        <5>4. rq.count \in Nat
          BY <2>3, SubQueueCountAssumption
        <5> QED
          BY <3>1, <5>1, <5>3, <5>4
      <4> QED
        BY <1>3, <4>1 DEF IInv, HandshakeKeeps, Aside, selection, device
    <3>6. OneListKeeps'
      BY <1>3 DEF IInv, OneListKeeps, Aside, selection, device
    <3> QED
      BY <1>2, <1>3, <2>3, <2>4, <2>5, <3>4, <3>5, <3>6 DEF IInv, QueuesGood
  <2> QED
    BY <2>6, <2>7
<1> QED
  BY <1>4, <1>5, Zenon DEF ReportProduct

LEMMA ReserveKeepsIInv ==
  ASSUME IInv, Aside, NEW id \in Id \cup {noId}, NEW priority \in Priorities,
         NEW params \in Params, ReserveAction(id, priority, params)
  PROVE  IInv'
<1>1. PICK t : reply' = Reply("ReserveAction", id, priority, t, 0, 0)
  BY Zenon DEF ReserveAction
<1>2. DOMAIN reply' = DOMAIN NoReply /\ OfferStands'
  BY <1>1, NoOffer
<1>3. rq' = rq /\ outputPositionSr' \in Id \cup {noId}
  BY DEF ReserveAction, IInv, TypeOK, SPTypeOK
<1>4. CASE pq' = pq
  BY <1>2, <1>3, <1>4, AnswerKeepsIInv
<1>5. CASE id # noId /\ ~ PQueue_find(pq, id).found
           /\ pq' = PQueue_push(pq, [id |-> id, params |-> params], priority).pqueue
  <2>1. PICK it : it = [id |-> id, params |-> params]
    OBVIOUS
  <2>2. it \in Product /\ it.id = id
    BY <1>5, <2>1, ItemAssumption
  <2>3. PICK r : r = PQueue_push(pq, it, priority)
    OBVIOUS
  <2>4. pq' = r.pqueue
    BY <1>5, <2>1, <2>3
  <2>5. GoodPQueue(pq) /\ GoodQueue(rq) /\ Distinct(Contents(rq)) /\ Apart(pq)
    BY DEF IInv, QueuesGood, NothingTwice
  <2>6. it.id \notin ReservedIds(pq)
    BY <1>5, <2>2, <2>5, PQFind, ReservedByPlace
  <2>7. /\ r.status # PQNoError => r.pqueue = pq
        /\ r.status = PQNoError => r.pqueue.queueProductCount = pq.queueProductCount + 1
        /\ \A x : x \in ReservedIds(pq) => x \in ReservedIds(r.pqueue)
        /\ Apart(r.pqueue)
    BY <2>2, <2>3, <2>5, <2>6, PushReserves
  <2>8. /\ GoodPQueue(r.pqueue)
        /\ r.pqueue.activeItemPosition = pq.activeItemPosition
        /\ r.status = PQNoError =>
             \A h \in Priorities :
               Listed(r.pqueue, h) = IF h = priority THEN Append(Listed(pq, priority), it)
                                                     ELSE Listed(pq, h)
    BY <2>2, <2>3, <2>5, PQPush DEF PQNoError
  <2>9. TypeOK' /\ QueuesGood' /\ NothingTwice'
    BY <1>2, <1>3, <2>4, <2>5, <2>7, <2>8, AsideTypes
       DEF IInv, QueuesGood, NothingTwice
  <2>10. CASE r.status # PQNoError
    BY <1>4, <2>4, <2>7, <2>10
  <2>11. CASE r.status = PQNoError
    <3>1. HandshakeKeeps'
      <4>1. pq.queueProductCount \in Nat
        BY <2>5, GoodCounts, SubQueueCountAssumption, PriorityCountAssumption
      <4>2. \A i \in 0 .. pq.queueProductCount - 1 : i \in 0 .. pq'.queueProductCount - 1
        BY <2>4, <2>7, <2>11, <4>1
      <4> QED
        BY <1>3, <2>4, <2>7, <4>2 DEF IInv, HandshakeKeeps, Aside, selection, device
    <3>2. ASSUME PriorityCount = 1, deviceRunning
          PROVE  /\ pq'.activeItemPosition = itemPositionP
                 /\ Listed(pq', 0)[itemPositionP + 1] = item
      <4>1. /\ pq.activeItemPosition = itemPositionP
            /\ Listed(pq, 0)[itemPositionP + 1] = item
            /\ itemPositionP \in 0 .. pq.queueProductCount - 1
        BY <3>2 DEF IInv, OneListKeeps, HandshakeKeeps
      <4>2. PICK s : s = Listed(pq, 0)
        OBVIOUS
      <4>3. priority = 0 /\ pq.queueProductCount = Len(s) /\ s \in Seq(Product)
        BY <2>5, <3>2, <4>2, OneList, GoodCounts
      <4>4. itemPositionP + 1 \in 1 .. Len(s)
        BY <4>1, <4>3
      <4>5. Listed(pq', 0) = Append(s, it)
        BY <2>4, <2>8, <2>11, <4>2, <4>3
      <4>6. Append(s, it)[itemPositionP + 1] = s[itemPositionP + 1]
        BY <2>2, <4>3, <4>4, AppendProperties
      <4> QED
        BY <2>4, <2>8, <4>1, <4>2, <4>5, <4>6
    <3>3. OneListKeeps'
      BY <3>2 DEF OneListKeeps, Aside, selection, device
    <3> QED
      BY <1>2, <2>9, <3>1, <3>3 DEF IInv
  <2> QED
    BY <2>10, <2>11
<1> QED
  BY <1>4, <1>5, Zenon DEF ReserveAction

LEMMA OfferKeepsIInv ==
  ASSUME IInv, Aside, NEW id \in Id \cup {noId}, NEW priority \in Priorities,
         NEW params \in Params, GetSupported(id, priority, params)
  PROVE  IInv'
<1>1. UNCHANGED <<pq, rq>> /\ outputPositionSr' \in Id \cup {noId}
  BY DEF GetSupported, IInv, TypeOK, SPTypeOK
<1>2. reply' = Reply("GetSupported", id, priority, "support",
                     CountUpTo(pq, priority), OfferedSupport(params))
  BY DEF GetSupported
<1>3. DOMAIN reply' = DOMAIN NoReply /\ OfferStands'
  BY <1>1, <1>2, ReplyFields DEF OfferStands
<1> QED
  BY <1>1, <1>3, AnswerKeepsIInv

LEMMA StatusKeepsIInv ==
  ASSUME IInv, Aside, NEW id \in Id \cup {noId}, GetStatus(id)
  PROVE  IInv'
<1>1. UNCHANGED <<pq, rq>> /\ outputPositionSr' \in Id \cup {noId}
  BY DEF GetStatus, IInv, TypeOK, SPTypeOK
<1>2. PICK t, o : reply' = Reply("GetStatus", id, 0, t, o, 0)
  BY Zenon DEF GetStatus, Answer
<1>3. DOMAIN reply' = DOMAIN NoReply /\ OfferStands'
  BY <1>2, NoOffer
<1> QED
  BY <1>1, <1>3, AnswerKeepsIInv

LEMMA PositionKeepsIInv ==
  ASSUME IInv, Aside, NEW id \in Id \cup {noId}, FreeFromPosition(id)
  PROVE  IInv'
<1>1. UNCHANGED <<pq, rq>> /\ outputPositionSr' \in Id \cup {noId}
  BY DEF FreeFromPosition, IInv, TypeOK, SPTypeOK
<1>2. PICK t : reply' = Reply("FreeFromPosition", id, 0, t, 0, 0)
  BY Zenon DEF FreeFromPosition, Answer
<1>3. DOMAIN reply' = DOMAIN NoReply /\ OfferStands'
  BY <1>2, NoOffer
<1> QED
  BY <1>1, <1>3, AnswerKeepsIInv

\* A position PQueue_find answers lies below the count, so it is the place of
\* some entry: one entry goes, perhaps not the one asked for.
LEMMA FreeKeepsIInv ==
  ASSUME NoneFreedInHandshake, IInv, Aside, NEW id \in Id \cup {noId}, FreeFromQueue(id)
  PROVE  IInv'
<1>1. PICK t : reply' = Reply("FreeFromQueue", id, 0, t, 0, 0)
  BY Zenon DEF FreeFromQueue, Answer
<1>2. DOMAIN reply' = DOMAIN NoReply /\ OfferStands'
  BY <1>1, NoOffer
<1>3. rq' = rq /\ outputPositionSr' \in Id \cup {noId}
  BY DEF FreeFromQueue, IInv, TypeOK, SPTypeOK
<1>4. ~ deviceRunning
  BY DEF FreeFromQueue, NoneFreedInHandshake, IInv, HandshakeKeeps
<1>5. CASE pq' = pq
  BY <1>2, <1>3, <1>5, AnswerKeepsIInv
<1>6. CASE PQueue_find(pq, id).found
           /\ pq' = PQueue_removeByPosition(pq, PQueue_find(pq, id).position).pqueue
  <2>1. PICK i : i = PQueue_find(pq, id).position
    OBVIOUS
  <2>2. GoodPQueue(pq) /\ GoodQueue(rq) /\ Distinct(Contents(rq)) /\ Apart(pq)
    BY DEF IInv, QueuesGood, NothingTwice
  <2>3. i \in 0 .. pq.queueProductCount - 1
    BY <1>6, <2>1, <2>2, PQFind
  <2>4. PICK p, k : Place(pq, p, k, i)
    BY <2>2, <2>3, PlaceIsFound
  <2>5. pq' = PQueue_removeByPosition(pq, i).pqueue
    BY <1>6, <2>1
  <2>6. PICK n : n = PQueue_removeByPosition(pq, i).pqueue
    OBVIOUS
  <2>7. GoodPQueue(n)
    BY <2>2, <2>4, <2>6, PQRemove
  <2>8. Apart(n)
    BY <2>2, <2>4, <2>6, RemoveFrees
  <2>9. TypeOK' /\ QueuesGood' /\ NothingTwice'
    BY <1>2, <1>3, <2>2, <2>5, <2>6, <2>7, <2>8, AsideTypes
       DEF IInv, QueuesGood, NothingTwice
  <2>10. HandshakeKeeps' /\ OneListKeeps'
    BY <1>4 DEF IInv, HandshakeKeeps, OneListKeeps, Aside, selection, device
  <2> QED
    BY <1>2, <2>9, <2>10 DEF IInv
<1> QED
  BY <1>5, <1>6, Zenon DEF FreeFromQueue

\* Every method keeps the invariant.
LEMMA CallKeepsIInv ==
  ASSUME NoneFreedInHandshake, IInv, MethodCall
  PROVE  IInv'
<1>1. Aside /\ Call
  BY DEF MethodCall, Aside
<1> QED
  BY <1>1, ReportKeepsIInv, ReserveKeepsIInv, OfferKeepsIInv, StatusKeepsIInv,
     FreeKeepsIInv, PositionKeepsIInv DEF Call

-----------------------------------------------------------------------------
\* An item and the two positions kept with it name one reserved and one
\* reported entry.
Names(i, position, positionRP) ==
  /\ \E p, k : Place(pq, p, k, position) /\ Listed(pq, p)[k + 1] = i
  /\ positionRP \in 0 .. rq.count - 1
  /\ Contents(rq)[positionRP + 1].id = i.id

\* CheckAction names the entries it finds, and finds some when there are any.
LEMMA CheckActionFinds ==
  ASSUME GoodPQueue(pq), GoodQueue(rq), NEW sel, sel = CheckAction
  PROVE  /\ sel.found \in BOOLEAN
         /\ sel.found => Names(sel.item, sel.p, sel.rp)
         /\ ~ sel.found => /\ sel.p = pq.queueProductCount /\ sel.rp = itemPositionRP
                           /\ sel.item = item \/ sel.item \in Product
         /\ (\E j \in 1 .. rq.count : Contents(rq)[j].id \in ReservedIds(pq)) => sel.found
<1> DEFINE total    == pq.queueProductCount
           entry(i) == PQueue_get(pq, i).item
           hits     == {i \in 0 .. total - 1 : Queue_find(rq, entry(i).id).found}
           first    == CHOOSE i \in hits : \A h \in hits : i <= h
<1>1. total \in Nat /\ hits \in SUBSET Nat
  BY GoodCounts, SubQueueCountAssumption, PriorityCountAssumption
<1>2. ASSUME NEW i \in 0 .. total - 1
      PROVE  \E p, k : Place(pq, p, k, i) /\ Listed(pq, p)[k + 1] = entry(i)
                         /\ entry(i) \in Product
  <2>1. PICK p, k : Place(pq, p, k, i)
    BY PlaceIsFound
  <2> QED
    BY <2>1, PQGetPlace
<1>3. CASE hits # {}
  <2>1. first \in hits
    BY <1>1, <1>3, LeastNumber
  <2>2. sel = [found |-> TRUE, item |-> entry(first),
               rp |-> Queue_find(rq, entry(first).id).position, p |-> first]
    BY <1>3 DEF CheckAction
  <2>3. PICK i : i = first
    OBVIOUS
  <2>4. PICK e : e = entry(i)
    OBVIOUS
  <2>5. i \in 0 .. total - 1 /\ Queue_find(rq, e.id).found
    BY <2>1, <2>3, <2>4
  <2>6. sel.found = TRUE /\ sel.item = e /\ sel.p = i /\ sel.rp = Queue_find(rq, e.id).position
    <3> HIDE DEF total, entry, hits, first
    <3>1. /\ sel.found = TRUE /\ sel.p = first /\ sel.item = entry(first)
          /\ sel.rp = Queue_find(rq, entry(first).id).position
      BY <2>2
    <3> QED
      BY <2>3, <2>4, <3>1
  <2>7. sel.rp \in 0 .. rq.count - 1 /\ Contents(rq)[sel.rp + 1].id = e.id
    BY <2>5, <2>6, FindContents
  <2>8. \E p, k : Place(pq, p, k, i) /\ Listed(pq, p)[k + 1] = e
    BY <1>2, <2>4, <2>5
  <2> QED
    BY <2>6, <2>7, <2>8 DEF Names
<1>4. CASE hits = {}
  <2>1. sel = [found |-> FALSE, rp |-> itemPositionRP, p |-> total,
               item |-> IF total = 0 THEN item ELSE entry(total - 1)]
    BY <1>4 DEF CheckAction
  <2>2. total # 0 => entry(total - 1) \in Product
    <3>1. total # 0 => total - 1 \in 0 .. total - 1
      BY <1>1
    <3> QED
      BY <1>2, <3>1
  <2>3. ~ \E j \in 1 .. rq.count : Contents(rq)[j].id \in ReservedIds(pq)
    <3>1. ASSUME NEW j \in 1 .. rq.count, Contents(rq)[j].id \in ReservedIds(pq)
          PROVE  FALSE
      <4>1. PICK p \in Priorities : \E k \in 1 .. Len(Listed(pq, p)) :
                     Listed(pq, p)[k].id = Contents(rq)[j].id
        BY <3>1, ReservedByPlace
      <4>2. PICK k \in 1 .. Len(Listed(pq, p)) : Listed(pq, p)[k].id = Contents(rq)[j].id
        BY <4>1
      <4>3. PICK i : i = CountUpTo(pq, p - 1) + (k - 1)
        OBVIOUS
      <4>4. Place(pq, p, k - 1, i) /\ (k - 1) + 1 = k
        BY <4>3, GoodCounts, SubQueueCountAssumption DEF Place
      <4>5. i \in 0 .. total - 1 /\ entry(i) = Listed(pq, p)[k]
        BY <4>4, PlaceIsUnique, PQGetPlace
      <4>6. PICK id : id = Contents(rq)[j].id
        OBVIOUS
      <4>7. Queue_find(rq, id).found
        BY <4>6, FindContents
      <4>8. i \in hits
        BY <4>2, <4>5, <4>6, <4>7
      <4> QED
        BY <1>4, <4>8
    <3> QED
      BY <3>1
  <2>4. /\ sel.found = FALSE /\ sel.rp = itemPositionRP /\ sel.p = total
        /\ sel.item = IF total = 0 THEN item ELSE entry(total - 1)
    BY <2>1
  <2> QED
    BY <2>2, <2>3, <2>4
<1> QED
  BY <1>3, <1>4

\* What DeviceSlow is called with: a valid item is reserved and reported, its
\* positions are positions of the queues, and an item it runs is still valid.
Picked(sel) ==
  /\ sel.found \in BOOLEAN
  /\ sel.item \in Product \cup {emptyItem} /\ sel.rp \in Slots
  /\ sel.p \in 0 .. PriorityCount * SubQueueCount
  /\ deviceRunning => sel.found
  /\ sel.found =>
       /\ SelectWhile # {TRUE}
       /\ sel.item.id \in ReservedIds(pq)
       /\ sel.p \in 0 .. pq.queueProductCount - 1
       /\ sel.rp \in 0 .. rq.count - 1
       /\ Contents(rq)[sel.rp + 1].id = sel.item.id
  /\ sel.found /\ (TRUE \in SelectWhile \/ PriorityCount = 1) =>
       \E p, k : Place(pq, p, k, sel.p) /\ Listed(pq, p)[k + 1] = sel.item

LEMMA SelectedIsPicked ==
  ASSUME IInv, NEW sel, sel = Selected
  PROVE  Picked(sel)
<1>1. /\ GoodPQueue(pq) /\ GoodQueue(rq) /\ HandshakeKeeps /\ OneListKeeps
      /\ item \in Product \cup {emptyItem} /\ itemPositionRP \in Slots
      /\ itemPositionP \in 0 .. PriorityCount * SubQueueCount
      /\ isFoundItem \in BOOLEAN /\ deviceRunning \in BOOLEAN
  BY DEF IInv, QueuesGood, TypeOK
<1>2. CASE deviceRunning \in SelectWhile
  <2>1. sel = CheckAction
    BY <1>2 DEF Selected
  <2>2. /\ sel.found \in BOOLEAN
        /\ sel.found => Names(sel.item, sel.p, sel.rp)
        /\ ~ sel.found => /\ sel.p = pq.queueProductCount /\ sel.rp = itemPositionRP
                          /\ sel.item = item \/ sel.item \in Product
        /\ (\E j \in 1 .. rq.count : Contents(rq)[j].id \in ReservedIds(pq)) => sel.found
    BY <1>1, <2>1, CheckActionFinds
  <2>3. deviceRunning => sel.found
    <3>1. ASSUME deviceRunning
          PROVE  \E j \in 1 .. rq.count : Contents(rq)[j].id \in ReservedIds(pq)
      <4>1. /\ item.id \in ReservedIds(pq) /\ itemPositionRP \in 0 .. rq.count - 1
            /\ Contents(rq)[itemPositionRP + 1].id = item.id
        BY <1>1, <3>1 DEF HandshakeKeeps
      <4>2. itemPositionRP + 1 \in 1 .. rq.count
        BY <1>1, <4>1, ContentsProperties, SubQueueCountAssumption
      <4> QED
        BY <4>1, <4>2
    <3> QED
      BY <2>2, <3>1
  <2>4. ASSUME sel.found
        PROVE  /\ SelectWhile # {TRUE} /\ sel.item \in Product
               /\ sel.item.id \in ReservedIds(pq)
               /\ sel.p \in 0 .. pq.queueProductCount - 1
               /\ sel.rp \in 0 .. rq.count - 1
               /\ Contents(rq)[sel.rp + 1].id = sel.item.id
               /\ \E p, k : Place(pq, p, k, sel.p) /\ Listed(pq, p)[k + 1] = sel.item
    <3>1. PICK p, k : Place(pq, p, k, sel.p) /\ Listed(pq, p)[k + 1] = sel.item
      BY <2>2, <2>4 DEF Names
    <3>2. p \in Priorities /\ k + 1 \in 1 .. Len(Listed(pq, p))
      BY <1>1, <3>1, GoodCounts, SubQueueCountAssumption DEF Place
    <3>3. sel.item.id \in ReservedIds(pq)
      BY <1>1, <3>1, <3>2, ReservedByPlace
    <3>4. sel.item \in Product /\ sel.p \in 0 .. pq.queueProductCount - 1
      BY <1>1, <3>1, PQGetPlace, PlaceIsUnique
    <3>5. SelectWhile # {TRUE}
      BY <1>1, <1>2 DEF HandshakeKeeps
    <3> QED
      BY <2>2, <2>4, <3>1, <3>3, <3>4, <3>5 DEF Names
  <2>5. sel.item \in Product \cup {emptyItem}
    BY <1>1, <2>2, <2>4
  <2>6. sel.rp \in Slots /\ sel.p \in 0 .. PriorityCount * SubQueueCount
    <3>1. /\ rq.count \in 0 .. SubQueueCount
          /\ pq.queueProductCount \in 0 .. PriorityCount * SubQueueCount
          /\ PriorityCount * SubQueueCount \in Nat
      BY <1>1, ContentsProperties, GoodCounts, SubQueueCountAssumption,
         PriorityCountAssumption
    <3>2. CASE sel.found
      BY <2>4, <3>1, <3>2, SubQueueCountAssumption DEF Slots, SubQueueCountSmall
    <3>3. CASE ~ sel.found
      BY <1>1, <2>2, <3>1, <3>3
    <3> QED
      BY <3>2, <3>3
  <2> QED
    BY <2>2, <2>3, <2>4, <2>5, <2>6 DEF Picked
<1>3. CASE deviceRunning \notin SelectWhile
  <2>1. sel = [found |-> isFoundItem, item |-> item,
               rp |-> itemPositionRP, p |-> itemPositionP]
    BY <1>3 DEF Selected
  <2>2. sel.found = isFoundItem /\ sel.item = item /\ sel.rp = itemPositionRP
        /\ sel.p = itemPositionP
    BY <2>1
  <2>3. isFoundItem = deviceRunning
    BY <1>1 DEF HandshakeKeeps
  <2>4. ASSUME deviceRunning, TRUE \in SelectWhile \/ PriorityCount = 1
        PROVE  \E p, k : Place(pq, p, k, sel.p) /\ Listed(pq, p)[k + 1] = sel.item
    <3>1. PriorityCount = 1
      BY <1>1, <1>3, <2>4
    <3>2. itemPositionP \in 0 .. pq.queueProductCount - 1
      BY <1>1, <2>4 DEF HandshakeKeeps
    <3>3. Place(pq, 0, itemPositionP, itemPositionP)
      BY <1>1, <3>1, <3>2, OneList
    <3>4. Listed(pq, 0)[itemPositionP + 1] = item
      BY <1>1, <2>4, <3>1 DEF OneListKeeps
    <3> QED
      BY <2>2, <3>3, <3>4
  <2>5. ASSUME sel.found
        PROVE  /\ SelectWhile # {TRUE} /\ sel.item.id \in ReservedIds(pq)
               /\ sel.p \in 0 .. pq.queueProductCount - 1
               /\ sel.rp \in 0 .. rq.count - 1
               /\ Contents(rq)[sel.rp + 1].id = sel.item.id
    <3>1. deviceRunning
      BY <2>2, <2>3, <2>5
    <3>2. /\ SelectWhile # {TRUE} /\ item.id \in ReservedIds(pq)
          /\ itemPositionP \in 0 .. pq.queueProductCount - 1
          /\ itemPositionRP \in 0 .. rq.count - 1
          /\ Contents(rq)[itemPositionRP + 1].id = item.id
      BY <1>1, <3>1 DEF HandshakeKeeps
    <3> QED
      BY <2>2, <3>2
  <2>6. sel.found \in BOOLEAN /\ sel.item \in Product \cup {emptyItem}
        /\ sel.rp \in Slots /\ sel.p \in 0 .. PriorityCount * SubQueueCount
    BY <1>1, <2>2
  <2>7. deviceRunning <=> sel.found
    BY <2>2, <2>3
  <2> QED
    BY <2>4, <2>5, <2>6, <2>7, Zenon DEF Picked
<1> QED
  BY <1>2, <1>3

-----------------------------------------------------------------------------
\* The ids of a list.
Ids(items) == {x.id : x \in ToSet(items)}

LEMMA IdsOf ==
  ASSUME NEW s
  PROVE  \A id : id \in Ids(s) <=> \E j \in DOMAIN s : s[j].id = id
BY DEF Ids, ToSet

LEMMA RemovedIds ==
  ASSUME NEW s \in Seq(Product), Distinct(s), NEW k \in 1 .. Len(s)
  PROVE  Ids(RemoveAt(s, k)) = Ids(s) \ {s[k].id}
<1>1. PICK r : r = RemoveAt(s, k)
  OBVIOUS
<1>2. DOMAIN s = 1 .. Len(s) /\ DOMAIN r = 1 .. Len(s) - 1
  BY <1>1, RemoveAtIndices, LenProperties
<1>3. \A j \in 1 .. Len(s) - 1 : \E m \in 1 .. Len(s) : m # k /\ r[j] = s[m]
  <2>1. ASSUME NEW j \in 1 .. Len(s) - 1
        PROVE  \E m \in 1 .. Len(s) : m # k /\ r[j] = s[m]
    BY <1>1, RemoveAtIndices
  <2> QED
    BY <2>1
<1>4. \A m \in 1 .. Len(s) : m # k => \E j \in 1 .. Len(s) - 1 : r[j] = s[m]
  BY <1>1, RemoveAtIndices, ZenonT(60)
<1>5. ASSUME NEW id, id \in Ids(r) PROVE id \in Ids(s) /\ id # s[k].id
  <2>1. PICK j \in 1 .. Len(s) - 1 : r[j].id = id
    BY <1>2, <1>5, IdsOf
  <2>2. PICK m \in 1 .. Len(s) : m # k /\ r[j] = s[m]
    BY <1>3
  <2>3. s[m].id # s[k].id
    BY <1>2, <2>2 DEF Distinct
  <2> QED
    BY <1>2, <2>1, <2>2, <2>3, IdsOf
<1>6. ASSUME NEW id, id \in Ids(s), id # s[k].id PROVE id \in Ids(r)
  <2>1. PICK m \in 1 .. Len(s) : s[m].id = id
    BY <1>2, <1>6, IdsOf
  <2>2. PICK j \in 1 .. Len(s) - 1 : r[j] = s[m]
    BY <1>4, <1>6, <2>1
  <2> QED
    BY <1>2, <2>1, <2>2, IdsOf
<1>7. \A id : id \in Ids(r) <=> id \in Ids(s) /\ id # s[k].id
  BY <1>5, <1>6
<1> QED
  BY <1>1, <1>7

\* The history keeps its length, and its newest id is the last.
Histories == [1 .. HistoryLength -> Id \cup {noId}]

LEMMA HistoryShifts ==
  \A h \in Histories, x \in Id \cup {noId} :
    /\ Append(Tail(h), x) \in Histories
    /\ Append(Tail(h), x)[HistoryLength] = x
<1> TAKE h \in Histories, x \in Id \cup {noId}
<1> DEFINE S == Id \cup {noId}
<1>0. h \in [1 .. HistoryLength -> S] /\ x \in S
  BY DEF Histories
<1> HIDE DEF S
<1>1. /\ h \in Seq(S) /\ Len(h) = HistoryLength /\ h # <<>>
      /\ HistoryLength \in Nat /\ HistoryLength >= 1
  <2>1. HistoryLength \in Nat /\ HistoryLength >= 1
    BY HistoryLengthAssumption
  <2>2. h \in Seq(S)
    BY <1>0, <2>1, SeqDef
  <2>3. Len(h) = HistoryLength
    BY <1>0, <2>1, <2>2, LenProperties
  <2> QED
    BY <2>1, <2>2, <2>3, EmptySeq
<1>2. Tail(h) \in Seq(S) /\ Len(Tail(h)) = HistoryLength - 1
  BY <1>1, HeadTailProperties
<1>3. PICK t : t = Tail(h)
  OBVIOUS
<1>4. /\ Append(t, x) \in Seq(S) /\ Len(Append(t, x)) = HistoryLength
      /\ Append(t, x)[HistoryLength] = x
  <2>1. t \in Seq(S) /\ Len(t) = HistoryLength - 1 /\ (HistoryLength - 1) + 1 = HistoryLength
    BY <1>1, <1>2, <1>3
  <2> QED
    BY <1>0, <2>1, AppendProperties
<1>5. Append(t, x) \in [1 .. HistoryLength -> S]
  BY <1>4, LenProperties, ElementOfSeq
<1> QED
  BY <1>3, <1>4, <1>5 DEF Histories, S

LEMMA ConcludeFields ==
  ASSUME NEW sel, NEW running, Conclude(sel, running)
  PROVE  /\ deviceRunning' = running /\ item' = sel.item /\ itemPositionRP' = sel.rp
         /\ itemPositionP' = sel.p /\ reply' = NoReply
         /\ deviceRunning /\ ~ running =>
              /\ rq' = Queue_remove(rq, sel.rp).queue
              /\ history' = Append(Tail(history), sel.item.id)
              /\ pq' = [PQueue_removeByPosition(pq, sel.p).pqueue
                          EXCEPT !.activeItemPosition = -1]
         /\ ~ (deviceRunning /\ ~ running) =>
              /\ rq' = rq /\ history' = history
              /\ pq' = [pq EXCEPT !.activeItemPosition = PublishedPosition(sel, running)]
<1>1. CASE deviceRunning /\ ~ running
  BY <1>1 DEF Conclude, RemoveFinishedProduct, PublishedPosition
<1>2. CASE ~ (deviceRunning /\ ~ running)
  BY <1>2 DEF Conclude
<1> QED
  BY <1>1, <1>2 DEF Conclude

\* The falling edge takes one entry out of each queue: the reported one is the
\* device's product, and the reserved one too when the position is its place.
LEMMA RemovalTakesOut ==
  ASSUME IInv, NEW sel, Picked(sel), deviceRunning, Conclude(sel, FALSE)
  PROVE  /\ GoodPQueue(pq') /\ GoodQueue(rq')
         /\ Apart(pq') /\ Distinct(Contents(rq'))
         /\ rq.count = rq'.count + 1
         /\ Ids(Contents(rq')) = Ids(Contents(rq)) \ {sel.item.id}
         /\ (\E p, k : Place(pq, p, k, sel.p) /\ Listed(pq, p)[k + 1] = sel.item) =>
              ReservedIds(pq') = ReservedIds(pq) \ {sel.item.id}
<1>1. /\ GoodPQueue(pq) /\ GoodQueue(rq) /\ Distinct(Contents(rq)) /\ Apart(pq)
      /\ sel.p \in 0 .. pq.queueProductCount - 1
      /\ sel.rp \in 0 .. rq.count - 1
      /\ Contents(rq)[sel.rp + 1].id = sel.item.id
  BY DEF IInv, QueuesGood, NothingTwice, Picked
<1>2. PICK i, j : i = sel.p /\ j = sel.rp
  OBVIOUS
<1>3. PICK n : n = PQueue_removeByPosition(pq, i).pqueue
  OBVIOUS
<1>4. /\ rq' = Queue_remove(rq, j).queue
      /\ pq' = [n EXCEPT !.activeItemPosition = -1]
  BY <1>2, <1>3, ConcludeFields
<1>5. /\ GoodQueue(rq') /\ Distinct(Contents(rq')) /\ rq.count = rq'.count + 1
      /\ Ids(Contents(rq')) = Ids(Contents(rq)) \ {sel.item.id}
  <2>1. /\ Contents(rq) \in Seq(Product) /\ Len(Contents(rq)) = rq.count
        /\ rq.count \in Nat /\ rq.count > 0 /\ j \in 0 .. rq.count - 1
    BY <1>1, <1>2, ContentsProperties, SubQueueCountAssumption
  <2>2. PICK s, r : s = Contents(rq) /\ r = Queue_remove(rq, j).queue
    OBVIOUS
  <2>3. GoodQueue(r) /\ Contents(r) = RemoveAt(s, j + 1) /\ r.count = rq.count - 1
    BY <1>1, <2>1, <2>2, RemoveGood, RemoveContents
  <2>4. s \in Seq(Product) /\ Distinct(s) /\ j + 1 \in 1 .. Len(s) /\ s[j + 1].id = sel.item.id
    BY <1>1, <1>2, <2>1, <2>2
  <2>5. Distinct(RemoveAt(s, j + 1)) /\ Ids(RemoveAt(s, j + 1)) = Ids(s) \ {sel.item.id}
    BY <2>4, RemoveDistinct, RemovedIds
  <2> QED
    BY <1>4, <2>1, <2>2, <2>3, <2>5
<1>6. PICK p, k :
        /\ Place(pq, p, k, i)
        /\ (\E m, h : Place(pq, m, h, i) /\ Listed(pq, m)[h + 1] = sel.item) =>
             Listed(pq, p)[k + 1] = sel.item
  BY <1>1, <1>2, PlaceIsFound
<1>7. /\ GoodPQueue(n) /\ Apart(n)
      /\ \A id : id \in ReservedIds(n) <=>
                   id \in ReservedIds(pq) /\ id # Listed(pq, p)[k + 1].id
  BY <1>1, <1>3, <1>6, PQRemove, RemoveFrees
<1>8. PICK q : q = [n EXCEPT !.activeItemPosition = -1]
  OBVIOUS
<1>9. GoodPQueue(q) /\ \A h \in Priorities : Listed(q, h) = Listed(n, h)
  <2>1. -1 \in -1 .. PriorityCount * SubQueueCount
    BY PriorityCountAssumption, SubQueueCountAssumption
  <2> QED
    BY <1>7, <1>8, <2>1, ActiveOnly
<1>10. Apart(q) /\ \A id : id \in ReservedIds(q) <=> id \in ReservedIds(n)
  <2>1. Apart(q)
    BY <1>7, <1>9 DEF Apart
  <2> QED
    BY <1>7, <1>9, <2>1, ReservedByPlace
<1>11. (\E m, h : Place(pq, m, h, i) /\ Listed(pq, m)[h + 1] = sel.item) =>
         ReservedIds(q) = ReservedIds(pq) \ {sel.item.id}
  BY <1>6, <1>7, <1>10
<1> QED
  BY <1>2, <1>4, <1>5, <1>8, <1>9, <1>10, <1>11

\* In every other cycle only the published position changes.
LEMMA QueuesStay ==
  ASSUME IInv, NEW sel, Picked(sel), NEW running \in BOOLEAN,
         running => sel.found, ~ (deviceRunning /\ ~ running), Conclude(sel, running)
  PROVE  /\ rq' = rq /\ GoodPQueue(pq')
         /\ pq'.queueProductCount = pq.queueProductCount
         /\ running => pq'.activeItemPosition = sel.p
         /\ \A p \in Priorities : Listed(pq', p) = Listed(pq, p)
         /\ \A id : id \in ReservedIds(pq') <=> id \in ReservedIds(pq)
<1>1. PICK a : a = PublishedPosition(sel, running)
  OBVIOUS
<1>2. PICK q : q = [pq EXCEPT !.activeItemPosition = a]
  OBVIOUS
<1>3. rq' = rq /\ pq' = q
  BY <1>1, <1>2, ConcludeFields
<1>4. a \in -1 .. PriorityCount * SubQueueCount /\ (running => a = sel.p)
  BY <1>1, PriorityCountAssumption, SubQueueCountAssumption DEF PublishedPosition, Picked
<1>5. GoodPQueue(pq)
  BY DEF IInv, QueuesGood
<1>6. /\ GoodPQueue(q) /\ q.activeItemPosition = a
      /\ q.queueProductCount = pq.queueProductCount
      /\ \A p \in Priorities : Listed(q, p) = Listed(pq, p)
  BY <1>2, <1>4, <1>5, ActiveOnly
<1>7. \A id : id \in ReservedIds(q) <=> id \in ReservedIds(pq)
  BY <1>5, <1>6, ReservedByPlace
<1> QED
  BY <1>3, <1>4, <1>6, <1>7

\* What DeviceSlow sets besides the outputs the cycle works with.
DriveTypes ==
  /\ seqState \in SeqStates /\ cmd \in Commands /\ timerRunning \in BOOLEAN
  /\ cmdProductID \in Id \cup {noId} /\ outputPositionSr \in Id \cup {noId}
  /\ actionStatus \in {"idle", "inProgress", "failed"}

LEMMA PickedId ==
  ASSUME NEW sel, Picked(sel)
  PROVE  sel.item.id \in Id \cup {noId}
<1>1. sel.item \in Product \cup {emptyItem}
  BY DEF Picked
<1>2. CASE sel.item \in Product
  BY <1>2, ItemAssumption
<1>3. CASE sel.item = emptyItem
  BY <1>3, ItemAssumption
<1> QED
  BY <1>1, <1>2, <1>3

\* Each branch runs on with a valid item, or stops and leaves none.
LEMMA DeviceDrives ==
  ASSUME IInv, NEW sel, Picked(sel), DeviceSlow(sel)
  PROVE  /\ DriveTypes'
         /\ \/ Conclude(sel, TRUE) /\ isFoundItem' = TRUE /\ sel.found
            \/ Conclude(sel, FALSE) /\ isFoundItem' = FALSE
<1>1. DriveTypes
  BY DEF IInv, TypeOK, SPTypeOK, DriveTypes
<1>2. /\ {0, 10, 20, 30, 40, 70, 80, 100} \subseteq SeqStates
      /\ {"none", "SetReady", "Start", "ResetDone"} \subseteq Commands
  BY DEF SeqStates, Commands, Waiting
<1>3. sel.item.id \in Id \cup {noId}
  BY PickedId
<1>4. ASSUME KeepIdle(sel) \/ RejectItem(sel)
      PROVE  DriveTypes' /\ Conclude(sel, FALSE) /\ isFoundItem' = FALSE
  BY <1>1, <1>2, <1>4 DEF KeepIdle, RejectItem, Drive, DriveTypes
<1>5. ASSUME NEW states, InStep(sel, states)
      PROVE  timerRunning' \in BOOLEAN /\ sel.found
  <2>1. timerRunning' = (seqState \in Waiting) /\ sel.found
    BY <1>5 DEF InStep
  <2>2. (seqState \in Waiting) \in BOOLEAN
    OBVIOUS
  <2> QED
    BY <2>1, <2>2, Zenon
<1>6. ASSUME Announce(sel)
      PROVE  DriveTypes' /\ Conclude(sel, TRUE) /\ isFoundItem' = TRUE /\ sel.found
  <2>1. timerRunning' \in BOOLEAN /\ sel.found
    BY <1>5, <1>6 DEF Announce
  <2> QED
    BY <1>1, <1>2, <1>3, <1>6, <2>1 DEF Announce, Drive, DriveTypes
<1>7. ASSUME PulseSetReady(sel) \/ PulseStart(sel)
      PROVE  DriveTypes' /\ Conclude(sel, TRUE) /\ isFoundItem' = TRUE /\ sel.found
  <2>1. timerRunning' \in BOOLEAN /\ sel.found
    BY <1>5, <1>7 DEF PulseSetReady, PulseStart
  <2>2. CASE PulseSetReady(sel)
    BY <1>1, <1>2, <2>1, <2>2 DEF PulseSetReady, Drive, DriveTypes
  <2>3. CASE PulseStart(sel)
    BY <1>1, <1>2, <2>1, <2>3 DEF PulseStart, Drive, DriveTypes
  <2> QED
    BY <1>7, <2>2, <2>3
<1>8. ASSUME NEW answered \in BOOLEAN, NEW failing \in BOOLEAN, NEW expired \in BOOLEAN,
             Await(sel, answered, failing, expired)
      PROVE  DriveTypes' /\ Conclude(sel, TRUE) /\ isFoundItem' = TRUE /\ sel.found
  <2>1. timerRunning' \in BOOLEAN /\ sel.found /\ seqState \in Waiting
    BY <1>5, <1>8 DEF Await, InStep
  <2>2. Answered[seqState] \in SeqStates
    BY <2>1 DEF Answered, SeqStates, Waiting
  <2>3. PICK state : /\ Drive(sel, state, "none", actionStatus, TRUE, TRUE)
                     /\ state = IF answered THEN Answered[seqState]
                                ELSE IF failing \/ expired THEN 100 ELSE seqState
    BY <1>8 DEF Await
  <2>4. state \in SeqStates
    BY <1>1, <1>2, <2>2, <2>3 DEF DriveTypes
  <2> QED
    BY <1>1, <1>2, <1>8, <2>1, <2>3, <2>4 DEF Await, Drive, DriveTypes
<1>9. ASSUME PulseResetDone(sel)
      PROVE  DriveTypes' /\ Conclude(sel, TRUE) /\ isFoundItem' = TRUE /\ sel.found
  <2>1. timerRunning' \in BOOLEAN /\ sel.found
    BY <1>5, <1>9 DEF PulseResetDone
  <2> QED
    BY <1>1, <1>2, <1>3, <1>9, <2>1 DEF PulseResetDone, Drive, DriveTypes
<1>10. ASSUME Complete(sel) \/ Fail(sel)
       PROVE  DriveTypes' /\ Conclude(sel, FALSE) /\ isFoundItem' = FALSE
  <2>1. timerRunning' \in BOOLEAN
    BY <1>5, <1>10 DEF Complete, Fail
  <2> QED
    BY <1>1, <1>2, <1>10, <2>1 DEF Complete, Fail, Drive, DriveTypes
<1> QED
  BY <1>4, <1>6, <1>7, <1>8, <1>9, <1>10 DEF DeviceSlow

\* A cycle keeps the invariant, whichever way the machine answers.
LEMMA ScanKeepsIInv ==
  ASSUME IInv, Scan
  PROVE  IInv'
<1>1. PICK sel : sel = Selected /\ DeviceSlow(sel)
  BY DEF Scan
<1>2. Picked(sel)
  BY <1>1, SelectedIsPicked
<1>3. /\ GoodPQueue(pq) /\ GoodQueue(rq) /\ Distinct(Contents(rq)) /\ Apart(pq)
      /\ history \in Histories
  BY DEF IInv, QueuesGood, NothingTwice, TypeOK, Histories
<1>4. DriveTypes'
  BY <1>1, <1>2, DeviceDrives
<1>5. ASSUME NEW running \in BOOLEAN, Conclude(sel, running), isFoundItem' = running,
             running => sel.found
      PROVE  IInv'
  <2>1. /\ deviceRunning' = running /\ item' = sel.item /\ itemPositionRP' = sel.rp
        /\ itemPositionP' = sel.p /\ reply' = NoReply
    BY <1>5, ConcludeFields
  <2>2. OfferStands' /\ DOMAIN reply' = DOMAIN NoReply
    BY <2>1, ReplyFields DEF OfferStands, NoReply
  <2>3. ASSUME GoodPQueue(pq'), GoodQueue(rq'), history' \in Histories
        PROVE  TypeOK'
    <3>1. SPTypeOK'
      BY <1>4, <2>2, <2>3 DEF SPTypeOK, DriveTypes, GoodPQueue, GoodQueue
    <3>2. /\ item' \in Product \cup {emptyItem} /\ itemPositionRP' \in Slots
          /\ itemPositionP' \in 0 .. PriorityCount * SubQueueCount
      BY <1>2, <2>1 DEF Picked
    <3>3. isFoundItem' \in BOOLEAN /\ deviceRunning' \in BOOLEAN
      BY <1>5, <2>1, Zenon
    <3> QED
      BY <1>4, <2>3, <3>1, <3>2, <3>3 DEF TypeOK, DriveTypes, Histories
  <2>4. CASE deviceRunning /\ ~ running
    <3>1. Conclude(sel, FALSE) /\ ~ deviceRunning' /\ ~ isFoundItem'
      BY <1>5, <2>1, <2>4
    <3>2. /\ GoodPQueue(pq') /\ GoodQueue(rq')
          /\ Apart(pq') /\ Distinct(Contents(rq'))
      BY <1>2, <2>4, <3>1, RemovalTakesOut
    <3>3. history' \in Histories
      <4>1. history' = Append(Tail(history), sel.item.id)
        BY <2>4, <3>1, ConcludeFields
      <4>2. sel.item.id \in Id \cup {noId}
        BY <1>2, PickedId
      <4> QED
        BY <1>3, <4>1, <4>2, HistoryShifts
    <3>4. HandshakeKeeps'
      <4>1. isFoundItem' = deviceRunning'
        BY <1>5, <2>1
      <4> QED
        BY <3>1, <4>1, Zenon DEF HandshakeKeeps
    <3>5. OneListKeeps'
      BY <3>1 DEF OneListKeeps
    <3> QED
      BY <2>2, <2>3, <3>2, <3>3, <3>4, <3>5 DEF IInv, QueuesGood, NothingTwice
  <2>5. CASE ~ (deviceRunning /\ ~ running)
    <3>1. /\ rq' = rq /\ GoodPQueue(pq')
          /\ pq'.queueProductCount = pq.queueProductCount
          /\ running => pq'.activeItemPosition = sel.p
          /\ \A p \in Priorities : Listed(pq', p) = Listed(pq, p)
          /\ \A id : id \in ReservedIds(pq') <=> id \in ReservedIds(pq)
      BY <1>2, <1>5, <2>5, QueuesStay
    <3>2. history' = history
      BY <1>5, <2>5, ConcludeFields
    <3>3. TypeOK' /\ QueuesGood'
      BY <1>3, <2>3, <3>1, <3>2 DEF QueuesGood
    <3>4. NothingTwice'
      BY <1>3, <3>1 DEF NothingTwice, Apart
    <3>5. ASSUME running
          PROVE  /\ SelectWhile # {TRUE}
                 /\ sel.item.id \in ReservedIds(pq')
                 /\ sel.p \in 0 .. pq'.queueProductCount - 1
                 /\ sel.rp \in 0 .. rq'.count - 1
                 /\ Contents(rq')[sel.rp + 1].id = sel.item.id
      BY <1>2, <1>5, <3>1, <3>5 DEF Picked
    <3>6. HandshakeKeeps'
      BY <1>5, <2>1, <3>5, Zenon DEF HandshakeKeeps
    <3>7. ASSUME PriorityCount = 1, running
          PROVE  pq'.activeItemPosition = sel.p /\ Listed(pq', 0)[sel.p + 1] = sel.item
      <4>1. PICK p, k : Place(pq, p, k, sel.p) /\ Listed(pq, p)[k + 1] = sel.item
        BY <1>2, <1>5, <3>7 DEF Picked
      <4>2. sel.p \in 0 .. pq.queueProductCount - 1
        BY <1>2, <1>5, <3>7 DEF Picked
      <4>3. Place(pq, 0, sel.p, sel.p)
        BY <1>3, <3>7, <4>2, OneList
      <4>4. p = 0 /\ k = sel.p
        BY <1>3, <4>1, <4>3, PlaceIsUnique
      <4>5. 0 \in Priorities
        BY PrioritiesProperties
      <4> QED
        BY <3>1, <3>7, <4>1, <4>4, <4>5
    <3>8. OneListKeeps'
      BY <2>1, <3>7 DEF OneListKeeps
    <3> QED
      BY <2>2, <3>3, <3>4, <3>6, <3>8 DEF IInv
  <2> QED
    BY <2>4, <2>5
<1>6. CASE Conclude(sel, TRUE) /\ isFoundItem' = TRUE /\ sel.found
  BY <1>5, <1>6
<1>7. CASE Conclude(sel, FALSE) /\ isFoundItem' = FALSE
  BY <1>5, <1>7
<1> QED
  BY <1>1, <1>2, <1>6, <1>7, DeviceDrives

-----------------------------------------------------------------------------
\* The invariant is inductive.
LEMMA PlcInvariant ==
  ASSUME NoneFreedInHandshake
  PROVE  Spec => []IInv
<1>1. Init => IInv
  BY InitIInv
<1>2. IInv /\ [Next]_vars => IInv'
  <2> SUFFICES ASSUME IInv, [Next]_vars PROVE IInv'
    OBVIOUS
  <2>1. CASE Scan
    BY <2>1, ScanKeepsIInv
  <2>2. CASE MethodCall
    BY <2>2, CallKeepsIInv
  <2>3. CASE UNCHANGED vars
    <3>1. Aside /\ UNCHANGED <<pq, rq, outputPositionSr, reply>>
      BY <2>3 DEF vars, spVars, Aside
    <3>2. /\ outputPositionSr' \in Id \cup {noId} /\ DOMAIN reply' = DOMAIN NoReply
          /\ OfferStands'
      BY <3>1 DEF IInv, TypeOK, SPTypeOK, OfferStands
    <3> QED
      BY <3>1, <3>2, AnswerKeepsIInv
  <2> QED
    BY <2>1, <2>2, <2>3 DEF Next
<1> QED
  BY <1>1, <1>2, PTL DEF Spec

\* Every variable of the PLC keeps to its type: the positions kept over the
\* cycles, the step of the handshake, the indices and counters of the queues.
THEOREM PlcTypeCorrect ==
  ASSUME NoneFreedInHandshake
  PROVE  Spec => []TypeOK
<1>1. Spec => []IInv
  BY PlcInvariant
<1>2. IInv => TypeOK
  BY DEF IInv
<1> QED
  BY <1>1, <1>2, PTL

\* Whatever clients call and whatever the machine answers, the rings of both
\* queues stay well formed and the counters and flags beside them repeat what
\* they hold.
THEOREM PlcQueuesConsistent ==
  ASSUME NoneFreedInHandshake
  PROVE  Spec => []QueuesConsistent
<1>1. Spec => []IInv
  BY PlcInvariant
<1>2. IInv => QueuesConsistent
  BY DEF IInv, QueuesGood, GoodPQueue, GoodQueue, QueuesConsistent
<1> QED
  BY <1>1, <1>2, PTL

\* A product is never reported twice, nor reserved twice over all priorities.
THEOREM PlcNoDoubleEntry ==
  ASSUME NoneFreedInHandshake
  PROVE  Spec => []NoDoubleEntry
<1>1. Spec => []IInv
  BY PlcInvariant
<1>2. IInv => NoDoubleEntry
  BY ApartIsDistinct DEF IInv, QueuesGood, NothingTwice, NoDoubleEntry
<1> QED
  BY <1>1, <1>2, PTL

\* With one priority the published position is the running product's place.
THEOREM PlcActiveIsRunning ==
  ASSUME NoneFreedInHandshake, PriorityCount = 1
  PROVE  Spec => []ActiveIsRunning
<1>1. Spec => []IInv
  BY PlcInvariant
<1>2. IInv => ActiveIsRunning
  <2> SUFFICES ASSUME IInv, deviceRunning
               PROVE  PQueue_get(pq, pq.activeItemPosition).item.id = item.id
    BY DEF ActiveIsRunning
  <2>1. /\ GoodPQueue(pq) /\ itemPositionP \in 0 .. pq.queueProductCount - 1
        /\ pq.activeItemPosition = itemPositionP
        /\ Listed(pq, 0)[itemPositionP + 1] = item
    BY DEF IInv, QueuesGood, HandshakeKeeps, OneListKeeps
  <2>2. Place(pq, 0, itemPositionP, itemPositionP)
    BY <2>1, OneList
  <2>3. PQueue_get(pq, itemPositionP).item = item
    BY <2>1, <2>2, PQGetPlace
  <2> QED
    BY <2>1, <2>3
<1> QED
  BY <1>1, <1>2, PTL

\* The finished product, and no other, leaves both queues when the device
\* stops, with the gate removed or with one priority.
THEOREM PlcRemovalIsExact ==
  ASSUME NoneFreedInHandshake, TRUE \in SelectWhile \/ PriorityCount = 1
  PROVE  Spec => RemovalIsExact
<1>1. Spec => []IInv
  BY PlcInvariant
<1>2. IInv /\ [Next]_vars =>
        [deviceRunning /\ ~deviceRunning' =>
           /\ ReservedIds(pq') = ReservedIds(pq) \ {item'.id}
           /\ {p.id : p \in ToSet(Contents(rq'))} =
                {p.id : p \in ToSet(Contents(rq))} \ {item'.id}
           /\ rq.count = rq'.count + 1
           /\ history'[HistoryLength] = item'.id]_vars
  <2> SUFFICES ASSUME IInv, Next, deviceRunning, ~ deviceRunning'
               PROVE  /\ ReservedIds(pq') = ReservedIds(pq) \ {item'.id}
                      /\ {p.id : p \in ToSet(Contents(rq'))} =
                           {p.id : p \in ToSet(Contents(rq))} \ {item'.id}
                      /\ rq.count = rq'.count + 1
                      /\ history'[HistoryLength] = item'.id
    BY DEF vars, device
  <2>1. Scan
    BY DEF Next, MethodCall, device
  <2>2. PICK sel : sel = Selected /\ DeviceSlow(sel)
    BY <2>1 DEF Scan
  <2>3. Picked(sel)
    BY <2>2, SelectedIsPicked
  <2>4. Conclude(sel, FALSE)
    <3>1. ASSUME Conclude(sel, TRUE) PROVE FALSE
      <4>1. deviceRunning' = TRUE
        BY <3>1, ConcludeFields
      <4> QED
        BY <4>1
    <3> QED
      BY <2>2, <2>3, <3>1, DeviceDrives
  <2>5. item' = sel.item /\ history' = Append(Tail(history), sel.item.id)
    BY <2>4, ConcludeFields
  <2>6. /\ rq.count = rq'.count + 1
        /\ Ids(Contents(rq')) = Ids(Contents(rq)) \ {sel.item.id}
        /\ ReservedIds(pq') = ReservedIds(pq) \ {sel.item.id}
    BY <2>3, <2>4, RemovalTakesOut DEF Picked
  <2>7. history'[HistoryLength] = sel.item.id
    <3>1. history \in Histories /\ sel.item.id \in Id \cup {noId}
      BY <2>3, PickedId DEF IInv, TypeOK, Histories
    <3>2. Append(Tail(history), sel.item.id)[HistoryLength] = sel.item.id
      BY <3>1, HistoryShifts
    <3> QED
      BY <2>5, <3>2
  <2> QED
    BY <2>5, <2>6, <2>7 DEF Ids
<1> QED
  BY <1>1, <1>2, PTL DEF Spec, RemovalIsExact

\* A cycle answers no client.
LEMMA ScanAnswers ==
  ASSUME IInv, Scan
  PROVE  /\ reply' = NoReply /\ reply'.method = "none" /\ reply'.message = "none"
<1>1. PICK sel : sel = Selected /\ DeviceSlow(sel)
  BY DEF Scan
<1>2. PICK running : Conclude(sel, running)
  BY <1>1, SelectedIsPicked, DeviceDrives
<1>3. reply' = NoReply
  BY <1>2, ConcludeFields
<1> QED
  BY <1>3, ReplyFields DEF NoReply

\* What a ReserveAction answers and does.
LEMMA ReserveOutcome ==
  ASSUME NEW id, NEW priority, NEW params, ReserveAction(id, priority, params),
         NEW r, r = PQueue_push(pq, [id |-> id, params |-> params], priority)
  PROVE  /\ reply'.method = "ReserveAction"
         /\ reply'.id = id /\ reply'.priority = priority
         /\ \/ pq' = pq /\ reply'.message # "Success"
            \/ /\ id # noId /\ ~ PQueue_find(pq, id).found
               /\ pq' = r.pqueue /\ reply'.message = Outcome(r.status)
<1> DEFINE Respond(message) ==
             reply' = Reply("ReserveAction", id, priority, message, 0, 0)
<1>1. \/ Respond("PQErrInvalidItemId") /\ pq' = pq
      \/ Respond("PQErrItemAlreadyInQueue") /\ pq' = pq
      \/ Respond("ErrItemNotSupported") /\ pq' = pq
      \/ /\ id # noId /\ ~ PQueue_find(pq, id).found
         /\ Respond(Outcome(r.status)) /\ pq' = r.pqueue
  BY Zenon DEF ReserveAction
<1>2. ASSUME NEW t, Respond(t)
      PROVE  /\ reply'.method = "ReserveAction" /\ reply'.message = t
             /\ reply'.id = id /\ reply'.priority = priority
  BY <1>2, ReplyFields
<1> HIDE DEF Respond
<1>3. CASE \/ Respond("PQErrInvalidItemId") \/ Respond("PQErrItemAlreadyInQueue")
           \/ Respond("ErrItemNotSupported")
  BY <1>1, <1>2, <1>3
<1>4. CASE /\ id # noId /\ ~ PQueue_find(pq, id).found
           /\ Respond(Outcome(r.status)) /\ pq' = r.pqueue
  BY <1>2, <1>4
<1> QED
  BY <1>1, <1>3, <1>4

\* A reservation gets the position that was offered for it.
THEOREM PlcOfferIsKept ==
  ASSUME NoneFreedInHandshake
  PROVE  Spec => OfferIsKept
<1>1. Spec => []IInv
  BY PlcInvariant
<1>2. IInv /\ [Next]_vars =>
        [reply.method = "GetSupported"
           /\ reply'.method = "ReserveAction" /\ reply'.message = "Success"
           /\ reply'.priority = reply.priority
         => PQueue_get(pq', reply.position).item.id = reply'.id]_spVars
  <2> SUFFICES ASSUME IInv, Next, reply.method = "GetSupported",
                      reply'.method = "ReserveAction", reply'.message = "Success",
                      reply'.priority = reply.priority
               PROVE  PQueue_get(pq', reply.position).item.id = reply'.id
    BY DEF vars
  <2>1. PICK id \in Id \cup {noId}, priority \in Priorities, params \in Params :
          ReserveAction(id, priority, params)
    <3>1. ~ Scan
      BY ScanAnswers
    <3>2. PICK id \in Id \cup {noId} :
            \/ ReportProduct(id)
            \/ \E priority \in Priorities, params \in Params :
                 \/ ReserveAction(id, priority, params)
                 \/ GetSupported(id, priority, params)
            \/ GetStatus(id)
            \/ FreeFromQueue(id)
            \/ FreeFromPosition(id)
      BY <3>1 DEF Next, MethodCall, Call
    <3>3. ~ ReportProduct(id)
      BY ReplyFields DEF ReportProduct, Answer
    <3>4. ~ GetStatus(id)
      BY ReplyFields DEF GetStatus, Answer
    <3>5. ~ FreeFromQueue(id) /\ ~ FreeFromPosition(id)
      BY ReplyFields DEF FreeFromQueue, FreeFromPosition, Answer
    <3>6. \A priority \in Priorities, params \in Params : ~ GetSupported(id, priority, params)
      BY ReplyFields DEF GetSupported
    <3> QED
      BY <3>2, <3>3, <3>4, <3>5, <3>6
  <2>2. PICK r : r = PQueue_push(pq, [id |-> id, params |-> params], priority)
    OBVIOUS
  <2>3. /\ id # noId /\ pq' = r.pqueue /\ Outcome(r.status) = "Success"
         /\ reply'.id = id /\ reply'.priority = priority
    BY <2>1, <2>2, ReserveOutcome
  <2>4. PICK it : it = [id |-> id, params |-> params]
    OBVIOUS
  <2>5. it \in Product /\ it.id = id /\ GoodPQueue(pq)
    BY <2>3, <2>4, ItemAssumption DEF IInv, QueuesGood
  <2>6. PICK s, n : s = Listed(pq, priority) /\ n = r.pqueue
    OBVIOUS
  <2>7. /\ GoodPQueue(n) /\ s \in Seq(Product) /\ Len(s) \in Nat
        /\ \A h \in Priorities : Listed(n, h) = IF h = priority THEN Append(s, it)
                                                                ELSE Listed(pq, h)
    <3>1. r.status # "PQErrBufferIsFull" /\ r = PQueue_push(pq, it, priority)
      BY <2>2, <2>3, <2>4 DEF Outcome, PQNoError
    <3>2. /\ GoodPQueue(n)
          /\ \A h \in Priorities : Listed(n, h) = IF h = priority THEN Append(Listed(pq, priority), it)
                                                                  ELSE Listed(pq, h)
      BY <2>5, <2>6, <3>1, PQPush
    <3>3. s \in Seq(Product) /\ Len(s) \in Nat
      BY <2>5, <2>6, GoodCounts, LenProperties
    <3> QED
      BY <2>6, <3>2, <3>3
  <2>8. /\ reply.position = CountUpTo(pq, priority - 1) + Len(s)
        /\ CountUpTo(pq, priority - 1) \in Nat
    BY <2>3, <2>5, <2>6, GoodCounts DEF IInv, OfferStands
  <2>9. CountUpTo(n, priority - 1) = CountUpTo(pq, priority - 1)
    <3>1. /\ Counters(pq) /\ Counters(n)
          /\ \A h \in Priorities \ {priority} : n.subElementCount[h] = pq.subElementCount[h]
      BY <2>5, <2>7, GoodCounts, SMTT(30)
    <3>2. priority - 1 \in -1 .. PriorityCount - 1 /\ priority - 1 < priority
      BY PrioritiesProperties
    <3> QED
      BY <3>1, <3>2, CountChange
  <2>10. Listed(n, priority) = Append(s, it) /\ Len(Append(s, it)) = Len(s) + 1
        /\ Append(s, it)[Len(s) + 1] = it
    BY <2>5, <2>7, AppendProperties
  <2>11. Place(n, priority, Len(s), reply.position)
    BY <2>7, <2>8, <2>9, <2>10 DEF Place
  <2>12. PQueue_get(n, reply.position).item = it
    BY <2>7, <2>10, <2>11, PQGetPlace
  <2> QED
    BY <2>3, <2>5, <2>6, <2>12
<1> QED
  BY <1>1, <1>2, PTL DEF Spec, OfferIsKept

\* What a FreeFromQueue answers and does.
LEMMA FreeOutcome ==
  ASSUME NEW id, FreeFromQueue(id),
         NEW i, i = PQueue_find(pq, id).position,
         NEW r, r = PQueue_removeByPosition(pq, i)
  PROVE  /\ reply'.method = "FreeFromQueue"
         /\ \/ pq' = pq /\ reply'.message # "Success"
            \/ /\ PQueue_find(pq, id).found
               /\ pq' = r.pqueue /\ reply'.message = Outcome(r.status)
<1> DEFINE Respond(message) == reply' = Reply("FreeFromQueue", id, 0, message, 0, 0)
<1>1. \/ Respond("PQErrInvalidItemId") /\ pq' = pq
      \/ Respond("PQErrItemNotFound") /\ pq' = pq
      \/ Respond("PQErrItemAlreadyInProgress") /\ pq' = pq
      \/ /\ PQueue_find(pq, id).found
         /\ Respond(Outcome(r.status)) /\ pq' = r.pqueue
  BY Zenon DEF FreeFromQueue, Answer
<1>2. ASSUME NEW t, Respond(t)
      PROVE  reply'.method = "FreeFromQueue" /\ reply'.message = t
  BY <1>2, ReplyFields
<1> HIDE DEF Respond
<1>3. CASE \/ Respond("PQErrInvalidItemId") \/ Respond("PQErrItemNotFound")
           \/ Respond("PQErrItemAlreadyInProgress")
  BY <1>1, <1>2, <1>3
<1>4. CASE /\ PQueue_find(pq, id).found
           /\ Respond(Outcome(r.status)) /\ pq' = r.pqueue
  BY <1>2, <1>4
<1> QED
  BY <1>1, <1>3, <1>4

\* A step whose reply tells of a change to the reservations.
Tells(method) == reply'.method = method /\ reply'.message = "Success"

\* What a step may do to the reservations, given what it answers.
Exact ==
  /\ ReservedIds(pq') \subseteq ReservedIds(pq) \cup
       (IF Tells("ReserveAction") THEN {reply'.id} ELSE {})
  /\ reply' # NoReply =>
       Len(Entries(pq')) = Len(Entries(pq))
         + (IF Tells("ReserveAction") THEN 1 ELSE 0)
         - (IF Tells("FreeFromQueue") THEN 1 ELSE 0)
  /\ Tells("ReserveAction") => reply'.id \in ReservedIds(pq')

\* A call that leaves the queue and tells so.
LEMMA NothingTold ==
  ASSUME IInv, pq' = pq, ~ Tells("ReserveAction"), ~ Tells("FreeFromQueue")
  PROVE  Exact
<1>1. Len(Entries(pq)) \in Nat
  BY EntriesByPlace, LenProperties DEF IInv, QueuesGood
<1>2. Len(Entries(pq)) = Len(Entries(pq)) + 0 - 0
  BY <1>1
<1> HIDE DEF Tells
<1> QED
  BY <1>2 DEF Exact

LEMMA ReserveIsExact ==
  ASSUME IInv, NEW id \in Id \cup {noId}, NEW priority \in Priorities,
         NEW params \in Params, ReserveAction(id, priority, params)
  PROVE  Exact
<1>1. PICK r : r = PQueue_push(pq, [id |-> id, params |-> params], priority)
  OBVIOUS
<1>2. /\ reply'.method = "ReserveAction" /\ reply'.id = id
      /\ \/ pq' = pq /\ reply'.message # "Success"
         \/ id # noId /\ pq' = r.pqueue /\ reply'.message = Outcome(r.status)
  BY <1>1, ReserveOutcome
<1>3. ~ Tells("FreeFromQueue")
  BY <1>2 DEF Tells
<1>4. CASE pq' = pq /\ reply'.message # "Success"
  BY <1>3, <1>4, NothingTold DEF Tells
<1>5. CASE id # noId /\ pq' = r.pqueue /\ reply'.message = Outcome(r.status)
  <2>1. PICK it : it = [id |-> id, params |-> params]
    OBVIOUS
  <2>2. it \in Product /\ it.id = id /\ GoodPQueue(pq)
    BY <1>5, <2>1, ItemAssumption DEF IInv, QueuesGood
  <2>3. r = PQueue_push(pq, it, priority)
    BY <1>1, <2>1
  <2>4. /\ r.status # PQNoError => r.pqueue = pq
        /\ r.status = PQNoError => r.pqueue.queueProductCount = pq.queueProductCount + 1
        /\ r.status \in {PQNoError, "PQErrBufferIsFull"}
        /\ \A x : x \in ReservedIds(r.pqueue) <=>
                    x \in ReservedIds(pq) \/ (r.status = PQNoError /\ x = it.id)
    BY <2>2, <2>3, PushReserves
  <2>5. GoodPQueue(r.pqueue)
    BY <2>2, <2>3, PQPush
  <2>6. CASE r.status # PQNoError
    <3>1. reply'.message # "Success"
      BY <1>5, <2>4, <2>6 DEF Outcome
    <3> QED
      BY <1>4, <1>5, <2>4, <2>6, <3>1
  <2>7. CASE r.status = PQNoError
    <3>1. Tells("ReserveAction")
      BY <1>2, <1>5, <2>7 DEF Outcome, Tells
    <3>2. \A x : x \in ReservedIds(pq') <=> x \in ReservedIds(pq) \/ x = reply'.id
      BY <1>2, <1>5, <2>2, <2>4, <2>7
    <3>3. Len(Entries(pq')) = Len(Entries(pq)) + 1 - 0
      <4>1. PICK n, a, b : n = r.pqueue /\ a = Len(Entries(pq)) /\ b = Len(Entries(n))
        OBVIOUS
      <4>2. a = pq.queueProductCount /\ b = n.queueProductCount /\ a \in Nat
        BY <2>2, <2>5, <4>1, EntriesByPlace, LenProperties
      <4>3. b = a + 1 - 0
        BY <2>4, <2>7, <4>1, <4>2
      <4> QED
        BY <1>5, <4>1, <4>3
    <3> HIDE DEF Tells
    <3> QED
      BY <1>3, <3>1, <3>2, <3>3 DEF Exact
  <2> QED
    BY <2>6, <2>7
<1> QED
  BY <1>2, <1>4, <1>5

LEMMA FreeIsExact ==
  ASSUME IInv, NEW id \in Id \cup {noId}, FreeFromQueue(id)
  PROVE  Exact
<1>1. PICK i : i = PQueue_find(pq, id).position
  OBVIOUS
<1>2. PICK r : r = PQueue_removeByPosition(pq, i)
  OBVIOUS
<1>3. /\ reply'.method = "FreeFromQueue"
      /\ \/ pq' = pq /\ reply'.message # "Success"
         \/ /\ PQueue_find(pq, id).found
            /\ pq' = r.pqueue /\ reply'.message = Outcome(r.status)
  BY <1>1, <1>2, FreeOutcome
<1>4. ~ Tells("ReserveAction")
  BY <1>3 DEF Tells
<1>5. CASE pq' = pq /\ reply'.message # "Success"
  BY <1>4, <1>5, NothingTold DEF Tells
<1>6. CASE /\ PQueue_find(pq, id).found
           /\ pq' = r.pqueue /\ reply'.message = Outcome(r.status)
  <2>1. GoodPQueue(pq)
    BY DEF IInv, QueuesGood
  <2>2. i \in 0 .. pq.queueProductCount - 1
    BY <1>1, <1>6, <2>1, PQFind
  <2>3. PICK p, k : Place(pq, p, k, i)
    BY <2>1, <2>2, PlaceIsFound
  <2>4. /\ GoodPQueue(r.pqueue) /\ r.status = PQNoError
        /\ r.pqueue.queueProductCount = pq.queueProductCount - 1
    BY <1>2, <2>1, <2>3, PQRemove
  <2>5. \A x : x \in ReservedIds(r.pqueue) => x \in ReservedIds(pq)
    <3>1. PICK n : n = r.pqueue
      OBVIOUS
    <3>2. n = PQueue_removeByPosition(pq, i).pqueue
      BY <1>2, <3>1
    <3> QED
      BY <2>1, <2>3, <3>1, <3>2, RemoveFrees
  <2>6. Tells("FreeFromQueue")
    BY <1>3, <1>6, <2>4 DEF Outcome, Tells
  <2>7. Len(Entries(pq')) = Len(Entries(pq)) + 0 - 1
    <3>1. PICK n, a, b : n = r.pqueue /\ a = Len(Entries(pq)) /\ b = Len(Entries(n))
      OBVIOUS
    <3>2. a = pq.queueProductCount /\ b = n.queueProductCount /\ a \in Nat
      BY <2>1, <2>4, <3>1, EntriesByPlace, LenProperties
    <3>3. b = a + 0 - 1
      BY <2>4, <3>1, <3>2
    <3> QED
      BY <1>6, <3>1, <3>3
  <2> HIDE DEF Tells
  <2> QED
    BY <1>4, <1>6, <2>5, <2>6, <2>7 DEF Exact
<1> QED
  BY <1>3, <1>5, <1>6

\* A cycle may only take reservations away, and tells nobody.
LEMMA ScanIsExact ==
  ASSUME IInv, Scan
  PROVE  Exact
<1>1. PICK sel : sel = Selected /\ DeviceSlow(sel)
  BY DEF Scan
<1>2. Picked(sel)
  BY <1>1, SelectedIsPicked
<1>3. reply' = NoReply /\ ~ Tells("ReserveAction")
  BY ScanAnswers DEF Tells
<1>4. ASSUME NEW running \in BOOLEAN, Conclude(sel, running), running => sel.found
      PROVE  \A x : x \in ReservedIds(pq') => x \in ReservedIds(pq)
  <2>1. CASE ~ (deviceRunning /\ ~ running)
    BY <1>2, <1>4, <2>1, QueuesStay
  <2>2. CASE deviceRunning /\ ~ running
    <3>1. sel.p \in 0 .. pq.queueProductCount - 1 /\ GoodPQueue(pq)
      BY <1>2, <2>2 DEF Picked, IInv, QueuesGood
    <3>2. PICK i, n : i = sel.p /\ n = PQueue_removeByPosition(pq, i).pqueue
      OBVIOUS
    <3>3. PICK p, k : Place(pq, p, k, i)
      BY <3>1, <3>2, PlaceIsFound
    <3>4. GoodPQueue(n) /\ \A x : x \in ReservedIds(n) => x \in ReservedIds(pq)
      BY <3>1, <3>2, <3>3, PQRemove, RemoveFrees
    <3>5. PICK q : q = [n EXCEPT !.activeItemPosition = -1]
      OBVIOUS
    <3>6. pq' = q
      BY <1>4, <2>2, <3>2, <3>5, ConcludeFields
    <3>7. GoodPQueue(q) /\ \A h \in Priorities : Listed(q, h) = Listed(n, h)
      <4>1. -1 \in -1 .. PriorityCount * SubQueueCount
        BY PriorityCountAssumption, SubQueueCountAssumption
      <4> QED
        BY <3>4, <3>5, <4>1, ActiveOnly
    <3>8. \A x : x \in ReservedIds(q) <=> x \in ReservedIds(n)
      BY <3>4, <3>7, ReservedByPlace
    <3> QED
      BY <3>4, <3>6, <3>8
  <2> QED
    BY <2>1, <2>2
<1>5. \A x : x \in ReservedIds(pq') => x \in ReservedIds(pq)
  BY <1>1, <1>2, <1>4, DeviceDrives
<1> HIDE DEF Tells
<1> QED
  BY <1>3, <1>5 DEF Exact

\* A call changes the reservations by what it answers and no more, and a cycle
\* adds none.
THEOREM PlcReservationsExact ==
  ASSUME NoneFreedInHandshake
  PROVE  Spec => ReservationsExact
<1>1. Spec => []IInv
  BY PlcInvariant
<1>2. IInv /\ [Next]_vars => [Exact]_spVars
  <2> SUFFICES ASSUME IInv, Next PROVE Exact
    BY DEF vars
  <2>1. CASE Scan
    BY <2>1, ScanIsExact
  <2>2. CASE Call
    <3>1. PICK id \in Id \cup {noId} :
            \/ ReportProduct(id)
            \/ \E priority \in Priorities, params \in Params :
                 \/ ReserveAction(id, priority, params)
                 \/ GetSupported(id, priority, params)
            \/ GetStatus(id)
            \/ FreeFromQueue(id)
            \/ FreeFromPosition(id)
      BY <2>2 DEF Call
    <3>2. CASE ReportProduct(id)
      <4>1. pq' = pq /\ reply'.method = "ReportProduct"
        BY <3>2, ReplyFields DEF ReportProduct, Answer
      <4> QED
        BY <4>1, NothingTold DEF Tells
    <3>3. ASSUME NEW priority \in Priorities, NEW params \in Params,
                 GetSupported(id, priority, params)
          PROVE  Exact
      <4>1. pq' = pq /\ reply'.method = "GetSupported"
        BY <3>3, ReplyFields DEF GetSupported
      <4> QED
        BY <4>1, NothingTold DEF Tells
    <3>4. CASE GetStatus(id)
      <4>1. pq' = pq /\ reply'.method = "GetStatus"
        BY <3>4, ReplyFields DEF GetStatus, Answer
      <4> QED
        BY <4>1, NothingTold DEF Tells
    <3>5. CASE FreeFromPosition(id)
      <4>1. pq' = pq /\ reply'.method = "FreeFromPosition"
        BY <3>5, ReplyFields DEF FreeFromPosition, Answer
      <4> QED
        BY <4>1, NothingTold DEF Tells
    <3> QED
      BY <3>1, <3>2, <3>3, <3>4, <3>5, ReserveIsExact, FreeIsExact
  <2> QED
    BY <2>1, <2>2 DEF Next, MethodCall
<1> QED
  BY <1>1, <1>2, PTL DEF Spec, ReservationsExact, Exact, Tells

-----------------------------------------------------------------------------
\* What the service sees of the two queues.
Reserved == [p \in Priorities |-> Contents(pq.buffer[p])]
Reported == [i \in 1 .. rq.count |-> Contents(rq)[i].id]

\* What CheckAction walks are the places of the service, in the order of their
\* global positions.
LEMMA ServicePlaces ==
  ASSUME GoodPQueue(pq)
  PROVE  /\ \A x : x \in Service!Places <=>
                     \E p, k, i : Place(pq, p, k, i) /\ x = <<p, k + 1>>
         /\ \A p, k, i : Place(pq, p, k, i) =>
                           Service!Entry(<<p, k + 1>>) = Listed(pq, p)[k + 1]
<1>1. Service!Priorities = Priorities
  BY DEF Service!Priorities, Priorities
<1>2. \A p \in Priorities : Reserved[p] = Listed(pq, p) /\ Listed(pq, p) \in Seq(Product)
  BY GoodCounts DEF Listed, Reserved
<1>3. \A p \in Priorities : DOMAIN Reserved[p] = 1 .. Len(Listed(pq, p))
  BY <1>2
<1>4. Service!Places = UNION {{p} \X DOMAIN Reserved[p] : p \in Priorities}
  BY <1>1 DEF Service!Places, Reserved
<1>5. \A p \in Priorities : \A k : k \in 1 .. Len(Listed(pq, p)) => 
         k - 1 \in 0 .. Len(Listed(pq, p)) - 1 /\ (k - 1) + 1 = k
  BY GoodCounts, SubQueueCountAssumption
<1>6. \A p, k, i : Place(pq, p, k, i) => k + 1 \in 1 .. Len(Listed(pq, p))
  BY GoodCounts, SubQueueCountAssumption DEF Place
<1>7. ASSUME NEW x \in Service!Places
      PROVE  \E p, k, i : Place(pq, p, k, i) /\ x = <<p, k + 1>>
  <2>1. PICK p \in Priorities : x \in {p} \X (1 .. Len(Listed(pq, p)))
    BY <1>3, <1>4
  <2>2. PICK k \in 1 .. Len(Listed(pq, p)) : x = <<p, k>>
    BY <2>1
  <2>3. Place(pq, p, k - 1, CountUpTo(pq, p - 1) + (k - 1)) /\ (k - 1) + 1 = k
    BY <1>5, <2>2 DEF Place
  <2> QED
    BY <2>2, <2>3
<1>8. ASSUME NEW p, NEW k, NEW i, Place(pq, p, k, i)
      PROVE  /\ <<p, k + 1>> \in Service!Places
             /\ Service!Entry(<<p, k + 1>>) = Listed(pq, p)[k + 1]
  <2>1. p \in Priorities /\ k + 1 \in 1 .. Len(Listed(pq, p))
    BY <1>6, <1>8 DEF Place
  <2>2. <<p, k + 1>> \in {p} \X DOMAIN Reserved[p]
    BY <1>3, <2>1
  <2>3. Service!Entry(<<p, k + 1>>) = Reserved[p][k + 1]
    BY DEF Service!Entry, Reserved
  <2> QED
    BY <1>2, <1>4, <2>1, <2>2, <2>3
<1> QED
  BY <1>7, <1>8

\* The service's order of two places is the order of their global positions.
LEMMA PlacesInOrder ==
  ASSUME GoodPQueue(pq), NEW p, NEW k, NEW i, Place(pq, p, k, i),
         NEW r, NEW j, NEW h, Place(pq, r, j, h)
  PROVE  Service!Before(<<p, k + 1>>, <<r, j + 1>>) <=> i < h
<1>1. Service!Before(<<p, k + 1>>, <<r, j + 1>>) <=> p < r \/ (p = r /\ k + 1 < j + 1)
  BY DEF Service!Before
<1>2. /\ p \in Nat /\ r \in Nat /\ p - 1 \in -1 .. PriorityCount - 1
      /\ r - 1 \in -1 .. PriorityCount - 1
      /\ p \in -1 .. PriorityCount - 1 /\ r \in -1 .. PriorityCount - 1
  BY PriorityCountAssumption DEF Place, Priorities
<1>3. /\ CountUpTo(pq, p - 1) \in Nat /\ CountUpTo(pq, r - 1) \in Nat
      /\ CountUpTo(pq, p) \in Nat /\ CountUpTo(pq, r) \in Nat
      /\ CountUpTo(pq, p) = CountUpTo(pq, p - 1) + Len(Listed(pq, p))
      /\ CountUpTo(pq, r) = CountUpTo(pq, r - 1) + Len(Listed(pq, r))
      /\ Len(Listed(pq, p)) \in Nat /\ Len(Listed(pq, r)) \in Nat
  BY GoodCounts, SubQueueCountAssumption DEF Place
<1>4. /\ k \in Nat /\ j \in Nat /\ k < Len(Listed(pq, p)) /\ j < Len(Listed(pq, r))
      /\ i = CountUpTo(pq, p - 1) + k /\ h = CountUpTo(pq, r - 1) + j
  BY <1>3 DEF Place
<1>5. Counters(pq)
  BY GoodCounts
<1>6. p < r => CountUpTo(pq, p) <= CountUpTo(pq, r - 1)
  BY <1>2, <1>5, CountMonotone
<1>7. r < p => CountUpTo(pq, r) <= CountUpTo(pq, p - 1)
  BY <1>2, <1>5, CountMonotone
<1>8. CASE p = r
  BY <1>1, <1>2, <1>3, <1>4, <1>8
<1>9. /\ i < CountUpTo(pq, p) /\ CountUpTo(pq, r - 1) <= h /\ i \in Nat
      /\ h < CountUpTo(pq, r) /\ CountUpTo(pq, p - 1) <= i /\ h \in Nat
  BY <1>3, <1>4
<1>10. CASE p < r
  <2>1. i < h
    BY <1>3, <1>6, <1>9, <1>10
  <2> QED
    BY <1>1, <1>10, <2>1
<1>11. CASE r < p
  <2>1. ~ i < h
    BY <1>3, <1>7, <1>9, <1>11
  <2>2. ~ p < r /\ p # r
    BY <1>2, <1>11
  <2> QED
    BY <1>1, <2>1, <2>2
<1> QED
  BY <1>2, <1>8, <1>10, <1>11

\* The position the service counts is the global position of the code.
LEMMA PositionIsGlobal ==
  ASSUME GoodPQueue(pq), NEW p, NEW k, NEW i, Place(pq, p, k, i)
  PROVE  Service!Position(<<p, k + 1>>) = i
<1> DEFINE earlier == {other \in Service!Places : Service!Before(other, <<p, k + 1>>)}
           at(j)   == <<TableIndex(pq, j), LocalPosition(pq, j) + 1>>
           count   == [j \in 0 .. i - 1 |-> at(j)]
<1>1. i \in Nat /\ i < pq.queueProductCount /\ pq.queueProductCount \in Nat
  BY PlaceIsUnique, GoodCounts, PriorityCountAssumption, SubQueueCountAssumption
<1>2. ASSUME NEW j \in 0 .. i - 1
      PROVE  Place(pq, TableIndex(pq, j), LocalPosition(pq, j), j) /\ at(j) \in earlier
  <2>1. Place(pq, TableIndex(pq, j), LocalPosition(pq, j), j) /\ j < i
    BY <1>1, PlaceIsFound
  <2>2. at(j) \in Service!Places
    BY <2>1, ServicePlaces
  <2> QED
    BY <2>1, <2>2, PlacesInOrder
<1>3. ASSUME NEW x \in earlier
      PROVE  \E j \in 0 .. i - 1 : x = at(j)
  <2>1. PICK r, h, j : Place(pq, r, h, j) /\ x = <<r, h + 1>>
    BY ServicePlaces
  <2>2. j < i /\ j \in Nat
    BY <1>1, <2>1, PlacesInOrder, PlaceIsUnique
  <2>3. TableIndex(pq, j) = r /\ LocalPosition(pq, j) = h
    BY <2>1, PQGetPlace
  <2>4. j \in 0 .. i - 1
    BY <1>1, <2>2
  <2> QED
    BY <2>1, <2>3, <2>4
<1>4. ASSUME NEW j \in 0 .. i - 1, NEW m \in 0 .. i - 1, at(j) = at(m)
      PROVE  j = m
  <2>1. TableIndex(pq, j) = TableIndex(pq, m) /\ LocalPosition(pq, j) + 1 = LocalPosition(pq, m) + 1
    BY <1>4
  <2>2. Place(pq, TableIndex(pq, j), LocalPosition(pq, j), j) /\ Place(pq, TableIndex(pq, m), LocalPosition(pq, m), m)
    BY <1>2
  <2>3. j = CountUpTo(pq, TableIndex(pq, j) - 1) + LocalPosition(pq, j)
        /\ m = CountUpTo(pq, TableIndex(pq, m) - 1) + LocalPosition(pq, m)
        /\ LocalPosition(pq, j) \in Nat /\ LocalPosition(pq, m) \in Nat
    BY <2>2 DEF Place
  <2> QED
    BY <2>1, <2>3
<1> HIDE DEF earlier, at
<1>5. ExistsBijection(0 .. i - 1, earlier)
  <2>1. count \in [0 .. i - 1 -> earlier]
    BY <1>2
  <2>2. \A j, m \in 0 .. i - 1 : count[j] = count[m] => j = m
    BY <1>4
  <2>3. \A x \in earlier : \E j \in 0 .. i - 1 : count[j] = x
    BY <1>3
  <2> QED
    BY <2>1, <2>2, <2>3, Fun_IsBij, Fun_ExistsBij
<1>6. IsFiniteSet(0 .. i - 1) /\ Cardinality(0 .. i - 1) = i
  <2>1. 0 \in Int /\ i - 1 \in Int
    BY <1>1
  <2>2. /\ IsFiniteSet(0 .. i - 1)
        /\ Cardinality(0 .. i - 1) = IF 0 > i - 1 THEN 0 ELSE (i - 1) - 0 + 1
    BY <2>1, FS_Interval
  <2> QED
    BY <1>1, <2>2
<1>7. Cardinality(earlier) = i
  BY <1>5, <1>6, FS_Bijection
<1> QED
  BY <1>7 DEF Service!Position, earlier, Service!Cardinality, Cardinality

\* The first of some places is the one with the least global position.
LEMMA FirstPlace ==
  ASSUME GoodPQueue(pq), NEW S \in SUBSET Service!Places,
         NEW p, NEW k, NEW i, Place(pq, p, k, i), <<p, k + 1>> \in S,
         \A r, j, h : Place(pq, r, j, h) /\ <<r, j + 1>> \in S => i <= h
  PROVE  Service!First(S) = <<p, k + 1>>
<1> DEFINE first == <<p, k + 1>>
           Least(a) == \A b \in S : ~ Service!Before(b, a)
<1>1. /\ i \in 0 .. pq.queueProductCount - 1
      /\ \A r, j, h : Place(pq, r, j, h) => h \in 0 .. pq.queueProductCount - 1
      /\ pq.queueProductCount \in Nat
  BY PlaceIsUnique, GoodCounts, PriorityCountAssumption, SubQueueCountAssumption
<1>2. \A b \in S : \E r, j, h : Place(pq, r, j, h) /\ b = <<r, j + 1>>
  BY ServicePlaces
<1>3. Least(first)
  <2> SUFFICES ASSUME NEW b \in S PROVE ~ Service!Before(b, first)
    OBVIOUS
  <2>1. PICK r, j, h : Place(pq, r, j, h) /\ b = <<r, j + 1>>
    BY <1>2
  <2>2. i <= h /\ i \in Int /\ h \in Int
    BY <1>1, <2>1
  <2>3. ~ h < i
    BY <2>2
  <2> QED
    BY <2>1, <2>3, PlacesInOrder
<1>4. ASSUME NEW a \in S, Least(a)
      PROVE  a = first
  <2>1. PICK r, j, h : Place(pq, r, j, h) /\ a = <<r, j + 1>>
    BY <1>2
  <2>2. i <= h /\ i \in Int /\ h \in Int
    BY <1>1, <2>1
  <2>3. ~ Service!Before(first, a)
    BY <1>4
  <2>4. ~ i < h
    BY <2>1, <2>3, PlacesInOrder
  <2>5. h = i
    BY <2>2, <2>4
  <2>6. r = p /\ j = k
    BY <2>1, <2>5, PlaceIsUnique
  <2> QED
    BY <2>1, <2>6
<1> QED
  BY <1>3, <1>4 DEF Service!First

\* The products the service knows as reported.
LEMMA ServiceReports ==
  ASSUME GoodQueue(rq), NEW id
  PROVE  /\ Service!IsReported(id) <=> Queue_find(rq, id).found
         /\ Service!IsReported(id) <=> \E j \in 1 .. rq.count : Contents(rq)[j].id = id
<1>1. Service!IsReported(id) <=> \E j \in 1 .. rq.count : Contents(rq)[j].id = id
  BY DEF Service!IsReported
<1> QED
  BY <1>1, FindContents

\* CheckAction finds an action when the service has one ready, and then the one
\* the service picks, at the position the service counts.
LEMMA PickIsFound ==
  ASSUME GoodPQueue(pq), GoodQueue(rq), NEW sel, sel = CheckAction
  PROVE  /\ sel.found <=> Service!Ready # {}
         /\ sel.found =>
              /\ \E p, k : Place(pq, p, k, sel.p) /\ Service!Pick = <<p, k + 1>>
                             /\ Listed(pq, p)[k + 1] = sel.item
              /\ Service!Entry(Service!Pick) = sel.item
              /\ Service!Position(Service!Pick) = sel.p
<1> DEFINE total    == pq.queueProductCount
           entry(i) == PQueue_get(pq, i).item
           hits     == {i \in 0 .. total - 1 : Queue_find(rq, entry(i).id).found}
           first    == CHOOSE i \in hits : \A h \in hits : i <= h
<1>1. total \in Nat /\ hits \in SUBSET Nat
  BY GoodCounts, SubQueueCountAssumption, PriorityCountAssumption
<1>2. ASSUME NEW p, NEW k, NEW i, Place(pq, p, k, i)
      PROVE  /\ i \in 0 .. total - 1 /\ entry(i) = Listed(pq, p)[k + 1]
             /\ i \in hits <=> <<p, k + 1>> \in Service!Ready
  <2>1. i \in 0 .. total - 1 /\ entry(i) = Listed(pq, p)[k + 1]
    BY <1>2, PlaceIsUnique, PQGetPlace
  <2>2. <<p, k + 1>> \in Service!Places /\ Service!Entry(<<p, k + 1>>) = Listed(pq, p)[k + 1]
    BY <1>2, ServicePlaces
  <2>3. PICK e : e = Listed(pq, p)[k + 1]
    OBVIOUS
  <2>4. <<p, k + 1>> \in Service!Ready <=> Queue_find(rq, e.id).found
    BY <2>2, <2>3, ServiceReports DEF Service!Ready
  <2>5. i \in hits <=> Queue_find(rq, e.id).found
    BY <2>1, <2>3
  <2> QED
    BY <2>1, <2>4, <2>5
<1>3. \A x \in Service!Ready : \E p, k, i : Place(pq, p, k, i) /\ x = <<p, k + 1>>
  BY ServicePlaces DEF Service!Ready
<1>4. hits # {} <=> Service!Ready # {}
  <2>1. ASSUME NEW i \in hits PROVE Service!Ready # {}
    BY <1>2, <2>1, PlaceIsFound
  <2>2. ASSUME NEW x \in Service!Ready PROVE hits # {}
    BY <1>2, <1>3, <2>2
  <2> QED
    BY <2>1, <2>2
<1>5. CASE hits = {}
  <2>1. sel = [found |-> FALSE, rp |-> itemPositionRP, p |-> total,
               item |-> IF total = 0 THEN item ELSE entry(total - 1)]
    BY <1>5 DEF CheckAction
  <2>2. sel.found = FALSE
    BY <2>1
  <2> QED
    BY <1>4, <1>5, <2>2
<1>6. CASE hits # {}
  <2>1. first \in hits /\ \A h \in hits : first <= h
    BY <1>1, <1>6, LeastNumber
  <2>2. sel = [found |-> TRUE, item |-> entry(first),
               rp |-> Queue_find(rq, entry(first).id).position, p |-> first]
    BY <1>6 DEF CheckAction
  <2>3. PICK i : i = first
    OBVIOUS
  <2>4. i \in hits /\ \A h \in hits : i <= h
    BY <2>1, <2>3
  <2>5. sel.found = TRUE /\ sel.p = i /\ sel.item = entry(i)
    <3> HIDE DEF total, entry, hits, first
    <3>1. sel.found = TRUE /\ sel.p = first /\ sel.item = entry(first)
      BY <2>2
    <3> QED
      BY <2>3, <3>1
  <2>6. PICK p, k : Place(pq, p, k, i)
    BY <2>4, PlaceIsFound
  <2>7. /\ <<p, k + 1>> \in Service!Ready /\ entry(i) = Listed(pq, p)[k + 1]
        /\ \A r, j, h : Place(pq, r, j, h) /\ <<r, j + 1>> \in Service!Ready => i <= h
    BY <1>2, <2>4, <2>6
  <2>8. Service!Ready \in SUBSET Service!Places
    BY DEF Service!Ready
  <2>9. Service!Pick = <<p, k + 1>>
    BY <2>6, <2>7, <2>8, FirstPlace DEF Service!Pick
  <2>10. /\ Service!Entry(Service!Pick) = sel.item
         /\ Service!Position(Service!Pick) = sel.p
    BY <2>5, <2>6, <2>7, <2>9, ServicePlaces, PositionIsGlobal
  <2> QED
    BY <1>4, <1>6, <2>5, <2>6, <2>7, <2>9, <2>10
<1> QED
  BY <1>5, <1>6

\* The check of the machine lets through what the service passes: a reserved
\* action has one of the parameters clients ask for, or none, which fails it.
LEMMA RunsWhenPassed ==
  ASSUME GoodPQueue(pq), GoodQueue(rq), NEW sel, sel = CheckAction
  PROVE  Service!Runs <=> sel.found /\ PassesCheck(sel.item)
<1>1. /\ sel.found <=> Service!Ready # {}
      /\ sel.found => /\ \E p, k : Place(pq, p, k, sel.p) /\ Listed(pq, p)[k + 1] = sel.item
                      /\ Service!Entry(Service!Pick) = sel.item
  BY PickIsFound
<1>2. ASSUME sel.found
      PROVE  sel.item.params \in {p \in Params : PassesCheck([params |-> p])}
               <=> PassesCheck(sel.item)
  <2>1. sel.item \in Product
    BY <1>1, <1>2, PQGetPlace
  <2>2. sel.item.params \in Params \cup {NoParams}
    BY <2>1, ItemAssumption
  <2>3. PICK a : a = sel.item.params
    OBVIOUS
  <2>4. PassesCheck([params |-> a]) <=> PassesCheck(sel.item)
    BY <2>3 DEF PassesCheck
  <2>5. ~ PassesCheck([params |-> NoParams])
    BY DEF PassesCheck, NoParams
  <2> QED
    BY <2>2, <2>3, <2>4, <2>5
<1> QED
  BY <1>1, <1>2 DEF Service!Runs

-----------------------------------------------------------------------------
LEMMA ServiceSees ==
  ASSUME GoodPQueue(pq), GoodQueue(rq)
  PROVE  /\ Reserved \in [Priorities -> Seq(Product)]
         /\ \A p \in Priorities : Reserved[p] = Listed(pq, p)
         /\ Len(Reported) = rq.count /\ DOMAIN Reported = 1 .. rq.count
         /\ Reported \in Seq({x.id : x \in Product})
<1>1. \A p \in Priorities : Contents(pq.buffer[p]) \in Seq(Product)
  BY GoodCounts DEF Listed
<1>2. rq.count \in Nat /\ \A i \in 1 .. rq.count : Contents(rq)[i] \in Product
  BY ContentsProperties, SubQueueCountAssumption
<1>3. Reported \in [1 .. rq.count -> {x.id : x \in Product}]
  BY <1>2 DEF Reported
<1> QED
  BY <1>1, <1>2, <1>3 DEF Reserved, Listed

\* Lists that stay are seen to stay.
LEMMA ReservedStays ==
  ASSUME \A p \in Priorities : Listed(pq', p) = Listed(pq, p)
  PROVE  Reserved' = Reserved
BY DEF Reserved, Listed

\* A step that leaves the lists, the handshake and what is published.
LEMMA ServiceRests ==
  ASSUME Reserved' = Reserved, Reported' = Reported, Handshake' = Handshake,
         cmdProductID' = cmdProductID, pq'.activeItemPosition = pq.activeItemPosition
  PROVE  UNCHANGED Service!serviceVars
BY DEF Service!serviceVars, Reserved, Reported

\* A method call leaves the handshake.
LEMMA AsideHandshake ==
  ASSUME Aside
  PROVE  Handshake' = Handshake /\ cmdProductID' = cmdProductID
BY DEF Aside, device, Handshake

\* The ids of a list that grows by one.
LEMMA IdsOfAppend ==
  ASSUME NEW s \in Seq(Product), NEW e \in Product
  PROVE  [i \in 1 .. Len(Append(s, e)) |-> Append(s, e)[i].id] =
           Append([i \in 1 .. Len(s) |-> s[i].id], e.id)
<1> DEFINE left  == [i \in 1 .. Len(Append(s, e)) |-> Append(s, e)[i].id]
           ids   == [i \in 1 .. Len(s) |-> s[i].id]
           right == Append(ids, e.id)
<1>1. Len(s) \in Nat /\ Len(Append(s, e)) = Len(s) + 1
  OBVIOUS
<1>2. ids \in Seq({x.id : x \in Product}) /\ Len(ids) = Len(s)
  <2>1. ids \in [1 .. Len(s) -> {x.id : x \in Product}]
    OBVIOUS
  <2> QED
    BY <1>1, <2>1
<1>3. right \in Seq({x.id : x \in Product}) /\ Len(right) = Len(s) + 1
  BY <1>2
<1>4. DOMAIN left = 1 .. Len(s) + 1 /\ DOMAIN right = 1 .. Len(s) + 1
  BY <1>1, <1>3
<1>5. \A i \in 1 .. Len(s) + 1 : left[i] = right[i]
  BY <1>1, <1>2
<1>6. left = [i \in 1 .. Len(s) + 1 |-> left[i]] /\ right = [i \in 1 .. Len(s) + 1 |-> right[i]]
  BY <1>1, <1>3, <1>4
<1> QED
  BY <1>5, <1>6

\* ReportProduct does and answers what the service promises.
LEMMA ReportIsPromised ==
  ASSUME IInv, Aside, NEW id \in Id, ReportProduct(id)
  PROVE  /\ Service!Report(id) /\ reply'.id = id
         /\ reply'.method = "ReportProduct" /\ reply'.message = Service!ReportAnswer(id)
<1>1. GoodPQueue(pq) /\ GoodQueue(rq)
  BY DEF IInv, QueuesGood
<1>2. id # noId /\ pq' = pq
  BY IdAssumption DEF ReportProduct
<1>3. Reserved' = Reserved /\ Handshake' = Handshake /\ cmdProductID' = cmdProductID
  BY <1>2, AsideHandshake DEF Reserved
<1>4. PICK e, r : e = [id |-> id, params |-> NoParams] /\ r = Queue_push(rq, e)
  OBVIOUS
<1>5. e \in Product /\ e.id = id
  BY <1>4, ItemAssumption
<1>6. Service!IsReported(id) <=> Queue_find(rq, id).found
  BY <1>1, ServiceReports
<1>7. Len(Reported) = rq.count
  BY <1>1, ServiceSees
<1>8. CASE Queue_find(rq, id).found
  <2>1. rq' = rq /\ reply' = Reply("ReportProduct", id, 0, "RQErrIdAlreadyKnown", 0, 0)
    BY <1>2, <1>8 DEF ReportProduct, Answer
  <2>2. Service!ReportAnswer(id) = "RQErrIdAlreadyKnown"
    BY <1>6, <1>8 DEF Service!ReportAnswer
  <2> QED
    BY <1>2, <1>3, <2>1, <2>2, ReplyFields DEF Service!Report, Reserved, Reported
<1>9. CASE ~ Queue_find(rq, id).found
  <2>1. rq' = r.queue /\ reply' = Reply("ReportProduct", id, 0, Outcome(r.status), 0, 0)
    BY <1>2, <1>4, <1>9 DEF ReportProduct, Answer
  <2>2. Service!ReportAnswer(id) = IF rq.count = SubQueueCount THEN "PQErrBufferIsFull"
                                                               ELSE "Success"
    BY <1>6, <1>7, <1>9 DEF Service!ReportAnswer, Reported
  <2>3. CASE rq.count = SubQueueCount
    <3>1. rq' = rq /\ Outcome(r.status) = "PQErrBufferIsFull"
      BY <1>1, <1>4, <1>5, <2>1, <2>3, PushContents DEF Outcome, PQNoError
    <3> QED
      BY <1>2, <1>3, <2>1, <2>2, <2>3, <3>1, ReplyFields DEF Service!Report, Reserved, Reported
  <2>4. CASE rq.count # SubQueueCount
    <3>1. /\ Contents(rq') = Append(Contents(rq), e) /\ rq'.count = rq.count + 1
          /\ Outcome(r.status) = "Success"
      BY <1>1, <1>4, <1>5, <2>1, <2>4, PushContents DEF Outcome, PQNoError
    <3>2. Contents(rq) \in Seq(Product) /\ Len(Contents(rq)) = rq.count
      BY <1>1, ContentsProperties
    <3>3. Len(Append(Contents(rq), e)) = rq'.count
      BY <1>5, <3>1, <3>2
    <3>4. Reported' = Append(Reported, id)
      BY <1>5, <3>1, <3>2, <3>3, IdsOfAppend DEF Reported
    <3>5. Service!ReportAnswer(id) = "Success"
      BY <2>2, <2>4
    <3>6. Service!Report(id)
      BY <1>2, <1>3, <3>4, <3>5 DEF Service!Report, Reserved, Reported
    <3> QED
      BY <2>1, <3>1, <3>5, <3>6, ReplyFields
  <2> QED
    BY <2>3, <2>4
<1> QED
  BY <1>8, <1>9

\* PQueue_find finds what the service knows as reserved.
LEMMA ReservedIsFound ==
  ASSUME GoodPQueue(pq), NEW id
  PROVE  Service!IsReserved(id) <=> PQueue_find(pq, id).found
<1>1. PQueue_find(pq, id).found <=>
        \E p \in Priorities : \E k \in 1 .. Len(Listed(pq, p)) : Listed(pq, p)[k].id = id
  BY PQFind
<1>2. ASSUME Service!IsReserved(id) PROVE PQueue_find(pq, id).found
  <2>1. PICK x \in Service!Places : Service!Entry(x).id = id
    BY <1>2 DEF Service!IsReserved
  <2>2. PICK p, k, i : Place(pq, p, k, i) /\ x = <<p, k + 1>>
    BY ServicePlaces
  <2>3. /\ p \in Priorities /\ k + 1 \in 1 .. Len(Listed(pq, p))
        /\ Listed(pq, p)[k + 1].id = id
    BY <2>1, <2>2, GoodCounts, SubQueueCountAssumption, ServicePlaces DEF Place
  <2> QED
    BY <1>1, <2>3
<1>3. ASSUME PQueue_find(pq, id).found PROVE Service!IsReserved(id)
  <2>1. PICK p \in Priorities : \E k \in 1 .. Len(Listed(pq, p)) : Listed(pq, p)[k].id = id
    BY <1>1, <1>3
  <2>2. PICK k \in 1 .. Len(Listed(pq, p)) : Listed(pq, p)[k].id = id
    BY <2>1
  <2>3. PICK i : i = CountUpTo(pq, p - 1) + (k - 1)
    OBVIOUS
  <2>4. Place(pq, p, k - 1, i) /\ (k - 1) + 1 = k
    BY <2>3, GoodCounts, SubQueueCountAssumption DEF Place
  <2>5. <<p, k>> \in Service!Places /\ Service!Entry(<<p, k>>) = Listed(pq, p)[k]
    BY <2>4, ServicePlaces
  <2> QED
    BY <2>2, <2>5 DEF Service!IsReserved
<1> QED
  BY <1>2, <1>3

\* So does ReserveAction.
LEMMA ReserveIsPromised ==
  ASSUME IInv, Aside, NEW id \in Id, NEW priority \in Priorities, NEW params \in Params,
         ReserveAction(id, priority, params)
  PROVE  /\ Service!Reserve(id, priority, params) /\ reply'.id = id
         /\ reply'.method = "ReserveAction" /\ reply'.priority = priority
         /\ reply'.message = Service!ReserveAnswer(id, priority, params)
<1>1. GoodPQueue(pq) /\ GoodQueue(rq)
  BY DEF IInv, QueuesGood
<1>2. id # noId /\ rq' = rq
  BY IdAssumption DEF ReserveAction
<1>3. Reported' = Reported /\ Handshake' = Handshake /\ cmdProductID' = cmdProductID
  BY <1>2, AsideHandshake DEF Reported
<1>4. PICK e, r : e = [id |-> id, params |-> params] /\ r = PQueue_push(pq, e, priority)
  OBVIOUS
<1>5. e \in Product
  BY <1>4, ItemAssumption
<1>6. Service!IsReserved(id) <=> PQueue_find(pq, id).found
  BY <1>1, ReservedIsFound
<1>7. params \notin {p \in Params : SupportValue(p) # 0} <=> SupportValue(params) = 0
  OBVIOUS
<1>8. Reserved[priority] = Listed(pq, priority)
  BY <1>1, ServiceSees
<1>9. ASSUME NEW message, message # "Success", pq' = pq,
             reply' = Reply("ReserveAction", id, priority, message, 0, 0),
             Service!ReserveAnswer(id, priority, params) = message
      PROVE  /\ Service!Reserve(id, priority, params) /\ reply'.id = id
             /\ reply'.method = "ReserveAction" /\ reply'.priority = priority
             /\ reply'.message = Service!ReserveAnswer(id, priority, params)
  BY <1>3, <1>9, ReplyFields DEF Service!Reserve, Reserved, Reported
<1>10. CASE PQueue_find(pq, id).found
  <2>1. pq' = pq /\ reply' = Reply("ReserveAction", id, priority, "PQErrItemAlreadyInQueue", 0, 0)
    BY <1>2, <1>10 DEF ReserveAction
  <2>2. Service!ReserveAnswer(id, priority, params) = "PQErrItemAlreadyInQueue"
    BY <1>6, <1>10 DEF Service!ReserveAnswer
  <2> QED
    BY <1>9, <2>1, <2>2
<1>11. CASE ~ PQueue_find(pq, id).found /\ SupportValue(params) = 0
  <2>1. pq' = pq /\ reply' = Reply("ReserveAction", id, priority, "ErrItemNotSupported", 0, 0)
    BY <1>2, <1>11 DEF ReserveAction
  <2>2. Service!ReserveAnswer(id, priority, params) = "ErrItemNotSupported"
    BY <1>6, <1>7, <1>11 DEF Service!ReserveAnswer
  <2> QED
    BY <1>9, <2>1, <2>2
<1>12. CASE ~ PQueue_find(pq, id).found /\ SupportValue(params) # 0
  <2>1. pq' = r.pqueue /\ reply' = Reply("ReserveAction", id, priority, Outcome(r.status), 0, 0)
    BY <1>2, <1>4, <1>12 DEF ReserveAction
  <2>2. Service!ReserveAnswer(id, priority, params) =
          IF Len(Listed(pq, priority)) = SubQueueCount THEN "PQErrBufferIsFull" ELSE "Success"
    BY <1>6, <1>7, <1>8, <1>12 DEF Service!ReserveAnswer, Reserved
  <2>3. CASE Len(Listed(pq, priority)) = SubQueueCount
    <3>1. pq' = pq /\ Outcome(r.status) = "PQErrBufferIsFull"
      BY <1>1, <1>4, <1>5, <2>1, <2>3, PQPush DEF Outcome, PQNoError
    <3> QED
      BY <1>9, <2>1, <2>2, <2>3, <3>1
  <2>4. CASE Len(Listed(pq, priority)) # SubQueueCount
    <3>1. /\ Outcome(r.status) = "Success"
          /\ pq'.activeItemPosition = pq.activeItemPosition
          /\ \A h \in Priorities :
               Listed(pq', h) = IF h = priority THEN Append(Listed(pq, priority), e)
                                                ELSE Listed(pq, h)
      BY <1>1, <1>4, <1>5, <2>1, <2>4, PQPush DEF Outcome, PQNoError
    <3>2. Reserved' = [Reserved EXCEPT ![priority] = Append(@, [id |-> id, params |-> params])]
      BY <1>4, <3>1 DEF Reserved, Listed
    <3> QED
      BY <1>3, <2>1, <2>2, <2>4, <3>1, <3>2, ReplyFields DEF Service!Reserve, Reserved, Reported
  <2> QED
    BY <2>3, <2>4
<1> QED
  BY <1>10, <1>11, <1>12

\* The index of the oldest entry with an id, as the service looks for it.
OldestAt(list, id) == Service!SelectInSeq(list, LAMBDA a : a.id = id)

\* The index of the oldest entry with an id is one more than the position
\* Queue_find answers.
LEMMA ListIsSearched ==
  ASSUME GoodPQueue(pq), NEW id, NEW p \in Priorities,
         NEW list, list = Contents(pq.buffer[p]),
         NEW answer, answer = Queue_find(pq.buffer[p], id)
  PROVE  OldestAt(list, id) =
           IF answer.found THEN answer.position + 1 ELSE 0
<1> DEFINE places == {i \in 1 .. Len(list) : list[i].id = id}
<1>1. GoodQueue(pq.buffer[p]) /\ Len(list) = pq.buffer[p].count /\ Len(list) \in Nat
  BY GoodCounts, ContentsProperties, SubQueueCountAssumption
<1>2. OldestAt(list, id) =
        IF places # {} THEN CHOOSE x \in places : \A y \in places : x =< y ELSE 0
  BY DEF OldestAt, Service!SelectInSeq, Service!Min
<1>3. /\ answer.found <=> places # {}
      /\ answer.found => /\ answer.position + 1 \in places
                         /\ \A k \in places : answer.position + 1 <= k
  <2>1. /\ answer.found <=> \E k \in 1 .. Len(list) : list[k].id = id
        /\ answer.found => /\ answer.position \in 0 .. Len(list) - 1
                           /\ list[answer.position + 1].id = id
                           /\ \A k \in 1 .. Len(list) : list[k].id = id => answer.position + 1 <= k
    BY <1>1, FindContents
  <2> QED
    BY <1>1, <2>1
<1>4. \A x, y \in places : x <= y /\ y <= x => x = y
  OBVIOUS
<1> HIDE DEF places
<1> QED
  BY <1>2, <1>3, <1>4

\* What GetStatus looks up: the position inside the first priority that has it.
LEMMA StatusIsPromised ==
  ASSUME IInv, Aside, NEW id \in Id, GetStatus(id)
  PROVE  /\ reply'.method = "GetStatus" /\ reply'.id = id
         /\ Service!StatusAnswer(id) =
              [message |-> reply'.message, position |-> reply'.position]
<1> DEFINE answer == [p \in Priorities |-> Queue_find(pq.buffer[p], id)]
           hits   == {p \in Priorities : answer[p].found}
           first  == CHOOSE p \in hits : \A h \in hits : p <= h
           place(p) == OldestAt(Reserved[p], id)
           holding  == {p \in Priorities : place(p) > 0}
           chosen   == CHOOSE p \in holding : \A q \in holding : p <= q
<1>1. GoodPQueue(pq) /\ id # noId /\ Service!Priorities = Priorities
  BY IdAssumption DEF IInv, QueuesGood, Service!Priorities, Priorities
<1>2. \A p \in Priorities :
        /\ place(p) = IF answer[p].found THEN answer[p].position + 1 ELSE 0
        /\ answer[p].found => answer[p].position \in Nat
  <2> TAKE p \in Priorities
  <2>1. Reserved[p] = Contents(pq.buffer[p]) /\ answer[p] = Queue_find(pq.buffer[p], id)
    BY DEF Reserved
  <2>2. answer[p].found => answer[p].position \in Nat
    BY <1>1, <2>1, GoodCounts, FindContents, SubQueueCountAssumption
  <2>3. place(p) = IF answer[p].found THEN answer[p].position + 1 ELSE 0
    BY <1>1, <2>1, ListIsSearched
  <2> QED
    BY <2>2, <2>3
<1>3. PQueue_find(pq, id) = IF hits = {} THEN [found |-> FALSE, position |-> 0]
                            ELSE [found |-> TRUE, position |-> answer[first].position]
  BY DEF PQueue_find
<1>4. Service!StatusAnswer(id) =
        IF holding = {} THEN [message |-> "PQErrItemNotFound", position |-> 0]
        ELSE IF place(chosen) - 1 = pq.activeItemPosition
          THEN [message |-> "inProgress", position |-> 0]
        ELSE [message |-> "position", position |-> place(chosen) - 1]
  BY <1>1 DEF Service!StatusAnswer, Reserved, OldestAt
<1>5. hits = holding
  <2> HIDE DEF answer, place
  <2> QED
    BY <1>2
<1>6. hits # {} => first \in hits
  <2>1. hits \in SUBSET Nat
    BY PrioritiesProperties
  <2> QED
    BY <2>1, LeastNumber
<1> HIDE DEF answer, place
<1>7. chosen = first
  BY <1>5
<1>8. hits # {} => place(chosen) - 1 = answer[first].position
  <2> SUFFICES ASSUME hits # {} PROVE place(chosen) - 1 = answer[first].position
    OBVIOUS
  <2>1. PICK p \in hits : p = first
    BY <1>6
  <2>2. place(p) = answer[p].position + 1 /\ answer[p].position \in Nat
    BY <1>2
  <2>3. place(p) - 1 = answer[p].position
    BY <2>2
  <2> QED
    BY <1>7, <2>1, <2>3
<1> HIDE DEF hits, holding, first, chosen
<1>9. CASE hits = {}
  <2>1. reply' = Reply("GetStatus", id, 0, "PQErrItemNotFound", 0, 0)
    BY <1>1, <1>3, <1>9 DEF GetStatus, Answer
  <2> QED
    BY <1>4, <1>5, <1>9, <2>1, ReplyFields
<1>10. CASE hits # {}
  <2>1. PQueue_find(pq, id).found /\ PQueue_find(pq, id).position = answer[first].position
    BY <1>3, <1>10
  <2>2. CASE answer[first].position = pq.activeItemPosition
    <3>1. reply' = Reply("GetStatus", id, 0, "inProgress", 0, 0)
      BY <1>1, <2>1, <2>2 DEF GetStatus, Answer
    <3> QED
      BY <1>4, <1>5, <1>8, <1>10, <2>2, <3>1, ReplyFields
  <2>3. CASE answer[first].position # pq.activeItemPosition
    <3>1. reply' = Reply("GetStatus", id, 0, "position", answer[first].position, 0)
      BY <1>1, <2>1, <2>3 DEF GetStatus, Answer
    <3> QED
      BY <1>4, <1>5, <1>8, <1>10, <2>3, <3>1, ReplyFields
  <2> QED
    BY <2>2, <2>3
<1> QED
  BY <1>9, <1>10

\* A method call is a report or a reservation, or changes nothing the service
\* knows of.
LEMMA CallIsServed ==
  ASSUME IInv, "FreeFromQueue" \notin Called, MethodCall
  PROVE  [Service!ServiceNext]_(Service!serviceVars)
<1>1. Aside /\ Call
  BY DEF MethodCall, Aside
<1>2. PICK id \in Id \cup {noId} :
        \/ ReportProduct(id)
        \/ \E priority \in Priorities, params \in Params :
             \/ ReserveAction(id, priority, params)
             \/ GetSupported(id, priority, params)
        \/ GetStatus(id)
        \/ FreeFromQueue(id)
        \/ FreeFromPosition(id)
  BY <1>1 DEF Call
<1>3. ASSUME pq' = pq, rq' = rq
      PROVE  UNCHANGED Service!serviceVars
  BY <1>1, <1>3, AsideHandshake, ServiceRests DEF Reserved, Reported
<1>4. CASE ReportProduct(id)
  <2>1. CASE id \in Id
    BY <1>1, <1>4, <2>1, ReportIsPromised DEF Service!ServiceNext
  <2>2. CASE id = noId
    BY <1>3, <1>4, <2>2 DEF ReportProduct
  <2> QED
    BY <2>1, <2>2
<1>5. ASSUME NEW priority \in Priorities, NEW params \in Params,
             ReserveAction(id, priority, params)
      PROVE  [Service!ServiceNext]_(Service!serviceVars)
  <2>1. CASE id \in Id
    <3>1. Service!Reserve(id, priority, params) /\ priority \in Service!Priorities
      BY <1>1, <1>5, <2>1, ReserveIsPromised DEF Service!Priorities, Priorities
    <3> QED
      BY <2>1, <3>1 DEF Service!ServiceNext
  <2>2. CASE id = noId
    BY <1>3, <1>5, <2>2 DEF ReserveAction
  <2> QED
    BY <2>1, <2>2
<1>6. ASSUME NEW priority \in Priorities, NEW params \in Params,
             GetSupported(id, priority, params)
      PROVE  UNCHANGED Service!serviceVars
  BY <1>3, <1>6 DEF GetSupported
<1>7. GetStatus(id) \/ FreeFromPosition(id) => UNCHANGED Service!serviceVars
  BY <1>3 DEF GetStatus, FreeFromPosition
<1>8. ~ FreeFromQueue(id)
  BY DEF FreeFromQueue
<1> QED
  BY <1>2, <1>4, <1>5, <1>6, <1>7, <1>8

-----------------------------------------------------------------------------
\* The ids of a list one entry is taken out of.
LEMMA IdsOfRemoval ==
  ASSUME NEW s \in Seq(Product), NEW k \in 1 .. Len(s)
  PROVE  [i \in 1 .. Len(RemoveAt(s, k)) |-> RemoveAt(s, k)[i].id] =
           RemoveAt([i \in 1 .. Len(s) |-> s[i].id], k)
<1> DEFINE T     == {x.id : x \in Product}
           left  == [i \in 1 .. Len(RemoveAt(s, k)) |-> RemoveAt(s, k)[i].id]
           ids   == [i \in 1 .. Len(s) |-> s[i].id]
<1>1. /\ RemoveAt(s, k) \in Seq(Product) /\ Len(RemoveAt(s, k)) = Len(s) - 1
      /\ \A i \in 1 .. Len(s) - 1 : RemoveAt(s, k)[i] = IF i < k THEN s[i] ELSE s[i + 1]
  BY RemoveAtProperties
<1>2. ids \in Seq(T) /\ Len(ids) = Len(s) /\ Len(s) \in Nat
  <2>1. ids \in [1 .. Len(s) -> T] /\ Len(s) \in Nat
    OBVIOUS
  <2> QED
    BY <2>1
<1>3. PICK right : right = RemoveAt(ids, k)
  OBVIOUS
<1>4. /\ right \in Seq(T) /\ Len(right) = Len(s) - 1
      /\ \A i \in 1 .. Len(s) - 1 : right[i] = IF i < k THEN ids[i] ELSE ids[i + 1]
  <2> HIDE DEF ids, T
  <2> QED
    BY <1>2, <1>3, RemoveAtProperties
<1>5. left = [i \in 1 .. Len(s) - 1 |-> left[i]]
  BY <1>1
<1>6. right = [i \in 1 .. Len(s) - 1 |-> right[i]]
  BY <1>2, <1>4
<1>7. ASSUME NEW i \in 1 .. Len(s) - 1
      PROVE  left[i] = right[i]
  <2>1. left[i] = RemoveAt(s, k)[i].id
    BY <1>1
  <2>2. i \in 1 .. Len(s) /\ (~ i < k => i + 1 \in 1 .. Len(s))
    BY <1>2
  <2> QED
    BY <1>1, <1>4, <2>1, <2>2
<1> HIDE DEF left
<1>8. left = right
  BY <1>5, <1>6, <1>7
<1> QED
  BY <1>3, <1>8 DEF left

\* The action and the product the service lets go are the ones the falling edge
\* takes out.
LEMMA RemovalIsPromised ==
  ASSUME IInv, NEW sel, sel = CheckAction, Picked(sel), sel.found, deviceRunning,
         Conclude(sel, FALSE), UNCHANGED cmdProductID
  PROVE  Service!End
<1>1. GoodPQueue(pq) /\ GoodQueue(rq) /\ Distinct(Contents(rq))
  BY DEF IInv, QueuesGood, NothingTwice
<1>2. PICK p, k : /\ Place(pq, p, k, sel.p) /\ Service!Pick = <<p, k + 1>>
                  /\ Service!Entry(Service!Pick) = sel.item
  BY <1>1, PickIsFound
<1>3. PICK i, j, id : i = sel.p /\ j = sel.rp /\ id = sel.item.id
  OBVIOUS
<1>4. PICK n : n = PQueue_removeByPosition(pq, i).pqueue
  OBVIOUS
<1>5. /\ rq' = Queue_remove(rq, j).queue /\ deviceRunning' = FALSE
      /\ pq' = [n EXCEPT !.activeItemPosition = -1]
  BY <1>3, <1>4, ConcludeFields
<1>6. /\ Handshake' = "idle"
      /\ j \in 0 .. rq.count - 1 /\ Contents(rq)[j + 1].id = id
  BY <1>3, <1>5 DEF Handshake, Picked
<1>7. /\ GoodPQueue(n)
      /\ \A h \in Priorities : Listed(n, h) = IF h = p THEN RemoveAt(Listed(pq, p), k + 1)
                                                       ELSE Listed(pq, h)
  BY <1>1, <1>2, <1>3, <1>4, PQRemove
<1>8. -1 \in -1 .. PriorityCount * SubQueueCount
  BY PriorityCountAssumption, SubQueueCountAssumption
<1>9. /\ pq'.activeItemPosition = -1
      /\ \A h \in Priorities : Listed(pq', h) = Listed(n, h)
  <2>1. PICK q : q = [n EXCEPT !.activeItemPosition = -1]
    OBVIOUS
  <2>2. q.activeItemPosition = -1 /\ \A h \in Priorities : Listed(q, h) = Listed(n, h)
    BY <1>7, <1>8, <2>1, ActiveOnly
  <2> QED
    BY <1>5, <2>1, <2>2
<1>10. Reserved' = [Reserved EXCEPT ![p] = RemoveAt(@, k + 1)]
  BY <1>7, <1>9 DEF Reserved, Listed
<1>11. Reported' = RemoveAt(Reported, j + 1)
  <2>1. /\ Contents(rq') = RemoveAt(Contents(rq), j + 1) /\ rq'.count = rq.count - 1
        /\ Contents(rq) \in Seq(Product) /\ Len(Contents(rq)) = rq.count
        /\ rq.count \in Nat
    <3>1. PICK r : r = Queue_remove(rq, j).queue
      OBVIOUS
    <3>2. Contents(r) = RemoveAt(Contents(rq), j + 1) /\ r.count = rq.count - 1
      BY <1>1, <1>6, <3>1, RemoveContents
    <3> QED
      BY <1>1, <1>5, <3>1, <3>2, ContentsProperties, SubQueueCountAssumption
  <2>2. j + 1 \in 1 .. Len(Contents(rq))
    BY <1>6, <2>1
  <2>3. Len(Contents(rq')) = rq'.count
    BY <2>1, <2>2, RemoveAtProperties
  <2>4. PICK s : s = Contents(rq)
    OBVIOUS
  <2>5. [m \in 1 .. Len(RemoveAt(s, j + 1)) |-> RemoveAt(s, j + 1)[m].id] =
          RemoveAt([m \in 1 .. Len(s) |-> s[m].id], j + 1)
    BY <2>1, <2>2, <2>4, IdsOfRemoval
  <2>6. Reported = [m \in 1 .. Len(s) |-> s[m].id]
    BY <2>1, <2>4 DEF Reported
  <2>7. Reported' = [m \in 1 .. Len(RemoveAt(s, j + 1)) |-> RemoveAt(s, j + 1)[m].id]
    BY <2>1, <2>3, <2>4 DEF Reported
  <2> QED
    BY <2>5, <2>6, <2>7
<1>12. (CHOOSE m \in DOMAIN Reported : Reported[m] = id) = j + 1
  <2>1. DOMAIN Reported = 1 .. rq.count /\ DOMAIN Contents(rq) = 1 .. rq.count
        /\ \A m \in 1 .. rq.count : Reported[m] = Contents(rq)[m].id
    BY DEF Reported, Contents
  <2>2. j + 1 \in 1 .. rq.count
    BY <1>1, <1>6, ContentsProperties, SubQueueCountAssumption
  <2>3. \A m \in 1 .. rq.count : Reported[m] = id => m = j + 1
    BY <1>1, <1>6, <2>1, <2>2 DEF Distinct
  <2>4. Reported[j + 1] = id
    BY <1>6, <2>1, <2>2
  <2> QED
    BY <2>1, <2>2, <2>3, <2>4
<1>13. PICK pick, told : pick = Service!Pick /\ told = Service!Entry(Service!Pick).id
  OBVIOUS
<1>14. pick[1] = p /\ pick[2] = k + 1 /\ told = id
  BY <1>2, <1>3, <1>13
<1>15. /\ Reserved' = [Reserved EXCEPT ![pick[1]] = RemoveAt(@, pick[2])]
       /\ Reported' = RemoveAt(Reported, CHOOSE m \in DOMAIN Reported : Reported[m] = told)
  BY <1>10, <1>11, <1>12, <1>14
<1> QED
  BY <1>6, <1>9, <1>13, <1>15
     DEF Service!End, Service!Withdraw, Reserved, Reported, RemoveAt, Service!RemoveAt

\* DeviceSlow is in a step of its handshake just while the device runs.
RunsInStep == deviceRunning <=> seqState # 0

\* Without the gate DeviceSlow is called with what CheckAction finds.
LEMMA SelectedIsChecked ==
  ASSUME SelectWhile = BOOLEAN, IInv, NEW sel, sel = Selected
  PROVE  sel = CheckAction /\ Picked(sel)
<1>1. deviceRunning \in SelectWhile
  BY DEF IInv, TypeOK
<1> QED
  BY <1>1, SelectedIsPicked DEF Selected

\* No branch of DeviceSlow leaves the device running without a step.
LEMMA StepIsKept ==
  ASSUME IInv, RunsInStep, [Next]_vars
  PROVE  RunsInStep'
<1>1. ASSUME NEW sel, DeviceSlow(sel)
      PROVE  RunsInStep'
  <2>1. ASSUME NEW state, NEW command, NEW status, NEW running, NEW valid,
               Drive(sel, state, command, status, running, valid)
        PROVE  seqState' = state /\ deviceRunning' = running
    BY <2>1, ConcludeFields DEF Drive
  <2>2. ASSUME KeepIdle(sel) \/ RejectItem(sel) \/ Complete(sel) \/ Fail(sel)
        PROVE  seqState' = 0 /\ deviceRunning' = FALSE
    BY <2>1, <2>2 DEF KeepIdle, RejectItem, Complete, Fail
  <2>3. ASSUME Announce(sel) \/ PulseSetReady(sel) \/ PulseStart(sel) \/ PulseResetDone(sel)
        PROVE  seqState' \in {10, 20, 40, 70} /\ deviceRunning' = TRUE
    <3>1. CASE Announce(sel)
      BY <2>1, <3>1 DEF Announce
    <3>2. CASE PulseSetReady(sel)
      BY <2>1, <3>2 DEF PulseSetReady
    <3>3. CASE PulseStart(sel)
      BY <2>1, <3>3 DEF PulseStart
    <3>4. CASE PulseResetDone(sel)
      BY <2>1, <3>4 DEF PulseResetDone
    <3> QED
      BY <2>3, <3>1, <3>2, <3>3, <3>4
  <2>4. ASSUME NEW answered \in BOOLEAN, NEW failing \in BOOLEAN, NEW expired \in BOOLEAN,
               Await(sel, answered, failing, expired)
        PROVE  seqState' # 0 /\ deviceRunning' = TRUE
    <3>1. seqState \in Waiting
      BY <2>4 DEF Await, InStep
    <3>2. PICK state : /\ Drive(sel, state, "none", actionStatus, TRUE, TRUE)
                       /\ state = IF answered THEN Answered[seqState]
                                  ELSE IF failing \/ expired THEN 100 ELSE seqState
      BY <2>4 DEF Await
    <3>3. state # 0
      BY <3>1, <3>2 DEF Answered, Waiting
    <3> QED
      BY <2>1, <3>2, <3>3
  <2>5. \/ seqState' = 0 /\ deviceRunning' = FALSE
        \/ seqState' # 0 /\ deviceRunning' = TRUE
    <3>1. \A state : state \in {10, 20, 40, 70} => state # 0
      OBVIOUS
    <3> QED
      BY <1>1, <2>2, <2>3, <2>4, <3>1, Zenon DEF DeviceSlow
  <2> QED
    BY <2>5 DEF RunsInStep
<1>2. CASE Scan
  BY <1>1, <1>2 DEF Scan
<1>3. CASE MethodCall
  BY <1>3 DEF MethodCall, device, RunsInStep
<1>4. CASE UNCHANGED vars
  BY <1>4 DEF vars, device, RunsInStep
<1> QED
  BY <1>2, <1>3, <1>4 DEF Next

\* A cycle in which the device goes on, or begins, with what it found.
LEMMA RunIsPromised ==
  ASSUME IInv, NEW sel, sel = CheckAction, Picked(sel), sel.found, PassesCheck(sel.item),
         Conclude(sel, TRUE)
  PROVE  /\ Service!Runs /\ deviceRunning' = TRUE
         /\ Reserved' = Reserved /\ Reported' = Reported
         /\ pq'.activeItemPosition = Service!Position(Service!Pick)
         /\ Service!Entry(Service!Pick).id = sel.item.id
<1>1. GoodPQueue(pq) /\ GoodQueue(rq)
  BY DEF IInv, QueuesGood
<1>2. /\ Service!Runs
      /\ Service!Position(Service!Pick) = sel.p /\ Service!Entry(Service!Pick) = sel.item
  BY <1>1, RunsWhenPassed, PickIsFound
<1>3. /\ rq' = rq /\ pq'.activeItemPosition = sel.p
      /\ \A p \in Priorities : Listed(pq', p) = Listed(pq, p)
  BY QueuesStay
<1>4. deviceRunning' = TRUE
  BY ConcludeFields
<1> QED
  BY <1>2, <1>3, <1>4, ReservedStays DEF Reported

\* A cycle that ends with the device idle as it was.
LEMMA RestIsPromised ==
  ASSUME IInv, NEW sel, sel = CheckAction, Picked(sel),
         ~ (sel.found /\ PassesCheck(sel.item)), ~ deviceRunning,
         Conclude(sel, FALSE), UNCHANGED cmdProductID
  PROVE  Service!Rest
<1>1. GoodPQueue(pq) /\ GoodQueue(rq)
  BY DEF IInv, QueuesGood
<1>2. ~ Service!Runs
  BY <1>1, RunsWhenPassed
<1>3. /\ rq' = rq /\ \A p \in Priorities : Listed(pq', p) = Listed(pq, p)
  BY QueuesStay
<1>4. deviceRunning' = FALSE /\ pq'.activeItemPosition = -1
  <2>1. pq' = [pq EXCEPT !.activeItemPosition = -1] /\ deviceRunning' = FALSE
    BY ConcludeFields DEF PublishedPosition
  <2>2. DOMAIN pq = DOMAIN EmptyPQueue
    BY <1>1 DEF GoodPQueue, PQueueData, EmptyPQueue
  <2>3. "activeItemPosition" \in DOMAIN pq
    BY <2>2 DEF EmptyPQueue
  <2> QED
    BY <2>1, <2>3
<1>5. Reserved' = Reserved /\ Reported' = Reported
  BY <1>3, ReservedStays DEF Reported
<1> QED
  BY <1>2, <1>4, <1>5 DEF Service!Rest, Handshake, Reserved, Reported

\* What the service calls a step of DeviceSlow.
Told(state) ==
  IF state = 0 THEN "idle" ELSE IF state = 100 THEN "failing"
  ELSE IF state \in {10, 20, 30} THEN "told" ELSE "started"

LEMMA ToldStates ==
  /\ Told(0) = "idle" /\ Told(100) = "failing"
  /\ \A state \in {10, 20, 30} : Told(state) = "told"
  /\ \A state \in {40, 50, 60, 70, 80} : Told(state) = "started"
BY DEF Told

\* A step of the handshake with a valid action: the states it starts and ends in.
LEMMA StepIsPromised ==
  ASSUME IInv, RunsInStep, NEW sel, sel = CheckAction, Picked(sel),
         NEW state \in SeqStates, NEW command, NEW status,
         state # 0, sel.found, PassesCheck(sel.item),
         Drive(sel, state, command, status, TRUE, TRUE)
  PROVE  /\ Service!Runs /\ deviceRunning' = TRUE /\ seqState' = state
         /\ Reserved' = Reserved /\ Reported' = Reported
         /\ pq'.activeItemPosition = Service!Position(Service!Pick)
         /\ Service!Entry(Service!Pick).id = sel.item.id
         /\ Handshake' = Told(state) /\ Handshake = Told(seqState)
<1>1. Conclude(sel, TRUE) /\ seqState' = state
  BY DEF Drive
<1>2. deviceRunning' = TRUE
  BY <1>1, RunIsPromised
<1> QED
  BY <1>1, <1>2, RunIsPromised DEF Handshake, RunsInStep, Told

\* Every cycle is a step of the service.
LEMMA ScanIsServed ==
  ASSUME SelectWhile = BOOLEAN, IInv, RunsInStep, Scan
  PROVE  Service!Cycle
<1>1. PICK sel : sel = Selected /\ DeviceSlow(sel)
  BY DEF Scan
<1>2. sel = CheckAction /\ Picked(sel)
  BY <1>1, SelectedIsChecked
<1>3. GoodPQueue(pq) /\ GoodQueue(rq) /\ deviceRunning \in BOOLEAN
  BY DEF IInv, QueuesGood, TypeOK
<1>4. /\ Service!Runs <=> sel.found /\ PassesCheck(sel.item)
      /\ sel.found <=> Service!Ready # {}
  BY <1>2, <1>3, RunsWhenPassed, PickIsFound
<1>5. ASSUME KeepIdle(sel) \/ RejectItem(sel)
      PROVE  Service!Rest \/ Service!Reject
  <2>1. /\ Conclude(sel, FALSE) /\ UNCHANGED cmdProductID
        /\ ~ (sel.found /\ PassesCheck(sel.item))
    BY <1>5 DEF KeepIdle, RejectItem, Drive
  <2>2. CASE ~ deviceRunning
    BY <1>2, <2>1, <2>2, RestIsPromised
  <2>3. CASE deviceRunning
    <3>1. sel.found
      BY <1>2, <2>3 DEF Picked
    <3>2. Service!End
      BY <1>2, <2>1, <2>3, <3>1, RemovalIsPromised
    <3>3. Handshake # "idle"
      BY <2>3 DEF Handshake
    <3> QED
      BY <1>4, <2>1, <3>1, <3>2, <3>3 DEF Service!Reject
  <2> QED
    BY <2>2, <2>3
<1>6. ASSUME Complete(sel) \/ Fail(sel)
      PROVE  Service!Complete \/ Service!Fail
  <2>1. /\ Conclude(sel, FALSE) /\ UNCHANGED cmdProductID
        /\ sel.found /\ PassesCheck(sel.item)
        /\ seqState \in {80, 100}
    BY <1>6 DEF Complete, Fail, InStep, Drive
  <2>2. deviceRunning
    BY <2>1 DEF RunsInStep
  <2>3. Service!End /\ Service!Runs
    BY <1>2, <1>4, <2>1, <2>2, RemovalIsPromised
  <2>4. seqState = 80 => Handshake = "started"
    BY <2>2 DEF Handshake
  <2>5. seqState = 100 => Handshake = "failing"
    BY <2>2 DEF Handshake
  <2> QED
    BY <2>1, <2>3, <2>4, <2>5 DEF Service!Complete, Service!Fail
<1>7. ASSUME Announce(sel)
      PROVE  Service!Begin
  <2>1. PICK state, status :
          /\ sel.found /\ PassesCheck(sel.item) /\ seqState = 0 /\ cmdProductID' = sel.item.id
          /\ Drive(sel, state, "none", status, TRUE, TRUE) /\ state = 10
    BY <1>7 DEF Announce, InStep
  <2>2. state \in SeqStates /\ state # 0 /\ Told(seqState) = "idle" /\ Told(state) = "told"
    BY <2>1, ToldStates DEF SeqStates
  <2>3. /\ Service!Runs /\ Handshake = "idle" /\ Handshake' = "told"
        /\ Reserved' = Reserved /\ Reported' = Reported
        /\ pq'.activeItemPosition = Service!Position(Service!Pick)
        /\ Service!Entry(Service!Pick).id = sel.item.id
    BY <1>2, <2>1, <2>2, StepIsPromised
  <2> QED
    BY <2>1, <2>3 DEF Service!Begin, Reserved, Reported
<1>8. ASSUME NEW state \in SeqStates, NEW command, NEW status, NEW from, NEW to,
             state # 0, sel.found, PassesCheck(sel.item), UNCHANGED cmdProductID,
             Drive(sel, state, command, status, TRUE, TRUE),
             Told(seqState) = from, Told(state) = to
      PROVE  Service!Proceed(from, to)
  BY <1>2, <1>8, StepIsPromised DEF Service!Proceed, Reserved, Reported
<1>9. ASSUME PulseSetReady(sel)
      PROVE  Service!Hold
  <2>1. PICK state, status :
          /\ sel.found /\ PassesCheck(sel.item) /\ seqState = 10 /\ UNCHANGED cmdProductID
          /\ Drive(sel, state, "SetReady", status, TRUE, TRUE) /\ state = 20
    BY <1>9 DEF PulseSetReady, InStep
  <2>2. state \in SeqStates /\ state # 0 /\ Told(seqState) = "told" /\ Told(state) = "told"
    BY <2>1, ToldStates DEF SeqStates, Waiting
  <2> QED
    BY <1>8, <2>1, <2>2 DEF Service!Hold
<1>10. ASSUME PulseStart(sel)
      PROVE  Service!Start
  <2>1. PICK state, status :
          /\ sel.found /\ PassesCheck(sel.item) /\ seqState = 30 /\ UNCHANGED cmdProductID
          /\ Drive(sel, state, "Start", status, TRUE, TRUE) /\ state = 40
    BY <1>10 DEF PulseStart, InStep
  <2>2. state \in SeqStates /\ state # 0 /\ Told(seqState) = "told" /\ Told(state) = "started"
    BY <2>1, ToldStates DEF SeqStates, Waiting
  <2> QED
    BY <1>8, <2>1, <2>2 DEF Service!Start
<1>11. ASSUME PulseResetDone(sel)
      PROVE  Service!Hold
  <2>1. PICK state, status :
          /\ sel.found /\ PassesCheck(sel.item) /\ seqState = 60 /\ UNCHANGED cmdProductID
          /\ Drive(sel, state, "ResetDone", status, TRUE, TRUE) /\ state = 70
    BY <1>11 DEF PulseResetDone, InStep
  <2>2. state \in SeqStates /\ state # 0 /\ Told(seqState) = "started" /\ Told(state) = "started"
    BY <2>1, ToldStates DEF SeqStates, Waiting
  <2> QED
    BY <1>8, <2>1, <2>2 DEF Service!Hold
<1>12. ASSUME NEW answered \in BOOLEAN, NEW failing \in BOOLEAN, NEW expired \in BOOLEAN,
              Await(sel, answered, failing, expired)
       PROVE  Service!Hold \/ Service!Break
  <2>1. /\ sel.found /\ PassesCheck(sel.item) /\ seqState \in Waiting
        /\ UNCHANGED cmdProductID
    BY <1>12 DEF Await, InStep
  <2>2. PICK state, status :
          /\ Drive(sel, state, "none", status, TRUE, TRUE)
          /\ state = IF answered THEN Answered[seqState]
                     ELSE IF failing \/ expired THEN 100 ELSE seqState
    BY <1>12 DEF Await
  <2>3. \/ state = 100
        \/ state \in {20, 30} /\ seqState = 20
        \/ state \in {40, 50, 60, 70, 80} /\ seqState \in {40, 50, 70}
    BY <2>1, <2>2 DEF Answered, Waiting
  <2>4. state \in SeqStates /\ state # 0
    BY <2>3 DEF SeqStates, Waiting
  <2>5. PICK from, to : from = Told(seqState) /\ to = Told(state)
    OBVIOUS
  <2>6. from \in {"told", "started"} /\ (to = from \/ to = "failing")
    BY <2>1, <2>3, <2>5, ToldStates DEF Waiting
  <2>7. Service!Proceed(from, to)
    BY <1>8, <2>1, <2>2, <2>4, <2>5
  <2> QED
    BY <2>6, <2>7 DEF Service!Hold, Service!Break
<1> QED
  BY <1>1, <1>5, <1>6, <1>7, <1>9, <1>10, <1>11, <1>12
     DEF DeviceSlow, Service!Cycle, Service!Advance

-----------------------------------------------------------------------------
\* The start values of the data blocks are those of the service.
LEMMA InitIsServed == Init => Service!ServiceInit /\ RunsInStep
<1> SUFFICES ASSUME Init PROVE Service!ServiceInit /\ RunsInStep
  OBVIOUS
<1>1. /\ pq = EmptyPQueue /\ rq = EmptyQueue /\ deviceRunning = FALSE /\ seqState = 0
      /\ cmdProductID = noId
  BY DEF Init, SPInit
<1>2. \A p \in Priorities : Contents(pq.buffer[p]) = <<>>
  BY <1>1, EmptyPQueueGood DEF Listed
<1>3. Reserved = [p \in Service!Priorities |-> <<>>]
  BY <1>2 DEF Reserved, Service!Priorities, Priorities
<1>4. Reported = <<>>
  BY <1>1 DEF Reported, EmptyQueue
<1>5. Handshake = "idle" /\ pq.activeItemPosition = 0
  BY <1>1 DEF Handshake, EmptyPQueue
<1> QED
  BY <1>1, <1>3, <1>4, <1>5 DEF Service!ServiceInit, RunsInStep, Reserved, Reported

\* With the gate around CheckAction removed and no client taking a reservation
\* back, the blocks of the PLC run the first reserved action whose product is
\* reported, and take just that action and that product out.
THEOREM PlcImplementsService ==
  ASSUME SelectWhile = BOOLEAN, "FreeFromQueue" \notin Called
  PROVE  Spec => ImplementsService
<1>1. Spec => []IInv
  BY PlcInvariant DEF NoneFreedInHandshake
<1>2. IInv /\ RunsInStep /\ [Next]_vars => [Service!ServiceNext]_(Service!serviceVars)
  <2> SUFFICES ASSUME IInv, RunsInStep, [Next]_vars
               PROVE  [Service!ServiceNext]_(Service!serviceVars)
    OBVIOUS
  <2>1. CASE Scan
    BY <2>1, ScanIsServed DEF Service!ServiceNext
  <2>2. CASE MethodCall
    BY <2>2, CallIsServed
  <2>3. CASE UNCHANGED vars
    <3>1. pq' = pq /\ rq' = rq /\ Aside
      BY <2>3 DEF vars, spVars, Aside
    <3> QED
      BY <3>1, AsideHandshake, ServiceRests DEF Reserved, Reported
  <2> QED
    BY <2>1, <2>2, <2>3 DEF Next
<1> QED
  BY <1>1, <1>2, InitIsServed, StepIsKept, PTL DEF Spec, ImplementsService, Service!ServiceSpec

\* Each method answers from what the service knows of.
THEOREM PlcAnswersFromTheLists ==
  ASSUME NoneFreedInHandshake
  PROVE  Spec => AnswersFromTheLists
<1> DEFINE Promised ==
      reply'.id # noId =>
        LET id == reply'.id
        IN /\ reply'.method = "ReportProduct" => reply'.message = Service!ReportAnswer(id)
           /\ reply'.method = "ReserveAction" =>
                \E params \in Params :
                  reply'.message = Service!ReserveAnswer(id, reply'.priority, params)
           /\ reply'.method = "GetStatus" =>
                Service!StatusAnswer(id) =
                  [message |-> reply'.message, position |-> reply'.position]
<1>1. Spec => []IInv
  BY PlcInvariant
<1>2. IInv /\ [Next]_vars => [Promised]_vars
  <2> SUFFICES ASSUME IInv, [Next]_vars, ~ UNCHANGED vars PROVE Promised
    OBVIOUS
  <2>1. ASSUME NEW m, NEW i, NEW p, NEW t, NEW o, NEW u,
               reply' = Reply(m, i, p, t, o, u),
               i = noId \/ m \notin {"ReportProduct", "ReserveAction", "GetStatus"}
        PROVE  Promised
    BY <2>1, ReplyFields
  <2>2. CASE Scan
    <3>1. reply' = Reply("none", noId, 0, "none", 0, 0)
      BY <2>2, ScanAnswers DEF NoReply
    <3> QED
      BY <2>1, <3>1
  <2>3. CASE MethodCall
    <3>1. Aside
      BY <2>3 DEF MethodCall, Aside
    <3>2. PICK id \in Id \cup {noId} :
            \/ ReportProduct(id)
            \/ \E priority \in Priorities, params \in Params :
                 \/ ReserveAction(id, priority, params)
                 \/ GetSupported(id, priority, params)
            \/ GetStatus(id)
            \/ FreeFromQueue(id)
            \/ FreeFromPosition(id)
      BY <2>3 DEF MethodCall, Call
    <3>3. CASE ReportProduct(id)
      <4>1. CASE id = noId
        BY <2>1, <3>3, <4>1 DEF ReportProduct, Answer
      <4>2. CASE id \in Id
        BY <3>1, <3>3, <4>2, ReportIsPromised
      <4> QED
        BY <4>1, <4>2
    <3>4. ASSUME NEW priority \in Priorities, NEW params \in Params,
                 ReserveAction(id, priority, params)
          PROVE  Promised
      <4>1. CASE id = noId
        BY <2>1, <3>4, <4>1 DEF ReserveAction
      <4>2. CASE id \in Id
        BY <3>1, <3>4, <4>2, ReserveIsPromised
      <4> QED
        BY <4>1, <4>2
    <3>5. ASSUME NEW priority \in Priorities, NEW params \in Params,
                 GetSupported(id, priority, params)
          PROVE  Promised
      BY <2>1, <3>5 DEF GetSupported
    <3>6. CASE GetStatus(id)
      <4>1. CASE id = noId
        <5>1. reply' = Reply("GetStatus", id, 0, "PQErrInvalidItemId", 0, 0)
          BY <3>6, <4>1 DEF GetStatus, Answer
        <5> QED
          BY <2>1, <4>1, <5>1
      <4>2. CASE id \in Id
        BY <3>1, <3>6, <4>2, StatusIsPromised
      <4> QED
        BY <4>1, <4>2
    <3>7. CASE FreeFromQueue(id) \/ FreeFromPosition(id)
      BY <2>1, <3>7 DEF FreeFromQueue, FreeFromPosition, Answer
    <3> QED
      BY <3>2, <3>3, <3>4, <3>5, <3>6, <3>7
  <2> QED
    BY <2>2, <2>3 DEF Next
<1> QED
  BY <1>1, <1>2, PTL DEF Spec, AnswersFromTheLists

-----------------------------------------------------------------------------

\* The bits of the machine, and a machine of which just some are on.
Bits == {"Idle", "Ready", "Busy", "Done", "Error", "Sim_start", "Sim_end"}
Machines == [Bits -> BOOLEAN]
Only(m, on) == m \in Machines /\ \A bit \in Bits : m[bit] <=> bit \in on

\* What the machine may be: off or in one of six phases.
Phases == {{}, {"Idle"}, {"Ready"}, {"Busy", "Sim_start"},
           {"Busy", "Sim_start", "Sim_end"}, {"Done"}, {"Error"}}

\* The record of the machine has just these bits.
LEMMA TheBits == DOMAIN MachineOff = Bits
BY DEF MachineOff, Bits

\* What a command makes of each phase it finds the machine in.
LEMMA CommandedOnly ==
  ASSUME NEW m, NEW command, NEW to, NEW c, c = Commanded(m, command, to)
  PROVE  /\ Only(m, {}) => Only(c, IF command = "ResetDone" THEN {"Idle"} ELSE {})
         /\ Only(m, {"Idle"}) => Only(c, IF command = "SetReady" THEN {"Ready"} ELSE {"Idle"})
         /\ Only(m, {"Ready"}) /\ command # "ResetDone" =>
              Only(c, IF command # "Start" THEN {"Ready"}
                      ELSE IF to \in Timed THEN {"Sim_start"} ELSE {"Error"})
         /\ Only(m, {"Done"}) => Only(c, IF command = "ResetDone" THEN {"Idle"} ELSE {"Done"})
         /\ \A on \in {{"Busy", "Sim_start"}, {"Busy", "Sim_start", "Sim_end"}, {"Error"}} :
              Only(m, on) /\ command # "ResetDone" => Only(c, on)
<1>1. CASE command = "ResetDone"
  <2>1. c = [m EXCEPT !.Done = FALSE, !.Idle = TRUE]
    BY <1>1 DEF Commanded
  <2> QED
    BY <1>1, <2>1 DEF Only, Machines, Bits
<1>2. CASE command = "SetReady"
  <2>1. c = IF m.Idle THEN [m EXCEPT !.Ready = TRUE, !.Idle = FALSE] ELSE m
    BY <1>2 DEF Commanded
  <2> QED
    BY <1>2, <2>1 DEF Only, Machines, Bits
<1>3. CASE command = "Start"
  <2>1. c = IF m.Ready
              THEN IF to \in Timed
                     THEN [m EXCEPT !.Error = FALSE, !.Ready = FALSE, !.Sim_start = TRUE]
                     ELSE [m EXCEPT !.Error = TRUE, !.Ready = FALSE, !.Busy = FALSE,
                                    !.Done = FALSE, !.Idle = FALSE]
              ELSE m
    BY <1>3 DEF Commanded
  <2> QED
    BY <1>3, <2>1 DEF Only, Machines, Bits
<1>4. CASE command \notin {"ResetDone", "SetReady", "Start"}
  <2>1. c = m
    BY <1>4 DEF Commanded
  <2> QED
    BY <1>4, <2>1 DEF Only
<1> QED
  BY <1>1, <1>2, <1>3, <1>4
\* What Running and Ended make of them.
LEMMA RunningOnly ==
  ASSUME NEW m
  PROVE  /\ Only(m, {"Sim_start"}) => Only(Running(m), {"Busy", "Sim_start"})
         /\ \A on \in Phases : Only(m, on) => Only(Running(m), on)
<1>1. m \in Machines => Running(m) \in Machines
  BY DEF Running, Machines, Bits
<1> QED
  BY <1>1 DEF Running, Only, Machines, Bits, Phases

LEMMA EndedOnly ==
  ASSUME NEW m
  PROVE  /\ Only(m, {"Busy", "Sim_start", "Sim_end"}) =>
              Only(Ended(m), {"Done", "Sim_end"})
         /\ \A on \in Phases \ {{"Busy", "Sim_start", "Sim_end"}} :
              Only(m, on) => Only(Ended(m), on)
BY DEF Ended, Only, Machines, Bits, Phases

\* The block leaves a machine a machine.
LEMMA SimulatedType ==
  ASSUME NEW m \in Machines, NEW command, NEW to, NEW elapsed \in BOOLEAN
  PROVE  Simulace1(m, command, to, elapsed) \in Machines
<1>1. Commanded(m, command, to) \in Machines
  BY DEF Commanded, Machines, Bits
<1>2. PICK c : c = Commanded(m, command, to)
  OBVIOUS
<1>3. PICK d : d = Running(c)
  OBVIOUS
<1>4. c \in Machines /\ d \in Machines
  BY <1>1, <1>2, <1>3 DEF Running, Machines, Bits
<1>5. Ended(d) \in Machines
  BY <1>4 DEF Ended, Machines, Bits
<1>6. PICK left : left = IF Sim_BTN THEN Ended(d) ELSE m
  OBVIOUS
<1>7. Simulace1(m, command, to, elapsed) =
        [left EXCEPT !.Sim_end = left.Sim_start /\ (@ \/ (m.Sim_start /\ elapsed))]
  BY <1>2, <1>3, <1>6 DEF Simulace1
<1> QED
  BY <1>4, <1>5, <1>6, <1>7 DEF Machines, Bits
\* Where one call of the block leads, from each phase.
LEMMA Simulates ==
  ASSUME NEW m, NEW command, NEW to, NEW elapsed \in BOOLEAN, Sim_BTN,
         NEW r, r = Simulace1(m, command, to, elapsed),
         command = "ResetDone" => Only(m, {"Done"})
  PROVE  /\ Only(m, {}) => Only(r, {})
         /\ Only(m, {"Idle"}) => Only(r, IF command = "SetReady" THEN {"Ready"} ELSE {"Idle"})
         /\ Only(m, {"Ready"}) =>
              Only(r, IF command # "Start" THEN {"Ready"}
                      ELSE IF to \in Timed THEN {"Busy", "Sim_start"} ELSE {"Error"})
         /\ Only(m, {"Busy", "Sim_start"}) =>
              Only(r, IF elapsed THEN {"Busy", "Sim_start", "Sim_end"} ELSE {"Busy", "Sim_start"})
         /\ Only(m, {"Busy", "Sim_start", "Sim_end"}) => Only(r, {"Done"})
         /\ Only(m, {"Done"}) => Only(r, IF command = "ResetDone" THEN {"Idle"} ELSE {"Done"})
         /\ Only(m, {"Error"}) => Only(r, {"Error"})
<1>1. PICK c : c = Commanded(m, command, to)
  OBVIOUS
<1>2. PICK d : d = Ended(Running(c))
  OBVIOUS
<1>3. r = [d EXCEPT !.Sim_end = d.Sim_start /\ (@ \/ (m.Sim_start /\ elapsed))]
  BY <1>1, <1>2 DEF Simulace1
<1>4. /\ Only(m, {}) => Only(d, {})
      /\ Only(m, {"Idle"}) => Only(d, IF command = "SetReady" THEN {"Ready"} ELSE {"Idle"})
      /\ Only(m, {"Ready"}) =>
              Only(d, IF command # "Start" THEN {"Ready"}
                      ELSE IF to \in Timed THEN {"Busy", "Sim_start"} ELSE {"Error"})
      /\ Only(m, {"Busy", "Sim_start"}) => Only(d, {"Busy", "Sim_start"})
      /\ Only(m, {"Busy", "Sim_start", "Sim_end"}) => Only(d, {"Done", "Sim_end"})
      /\ Only(m, {"Done"}) => Only(d, IF command = "ResetDone" THEN {"Idle"} ELSE {"Done"})
      /\ Only(m, {"Error"}) => Only(d, {"Error"})
  <2>1. PICK e : e = Running(c)
    OBVIOUS
  <2>2. ASSUME command = "ResetDone"
        PROVE  \A on \in Phases : Only(m, on) => on = {"Done"}
    BY <2>2 DEF Only, Bits, Phases
  <2>3. Only(m, {}) => Only(d, {})
    BY <1>1, <1>2, <2>1, <2>2, CommandedOnly, RunningOnly, EndedOnly DEF Phases
  <2>4. Only(m, {"Idle"}) => Only(d, IF command = "SetReady" THEN {"Ready"} ELSE {"Idle"})
    BY <1>1, <1>2, <2>1, <2>2, CommandedOnly, RunningOnly, EndedOnly DEF Phases
  <2>5. Only(m, {"Ready"}) =>
          Only(d, IF command # "Start" THEN {"Ready"}
                  ELSE IF to \in Timed THEN {"Busy", "Sim_start"} ELSE {"Error"})
    <3>1. ASSUME Only(m, {"Ready"}) PROVE command # "ResetDone"
      BY <2>2, <3>1 DEF Phases
    <3> QED
      BY <1>1, <1>2, <2>1, <3>1, CommandedOnly, RunningOnly, EndedOnly DEF Phases
  <2>6. \A on \in {{"Busy", "Sim_start"}, {"Busy", "Sim_start", "Sim_end"}, {"Error"}} :
          Only(m, on) => Only(e, on)
    <3>1. ASSUME NEW on \in {{"Busy", "Sim_start"}, {"Busy", "Sim_start", "Sim_end"}, {"Error"}},
                 Only(m, on)
          PROVE  command # "ResetDone"
      BY <2>2, <3>1 DEF Phases
    <3> QED
      BY <1>1, <2>1, <3>1, CommandedOnly, RunningOnly DEF Phases
  <2>7. Only(m, {"Busy", "Sim_start"}) => Only(d, {"Busy", "Sim_start"})
    BY <1>2, <2>1, <2>6, EndedOnly DEF Phases
  <2>8. Only(m, {"Busy", "Sim_start", "Sim_end"}) => Only(d, {"Done", "Sim_end"})
    BY <1>2, <2>1, <2>6, EndedOnly DEF Phases
  <2>9. Only(m, {"Error"}) => Only(d, {"Error"})
    BY <1>2, <2>1, <2>6, EndedOnly DEF Phases
  <2>10. Only(m, {"Done"}) =>
           Only(d, IF command = "ResetDone" THEN {"Idle"} ELSE {"Done"})
    BY <1>1, <1>2, <2>1, CommandedOnly, RunningOnly, EndedOnly DEF Phases
  <2> QED
    BY <2>3, <2>4, <2>5, <2>7, <2>8, <2>9, <2>10
<1> QED
  BY <1>3, <1>4 DEF Only, Machines, Bits

\* A block that is switched off only lets its timer run.
LEMMA SwitchedOff ==
  ASSUME NEW m, NEW command, NEW to, NEW elapsed \in BOOLEAN, ~ Sim_BTN,
         NEW r, r = Simulace1(m, command, to, elapsed)
  PROVE  /\ m \in Machines => \A bit \in Bits \ {"Sim_end"} : r[bit] = m[bit]
         /\ \A on \in Phases \ {{"Busy", "Sim_start"}} : Only(m, on) => Only(r, on)
         /\ Only(m, {"Busy", "Sim_start"}) =>
              Only(r, {"Busy", "Sim_start"}) \/ Only(r, {"Busy", "Sim_start", "Sim_end"})
<1>1. r = [m EXCEPT !.Sim_end = m.Sim_start /\ (@ \/ (m.Sim_start /\ elapsed))]
  BY DEF Simulace1
<1> QED
  BY <1>1 DEF Only, Machines, Bits, Phases

\* A machine that works does not rest, and one that waits does.
LEMMA BusyIsNotAtRest ==
  ASSUME Sim_BTN, Only(machine, {"Busy", "Sim_start"})
                    \/ Only(machine, {"Busy", "Sim_start", "Sim_end"})
  PROVE  ~ AtRest
<1>1. PICK elapsed \in BOOLEAN : elapsed
  OBVIOUS
<1>2. PICK r : r = Simulace1(machine, "none", trip, elapsed)
  OBVIOUS
<1>3. Only(machine, {"Busy", "Sim_start"}) => Only(r, {"Busy", "Sim_start", "Sim_end"})
  <2>1. Only(machine, {"Busy", "Sim_start"}) =>
          Only(r, IF elapsed THEN {"Busy", "Sim_start", "Sim_end"} ELSE {"Busy", "Sim_start"})
    BY <1>2, Simulates
  <2> QED
    BY <1>1, <2>1
<1>4. Only(machine, {"Busy", "Sim_start", "Sim_end"}) => Only(r, {"Done"})
  BY <1>2, Simulates
<1>5. r # machine
  BY <1>3, <1>4 DEF Only, Bits
<1> QED
  BY <1>2, <1>5 DEF AtRest, Sees

-----------------------------------------------------------------------------
\* The queues do not care who calls: the cycle is one of PassiveAAS, and what a
\* reader does is one of its calls, or none.
LEMMA StutterKeepsIInv ==
  ASSUME IInv, UNCHANGED vars
  PROVE  IInv'
<1>1. Aside /\ UNCHANGED <<pq, rq, outputPositionSr, reply>>
  BY DEF vars, spVars, Aside
<1>2. /\ outputPositionSr' \in Id \cup {noId} /\ DOMAIN reply' = DOMAIN NoReply
      /\ OfferStands'
  BY <1>1 DEF IInv, TypeOK, SPTypeOK, OfferStands
<1> QED
  BY <1>1, <1>2, AnswerKeepsIInv

\* The invariant of the PLC holds with the machine and the readers too: their
\* steps are steps of Passive_AAS or leave it alone.
LEMMA CycleKeepsIInv ==
  ASSUME IInv, PlcCycle
  PROVE  IInv'
<1>1. Scan
  BY DEF PlcCycle, DeviceWithMachine, Scan
<1> QED
  BY <1>1, ScanKeepsIInv

LEMMA ReaderKeepsIInv ==
  ASSUME IInv, NEW id \in Id, Reader(id)
  PROVE  IInv'
<1>1. CASE ArriveSomewhere(id)
  BY <1>1, StutterKeepsIInv DEF ArriveSomewhere, plcVars, vars
<1>2. ASSUME NEW outcome \in Outcomes, NEW params \in Trips[id],
             AskForTransport(id, params, outcome)
      PROVE  IInv'
  <2>1. params \in Params /\ From[id] \in Priorities
    BY <1>2, TransportAssumption
  <2>2. Aside /\ (ReserveAction(id, From[id], params) \/ UNCHANGED spVars)
    BY <1>2 DEF AskForTransport, Transmit, Aside
  <2> QED
    BY <2>1, <2>2, ReserveKeepsIInv, StutterKeepsIInv DEF Aside, vars
<1>3. ASSUME NEW outcome \in Outcomes, ReportForTransport(id, outcome)
      PROVE  IInv'
  <2>1. Aside /\ (ReportProduct(id) \/ UNCHANGED spVars)
    BY <1>3 DEF ReportForTransport, Transmit, Aside
  <2> QED
    BY <2>1, ReportKeepsIInv, StutterKeepsIInv DEF Aside, vars
<1>4. ASSUME NEW outcome \in Outcomes, PollTransport(id, outcome)
      PROVE  IInv'
  <2>1. Aside /\ (GetStatus(id) \/ UNCHANGED spVars)
    BY <1>4 DEF PollTransport, Transmit, Aside
  <2> QED
    BY <2>1, StatusKeepsIInv, StutterKeepsIInv DEF Aside, vars
<1> QED
  BY <1>1, <1>2, <1>3, <1>4 DEF Reader

-----------------------------------------------------------------------------
\* A cycle stops the device, begins a handshake, gives a command, or waits.
Stops(sel) ==
  /\ Conclude(sel, FALSE) /\ isFoundItem' = FALSE
  /\ seqState' = 0 /\ cmd' = "none" /\ cmdProductID' = cmdProductID

Begins(sel) ==
  /\ sel.found /\ Conclude(sel, TRUE) /\ isFoundItem' = TRUE
  /\ seqState = 0 /\ seqState' = 10 /\ cmd' = "none" /\ cmdProductID' = sel.item.id

Pulses(sel) ==
  /\ sel.found /\ Conclude(sel, TRUE) /\ isFoundItem' = TRUE
  /\ \/ seqState = 10 /\ seqState' = 20 /\ cmd' = "SetReady"
     \/ seqState = 30 /\ seqState' = 40 /\ cmd' = "Start"
     \/ seqState = 60 /\ seqState' = 70 /\ cmd' = "ResetDone"
  /\ cmdProductID' = cmdProductID

Waits(sel) ==
  /\ sel.found /\ Conclude(sel, TRUE) /\ isFoundItem' = TRUE
  /\ seqState \in Waiting /\ seqState' \in Led /\ cmd' = "none"
  /\ cmdProductID' = cmdProductID

\* Every alternative of DeviceSlow is one of these.
LEMMA CycleMoves ==
  ASSUME NEW sel, DeviceWithMachine(sel)
  PROVE  Stops(sel) \/ Begins(sel) \/ Pulses(sel) \/ Waits(sel)
<1>1. DeviceSlow(sel)
  BY DEF DeviceWithMachine
<1>2. CASE KeepIdle(sel) \/ RejectItem(sel)
  BY <1>2 DEF KeepIdle, RejectItem, Drive, Stops
<1>3. CASE Complete(sel) \/ Fail(sel)
  BY <1>3 DEF Complete, Fail, Drive, Stops
<1>4. CASE Announce(sel)
  BY <1>4 DEF Announce, Drive, InStep, Begins
<1>5. CASE PulseSetReady(sel) \/ PulseStart(sel) \/ PulseResetDone(sel)
  BY <1>5 DEF PulseSetReady, PulseStart, PulseResetDone, Drive, InStep, Pulses
<1>6. ASSUME NEW answered \in BOOLEAN, NEW failing \in BOOLEAN, NEW expired \in BOOLEAN,
             Await(sel, answered, failing, expired)
      PROVE  Waits(sel)
  <2>1. sel.found /\ PassesCheck(sel.item) /\ seqState \in Waiting
    BY <1>6 DEF Await, InStep
  <2>2. seqState' \in Led
    BY <2>1 DEF DeviceWithMachine
  <2> QED
    BY <1>6, <2>1, <2>2 DEF Await, Drive, Waits
<1> QED
  BY <1>1, <1>2, <1>3, <1>4, <1>5, <1>6 DEF DeviceSlow

-----------------------------------------------------------------------------
\* The types.
LEMMA GoTypes ==
  ASSUME NEW id \in Id, NEW stage \in Stages, NEW polls \in 0 .. StatusPolls,
         Go(id, stage, polls), request \in [Id -> Requests]
  PROVE  request' \in [Id -> Requests]
BY DEF Go, Requests

LEMMA TransmitTypes ==
  ASSUME TransportTypeOK, NEW call, NEW outcome, Transmit(call, outcome)
  PROVE  /\ lost' \in 0 .. MaxLost
         /\ UNCHANGED <<seqState, cmd, cmdProductID, machine, Sim_BTN, trip, troubled>>
<1>1. \/ lost < MaxLost /\ lost' = lost + 1
      \/ lost' = lost
  BY Zenon DEF Transmit
<1>2. UNCHANGED <<seqState, cmd, cmdProductID, machine, Sim_BTN, trip, troubled>>
  BY Zenon DEF Transmit, device, machineVars
<1>3. lost \in 0 .. MaxLost /\ MaxLost \in Nat
  BY TransportAssumption DEF TransportTypeOK
<1>4. lost' \in 0 .. MaxLost
  BY <1>1, <1>3
<1> QED
  BY <1>2, <1>4

LEMMA ReaderTypes ==
  ASSUME TransportTypeOK, NEW id \in Id, Reader(id)
  PROVE  TransportTypeOK'
<1>1. StatusPolls \in Nat /\ 0 \in 0 .. StatusPolls /\ StatusPolls \in 0 .. StatusPolls
  BY TransportAssumption
<1>2. {"ask", "report", "poll", "sent", "away"} \subseteq Stages
  BY DEF Stages
<1>3. request \in [Id -> Requests] /\ troubled \in BOOLEAN /\ overtaken \in BOOLEAN
  BY DEF TransportTypeOK
<1>4. CASE ArriveSomewhere(id)
  <2>1. request' \in [Id -> Requests]
    BY <1>2, <1>3, <1>4 DEF ArriveSomewhere, Requests
  <2> QED
    BY <1>4, <2>1 DEF ArriveSomewhere, TransportTypeOK, plcVars, machineVars, ghosts, device
<1>5. ASSUME NEW outcome \in Outcomes, NEW params \in Trips[id],
             AskForTransport(id, params, outcome)
      PROVE  TransportTypeOK'
  <2>1. request' \in [Id -> Requests]
    BY <1>1, <1>2, <1>3, <1>5, GoTypes DEF AskForTransport
  <2>2. overtaken' \in BOOLEAN
    BY <1>5 DEF AskForTransport
  <2>3. /\ lost' \in 0 .. MaxLost
        /\ UNCHANGED <<seqState, cmd, cmdProductID, machine, Sim_BTN, trip, troubled>>
    BY <1>5, TransmitTypes DEF AskForTransport
  <2> QED
    BY <2>1, <2>2, <2>3 DEF TransportTypeOK
<1>6. ASSUME NEW outcome \in Outcomes,
             ReportForTransport(id, outcome) \/ PollTransport(id, outcome)
      PROVE  TransportTypeOK'
  <2>1. CASE ReportForTransport(id, outcome)
    <3>1. request' \in [Id -> Requests]
      BY <1>1, <1>2, <1>3, <2>1, GoTypes DEF ReportForTransport
    <3>2. /\ lost' \in 0 .. MaxLost /\ overtaken' = overtaken
          /\ UNCHANGED <<seqState, cmd, cmdProductID, machine, Sim_BTN, trip, troubled>>
      BY <2>1, TransmitTypes DEF ReportForTransport
    <3> QED
      BY <3>1, <3>2 DEF TransportTypeOK
  <2>2. CASE PollTransport(id, outcome)
    <3>1. PICK left : left = request[id].polls - 1
      OBVIOUS
    <3>2. left > 0 => left \in 0 .. StatusPolls
      BY <1>1, <1>3, <3>1 DEF Requests
    <3>3. request' \in [Id -> Requests]
      BY <1>1, <1>2, <1>3, <2>2, <3>1, <3>2, GoTypes DEF PollTransport
    <3>4. /\ lost' \in 0 .. MaxLost /\ overtaken' = overtaken
          /\ UNCHANGED <<seqState, cmd, cmdProductID, machine, Sim_BTN, trip, troubled>>
      BY <2>2, TransmitTypes DEF PollTransport
    <3> QED
      BY <3>3, <3>4 DEF TransportTypeOK
  <2> QED
    BY <1>6, <2>1, <2>2
<1> QED
  BY <1>4, <1>5, <1>6 DEF Reader

\* A valid item has a trip.
LEMMA PickedParams ==
  ASSUME NEW sel, Picked(sel)
  PROVE  sel.item.params \in Params \cup {NoParams}
<1>1. sel.item \in Product \cup {emptyItem}
  BY DEF Picked
<1>2. CASE sel.item \in Product
  BY <1>2, ItemAssumption
<1>3. CASE sel.item = emptyItem
  BY <1>3, ItemAssumption
<1> QED
  BY <1>1, <1>2, <1>3

LEMMA CycleTypes ==
  ASSUME IInv, TransportTypeOK, PlcCycle
  PROVE  TransportTypeOK'
<1>1. PICK sel : sel = Selected /\ trip' = IF ~deviceRunning /\ deviceRunning'
                                             THEN sel.item.params ELSE trip
  BY DEF PlcCycle
<1>2. Picked(sel)
  BY <1>1, SelectedIsPicked
<1>3. seqState' \in SeqStates /\ cmd' \in Commands /\ cmdProductID' \in Id \cup {noId}
  BY CycleKeepsIInv DEF IInv, TypeOK
<1>4. machine' \in [DOMAIN MachineOff -> BOOLEAN]
  <2>1. PICK elapsed \in BOOLEAN : machine' = Simulace1(machine, cmd', trip', elapsed)
    BY DEF PlcCycle
  <2> QED
    BY <2>1, SimulatedType, TheBits DEF TransportTypeOK, Machines
<1>5. trip' \in Params \cup {NoParams}
  BY <1>1, <1>2, PickedParams DEF TransportTypeOK
<1>6. request' \in [Id -> Requests]
  <2>1. request' = request \/ request' = [request EXCEPT ![cmdProductID].stage = "away"]
    BY DEF PlcCycle
  <2>2. request \in [Id -> Requests] /\ "away" \in Stages
    BY DEF TransportTypeOK, Stages
  <2> QED
    BY <2>1, <2>2 DEF Requests
<1>7. troubled' \in BOOLEAN /\ overtaken' \in BOOLEAN
  <2>1. troubled \in BOOLEAN
    BY DEF TransportTypeOK
  <2> QED
    BY <2>1 DEF PlcCycle
<1>8. Sim_BTN' = Sim_BTN /\ lost' = lost
  BY DEF PlcCycle
<1> QED
  BY <1>3, <1>4, <1>5, <1>6, <1>7, <1>8 DEF TransportTypeOK

LEMMA SwitchTypes ==
  ASSUME IInv, TransportTypeOK, Switch
  PROVE  TransportTypeOK'
<1>1. Sim_BTN' \in BOOLEAN /\ troubled' \in BOOLEAN
  BY DEF Switch, IInv, TypeOK
<1> QED
  BY <1>1 DEF Switch, TransportTypeOK, plcVars, device

-----------------------------------------------------------------------------
\* The phase of the machine in each step of a handshake that began with an idle
\* machine and a trip it knows, and during which nobody worked the switch.
InStepWithMachine ==
  /\ Sim_BTN /\ trip \in Timed
  /\ seqState \in {10, 70, 80} => Only(machine, {"Idle"})
  /\ seqState \in {20, 30} => Only(machine, {"Ready"})
  /\ seqState = 40 => Only(machine, {"Busy", "Sim_start"})
  /\ seqState = 50 => \/ Only(machine, {"Busy", "Sim_start"})
                      \/ Only(machine, {"Busy", "Sim_start", "Sim_end"})
                      \/ Only(machine, {"Done"})
  /\ seqState # 100

\* The device and the machine agree on how far the handshake is, unless it was
\* troubled; a handshake that fails was.
OnCourse ==
  /\ (deviceRunning => seqState # 0) /\ (~ deviceRunning => seqState = 0)
  /\ \E on \in Phases : Only(machine, on)
  /\ seqState = 60 => Only(machine, {"Done"})
  /\ deviceRunning /\ ~ troubled => InStepWithMachine

\* One call of the block leads from a phase to a phase.
LEMMA PhaseToPhase ==
  ASSUME NEW m, NEW on \in Phases, Only(m, on), NEW command, NEW to, NEW elapsed \in BOOLEAN,
         Sim_BTN \in BOOLEAN, NEW r, r = Simulace1(m, command, to, elapsed),
         command = "ResetDone" => Only(m, {"Done"})
  PROVE  /\ \E next \in Phases : Only(r, next)
         /\ Only(m, {"Done"}) /\ command # "ResetDone" => Only(r, {"Done"})
         /\ Only(m, {"Idle"}) /\ command # "SetReady" => Only(r, {"Idle"})
         /\ ~ m.Idle /\ ~ m.Ready /\ command # "ResetDone" => ~ r.Idle /\ ~ r.Ready
         /\ ~ m.Sim_start /\ command # "Start" => ~ r.Sim_start
<1>1. CASE Sim_BTN
  <2>1. CASE on = {}
    BY <1>1, <2>1, Simulates DEF Only, Bits, Phases
  <2>2. CASE on = {"Idle"}
    BY <1>1, <2>2, Simulates DEF Only, Bits, Phases
  <2>3. CASE on = {"Ready"}
    BY <1>1, <2>3, Simulates DEF Only, Bits, Phases
  <2>4. CASE on = {"Busy", "Sim_start"}
    BY <1>1, <2>4, Simulates DEF Only, Bits, Phases
  <2>5. CASE on = {"Busy", "Sim_start", "Sim_end"}
    BY <1>1, <2>5, Simulates DEF Only, Bits, Phases
  <2>6. CASE on = {"Done"}
    BY <1>1, <2>6, Simulates DEF Only, Bits, Phases
  <2>7. CASE on = {"Error"}
    BY <1>1, <2>7, Simulates DEF Only, Bits, Phases
  <2> QED
    BY <2>1, <2>2, <2>3, <2>4, <2>5, <2>6, <2>7 DEF Phases
<1>2. CASE ~ Sim_BTN
  <2>1. \E next \in Phases : Only(r, next)
    <3>1. CASE on = {"Busy", "Sim_start"}
      BY <1>2, <3>1, SwitchedOff DEF Phases
    <3>2. CASE on # {"Busy", "Sim_start"}
      BY <1>2, <3>2, SwitchedOff DEF Phases
    <3> QED
      BY <3>1, <3>2
  <2>2. \A bit \in Bits \ {"Sim_end"} : r[bit] = m[bit]
    BY <1>2, SwitchedOff DEF Only
  <2>3. \A same \in {{"Done"}, {"Idle"}} : Only(m, same) => Only(r, same)
    BY <1>2, SwitchedOff DEF Phases
  <2> QED
    BY <2>1, <2>2, <2>3 DEF Bits
<1> QED
  BY <1>1, <1>2

\* Where a waiting step leads, one case for each.
LEMMA LedTo ==
  ASSUME seqState \in Waiting, NEW next \in Led
  PROVE  \/ seqState = 20 /\ machine.Ready /\ next = 30
         \/ seqState = 40 /\ machine.Busy /\ next = 50
         \/ seqState = 50 /\ machine.Done /\ next = 60
         \/ seqState = 70 /\ machine.Idle /\ next = 80
         \/ /\ next = 100 /\ (machine.Error \/ AtRest \/ troubled)
            /\ seqState = 20 => ~ machine.Ready
            /\ seqState = 40 => ~ machine.Busy
            /\ seqState = 50 => ~ machine.Done
            /\ seqState = 70 => ~ machine.Idle
         \/ /\ next = seqState
            /\ seqState = 20 => ~ machine.Ready
            /\ seqState = 40 => ~ machine.Busy
            /\ seqState = 70 => ~ machine.Idle
<1>1. PICK bit : bit = Awaited[seqState]
  OBVIOUS
<1>2. /\ seqState = 20 => bit = "Ready" /\ Answered[seqState] = 30
      /\ seqState = 40 => bit = "Busy" /\ Answered[seqState] = 50
      /\ seqState = 50 => bit = "Done" /\ Answered[seqState] = 60
      /\ seqState = 70 => bit = "Idle" /\ Answered[seqState] = 80
  BY <1>1 DEF Awaited, Answered, Waiting
<1>3. \/ machine[bit] /\ next = Answered[seqState]
      \/ ~ machine[bit] /\ (machine.Error \/ AtRest \/ troubled) /\ next = 100
      \/ ~ machine[bit] /\ next = seqState
  BY <1>1 DEF Led
<1>4. seqState \in {20, 40, 50, 70}
  BY DEF Waiting
<1> QED
  BY <1>2, <1>3, <1>4

\* Whether the device runs on is what DeviceSlow concludes.
LEMMA RunsOn ==
  ASSUME NEW sel
  PROVE  /\ Conclude(sel, TRUE) => deviceRunning'
         /\ Conclude(sel, FALSE) => ~ deviceRunning'
<1>1. ASSUME Conclude(sel, TRUE) PROVE deviceRunning' = TRUE
  BY <1>1, ConcludeFields
<1>2. ASSUME Conclude(sel, FALSE) PROVE deviceRunning' = FALSE
  BY <1>2, ConcludeFields
<1> QED
  BY <1>1, <1>2

\* The machine answers each command in the phase the next step waits for.
LEMMA CycleKeepsCourse ==
  ASSUME IInv, TransportTypeOK, OnCourse, PlcCycle
  PROVE  OnCourse'
<1>1. PICK sel, elapsed :
        /\ sel = Selected /\ elapsed \in BOOLEAN /\ DeviceWithMachine(sel)
        /\ machine' = Simulace1(machine, cmd', trip', elapsed)
        /\ trip' = IF ~deviceRunning /\ deviceRunning' THEN sel.item.params ELSE trip
        /\ troubled' = IF ~deviceRunning THEN deviceRunning' /\ BeginsBadly(sel.item.params)
                       ELSE troubled
        /\ Sim_BTN' = Sim_BTN
  BY DEF PlcCycle
<1>2. PICK on \in Phases : Only(machine, on)
  BY DEF OnCourse
<1>3. /\ Sim_BTN \in BOOLEAN
      /\ (deviceRunning => seqState # 0) /\ (~ deviceRunning => seqState = 0)
      /\ seqState = 60 => Only(machine, {"Done"})
      /\ deviceRunning /\ ~ troubled => InStepWithMachine
  BY DEF OnCourse, TransportTypeOK
<1>4. cmd' = "ResetDone" => seqState = 60
  BY <1>1, CycleMoves DEF Stops, Begins, Pulses, Waits
<1>5. PICK m : m = machine'
  OBVIOUS
<1>6. /\ \E next \in Phases : Only(m, next)
      /\ Only(machine, {"Done"}) /\ cmd' # "ResetDone" => Only(m, {"Done"})
      /\ Only(machine, {"Idle"}) /\ cmd' # "SetReady" => Only(m, {"Idle"})
  BY <1>1, <1>2, <1>3, <1>4, <1>5, PhaseToPhase
<1>7. ASSUME Sim_BTN
      PROVE  /\ Only(machine, {"Idle"}) /\ cmd' = "SetReady" => Only(m, {"Ready"})
             /\ Only(machine, {"Ready"}) /\ cmd' = "none" => Only(m, {"Ready"})
             /\ Only(machine, {"Ready"}) /\ cmd' = "Start" /\ trip' \in Timed =>
                  Only(m, {"Busy", "Sim_start"})
             /\ Only(machine, {"Busy", "Sim_start"}) /\ cmd' = "none" =>
                  Only(m, {"Busy", "Sim_start"}) \/ Only(m, {"Busy", "Sim_start", "Sim_end"})
             /\ Only(machine, {"Busy", "Sim_start", "Sim_end"}) /\ cmd' = "none" =>
                  Only(m, {"Done"})
             /\ Only(machine, {"Done"}) /\ cmd' = "ResetDone" => Only(m, {"Idle"})
  BY <1>1, <1>3, <1>4, <1>5, <1>7, Simulates
<1>8. CASE Stops(sel)
  <2>1. seqState' = 0 /\ ~ deviceRunning'
    BY <1>8, RunsOn DEF Stops
  <2> QED
    BY <1>5, <1>6, <2>1 DEF OnCourse
<1>9. CASE Begins(sel)
  <2>1. seqState = 0 /\ seqState' = 10 /\ deviceRunning' /\ cmd' = "none"
    BY <1>9, RunsOn DEF Begins
  <2>2. ~ deviceRunning /\ trip' = sel.item.params
    BY <1>1, <1>3, <2>1
  <2>3. ASSUME ~ troubled'
        PROVE  Sim_BTN /\ trip' \in Timed /\ Only(m, {"Idle"})
    <3>1. machine.Idle /\ Sim_BTN /\ trip' \in Timed
      BY <1>1, <2>1, <2>2, <2>3 DEF BeginsBadly
    <3>2. on = {"Idle"}
      BY <1>2, <3>1 DEF Only, Bits, Phases
    <3> QED
      BY <1>2, <1>6, <2>1, <3>1, <3>2
  <2> QED
    BY <1>1, <1>5, <1>6, <2>1, <2>3 DEF OnCourse, InStepWithMachine
<1>10. CASE Pulses(sel)
  <2>1. deviceRunning' /\ deviceRunning /\ trip' = trip /\ troubled' = troubled
    <3>1. seqState # 0
      BY <1>10 DEF Pulses
    <3>2. deviceRunning'
      BY <1>10, RunsOn DEF Pulses
    <3> QED
      BY <1>1, <1>3, <3>1, <3>2
  <2>2. \/ seqState = 10 /\ seqState' = 20 /\ cmd' = "SetReady"
        \/ seqState = 30 /\ seqState' = 40 /\ cmd' = "Start"
        \/ seqState = 60 /\ seqState' = 70 /\ cmd' = "ResetDone"
    BY <1>10 DEF Pulses
  <2>3. ASSUME ~ troubled PROVE InStepWithMachine'
    BY <1>1, <1>3, <1>5, <1>7, <2>1, <2>2, <2>3 DEF InStepWithMachine
  <2> QED
    BY <1>5, <1>6, <2>1, <2>2, <2>3 DEF OnCourse
<1>11. CASE Waits(sel)
  <2>1. /\ deviceRunning' /\ deviceRunning /\ trip' = trip /\ troubled' = troubled
        /\ cmd' = "none" /\ seqState \in Waiting /\ seqState' \in Led
    <3>1. /\ cmd' = "none" /\ seqState \in Waiting /\ seqState' \in Led
          /\ seqState # 0
      BY <1>11 DEF Waits, Waiting
    <3>2. deviceRunning'
      BY <1>11, RunsOn DEF Waits
    <3> QED
      BY <1>1, <1>3, <3>1, <3>2
  <2>2. seqState' # 0
    BY <2>1, LedTo DEF Waiting
  <2>3. seqState' = 60 => Only(m, {"Done"})
    <3>1. ASSUME seqState' = 60 PROVE machine.Done
      BY <2>1, <3>1, LedTo DEF Waiting
    <3>2. machine.Done => on = {"Done"}
      BY <1>2 DEF Only, Bits, Phases
    <3> QED
      BY <1>2, <1>6, <2>1, <3>1, <3>2
  <2>4. ASSUME ~ troubled PROVE InStepWithMachine'
    <3>1. InStepWithMachine
      BY <1>3, <2>1, <2>4
    <3>2. CASE seqState = 20
      <4>1. seqState' = 30
        BY <2>1, <2>4, <3>1, <3>2, LedTo DEF InStepWithMachine, Only, Bits
      <4> QED
        BY <1>1, <1>5, <1>7, <2>1, <3>1, <3>2, <4>1 DEF InStepWithMachine
    <3>3. CASE seqState = 40
      <4>1. seqState' = 50
        BY <2>1, <2>4, <3>1, <3>3, LedTo DEF InStepWithMachine, Only, Bits
      <4> QED
        BY <1>1, <1>5, <1>7, <2>1, <3>1, <3>3, <4>1 DEF InStepWithMachine
    <3>4. CASE seqState = 50
      <4>1. machine.Done \/ ~ AtRest
        BY <3>1, <3>4, BusyIsNotAtRest DEF InStepWithMachine, Only, Bits
      <4>2. ~ machine.Error
        BY <3>1, <3>4 DEF InStepWithMachine, Only, Bits
      <4>3. seqState' \in {50, 60}
        BY <2>1, <2>4, <3>4, <4>1, <4>2, LedTo
      <4> QED
        BY <1>1, <1>5, <1>6, <1>7, <2>1, <2>3, <3>1, <3>4, <4>3 DEF InStepWithMachine
    <3>5. CASE seqState = 70
      <4>1. seqState' = 80
        BY <2>1, <2>4, <3>1, <3>5, LedTo DEF InStepWithMachine, Only, Bits
      <4> QED
        BY <1>1, <1>5, <1>6, <2>1, <3>1, <3>5, <4>1 DEF InStepWithMachine
    <3> QED
      BY <2>1, <3>2, <3>3, <3>4, <3>5 DEF Waiting
  <2> QED
    BY <1>5, <1>6, <2>1, <2>2, <2>3, <2>4 DEF OnCourse
<1> QED
  BY <1>1, <1>8, <1>9, <1>10, <1>11, CycleMoves

\* The switch only troubles the handshake.
LEMMA SwitchKeepsCourse ==
  ASSUME OnCourse, Switch
  PROVE  OnCourse'
BY DEF OnCourse, Switch, plcVars, device

\* Neither does a reader touch the device nor the machine.
LEMMA ReaderLeavesMachine ==
  ASSUME NEW id, Reader(id)
  PROVE  UNCHANGED <<selection, device, history, machineVars, troubled>>
<1>1. CASE ArriveSomewhere(id)
  BY <1>1 DEF ArriveSomewhere, plcVars, ghosts
<1>2. ASSUME NEW call, NEW outcome, Transmit(call, outcome)
      PROVE  UNCHANGED <<selection, device, history, machineVars, troubled>>
  BY <1>2, Zenon DEF Transmit
<1> QED
  BY <1>1, <1>2, Zenon DEF Reader, AskForTransport, ReportForTransport, PollTransport

LEMMA ReaderKeepsCourse ==
  ASSUME OnCourse, NEW id, Reader(id)
  PROVE  OnCourse'
<1>1. UNCHANGED <<deviceRunning, seqState, machine, Sim_BTN, trip, troubled>>
  BY ReaderLeavesMachine DEF device, machineVars
<1> QED
  BY <1>1 DEF OnCourse, InStepWithMachine

-----------------------------------------------------------------------------
\* The invariant of the transport, which no assumption on the gate is needed for.
TInv == IInv /\ TransportTypeOK /\ OnCourse

\* It is inductive.
LEMMA TransportInvariant == TransportSpec => []TInv
<1>1. TransportInit => TInv
  <2> SUFFICES ASSUME TransportInit PROVE TInv
    OBVIOUS
  <2>1. PICK idle \in BOOLEAN : machine = [MachineOff EXCEPT !.Idle = idle]
    BY DEF TransportInit
  <2>2. machine \in Machines /\ (Only(machine, {}) \/ Only(machine, {"Idle"}))
    <3>1. MachineOff = [bit \in Bits |-> MachineOff[bit]]
      BY DEF MachineOff, Bits
    <3>2. \A bit \in Bits : MachineOff[bit] = FALSE
      BY DEF MachineOff, Bits
    <3>3. PICK off \in Machines : off = MachineOff
      BY <3>1, <3>2 DEF Machines
    <3>4. \A bit \in Bits : off[bit] = FALSE
      BY <3>2, <3>3
    <3>5. machine = [off EXCEPT !.Idle = idle]
      BY <2>1, <3>3
    <3> QED
      BY <3>4, <3>5 DEF Only, Machines, Bits
  <2>3. IInv /\ deviceRunning = FALSE /\ seqState = 0
    BY InitIInv DEF TransportInit, Init
  <2>4. TransportTypeOK
    <3>1. seqState \in SeqStates /\ cmd \in Commands /\ cmdProductID \in Id \cup {noId}
      BY <2>3 DEF IInv, TypeOK
    <3>2. machine \in [DOMAIN MachineOff -> BOOLEAN]
      BY <2>2, TheBits DEF Machines
    <3>3. request \in [Id -> Requests]
      BY TransportAssumption DEF TransportInit, Requests, Stages
    <3>4. lost \in 0 .. MaxLost
      BY TransportAssumption DEF TransportInit
    <3> QED
      BY <3>1, <3>2, <3>3, <3>4 DEF TransportTypeOK, TransportInit
  <2>5. OnCourse
    BY <2>2, <2>3 DEF OnCourse, Phases
  <2> QED
    BY <2>3, <2>4, <2>5 DEF TInv
<1>2. TInv /\ [TransportNext]_allVars => TInv'
  <2> SUFFICES ASSUME TInv, [TransportNext]_allVars PROVE TInv'
    OBVIOUS
  <2>1. CASE PlcCycle
    BY <2>1, CycleKeepsIInv, CycleTypes, CycleKeepsCourse DEF TInv
  <2>2. CASE Switch
    <3>1. IInv'
      BY <2>2, StutterKeepsIInv DEF TInv, Switch, plcVars, vars
    <3> QED
      BY <2>2, <3>1, SwitchTypes, SwitchKeepsCourse DEF TInv
  <2>3. ASSUME NEW id \in Id, Reader(id) PROVE TInv'
    BY <2>3, ReaderKeepsIInv, ReaderTypes, ReaderKeepsCourse DEF TInv
  <2>4. CASE UNCHANGED allVars
    <3>1. IInv'
      BY <2>4, StutterKeepsIInv DEF TInv, allVars, plcVars, vars
    <3>2. UNCHANGED <<seqState, cmd, cmdProductID, deviceRunning, machine, Sim_BTN, trip,
                      request, lost, troubled, overtaken>>
      BY <2>4 DEF allVars, plcVars, device, machineVars, ghosts
    <3>3. TransportTypeOK'
      BY <3>2 DEF TInv, TransportTypeOK
    <3>4. OnCourse'
      BY <3>2 DEF TInv, OnCourse, InStepWithMachine
    <3> QED
      BY <3>1, <3>3, <3>4 DEF TInv
  <2> QED
    BY <2>1, <2>2, <2>3, <2>4 DEF TransportNext
<1> QED
  BY <1>1, <1>2, PTL DEF TransportSpec

\* Every variable of the machine, the trip, the readers and the device keeps its
\* type.
THEOREM TransportTypeCorrect == TransportSpec => []TransportTypeOK
<1>1. TInv => TransportTypeOK
  BY DEF TInv
<1> QED
  BY <1>1, TransportInvariant, PTL

\* Whatever readers ask for, with lost calls and answers, the two queues of the
\* transport PLC stay well formed and list no product twice.
THEOREM TransportKeepsQueues == TransportSpec => [](QueuesConsistent /\ NoDoubleEntry)
<1>1. TInv => QueuesConsistent /\ NoDoubleEntry
  BY ApartIsDistinct
     DEF TInv, IInv, QueuesGood, GoodPQueue, GoodQueue, QueuesConsistent, NothingTwice,
         NoDoubleEntry
<1> QED
  BY <1>1, TransportInvariant, PTL

\* DeviceSlow reaches its error step only when the handshake began badly or the
\* simulation was switched meanwhile, whatever gate the PLC has.
THEOREM TransportFailsOnlyInTrouble == TransportSpec => []FailsOnlyInTrouble
<1>1. TInv => FailsOnlyInTrouble
  BY DEF TInv, OnCourse, InStepWithMachine, FailsOnlyInTrouble
<1> QED
  BY <1>1, TransportInvariant, PTL

\* A machine that is neither idle nor ready with no handshake past the first wait
\* stays so for ever: only step 60 of DeviceSlow takes Done back.
THEOREM TransportStuckForGood == TransportSpec => StuckForGood
<1>1. TInv /\ [TransportNext]_allVars => [Stuck => Stuck']_allVars
  <2> SUFFICES ASSUME TInv, TransportNext, Stuck PROVE Stuck'
    OBVIOUS
  <2>1. CASE PlcCycle
    <3>1. PICK sel, elapsed :
            /\ sel = Selected /\ elapsed \in BOOLEAN /\ DeviceWithMachine(sel)
            /\ machine' = Simulace1(machine, cmd', trip', elapsed)
      BY <2>1 DEF PlcCycle
    <3>2. PICK on \in Phases : Only(machine, on)
      BY DEF TInv, OnCourse
    <3>3. Sim_BTN \in BOOLEAN /\ machine.Idle = FALSE /\ machine.Ready = FALSE
      BY <3>2 DEF TInv, TransportTypeOK, Stuck, Only, Machines, Bits
    <3>4. cmd' # "ResetDone" /\ seqState' \in {0, 10, 20, 100}
      <4>1. Waits(sel) => seqState = 20 /\ seqState' \in {20, 100}
        <5>1. ASSUME Waits(sel) PROVE seqState = 20 /\ seqState' \in {20, 100}
          <6>1. seqState = 20 /\ seqState \in Waiting /\ seqState' \in Led
            BY <5>1 DEF Waits, Stuck, Waiting
          <6> QED
            BY <3>3, <6>1, LedTo
        <5> QED
          BY <5>1
      <4>2. Waits(sel) => cmd' = "none"
        BY DEF Waits
      <4>3. Stops(sel) \/ Begins(sel) => cmd' = "none" /\ seqState' \in {0, 10}
        BY DEF Stops, Begins
      <4>4. Pulses(sel) => cmd' = "SetReady" /\ seqState' = 20
        BY DEF Pulses, Stuck
      <4> QED
        BY <3>1, <4>1, <4>2, <4>3, <4>4, CycleMoves
    <3>5. PICK m : m = machine'
      OBVIOUS
    <3>6. ~ m.Idle /\ ~ m.Ready
      BY <3>1, <3>2, <3>3, <3>4, <3>5, PhaseToPhase
    <3> QED
      BY <3>4, <3>5, <3>6 DEF Stuck
  <2>2. CASE Switch
    BY <2>2 DEF Switch, Stuck, plcVars, device
  <2>3. ASSUME NEW id \in Id, Reader(id) PROVE Stuck'
    <3>1. UNCHANGED <<seqState, machine>>
      BY <2>3, ReaderLeavesMachine DEF device, machineVars
    <3> QED
      BY <3>1 DEF Stuck
  <2> QED
    BY <2>1, <2>2, <2>3 DEF TransportNext
<1> QED
  BY <1>1, TransportInvariant, PTL DEF TransportSpec, StuckForGood

-----------------------------------------------------------------------------
\* The selection stays the same while the device runs, unless the gate is
\* removed.
LEMMA ItemStays ==
  ASSUME IInv, SelectWhile # BOOLEAN, deviceRunning, NEW sel, sel = Selected
  PROVE  /\ sel.found = isFoundItem /\ sel.item = item
         /\ sel.rp = itemPositionRP /\ sel.p = itemPositionP
<1>1. SelectWhile # {TRUE} /\ deviceRunning = TRUE
  BY DEF IInv, HandshakeKeeps, TypeOK
<1>2. TRUE \notin SelectWhile
  BY <1>1, SelectWhileAssumption
<1> QED
  BY <1>1, <1>2 DEF Selected

\* What a handshake that begins is for has its places in both queues.
LEMMA BeginsWithPlace ==
  ASSUME IInv, ~ deviceRunning, NEW sel, sel = Selected, sel.found
  PROVE  Names(sel.item, sel.p, sel.rp)
<1>1. ~ isFoundItem
  BY DEF IInv, HandshakeKeeps, TypeOK
<1>2. sel = CheckAction
  BY <1>1 DEF Selected
<1> QED
  BY <1>2, CheckActionFinds DEF IInv, QueuesGood

\* While the device runs, it has the item and the trip it was told of; a product
\* that has left is reported only until its own handshake ends.
Carries ==
  /\ deviceRunning => item.id = cmdProductID /\ trip = item.params
  /\ \A id \in Id : Stage(id) = "away" /\ id \in Ids(Contents(rq)) =>
       deviceRunning /\ item.id = id /\ seqState \notin {10, 20, 30}

\* The running product is reported.
LEMMA RunningIsReported ==
  ASSUME IInv, deviceRunning
  PROVE  item.id \in Id /\ item.id \in Ids(Contents(rq))
<1>1. /\ itemPositionRP \in 0 .. rq.count - 1
      /\ Contents(rq)[itemPositionRP + 1].id = item.id /\ GoodQueue(rq)
  BY DEF IInv, HandshakeKeeps, QueuesGood
<1>2. itemPositionRP + 1 \in 1 .. rq.count
  BY <1>1, ContentsProperties, SubQueueCountAssumption
<1>3. itemPositionRP + 1 \in DOMAIN Contents(rq) /\ Contents(rq)[itemPositionRP + 1] \in Product
  BY <1>1, <1>2, ContentsProperties
<1> QED
  BY <1>1, <1>3, IdsOf, ItemAssumption

\* A machine only starts on the command, and only then a product leaves.
LEMMA LeavesOnStart ==
  ASSUME TInv, PlcCycle
  PROVE  /\ machine'.Sim_start /\ ~ machine.Sim_start => cmd' = "Start"
         /\ cmd' # "Start" => request' = request
<1>1. PICK sel, elapsed :
        /\ sel = Selected /\ elapsed \in BOOLEAN /\ DeviceWithMachine(sel)
        /\ machine' = Simulace1(machine, cmd', trip', elapsed)
  BY DEF PlcCycle
<1>2. PICK on \in Phases : Only(machine, on)
  BY DEF TInv, OnCourse
<1>3. Sim_BTN \in BOOLEAN /\ (seqState = 60 => Only(machine, {"Done"}))
  BY DEF TInv, TransportTypeOK, OnCourse
<1>4. cmd' = "ResetDone" => seqState = 60
  BY <1>1, CycleMoves DEF Stops, Begins, Pulses, Waits
<1>5. PICK m : m = machine'
  OBVIOUS
<1>6. ~ machine.Sim_start /\ cmd' # "Start" => ~ m.Sim_start
  BY <1>1, <1>2, <1>3, <1>4, <1>5, PhaseToPhase
<1>7. cmd' # "Start" => request' = request
  BY <1>5, <1>6 DEF PlcCycle
<1> QED
  BY <1>5, <1>6, <1>7

\* A cycle keeps it: the product reported last leaves the queue with its
\* handshake, and it left its cell at the third step of that.
LEMMA CycleCarries ==
  ASSUME TInv, Carries, PlcCycle, SelectWhile # BOOLEAN
  PROVE  Carries'
<1>1. PICK sel :
        /\ sel = Selected /\ DeviceWithMachine(sel)
        /\ trip' = IF ~deviceRunning /\ deviceRunning' THEN sel.item.params ELSE trip
  BY DEF PlcCycle
<1>2. /\ IInv /\ request \in [Id -> Requests]
      /\ (deviceRunning => seqState # 0) /\ (~ deviceRunning => seqState = 0)
  BY DEF TInv, TransportTypeOK, OnCourse
<1>3. Picked(sel)
  BY <1>1, <1>2, SelectedIsPicked
<1>4. cmd' # "Start" => request' = request
  BY LeavesOnStart
<1>5. deviceRunning => sel.item = item
  BY <1>1, <1>2, ItemStays
<1>6. CASE Stops(sel)
  <2>1. ~ deviceRunning' /\ request' = request
    BY <1>4, <1>6, RunsOn DEF Stops
  <2>2. \A id : id \in Ids(Contents(rq')) =>
                id \in Ids(Contents(rq)) /\ (deviceRunning => id # item.id)
    <3>1. CASE deviceRunning
      <4>1. Ids(Contents(rq')) = Ids(Contents(rq)) \ {sel.item.id}
        BY <1>2, <1>3, <1>6, <3>1, RemovalTakesOut DEF Stops
      <4> QED
        BY <1>5, <3>1, <4>1
    <3>2. CASE ~ deviceRunning
      <4>1. rq' = rq
        BY <1>6, <3>2, ConcludeFields DEF Stops
      <4> QED
        BY <3>2, <4>1
    <3> QED
      BY <3>1, <3>2
  <2> QED
    BY <2>1, <2>2 DEF Carries, Stage
<1>7. ASSUME Conclude(sel, TRUE)
      PROVE  deviceRunning' /\ rq' = rq /\ item' = sel.item
  <2>1. rq' = rq /\ item' = sel.item
    BY <1>7, ConcludeFields
  <2> QED
    BY <1>7, <2>1, RunsOn
<1>8. CASE Begins(sel)
  <2>1. deviceRunning' /\ ~ deviceRunning /\ rq' = rq /\ item' = sel.item
    BY <1>2, <1>7, <1>8 DEF Begins
  <2>2. cmdProductID' = sel.item.id /\ trip' = sel.item.params /\ request' = request
    BY <1>1, <1>4, <1>8, <2>1 DEF Begins
  <2> QED
    BY <2>1, <2>2 DEF Carries, Stage
<1>9. CASE Pulses(sel)
  <2>1. deviceRunning' /\ deviceRunning /\ rq' = rq /\ item' = item
    <3>1. seqState # 0
      BY <1>9 DEF Pulses
    <3> QED
      BY <1>2, <1>5, <1>7, <1>9, <3>1 DEF Pulses
  <2>2. cmdProductID' = cmdProductID /\ trip' = trip
    BY <1>1, <1>9, <2>1 DEF Pulses
  <2>3. \A id \in Id : request'[id].stage = "away" =>
          request[id].stage = "away" \/ (cmd' = "Start" /\ id = cmdProductID)
    <3>1. request' = request \/ request' = [request EXCEPT ![cmdProductID].stage = "away"]
      BY DEF PlcCycle
    <3> QED
      BY <1>2, <1>4, <3>1
  <2>4. \/ seqState = 10 /\ seqState' = 20 /\ cmd' = "SetReady"
        \/ seqState = 30 /\ seqState' = 40 /\ cmd' = "Start"
        \/ seqState = 60 /\ seqState' = 70 /\ cmd' = "ResetDone"
    BY <1>9 DEF Pulses
  <2> QED
    BY <2>1, <2>2, <2>3, <2>4 DEF Carries, Stage
<1>10. CASE Waits(sel)
  <2>1. deviceRunning' /\ deviceRunning /\ rq' = rq /\ item' = item
    <3>1. seqState # 0
      BY <1>10 DEF Waits, Waiting
    <3> QED
      BY <1>2, <1>5, <1>7, <1>10, <3>1 DEF Waits
  <2>2. cmdProductID' = cmdProductID /\ trip' = trip /\ request' = request
    BY <1>1, <1>4, <1>10, <2>1 DEF Waits
  <2>3. seqState \notin {10, 20, 30} => seqState' \notin {10, 20, 30}
    <3>1. seqState \in Waiting /\ seqState' \in Led
      BY <1>10 DEF Waits
    <3> QED
      BY <3>1, LedTo DEF Waiting
  <2> QED
    BY <2>1, <2>2, <2>3 DEF Carries, Stage
<1> QED
  BY <1>1, <1>6, <1>8, <1>9, <1>10, CycleMoves

\* A report adds the id it names to the reported ones, at the most.
LEMMA ReportAdds ==
  ASSUME IInv, NEW id \in Id, ReportProduct(id)
  PROVE  \A x : x \in Ids(Contents(rq')) => x \in Ids(Contents(rq)) \/ x = id
<1> DEFINE it == [id |-> id, params |-> NoParams]
<1>1. rq' = rq \/ rq' = Queue_push(rq, it).queue
  BY DEF ReportProduct
<1>2. it \in Product /\ it.id = id
  BY ItemAssumption
<1> HIDE DEF it
<1>3. GoodQueue(rq)
  BY DEF IInv, QueuesGood
<1>4. Contents(rq') = Contents(rq) \/ Contents(rq') = Append(Contents(rq), it)
  BY <1>1, <1>2, <1>3, PushContents
<1>5. /\ Contents(rq) \in Seq(Product) /\ DOMAIN Contents(rq) = 1 .. Len(Contents(rq))
      /\ Len(Contents(rq)) \in Nat
  BY <1>3, ContentsProperties
<1>6. CASE Contents(rq') = Append(Contents(rq), it)
  <2> DEFINE s == Contents(rq)
  <2>1. /\ Append(s, it) \in Seq(Product) /\ Len(Append(s, it)) = Len(s) + 1
        /\ \A i \in 1 .. Len(s) : Append(s, it)[i] = s[i]
        /\ Append(s, it)[Len(s) + 1] = it
    BY <1>2, <1>5, AppendProperties
  <2>2. DOMAIN Append(s, it) = 1 .. Len(s) + 1
    BY <2>1, LenProperties
  <2> HIDE DEF s
  <2>3. ASSUME NEW x, x \in Ids(Append(s, it))
        PROVE  x \in Ids(s) \/ x = id
    <3>1. PICK j \in 1 .. Len(s) + 1 : Append(s, it)[j].id = x
      BY <2>2, <2>3, IdsOf
    <3>2. CASE j \in 1 .. Len(s)
      BY <1>5, <2>1, <3>1, <3>2, IdsOf DEF s
    <3>3. CASE j = Len(s) + 1
      BY <1>2, <2>1, <3>1, <3>3
    <3> QED
      BY <1>5, <3>2, <3>3 DEF s
  <2> QED
    BY <1>6, <2>3 DEF s
<1> QED
  BY <1>4, <1>6

\* No reader reports a product that is away, nor does one leave by itself.
LEMMA ReaderCarries ==
  ASSUME TInv, Carries, NEW id \in Id, Reader(id)
  PROVE  Carries'
<1>1. /\ UNCHANGED <<deviceRunning, item, seqState, cmdProductID, trip>>
      /\ request \in [Id -> Requests] /\ IInv
  BY ReaderLeavesMachine DEF selection, device, machineVars, TInv, TransportTypeOK
<1>2. ASSUME NEW stage, NEW polls, Go(id, stage, polls), stage # "away"
      PROVE  \A x \in Id : request'[x].stage = "away" => request[x].stage = "away" /\ x # id
  BY <1>1, <1>2 DEF Go, Requests
<1>3. \A x \in Id : request'[x].stage = "away" => request[x].stage = "away"
  <2>1. CASE ArriveSomewhere(id)
    BY <1>1, <2>1 DEF ArriveSomewhere, Requests
  <2>2. ASSUME NEW outcome, NEW params, AskForTransport(id, params, outcome)
        PROVE  request' = request \/ Go(id, "report", 0)
    BY <2>2 DEF AskForTransport
  <2>3. ASSUME NEW outcome, ReportForTransport(id, outcome)
        PROVE  Go(id, "poll", StatusPolls) \/ Go(id, "ask", 0)
    BY <2>3 DEF ReportForTransport
  <2>4. ASSUME NEW outcome, PollTransport(id, outcome)
        PROVE  \/ Go(id, "sent", 0) \/ Go(id, "ask", 0)
               \/ Go(id, "poll", request[id].polls - 1)
    BY <2>4 DEF PollTransport
  <2> QED
    BY <1>2, <2>1, <2>2, <2>3, <2>4 DEF Reader
<1>4. \A x \in Id : request'[x].stage = "away" /\ x \in Ids(Contents(rq'))
                      => x \in Ids(Contents(rq))
  <2>1. CASE ArriveSomewhere(id)
    BY <2>1 DEF ArriveSomewhere, plcVars, spVars
  <2>2. ASSUME NEW outcome, NEW params, AskForTransport(id, params, outcome)
        PROVE  rq' = rq
    BY <2>2 DEF AskForTransport, Transmit, ReserveAction, spVars
  <2>3. ASSUME NEW outcome, ReportForTransport(id, outcome)
        PROVE  /\ rq' = rq \/ ReportProduct(id)
               /\ Go(id, "poll", StatusPolls) \/ Go(id, "ask", 0)
    BY <2>3 DEF ReportForTransport, Transmit, spVars
  <2>4. ASSUME NEW outcome, PollTransport(id, outcome)
        PROVE  rq' = rq
    BY <2>4 DEF PollTransport, Transmit, GetStatus, spVars
  <2>5. ASSUME NEW outcome, ReportForTransport(id, outcome),
               NEW x \in Id, request'[x].stage = "away", x \in Ids(Contents(rq'))
        PROVE  x \in Ids(Contents(rq))
    <3>1. x # id
      BY <1>2, <2>3, <2>5
    <3> QED
      BY <1>1, <2>3, <2>5, <3>1, ReportAdds
  <2> QED
    BY <2>1, <2>2, <2>4, <2>5 DEF Reader
<1> QED
  BY <1>1, <1>3, <1>4 DEF Carries, Stage

\* It holds in every state, for the gate as committed and the inverted one.
LEMMA TransportCarriesInvariant ==
  ASSUME SelectWhile # BOOLEAN
  PROVE  TransportSpec => []Carries
<1>1. TransportInit => Carries
  <2> SUFFICES ASSUME TransportInit PROVE Carries
    OBVIOUS
  <2>1. deviceRunning = FALSE /\ \A id \in Id : request[id].stage = "ask"
    BY DEF TransportInit, Init
  <2> QED
    BY <2>1 DEF Carries, Stage
<1>2. TInv /\ Carries /\ [TransportNext]_allVars => Carries'
  <2> SUFFICES ASSUME TInv, Carries, [TransportNext]_allVars PROVE Carries'
    OBVIOUS
  <2>1. CASE Switch
    BY <2>1 DEF Switch, Carries, Stage, plcVars, selection, device, spVars
  <2>2. CASE UNCHANGED allVars
    BY <2>2 DEF Carries, Stage, allVars, plcVars, selection, device, spVars, machineVars
  <2> QED
    BY <2>1, <2>2, CycleCarries, ReaderCarries DEF TransportNext
<1> QED
  BY <1>1, <1>2, TransportInvariant, PTL DEF TransportSpec

\* The machine starts only with a product that is at its cell, on the trip that
\* product was reserved for.  With the gate removed the item may change in the
\* middle of a handshake, so that gate is left out.
THEOREM TransportCarries ==
  ASSUME SelectWhile # BOOLEAN
  PROVE  TransportSpec => CarriedFromItsCell
<1>1. TInv /\ Carries /\ [TransportNext]_allVars =>
        [machine'.Sim_start /\ ~ machine.Sim_start =>
           /\ Stage(cmdProductID) # "away"
           /\ item.id = cmdProductID /\ item.params = trip]_allVars
  <2> SUFFICES ASSUME TInv, Carries, TransportNext, machine'.Sim_start, ~ machine.Sim_start
               PROVE  /\ Stage(cmdProductID) # "away"
                      /\ item.id = cmdProductID /\ item.params = trip
    OBVIOUS
  <2>1. PlcCycle
    <3>1. Switch => machine' = machine
      BY DEF Switch
    <3>2. \A id \in Id : Reader(id) => machine' = machine
      BY ReaderLeavesMachine DEF machineVars
    <3> QED
      BY <3>1, <3>2 DEF TransportNext
  <2>2. PICK sel : DeviceWithMachine(sel)
    BY <2>1 DEF PlcCycle
  <2>3. cmd' = "Start"
    BY <2>1, LeavesOnStart
  <2>4. seqState = 30
    BY <2>2, <2>3, CycleMoves DEF Stops, Begins, Pulses, Waits
  <2>5. deviceRunning /\ IInv
    BY <2>4 DEF TInv, OnCourse
  <2>6. item.id \in Id /\ item.id \in Ids(Contents(rq))
    BY <2>5, RunningIsReported
  <2> QED
    BY <2>4, <2>5, <2>6 DEF Carries, Stage
<1> QED
  BY <1>1, TransportInvariant, TransportCarriesInvariant, PTL DEF TransportSpec, CarriedFromItsCell

-----------------------------------------------------------------------------
\* The item the device runs lies at the position kept for its removal, unless it
\* was overtaken.
KeepsPlace ==
  deviceRunning /\ ~ overtaken =>
    \E p, k : Place(pq, p, k, itemPositionP) /\ Listed(pq, p)[k + 1] = item

\* Places depend on the lists alone.
LEMMA PlacesStay ==
  ASSUME NEW q, GoodPQueue(q), NEW r, GoodPQueue(r),
         \A p \in Priorities : Listed(r, p) = Listed(q, p),
         NEW p, NEW k, NEW i, Place(q, p, k, i)
  PROVE  Place(r, p, k, i)
<1>1. p \in Priorities /\ p - 1 \in -1 .. PriorityCount - 1
  BY PrioritiesProperties DEF Place
<1>2. CountUpTo(r, p - 1) = CountUpTo(q, p - 1)
  BY <1>1, SameListsSamePlaces
<1> QED
  BY <1>1, <1>2 DEF Place

\* A push behind an entry leaves that entry where it is.
LEMMA PushBehind ==
  ASSUME NEW q, GoodPQueue(q), NEW item_ \in Product, NEW at \in Priorities,
         NEW n, n = PQueue_push(q, item_, at).pqueue,
         NEW p, NEW k, NEW i, Place(q, p, k, i), i < CountUpTo(q, at) \/ n = q
  PROVE  Place(n, p, k, i) /\ Listed(n, p)[k + 1] = Listed(q, p)[k + 1]
<1>1. SUFFICES ASSUME n # q
               PROVE  Place(n, p, k, i) /\ Listed(n, p)[k + 1] = Listed(q, p)[k + 1]
  OBVIOUS
<1>2. /\ GoodPQueue(n)
      /\ \A h \in Priorities : Listed(n, h) = IF h = at THEN Append(Listed(q, at), item_)
                                                        ELSE Listed(q, h)
  BY <1>1, PQPush
<1>3. /\ p \in Priorities /\ k \in 0 .. Len(Listed(q, p)) - 1 /\ i = CountUpTo(q, p - 1) + k
      /\ i < CountUpTo(q, at)
  BY <1>1 DEF Place
<1>4. /\ Counters(q) /\ Counters(n)
      /\ \A h \in Priorities : /\ Listed(q, h) \in Seq(Product)
                               /\ q.subElementCount[h] = Len(Listed(q, h))
                               /\ n.subElementCount[h] = Len(Listed(n, h))
                               /\ CountUpTo(q, h) \in Nat /\ CountUpTo(q, h - 1) \in Nat
  <2>1. \A h \in Priorities : CountUpTo(q, h) \in Nat
    <3>1. \A h \in Priorities : h \in -1 .. PriorityCount - 1
      BY PriorityCountAssumption DEF Priorities
    <3> QED
      BY <3>1, GoodCounts, CountSteps
  <2> QED
    BY <1>2, <2>1, GoodCounts
<1>5. {p, at, p - 1} \subseteq -1 .. PriorityCount - 1 /\ {p, at} \subseteq Nat
  BY <1>3, PriorityCountAssumption DEF Priorities
<1>6. p <= at
  <2>1. SUFFICES ASSUME at <= p - 1 PROVE FALSE
    BY <1>5
  <2>2. CountUpTo(q, at) <= CountUpTo(q, p - 1)
    BY <1>4, <1>5, <2>1, CountMonotone
  <2>3. Len(Listed(q, p)) \in Nat
    BY <1>3, <1>4
  <2> QED
    BY <1>3, <1>4, <2>2, <2>3
<1>7. CountUpTo(n, p - 1) = CountUpTo(q, p - 1)
  <2>1. \A h \in Priorities \ {at} : n.subElementCount[h] = q.subElementCount[h]
    BY <1>2, <1>4
  <2>2. p - 1 < at
    BY <1>5, <1>6
  <2> QED
    BY <1>4, <1>5, <2>1, <2>2, CountChange
<1>8. /\ Listed(n, p)[k + 1] = Listed(q, p)[k + 1]
      /\ k \in 0 .. Len(Listed(n, p)) - 1
  <2>1. CASE p = at
    <3>1. PICK s : s = Listed(q, at)
      OBVIOUS
    <3>2. /\ Len(Append(s, item_)) = Len(s) + 1 /\ Len(s) \in Nat
          /\ \A j \in 1 .. Len(s) : Append(s, item_)[j] = s[j]
      BY <1>4, <3>1, AppendProperties
    <3>3. Listed(n, p) = Append(s, item_) /\ Listed(q, p) = s
      BY <1>2, <1>3, <2>1, <3>1
    <3>4. k + 1 \in 1 .. Len(s) /\ k \in 0 .. Len(Append(s, item_)) - 1
      BY <1>3, <3>2, <3>3
    <3> QED
      BY <3>2, <3>3, <3>4
  <2>2. CASE p # at
    BY <1>2, <1>3, <2>2
  <2> QED
    BY <2>1, <2>2
<1> QED
  BY <1>3, <1>7, <1>8 DEF Place

\* CheckAction names the place a handshake begins with, no cycle before the last
\* moves it, and a reservation at a later place does not either.
LEMMA CycleKeepsPlace ==
  ASSUME TInv, KeepsPlace, PlcCycle, SelectWhile # BOOLEAN
  PROVE  KeepsPlace'
<1> SUFFICES ASSUME deviceRunning', ~ overtaken'
             PROVE  \E p, k : /\ Place(pq', p, k, itemPositionP')
                              /\ Listed(pq', p)[k + 1] = item'
  BY DEF KeepsPlace
<1>1. PICK sel : sel = Selected /\ DeviceWithMachine(sel)
  BY DEF PlcCycle
<1>2. ~ overtaken
  <2>1. overtaken' = (overtaken /\ deviceRunning')
    BY DEF PlcCycle
  <2> QED
    BY <2>1, Zenon
<1>3. /\ IInv /\ GoodPQueue(pq)
      /\ (deviceRunning => seqState # 0) /\ (~ deviceRunning => seqState = 0)
  BY DEF TInv, OnCourse, IInv, QueuesGood
<1>4. Picked(sel)
  BY <1>1, <1>3, SelectedIsPicked
<1>5. ~ Stops(sel)
  BY RunsOn DEF Stops
<1>6. sel.found /\ Conclude(sel, TRUE)
  BY <1>1, <1>5, CycleMoves DEF Begins, Pulses, Waits
<1>7. item' = sel.item /\ itemPositionP' = sel.p
  BY <1>6, ConcludeFields
<1>8. GoodPQueue(pq') /\ \A p \in Priorities : Listed(pq', p) = Listed(pq, p)
  BY <1>3, <1>4, <1>6, QueuesStay
<1>9. \E p, k : Place(pq, p, k, sel.p) /\ Listed(pq, p)[k + 1] = sel.item
  <2>1. CASE deviceRunning
    BY <1>1, <1>2, <1>3, <2>1, ItemStays DEF KeepsPlace
  <2>2. CASE ~ deviceRunning
    BY <1>1, <1>3, <1>6, <2>2, BeginsWithPlace DEF Names
  <2> QED
    BY <2>1, <2>2
<1>10. PICK p, k : Place(pq, p, k, sel.p) /\ Listed(pq, p)[k + 1] = sel.item
  BY <1>9
<1>11. Place(pq', p, k, sel.p)
  BY <1>3, <1>8, <1>10, PlacesStay
<1>12. Listed(pq', p)[k + 1] = sel.item
  BY <1>8, <1>10 DEF Place
<1> QED
  BY <1>7, <1>11, <1>12

LEMMA ReaderKeepsPlace ==
  ASSUME TInv, KeepsPlace, NEW id \in Id, Reader(id)
  PROVE  KeepsPlace'
<1> SUFFICES ASSUME deviceRunning', ~ overtaken'
             PROVE  \E p, k : /\ Place(pq', p, k, itemPositionP')
                              /\ Listed(pq', p)[k + 1] = item'
  BY DEF KeepsPlace
<1>1. /\ deviceRunning' = deviceRunning
      /\ UNCHANGED <<item, itemPositionP>>
  BY ReaderLeavesMachine DEF selection, device
<1>2. deviceRunning
  BY <1>1, Zenon
<1>3. CASE UNCHANGED <<pq, overtaken>>
  BY <1>1, <1>2, <1>3 DEF KeepsPlace
<1>4. ASSUME NEW outcome, NEW params \in Trips[id], AskForTransport(id, params, outcome)
      PROVE  \E p, k : Place(pq', p, k, itemPositionP) /\ Listed(pq', p)[k + 1] = item
  <2>1. ~ overtaken /\ ~ Overtakes(From[id])
    <3>1. overtaken' = (overtaken \/ Overtakes(From[id]))
      BY <1>4 DEF AskForTransport
    <3> QED
      BY <3>1, Zenon
  <2>2. PICK p, k : Place(pq, p, k, itemPositionP) /\ Listed(pq, p)[k + 1] = item
    BY <1>2, <2>1 DEF KeepsPlace
  <2>3. PICK it : it = [id |-> id, params |-> params]
    OBVIOUS
  <2>4. it \in Product /\ From[id] \in Priorities
    BY <2>3, ItemAssumption, TransportAssumption
  <2>5. pq' = pq \/ pq' = PQueue_push(pq, it, From[id]).pqueue
    BY <1>4, <2>3 DEF AskForTransport, Transmit, ReserveAction, spVars
  <2>6. GoodPQueue(pq) /\ Counters(pq)
    BY GoodCounts DEF TInv, IInv, QueuesGood
  <2>7. pq' # pq => itemPositionP < CountUpTo(pq, From[id])
    <3>1. CountUpTo(pq, From[id]) \in Nat
      <4>1. From[id] \in -1 .. PriorityCount - 1
        BY <2>4, PriorityCountAssumption DEF Priorities
      <4> QED
        BY <2>6, <4>1, CountSteps
    <3>2. itemPositionP \in Nat
      BY PriorityCountAssumption, SubQueueCountAssumption DEF TInv, IInv, TypeOK
    <3>3. pq' # pq => ~ (CountUpTo(pq, From[id]) <= itemPositionP)
      BY <1>2, <2>1, Zenon DEF Overtakes
    <3> QED
      BY <3>1, <3>2, <3>3
  <2>8. pq' # pq => /\ Place(pq', p, k, itemPositionP)
                    /\ Listed(pq', p)[k + 1] = Listed(pq, p)[k + 1]
    BY <2>2, <2>4, <2>5, <2>6, <2>7, PushBehind
  <2> QED
    BY <2>2, <2>8
<1>5. ASSUME NEW outcome, ReportForTransport(id, outcome) \/ PollTransport(id, outcome)
      PROVE  UNCHANGED <<pq, overtaken>>
  BY <1>5 DEF ReportForTransport, PollTransport, Transmit, ReportProduct, GetStatus, spVars
<1>6. ArriveSomewhere(id) => UNCHANGED <<pq, overtaken>>
  BY DEF ArriveSomewhere, plcVars, spVars, ghosts
<1>7. \/ UNCHANGED <<pq, overtaken>>
      \/ \E outcome \in Outcomes, params \in Trips[id] : AskForTransport(id, params, outcome)
  BY <1>5, <1>6 DEF Reader
<1> QED
  BY <1>1, <1>3, <1>4, <1>7

\* So the position kept is right in every state that was not overtaken.
LEMMA TransportPlaceInvariant ==
  ASSUME SelectWhile # BOOLEAN
  PROVE  TransportSpec => []KeepsPlace
<1>1. TransportInit => KeepsPlace
  <2>1. TransportInit => deviceRunning = FALSE
    BY DEF TransportInit, Init
  <2> QED
    BY <2>1 DEF KeepsPlace
<1>2. TInv /\ KeepsPlace /\ [TransportNext]_allVars => KeepsPlace'
  <2> SUFFICES ASSUME TInv, KeepsPlace, [TransportNext]_allVars PROVE KeepsPlace'
    OBVIOUS
  <2>1. CASE Switch
    BY <2>1 DEF Switch, KeepsPlace, plcVars, selection, device, spVars
  <2>2. CASE UNCHANGED allVars
    BY <2>2 DEF KeepsPlace, allVars, plcVars, selection, device, spVars, ghosts
  <2> QED
    BY <2>1, <2>2, CycleKeepsPlace, ReaderKeepsPlace DEF TransportNext
<1> QED
  BY <1>1, <1>2, TransportInvariant, PTL DEF TransportSpec

\* The product a handshake ran, and no other, leaves both queues at its end,
\* unless a reservation of a higher priority shifted the position kept.  The gate
\* removed is left out again.
THEOREM TransportRemovesWhatItRan ==
  ASSUME SelectWhile # BOOLEAN
  PROVE  TransportSpec => RemovesWhatItRan
<1>1. TInv /\ KeepsPlace /\ [TransportNext]_allVars =>
        [deviceRunning /\ ~ deviceRunning' /\ ~ overtaken =>
           /\ ReservedIds(pq') = ReservedIds(pq) \ {item.id}
           /\ {p.id : p \in ToSet(Contents(rq'))} =
                {p.id : p \in ToSet(Contents(rq))} \ {item.id}]_allVars
  <2> SUFFICES ASSUME TInv, KeepsPlace, TransportNext,
                      deviceRunning, ~ deviceRunning', ~ overtaken
               PROVE  /\ ReservedIds(pq') = ReservedIds(pq) \ {item.id}
                      /\ Ids(Contents(rq')) = Ids(Contents(rq)) \ {item.id}
    BY DEF Ids
  <2>1. PlcCycle
    <3>1. Switch => deviceRunning' = deviceRunning
      BY DEF Switch, plcVars, device
    <3>2. \A id \in Id : Reader(id) => deviceRunning' = deviceRunning
      BY ReaderLeavesMachine DEF device
    <3> QED
      BY <3>1, <3>2 DEF TransportNext
  <2>2. PICK sel : sel = Selected /\ DeviceWithMachine(sel)
    BY <2>1 DEF PlcCycle
  <2>3. IInv
    BY DEF TInv
  <2>4. Picked(sel)
    BY <2>2, <2>3, SelectedIsPicked
  <2>5. sel.item = item /\ sel.p = itemPositionP
    BY <2>2, <2>3, ItemStays
  <2>6. Conclude(sel, FALSE)
    <3>1. ~ Conclude(sel, TRUE)
      BY RunsOn
    <3> QED
      BY <2>2, <3>1, CycleMoves DEF Stops, Begins, Pulses, Waits
  <2>7. \E p, k : Place(pq, p, k, sel.p) /\ Listed(pq, p)[k + 1] = sel.item
    BY <2>5 DEF KeepsPlace
  <2> QED
    BY <2>3, <2>4, <2>5, <2>6, <2>7, RemovalTakesOut
<1> QED
  BY <1>1, TransportInvariant, TransportPlaceInvariant, PTL
     DEF TransportSpec, RemovesWhatItRan

=============================================================================
