---------------------------- MODULE ProductList ----------------------------
(***************************************************************************)
(* What a caller of the queue functions relies on: a list of at most       *)
(* Capacity products, oldest first, of which any entry can be taken out.   *)
(* It knows nothing of slots, indices or a ring.  ProductQueueSpec shows   *)
(* that the ring buffer of the PLC blocks implements it.                   *)
(***************************************************************************)
EXTENDS Integers, SequencesExt

CONSTANTS Capacity, Product, emptyItem

VARIABLES list,    \* the products, oldest first
          reply    \* the outputs of the last call

vars == <<list, reply>>

Ids == {p.id : p \in Product}
Positions == 0 .. IF list = <<>> THEN 0 ELSE Len(list) - 1

Reply(status, item, position) ==
  [status |-> status, item |-> item, position |-> position]

Init == list = <<>> /\ reply = Reply("PQNoError", emptyItem, 0)

Push(item) ==
  IF Len(list) = Capacity
    THEN /\ reply' = Reply("PQErrBufferIsFull", emptyItem, 0)
         /\ UNCHANGED list
    ELSE /\ reply' = Reply("PQNoError", emptyItem, 0)
         /\ list' = Append(list, item)

TakeOut(position) ==
  IF list = <<>>
    THEN /\ reply' = Reply("PQErrBufferIsEmpty", emptyItem, 0)
         /\ UNCHANGED list
    ELSE /\ reply' = Reply("PQNoError", emptyItem, 0)
         /\ list' = RemoveAt(list, position + 1)

Get(position) ==
  /\ reply' = IF list = <<>> THEN Reply("PQErrBufferIsEmpty", emptyItem, 0)
              ELSE Reply("PQNoError", list[position + 1], 0)
  /\ UNCHANGED list

\* The oldest entry with the id answers.
Find(id) ==
  LET holding == {i \in DOMAIN list : list[i].id = id}
      oldest  == CHOOSE i \in holding : \A j \in holding : i <= j
  IN /\ reply' = IF holding = {} THEN Reply("PQErrMissingProduct", emptyItem, 0)
                 ELSE Reply("PQNoError", emptyItem, oldest - 1)
     /\ UNCHANGED list

Next == \/ \E item \in Product : Push(item)
        \/ \E position \in Positions : TakeOut(position)
        \/ \E position \in Positions : Get(position)
        \/ \E id \in Ids : Find(id)

Spec == Init /\ [][Next]_vars
=============================================================================
