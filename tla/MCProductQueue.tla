--------------------------- MODULE MCProductQueue ---------------------------
(***************************************************************************)
(* One queue of four slots for TLC; two of the three products share an id, *)
(* so that Queue_find has to choose.                                       *)
(***************************************************************************)
EXTENDS ProductQueueSpec

CONSTANTS idA, idB

Products == {[id |-> idA, lot |-> 1], [id |-> idA, lot |-> 2],
             [id |-> idB, lot |-> 1]}
NoItem == [id |-> 0, lot |-> 0]
=============================================================================
