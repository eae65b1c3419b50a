----------------------------- MODULE MCCellCalls -----------------------------
(***************************************************************************)
(* Products and the PLC of one cell: this cell's orders have priority 0,   *)
(* those of the one other cell priority 1.                                 *)
(***************************************************************************)
EXTENDS CellCalls

CONSTANTS id1, id2, made, refused

TwoIds == {id1, id2}
Known == {made, refused}
Made == {made}
=============================================================================
