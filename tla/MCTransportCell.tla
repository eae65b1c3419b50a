--------------------------- MODULE MCTransportCell ---------------------------
(***************************************************************************)
(* The transport PLC with two products and their readers, at cells 1 and 2. *)
(***************************************************************************)
EXTENDS TransportCell, TLC

CONSTANTS id1, id2

TwoIds == {id1, id2}
Cells == id1 :> 1 @@ id2 :> 2
Trip(from, to) == [material |-> "100", supportA |-> from, supportB |-> to]
ShortAndNone == {Trip("60", "60"), Trip("100", "100")}
Short == {Trip("60", "60")}
SecondReturns == id1 :> 1 @@ id2 :> 2
OneUntimed == id1 :> ShortAndNone @@ id2 :> Short
NoItem == [id |-> noId, params |-> NoParams]
Items == [id : Id, params : Params \cup {NoParams}]
AllMethods == {"ReportProduct", "ReserveAction", "GetStatus"}
WhenIdle == {FALSE}
Ungated == BOOLEAN
=============================================================================
