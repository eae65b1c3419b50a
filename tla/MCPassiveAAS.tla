---------------------------- MODULE MCPassiveAAS ----------------------------
(***************************************************************************)
(* Small instances of the service provider PLC for TLC.                    *)
(***************************************************************************)
EXTENDS PassiveAasRefinement, TLC

CONSTANTS id1, id2, id3

TwoIds == {id1, id2}
ThreeIds == {id1, id2, id3}
TwoIdsAlike == Permutations(TwoIds)
ThreeIdsAlike == Permutations(ThreeIds)

Ask(m, a, b) == [material |-> m, supportA |-> a, supportB |-> b]
Supported == {Ask("100", "60", "60")}
SupportedAndNot == {Ask("100", "60", "60"), Ask("100", "100", "none")}
\* Accepted by ReserveAction, refused by DeviceSlow: 0 after the material, -40
\* after supportA.
AcceptedOrNot == {Ask("100", "60", "60"), Ask("none", "60", "100")}

NoItem == [id |-> noId, params |-> NoParams]
Items(params) == [id : Id, params : params \cup {NoParams}]
ItemsOfParams == Items(Params)

\* The calls of a client that change the queues without freeing anything.
EnteringCalls == {"ReportProduct", "ReserveAction"}
ReaderCalls == EnteringCalls \cup {"GetStatus"}
Gated == {TRUE}       \* as committed
Ungated == BOOLEAN    \* the gate removed
WhenIdle == {FALSE}   \* the gate inverted
=============================================================================
