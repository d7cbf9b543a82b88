----------------------------- MODULE GameRoomMC -----------------------------
(***************************************************************************)
(* Constants of the instances of GameRoom that TLC checks.                 *)
(***************************************************************************)
EXTENDS GameRoomClaims

TwoPlayers == {1, 2}
OnlyOwner == {1}
NoUpdates == {}
PutBack == {"PENDING"}
ZeroOrOne == {0, 1}
=============================================================================
