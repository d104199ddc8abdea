------------------------------ MODULE MCLobby ------------------------------
(***************************************************************************)
(* Lobby for TLC: four users of equal means.                              *)
(***************************************************************************)
EXTENDS Lobby, TLC

CONSTANTS ana, beto, cira, dora

Users == {ana, beto, cira, dora}
Equal == [u \in Users |-> 3]

Alike == Permutations(Users)
=============================================================================
