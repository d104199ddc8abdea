----------------------------- MODULE MCRecovery -----------------------------
(***************************************************************************)
(* Instances of Recovery for TLC: two players, two processes and two       *)
(* replacement rooms, or fewer.                                            *)
(***************************************************************************)
EXTENDS Recovery, TLC

CONSTANTS ana, beto, first, second, room1, room2

Roster == {ana, beto}
Processes == {first, second}
Rooms == {room1, room2}

EvenBets == ana :> 1 @@ beto :> 1

(* The crash came before anything was given out, or after a cent was paid  *)
(* (the pique of a hand played on); the rest is paid, returned or bet by a *)
(* call that comes late.                                                   *)
Untouched == [returned |-> [u \in Roster |-> 0], paid |-> 0]
PaidOrNot == {Untouched, [Untouched EXCEPT !.paid = 1]}

AllCalls == {"open", "claim", "create", "map", "renew", "mark", "derive", "expire", "resolve", "late"}

OnePlayer == {ana}
OneRoom == {room1}
HisBet == ana :> 2
HisPique == {[returned |-> ana :> 0, paid |-> 1]}

(* Without the calls whose failure nobody tries again, and without the     *)
(* replay that comes late and leaves nothing to decide.                    *)
RetriedCalls == AllCalls \ {"open", "mark", "expire", "late"}

Alike == Permutations(Roster) \cup Permutations(Processes) \cup Permutations(Rooms)
=============================================================================
