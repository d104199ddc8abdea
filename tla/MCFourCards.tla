---------------------------- MODULE MCFourCards ----------------------------
(***************************************************************************)
(* An instance of FourCards for TLC: three seats, chips in cents.          *)
(***************************************************************************)
EXTENDS FourCards

(* 254 and 255 are PRIMERAS of 54 and 55 points, which share the pique     *)
(* while the first is La Mano's; 165 is no juego, but may call for most of *)
(* its stack, twice; and the better juego has a stack below the call.      *)
TwoJuegos ==
    [chips |-> <<3000, 7000, 2000>>, cards |-> <<254, 165, 255>>,
     mainBet |-> [s \in Seat |-> 0], merged |-> 0, pique |-> 3000,
     waiting |-> {}, folded |-> {}, allIn |-> {}, mano |-> 1, dealer |-> 1,
     rotated |-> FALSE]

OneDeal == {TwoJuegos}
=============================================================================
