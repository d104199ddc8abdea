----------------------------- MODULE MCMainPot -----------------------------
(***************************************************************************)
(* Instances of MainPot for TLC: three or four seats, chips in cents.      *)
(***************************************************************************)
EXTENDS MainPot

Nobody == [s \in Seat |-> 0]

Deal(chips, cards) ==
    [chips |-> chips, cards |-> cards, mainBet |-> Nobody, merged |-> 3000,
     waiting |-> {}, folded |-> {}, allIn |-> {}, mano |-> 1, dealer |-> 1, rotated |-> FALSE]

(* Hands: 165 and 170 have no juego, 255 is a PRIMERA, 355 a CHIVO.        *)
(* Two equal PRIMERAS, one of La Mano, and a short stack with a CHIVO.     *)
EqualHands == Deal(<<5000, 5000, 2000>>, <<255, 255, 355>>)

(* One hand with juego; La Mano and the short stack have none.             *)
OneJuego == Deal(<<5000, 5000, 2000>>, <<165, 255, 170>>)

(* Nobody has juego, and seat 3 is all-in since APUESTA_4_CARTAS.          *)
AllInBefore ==
    [Deal(<<3000, 3000, 0>>, <<165, 166, 170>>)
       EXCEPT !.mainBet = <<2000, 2000, 1000>>, !.allIn = {3}, !.merged = 0]

(* Seat 3 joined during the hand and waits for the next one.               *)
Spectator ==
    [Deal(<<4000, 4000, 4000>>, <<255, 355, 0>>) EXCEPT !.waiting = {3}]

(* Two deep stacks without juego, two short ones with it.                  *)
DeepWithoutJuego == Deal(<<3000, 3000, 1000, 1000>>, <<165, 166, 255, 355>>)

PlayedDeals == {EqualHands, OneJuego, AllInBefore, Spectator}
LinkDeals == {EqualHands}
FourSeatDeals == {DeepWithoutJuego}
=============================================================================
