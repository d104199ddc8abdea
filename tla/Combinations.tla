---------------------------- MODULE Combinations ----------------------------
(***************************************************************************)
(* The rules of a hand of Primera, from rooms/combinations.ts: what a set  *)
(* of cards is worth, which of several hands win a pot, and how an amount  *)
(* is split between the winners.  Everything here is a pure operator: the  *)
(* rooms call them, and ShowdownOfOnePot checks them.                      *)
(*                                                                         *)
(* A card is a pair <<value, suit>>; a hand is a set of cards (a deck has  *)
(* no duplicates).  An evaluation {type, points} is ONE integer,           *)
(* 100 * rank of the type + points: no hand is worth 100 points or more,   *)
(* so comparing the integers is compareHands, and the bonus of La Mano is  *)
(* +1 on the integer.                                                      *)
(***************************************************************************)
EXTENDS Integers, FiniteSets, FiniteSetsExt, Functions

Suit == {"Oros", "Copas", "Espadas", "Bastos"}

CardPoints == <<16, 12, 13, 14, 15, 18, 21>>

Points(cards) == SumFunctionOnSet([c \in cards |-> CardPoints[c[1]]], cards)

OfSuit(cards, suit) == {c \in cards : c[2] = suit}

(* The points of the best suit: what every hand but a PRIMERA is worth.    *)
SuitPoints(cards) == Max({Points(OfSuit(cards, s)) : s \in Suit} \cup {0})

NINGUNA == 100
PRIMERA == 200
CHIVO   == 300
SEGUNDA == 400

IsSegunda(cards) == \E s \in Suit : cards = OfSuit(cards, s)
HasChivo(cards)  == \E s \in Suit : {<<1, s>>, <<6, s>>, <<7, s>>} \subseteq cards
IsPrimera(cards) == \A s \in Suit : OfSuit(cards, s) # {}

EvaluateHand(cards) ==
    IF Cardinality(cards) < 4 THEN NINGUNA + SuitPoints(cards)
    ELSE IF IsSegunda(cards)  THEN SEGUNDA + SuitPoints(cards)
    ELSE IF HasChivo(cards)   THEN CHIVO + SuitPoints(cards)
    ELSE IF IsPrimera(cards)  THEN PRIMERA + Points(cards)
    ELSE NINGUNA + SuitPoints(cards)

(* A hand "tiene juego" unless its type is NINGUNA.                        *)
TieneJuego(eval) == eval >= PRIMERA

(* The value a hand competes with: La Mano gets one more point.            *)
WithManoBonus(eval, isMano) == IF isMano THEN eval + 1 ELSE eval

(* All the competitors nobody beats; eval maps each of them to its         *)
(* evaluation.  The order of the list only matters to SplitAmount.         *)
ResolveHandWinners(competitors, eval, mano) ==
    {p \in competitors : \A q \in competitors :
        WithManoBonus(eval[p], p = mano) >= WithManoBonus(eval[q], q = mano)}

(* What each of the winners gets of an amount: equal shares, the remainder *)
(* one by one to the first in seat order (seats are integers in that       *)
(* order).                                                                 *)
SplitAmount(amount, winners) ==
    [p \in winners |->
        amount \div Cardinality(winners)
          + IF Cardinality({q \in winners : q < p}) < amount % Cardinality(winners)
            THEN 1 ELSE 0]

(* The commission: 5 % of the amount in cents, rounded up to whole pesos   *)
(* of 100 cents - Math.ceil(amount * 0.05 / 100) * 100.                    *)
RakeOf(amount) == ((amount + 1999) \div 2000) * 100
=============================================================================
