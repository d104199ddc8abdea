-------------------------- MODULE ShowdownOfOnePot --------------------------
(***************************************************************************)
(* One pot of a showdown as the code plays it: resolveHandWinners is a     *)
(* loop over {type, points} pairs that keeps the best hand, and a filter   *)
(* for those that equal it; splitAmount pays the shares in seat order.     *)
(* The other modules use the closed forms of Combinations; here the two    *)
(* are compared on every deal of a deck.                                   *)
(***************************************************************************)
EXTENDS Combinations

CONSTANTS
    Deck,        \* the cards that are dealt, four to every holder
    Holders,     \* the seats that are eligible for the pot
    Manos,       \* who may be La Mano, 0 for a seat that does not compete
    Amounts      \* what the pot may hold

(* The cards are those of the deck, seat order is finite, and what a pot   *)
(* pays is a cent for each of two at least (a negative amount is refused). *)
ASSUME ShowdownAssumption ==
    /\ Deck \subseteq (1..7) \X Suit
    /\ Holders \in SUBSET (Nat \ {0}) /\ IsFiniteSet(Holders) /\ Holders # {}
    /\ \A a \in Amounts : a \in Nat /\ a - RakeOf(a) >= 2

VARIABLES
    hands,       \* the four cards of every holder
    mano,
    amount,
    todo,        \* the candidates the loop has not compared
    best,        \* bestHand
    winners,     \* those whose hand equals the best one, {} before
    unpaid,      \* the winners splitAmount has not reached
    index,       \* how many it has
    paid         \* what every holder received

vars == <<hands, mano, amount, todo, best, winners, unpaid, index, paid>>

(* A mistake: the bonus of La Mano is forgotten.                           *)
Bug_Evaluation(s) == [type |-> EvaluateHand(hands[s]) \div 100, points |-> EvaluateHand(hands[s]) % 100]

(* {type, points}, with the rank compareHands gives the type.              *)
Evaluation(s) ==
    LET e == EvaluateHand(hands[s])
    IN  [type |-> e \div 100, points |-> (e % 100) + IF s = mano THEN 1 ELSE 0]

(* A mistake: points are compared across types.                            *)
Bug_CompareHands(a, b) == a.points - b.points

CompareHands(a, b) == IF a.type # b.type THEN a.type - b.type ELSE a.points - b.points

Init ==
    /\ \E owner \in [Deck -> Holders] :
         /\ \A s \in Holders : Cardinality({c \in Deck : owner[c] = s}) = 4
         /\ hands = [s \in Holders |-> {c \in Deck : owner[c] = s}]
    /\ mano \in Manos /\ amount \in Amounts
    /\ todo = Holders \ {Min(Holders)}
    /\ best = Evaluation(Min(Holders))
    /\ winners = {} /\ unpaid = {} /\ index = 0
    /\ paid = [s \in Holders |-> 0]

(* for (const candidate of evaluated.slice(1)), in seat order.             *)
CompareNext ==
    LET candidate == Evaluation(Min(todo))
    IN  /\ todo # {}
        /\ best' = IF CompareHands(candidate, best) > 0 THEN candidate ELSE best
        /\ todo' = todo \ {Min(todo)}
        /\ UNCHANGED <<hands, mano, amount, winners, unpaid, index, paid>>

FilterWinners ==
    /\ todo = {} /\ winners = {}
    /\ winners' = {s \in Holders : CompareHands(Evaluation(s), best) = 0}
    /\ unpaid' = winners'
    /\ UNCHANGED <<hands, mano, amount, todo, best, index, paid>>

Payout == amount - RakeOf(amount)

(* One share of splitAmount.                                               *)
PayNext ==
    LET n == Cardinality(winners)
        share == Payout \div n + IF index < Payout % n THEN 1 ELSE 0
    IN  /\ unpaid # {}
        /\ paid' = [paid EXCEPT ![Min(unpaid)] = share]
        /\ unpaid' = unpaid \ {Min(unpaid)}
        /\ index' = index + 1
        /\ UNCHANGED <<hands, mano, amount, todo, best, winners>>

Next == CompareNext \/ FilterWinners \/ PayNext

Spec == Init /\ [][Next]_vars

-----------------------------------------------------------------------------
Value(s) == EvaluateHand(hands[s])
Paid == winners # {} /\ unpaid = {}

(* The loop pays what the closed form of the rooms pays: the holders whom  *)
(* nobody beats, with SplitAmount's shares, and not a cent of the payout   *)
(* is lost or made up by the split.                                        *)
PaysClosedForm ==
    Paid =>
      LET chosen == ResolveHandWinners(Holders, [s \in Holders |-> Value(s)], mano)
      IN  /\ \A s \in Holders :
               paid[s] = IF s \in chosen THEN SplitAmount(Payout, chosen)[s] ELSE 0
          /\ SumFunctionOnSet(paid, Holders) = Payout

(* The point of La Mano decides ties and nothing more: La Mano never       *)
(* shares with a hand that is only as good as hers, never wins against a   *)
(* better type, and against one more point of the same type she shares.    *)
ManoDecidesTies ==
    Paid /\ mano \in Holders =>
      LET top == Max({Value(s) : s \in Holders})
      IN  \/ Value(mano) = top /\ paid[mano] = Payout
          \/ /\ Value(mano) = top - 1 /\ paid[mano] < Payout
             /\ \A s \in Holders : paid[s] > 0 => s = mano \/ Value(s) = top
          \/ Value(mano) < top - 1 /\ paid[mano] = 0
=============================================================================
