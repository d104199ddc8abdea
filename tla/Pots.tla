-------------------------------- MODULE Pots --------------------------------
(***************************************************************************)
(* The side pots of a hand (core/PotManager.ts, MesaRoom.calculateSidePots) *)
(* in closed form: what the loop of PotManager computes, level by level,   *)
(* as one set.  The rooms use this form; PotManager checks the loop        *)
(* against it.                                                             *)
(*                                                                         *)
(* stake is what each player at the table put in the main pot, competitors *)
(* those who may still win it: a player who folded financed the pots of    *)
(* his levels all the same.                                                *)
(***************************************************************************)
EXTENDS Combinations

Levels(players, stake) == {stake[s] : s \in {t \in players : stake[t] > 0}}

(* The level under a level: prevLevel of the loop.                         *)
Below(level, levels) == Max({l \in levels : l < level} \cup {0})

Reached(players, stake, level) == {s \in players : stake[s] >= level}

(* Mistakes the properties are tested against: the level does not limit    *)
(* who may win a side pot, or folds may.                                   *)
Bug_EligibleAnyLevel(players, stake, level, competitors) == competitors
Bug_EligibleFolded(players, stake, level, competitors) == Reached(players, stake, level)

EligibleFor(players, stake, level, competitors) ==
    Reached(players, stake, level) \cap competitors

Layer(players, stake, prev, level, competitors) ==
    [level |-> level,
     amount |-> (level - prev) * Cardinality(Reached(players, stake, level)),
     eligible |-> EligibleFor(players, stake, level, competitors)]

Total(pots) == SumFunctionOnSet([p \in pots |-> p.amount], pots)

(* One pot per level, and what the stakes of the players at the table do   *)
(* not explain - the merged pique, the bets of players who were removed -  *)
(* as one more pot, open to all competitors and last in order.             *)
SidePots(players, stake, pot, competitors) ==
    LET levels == Levels(players, stake)
        layers == {Layer(players, stake, Below(l, levels), l, competitors) : l \in levels}
    IN  layers \cup
          IF pot > Total(layers) /\ competitors # {}
          THEN {[level |-> Max(levels \cup {0}) + 1, amount |-> pot - Total(layers),
                 eligible |-> competitors]}
          ELSE {}
=============================================================================
