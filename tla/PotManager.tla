----------------------------- MODULE PotManager -----------------------------
(***************************************************************************)
(* calculateSidePots of core/PotManager.ts as the loop it is, one action   *)
(* per iteration, with the pot its caller in MesaRoom.ts adds at the end.  *)
(* It implements the closed form of module Pots.                           *)
(***************************************************************************)
EXTENDS Pots, Sequences

CONSTANTS
    Players,      \* the players at the table
    Stakes,       \* what a player may have put in the main pot
    Extra         \* what the pot may hold besides those stakes

VARIABLES
    stake,        \* totalMainBet of every player
    competitors,  \* the players still in the hand
    pot,          \* the main pot of the room
    levels,       \* the levels the loop has not visited
    prevLevel,
    pots,         \* the pots pushed so far
    returned      \* TRUE when the caller has the list

vars == <<stake, competitors, pot, levels, prevLevel, pots, returned>>

Init ==
    /\ stake \in [Players -> Stakes]
    /\ competitors \in SUBSET Players
    /\ \E extra \in Extra : pot = SumFunctionOnSet(stake, Players) + extra
    /\ levels = Levels(Players, stake)
    /\ prevLevel = 0 /\ pots = <<>> /\ returned = FALSE

(* A mistake: the next level counts from the bottom again.                 *)
Bug_Visit(level) ==
    /\ pots' = Append(pots, Layer(Players, stake, prevLevel, level, competitors))
    /\ prevLevel' = prevLevel

(* One iteration: a pot of potAmount > 0 is pushed.                        *)
Visit(level) ==
    LET layer == Layer(Players, stake, prevLevel, level, competitors)
    IN  /\ pots' = IF layer.amount > 0 THEN Append(pots, layer) ELSE pots
        /\ prevLevel' = level

(* The levels come in ascending order.                                     *)
NextLevel ==
    /\ levels # {}
    /\ Visit(Min(levels))
    /\ levels' = levels \ {Min(levels)}
    /\ UNCHANGED <<stake, competitors, pot, returned>>

(* The caller: the unallocated rest is one more pot, for everybody.        *)
AddRest ==
    LET rest == pot - Total(Range(pots))
    IN  /\ levels = {} /\ ~returned
        /\ returned' = TRUE
        /\ pots' = IF rest > 0 /\ competitors # {}
                   THEN Append(pots, [level |-> prevLevel + 1, amount |-> rest,
                                      eligible |-> competitors])
                   ELSE pots
        /\ UNCHANGED <<stake, competitors, pot, levels, prevLevel>>

Next == NextLevel \/ AddRest

Spec == Init /\ [][Next]_vars /\ WF_vars(Next)

-----------------------------------------------------------------------------
(* What the loop returns is the closed form the rooms use.                 *)
ReturnsSidePots == returned => Range(pots) = SidePots(Players, stake, pot, competitors)

(* And it does return.                                                     *)
ComputesSidePots == <>(returned /\ Range(pots) = SidePots(Players, stake, pot, competitors))
=============================================================================
