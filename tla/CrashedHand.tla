---------------------------- MODULE CrashedHand ----------------------------
(***************************************************************************)
(* What the crash recovery promises about one hand that lost its server:   *)
(* somebody decides once what becomes of it, it is played on only if the   *)
(* decision was to resume it, and from then on its money is moved by the   *)
(* expiry of its incident or by the table that resumed it, never by both.  *)
(* What the crashed table had paid or returned before is its own affair.   *)
(***************************************************************************)
VARIABLES
    fate,         \* what was decided about the hand
    playing,      \* TRUE iff a table plays it
    movers        \* who has moved its money since: {}, {"expiry"} or {"table"}

vars == <<fate, playing, movers>>

Fates == {"interrupted", "resumed", "refunded", "reviewed", "closed"}

TypeOK == fate \in Fates /\ playing \in BOOLEAN /\ movers \in {{}, {"expiry"}, {"table"}}

Init == fate = "interrupted" /\ playing = FALSE /\ movers = {}

(* The table that was to play the resumed hand may be lost on the way.     *)
Resume ==
    /\ fate = "interrupted"
    /\ fate' = "resumed"
    /\ playing' \in BOOLEAN
    /\ UNCHANGED movers

(* The table pays a pot, gives bets back, ends the hand, or is lost.       *)
Play ==
    /\ playing
    /\ playing' \in BOOLEAN
    /\ movers' \in {movers, {"table"}}
    /\ UNCHANGED fate

(* Nothing comes back when nobody had bet.                                 *)
Refund ==
    /\ fate = "interrupted"
    /\ fate' = "refunded"
    /\ movers' \in {movers, {"expiry"}}
    /\ UNCHANGED playing

Review == fate = "interrupted" /\ fate' = "reviewed" /\ UNCHANGED <<playing, movers>>

Close == fate = "reviewed" /\ fate' = "closed" /\ UNCHANGED <<playing, movers>>

Next == Resume \/ Play \/ Refund \/ Review \/ Close

Spec == Init /\ [][Next]_vars
=============================================================================
