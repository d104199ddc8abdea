-------------------------------- MODULE Bank --------------------------------
(***************************************************************************)
(* What the ledger promises about the money of the players: an operation   *)
(* moves its amounts all together and at most once, and the paper that     *)
(* asks for it (a request, a ticket, an investigation) is decided once, in *)
(* the same step as its money moves.                                       *)
(***************************************************************************)
EXTENDS Integers

CONSTANTS
    User, Op,
    Row, NoRow,   \* papers that wait for a decision
    On,           \* the paper of each operation that has one
    Net,          \* what each operation moves, by user
    Opening       \* the money of each user at the start

VARIABLES
    balance,      \* the money of each user
    applied,      \* operations that took place
    papers        \* what was decided: open, paid or closed

vars == <<balance, applied, papers>>

TypeOK ==
    /\ balance \in [User -> Int]
    /\ applied \subseteq Op
    /\ papers \in [Row -> {"open", "paid", "closed"}]

Init ==
    /\ balance = Opening
    /\ applied = {}
    /\ papers = [r \in Row |-> "open"]

Apply(o) ==
    /\ o \notin applied
    /\ applied' = applied \cup {o}
    /\ balance' = [u \in User |-> balance[u] + Net[o][u]]
    /\ \/ On[o] = NoRow /\ papers' = papers
       \/ papers[On[o]] = "open" /\ papers' = [papers EXCEPT ![On[o]] = "paid"]

Close(r) ==
    /\ papers[r] = "open"
    /\ papers' = [papers EXCEPT ![r] = "closed"]
    /\ UNCHANGED <<balance, applied>>

Next == (\E o \in Op : Apply(o)) \/ (\E r \in Row : Close(r))

Spec == Init /\ [][Next]_vars
=============================================================================
