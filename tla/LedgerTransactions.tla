------------------------- MODULE LedgerTransactions -------------------------
(***************************************************************************)
(* The database functions that move the players' money, as transactions of *)
(* concurrent sessions: process_ledger_entry and the functions around it   *)
(* (award_pot, transfer_between_players, the decision of a request, of a   *)
(* ticket or of an investigation), and transfer_pique_banda, which writes  *)
(* the ledger without it.                                                  *)
(*                                                                         *)
(* A session runs one call.  It waits for locks, a row taken FOR UPDATE    *)
(* and one advisory lock per user, which it holds until it ends; what it   *)
(* writes is its own until it commits.  The statements between two waits   *)
(* are one step.  A caller that lost an answer may send the same operation *)
(* again at any moment, in another session.                                *)
(***************************************************************************)
EXTENDS Integers, Sequences

CONSTANTS
    User,
    Session,      \* sessions; each runs at most one call
    Op, NoOp,     \* operations; an operation has its own references
    Row, NoRow,   \* requests, tickets and investigations
    Kind,         \* what each operation is
    On,           \* the row it decides, or NoRow
    Legs,         \* its ledger entries, in order
    Opening,      \* the balance of each user at the start
    Waiting       \* rows that wait for a decision at the start

Plain == {"entry", "award", "transfer", "banda"}
Decisions == {"approve", "reject", "propose", "cancel", "dismiss"}

(* The types of entry process_ledger_entry admits.                         *)
LedgerTypes ==
    {"deposit", "withdrawal", "bet", "win", "rake", "refund", "adjustment", "transfer"}

ASSUME LedgerAssumption ==
    /\ NoOp \notin Op /\ NoRow \notin Row /\ Waiting \subseteq Row
    /\ Kind \in [Op -> Plain \cup Decisions]
    /\ On \in [Op -> Row \cup {NoRow}]
    /\ Legs \in [Op -> Seq([user : User, amount : Int, type : STRING])]
    /\ Opening \in [User -> Nat]

(* One entry, or two where two users are concerned or a commission is      *)
(* taken, or none.  At most one operation pays for a row.                  *)
ASSUME OperationAssumption ==
    \A o \in Op :
        /\ Len(Legs[o]) \in 0 .. 2
        /\ Kind[o] \in Plain <=> On[o] = NoRow
        /\ Kind[o] \in Plain \cup {"approve"} <=> Legs[o] # <<>>
        /\ Kind[o] = "banda" => Len(Legs[o]) = 2 /\ Legs[o][1].user # Legs[o][2].user
        /\ Kind[o] = "transfer" =>
             Len(Legs[o]) = 2 /\ Legs[o][2].amount >= 0 /\ Legs[o][2].type \in LedgerTypes
        /\ Kind[o] = "approve" =>
             \A p \in Op : Kind[p] = "approve" /\ On[p] = On[o] => p = o

VARIABLES
    last,         \* balance_after_cents of each user's last entry; an absent one counts 0
    wallet,       \* wallets.balance_cents
    moved,        \* history: the opening balance and what was moved since
    entries,      \* references in the ledger: <<o, n>>, the n-th entry of o
    rows,         \* the status of requests, tickets and investigations
    sessions

money == <<last, wallet, moved, entries>>
vars == <<last, wallet, moved, entries, rows, sessions>>

(* A session before its first step, or after its transaction ended.        *)
Fresh(o, state) ==
    [op |-> o, state |-> state, leg |-> 1, users |-> {}, row |-> NoRow,
     wrote |-> {}, draft |-> [u \in User |-> 0]]

Running == {"row", "post"}
Answers == {"done", "refused", "failed", "deadlock"}

(* A row that does not wait is an investigation without a proposal.        *)
Init ==
    /\ last = Opening /\ wallet = Opening /\ moved = Opening
    /\ entries = {}
    /\ rows = [r \in Row |-> IF r \in Waiting THEN "pending" ELSE "idle"]
    /\ sessions = [s \in Session |-> Fresh(NoOp, "idle")]

-----------------------------------------------------------------------------
(* What an operation moves.                                                *)

Part(o, n, u) ==
    IF n \in DOMAIN Legs[o] /\ Legs[o][n].user = u THEN Legs[o][n].amount ELSE 0

Moves(o, legs, u) ==
    (IF 1 \in legs THEN Part(o, 1, u) ELSE 0) + (IF 2 \in legs THEN Part(o, 2, u) ELSE 0)

Users(o, legs) == {Legs[o][n].user : n \in legs}

References(o, legs) == {<<o, n>> : n \in legs}

(* The decisions of a row: the status each needs and the one it leaves.    *)
Needs == [approve |-> "pending", reject |-> "pending", propose |-> "idle",
          cancel |-> "pending", dismiss |-> "idle"]
Leaves == [approve |-> "approved", reject |-> "rejected", propose |-> "pending",
           cancel |-> "idle", dismiss |-> "rejected"]

-----------------------------------------------------------------------------
(* Locks.  They are those of the transaction and end with it.              *)

Bug_RowFree(s, r) == TRUE

RowFree(s, r) == \A t \in Session \ {s} : sessions[t].row # r

Bug_UserFree(s, u) == TRUE

UserFree(s, u) == \A t \in Session \ {s} : u \notin sessions[t].users

(* The wallet of a user is locked by the transaction that wrote it.        *)
WalletFree(s, u) ==
    \A t \in Session \ {s} : u \notin Users(sessions[t].op, sessions[t].wrote)

Current(s) == Legs[sessions[s].op][sessions[s].leg]

HasLeg(s) == sessions[s].leg \in DOMAIN Legs[sessions[s].op]

Bug_WaitsFor(s, t) == FALSE

WaitsFor(s, t) ==
    /\ s # t
    /\ \/ sessions[s].state = "row" /\ sessions[t].row = On[sessions[s].op]
       \/ sessions[s].state = "post" /\ HasLeg(s) /\ Current(s).user \in sessions[t].users

InDeadlock(s) ==
    \E C \in SUBSET Session :
        /\ s \in C
        /\ \A c \in C : (\E t \in C : WaitsFor(c, t)) /\ (\E t \in C : WaitsFor(t, c))

-----------------------------------------------------------------------------
(* A transaction ends: its locks are gone, and the caller has an answer.   *)

End(s, answer) ==
    sessions' = [sessions EXCEPT ![s] = Fresh(sessions[s].op, answer)]

(* What the transaction of a session wrote becomes everybody's.            *)
Store(s) ==
    LET o == sessions[s].op
        legs == sessions[s].wrote
        written == Users(o, legs)
    IN  /\ entries' = entries \cup References(o, legs)
        /\ last' = [u \in User |-> IF u \in written THEN sessions[s].draft[u] ELSE last[u]]
        /\ wallet' = [u \in User |-> IF u \in written THEN sessions[s].draft[u] ELSE wallet[u]]
        /\ moved' = [u \in User |-> moved[u] + Moves(o, legs, u)]

Begin(s, o) ==
    /\ sessions[s].state = "idle"
    /\ sessions' =
         [sessions EXCEPT ![s] = Fresh(o, IF On[o] = NoRow THEN "post" ELSE "row")]
    /\ UNCHANGED <<last, wallet, moved, entries, rows>>

(* SELECT ... FOR UPDATE, then the status of the row.                      *)
ReadRow(s) ==
    /\ sessions[s].state = "row"
    /\ LET o == sessions[s].op
       IN  /\ RowFree(s, On[o])
           /\ \/ /\ rows[On[o]] = Needs[Kind[o]]
                 /\ sessions' = [sessions EXCEPT ![s].state = "post", ![s].row = On[o]]
              \/ /\ rows[On[o]] # Needs[Kind[o]]
                 /\ End(s, "refused")
    /\ UNCHANGED <<last, wallet, moved, entries, rows>>

-----------------------------------------------------------------------------
(* process_ledger_entry, called for the next entry of the operation.       *)

Bug_IsPosted(s) == FALSE

IsPosted(s) == <<sessions[s].op, sessions[s].leg>> \in entries

(* The balance of the last entry, which may be of this transaction.        *)
Balance(s, u) ==
    IF u \in Users(sessions[s].op, sessions[s].wrote) THEN sessions[s].draft[u] ELSE last[u]

NewBalance(s) == Balance(s, Current(s).user) + Current(s).amount

Bug_Admits(s) == Current(s).type \in LedgerTypes

Admits(s) == Current(s).type \in LedgerTypes /\ (IsPosted(s) \/ NewBalance(s) >= 0)

(* A reference that is in the ledger already is answered, not repeated.    *)
PostEntry(s) ==
    /\ sessions' =
         [sessions EXCEPT
            ![s].leg = @ + 1,
            ![s].users = @ \cup {Current(s).user},
            ![s].wrote = IF IsPosted(s) THEN @ ELSE @ \cup {sessions[s].leg},
            ![s].draft = IF IsPosted(s) THEN @
                         ELSE [@ EXCEPT ![Current(s).user] = NewBalance(s)]]
    /\ UNCHANGED <<last, wallet, moved, entries>>

(* award_pot raises when the commission is refused; a transfer returns and *)
(* what it wrote stays.                                                    *)
RefuseEntry(s) ==
    /\ End(s, "refused")
    /\ \/ Kind[sessions[s].op] = "transfer" /\ Store(s)
       \/ Kind[sessions[s].op] # "transfer" /\ UNCHANGED <<last, wallet, moved, entries>>

Post(s) ==
    /\ sessions[s].state = "post" /\ Kind[sessions[s].op] # "banda"
    /\ HasLeg(s)
    /\ UserFree(s, Current(s).user)
    /\ \/ Admits(s) /\ PostEntry(s)
       \/ ~Admits(s) /\ RefuseEntry(s)
    /\ rows' = rows

(* The call returns: its row takes its new status and all of it commits.   *)
Commit(s) ==
    /\ sessions[s].state = "post" /\ ~HasLeg(s)
    /\ LET o == sessions[s].op
       IN  rows' = IF On[o] = NoRow THEN rows
                   ELSE [rows EXCEPT ![On[o]] = Leaves[Kind[o]]]
    /\ Store(s)
    /\ End(s, "done")

-----------------------------------------------------------------------------
(* transfer_pique_banda takes locks of another key, which no other         *)
(* function looks at, and a second call of the same game is refused by the *)
(* index of references, not by its own test.  It reads no balance, and its *)
(* entries carry none.  One loser stands for all; the entry of the         *)
(* commission, which changes no wallet, is left out.                       *)
Banda(s) ==
    /\ sessions[s].state = "post" /\ Kind[sessions[s].op] = "banda"
    /\ LET o == sessions[s].op
           both == Users(o, {1, 2})
       IN  /\ \A u \in both : WalletFree(s, u)
           /\ \/ /\ References(o, {1, 2}) \cap entries # {}
                 /\ End(s, "refused")
                 /\ UNCHANGED <<last, wallet, moved, entries>>
              \/ /\ References(o, {1, 2}) \cap entries = {}
                 /\ End(s, "done")
                 /\ entries' = entries \cup References(o, {1, 2})
                 /\ last' = [u \in User |-> IF u \in both THEN 0 ELSE last[u]]
                 /\ wallet' = [u \in User |-> wallet[u] + Moves(o, {1, 2}, u)]
                 /\ moved' = [u \in User |-> moved[u] + Moves(o, {1, 2}, u)]
    /\ rows' = rows

(* The connection or the statement is lost before the commit.              *)
Fail(s) ==
    /\ sessions[s].state \in Running
    /\ End(s, "failed")
    /\ UNCHANGED <<last, wallet, moved, entries, rows>>

(* The database aborts one of the transactions that wait in a circle.      *)
BreakDeadlock(s) ==
    /\ InDeadlock(s)
    /\ End(s, "deadlock")
    /\ UNCHANGED <<last, wallet, moved, entries, rows>>

Work(s) == ReadRow(s) \/ Post(s) \/ Commit(s) \/ Banda(s)

Next ==
    \E s \in Session :
        (\E o \in Op : Begin(s, o)) \/ Work(s) \/ Fail(s) \/ BreakDeadlock(s)

Spec == Init /\ [][Next]_vars

(* The database runs a session that need not wait, and looks for deadlocks *)
(* after deadlock_timeout.                                                 *)
FairSpec == Spec /\ \A s \in Session : WF_vars(Work(s)) /\ WF_vars(BreakDeadlock(s))

-----------------------------------------------------------------------------
Applied == {o \in Op : Legs[o] # <<>> /\ \A n \in DOMAIN Legs[o] : <<o, n>> \in entries}

(* A user whose money a banda moved.                                       *)
InBanda(u) == \E o \in Applied : Kind[o] = "banda" /\ u \in Users(o, {1, 2})

Statuses == {"pending", "idle", "approved", "rejected"}

Transactions ==
    [op : Op \cup {NoOp}, state : Running \cup Answers \cup {"idle"}, leg : 1 .. 3,
     users : SUBSET User, row : Row \cup {NoRow}, wrote : SUBSET (1 .. 2),
     draft : [User -> Nat]]

(* The variables have their types; a balance the ledger computed, written  *)
(* or not, is never negative.                                              *)
TypeOK ==
    /\ last \in [User -> Nat]
    /\ wallet \in [User -> Int] /\ moved \in [User -> Int]
    /\ entries \subseteq Op \X (1 .. 2)
    /\ rows \in [Row -> Statuses]
    /\ sessions \in [Session -> Transactions]

(* Unless a banda moved the money of a user, the last entry, the wallet    *)
(* and what the entries amount to agree, whatever transactions of the user *)
(* run at the same time (process_ledger_entry).                            *)
EntriesAddUp ==
    \A u \in User : ~InBanda(u) => last[u] = moved[u] /\ wallet[u] = moved[u]

(* A request, ticket or investigation is approved if and only if its money *)
(* was moved: two administrators who decide it at the same time cannot     *)
(* both be obeyed (process_admin_transaction and its like).                *)
ApprovedIsPaid ==
    \A o \in Op : Kind[o] = "approve" => (o \in Applied <=> rows[On[o]] = "approved")

(* Every call of the ledger keeps the promise of Bank.                     *)
Paper == [pending |-> "open", idle |-> "open", approved |-> "paid", rejected |-> "closed"]

Account == INSTANCE Bank WITH
    balance <- moved,
    applied <- Applied,
    papers <- [r \in Row |-> Paper[rows[r]]],
    Net <- [o \in Op |-> [u \in User |-> Moves(o, {1, 2}, u)]]

KeepsAccounts == Account!Spec

(* Every call is answered, though calls wait for each other, even in a     *)
(* circle (two transfers that cross).                                      *)
CallsAreAnswered ==
    \A s \in Session : sessions[s].state \in Running ~> sessions[s].state \in Answers

(* The wallet holds what was moved into it, bandas included: docs/admin    *)
(* ADMIN.md says the last entry is the balance.                            *)
WalletKeepsTheMoney == \A u \in User : wallet[u] = moved[u]
=============================================================================
