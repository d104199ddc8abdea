---------------------- MODULE LedgerTransactions_proofs ----------------------
(***************************************************************************)
(* Theorems about LedgerTransactions, for any users, operations, rows and  *)
(* number of sessions.  The invariant Kept says what a transaction that    *)
(* has not committed knows: the entries it wrote are not in the ledger     *)
(* yet, nobody else holds the locks of their users, and the balances it    *)
(* wrote are the committed ones plus its own amounts.                      *)
(***************************************************************************)
EXTENDS LedgerTransactions, SequenceTheorems, TLAPS

(* The operations whose entries are all in the set E, and the users whose  *)
(* money a banda of E moved.                                               *)
AppliedIn(E) == {o \in Op : Legs[o] # <<>> /\ \A n \in DOMAIN Legs[o] : <<o, n>> \in E}
BandaIn(E, u) == \E o \in AppliedIn(E) : Kind[o] = "banda" /\ u \in Users(o, {1, 2})

(* What holds of the transaction x of a session, given the entries E, the  *)
(* moved money M and the status R of the rows.                             *)
Sound(x, E, M, R) ==
    /\ x.state # "idle" => x.op \in Op
    /\ x.state = "row" => x.leg = 1
    /\ x.wrote # {} => x.state = "post" /\ Kind[x.op] # "banda"
    /\ \A n \in x.wrote : n \in DOMAIN Legs[x.op] /\ n < x.leg
    /\ \A n \in x.wrote : Legs[x.op][n].user \in x.users /\ <<x.op, n>> \notin E
    /\ x.state = "post" => \A n \in 1 .. 2 : n < x.leg => n \in x.wrote \/ <<x.op, n>> \in E
    /\ \A u \in Users(x.op, x.wrote) :
         ~BandaIn(E, u) => x.draft[u] = M[u] + Moves(x.op, x.wrote, u)
    /\ x.state = "post" /\ On[x.op] # NoRow =>
         x.row = On[x.op] /\ R[On[x.op]] = Needs[Kind[x.op]]

(* No two sessions hold the same lock.                                     *)
Exclusive ==
    \A s \in Session : \A t \in Session \ {s} :
        /\ sessions[s].users \cap sessions[t].users = {}
        /\ sessions[s].row # NoRow => sessions[s].row # sessions[t].row

(* The entries of an operation are all in the ledger or none is.           *)
WholeIn(E) == \A o \in Op : \A n \in 1 .. 2 : <<o, n>> \in E => o \in AppliedIn(E)

AddUp(E, L, W, M) == \A u \in User : ~BandaIn(E, u) => L[u] = M[u] /\ W[u] = M[u]

PaidIn(E, R) ==
    \A o \in Op : Kind[o] = "approve" => (o \in AppliedIn(E) <=> R[On[o]] = "approved")

Kept ==
    /\ TypeOK
    /\ \A s \in Session : Sound(sessions[s], entries, moved, rows)
    /\ Exclusive
    /\ WholeIn(entries)
    /\ AddUp(entries, last, wallet, moved)
    /\ PaidIn(entries, rows)

-----------------------------------------------------------------------------
(* The entries of an operation and what they amount to.                    *)

LEMMA LegsOf ==
    ASSUME NEW o \in Op
    PROVE  /\ Legs[o] \in Seq([user : User, amount : Int, type : STRING])
           /\ Len(Legs[o]) \in 0 .. 2
           /\ DOMAIN Legs[o] = 1 .. Len(Legs[o])
           /\ Legs[o] # <<>> <=> Len(Legs[o]) # 0
           /\ \A n \in DOMAIN Legs[o] :
                n \in 1 .. 2 /\ Legs[o][n].user \in User /\ Legs[o][n].amount \in Int
<1>1. Legs[o] \in Seq([user : User, amount : Int, type : STRING]) /\ Len(Legs[o]) \in 0 .. 2
  BY LedgerAssumption, OperationAssumption
<1>2. DOMAIN Legs[o] = 1 .. Len(Legs[o])
  BY <1>1, LenProperties
<1>3. Legs[o] # <<>> <=> Len(Legs[o]) # 0
  BY <1>1, EmptySeq
<1>4. ASSUME NEW n \in DOMAIN Legs[o]
      PROVE  n \in 1 .. 2 /\ Legs[o][n].user \in User /\ Legs[o][n].amount \in Int
  <2>1. Legs[o][n] \in [user : User, amount : Int, type : STRING]
    BY <1>1, <1>2, ElementOfSeq
  <2> QED
    BY <2>1, <1>1, <1>2
<1> QED
  BY <1>1, <1>2, <1>3, <1>4

LEMMA PartIsAmount ==
    ASSUME NEW o \in Op, NEW u, NEW n
    PROVE  /\ Part(o, n, u) \in Int
           /\ n \in DOMAIN Legs[o] /\ u = Legs[o][n].user => Part(o, n, u) = Legs[o][n].amount
           /\ ~(n \in DOMAIN Legs[o] /\ u = Legs[o][n].user) => Part(o, n, u) = 0
BY LegsOf DEF Part

LEMMA MovesSums ==
    ASSUME NEW o \in Op, NEW legs \in SUBSET (1 .. 2), NEW u
    PROVE  /\ Moves(o, legs, u) \in Int
           /\ Moves(o, {}, u) = 0
           /\ \A n \in (1 .. 2) \ legs : Moves(o, legs \cup {n}, u) = Moves(o, legs, u) + Part(o, n, u)
           /\ u \notin Users(o, legs) => Moves(o, legs, u) = 0
           /\ Moves(o, DOMAIN Legs[o], u) = Moves(o, {1, 2}, u)
<1>1. Part(o, 1, u) \in Int /\ Part(o, 2, u) \in Int
  BY PartIsAmount
<1>2. Moves(o, legs, u) \in Int /\ Moves(o, {}, u) = 0
  BY <1>1 DEF Moves
<1>3. ASSUME NEW n \in (1 .. 2) \ legs
      PROVE  Moves(o, legs \cup {n}, u) = Moves(o, legs, u) + Part(o, n, u)
  <2>1. CASE n = 1
    BY <2>1, <1>1 DEF Moves
  <2>2. CASE n = 2
    BY <2>2, <1>1 DEF Moves
  <2> QED
    BY <2>1, <2>2
<1>4. ASSUME u \notin Users(o, legs)
      PROVE  Moves(o, legs, u) = 0
  <2>1. ASSUME NEW n \in legs PROVE Part(o, n, u) = 0
    BY <1>4, PartIsAmount DEF Users
  <2> QED
    BY <2>1 DEF Moves
<1>5. Moves(o, DOMAIN Legs[o], u) = Moves(o, {1, 2}, u)
  <2>1. \A n \in {1, 2} : n \notin DOMAIN Legs[o] => Part(o, n, u) = 0
    BY PartIsAmount
  <2> QED
    BY <2>1 DEF Moves
<1> QED
  BY <1>2, <1>3, <1>4, <1>5

-----------------------------------------------------------------------------
(* Every step is of one of these kinds.                                    *)

Sets(s, x) == sessions' = [sessions EXCEPT ![s] = x]

Ended(s, answer) == Fresh(sessions[s].op, answer)

Begun(o) == Fresh(o, IF On[o] = NoRow THEN "post" ELSE "row")

Entered(s) == [sessions[s] EXCEPT !.state = "post", !.row = On[sessions[s].op]]

Posted(s) ==
    [sessions[s] EXCEPT
       !.leg = @ + 1,
       !.users = @ \cup {Current(s).user},
       !.wrote = IF IsPosted(s) THEN @ ELSE @ \cup {sessions[s].leg},
       !.draft = IF IsPosted(s) THEN @ ELSE [@ EXCEPT ![Current(s).user] = NewBalance(s)]]

Quiet == UNCHANGED <<last, wallet, moved, entries, rows>>

Begins(s, o) == sessions[s].state = "idle" /\ Sets(s, Begun(o)) /\ Quiet

Enters(s) ==
    /\ sessions[s].state = "row"
    /\ RowFree(s, On[sessions[s].op])
    /\ rows[On[sessions[s].op]] = Needs[Kind[sessions[s].op]]
    /\ Sets(s, Entered(s)) /\ Quiet

Posts(s) ==
    /\ sessions[s].state = "post" /\ Kind[sessions[s].op] # "banda"
    /\ HasLeg(s) /\ UserFree(s, Current(s).user) /\ Admits(s)
    /\ Sets(s, Posted(s)) /\ Quiet

Gives(s) ==
    /\ sessions[s].state # "idle"
    /\ \E answer \in Answers : Sets(s, Ended(s, answer))
    /\ Quiet

Pays(s) ==
    LET o == sessions[s].op
    IN  /\ sessions[s].state = "post" /\ Kind[o] = "banda"
        /\ References(o, {1, 2}) \cap entries = {}
        /\ Sets(s, Ended(s, "done"))
        /\ entries' = entries \cup References(o, {1, 2})
        /\ last' = [u \in User |-> IF u \in Users(o, {1, 2}) THEN 0 ELSE last[u]]
        /\ wallet' = [u \in User |-> wallet[u] + Moves(o, {1, 2}, u)]
        /\ moved' = [u \in User |-> moved[u] + Moves(o, {1, 2}, u)]
        /\ rows' = rows

(* A transaction without entries stores nothing.                           *)
LEMMA StoreNothing ==
    ASSUME TypeOK, NEW s \in Session, sessions[s].wrote = {}, sessions[s].op \in Op, Store(s)
    PROVE  UNCHANGED <<last, wallet, moved, entries>>
<1> DEFINE o == sessions[s].op
<1>1. Users(o, {}) = {} /\ References(o, {}) = {}
  BY DEF Users, References
<1>2. \A u : Moves(o, {}, u) = 0
  BY MovesSums
<1>3. entries' = entries
  BY <1>1 DEF Store
<1>4. last \in [User -> Nat] /\ wallet \in [User -> Int] /\ moved \in [User -> Int]
  BY DEF TypeOK
<1>5. last' = [u \in User |-> last[u]] /\ wallet' = [u \in User |-> wallet[u]]
  BY <1>1 DEF Store
<1>6. moved' = [u \in User |-> moved[u] + 0]
  BY <1>2 DEF Store
<1>7. \A u \in User : moved[u] + 0 = moved[u]
  BY <1>4
<1>8. moved' = [u \in User |-> moved[u]]
  BY <1>6, <1>7
<1> QED
  BY <1>3, <1>4, <1>5, <1>8

(* The second entry of a transfer is never refused.                        *)
LEMMA RefusedTransferWroteNothing ==
    ASSUME Kept, NEW s \in Session, sessions[s].state = "post", HasLeg(s), ~Admits(s),
           Kind[sessions[s].op] = "transfer"
    PROVE  sessions[s].wrote = {}
<1> DEFINE x == sessions[s]  o == x.op
<1>1. x \in Transactions /\ Sound(x, entries, moved, rows)
  BY DEF Kept, TypeOK
<1>2. o \in Op /\ x.leg \in 1 .. 2
  <2>1. o \in Op
    BY <1>1 DEF Sound
  <2> QED
    BY <2>1, LegsOf DEF HasLeg
<1>3. CASE x.leg = 1
  BY <1>1, <1>3 DEF Sound, Transactions
<1>4. CASE x.leg = 2
  <2>1. Legs[o][2].amount >= 0 /\ Legs[o][2].type \in LedgerTypes /\ 2 \in DOMAIN Legs[o]
    BY <1>2, LegsOf, OperationAssumption
  <2>2. Legs[o][2].amount \in Int /\ Legs[o][2].user \in User
    BY <1>2, <2>1, LegsOf
  <2>3. Balance(s, Legs[o][2].user) \in Nat
    BY <1>1, <2>2 DEF Balance, Kept, TypeOK, Transactions
  <2>4. Current(s) = Legs[o][2]
    BY <1>4 DEF Current
  <2> QED
    BY <2>1, <2>2, <2>3, <2>4 DEF Admits, NewBalance
<1> QED
  BY <1>2, <1>3, <1>4

LEMMA StepIsKind ==
    ASSUME Kept, [Next]_vars
    PROVE  \/ \E s \in Session :
                 \/ \E o \in Op : Begins(s, o)
                 \/ Enters(s) \/ Posts(s) \/ Gives(s) \/ Commit(s) \/ Pays(s)
           \/ UNCHANGED vars
<1>1. CASE UNCHANGED vars
  BY <1>1
<1>2. ASSUME NEW s \in Session,
             (\E o \in Op : Begin(s, o)) \/ Work(s) \/ Fail(s) \/ BreakDeadlock(s)
      PROVE  \/ \E o \in Op : Begins(s, o)
             \/ Enters(s) \/ Posts(s) \/ Gives(s) \/ Commit(s) \/ Pays(s)
  <2> DEFINE x == sessions[s]  o == x.op
  <2>0. sessions \in [Session -> Transactions] /\ x \in Transactions
        /\ Sound(x, entries, moved, rows)
    BY DEF Kept, TypeOK
  <2>a. "done" \in Answers /\ "refused" \in Answers /\ "failed" \in Answers /\ "deadlock" \in Answers
    BY DEF Answers
  <2>e. ASSUME NEW answer \in Answers, End(s, answer), Quiet, x.state # "idle"
        PROVE  Gives(s)
    BY <2>e DEF End, Gives, Sets, Ended
  <2>1. ASSUME NEW p \in Op, Begin(s, p)
        PROVE  Begins(s, p)
    BY <2>1, <2>0 DEF Begin, Begins, Sets, Begun, Quiet
  <2>2. CASE ReadRow(s)
    <3>1. CASE rows[On[o]] = Needs[Kind[o]]
      BY <2>2, <3>1, <2>0 DEF ReadRow, Enters, Sets, Entered, Quiet
    <3>2. CASE rows[On[o]] # Needs[Kind[o]]
      BY <2>2, <3>2, <2>e, <2>a DEF ReadRow, Quiet
    <3> QED
      BY <3>1, <3>2
  <2>3. CASE Post(s)
    <3>1. CASE Admits(s)
      <4>1. PostEntry(s) /\ rows' = rows
        BY <2>3, <3>1 DEF Post
      <4>2. Sets(s, Posted(s))
        BY <4>1, <2>0 DEF PostEntry, Sets, Posted
      <4> QED
        BY <2>3, <3>1, <4>1, <4>2 DEF Post, PostEntry, Posts, Quiet
    <3>2. CASE ~Admits(s)
      <4>1. RefuseEntry(s) /\ rows' = rows /\ HasLeg(s) /\ x.state = "post"
        BY <2>3, <3>2 DEF Post
      <4>2. CASE Kind[o] # "transfer"
        BY <4>1, <4>2, <2>e, <2>a DEF RefuseEntry, Quiet
      <4>3. CASE Kind[o] = "transfer"
        <5>1. x.wrote = {}
          BY <3>2, <4>1, <4>3, RefusedTransferWroteNothing
        <5>2. o \in Op
          BY <4>1, <2>0 DEF Sound
        <5>3. Store(s) /\ End(s, "refused")
          BY <4>1, <4>3 DEF RefuseEntry
        <5>4. UNCHANGED <<last, wallet, moved, entries>>
          BY <5>1, <5>2, <5>3, StoreNothing DEF Kept
        <5> QED
          BY <4>1, <5>3, <5>4, <2>e, <2>a DEF Quiet
      <4> QED
        BY <4>2, <4>3
    <3> QED
      BY <3>1, <3>2
  <2>4. CASE Banda(s)
    <3>1. CASE References(o, {1, 2}) \cap entries # {}
      <4>1. End(s, "refused") /\ Quiet /\ x.state = "post"
        BY <2>4, <3>1 DEF Banda, Quiet
      <4> QED
        BY <4>1, <2>e, <2>a
    <3>2. CASE References(o, {1, 2}) \cap entries = {}
      BY <2>4, <3>2 DEF Banda, Pays, End, Sets, Ended
    <3> QED
      BY <3>1, <3>2
  <2>5. CASE Fail(s)
    BY <2>5, <2>e, <2>a DEF Fail, Quiet, Running
  <2>6. CASE BreakDeadlock(s)
    <3>1. \E t \in Session : WaitsFor(s, t)
      BY <2>6 DEF BreakDeadlock, InDeadlock
    <3>2. x.state # "idle"
      BY <3>1 DEF WaitsFor
    <3> QED
      BY <2>6, <3>2, <2>e, <2>a DEF BreakDeadlock, Quiet
  <2> QED
    BY <1>2, <2>1, <2>2, <2>3, <2>4, <2>5, <2>6 DEF Work
<1> QED
  BY <1>1, <1>2 DEF Next

-----------------------------------------------------------------------------
(* Each kind of step keeps Kept.                                           *)

LEMMA FreshIsSound ==
    ASSUME NEW o \in Op, NEW state \in Running \cup Answers, NEW E, NEW M, NEW R,
           state = "post" => On[o] = NoRow
    PROVE  /\ Fresh(o, state) \in Transactions
           /\ Sound(Fresh(o, state), E, M, R)
           /\ Fresh(o, state).users = {} /\ Fresh(o, state).row = NoRow
<1> DEFINE x == Fresh(o, state)
<1>1. /\ x.op = o /\ x.state = state /\ x.leg = 1 /\ x.users = {} /\ x.row = NoRow
      /\ x.wrote = {}
  BY DEF Fresh
<1>2. x \in Transactions
  BY DEF Transactions, Fresh
<1>3. state # "idle"
  BY DEF Running, Answers
<1>4. Users(o, {}) = {}
  BY DEF Users
<1> HIDE DEF x
<1>5. Sound(x, E, M, R)
  BY <1>1, <1>3, <1>4 DEF Sound
<1> QED
  BY <1>1, <1>2, <1>5 DEF x

LEMMA QuietKept ==
    ASSUME Kept, NEW s \in Session, NEW x \in Transactions, Sets(s, x), Quiet,
           Sound(x, entries, moved, rows),
           \A t \in Session \ {s} :
             /\ x.users \cap sessions[t].users = {}
             /\ x.row # NoRow => x.row # sessions[t].row
    PROVE  Kept'
<1>0. sessions \in [Session -> Transactions]
  BY DEF Kept, TypeOK
<1>1. \A t \in Session : sessions'[t] = IF t = s THEN x ELSE sessions[t]
  BY <1>0 DEF Sets
<1>2. sessions' \in [Session -> Transactions]
  BY <1>0 DEF Sets
<1>3. TypeOK'
  BY <1>2 DEF Kept, TypeOK, Quiet
<1>4. \A t \in Session : Sound(sessions'[t], entries, moved, rows)
  BY <1>1 DEF Kept
<1>5. Exclusive'
  BY <1>1 DEF Kept, Exclusive
<1>6. /\ WholeIn(entries) /\ AddUp(entries, last, wallet, moved) /\ PaidIn(entries, rows)
  BY DEF Kept
<1>7. /\ entries' = entries /\ moved' = moved /\ rows' = rows /\ last' = last /\ wallet' = wallet
  BY DEF Quiet
<1> QED
  BY <1>3, <1>4, <1>5, <1>6, <1>7 DEF Kept

LEMMA BeginsKept ==
    ASSUME Kept, NEW s \in Session, NEW o \in Op, Begins(s, o)
    PROVE  Kept'
<1> DEFINE state == IF On[o] = NoRow THEN "post" ELSE "row"
<1>1. state \in Running \cup Answers /\ (state = "post" => On[o] = NoRow)
  BY DEF Running
<1> HIDE DEF state
<1>2. /\ Fresh(o, state) \in Transactions
      /\ Sound(Fresh(o, state), entries, moved, rows)
      /\ Fresh(o, state).users = {} /\ Fresh(o, state).row = NoRow
  BY <1>1, FreshIsSound
<1>3. Sets(s, Fresh(o, state)) /\ Quiet
  BY DEF Begins, Begun, state
<1> QED
  BY <1>2, <1>3, QuietKept

LEMMA GivesKept ==
    ASSUME Kept, NEW s \in Session, Gives(s)
    PROVE  Kept'
<1>1. sessions[s].op \in Op
  BY DEF Kept, Sound, Gives
<1>2. PICK answer \in Answers : Sets(s, Fresh(sessions[s].op, answer))
  BY DEF Gives, Ended
<1>3. answer # "post"
  BY DEF Answers
<1> DEFINE x == Fresh(sessions[s].op, answer)
<1>4. /\ x \in Transactions /\ Sound(x, entries, moved, rows)
      /\ x.users = {} /\ x.row = NoRow
  BY <1>1, <1>3, FreshIsSound
<1> HIDE DEF x
<1>5. Sets(s, x) /\ Quiet
  BY <1>2 DEF Gives, x
<1> QED
  BY <1>4, <1>5, QuietKept

LEMMA EntersKept ==
    ASSUME Kept, NEW s \in Session, Enters(s)
    PROVE  Kept'
<1> DEFINE x == sessions[s]
           o == x.op
           y == Entered(s)
<1>1. x \in Transactions /\ Sound(x, entries, moved, rows) /\ x.state = "row" /\ o \in Op
  BY DEF Kept, TypeOK, Enters, Sound
<1>2. /\ y.op = o /\ y.state = "post" /\ y.leg = x.leg /\ y.users = x.users
      /\ y.row = On[o] /\ y.wrote = x.wrote /\ y.draft = x.draft
  BY <1>1 DEF Entered, Transactions
<1>3. y \in Transactions
  BY <1>1, LedgerAssumption DEF Entered, Transactions, Running
<1>4. x.leg = 1 /\ x.wrote = {}
  BY <1>1 DEF Sound
<1>5. Users(o, {}) = {}
  BY DEF Users
<1>6. rows[On[o]] = Needs[Kind[o]]
  BY DEF Enters
<1>7. \A t \in Session \ {s} : y.users \cap sessions[t].users = {} /\ y.row # sessions[t].row
  BY <1>2 DEF Kept, Exclusive, Enters, RowFree
<1>8. Sets(s, y) /\ Quiet
  BY DEF Enters
<1> HIDE DEF y
<1>9. Sound(y, entries, moved, rows)
  BY <1>1, <1>2, <1>4, <1>5, <1>6 DEF Sound
<1> QED
  BY <1>3, <1>7, <1>8, <1>9, QuietKept

LEMMA WithEntry ==
    ASSUME NEW x \in Transactions, NEW leg \in 1 .. 3, NEW users \in SUBSET User,
           NEW wrote \in SUBSET (1 .. 2), NEW draft \in [User -> Nat]
    PROVE  [x EXCEPT !.leg = leg, !.users = users, !.wrote = wrote, !.draft = draft]
             \in Transactions
BY DEF Transactions

LEMMA PostsKept ==
    ASSUME Kept, NEW s \in Session, Posts(s)
    PROVE  Kept'
<1> DEFINE x == sessions[s]
           o == x.op
           n == x.leg
           w == Legs[o][n].user
           y == Posted(s)
<1>1. x \in Transactions /\ Sound(x, entries, moved, rows) /\ x.state = "post" /\ o \in Op
      /\ Kind[o] # "banda"
  BY DEF Kept, TypeOK, Posts, Sound
<1>2. n \in DOMAIN Legs[o] /\ n \in 1 .. 2 /\ w \in User /\ Legs[o][n].amount \in Int
      /\ Current(s) = Legs[o][n]
  BY <1>1, LegsOf DEF Posts, HasLeg, Current
<1>3. /\ y.op = o /\ y.state = "post" /\ y.leg = n + 1 /\ y.users = x.users \cup {w}
      /\ y.row = x.row
      /\ y.wrote = (IF IsPosted(s) THEN x.wrote ELSE x.wrote \cup {n})
      /\ y.draft = (IF IsPosted(s) THEN x.draft ELSE [x.draft EXCEPT ![w] = NewBalance(s)])
  BY <1>1, <1>2 DEF Posted, Transactions
<1>4. ~IsPosted(s) => NewBalance(s) \in Nat
  <2>1. Balance(s, w) \in Nat
    BY <1>1, <1>2 DEF Balance, Kept, TypeOK, Transactions
  <2> QED
    BY <2>1, <1>2 DEF Posts, Admits, NewBalance
<1>5. y \in Transactions
  <2>1. y.draft \in [User -> Nat] /\ y.wrote \in SUBSET (1 .. 2) /\ y.leg \in 1 .. 3
        /\ y.users \in SUBSET User
    BY <1>1, <1>2, <1>3, <1>4 DEF Transactions
  <2>2. y = [x EXCEPT !.leg = y.leg, !.users = y.users, !.wrote = y.wrote, !.draft = y.draft]
    BY <1>3, <1>2 DEF Posted
  <2> DEFINE leg == y.leg  users == y.users  wrote == y.wrote  draft == y.draft
  <2>3. leg \in 1 .. 3 /\ users \in SUBSET User /\ wrote \in SUBSET (1 .. 2)
        /\ draft \in [User -> Nat]
    BY <2>1
  <2>4. x \in Transactions
    BY <1>1
  <2>5. y = [x EXCEPT !.leg = leg, !.users = users, !.wrote = wrote, !.draft = draft]
    BY <2>2
  <2> HIDE DEF leg, users, wrote, draft, x, y
  <2> QED
    BY ZenonT(60), <2>3, <2>4, <2>5, WithEntry
<1>6. Sets(s, y) /\ Quiet
  BY DEF Posts
<1>7. \A t \in Session \ {s} :
        /\ y.users \cap sessions[t].users = {}
        /\ y.row # NoRow => y.row # sessions[t].row
  BY <1>2, <1>3 DEF Kept, Exclusive, Posts, UserFree
<1>8. \A k \in y.wrote : k \in DOMAIN Legs[o] /\ k < y.leg /\ Legs[o][k].user \in y.users
        /\ <<o, k>> \notin entries
  <2>1. ASSUME NEW k \in x.wrote
        PROVE  k \in DOMAIN Legs[o] /\ k < y.leg /\ Legs[o][k].user \in y.users /\ <<o, k>> \notin entries
    <3>1. k \in DOMAIN Legs[o] /\ k < n /\ Legs[o][k].user \in x.users /\ <<o, k>> \notin entries
      BY <1>1 DEF Sound
    <3> QED
      BY <3>1, <1>1, <1>2, <1>3, LegsOf
  <2>2. ASSUME ~IsPosted(s)
        PROVE  n < y.leg /\ w \in y.users /\ <<o, n>> \notin entries
    BY <2>2, <1>2, <1>3 DEF IsPosted
  <2> HIDE DEF y
  <2> QED
    BY <2>1, <2>2, <1>2, <1>3
<1>9. \A k \in 1 .. 2 : k < y.leg => k \in y.wrote \/ <<o, k>> \in entries
  <2>1. \A k \in 1 .. 2 : k < n => k \in x.wrote \/ <<o, k>> \in entries
    BY <1>1 DEF Sound
  <2>2. IsPosted(s) => <<o, n>> \in entries
    BY DEF IsPosted
  <2> HIDE DEF y
  <2> QED
    BY <2>1, <2>2, <1>2, <1>3
<1>10. ASSUME NEW u \in Users(o, y.wrote), ~BandaIn(entries, u)
       PROVE  y.draft[u] = moved[u] + Moves(o, y.wrote, u)
  <2>1. \A v \in Users(o, x.wrote) :
          ~BandaIn(entries, v) => x.draft[v] = moved[v] + Moves(o, x.wrote, v)
    BY <1>1 DEF Sound
  <2>2. CASE IsPosted(s)
    BY <2>1, <2>2, <1>3, <1>10
  <2>3. CASE ~IsPosted(s)
    <3>1. y.wrote = x.wrote \cup {n} /\ y.draft = [x.draft EXCEPT ![w] = NewBalance(s)]
      BY <2>3, <1>3
    <3>2. n \notin x.wrote /\ x.wrote \subseteq 1 .. 2
      BY <1>1, <1>2 DEF Sound, Transactions
    <3>3. /\ Moves(o, y.wrote, u) = Moves(o, x.wrote, u) + Part(o, n, u)
          /\ Moves(o, x.wrote, u) \in Int
          /\ u \notin Users(o, x.wrote) => Moves(o, x.wrote, u) = 0
      <4> DEFINE old == x.wrote
      <4>1. n \in (1 .. 2) \ old /\ old \in SUBSET (1 .. 2)
        BY <3>2, <1>2
      <4> HIDE DEF old
      <4>2. /\ Moves(o, old \cup {n}, u) = Moves(o, old, u) + Part(o, n, u)
            /\ Moves(o, old, u) \in Int
            /\ u \notin Users(o, old) => Moves(o, old, u) = 0
        BY <4>1, <1>1, MovesSums
      <4> QED
        BY <4>2, <3>1 DEF old
    <3>4. u \in User
      <4>1. PICK k \in y.wrote : u = Legs[o][k].user
        BY <1>10 DEF Users
      <4> QED
        BY <4>1, <1>8, <1>1, LegsOf
    <3>5. moved[u] \in Int /\ x.draft \in [User -> Nat] /\ last \in [User -> Nat]
      BY <3>4, <1>1 DEF Kept, TypeOK, Transactions
    <3>6. CASE u = w
      <4>1. Part(o, n, u) = Legs[o][n].amount
        BY <3>6, <1>1, <1>2, PartIsAmount
      <4>2. y.draft[u] = Balance(s, u) + Legs[o][n].amount
        BY <3>1, <3>4, <3>5, <3>6, <1>2 DEF NewBalance
      <4>3. CASE u \in Users(o, x.wrote)
        <5>1. Balance(s, u) = x.draft[u]
          BY <4>3 DEF Balance
        <5> QED
          BY <5>1, <4>1, <4>2, <4>3, <3>3, <3>5, <2>1, <1>2, <1>10
      <4>4. CASE u \notin Users(o, x.wrote)
        <5>1. Balance(s, u) = last[u]
          BY <4>4 DEF Balance
        <5>2. last[u] = moved[u]
          BY <3>4, <1>10 DEF Kept, AddUp
        <5> QED
          BY <5>1, <5>2, <4>1, <4>2, <4>4, <3>3, <3>5, <1>2
      <4> QED
        BY <4>3, <4>4
    <3>7. CASE u # w
      <4>1. u \in Users(o, x.wrote)
        BY <3>7, <3>1, <1>10 DEF Users
      <4>2. Part(o, n, u) = 0
        BY <3>7, <1>1, PartIsAmount
      <4>3. y.draft[u] = x.draft[u]
        BY <3>1, <3>4, <3>5, <3>7
      <4> QED
        BY <4>1, <4>2, <4>3, <3>3, <3>5, <2>1, <1>10
    <3> QED
      BY <3>6, <3>7
  <2> QED
    BY <2>2, <2>3
<1>11. On[o] # NoRow => x.row = On[o] /\ rows[On[o]] = Needs[Kind[o]]
  BY <1>1 DEF Sound
<1> HIDE DEF y
<1>12. Sound(y, entries, moved, rows)
  BY <1>1, <1>3, <1>8, <1>9, <1>10, <1>11 DEF Sound
<1> QED
  BY <1>5, <1>6, <1>7, <1>12, QuietKept

-----------------------------------------------------------------------------
(* What is stored: all the entries of an operation, or none.               *)

LEMMA DecisionOf ==
    ASSUME NEW o \in Op, On[o] # NoRow
    PROVE  /\ On[o] \in Row /\ Kind[o] \in Decisions
           /\ Needs[Kind[o]] \in {"pending", "idle"} /\ Leaves[Kind[o]] \in Statuses
           /\ Kind[o] = "approve" => /\ Needs[Kind[o]] = "pending"
                                     /\ Leaves[Kind[o]] = "approved"
                                     /\ Legs[o] # <<>>
           /\ Kind[o] # "approve" => Leaves[Kind[o]] # "approved" /\ Legs[o] = <<>>
<1>1. On[o] \in Row /\ Kind[o] \in Decisions /\ Kind[o] \notin Plain
  BY LedgerAssumption, OperationAssumption
<1>2. Kind[o] = "approve" <=> Legs[o] # <<>>
  BY <1>1, OperationAssumption
<1> QED
  BY <1>1, <1>2 DEF Decisions, Needs, Leaves, Statuses

LEMMA AllOrNothing ==
    ASSUME Kept, NEW s \in Session, sessions[s].state = "post", ~HasLeg(s)
    PROVE  LET o == sessions[s].op
               w == sessions[s].wrote
           IN  /\ o \in Op
               /\ \/ w = {} /\ (Legs[o] # <<>> => o \in AppliedIn(entries))
                  \/ w = DOMAIN Legs[o] /\ w # {} /\ o \notin AppliedIn(entries)
<1> DEFINE x == sessions[s]
           o == x.op
           w == x.wrote
<1>1. x \in Transactions /\ Sound(x, entries, moved, rows) /\ o \in Op
  BY DEF Kept, TypeOK, Sound
<1>2. \A n \in DOMAIN Legs[o] : n \in 1 .. 2 /\ n < x.leg
  <2>1. x.leg \in 1 .. 3 /\ x.leg \notin DOMAIN Legs[o]
    BY <1>1 DEF HasLeg, Transactions
  <2> QED
    BY <1>1, <2>1, LegsOf
<1>3. \A n \in DOMAIN Legs[o] : n \in w \/ <<o, n>> \in entries
  BY <1>1, <1>2 DEF Sound
<1>4. CASE w = {}
  BY <1>1, <1>3, <1>4 DEF AppliedIn
<1>5. CASE w # {}
  <2>1. PICK k \in w : k \in DOMAIN Legs[o] /\ <<o, k>> \notin entries
    BY <1>5, <1>1 DEF Sound
  <2>2. o \notin AppliedIn(entries)
    BY <2>1 DEF AppliedIn
  <2>3. \A n \in 1 .. 2 : <<o, n>> \notin entries
    BY <2>2, <1>1 DEF Kept, WholeIn
  <2>4. DOMAIN Legs[o] \subseteq w
    BY <1>2, <1>3, <2>3
  <2>5. w \subseteq DOMAIN Legs[o]
    BY <1>1 DEF Sound
  <2> QED
    BY <1>1, <1>5, <2>2, <2>4, <2>5
<1> QED
  BY <1>4, <1>5

LEMMA AddOperation ==
    ASSUME NEW o \in Op, NEW E, WholeIn(E), Legs[o] # <<>>, NEW F,
           F = E \cup References(o, DOMAIN Legs[o])
    PROVE  /\ AppliedIn(F) = AppliedIn(E) \cup {o}
           /\ WholeIn(F)
           /\ \A u : BandaIn(F, u) <=>
                     BandaIn(E, u) \/ (Kind[o] = "banda" /\ u \in Users(o, {1, 2}))
<1>1. ASSUME NEW p \in Op, NEW n, <<p, n>> \in F
      PROVE  <<p, n>> \in E \/ (p = o /\ n \in DOMAIN Legs[o])
  BY <1>1 DEF References
<1>2. \A n \in DOMAIN Legs[o] : <<o, n>> \in F
  BY DEF References
<1>3. E \subseteq F
  OBVIOUS
<1>4. o \in AppliedIn(F)
  BY <1>2 DEF AppliedIn
<1>5. ASSUME NEW p \in AppliedIn(E)
      PROVE  p \in AppliedIn(F)
  BY <1>3, <1>5 DEF AppliedIn
<1>6. ASSUME NEW p \in AppliedIn(F), p # o
      PROVE  p \in AppliedIn(E)
  BY <1>1, <1>6 DEF AppliedIn
<1>7. AppliedIn(F) = AppliedIn(E) \cup {o}
  BY <1>4, <1>5, <1>6
<1>8. WholeIn(F)
  BY <1>1, <1>7 DEF WholeIn
<1>9. ASSUME NEW u
      PROVE  BandaIn(F, u) <=> BandaIn(E, u) \/ (Kind[o] = "banda" /\ u \in Users(o, {1, 2}))
  BY <1>7 DEF BandaIn
<1> QED
  BY <1>7, <1>8, <1>9

LEMMA OthersSound ==
    ASSUME Kept, NEW t \in Session, NEW E, NEW M, NEW R,
           entries \subseteq E,
           \A n \in sessions[t].wrote : <<sessions[t].op, n>> \notin E,
           \A u \in Users(sessions[t].op, sessions[t].wrote) :
             ~BandaIn(E, u) => ~BandaIn(entries, u) /\ M[u] = moved[u],
           sessions[t].state = "post" /\ On[sessions[t].op] # NoRow =>
             R[On[sessions[t].op]] = rows[On[sessions[t].op]]
    PROVE  Sound(sessions[t], E, M, R)
<1> DEFINE y == sessions[t]
<1>1. Sound(y, entries, moved, rows)
  BY DEF Kept
<1> HIDE DEF y
<1>2. \A u \in Users(y.op, y.wrote) :
        ~BandaIn(E, u) => y.draft[u] = M[u] + Moves(y.op, y.wrote, u)
  BY <1>1 DEF Sound, y
<1>3. y.state = "post" /\ On[y.op] # NoRow => y.row = On[y.op] /\ R[On[y.op]] = Needs[Kind[y.op]]
  BY <1>1 DEF Sound, y
<1>4. \A n \in y.wrote : <<y.op, n>> \notin E
  BY DEF y
<1>5. Sound(y, E, M, R)
  BY <1>1, <1>2, <1>3, <1>4 DEF Sound
<1> QED
  BY <1>5 DEF y

(* The lock of a user is held by whoever wrote an entry of the user.       *)
LEMMA WritersApart ==
    ASSUME Kept, NEW s \in Session, NEW t \in Session \ {s},
           NEW u \in Users(sessions[s].op, sessions[s].wrote)
    PROVE  u \in User /\ u \notin Users(sessions[t].op, sessions[t].wrote)
<1>1. Sound(sessions[s], entries, moved, rows) /\ Sound(sessions[t], entries, moved, rows)
  BY DEF Kept
<1>2. u \in sessions[s].users
  BY <1>1 DEF Users, Sound
<1>3. \A v \in Users(sessions[t].op, sessions[t].wrote) : v \in sessions[t].users
  BY <1>1 DEF Users, Sound
<1>4. sessions[s].users \cap sessions[t].users = {}
  BY DEF Kept, Exclusive
<1>5. sessions[s].users \subseteq User
  BY DEF Kept, TypeOK, Transactions
<1> QED
  BY <1>2, <1>3, <1>4, <1>5

-----------------------------------------------------------------------------
(* What a commit does to the ledger.                                       *)

LEMMA CommitStores ==
    ASSUME Kept, NEW s \in Session, Commit(s)
    PROVE  LET o == sessions[s].op
               w == sessions[s].wrote
           IN  /\ o \in Op
               /\ Kind[o] # "banda" \/ w = {}
               /\ \/ /\ w = {} /\ (Legs[o] # <<>> => o \in AppliedIn(entries))
                     /\ UNCHANGED <<last, wallet, moved, entries>>
                  \/ /\ w # {} /\ w = DOMAIN Legs[o] /\ o \notin AppliedIn(entries)
                     /\ AppliedIn(entries') = AppliedIn(entries) \cup {o}
               /\ WholeIn(entries')
               /\ \A u : BandaIn(entries', u) <=> BandaIn(entries, u)
               /\ moved' = [u \in User |-> moved[u] + Moves(o, w, u)]
<1> DEFINE o == sessions[s].op
           w == sessions[s].wrote
<1>1. sessions[s].state = "post" /\ ~HasLeg(s) /\ Store(s)
  BY DEF Commit
<1>2. /\ o \in Op
      /\ \/ w = {} /\ (Legs[o] # <<>> => o \in AppliedIn(entries))
         \/ w = DOMAIN Legs[o] /\ w # {} /\ o \notin AppliedIn(entries)
  BY <1>1, AllOrNothing
<1>3. w # {} => Kind[o] # "banda"
  BY DEF Kept, Sound
<1>4. moved' = [u \in User |-> moved[u] + Moves(o, w, u)]
  BY <1>1 DEF Store
<1>5. CASE w = {}
  <2>1. UNCHANGED <<last, wallet, moved, entries>>
    BY <1>1, <1>2, <1>5, StoreNothing DEF Kept
  <2>2. WholeIn(entries') /\ \A u : BandaIn(entries', u) <=> BandaIn(entries, u)
    BY <2>1 DEF Kept
  <2> QED
    BY <1>2, <1>3, <1>4, <1>5, <2>1, <2>2
<1>6. CASE w # {}
  <2>1. Legs[o] # <<>> /\ w = DOMAIN Legs[o]
    BY <1>2, <1>6, LegsOf
  <2>2. entries' = entries \cup References(o, DOMAIN Legs[o]) /\ WholeIn(entries)
    BY <1>1, <2>1 DEF Store, Kept
  <2>3. /\ AppliedIn(entries') = AppliedIn(entries) \cup {o}
        /\ WholeIn(entries')
        /\ \A u : BandaIn(entries', u) <=>
                  BandaIn(entries, u) \/ (Kind[o] = "banda" /\ u \in Users(o, {1, 2}))
    BY <1>2, <2>1, <2>2, AddOperation
  <2> QED
    BY <1>2, <1>3, <1>4, <1>6, <2>1, <2>3
<1> QED
  BY <1>5, <1>6

LEMMA CommitTypes ==
    ASSUME Kept, NEW s \in Session, Commit(s)
    PROVE  TypeOK'
<1> DEFINE o == sessions[s].op
           w == sessions[s].wrote
           x == Fresh(o, "done")
<1>1. o \in Op /\ sessions[s] \in Transactions /\ w \in SUBSET (1 .. 2)
      /\ sessions[s].draft \in [User -> Nat]
  BY CommitStores DEF Kept, TypeOK, Transactions
<1>2. x \in Transactions
  BY <1>1, FreshIsSound DEF Answers
<1>3. sessions' \in [Session -> Transactions]
  <2> HIDE DEF x
  <2>1. sessions' = [sessions EXCEPT ![s] = x]
    BY DEF Commit, End, x
  <2> QED
    BY <1>2, <2>1 DEF Kept, TypeOK
<1>4. \A u : Moves(o, w, u) \in Int
  BY <1>1, MovesSums
<1>5. last' \in [User -> Nat] /\ wallet' \in [User -> Int] /\ moved' \in [User -> Int]
  BY <1>1, <1>4 DEF Commit, Store, Kept, TypeOK
<1>6. entries' \subseteq Op \X (1 .. 2)
  BY <1>1 DEF Commit, Store, References, Kept, TypeOK
<1>7. rows' \in [Row -> Statuses]
  <2>1. CASE On[o] = NoRow
    BY <2>1 DEF Commit, Kept, TypeOK
  <2>2. CASE On[o] # NoRow
    <3>1. On[o] \in Row /\ Leaves[Kind[o]] \in Statuses
      BY <1>1, <2>2, DecisionOf
    <3> QED
      BY <2>2, <3>1 DEF Commit, Kept, TypeOK
  <2> QED
    BY <2>1, <2>2
<1> QED
  BY <1>3, <1>5, <1>6, <1>7 DEF TypeOK

LEMMA CommitSound ==
    ASSUME Kept, NEW s \in Session, Commit(s), NEW t \in Session
    PROVE  Sound(sessions'[t], entries', moved', rows')
<1> DEFINE o == sessions[s].op
           w == sessions[s].wrote
<1>1. sessions' = [sessions EXCEPT ![s] = Fresh(o, "done")] /\ sessions \in [Session -> Transactions]
  BY DEF Commit, End, Kept, TypeOK
<1>2. CASE t = s
  <2>1. sessions'[t] = Fresh(o, "done")
    BY <1>1, <1>2
  <2>2. o \in Op /\ "done" \in Running \cup Answers
    BY CommitStores DEF Answers
  <2> QED
    BY <2>1, <2>2, FreshIsSound
<1>3. CASE t # s
  <2> DEFINE y == sessions[t]
  <2>1. sessions'[t] = y
    BY <1>1, <1>3
  <2>2. entries' = entries \cup References(o, w)
    BY DEF Commit, Store
  <2>3. Sound(y, entries, moved, rows) /\ Sound(sessions[s], entries, moved, rows)
    BY DEF Kept
  <2>4. ASSUME NEW n \in y.wrote
        PROVE  <<y.op, n>> \notin entries'
    <3>1. <<y.op, n>> \notin entries
      BY <2>3 DEF Sound
    <3>2. SUFFICES ASSUME <<y.op, n>> \in References(o, w)
                   PROVE  FALSE
      BY <2>2, <3>1
    <3>3. y.op = o /\ n \in w
      BY <3>2 DEF References
    <3>4. Legs[o][n].user \in Users(o, w) /\ Legs[o][n].user \in Users(y.op, y.wrote)
      BY <3>3, <2>4 DEF Users
    <3> QED
      BY <3>4, <1>3, WritersApart
  <2>5. ASSUME NEW u \in Users(y.op, y.wrote), ~BandaIn(entries', u)
        PROVE  ~BandaIn(entries, u) /\ moved'[u] = moved[u]
    <3>1. u \in User /\ u \notin Users(o, w)
      BY <1>3, WritersApart
    <3>2. o \in Op /\ w \in SUBSET (1 .. 2)
      BY CommitStores DEF Kept, TypeOK, Transactions
    <3>3. Moves(o, w, u) = 0
      BY <3>1, <3>2, MovesSums
    <3>4. moved[u] \in Int
      BY <3>1 DEF Kept, TypeOK
    <3>5. moved'[u] = moved[u] + Moves(o, w, u)
      BY <3>1, CommitStores
    <3> QED
      BY <2>5, <3>3, <3>4, <3>5, CommitStores
  <2>6. y.state = "post" /\ On[y.op] # NoRow => rows'[On[y.op]] = rows[On[y.op]]
    <3>1. SUFFICES ASSUME y.state = "post", On[y.op] # NoRow, On[o] # NoRow
                   PROVE  rows'[On[y.op]] = rows[On[y.op]]
      BY DEF Commit
    <3>2. y.row = On[y.op] /\ sessions[s].row = On[o]
      BY <2>3, <3>1 DEF Sound, Commit
    <3>3. On[y.op] # On[o]
      BY <3>1, <3>2, <1>3 DEF Kept, Exclusive
    <3>4. rows' = [rows EXCEPT ![On[o]] = Leaves[Kind[o]]] /\ rows \in [Row -> Statuses]
      BY <3>1 DEF Commit, Kept, TypeOK
    <3>5. y.op \in Op /\ On[y.op] \in Row
      BY <2>3, <3>1, DecisionOf DEF Sound
    <3> QED
      BY <3>3, <3>4, <3>5
  <2>7. Sound(y, entries', moved', rows')
    BY <2>2, <2>4, <2>5, <2>6, OthersSound
  <2> QED
    BY <2>1, <2>7
<1> QED
  BY <1>2, <1>3

LEMMA EndExclusive ==
    ASSUME Kept, NEW s \in Session, NEW answer, Sets(s, Ended(s, answer))
    PROVE  Exclusive'
<1>1. /\ Ended(s, answer).users = {} /\ Ended(s, answer).row = NoRow
  BY DEF Ended, Fresh
<1>2. \A t \in Session : sessions'[t] = IF t = s THEN Ended(s, answer) ELSE sessions[t]
  BY DEF Sets, Kept, TypeOK
<1> QED
  BY <1>1, <1>2 DEF Kept, Exclusive

LEMMA CommitAddsUp ==
    ASSUME Kept, NEW s \in Session, Commit(s)
    PROVE  AddUp(entries', last', wallet', moved')
<1> DEFINE o == sessions[s].op
           w == sessions[s].wrote
<1> SUFFICES ASSUME NEW u \in User, ~BandaIn(entries', u)
             PROVE  last'[u] = moved'[u] /\ wallet'[u] = moved'[u]
  BY DEF AddUp
<1>1. ~BandaIn(entries, u)
  BY CommitStores
<1>2. last[u] = moved[u] /\ wallet[u] = moved[u] /\ moved[u] \in Int
  BY <1>1 DEF Kept, AddUp, TypeOK
<1>3. moved'[u] = moved[u] + Moves(o, w, u)
  BY CommitStores
<1>4. CASE u \in Users(o, w)
  <2>1. sessions[s].draft[u] = moved[u] + Moves(o, w, u)
    BY <1>1, <1>4 DEF Kept, Sound
  <2>2. last'[u] = sessions[s].draft[u] /\ wallet'[u] = sessions[s].draft[u]
    BY <1>4 DEF Commit, Store
  <2> QED
    BY <1>3, <2>1, <2>2
<1>5. CASE u \notin Users(o, w)
  <2>1. o \in Op /\ w \in SUBSET (1 .. 2)
    BY CommitStores DEF Kept, TypeOK, Transactions
  <2>2. Moves(o, w, u) = 0
    BY <1>5, <2>1, MovesSums
  <2>3. last'[u] = last[u] /\ wallet'[u] = wallet[u]
    BY <1>5 DEF Commit, Store
  <2> QED
    BY <1>2, <1>3, <2>2, <2>3
<1> QED
  BY <1>4, <1>5

LEMMA CommitPays ==
    ASSUME Kept, NEW s \in Session, Commit(s)
    PROVE  PaidIn(entries', rows')
<1> DEFINE o == sessions[s].op
           w == sessions[s].wrote
           E == AppliedIn(entries)
           F == AppliedIn(entries')
<1> SUFFICES ASSUME NEW p \in Op, Kind[p] = "approve"
             PROVE  p \in F <=> rows'[On[p]] = "approved"
  BY DEF PaidIn
<1>1. o \in Op /\ (p \in E <=> rows[On[p]] = "approved")
  BY CommitStores DEF Kept, PaidIn
<1>2. F = E \/ (F = E \cup {o} /\ w # {} /\ w = DOMAIN Legs[o])
  BY CommitStores
<1>3. On[p] # NoRow /\ On[p] \in Row
  BY OperationAssumption, LedgerAssumption DEF Plain
<1>4. rows \in [Row -> Statuses]
  BY DEF Kept, TypeOK
<1>5. CASE On[o] = NoRow
  <2>1. rows' = rows
    BY <1>5 DEF Commit
  <2>2. p # o
    BY <1>3, <1>5
  <2> QED
    BY <1>1, <1>2, <2>1, <2>2
<1>6. CASE On[o] # NoRow
  <2>1. rows' = [rows EXCEPT ![On[o]] = Leaves[Kind[o]]]
    BY <1>6 DEF Commit
  <2>2. rows[On[o]] = Needs[Kind[o]]
    BY <1>6 DEF Kept, Sound, Commit
  <2>3. CASE Kind[o] = "approve"
    <3>1. Legs[o] # <<>> /\ Leaves[Kind[o]] = "approved"
      BY <1>1, <1>6, <2>3, DecisionOf
    <3>2. o \in F
      BY <3>1, CommitStores
    <3>3. CASE p = o
      BY <3>1, <3>2, <3>3, <2>1, <1>3, <1>4
    <3>4. CASE p # o
      <4>1. On[p] # On[o]
        BY <1>1, <2>3, <3>4, OperationAssumption
      <4> QED
        BY <4>1, <3>4, <2>1, <1>1, <1>2, <1>3, <1>4
    <3> QED
      BY <3>3, <3>4
  <2>4. CASE Kind[o] # "approve"
    <3>1. Legs[o] = <<>> /\ Leaves[Kind[o]] # "approved" /\ Needs[Kind[o]] # "approved"
      BY <1>1, <1>6, <2>4, DecisionOf
    <3>2. F = E
      BY <3>1, <1>1, <1>2, LegsOf
    <3>3. CASE On[p] = On[o]
      BY <3>1, <3>2, <3>3, <2>1, <2>2, <1>1, <1>3, <1>4
    <3>4. CASE On[p] # On[o]
      BY <3>2, <3>4, <2>1, <1>1, <1>3, <1>4
    <3> QED
      BY <3>3, <3>4
  <2> QED
    BY <2>3, <2>4
<1> QED
  BY <1>5, <1>6

LEMMA CommitKept ==
    ASSUME Kept, NEW s \in Session, Commit(s)
    PROVE  Kept'
<1>1. TypeOK'
  BY CommitTypes
<1>2. \A t \in Session : Sound(sessions'[t], entries', moved', rows')
  BY CommitSound
<1>3. Exclusive'
  BY EndExclusive DEF Commit, End, Sets, Ended
<1>4. WholeIn(entries')
  BY CommitStores
<1>5. AddUp(entries', last', wallet', moved')
  BY CommitAddsUp
<1>6. PaidIn(entries', rows')
  BY CommitPays
<1> QED
  BY <1>1, <1>2, <1>3, <1>4, <1>5, <1>6 DEF Kept

-----------------------------------------------------------------------------
(* A banda.  Nobody's transaction relies on the balance of its users.      *)

LEMMA PaysStores ==
    ASSUME Kept, NEW s \in Session, Pays(s)
    PROVE  LET o == sessions[s].op
           IN  /\ o \in Op /\ Kind[o] = "banda" /\ On[o] = NoRow
               /\ o \notin AppliedIn(entries) /\ Legs[o] # <<>> /\ DOMAIN Legs[o] = {1, 2}
               /\ AppliedIn(entries') = AppliedIn(entries) \cup {o}
               /\ WholeIn(entries')
               /\ \A u : BandaIn(entries', u) <=> BandaIn(entries, u) \/ u \in Users(o, {1, 2})
<1> DEFINE o == sessions[s].op
<1>1. o \in Op /\ Kind[o] = "banda"
  BY DEF Kept, Sound, Pays
<1>2. Len(Legs[o]) = 2 /\ On[o] = NoRow
  BY <1>1, OperationAssumption DEF Plain
<1>3. DOMAIN Legs[o] = {1, 2} /\ Legs[o] # <<>>
  BY <1>1, <1>2, LegsOf
<1>4. o \notin AppliedIn(entries)
  BY <1>3 DEF AppliedIn, Pays, References
<1>5. entries' = entries \cup References(o, DOMAIN Legs[o]) /\ WholeIn(entries)
  BY <1>3 DEF Pays, Kept
<1>6. /\ AppliedIn(entries') = AppliedIn(entries) \cup {o}
      /\ WholeIn(entries')
      /\ \A u : BandaIn(entries', u) <=>
                BandaIn(entries, u) \/ (Kind[o] = "banda" /\ u \in Users(o, {1, 2}))
  BY ZenonT(60), <1>1, <1>3, <1>5, AddOperation
<1> QED
  BY <1>1, <1>2, <1>3, <1>4, <1>6

LEMMA PaysKept ==
    ASSUME Kept, NEW s \in Session, Pays(s)
    PROVE  Kept'
<1> DEFINE o == sessions[s].op
           x == Fresh(o, "done")
<1>1. /\ o \in Op /\ Kind[o] = "banda"
      /\ AppliedIn(entries') = AppliedIn(entries) \cup {o}
      /\ WholeIn(entries')
      /\ \A u : BandaIn(entries', u) <=> BandaIn(entries, u) \/ u \in Users(o, {1, 2})
  BY PaysStores
<1>2. \A u : Moves(o, {1, 2}, u) \in Int /\ (u \notin Users(o, {1, 2}) => Moves(o, {1, 2}, u) = 0)
  <2> DEFINE both == {1, 2}
  <2>1. both \in SUBSET (1 .. 2)
    OBVIOUS
  <2> HIDE DEF both
  <2>2. \A u : Moves(o, both, u) \in Int /\ (u \notin Users(o, both) => Moves(o, both, u) = 0)
    BY ZenonT(60), <2>1, <1>1, MovesSums
  <2> QED
    BY <2>2 DEF both
<1>3. x \in Transactions /\ Sound(x, entries', moved', rows')
  BY <1>1, FreshIsSound DEF Answers
<1> HIDE DEF x
<1>4. sessions' = [sessions EXCEPT ![s] = x] /\ sessions \in [Session -> Transactions]
  BY DEF Pays, Sets, Ended, Kept, TypeOK, x
<1>5. TypeOK'
  <2>1. sessions' \in [Session -> Transactions]
    BY <1>3, <1>4
  <2>2. last' \in [User -> Nat] /\ wallet' \in [User -> Int] /\ moved' \in [User -> Int]
    BY <1>2 DEF Pays, Kept, TypeOK
  <2>3. entries' \subseteq Op \X (1 .. 2) /\ rows' \in [Row -> Statuses]
    BY <1>1 DEF Pays, References, Kept, TypeOK
  <2> QED
    BY <2>1, <2>2, <2>3 DEF TypeOK
<1>6. ASSUME NEW t \in Session
      PROVE  Sound(sessions'[t], entries', moved', rows')
  <2>1. CASE t = s
    BY <2>1, <1>3, <1>4
  <2>2. CASE t # s
    <3> DEFINE y == sessions[t]
    <3>1. sessions'[t] = y
      BY <2>2, <1>4
    <3>2. Sound(y, entries, moved, rows) /\ y \in Transactions
      BY DEF Kept, TypeOK
    <3>3. \A n \in y.wrote : <<y.op, n>> \notin entries'
      <4>1. \A n \in y.wrote : <<y.op, n>> \notin entries /\ y.op # o
        BY <3>2, <1>1 DEF Sound
      <4> QED
        BY <4>1 DEF Pays, References
    <3>4. ASSUME NEW u \in Users(y.op, y.wrote), ~BandaIn(entries', u)
          PROVE  ~BandaIn(entries, u) /\ moved'[u] = moved[u]
      <4>1. ~BandaIn(entries, u) /\ u \notin Users(o, {1, 2})
        BY <1>1, <3>4
      <4>2. u \in User
        <5>1. u \in y.users
          BY <3>2 DEF Sound, Users
        <5> QED
          BY <5>1, <3>2 DEF Transactions
      <4>3. moved'[u] = moved[u] + 0 /\ moved[u] \in Int
        BY <4>1, <4>2, <1>2 DEF Pays, Kept, TypeOK
      <4> QED
        BY <4>1, <4>3
    <3>5. entries \subseteq entries' /\ rows' = rows
      BY DEF Pays
    <3>6. Sound(y, entries', moved', rows')
      BY <3>3, <3>4, <3>5, OthersSound
    <3> QED
      BY <3>1, <3>6
  <2> QED
    BY <2>1, <2>2
<1>7. Exclusive'
  BY EndExclusive DEF Pays
<1>8. AddUp(entries', last', wallet', moved')
  <2> SUFFICES ASSUME NEW u \in User, ~BandaIn(entries', u)
               PROVE  last'[u] = moved'[u] /\ wallet'[u] = moved'[u]
    BY DEF AddUp
  <2>1. ~BandaIn(entries, u) /\ u \notin Users(o, {1, 2})
    BY <1>1
  <2>2. last[u] = moved[u] /\ wallet[u] = moved[u] /\ moved[u] \in Int
    BY <2>1 DEF Kept, AddUp, TypeOK
  <2>3. last'[u] = last[u] /\ wallet'[u] = wallet[u] + 0 /\ moved'[u] = moved[u] + 0
    BY <2>1, <1>2 DEF Pays
  <2> QED
    BY <2>2, <2>3
<1>9. PaidIn(entries', rows')
  BY <1>1 DEF Pays, Kept, PaidIn
<1> QED
  BY <1>1, <1>5, <1>6, <1>7, <1>8, <1>9 DEF Kept

-----------------------------------------------------------------------------
LEMMA InitKept ==
    ASSUME Init
    PROVE  Kept
<1> DEFINE x == Fresh(NoOp, "idle")
<1>1. \A s \in Session : sessions[s] = x
  BY DEF Init
<1>2. x.state = "idle" /\ x.wrote = {} /\ x.users = {} /\ x.row = NoRow
  BY DEF Fresh
<1>3. x \in Transactions
  BY DEF Fresh, Transactions
<1>4. TypeOK
  <2>1. last \in [User -> Nat] /\ wallet \in [User -> Int] /\ moved \in [User -> Int]
    BY LedgerAssumption DEF Init
  <2>2. rows \in [Row -> Statuses] /\ entries = {}
    BY DEF Init, Statuses
  <2>3. sessions \in [Session -> Transactions]
    BY <1>3 DEF Init
  <2> QED
    BY <2>1, <2>2, <2>3 DEF TypeOK
<1>5. \A s \in Session : Sound(sessions[s], entries, moved, rows)
  <2>1. Users(x.op, {}) = {}
    BY DEF Users
  <2> HIDE DEF x
  <2>2. Sound(x, entries, moved, rows)
    BY <2>1, <1>2 DEF Sound
  <2> QED
    BY <1>1, <2>2
<1>6. Exclusive
  BY <1>1, <1>2 DEF Exclusive
<1>7. AppliedIn(entries) = {}
  <2> SUFFICES ASSUME NEW o \in AppliedIn(entries)
               PROVE  FALSE
    OBVIOUS
  <2>1. o \in Op /\ Legs[o] # <<>> /\ \A n \in DOMAIN Legs[o] : <<o, n>> \in {}
    BY DEF AppliedIn, Init
  <2> QED
    BY <2>1, LegsOf
<1>8. WholeIn(entries) /\ AddUp(entries, last, wallet, moved)
  BY <1>7, LedgerAssumption DEF WholeIn, AddUp, Init
<1>9. PaidIn(entries, rows)
  <2> SUFFICES ASSUME NEW o \in Op, Kind[o] = "approve"
               PROVE  rows[On[o]] # "approved"
    BY <1>7 DEF PaidIn
  <2>1. On[o] \in Row
    BY LedgerAssumption, OperationAssumption DEF Plain
  <2> QED
    BY <2>1 DEF Init
<1> QED
  BY <1>4, <1>5, <1>6, <1>8, <1>9 DEF Kept

LEMMA NextKept ==
    ASSUME Kept, [Next]_vars
    PROVE  Kept'
<1>1. CASE UNCHANGED vars
  BY <1>1 DEF vars, Kept, TypeOK, Exclusive
<1>2. ASSUME NEW s \in Session, NEW o \in Op, Begins(s, o)
      PROVE  Kept'
  BY <1>2, BeginsKept
<1>3. ASSUME NEW s \in Session, Enters(s) \/ Posts(s) \/ Gives(s) \/ Commit(s) \/ Pays(s)
      PROVE  Kept'
  BY <1>3, EntersKept, PostsKept, GivesKept, CommitKept, PaysKept
<1> QED
  BY <1>1, <1>2, <1>3, StepIsKind

THEOREM AlwaysKept == Spec => []Kept
<1>1. Init => Kept
  BY InitKept
<1>2. Kept /\ [Next]_vars => Kept'
  BY NextKept
<1> QED
  BY <1>1, <1>2, PTL DEF Spec

-----------------------------------------------------------------------------
(* Every variable has its type: no balance the ledger computes is ever     *)
(* negative, though a commit may come long after the balance was read.     *)
THEOREM TypeCorrect == Spec => []TypeOK
<1>1. Kept => TypeOK
  BY DEF Kept
<1> QED
  BY <1>1, AlwaysKept, PTL

(* The last entry, the wallet and the sum of the entries of a user agree   *)
(* whatever the number of concurrent transactions, as long as no banda     *)
(* moved the money of the user.                                            *)
THEOREM EntriesAlwaysAddUp == Spec => []EntriesAddUp
<1>1. Kept => EntriesAddUp
  BY DEF Kept, AddUp, EntriesAddUp, BandaIn, AppliedIn, InBanda, Applied
<1> QED
  BY <1>1, AlwaysKept, PTL

(* A request, ticket or investigation is approved if and only if its money *)
(* was moved, however many administrators decide it at the same time.      *)
THEOREM DecidedOnce == Spec => []ApprovedIsPaid
<1>1. Kept => ApprovedIsPaid
  BY DEF Kept, PaidIn, ApprovedIsPaid, AppliedIn, Applied
<1> QED
  BY <1>1, AlwaysKept, PTL

-----------------------------------------------------------------------------
(* The ledger implements Bank: a commit or a banda is one operation of the *)
(* bank, a rejection closes the paper, and nothing else is seen.           *)

Papers == [r \in Row |-> Paper[rows[r]]]
NetOf == [o \in Op |-> [u \in User |-> Moves(o, {1, 2}, u)]]

LEMMA PaperOf ==
    /\ Paper["pending"] = "open" /\ Paper["idle"] = "open"
    /\ Paper["approved"] = "paid" /\ Paper["rejected"] = "closed"
BY DEF Paper

LEMMA QuietIsUnseen ==
    ASSUME Quiet
    PROVE  UNCHANGED <<moved, Applied, Papers>>
BY DEF Quiet, Applied, Papers

LEMMA AppliesWhole ==
    ASSUME Kept, NEW o \in Op, NEW w, w = DOMAIN Legs[o],
           moved' = [u \in User |-> moved[u] + Moves(o, w, u)]
    PROVE  moved' = [u \in User |-> moved[u] + NetOf[o][u]]
<1>1. \A u \in User : NetOf[o][u] = Moves(o, {1, 2}, u)
  BY DEF NetOf
<1>2. \A u \in User : Moves(o, w, u) = Moves(o, {1, 2}, u)
  <2>1. {1, 2} \in SUBSET (1 .. 2)
    OBVIOUS
  <2> QED
    BY <2>1, MovesSums
<1> QED
  BY <1>1, <1>2

LEMMA ApplyIsNext ==
    ASSUME NEW o \in Op, Account!Apply(o)
    PROVE  Account!Next
BY DEF Account!Next

LEMMA CloseIsNext ==
    ASSUME NEW r \in Row, Account!Close(r)
    PROVE  Account!Next
BY DEF Account!Next

LEMMA PaysIsApply ==
    ASSUME Kept, NEW s \in Session, Pays(s)
    PROVE  Account!Next
<1> DEFINE o == sessions[s].op
<1>1. o \in Op /\ On[o] = NoRow /\ o \notin Applied /\ Applied' = Applied \cup {o}
  BY PaysStores DEF Applied, AppliedIn
<1>2. moved' = [u \in User |-> moved[u] + NetOf[o][u]]
  <2>1. moved' = [u \in User |-> moved[u] + Moves(o, {1, 2}, u)] /\ {1, 2} = DOMAIN Legs[o]
    BY PaysStores DEF Pays
  <2> QED
    BY <2>1, <1>1, AppliesWhole
<1>3. Papers' = Papers
  BY DEF Pays, Papers
<1>p. PICK p \in Op : p = o
  BY <1>1
<1>4. Account!Apply(p)
  BY <1>p, <1>1, <1>2, <1>3 DEF Account!Apply, NetOf, Papers
<1> QED
  BY <1>4, ApplyIsNext

LEMMA CommitIsApply ==
    ASSUME Kept, NEW s \in Session, Commit(s)
    PROVE  Account!Next \/ UNCHANGED <<moved, Applied, Papers>>
<1> DEFINE o == sessions[s].op
           w == sessions[s].wrote
<1>1. /\ o \in Op
      /\ \/ /\ w = {} /\ (Legs[o] # <<>> => o \in Applied)
            /\ UNCHANGED <<moved, entries>>
         \/ /\ w # {} /\ w = DOMAIN Legs[o] /\ o \notin Applied
            /\ Applied' = Applied \cup {o}
      /\ moved' = [u \in User |-> moved[u] + Moves(o, w, u)]
  BY CommitStores DEF Applied, AppliedIn
<1>p. PICK p \in Op : p = o
  BY <1>1
<1>2. rows \in [Row -> Statuses]
  BY DEF Kept, TypeOK
<1>3. CASE On[o] = NoRow
  <2>1. Papers' = Papers
    BY <1>3 DEF Commit, Papers
  <2>2. CASE w = {}
    BY <1>1, <2>1, <2>2 DEF Applied
  <2>3. CASE w # {}
    <3>1. moved' = [u \in User |-> moved[u] + NetOf[o][u]]
      BY <1>1, <2>3, AppliesWhole
    <3>2. Account!Apply(p)
      BY <1>p, <1>1, <1>3, <2>1, <2>3, <3>1 DEF Account!Apply, NetOf, Papers
    <3> QED
      BY <3>2, ApplyIsNext
  <2> QED
    BY <2>2, <2>3
<1>4. CASE On[o] # NoRow
  <2> DEFINE r == On[o]
  <2>1. r \in Row /\ Kind[o] \in Decisions
    BY <1>1, <1>4, DecisionOf
  <2>2. rows' = [rows EXCEPT ![r] = Leaves[Kind[o]]] /\ rows[r] = Needs[Kind[o]]
    BY <1>4 DEF Commit, Kept, Sound
  <2>3. Papers' = [Papers EXCEPT ![r] = Paper[Leaves[Kind[o]]]]
    BY <2>1, <2>2, <1>2 DEF Papers
  <2>4. Papers[r] = "open"
    BY <2>1, <2>2, <1>1, <1>4, DecisionOf, PaperOf DEF Papers
  <2>5. CASE Kind[o] = "approve"
    <3>1. Legs[o] # <<>> /\ Paper[Leaves[Kind[o]]] = "paid" /\ rows[r] = "pending"
      BY <1>1, <1>4, <2>2, <2>5, DecisionOf, PaperOf
    <3>2. o \notin Applied
      BY <1>1, <2>5, <3>1 DEF Kept, PaidIn, Applied, AppliedIn
    <3>3. moved' = [u \in User |-> moved[u] + NetOf[o][u]]
      BY <1>1, <3>1, <3>2, AppliesWhole
    <3>4. Account!Apply(p)
      BY <1>p, <1>1, <2>3, <2>4, <3>1, <3>2, <3>3 DEF Account!Apply, NetOf, Papers
    <3> QED
      BY <3>4, ApplyIsNext
  <2>6. CASE Kind[o] # "approve"
    <3>1. Legs[o] = <<>>
      BY <1>1, <1>4, <2>6, DecisionOf
    <3>2. UNCHANGED <<moved, Applied>>
      BY <3>1, <1>1, LegsOf DEF Applied
    <3>3. CASE Kind[o] \in {"reject", "dismiss"}
      <4>1. Paper[Leaves[Kind[o]]] = "closed"
        BY <3>3, PaperOf DEF Leaves
      <4>2. PICK q \in Row : q = r
        BY <2>1
      <4>3. Account!Close(q)
        BY <2>3, <2>4, <3>2, <4>1, <4>2 DEF Account!Close, Papers
      <4> QED
        BY <4>3, CloseIsNext
    <3>4. CASE Kind[o] \in {"propose", "cancel"}
      <4>1. Paper[Leaves[Kind[o]]] = "open"
        BY <3>4, PaperOf DEF Leaves
      <4>2. Papers' = Papers
        BY <2>1, <2>3, <2>4, <4>1 DEF Papers
      <4> QED
        BY <3>2, <4>2
    <3> QED
      BY <2>1, <2>6, <3>3, <3>4 DEF Decisions
  <2> QED
    BY <2>5, <2>6
<1> QED
  BY <1>3, <1>4

(* Whatever calls run at the same time, fail, or are sent again, the money *)
(* of an operation moves whole and at most once, and a paper is decided    *)
(* once: LedgerTransactions implements Bank.                               *)
THEOREM LedgerIsBank == Spec => KeepsAccounts
<1>1. Init => Account!Init
  <2> SUFFICES ASSUME Init
               PROVE  Account!Init
    OBVIOUS
  <2>1. moved = Opening
    BY DEF Init
  <2>2. Applied = {}
    <3> SUFFICES ASSUME NEW o \in Applied
                 PROVE  FALSE
      OBVIOUS
    <3>1. o \in Op /\ Legs[o] # <<>> /\ \A n \in DOMAIN Legs[o] : <<o, n>> \in {}
      BY DEF Applied, Init
    <3> QED
      BY <3>1, LegsOf
  <2>3. Papers = [r \in Row |-> "open"]
    BY PaperOf DEF Init, Papers
  <2> QED
    BY <2>1, <2>2, <2>3 DEF Account!Init, Papers
<1>2. Kept /\ [Next]_vars => [Account!Next]_(Account!vars)
  <2> SUFFICES ASSUME Kept, [Next]_vars
               PROVE  Account!Next \/ UNCHANGED <<moved, Applied, Papers>>
    BY DEF Account!vars, Papers
  <2>1. CASE UNCHANGED vars
    BY <2>1 DEF vars, Applied, Papers
  <2>2. ASSUME NEW s \in Session,
               (\E o \in Op : Begins(s, o)) \/ Enters(s) \/ Posts(s) \/ Gives(s)
        PROVE  UNCHANGED <<moved, Applied, Papers>>
    <3>1. Quiet
      BY <2>2 DEF Begins, Enters, Posts, Gives
    <3> QED
      BY <3>1, QuietIsUnseen
  <2>3. ASSUME NEW s \in Session, Commit(s)
        PROVE  Account!Next \/ UNCHANGED <<moved, Applied, Papers>>
    BY <2>3, CommitIsApply
  <2>4. ASSUME NEW s \in Session, Pays(s)
        PROVE  Account!Next
    BY <2>4, PaysIsApply
  <2> QED
    BY <2>1, <2>2, <2>3, <2>4, StepIsKind
<1> QED
  BY <1>1, <1>2, AlwaysKept, PTL DEF Spec, KeepsAccounts, Account!Spec
=============================================================================
