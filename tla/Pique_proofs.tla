---------------------------- MODULE Pique_proofs ----------------------------
(***************************************************************************)
(* Module Pique for any number of seats, purses and amounts.  One lemma    *)
(* per helper of the code says which fields it touches; the handlers are   *)
(* compositions of helpers.  The invariant is "Sound": what the record     *)
(* looks like, that RAM and ledger agree, that one chain of timers at most *)
(* is under way and none during a round, and who has said and paid what.   *)
(***************************************************************************)
EXTENDS Pique, Sums

PiqueFields == Fields \cup
    {"passers", "preBet", "reopened", "restarts", "passes", "dealing", "completing", "debit",
     "deals", "paid", "skipped"}

PiquePhases == {"BARAJANDO", "PIQUE", "PIQUE_REVEAL", "COMPLETAR", "APUESTA_4_CARTAS", "LOBBY"}

Seats == {"players", "connected", "waiting", "folded", "acted", "allIn", "passed",
          "declined", "yes", "no", "skewed", "passers", "preBet"}
Switches == {"rotated", "turnTimer", "autoTimer", "revealTimer", "pending", "reopened", "skipped"}
Counts == {"piquePot", "maxBet", "restarts", "dealing", "completing", "deals", "cleanups"}

Shape(r) ==
    /\ DOMAIN r = PiqueFields
    /\ r.phase \in PiquePhases
    /\ r.turn \in Seat \cup {NoSeat} /\ r.mano \in Seat \cup {NoSeat} /\ r.dealer \in Seat
    /\ \A g \in Seats : r[g] \subseteq Seat
    /\ \A b \in Switches : r[b] \in BOOLEAN
    /\ \A n \in Counts : r[n] \in Nat
    /\ \A m \in {"chips", "paid", "passes"} : r[m] \in [Seat -> Nat]
    /\ r.balance \in [Seat -> Int] /\ r.mainBet \in [Seat -> {0}]
    /\ r.debit \in [seat : Seat \cup {NoSeat}, amount : Nat]
    /\ (r.debit = NoCall \/ r.debit.seat \in Seat)

(* RAM and ledger, also for a seat whose player is gone or still to come.  *)
Books(r) ==
    \A s \in Seat \ r.skewed :
      r.chips[s] - r.balance[s] = IF s = r.debit.seat THEN r.debit.amount ELSE 0

(* How many chains of timers are under way.                                *)
Chains(r) == r.dealing + r.completing + r.cleanups

InRound(r) == r.phase \in {"PIQUE", "PIQUE_REVEAL"}

Live(r, c) == InRound(r) \/ Chains(r) = 1 \/ c # NoCall

(* Who has the turn is in the order of seats; a newcomer waits as long as  *)
(* the hand goes on.                                                       *)
Order(r) ==
    /\ r.turn \in SeatOrder(r) \cup {NoSeat}
    /\ r.waiting \subseteq Newcomers /\ r.preBet \cap Newcomers = {}

(* What was said and what was paid.                                        *)
Price(r) ==
    /\ \A s \in r.passers \cup r.preBet : r.paid[s] = 0
    /\ r.reopened => r.preBet = {}
    /\ r.dealing > 0 => /\ r.passers = {} /\ r.preBet = {}
                        /\ \A s \in Seat : r.paid[s] = 0

Round(r, c) ==
    InRound(r) =>
      /\ r.passers \cup r.preBet \subseteq r.folded
      /\ \A s \in Seat \ r.acted : r.paid[s] = 0
      /\ \A s \in (SeatOrder(r) \cap r.acted) \ r.folded : s # c.seat => r.paid[s] > 0

Turn(r, c) ==
    r.phase = "PIQUE" /\ c = NoCall /\ r.turn # NoSeat => r.turn \notin r.folded \cup r.acted

Calls(r, c) ==
    c # NoCall =>
      /\ r.phase \in {"PIQUE", "LOBBY"}
      /\ c.seat \in Seat /\ c.amount \in Nat \ {0} /\ c.amount <= r.chips[c.seat]
      /\ r.turn \in {c.seat, NoSeat} /\ (r.phase = "LOBBY" => r.turn = NoSeat)
      /\ c.seat \notin r.passers \cup r.preBet /\ r.paid[c.seat] = 0
      /\ r.phase = "PIQUE" => c.seat \in r.acted \ r.folded

Serial(r, c) ==
    /\ Chains(r) \in {0, 1}
    /\ Chains(r) = 1 => ~InRound(r) /\ c = NoCall

Waits(r, c) == Live(r, c) => r.players \cap Newcomers \subseteq r.waiting

Bettors(r) ==
    r.phase = "COMPLETAR" /\ ~r.skipped => \A s \in SeatOrder(r) \ r.folded : r.paid[s] > 0

Sound(r, c) ==
    /\ Shape(r) /\ Books(r) /\ Order(r) /\ Price(r) /\ Round(r, c) /\ Turn(r, c) /\ Calls(r, c)
    /\ Serial(r, c) /\ Waits(r, c) /\ Bettors(r)

(* What is left of a room between two rounds, or in the middle of one.     *)
Ready(r) ==
    /\ Shape(r) /\ Books(r) /\ Order(r) /\ Price(r)
    /\ Chains(r) = 0 /\ r.players \cap Newcomers \subseteq r.waiting

(* The turn is about to go on; c is the bet that was refused, if any.      *)
Speaks(r, c) ==
    /\ Ready(r)
    /\ \/ r.phase = "PIQUE" /\ Round(r, c)
       \/ r.phase = "LOBBY" /\ r.turn = NoSeat

(* Chips are not made, and those who will be asked again keep theirs.      *)
Step(r, q) ==
    /\ ChipsOf(q) <= ChipsOf(r)
    /\ \A s \in r.preBet \cap r.connected : q.chips[s] >= r.chips[s]

Ends(r, q) == Sound(q, NoCall) /\ Step(r, q)

-----------------------------------------------------------------------------
(* The seats that the code's loops look for exist.                         *)

LEMMA MinInSet == ASSUME NEW C \in SUBSET Seat, C # {} PROVE Min(C) \in C
<1>1. C \in SUBSET Nat BY DEF Seat
<1> QED BY <1>1, MinIsLeast

LEMMA DistancesAreNat ==
    ASSUME NEW x \in Seat \cup {NoSeat}, NEW s \in Seat
    PROVE  StepsFrom(x, s) \in Nat /\ StepsAfter(x, s) \in Nat
BY NAssumption DEF StepsFrom, StepsAfter, Seat, NoSeat

(* The loops over seatOrder find a seat of the set they look for.          *)
LEMMA FirstIsFound ==
    ASSUME NEW x \in Seat \cup {NoSeat}, NEW C \in SUBSET Seat, C # {}
    PROVE  FirstFrom(x, C) \in C /\ FirstAfter(x, C) \in C
<1> DEFINE from  == [s \in C |-> StepsFrom(x, s)]
           after == [s \in C |-> StepsAfter(x, s)]
<1>1. from \in [C -> Nat] /\ after \in [C -> Nat] BY DistancesAreNat
<1> HIDE DEF from, after
<1>2. /\ \E s \in C : \A t \in C : from[s] <= from[t]
      /\ \E s \in C : \A t \in C : after[s] <= after[t]
  BY <1>1, NearestExists
<1> USE DEF from, after
<1> QED BY <1>2 DEF FirstFrom, FirstAfter

-----------------------------------------------------------------------------
(* What a helper leaves alone.                                             *)

SameBut(F, r, q) == DOMAIN q = PiqueFields /\ \A f \in PiqueFields \ F : q[f] = r[f]

(* No part of Sound but Shape looks at these.                              *)
Idle == {"mano", "dealer", "rotated", "turnTimer", "autoTimer", "restarts", "maxBet", "deals",
         "passes", "pot", "refs"}

LEMMA Unaffected ==
    ASSUME NEW r, NEW q, SameBut(Idle, r, q), Shape(q)
    PROVE  /\ Books(r) => Books(q)
           /\ Order(r) => Order(q)
           /\ Price(r) => Price(q)
           /\ SeatOrder(q) = SeatOrder(r) /\ Active(q) = Active(r)
           /\ Chains(q) = Chains(r) /\ InRound(q) = InRound(r)
           /\ \A c : /\ Round(r, c) => Round(q, c)
                     /\ Turn(r, c) => Turn(q, c)
                     /\ Calls(r, c) => Calls(q, c)
                     /\ Serial(r, c) => Serial(q, c)
                     /\ Waits(r, c) => Waits(q, c)
           /\ Bettors(r) => Bettors(q)
           /\ Ready(r) => Ready(q)
           /\ ChipsOf(q) = ChipsOf(r)
<1>1. /\ q.players = r.players /\ q.connected = r.connected /\ q.waiting = r.waiting
      /\ q.folded = r.folded /\ q.acted = r.acted /\ q.passers = r.passers
      /\ q.preBet = r.preBet /\ q.paid = r.paid /\ q.phase = r.phase /\ q.turn = r.turn
      /\ q.chips = r.chips /\ q.balance = r.balance /\ q.skewed = r.skewed
      /\ q.debit = r.debit /\ q.dealing = r.dealing /\ q.completing = r.completing
      /\ q.cleanups = r.cleanups /\ q.reopened = r.reopened /\ q.skipped = r.skipped
      /\ q.piquePot = r.piquePot
  BY DEF SameBut, PiqueFields, Fields, Idle
<1>2. SeatOrder(q) = SeatOrder(r) /\ Active(q) = Active(r) /\ Chains(q) = Chains(r)
      /\ InRound(q) = InRound(r) /\ ChipsOf(q) = ChipsOf(r)
  BY <1>1 DEF SeatOrder, Active, Chains, InRound, ChipsOf
<1>3. (Books(r) => Books(q)) /\ (Order(r) => Order(q)) /\ (Price(r) => Price(q))
      /\ (Bettors(r) => Bettors(q))
  BY <1>1, <1>2 DEF Books, Order, Price, Bettors
<1>4. ASSUME NEW c
      PROVE  /\ Round(r, c) => Round(q, c)
             /\ Turn(r, c) => Turn(q, c)
             /\ Calls(r, c) => Calls(q, c)
             /\ Serial(r, c) => Serial(q, c)
             /\ Waits(r, c) => Waits(q, c)
  BY <1>1, <1>2 DEF Round, Turn, Calls, Serial, Waits, Live
<1>5. Ready(r) => Ready(q) BY <1>1, <1>2, <1>3 DEF Ready
<1> QED BY <1>2, <1>3, <1>4, <1>5

LEMMA UnaffectedSpeaks ==
    ASSUME NEW r, NEW q, NEW c, SameBut(Idle, r, q), Shape(q), Speaks(r, c)
    PROVE  Speaks(q, c)
<1>1. q.phase = r.phase /\ q.turn = r.turn BY DEF SameBut, PiqueFields, Fields, Idle
<1> QED BY <1>1, Unaffected DEF Speaks

LEMMA UnaffectedSound ==
    ASSUME NEW r, NEW q, NEW c, SameBut(Idle, r, q), Shape(q), Sound(r, c)
    PROVE  Sound(q, c)
BY Unaffected DEF Sound

(* A room with the same chips, the same pot and the same passers goes on.  *)
LEMMA StepFrom ==
    ASSUME NEW r, NEW p, NEW q, p.chips = r.chips, p.piquePot = r.piquePot,
           p.connected = r.connected, r.preBet \subseteq p.preBet, Step(p, q)
    PROVE  Step(r, q)
<1>1. ChipsOf(p) = ChipsOf(r) BY DEF ChipsOf
<1> QED BY <1>1 DEF Step

-----------------------------------------------------------------------------
(* Turn, deal and timeline.                                                *)

(* Only who has the deal or is La Mano, or a timer, changes.               *)
Moved(r, q) == SameBut({"mano", "dealer", "rotated", "turnTimer"}, r, q) /\ Shape(q)

LEMMA MovedIsIdle ==
    ASSUME NEW r, NEW q, Moved(r, q)
    PROVE  /\ SameBut(Idle, r, q) /\ Shape(q)
           /\ q.chips = r.chips /\ q.piquePot = r.piquePot /\ q.connected = r.connected
           /\ q.preBet = r.preBet /\ q.turn = r.turn /\ q.phase = r.phase
BY DEF Moved, SameBut, Idle, PiqueFields, Fields

LEMMA MovedTwice ==
    ASSUME NEW r, NEW p, NEW q, Moved(r, p), Moved(p, q) PROVE Moved(r, q)
BY DEF Moved, SameBut

LEMMA MovedSame == ASSUME NEW r, Shape(r) PROVE Moved(r, r)
BY DEF Moved, SameBut, Shape

LEMMA ClearTurnTimerMoves == ASSUME NEW r, Shape(r) PROVE Moved(r, ClearTurnTimer(r))
BY DEF Moved, SameBut, ClearTurnTimer, Shape, PiqueFields, Fields, Seats, Switches, Counts

LEMMA ManoMoves ==
    ASSUME NEW r, Shape(r), NEW s \in Seat \cup {NoSeat} PROVE Moved(r, [r EXCEPT !.mano = s])
BY DEF Moved, SameBut, Shape, PiqueFields, Fields, Seats, Switches, Counts

LEMMA DealerMoves ==
    ASSUME NEW r, Shape(r), NEW s \in Seat PROVE Moved(r, [r EXCEPT !.dealer = s])
BY DEF Moved, SameBut, Shape, PiqueFields, Fields, Seats, Switches, Counts

LEMMA RotatedMoves ==
    ASSUME NEW r, Shape(r) PROVE Moved(r, [r EXCEPT !.rotated = TRUE])
BY DEF Moved, SameBut, Shape, PiqueFields, Fields, Seats, Switches, Counts

LEMMA OrderInSeat ==
    ASSUME NEW r, Shape(r)
    PROVE  /\ SeatOrder(r) \subseteq Seat /\ Active(r) \subseteq Seat /\ r.players \subseteq Seat
           /\ r.connected \subseteq Seat
BY DEF SeatOrder, Active, Shape, Seats

LEMMA TransferManoMoves == ASSUME NEW r, Shape(r) PROVE Moved(r, TransferMano(r))
<1> DEFINE heirs == SeatOrder(r) \cap Active(r)
<1>1. CASE r.mano \in SeatOrder(r) /\ heirs # {}
  <2>1. heirs \in SUBSET Seat /\ r.mano \in Seat \cup {NoSeat} BY OrderInSeat DEF Shape
  <2>2. FirstAfter(r.mano, heirs) \in Seat BY <1>1, <2>1, FirstIsFound
  <2>3. TransferMano(r) = [r EXCEPT !.mano = FirstAfter(r.mano, heirs)]
    BY <1>1 DEF TransferMano
  <2> QED BY <2>2, <2>3, ManoMoves
<1>2. CASE ~(r.mano \in SeatOrder(r) /\ heirs # {}) BY <1>2, MovedSame DEF TransferMano
<1> QED BY <1>1, <1>2

LEMMA NextDealerMoves == ASSUME NEW r, Shape(r) PROVE Moved(r, NextDealer(r))
<1>1. CASE r.dealer \in SeatOrder(r)
  <2>1. SeatOrder(r) \in SUBSET Seat /\ r.dealer \in Seat \cup {NoSeat}
    BY OrderInSeat DEF Shape
  <2>2. FirstAfter(r.dealer, SeatOrder(r)) \in Seat BY <1>1, <2>1, FirstIsFound
  <2>3. NextDealer(r) = [r EXCEPT !.dealer = FirstAfter(r.dealer, SeatOrder(r))]
    BY <1>1 DEF NextDealer
  <2> QED BY <2>2, <2>3, DealerMoves
<1>2. CASE r.dealer \notin SeatOrder(r) BY <1>2, MovedSame DEF NextDealer
<1> QED BY <1>1, <1>2

LEMMA AttemptManoRotationMoves ==
    ASSUME NEW r, Shape(r), NEW s PROVE Moved(r, AttemptManoRotation(r, s))
<1> DEFINE p == [r EXCEPT !.rotated = TRUE]
<1>1. Moved(r, p) BY RotatedMoves
<1> HIDE DEF p
<1>2. Moved(p, NextDealer(p)) BY <1>1, NextDealerMoves DEF Moved
<1>3. Moved(r, NextDealer(p)) BY <1>1, <1>2, MovedTwice
<1> QED BY <1>3, MovedSame DEF AttemptManoRotation, p

(* The tail of a fold.                                                     *)
LEMMA RotationMoves ==
    ASSUME NEW r, Shape(r), NEW s
    PROVE  LET rotated == AttemptManoRotation(r, s)
           IN  Moved(r, IF s = r.mano THEN TransferMano(rotated) ELSE rotated)
<1> DEFINE p == AttemptManoRotation(r, s)
<1>1. Moved(r, p) BY AttemptManoRotationMoves
<1> HIDE DEF p
<1>2. Moved(p, TransferMano(p)) BY <1>1, TransferManoMoves DEF Moved
<1>3. Moved(r, TransferMano(p)) BY <1>1, <1>2, MovedTwice
<1> QED BY <1>1, <1>3 DEF p

(* A debit whose reply was lost is given up: its player is skewed.         *)
LEMMA RecordEventFrame ==
    ASSUME NEW r, Shape(r), Books(r)
    PROVE  LET q == RecordEvent(r)
           IN  /\ SameBut({"skewed", "debit"}, r, q) /\ Shape(q) /\ Books(q)
               /\ r.debit = NoCall => q = r
               /\ q.debit = NoCall
<1>1. CASE r.debit = NoCall BY <1>1 DEF RecordEvent, SameBut, Shape
<1>2. CASE r.debit # NoCall
  <2> DEFINE q == RecordEvent(r)
  <2>1. /\ SameBut({"skewed", "debit"}, r, q) /\ q.debit = NoCall
        /\ q.skewed = r.skewed \cup {r.debit.seat}
    BY <1>2 DEF RecordEvent, SameBut, Shape, PiqueFields, Fields
  <2>2. r.debit.seat \in Seat BY <1>2 DEF Shape
  <2>3. NoCall \in [seat : Seat \cup {NoSeat}, amount : Nat] BY DEF NoCall
  <2> HIDE DEF q
  <2>4. Shape(q)
    BY <2>1, <2>2, <2>3 DEF SameBut, Shape, PiqueFields, Fields, Seats, Switches, Counts
  <2>5. q.players = r.players /\ q.chips = r.chips /\ q.balance = r.balance
    BY <2>1 DEF SameBut, PiqueFields, Fields
  <2>6. Books(q)
    <3> SUFFICES ASSUME NEW s \in Seat, s \notin q.skewed
                 PROVE  q.chips[s] - q.balance[s]
                          = IF s = q.debit.seat THEN q.debit.amount ELSE 0
      BY DEF Books
    <3>1. s \in Seat \ r.skewed /\ s # r.debit.seat BY <2>1, <2>5
    <3>2. r.chips[s] - r.balance[s] = 0 BY <3>1 DEF Books
    <3>3. q.debit.amount = 0 BY <2>1 DEF NoCall
    <3> QED BY <2>5, <3>2, <3>3
  <2> QED BY <1>2, <2>1, <2>4, <2>6 DEF q
<1> QED BY <1>1, <1>2

-----------------------------------------------------------------------------
(* Money.                                                                  *)

LEMMA SeatsFinite == IsFiniteSet(Seat)
BY FS_Interval, NAssumption DEF Seat

LEMMA ChipsAreInt ==
    ASSUME NEW r, Shape(r)
    PROVE  /\ SumFunctionOnSet(r.chips, Seat) \in Int /\ r.piquePot \in Nat /\ ChipsOf(r) \in Int
<1>1. \A s \in Seat : r.chips[s] \in Int BY DEF Shape
<1>2. SumFunctionOnSet(r.chips, Seat) \in Int BY <1>1, SeatsFinite, SumType
<1> QED BY <1>2 DEF ChipsOf, Shape, Counts

(* One purse grows by an amount.                                           *)
LEMMA SumOfOneMore ==
    ASSUME NEW f \in [Seat -> Nat], NEW s \in Seat, NEW amount \in Nat
    PROVE  SumFunctionOnSet([f EXCEPT ![s] = @ + amount], Seat)
             = SumFunctionOnSet(f, Seat) + amount
<1> DEFINE g == [f EXCEPT ![s] = @ + amount]
<1>1. \A x \in Seat : f[x] \in Int /\ g[x] \in Int OBVIOUS
<1>2. \A x \in Seat \ {s} : g[x] = f[x] OBVIOUS
<1>3. g[s] = f[s] + amount OBVIOUS
<1> HIDE DEF g
<1>4. SumFunctionOnSet(g, Seat) = SumFunctionOnSet(f, Seat) + (g[s] - f[s])
  BY <1>1, <1>2, SeatsFinite, SumChange
<1>5. g[s] - f[s] = amount BY <1>1, <1>3
<1> QED BY <1>4, <1>5 DEF g

MoneyFields == {"chips", "balance", "refs", "skewed", "debit"}

LEMMA ShapeOfMoney ==
    ASSUME NEW r, NEW q, Shape(r), SameBut(MoneyFields, r, q),
           q.chips \in [Seat -> Nat], q.balance \in [Seat -> Int], q.skewed \subseteq Seat,
           q.debit \in {r.debit, NoCall}
    PROVE  Shape(q)
<1>1. /\ q.phase = r.phase /\ q.turn = r.turn /\ q.mano = r.mano /\ q.dealer = r.dealer
      /\ q.paid = r.paid /\ q.passes = r.passes /\ q.mainBet = r.mainBet
      /\ DOMAIN q = PiqueFields
  BY DEF SameBut, PiqueFields, Fields, MoneyFields
<1>2. \A g \in Seats : q[g] \subseteq Seat
  <2>1. \A g \in Seats \ {"skewed"} : q[g] = r[g]
    BY DEF SameBut, PiqueFields, Fields, MoneyFields, Seats
  <2> QED BY <2>1 DEF Shape
<1>3. \A b \in Switches : q[b] \in BOOLEAN
  <2>1. \A b \in Switches : q[b] = r[b]
    BY DEF SameBut, PiqueFields, Fields, MoneyFields, Switches
  <2> QED BY <2>1, Zenon DEF Shape
<1>4. \A n \in Counts : q[n] \in Nat
  <2>1. \A n \in Counts : q[n] = r[n]
    BY DEF SameBut, PiqueFields, Fields, MoneyFields, Counts
  <2> QED BY <2>1 DEF Shape
<1>5. NoCall \in [seat : Seat \cup {NoSeat}, amount : Nat] BY DEF NoCall
<1>6. \A m \in {"chips", "paid", "passes"} : q[m] \in [Seat -> Nat] BY <1>1 DEF Shape
<1> QED BY <1>1, <1>2, <1>3, <1>4, <1>5, <1>6 DEF Shape

LEMMA PayPlayerFrame ==
    ASSUME NEW r, Shape(r), Books(r), NEW s \in Seat, NEW amount \in Nat, NEW ref
    PROVE  LET q == PayPlayer(r, s, amount, ref)
           IN  /\ SameBut({"chips", "balance", "refs", "skewed"}, r, q) /\ Shape(q) /\ Books(q)
               /\ q.chips = [r.chips EXCEPT ![s] = @ + amount]
<1>1. CASE amount = 0
  <2>1. r.chips = [r.chips EXCEPT ![s] = @ + amount] BY <1>1 DEF Shape
  <2> QED BY <1>1, <2>1 DEF PayPlayer, SameBut, Shape
<1>2. CASE amount # 0
  <2> DEFINE ok == LedgerAccepts(r, s, amount, ref)
             c == LedgerCredit(r, s, amount, ref)
             q == PayPlayer(r, s, amount, ref)
  <2>1. /\ DOMAIN c = PiqueFields /\ \A f \in PiqueFields \ {"balance", "refs"} : c[f] = r[f]
        /\ c.balance = IF ok THEN [r.balance EXCEPT ![s] = @ + amount] ELSE r.balance
        /\ c.chips = r.chips /\ c.skewed = r.skewed
    BY DEF LedgerCredit, Shape, PiqueFields, Fields
  <2> HIDE DEF c
  <2>2. q = [c EXCEPT !.chips[s] = @ + amount,
                      !.skewed = IF ok THEN @ ELSE @ \cup {s}]
    BY <1>2 DEF PayPlayer, c
  <2> HIDE DEF q, ok
  <2>3. /\ SameBut({"chips", "balance", "refs", "skewed"}, r, q)
        /\ q.chips = [r.chips EXCEPT ![s] = @ + amount]
        /\ q.balance = IF ok THEN [r.balance EXCEPT ![s] = @ + amount] ELSE r.balance
        /\ q.skewed = IF ok THEN r.skewed ELSE r.skewed \cup {s}
    BY <2>1, <2>2 DEF SameBut, PiqueFields, Fields
  <2>4. q.chips \in [Seat -> Nat] BY <2>3 DEF Shape
  <2>5. q.balance \in [Seat -> Int] BY <2>3 DEF Shape
  <2>6. q.skewed \subseteq Seat BY <2>3 DEF Shape, Seats
  <2>7. q.players = r.players /\ q.debit = r.debit BY <2>3 DEF SameBut, PiqueFields, Fields
  <2>8. Shape(q)
    <3>1. SameBut(MoneyFields, r, q) BY <2>3 DEF SameBut, MoneyFields
    <3> QED BY <2>4, <2>5, <2>6, <2>7, <3>1, ShapeOfMoney
  <2>9. \A t \in Seat : r.chips[t] \in Int /\ r.balance[t] \in Int /\ r.debit.amount \in Int
    BY DEF Shape
  <2>10. Books(q)
    <3> SUFFICES ASSUME NEW t \in Seat, t \notin q.skewed
                 PROVE  q.chips[t] - q.balance[t]
                          = IF t = q.debit.seat THEN q.debit.amount ELSE 0
      BY DEF Books
    <3>1. t \in Seat \ r.skewed BY <2>3
    <3>2. r.chips[t] - r.balance[t] = IF t = r.debit.seat THEN r.debit.amount ELSE 0
      BY <3>1 DEF Books
    <3>3. CASE t = s
      <4>1. ok BY <2>3, <3>3
      <4>2. q.chips[t] = r.chips[t] + amount /\ q.balance[t] = r.balance[t] + amount
        BY <2>3, <3>1, <3>3, <4>1 DEF Shape
      <4> QED BY <2>7, <2>9, <3>1, <3>2, <4>2
    <3>4. CASE t # s
      <4>1. q.chips[t] = r.chips[t] /\ q.balance[t] = r.balance[t]
        BY <2>3, <3>1, <3>4 DEF Shape
      <4> QED BY <2>7, <3>2, <4>1
    <3> QED BY <3>3, <3>4
  <2> QED BY <2>3, <2>8, <2>10 DEF q
<1> QED BY <1>1, <1>2

(* The chips that are paid out are those of the table: at most somebody    *)
(* who passed has fewer afterwards.                                        *)
Pays(r, q) ==
    /\ SameBut(MoneyFields \cup {"piquePot"}, r, q) /\ Shape(q) /\ Books(q)
    /\ ChipsOf(q) <= ChipsOf(r)
    /\ \A s \in Seat \ (r.passers \cap r.players) : q.chips[s] >= r.chips[s]

LEMMA PaysFields ==
    ASSUME NEW r, NEW q, Pays(r, q)
    PROVE  /\ q.players = r.players /\ q.connected = r.connected /\ q.waiting = r.waiting
           /\ q.folded = r.folded /\ q.acted = r.acted /\ q.passers = r.passers
           /\ q.preBet = r.preBet /\ q.paid = r.paid /\ q.phase = r.phase /\ q.turn = r.turn
           /\ q.dealing = r.dealing /\ q.completing = r.completing /\ q.cleanups = r.cleanups
           /\ q.reopened = r.reopened /\ q.skipped = r.skipped
BY DEF Pays, SameBut, MoneyFields, PiqueFields, Fields

LEMMA PaysSame == ASSUME NEW r, Shape(r), Books(r) PROVE Pays(r, r)
<1>1. \A s \in Seat : r.chips[s] \in Nat BY DEF Shape
<1>2. ChipsOf(r) \in Int BY ChipsAreInt
<1> QED BY <1>1, <1>2 DEF Pays, SameBut, Shape

LEMMA PaysTwice ==
    ASSUME NEW r, NEW p, NEW q, Shape(r), Pays(r, p), Pays(p, q) PROVE Pays(r, q)
<1>1. SameBut(MoneyFields \cup {"piquePot"}, r, q) BY DEF Pays, SameBut
<1>2. ChipsOf(r) \in Int /\ ChipsOf(p) \in Int /\ ChipsOf(q) \in Int BY ChipsAreInt DEF Pays
<1>3. \A s \in Seat : r.chips[s] \in Nat /\ p.chips[s] \in Nat /\ q.chips[s] \in Nat
  BY DEF Pays, Shape
<1>4. p.passers = r.passers /\ p.players = r.players BY PaysFields
<1>5. ASSUME NEW s \in Seat, s \notin r.passers \cap r.players PROVE q.chips[s] >= r.chips[s]
  <2>1. p.chips[s] >= r.chips[s] /\ q.chips[s] >= p.chips[s] BY <1>4, <1>5 DEF Pays
  <2> QED BY <1>3, <2>1
<1>6. ChipsOf(q) <= ChipsOf(r) BY <1>2 DEF Pays
<1> QED BY <1>1, <1>5, <1>6 DEF Pays

LEMMA RecordEventPays ==
    ASSUME NEW r, Shape(r), Books(r) PROVE Pays(r, RecordEvent(r))
<1> DEFINE q == RecordEvent(r)
<1>1. SameBut({"skewed", "debit"}, r, q) /\ Shape(q) /\ Books(q) BY RecordEventFrame
<1> HIDE DEF q
<1>2. q.chips = r.chips /\ q.piquePot = r.piquePot BY <1>1 DEF SameBut, PiqueFields, Fields
<1>3. ChipsOf(q) = ChipsOf(r) BY <1>2 DEF ChipsOf
<1>4. SameBut(MoneyFields \cup {"piquePot"}, r, q) BY <1>1 DEF SameBut, MoneyFields
<1>5. ChipsOf(r) \in Int /\ \A s \in Seat : r.chips[s] \in Nat BY ChipsAreInt DEF Shape
<1> QED BY <1>1, <1>2, <1>3, <1>4, <1>5 DEF Pays, q

(* The pot of the pique is paid to somebody and is empty.                  *)
LEMMA PotIsPaid ==
    ASSUME NEW r, Shape(r), Books(r), NEW w \in Seat, NEW ref
    PROVE  LET q == [PayPlayer(r, w, r.piquePot, ref) EXCEPT !.piquePot = 0]
           IN  Pays(r, q) /\ q.piquePot = 0
<1> DEFINE p == PayPlayer(r, w, r.piquePot, ref)
           q == [p EXCEPT !.piquePot = 0]
<1>1. r.piquePot \in Nat BY DEF Shape, Counts
<1>2. /\ SameBut({"chips", "balance", "refs", "skewed"}, r, p) /\ Shape(p) /\ Books(p)
      /\ p.chips = [r.chips EXCEPT ![w] = @ + r.piquePot]
  BY <1>1, PayPlayerFrame
<1> HIDE DEF p
<1>3. /\ DOMAIN q = PiqueFields /\ q.piquePot = 0
      /\ \A f \in PiqueFields \ {"piquePot"} : q[f] = p[f]
  BY <1>2 DEF SameBut, PiqueFields, Fields
<1> HIDE DEF q
<1>4. SameBut(MoneyFields \cup {"piquePot"}, r, q) BY <1>2, <1>3 DEF SameBut, MoneyFields
<1>5. Shape(q)
  BY <1>2, <1>3 DEF Shape, PiqueFields, Fields, Seats, Switches, Counts
<1>6. q.chips = p.chips /\ q.balance = p.balance /\ q.skewed = p.skewed
      /\ q.players = p.players /\ q.debit = p.debit
  BY <1>3 DEF PiqueFields, Fields
<1>7. Books(q) BY <1>2, <1>6 DEF Books
<1>8. ChipsOf(q) = ChipsOf(r)
  <2>1. SumFunctionOnSet(q.chips, Seat) = SumFunctionOnSet(r.chips, Seat) + r.piquePot
    <3>1. r.chips \in [Seat -> Nat] BY DEF Shape
    <3> QED BY <1>1, <1>2, <1>6, <3>1, SumOfOneMore
  <2>2. SumFunctionOnSet(r.chips, Seat) \in Int BY ChipsAreInt
  <2> QED BY <1>1, <1>3, <2>1, <2>2 DEF ChipsOf
<1>9. \A s \in Seat : q.chips[s] >= r.chips[s] BY <1>1, <1>2, <1>6 DEF Shape
<1>10. ChipsOf(r) \in Int BY ChipsAreInt
<1> QED BY <1>3, <1>4, <1>5, <1>7, <1>8, <1>9, <1>10 DEF Pays, p, q

LEMMA BandaIsThere ==
    ASSUME NEW r, Shape(r), NEW s \in Seat
    PROVE  BandaOf(r, s) \in Nat /\ BandaOf(r, s) <= r.chips[s]
<1>1. Banda \in Nat /\ r.chips[s] \in Nat BY PiqueAssumption DEF Shape
<1> QED BY <1>1, MinOfTwo DEF BandaOf

(* What the losers pay is what the winner gets.                            *)
LEMMA CollectBandaPays ==
    ASSUME NEW r, Shape(r), Books(r), NEW w \in Seat
    PROVE  Pays(r, CollectBanda(r, w))
<1> DEFINE losers == {s \in r.passers \cap r.players : r.chips[s] > 0}
           bandas == [s \in losers |-> BandaOf(r, s)]
           total == SumFunctionOnSet(bandas, losers)
           used == {<<s, Ref("banda-loser")>> : s \in losers} \cup {<<w, Ref("banda-winner")>>}
           left == [s \in Seat |-> IF s \in losers THEN r.chips[s] - BandaOf(r, s) ELSE r.chips[s]]
           chips == [left EXCEPT ![w] = @ + total]
           balance == [s \in Seat |-> IF s \in losers THEN r.balance[s] - BandaOf(r, s)
                                      ELSE IF s = w THEN r.balance[s] + total - RakeOf(total)
                                      ELSE r.balance[s]]
           moved == [r EXCEPT !.chips = [s \in Seat |->
                                IF s \in losers THEN @[s] - BandaOf(r, s) ELSE @[s]]]
           won == [moved EXCEPT !.chips[w] = @ + total]
           yes == [won EXCEPT !.balance = [s \in Seat |->
                                  IF s \in losers THEN @[s] - BandaOf(r, s)
                                  ELSE IF s = w THEN @[s] + total - RakeOf(total) ELSE @[s]],
                              !.refs = @ \cup used, !.skewed = @ \cup {w}]
           no == [won EXCEPT !.skewed = @ \cup losers \cup {w}]
<1>1. losers \subseteq r.passers \cap r.players /\ losers \subseteq Seat /\ IsFiniteSet(losers)
  <2>1. losers \subseteq Seat BY DEF Shape, Seats
  <2> QED BY <2>1, SeatsFinite, FS_Subset
<1>2. \A s \in losers : BandaOf(r, s) \in Nat /\ BandaOf(r, s) <= r.chips[s]
  BY <1>1, BandaIsThere
<1>3. total \in Nat
  <2>1. \A s \in losers : bandas[s] \in Nat BY <1>2
  <2> HIDE DEF bandas, losers
  <2> QED BY <1>1, <2>1, SumOfNats
<1>4. RakeOf(total) \in Int BY <1>3 DEF RakeOf
<1>5. \A s \in Seat : r.chips[s] \in Nat /\ r.balance[s] \in Int BY DEF Shape
<1>6. left \in [Seat -> Nat]
  <2> SUFFICES ASSUME NEW s \in Seat
               PROVE  (IF s \in losers THEN r.chips[s] - BandaOf(r, s) ELSE r.chips[s]) \in Nat
    OBVIOUS
  <2> HIDE DEF losers
  <2> QED BY <1>2, <1>5
<1>7. chips \in [Seat -> Nat]
  <2> HIDE DEF left, total
  <2> QED BY <1>3, <1>6
<1>8. balance \in [Seat -> Int]
  <2> SUFFICES ASSUME NEW s \in Seat PROVE balance[s] \in Int OBVIOUS
  <2> HIDE DEF losers, total
  <2> QED BY <1>2, <1>3, <1>4, <1>5
<1>9. SumFunctionOnSet(chips, Seat) = SumFunctionOnSet(r.chips, Seat)
  <2> DEFINE out == [s \in Seat |-> IF s \in losers THEN BandaOf(r, s) ELSE 0]
  <2>1. \A s \in Seat : left[s] \in Int /\ out[s] \in Int /\ r.chips[s] = left[s] + out[s]
    <3> SUFFICES ASSUME NEW s \in Seat
                 PROVE  left[s] \in Int /\ out[s] \in Int /\ r.chips[s] = left[s] + out[s]
      OBVIOUS
    <3> HIDE DEF losers
    <3> QED BY <1>2, <1>5
  <2>2. SumFunctionOnSet(r.chips, Seat)
          = SumFunctionOnSet(left, Seat) + SumFunctionOnSet(out, Seat)
    <3> HIDE DEF left, out
    <3> QED BY <2>1, SeatsFinite, SumOfSums
  <2>3. SumFunctionOnSet(out, Seat) = SumFunctionOnSet(out, losers)
    <3>1. \A s \in Seat \ losers : out[s] = 0 OBVIOUS
    <3> HIDE DEF out, losers
    <3> QED BY <1>1, <2>1, <3>1, SeatsFinite, SumOfPart
  <2>4. SumFunctionOnSet(out, losers) = total
    <3>1. \A s \in losers : out[s] = bandas[s] /\ out[s] \in Int BY <1>1, <1>2
    <3> HIDE DEF out, losers, bandas
    <3> QED BY <1>1, <3>1, SumSame
  <2>5. SumFunctionOnSet(chips, Seat) = SumFunctionOnSet(left, Seat) + total
    <3> HIDE DEF left, total
    <3> QED BY <1>3, <1>6, SumOfOneMore
  <2> QED BY <2>2, <2>3, <2>4, <2>5
<1>10. \A s \in Seat \ losers : chips[s] >= r.chips[s]
  <2> SUFFICES ASSUME NEW s \in Seat, s \notin losers PROVE chips[s] >= r.chips[s] OBVIOUS
  <2>1. left[s] = r.chips[s] OBVIOUS
  <2>2. chips[s] = IF s = w THEN left[s] + total ELSE left[s] OBVIOUS
  <2> HIDE DEF chips, left, total, losers
  <2> QED BY <1>3, <1>5, <2>1, <2>2
<1>11. \A s \in Seat \ {w} :
         /\ chips[s] = IF s \in losers THEN r.chips[s] - BandaOf(r, s) ELSE r.chips[s]
         /\ balance[s] = IF s \in losers THEN r.balance[s] - BandaOf(r, s) ELSE r.balance[s]
  <2> HIDE DEF losers, total
  <2> QED OBVIOUS
<1>12. /\ SameBut(MoneyFields, r, yes) /\ yes.chips = chips /\ yes.balance = balance
       /\ yes.skewed = r.skewed \cup {w} /\ yes.debit = r.debit /\ yes.players = r.players
       /\ yes.piquePot = r.piquePot
       /\ SameBut(MoneyFields, r, no) /\ no.chips = chips /\ no.balance = r.balance
       /\ no.skewed = r.skewed \cup losers \cup {w} /\ no.debit = r.debit
       /\ no.players = r.players /\ no.piquePot = r.piquePot
  <2>1. /\ DOMAIN won = PiqueFields /\ won.chips = chips
        /\ \A f \in PiqueFields \ {"chips"} : won[f] = r[f]
    <3>1. DOMAIN moved = PiqueFields /\ moved.chips = left
          /\ \A f \in PiqueFields \ {"chips"} : moved[f] = r[f]
      <4> HIDE DEF losers
      <4> QED BY DEF Shape, PiqueFields, Fields
    <3> HIDE DEF moved, left, total
    <3> QED BY <3>1 DEF PiqueFields, Fields
  <2> HIDE DEF won, losers, total, used, chips
  <2>2. won.balance = r.balance /\ won.skewed = r.skewed BY <2>1 DEF PiqueFields, Fields
  <2> QED BY <2>1, <2>2 DEF SameBut, MoneyFields, PiqueFields, Fields
<1>13. CollectBanda(r, w) = IF losers = {} \/ total = 0 THEN r
                            ELSE RecordEvent(IF used \cap r.refs = {} THEN yes ELSE no)
  BY Zenon DEF CollectBanda
<1> HIDE DEF losers, total, used, chips, balance, left, moved, won, yes, no
<1>14. Shape(yes) /\ Shape(no)
  <2>1. r.balance \in [Seat -> Int] /\ r.skewed \subseteq Seat BY DEF Shape, Seats
  <2>2. Shape(yes) BY <1>7, <1>8, <1>12, <2>1, ShapeOfMoney
  <2>3. Shape(no) BY <1>1, <1>7, <1>12, <2>1, ShapeOfMoney
  <2> QED BY <2>2, <2>3
<1>15. \A s \in Seat \ r.skewed :
         r.chips[s] - r.balance[s] = IF s = r.debit.seat THEN r.debit.amount ELSE 0
  BY DEF Books
<1>16. Books(yes)
  <2> SUFFICES ASSUME NEW s \in Seat, s \notin r.skewed, s # w
               PROVE  chips[s] - balance[s] = IF s = r.debit.seat THEN r.debit.amount ELSE 0
    BY <1>12 DEF Books
  <2>2. chips[s] - balance[s] = r.chips[s] - r.balance[s]
    <3>1. CASE s \in losers
      <4>1. chips[s] = r.chips[s] - BandaOf(r, s) /\ balance[s] = r.balance[s] - BandaOf(r, s)
        BY <1>11, <3>1
      <4> QED BY <1>2, <1>5, <3>1, <4>1
    <3>2. CASE s \notin losers BY <1>11, <3>2
    <3> QED BY <3>1, <3>2
  <2> QED BY <1>15, <2>2
<1>17. Books(no)
  <2> SUFFICES ASSUME NEW s \in Seat, s \notin r.skewed, s # w, s \notin losers
               PROVE  chips[s] - r.balance[s] = IF s = r.debit.seat THEN r.debit.amount ELSE 0
    BY <1>12 DEF Books
  <2>2. chips[s] = r.chips[s] BY <1>11
  <2> QED BY <1>15, <2>2
<1>18. ASSUME NEW p \in {yes, no} PROVE Pays(r, p)
  <2>1. SameBut(MoneyFields, r, p) /\ p.chips = chips /\ p.piquePot = r.piquePot
        /\ Shape(p) /\ Books(p)
    BY <1>12, <1>14, <1>16, <1>17
  <2>2. SameBut(MoneyFields \cup {"piquePot"}, r, p) BY <2>1 DEF SameBut
  <2>3. ChipsOf(p) = ChipsOf(r) /\ ChipsOf(r) \in Int BY <1>9, <2>1, ChipsAreInt DEF ChipsOf
  <2>4. \A s \in Seat \ (r.passers \cap r.players) : p.chips[s] >= r.chips[s]
    BY <1>1, <1>10, <2>1
  <2> QED BY <2>1, <2>2, <2>3, <2>4 DEF Pays
<1>19. ASSUME NEW p \in {yes, no} PROVE Pays(r, RecordEvent(p))
  <2>1. Pays(r, p) BY <1>18
  <2>2. Pays(p, RecordEvent(p)) BY <2>1, RecordEventPays DEF Pays
  <2> QED BY <2>1, <2>2, PaysTwice
<1> QED BY <1>13, <1>19, PaysSame

-----------------------------------------------------------------------------
(* The end of the round.                                                   *)

LEMMA NoChains ==
    ASSUME NEW r, Shape(r)
    PROVE  /\ Chains(r) \in Nat
           /\ Chains(r) = 0 <=> r.dealing = 0 /\ r.completing = 0 /\ r.cleanups = 0
<1>1. r.dealing \in Nat /\ r.completing \in Nat /\ r.cleanups \in Nat BY DEF Shape, Counts
<1>2. \A a, b, c \in Nat : a + b + c \in Nat /\ (a + b + c = 0 <=> a = 0 /\ b = 0 /\ c = 0)
  OBVIOUS
<1>3. Chains(r) = r.dealing + r.completing + r.cleanups BY DEF Chains
<1> HIDE DEF Chains
<1> QED BY <1>1, <1>2, <1>3

(* The pique is dealt, or dealt again: nobody has said or paid anything.   *)
LEMMA EnterPiqueSound ==
    ASSUME NEW r, Shape(r), Books(r), Order(r), Chains(r) = 0,
           r.players \cap Newcomers \subseteq r.waiting
    PROVE  LET q == EnterPique(r)
           IN  Sound(q, NoCall) /\ q.chips = r.chips /\ ChipsOf(q) = ChipsOf(r)
<1> DEFINE led == [r EXCEPT !.phase = "BARAJANDO", !.passers = {}, !.preBet = {},
                            !.reopened = FALSE, !.maxBet = 0, !.mano = r.dealer]
           moved == IF r.dealer \in r.players \ r.connected THEN TransferMano(led) ELSE led
           q == EnterPique(r)
<1>1. /\ DOMAIN led = PiqueFields /\ led.phase = "BARAJANDO" /\ led.passers = {}
      /\ led.preBet = {} /\ led.reopened = FALSE /\ led.maxBet = 0 /\ led.mano = r.dealer
      /\ \A f \in PiqueFields \ {"phase", "passers", "preBet", "reopened", "maxBet", "mano"} :
           led[f] = r[f]
  BY DEF Shape, PiqueFields, Fields
<1> HIDE DEF led
<1>2. Shape(led)
  <2>1. /\ led.turn = r.turn /\ led.dealer = r.dealer /\ led.balance = r.balance
        /\ led.mainBet = r.mainBet /\ led.debit = r.debit
        /\ led.chips = r.chips /\ led.paid = r.paid /\ led.passes = r.passes
    BY <1>1 DEF PiqueFields, Fields
  <2>2. \A g \in Seats : led[g] \subseteq Seat
    <3>1. \A g \in Seats \ {"passers", "preBet"} : led[g] = r[g]
      BY <1>1 DEF PiqueFields, Fields, Seats
    <3> QED BY <1>1, <3>1 DEF Shape
  <2>3. \A b \in Switches : led[b] \in BOOLEAN
    <3>1. \A b \in Switches \ {"reopened"} : led[b] = r[b]
      BY <1>1 DEF PiqueFields, Fields, Switches
    <3> QED BY <1>1, <3>1, Zenon DEF Shape
  <2>4. \A n \in Counts : led[n] \in Nat
    <3>1. \A n \in Counts \ {"maxBet"} : led[n] = r[n]
      BY <1>1 DEF PiqueFields, Fields, Counts
    <3> QED BY <1>1, <3>1 DEF Shape
  <2>5. \A m \in {"chips", "paid", "passes"} : led[m] \in [Seat -> Nat] BY <2>1 DEF Shape
  <2>6. led.phase \in PiquePhases /\ led.mano \in Seat \cup {NoSeat}
    BY <1>1 DEF PiquePhases, Shape
  <2> QED BY <1>1, <2>1, <2>2, <2>3, <2>4, <2>5, <2>6 DEF Shape
<1>3. Moved(led, moved) BY <1>2, TransferManoMoves, MovedSame
<1>4. q = [moved EXCEPT !.folded = (@ \ r.players) \cup (r.players \ r.connected)
                                   \cup (r.players \cap r.waiting),
                        !.dealing = @ + 1, !.deals = @ + 1,
                        !.paid = [s \in Seat |-> 0]]
  BY DEF EnterPique, led
<1> HIDE DEF moved
<1>5. Shape(moved) /\ SameBut({"mano", "dealer", "rotated", "turnTimer"}, led, moved)
  BY <1>3 DEF Moved
<1>6. /\ DOMAIN q = PiqueFields
      /\ \A f \in PiqueFields \ {"folded", "dealing", "deals", "paid"} : q[f] = moved[f]
      /\ q.folded \subseteq moved.folded \cup r.players
      /\ q.dealing = moved.dealing + 1 /\ q.deals = moved.deals + 1
      /\ q.paid = [s \in Seat |-> 0]
  <2> DEFINE folded == (moved.folded \ r.players) \cup (r.players \ r.connected)
                         \cup (r.players \cap r.waiting)
             paid == [s \in Seat |-> 0]
  <2>1. q = [moved EXCEPT !.folded = folded, !.dealing = @ + 1, !.deals = @ + 1, !.paid = paid]
    BY <1>4
  <2>2. folded \subseteq moved.folded \cup r.players OBVIOUS
  <2> HIDE DEF q, folded, paid
  <2>3. DOMAIN moved = PiqueFields BY <1>5 DEF SameBut
  <2>4. /\ q.folded = folded /\ q.dealing = moved.dealing + 1 /\ q.deals = moved.deals + 1
        /\ q.paid = paid
    BY <2>1, <2>3 DEF PiqueFields, Fields
  <2>5. /\ DOMAIN q = PiqueFields
        /\ \A f \in PiqueFields \ {"folded", "dealing", "deals", "paid"} : q[f] = moved[f]
    BY <2>1, <2>3 DEF PiqueFields, Fields
  <2> QED BY <2>2, <2>4, <2>5 DEF paid
<1> HIDE DEF q
<1>7. r.dealing = 0 /\ r.completing = 0 /\ r.cleanups = 0 BY NoChains
<1>8. /\ q.phase = "BARAJANDO" /\ q.passers = {} /\ q.preBet = {} /\ q.reopened = FALSE
      /\ q.players = r.players /\ q.waiting = r.waiting /\ q.turn = r.turn
      /\ q.chips = r.chips /\ q.balance = r.balance /\ q.skewed = r.skewed
      /\ q.debit = r.debit /\ q.dealing = 1 /\ q.completing = 0 /\ q.cleanups = 0
      /\ q.piquePot = r.piquePot
  BY <1>1, <1>5, <1>6, <1>7 DEF SameBut, PiqueFields, Fields
<1>9. Shape(q)
  <2>1. q.folded \subseteq Seat
    <3>1. moved.folded \subseteq Seat BY <1>5 DEF Shape, Seats
    <3> QED BY <1>6, <3>1, OrderInSeat
  <2>2. q.paid \in [Seat -> Nat] BY <1>6
  <2>3. q.dealing \in Nat /\ q.deals \in Nat BY <1>5, <1>6 DEF Shape, Counts
  <2> QED BY <1>5, <1>6, <2>1, <2>2, <2>3
          DEF Shape, PiqueFields, Fields, Seats, Switches, Counts
<1>10. Books(q) BY <1>8 DEF Books
<1>11. SeatOrder(q) = SeatOrder(r) BY <1>8 DEF SeatOrder
<1>12. Order(q) BY <1>8, <1>11 DEF Order
<1>13. Price(q) BY <1>6, <1>8 DEF Price
<1>14. Round(q, NoCall) /\ Turn(q, NoCall) /\ Calls(q, NoCall) /\ Bettors(q)
  BY <1>8 DEF Round, InRound, Turn, Calls, Bettors
<1>15. Serial(q, NoCall) BY <1>8 DEF Serial, Chains, InRound
<1>16. Waits(q, NoCall) BY <1>8 DEF Waits
<1>17. ChipsOf(q) = ChipsOf(r) BY <1>8 DEF ChipsOf
<1> QED BY <1>8, <1>9, <1>10, <1>12, <1>13, <1>14, <1>15, <1>16, <1>17 DEF Sound, q

(* Back to the lobby: nothing is under way any more.                       *)
LEMMA InTheLobby ==
    ASSUME NEW q, Shape(q), Books(q), Order(q), Price(q), q.phase = "LOBBY", Chains(q) = 0
    PROVE  Sound(q, NoCall)
<1>1. Round(q, NoCall) /\ Turn(q, NoCall) /\ Calls(q, NoCall) /\ Bettors(q) /\ Serial(q, NoCall)
  BY DEF Round, InRound, Turn, Calls, Bettors, Serial
<1>2. Waits(q, NoCall) BY DEF Waits, Live, InRound
<1> QED BY <1>1, <1>2 DEF Sound

(* Ready, but for the turn and the pot.                                    *)
LEMMA AbortPiqueEnds ==
    ASSUME NEW r, Ready(r)
    PROVE  LET q == AbortPique(r)
           IN  Sound(q, NoCall) /\ ChipsOf(q) <= ChipsOf(r)
               /\ \A s \in Seat : q.chips[s] >= r.chips[s]
<1> DEFINE seated == (r.players \cap r.connected) \ r.waiting
           in == seated \ r.folded
           back == IF in # {} THEN PayPlayer(r, Min(in), r.piquePot, Ref("refund-restart")) ELSE r
           closed == [back EXCEPT !.pot = 0, !.piquePot = 0, !.turn = NoSeat, !.mano = NoSeat,
                       !.restarts = 0, !.acted = @ \ r.players, !.folded = @ \ r.players,
                       !.phase = "LOBBY", !.paid = [s \in Seat |-> 0]]
           q == PromoteWaitingPlayers(closed)
<1>1. Shape(r) /\ Books(r) /\ Order(r) /\ Price(r) /\ Chains(r) = 0 BY DEF Ready
<1>2. in \in SUBSET Seat BY <1>1, OrderInSeat
<1>3. AbortPique(r) = q BY Zenon DEF AbortPique
<1> HIDE DEF in
<1>4. r.chips \in [Seat -> Nat] /\ r.piquePot \in Nat BY <1>1 DEF Shape, Counts
<1>5. /\ SameBut({"chips", "balance", "refs", "skewed"}, r, back) /\ Shape(back) /\ Books(back)
      /\ \A s \in Seat : back.chips[s] >= r.chips[s]
      /\ SumFunctionOnSet(back.chips, Seat) <= ChipsOf(r)
  <2>1. SumFunctionOnSet(r.chips, Seat) \in Int BY <1>1, ChipsAreInt
  <2>2. CASE in = {}
    <3>1. back = r BY <2>2
    <3> HIDE DEF back
    <3> QED BY <1>1, <1>4, <2>1, <3>1 DEF SameBut, Shape, ChipsOf
  <2>3. CASE in # {}
    <3>1. Min(in) \in Seat BY <1>2, <2>3, MinInSet
    <3>2. /\ SameBut({"chips", "balance", "refs", "skewed"}, r, back) /\ Shape(back)
          /\ Books(back) /\ back.chips = [r.chips EXCEPT ![Min(in)] = @ + r.piquePot]
      BY <1>1, <1>4, <2>3, <3>1, PayPlayerFrame
    <3> HIDE DEF back
    <3>3. SumFunctionOnSet(back.chips, Seat) = SumFunctionOnSet(r.chips, Seat) + r.piquePot
      BY <1>4, <3>1, <3>2, SumOfOneMore
    <3>4. \A s \in Seat : back.chips[s] >= r.chips[s] BY <1>4, <3>1, <3>2
    <3> QED BY <1>4, <2>1, <3>2, <3>3, <3>4 DEF ChipsOf
  <2> QED BY <2>2, <2>3
<1> HIDE DEF back
<1>6. /\ DOMAIN closed = PiqueFields /\ closed.piquePot = 0 /\ closed.turn = NoSeat
      /\ closed.mano = NoSeat /\ closed.restarts = 0 /\ closed.acted \subseteq back.acted
      /\ closed.folded \subseteq back.folded /\ closed.phase = "LOBBY"
      /\ closed.paid = [s \in Seat |-> 0]
      /\ \A f \in PiqueFields \ {"pot", "piquePot", "turn", "mano", "restarts", "acted", "folded",
                                 "phase", "paid"} : closed[f] = back[f]
  BY <1>5 DEF SameBut, PiqueFields, Fields
<1> HIDE DEF closed
<1>7. /\ DOMAIN q = PiqueFields /\ q.waiting = {}
      /\ \A f \in PiqueFields \ {"waiting"} : q[f] = closed[f]
  BY <1>6 DEF PromoteWaitingPlayers, PiqueFields, Fields
<1> HIDE DEF q
<1>8. /\ q.phase = "LOBBY" /\ q.turn = NoSeat /\ q.mano = NoSeat /\ q.piquePot = 0
      /\ q.restarts = 0 /\ q.acted \subseteq back.acted /\ q.folded \subseteq back.folded
      /\ q.paid = [s \in Seat |-> 0] /\ q.players = back.players /\ q.chips = back.chips
      /\ q.balance = back.balance /\ q.skewed = back.skewed /\ q.debit = back.debit
      /\ q.dealing = back.dealing /\ q.completing = back.completing
      /\ q.cleanups = back.cleanups /\ q.preBet = back.preBet /\ q.passers = back.passers
      /\ q.reopened = back.reopened
      /\ \A f \in PiqueFields \ {"pot", "piquePot", "turn", "mano", "restarts", "acted", "folded",
                                 "phase", "paid", "waiting"} : q[f] = back[f]
  BY <1>6, <1>7 DEF PiqueFields, Fields
<1>9. Shape(q)
  <2>1. q.acted \subseteq Seat /\ q.folded \subseteq Seat BY <1>5, <1>8 DEF Shape, Seats
  <2>2. q.paid \in [Seat -> Nat] BY <1>8
  <2> QED BY <1>5, <1>7, <1>8, <2>1, <2>2
          DEF Shape, PiqueFields, Fields, Seats, Switches, Counts, PiquePhases
<1>10. Books(q) BY <1>5, <1>8 DEF Books
<1>11. /\ back.preBet = r.preBet /\ back.reopened = r.reopened /\ back.dealing = r.dealing
       /\ back.completing = r.completing /\ back.cleanups = r.cleanups
  BY <1>5 DEF SameBut, PiqueFields, Fields
<1>12. Order(q) BY <1>1, <1>7, <1>8, <1>11 DEF Order
<1>13. Price(q)
  <2>1. r.dealing = 0 BY <1>1, NoChains
  <2>2. \A s \in q.passers \cup q.preBet : s \in Seat BY <1>9 DEF Shape, Seats
  <2> QED BY <1>1, <1>8, <1>11, <2>1, <2>2 DEF Price
<1>14. Chains(q) = 0 BY <1>1, <1>8, <1>11 DEF Chains
<1>15. Sound(q, NoCall) BY <1>8, <1>9, <1>10, <1>12, <1>13, <1>14, InTheLobby
<1>16. ChipsOf(q) <= ChipsOf(r)
  <2>1. SumFunctionOnSet(back.chips, Seat) \in Int BY <1>5, ChipsAreInt
  <2> QED BY <1>5, <1>8, <2>1 DEF ChipsOf
<1> QED BY <1>3, <1>5, <1>8, <1>15, <1>16

LEMMA DealAgainEnds ==
    ASSUME NEW r, Ready(r)
    PROVE  LET q == DealAgain(r)
           IN  Sound(q, NoCall) /\ ChipsOf(q) <= ChipsOf(r)
               /\ \A s \in Seat \ (r.passers \cap r.players) : q.chips[s] >= r.chips[s]
<1> DEFINE voy  == InPique(r)
           w    == Min(voy)
           back == IF voy # {} /\ r.piquePot > 0
                   THEN PayPlayer(r, w, r.piquePot, Ref("refund-pique")) ELSE r
           free == [back EXCEPT !.piquePot = 0]
           charged == IF voy # {} THEN CollectBanda(free, w) ELSE free
           again == [charged EXCEPT !.rotated = TRUE]
           rotated == IF r.rotated THEN charged ELSE NextDealer(again)
           noted == RecordEvent(rotated)
<1>1. Shape(r) /\ Books(r) /\ r.piquePot \in Nat BY DEF Ready, Shape, Counts
<1>2. DealAgain(r) = EnterPique(noted) BY Zenon DEF DealAgain
<1>3. voy # {} => w \in Seat
  <2>1. voy \in SUBSET Seat BY <1>1, OrderInSeat DEF InPique
  <2> HIDE DEF voy
  <2> QED BY <2>1, MinInSet
<1> HIDE DEF voy, w
<1>4. Pays(r, free) /\ free.piquePot = 0
  <2>1. CASE voy # {} /\ r.piquePot > 0 BY <1>1, <1>3, <2>1, PotIsPaid
  <2>2. CASE ~(voy # {} /\ r.piquePot > 0)
    <3>1. free = [r EXCEPT !.piquePot = 0] BY <2>2
    <3> HIDE DEF free
    <3>2. /\ SameBut(MoneyFields \cup {"piquePot"}, r, free) /\ free.piquePot = 0
          /\ \A f \in PiqueFields \ {"piquePot"} : free[f] = r[f]
      BY <1>1, <3>1 DEF SameBut, MoneyFields, Shape, PiqueFields, Fields
    <3>3. Shape(free)
      BY <1>1, <3>2 DEF Shape, SameBut, PiqueFields, Fields, Seats, Switches, Counts
    <3>4. free.chips = r.chips /\ free.balance = r.balance /\ free.skewed = r.skewed
          /\ free.debit = r.debit /\ free.players = r.players
      BY <3>2 DEF PiqueFields, Fields
    <3>5. Books(free) BY <1>1, <3>4 DEF Books
    <3>6. SumFunctionOnSet(r.chips, Seat) \in Int BY <1>1, ChipsAreInt
    <3>7. ChipsOf(free) <= ChipsOf(r) BY <1>1, <3>2, <3>4, <3>6 DEF ChipsOf
    <3>8. \A s \in Seat : free.chips[s] >= r.chips[s] BY <1>1, <3>4 DEF Shape
    <3> QED BY <3>2, <3>3, <3>5, <3>7, <3>8 DEF Pays
  <2> QED BY <2>1, <2>2
<1> HIDE DEF free
<1>5. Pays(r, charged)
  <2>1. Shape(free) /\ Books(free) BY <1>4 DEF Pays
  <2>2. voy # {} => Pays(free, CollectBanda(free, w)) BY <1>3, <2>1, CollectBandaPays
  <2> QED BY <1>1, <1>4, <2>2, PaysTwice
<1> HIDE DEF charged
<1>6. Moved(charged, rotated)
  <2>1. Shape(charged) BY <1>5 DEF Pays
  <2>2. Moved(charged, again) BY <2>1, RotatedMoves
  <2> HIDE DEF again
  <2>3. Moved(again, NextDealer(again)) BY <2>2, NextDealerMoves DEF Moved
  <2>4. Moved(charged, NextDealer(again)) BY <2>2, <2>3, MovedTwice
  <2> QED BY <2>1, <2>4, MovedSame
<1> HIDE DEF rotated
<1>7. Shape(rotated) /\ Books(rotated) /\ ChipsOf(rotated) = ChipsOf(charged)
      /\ rotated.chips = charged.chips
  BY <1>5, <1>6, MovedIsIdle, Unaffected DEF Pays
<1>8. Pays(rotated, noted) BY <1>7, RecordEventPays
<1> HIDE DEF noted
<1>9. /\ noted.players = r.players /\ noted.waiting = r.waiting /\ noted.turn = r.turn
      /\ noted.preBet = r.preBet /\ noted.dealing = r.dealing
      /\ noted.completing = r.completing /\ noted.cleanups = r.cleanups
  <2>1. /\ rotated.players = charged.players /\ rotated.waiting = charged.waiting
        /\ rotated.turn = charged.turn /\ rotated.preBet = charged.preBet
        /\ rotated.dealing = charged.dealing /\ rotated.completing = charged.completing
        /\ rotated.cleanups = charged.cleanups
    BY <1>6 DEF Moved, SameBut, PiqueFields, Fields
  <2>2. /\ charged.players = r.players /\ charged.waiting = r.waiting /\ charged.turn = r.turn
        /\ charged.preBet = r.preBet /\ charged.dealing = r.dealing
        /\ charged.completing = r.completing /\ charged.cleanups = r.cleanups
    BY <1>5, PaysFields
  <2>3. /\ noted.players = rotated.players /\ noted.waiting = rotated.waiting
        /\ noted.turn = rotated.turn /\ noted.preBet = rotated.preBet
        /\ noted.dealing = rotated.dealing /\ noted.completing = rotated.completing
        /\ noted.cleanups = rotated.cleanups
    BY <1>8, PaysFields
  <2> QED BY <2>1, <2>2, <2>3
<1>10. Shape(noted) /\ Books(noted) BY <1>8 DEF Pays
<1>11. Order(noted) BY <1>9 DEF Ready, Order, SeatOrder
<1>12. Chains(noted) = 0 /\ noted.players \cap Newcomers \subseteq noted.waiting
  BY <1>9 DEF Ready, Chains
<1>13. Sound(EnterPique(noted), NoCall) /\ EnterPique(noted).chips = noted.chips
       /\ ChipsOf(EnterPique(noted)) = ChipsOf(noted)
  BY <1>10, <1>11, <1>12, EnterPiqueSound
<1>14. ChipsOf(noted) <= ChipsOf(r)
  <2>1. ChipsOf(noted) \in Int /\ ChipsOf(r) \in Int /\ ChipsOf(charged) \in Int
    BY <1>1, <1>5, <1>10, ChipsAreInt DEF Pays
  <2>2. ChipsOf(noted) <= ChipsOf(charged) /\ ChipsOf(charged) <= ChipsOf(r)
    BY <1>5, <1>7, <1>8 DEF Pays
  <2> QED BY <2>1, <2>2
<1>15. ASSUME NEW s \in Seat, s \notin r.passers \cap r.players
       PROVE  noted.chips[s] >= r.chips[s]
  <2>1. charged.chips[s] >= r.chips[s] BY <1>5, <1>15 DEF Pays
  <2>2. rotated.passers = r.passers /\ rotated.players = r.players
    <3>1. rotated.passers = charged.passers /\ rotated.players = charged.players
      BY <1>6 DEF Moved, SameBut, PiqueFields, Fields
    <3> QED BY <1>5, <3>1, PaysFields
  <2>3. noted.chips[s] >= charged.chips[s] BY <1>7, <1>8, <1>15, <2>2 DEF Pays
  <2>4. noted.chips[s] \in Nat /\ charged.chips[s] \in Nat /\ r.chips[s] \in Nat
    BY <1>1, <1>5, <1>10 DEF Shape, Pays
  <2> QED BY <2>1, <2>3, <2>4
<1> QED BY <1>2, <1>13, <1>14, <1>15

LEMMA RestartPiqueEnds ==
    ASSUME NEW r, Ready(r)
    PROVE  LET q == RestartPique(r)
           IN  Sound(q, NoCall) /\ ChipsOf(q) <= ChipsOf(r)
               /\ \A s \in Seat \ (r.passers \cap r.players) : q.chips[s] >= r.chips[s]
<1> DEFINE again == [r EXCEPT !.restarts = @ + 1]
<1>1. Shape(r) BY DEF Ready
<1>2. SameBut({"restarts"}, r, again) /\ Shape(again)
  <2>1. /\ DOMAIN again = PiqueFields /\ \A f \in PiqueFields \ {"restarts"} : again[f] = r[f]
        /\ again.restarts = r.restarts + 1 /\ r.restarts \in Nat
    BY <1>1 DEF Shape, PiqueFields, Fields, Counts
  <2> HIDE DEF again
  <2> QED BY <1>1, <2>1 DEF SameBut, Shape, PiqueFields, Fields, Seats, Switches, Counts
<1>3. RestartPique(r) = AbortPique(again) \/ RestartPique(r) = DealAgain(again)
  BY Zenon DEF RestartPique
<1> HIDE DEF again
<1>4. SameBut(Idle, r, again) BY <1>2 DEF SameBut, Idle
<1>5. Ready(again) /\ ChipsOf(again) = ChipsOf(r) BY <1>2, <1>4, Unaffected
<1>6. again.chips = r.chips /\ again.passers = r.passers /\ again.players = r.players
  BY <1>2 DEF SameBut, PiqueFields, Fields
<1>7. LET q == AbortPique(again)
      IN  Sound(q, NoCall) /\ ChipsOf(q) <= ChipsOf(r)
          /\ \A s \in Seat \ (r.passers \cap r.players) : q.chips[s] >= r.chips[s]
  BY <1>5, <1>6, AbortPiqueEnds
<1>8. LET q == DealAgain(again)
      IN  Sound(q, NoCall) /\ ChipsOf(q) <= ChipsOf(r)
          /\ \A s \in Seat \ (r.passers \cap r.players) : q.chips[s] >= r.chips[s]
  BY <1>5, <1>6, DealAgainEnds
<1> QED BY <1>3, <1>7, <1>8

-----------------------------------------------------------------------------
(* The turn.                                                               *)

(* The record keeps its shape when the fields that change have theirs.     *)
LEMMA ShapeFrom ==
    ASSUME NEW r, NEW q, NEW F, Shape(r), SameBut(F, r, q),
           F \cap {"balance", "mainBet", "debit"} = {},
           "phase" \in F => q.phase \in PiquePhases,
           "turn" \in F => q.turn \in Seat \cup {NoSeat},
           "mano" \in F => q.mano \in Seat \cup {NoSeat},
           "dealer" \in F => q.dealer \in Seat,
           \A g \in Seats \cap F : q[g] \subseteq Seat,
           \A b \in Switches \cap F : q[b] \in BOOLEAN,
           \A n \in Counts \cap F : q[n] \in Nat,
           \A m \in {"chips", "paid", "passes"} \cap F : q[m] \in [Seat -> Nat]
    PROVE  Shape(q)
<1>1. \A f \in PiqueFields \ F : q[f] = r[f] BY DEF SameBut
<1>2. Seats \subseteq PiqueFields /\ Switches \subseteq PiqueFields /\ Counts \subseteq PiqueFields
  BY DEF Seats, Switches, Counts, PiqueFields, Fields
<1>3. {"chips", "paid", "passes", "phase", "turn", "mano", "dealer", "balance", "mainBet",
       "debit"} \subseteq PiqueFields
  BY DEF PiqueFields, Fields
<1>4. \A g \in Seats : q[g] \subseteq Seat BY <1>1, <1>2, Zenon DEF Shape
<1>5. \A b \in Switches : q[b] \in BOOLEAN BY <1>1, <1>2, Zenon DEF Shape
<1>6. \A n \in Counts : q[n] \in Nat BY <1>1, <1>2, Zenon DEF Shape
<1>7. \A m \in {"chips", "paid", "passes"} : q[m] \in [Seat -> Nat]
  <2> SUFFICES ASSUME NEW m \in {"chips", "paid", "passes"} PROVE q[m] \in [Seat -> Nat]
    OBVIOUS
  <2>1. m \in PiqueFields BY <1>3
  <2>2. m \notin F => q[m] = r[m] BY <1>1, <2>1
  <2>3. r[m] \in [Seat -> Nat] BY Zenon DEF Shape
  <2> QED BY <2>2, <2>3
<1>8. /\ q.balance = r.balance /\ q.mainBet = r.mainBet /\ q.debit = r.debit
      /\ ("phase" \notin F => q.phase = r.phase) /\ ("turn" \notin F => q.turn = r.turn)
      /\ ("mano" \notin F => q.mano = r.mano) /\ ("dealer" \notin F => q.dealer = r.dealer)
  BY <1>1, <1>3
<1>9. DOMAIN q = PiqueFields BY DEF SameBut
<1>10. /\ q.phase \in PiquePhases /\ q.turn \in Seat \cup {NoSeat}
       /\ q.mano \in Seat \cup {NoSeat} /\ q.dealer \in Seat
  BY <1>8 DEF Shape
<1>11. /\ q.balance \in [Seat -> Int] /\ q.mainBet \in [Seat -> {0}]
       /\ q.debit \in [seat : Seat \cup {NoSeat}, amount : Nat]
       /\ (q.debit = NoCall \/ q.debit.seat \in Seat)
  BY <1>8 DEF Shape
<1> QED BY <1>4, <1>5, <1>6, <1>7, <1>9, <1>10, <1>11, Zenon DEF Shape

LEMMA GiveTurnFrame ==
    ASSUME NEW r, Shape(r), NEW s \in Seat
    PROVE  LET q == GiveTurn(r, s)
           IN  SameBut({"turn", "turnTimer"}, r, q) /\ q.turn = s /\ Shape(q)
<1> DEFINE q == GiveTurn(r, s)
<1>1. /\ SameBut({"turn", "turnTimer"}, r, q) /\ q.turn = s
      /\ q.turnTimer = (s \in r.players \cap r.connected)
  BY DEF GiveTurn, SameBut, Shape, PiqueFields, Fields
<1> HIDE DEF q
<1>2. q.turnTimer \in BOOLEAN BY <1>1
<1>3. Shape(q) BY <1>1, <1>2, ShapeFrom DEF Seats, Switches, Counts
<1> QED BY <1>1, <1>3 DEF q

(* The turn is given to somebody who is in and has not acted.              *)
LEMMA GiveTurnEnds ==
    ASSUME NEW r, Ready(r), r.phase \in {"PIQUE", "LOBBY"}, Round(r, NoCall),
           NEW s \in SeatOrder(r), s \notin r.folded \cup r.acted
    PROVE  LET q == GiveTurn(r, s)
           IN  Sound(q, NoCall) /\ ChipsOf(q) = ChipsOf(r) /\ q.chips = r.chips
<1> DEFINE q == GiveTurn(r, s)
<1>1. Shape(r) /\ s \in Seat BY OrderInSeat DEF Ready
<1>2. SameBut({"turn", "turnTimer"}, r, q) /\ q.turn = s /\ Shape(q) BY <1>1, GiveTurnFrame
<1> HIDE DEF q
<1>3. /\ q.players = r.players /\ q.connected = r.connected /\ q.waiting = r.waiting
      /\ q.folded = r.folded /\ q.acted = r.acted /\ q.passers = r.passers
      /\ q.preBet = r.preBet /\ q.paid = r.paid /\ q.phase = r.phase
      /\ q.chips = r.chips /\ q.balance = r.balance /\ q.skewed = r.skewed
      /\ q.debit = r.debit /\ q.dealing = r.dealing /\ q.completing = r.completing
      /\ q.cleanups = r.cleanups /\ q.reopened = r.reopened /\ q.skipped = r.skipped
      /\ q.piquePot = r.piquePot
  BY <1>2 DEF SameBut, PiqueFields, Fields
<1>4. SeatOrder(q) = SeatOrder(r) /\ Chains(q) = Chains(r) /\ ChipsOf(q) = ChipsOf(r)
      /\ InRound(q) = InRound(r)
  BY <1>3 DEF SeatOrder, Chains, ChipsOf, InRound
<1>5. Books(q) /\ Order(q) /\ Price(q)
  BY <1>2, <1>3, <1>4 DEF Ready, Books, Order, Price
<1>6. Round(q, NoCall) BY <1>3, <1>4 DEF Round
<1>7. Turn(q, NoCall) BY <1>2, <1>3 DEF Turn
<1>8. Calls(q, NoCall) /\ Bettors(q) BY <1>3 DEF Calls, Bettors
<1>9. Serial(q, NoCall) /\ Waits(q, NoCall) BY <1>3, <1>4 DEF Ready, Serial, Waits
<1> QED BY <1>2, <1>3, <1>4, <1>5, <1>6, <1>7, <1>8, <1>9 DEF Sound, q

(* Those who passed before there was a price are asked again.              *)
LEMMA ReopenEnds ==
    ASSUME NEW r, Speaks(r, NoCall), ~r.reopened
    PROVE  Ends(r, ReopenPiqueForPassers(r))
<1> DEFINE asked == r.preBet \cap SeatOrder(r) \cap r.connected
           open == [r EXCEPT !.reopened = TRUE, !.preBet = {}]
           out == [open EXCEPT !.passers = @ \cup r.preBet]
           in == [open EXCEPT !.passers = @ \ r.preBet, !.folded = @ \ asked, !.acted = @ \ asked]
<1>1. /\ Ready(r) /\ Shape(r) /\ Order(r) /\ Price(r) /\ Chains(r) = 0
      /\ r.phase \in {"PIQUE", "LOBBY"} /\ Round(r, NoCall)
  BY DEF Speaks, Ready, Round, InRound
<1>2. ReopenPiqueForPassers(r) = IF asked = {} THEN RestartPique(out) ELSE GiveTurn(in, Min(asked))
  BY Zenon DEF ReopenPiqueForPassers
<1>3. asked \subseteq r.preBet /\ asked \subseteq SeatOrder(r) OBVIOUS
<1>4. asked = {} => \A s \in r.preBet \cap r.connected : s \notin r.players
  BY <1>1 DEF Order, SeatOrder
<1>5. r.preBet \subseteq Seat /\ r.passers \subseteq Seat /\ r.folded \subseteq Seat
      /\ r.acted \subseteq Seat /\ SeatOrder(r) \subseteq Seat
  BY <1>1, OrderInSeat DEF Shape, Seats
<1> HIDE DEF asked
<1>6. /\ SameBut({"reopened", "preBet", "passers"}, r, out) /\ out.reopened = TRUE
      /\ out.preBet = {} /\ out.passers = r.passers \cup r.preBet
      /\ SameBut({"reopened", "preBet", "passers", "folded", "acted"}, r, in)
      /\ in.reopened = TRUE /\ in.preBet = {} /\ in.passers = r.passers \ r.preBet
      /\ in.folded = r.folded \ asked /\ in.acted = r.acted \ asked
  BY <1>1 DEF SameBut, Shape, PiqueFields, Fields
<1> HIDE DEF open, out, in
<1>7. ASSUME NEW p \in {out, in}
      PROVE  /\ Ready(p) /\ p.chips = r.chips /\ p.players = r.players
             /\ p.phase = r.phase /\ p.paid = r.paid
             /\ SeatOrder(p) = SeatOrder(r) /\ ChipsOf(p) = ChipsOf(r)
  <2>1. /\ SameBut({"reopened", "preBet", "passers", "folded", "acted"}, r, p)
        /\ p.reopened = TRUE /\ p.preBet = {} /\ p.passers \subseteq r.passers \cup r.preBet
        /\ p.folded \subseteq r.folded /\ p.acted \subseteq r.acted
    <3>1. out.folded = r.folded /\ out.acted = r.acted BY <1>6 DEF SameBut, PiqueFields, Fields
    <3> QED BY <1>6, <3>1 DEF SameBut
  <2>2. /\ p.players = r.players /\ p.waiting = r.waiting /\ p.paid = r.paid
        /\ p.phase = r.phase /\ p.chips = r.chips /\ p.balance = r.balance
        /\ p.skewed = r.skewed /\ p.turn = r.turn
        /\ p.debit = r.debit /\ p.dealing = r.dealing /\ p.completing = r.completing
        /\ p.cleanups = r.cleanups /\ p.piquePot = r.piquePot
    BY <2>1 DEF SameBut, PiqueFields, Fields
  <2>3. Shape(p)
    <3>1. /\ p.preBet \subseteq Seat /\ p.passers \subseteq Seat /\ p.folded \subseteq Seat
          /\ p.acted \subseteq Seat /\ p.reopened \in BOOLEAN
      BY <1>5, <2>1
    <3> QED BY <1>1, <2>1, <3>1, ShapeFrom DEF Seats, Switches, Counts
  <2>4. SeatOrder(p) = SeatOrder(r) /\ ChipsOf(p) = ChipsOf(r) /\ Chains(p) = Chains(r)
    BY <2>2 DEF SeatOrder, ChipsOf, Chains
  <2>5. r.dealing = 0 BY <1>1, NoChains
  <2>6. Books(p) /\ Order(p) BY <1>1, <2>1, <2>2, <2>4 DEF Ready, Books, Order
  <2>7. Price(p) BY <1>1, <2>1, <2>2, <2>5 DEF Price
  <2> QED BY <1>1, <2>2, <2>3, <2>4, <2>6, <2>7 DEF Ready
<1>8. CASE asked = {}
  <2> DEFINE q == RestartPique(out)
  <2>1. /\ Sound(q, NoCall) /\ ChipsOf(q) <= ChipsOf(out)
        /\ \A s \in Seat \ (out.passers \cap out.players) : q.chips[s] >= out.chips[s]
    BY <1>7, RestartPiqueEnds
  <2> HIDE DEF q
  <2>2. \A s \in r.preBet \cap r.connected : q.chips[s] >= r.chips[s]
    BY <1>4, <1>5, <1>7, <1>8, <2>1
  <2>3. ChipsOf(q) <= ChipsOf(r) BY <1>7, <2>1
  <2> QED BY <1>2, <1>8, <2>1, <2>2, <2>3 DEF Ends, Step, q
<1>9. CASE asked # {}
  <2> DEFINE q == GiveTurn(in, Min(asked))
  <2>1. Min(asked) \in asked BY <1>3, <1>5, <1>9, MinInSet
  <2>2. Min(asked) \in SeatOrder(in) /\ Min(asked) \notin in.folded \cup in.acted
    BY <1>3, <1>6, <1>7, <2>1
  <2>3. Round(in, NoCall)
    <3> SUFFICES ASSUME InRound(in)
                 PROVE  /\ in.passers \cup in.preBet \subseteq in.folded
                        /\ \A s \in Seat \ in.acted : in.paid[s] = 0
                        /\ \A s \in (SeatOrder(in) \cap in.acted) \ in.folded :
                             s # NoCall.seat => in.paid[s] > 0
      BY DEF Round
    <3>1. InRound(r) BY <1>7 DEF InRound
    <3>2. in.passers \cup in.preBet \subseteq in.folded BY <1>1, <1>3, <1>6, <3>1 DEF Round
    <3>3. \A s \in Seat \ in.acted : in.paid[s] = 0
      BY <1>1, <1>3, <1>6, <1>7, <3>1 DEF Round, Price
    <3>4. \A s \in (SeatOrder(in) \cap in.acted) \ in.folded : s # NoCall.seat => in.paid[s] > 0
      BY <1>1, <1>3, <1>6, <1>7, <3>1 DEF Round
    <3> QED BY <3>2, <3>3, <3>4
  <2>4. /\ Sound(q, NoCall) /\ ChipsOf(q) = ChipsOf(in) /\ q.chips = in.chips
    BY <1>1, <1>7, <2>2, <2>3, GiveTurnEnds
  <2> HIDE DEF q
  <2>5. ChipsOf(q) = ChipsOf(r) /\ q.chips = r.chips /\ ChipsOf(r) \in Int
    BY <1>1, <1>7, <2>4, ChipsAreInt
  <2>6. \A s \in r.preBet \cap r.connected : q.chips[s] >= r.chips[s]
    BY <1>1, <1>5, <2>5 DEF Shape
  <2> QED BY <1>2, <1>9, <2>4, <2>5, <2>6 DEF Ends, Step, q
<1> QED BY <1>8, <1>9

LEMMA TooFewWentEnds ==
    ASSUME NEW r, Speaks(r, NoCall) PROVE Ends(r, TooFewWent(r))
<1>1. CASE ~r.reopened /\ r.preBet # {} BY <1>1, ReopenEnds DEF TooFewWent
<1>2. CASE ~(~r.reopened /\ r.preBet # {})
  <2>1. Ready(r) /\ r.preBet = {} BY <1>2 DEF Speaks, Ready, Price, Shape, Switches
  <2>2. Sound(RestartPique(r), NoCall) /\ ChipsOf(RestartPique(r)) <= ChipsOf(r)
    BY <2>1, RestartPiqueEnds
  <2> QED BY <1>2, <2>1, <2>2 DEF TooFewWent, Ends, Step
<1> QED BY <1>1, <1>2

-----------------------------------------------------------------------------
(* The round gives way to the two other cards, and the pique is over.      *)

Keeps(r, q) == Sound(q, NoCall) /\ ChipsOf(q) <= ChipsOf(r) /\ q.chips = r.chips

LEMMA KeepsEnds == ASSUME NEW r, NEW q, Shape(r), Keeps(r, q) PROVE Ends(r, q)
<1>1. \A s \in r.preBet \cap r.connected : r.chips[s] \in Nat BY DEF Shape, Seats
<1> QED BY <1>1 DEF Keeps, Ends, Step

LEMMA AfterPiqueResolutionKeeps ==
    ASSUME NEW r, Ready(r), ~InRound(r), Bettors(r)
    PROVE  Keeps(r, AfterPiqueResolution(r))
<1>1. /\ Shape(r) /\ Books(r) /\ Order(r) /\ Price(r) /\ Chains(r) = 0
      /\ r.players \cap Newcomers \subseteq r.waiting
  BY DEF Ready
<1>2. r.dealing = 0 /\ r.completing = 0 /\ r.cleanups = 0 BY <1>1, NoChains
<1>3. ChipsOf(r) \in Int /\ SumFunctionOnSet(r.chips, Seat) \in Int /\ r.piquePot \in Nat
  BY <1>1, ChipsAreInt
<1>4. CASE Active(r) = {}
  <2> DEFINE q == [PromoteWaitingPlayers(r) EXCEPT !.pot = 0, !.piquePot = 0, !.phase = "LOBBY"]
  <2>1. /\ SameBut({"waiting", "pot", "piquePot", "phase"}, r, q) /\ q.waiting = {}
        /\ q.piquePot = 0 /\ q.phase = "LOBBY"
    BY <1>1 DEF PromoteWaitingPlayers, SameBut, Shape, PiqueFields, Fields
  <2> HIDE DEF q
  <2>2. /\ q.players = r.players /\ q.preBet = r.preBet /\ q.passers = r.passers
        /\ q.paid = r.paid /\ q.reopened = r.reopened /\ q.dealing = r.dealing
        /\ q.completing = r.completing /\ q.cleanups = r.cleanups /\ q.turn = r.turn
        /\ q.chips = r.chips /\ q.balance = r.balance /\ q.skewed = r.skewed
        /\ q.debit = r.debit
    BY <2>1 DEF SameBut, PiqueFields, Fields
  <2>3. Shape(q) BY <1>1, <2>1, ShapeFrom DEF Seats, Switches, Counts, PiquePhases
  <2>4. Books(q) /\ Order(q) /\ Price(q) /\ Chains(q) = 0
    <3>1. SeatOrder(r) \subseteq SeatOrder(q) BY <2>1, <2>2 DEF SeatOrder
    <3>2. Order(q) BY <1>1, <2>1, <2>2, <3>1 DEF Order
    <3> QED BY <1>1, <1>2, <2>2, <3>2 DEF Books, Price, Chains
  <2>5. Sound(q, NoCall) BY <2>1, <2>3, <2>4, InTheLobby
  <2>6. ChipsOf(q) <= ChipsOf(r) BY <1>3, <2>1, <2>2 DEF ChipsOf
  <2> QED BY <1>4, <2>2, <2>5, <2>6 DEF AfterPiqueResolution, Keeps, q
<1>5. CASE Active(r) # {} /\ Cardinality(Active(r)) = 1
  <2> DEFINE q == ScheduleCleanup(r)
  <2>1. SameBut({"cleanups"}, r, q) /\ q.cleanups = 1
    BY <1>1, <1>2 DEF ScheduleCleanup, SameBut, Shape, PiqueFields, Fields
  <2> HIDE DEF q
  <2>2. /\ q.players = r.players /\ q.preBet = r.preBet /\ q.passers = r.passers
        /\ q.paid = r.paid /\ q.reopened = r.reopened /\ q.dealing = r.dealing
        /\ q.completing = r.completing /\ q.turn = r.turn
        /\ q.chips = r.chips /\ q.balance = r.balance /\ q.skewed = r.skewed
        /\ q.debit = r.debit /\ q.waiting = r.waiting /\ q.phase = r.phase
        /\ q.skipped = r.skipped /\ q.folded = r.folded /\ q.piquePot = r.piquePot
    BY <2>1 DEF SameBut, PiqueFields, Fields
  <2>3. Shape(q) BY <1>1, <2>1, ShapeFrom DEF Seats, Switches, Counts
  <2>4. SeatOrder(q) = SeatOrder(r) /\ ~InRound(q) /\ ChipsOf(q) = ChipsOf(r)
    BY <2>2 DEF SeatOrder, InRound, ChipsOf
  <2>5. Books(q) /\ Order(q) /\ Price(q) /\ Bettors(q)
    BY <1>1, <2>2, <2>4 DEF Books, Order, Price, Bettors
  <2>6. Round(q, NoCall) /\ Turn(q, NoCall) /\ Calls(q, NoCall)
    BY <2>4 DEF Round, Turn, Calls, InRound
  <2>7. Serial(q, NoCall) /\ Waits(q, NoCall)
    BY <1>1, <1>2, <2>1, <2>2, <2>4 DEF Serial, Waits, Chains
  <2> QED BY <1>3, <1>5, <2>2, <2>3, <2>4, <2>5, <2>6, <2>7
          DEF AfterPiqueResolution, Keeps, Sound, q
<1>6. CASE Active(r) # {} /\ Cardinality(Active(r)) # 1
  <2> DEFINE q == [r EXCEPT !.phase = "APUESTA_4_CARTAS"]
  <2>1. SameBut({"phase"}, r, q) /\ q.phase = "APUESTA_4_CARTAS"
    BY <1>1 DEF SameBut, Shape, PiqueFields, Fields
  <2> HIDE DEF q
  <2>2. /\ q.players = r.players /\ q.preBet = r.preBet /\ q.passers = r.passers
        /\ q.paid = r.paid /\ q.reopened = r.reopened /\ q.dealing = r.dealing
        /\ q.completing = r.completing /\ q.turn = r.turn /\ q.cleanups = r.cleanups
        /\ q.chips = r.chips /\ q.balance = r.balance /\ q.skewed = r.skewed
        /\ q.debit = r.debit /\ q.waiting = r.waiting /\ q.piquePot = r.piquePot
    BY <2>1 DEF SameBut, PiqueFields, Fields
  <2>3. Shape(q) BY <1>1, <2>1, ShapeFrom DEF Seats, Switches, Counts, PiquePhases
  <2>4. SeatOrder(q) = SeatOrder(r) /\ ~InRound(q) /\ ChipsOf(q) = ChipsOf(r) /\ Chains(q) = 0
    BY <1>1, <2>1, <2>2 DEF SeatOrder, InRound, ChipsOf, Chains
  <2>5. Books(q) /\ Order(q) /\ Price(q) /\ Bettors(q)
    BY <1>1, <2>1, <2>2, <2>4 DEF Books, Order, Price, Bettors
  <2>6. Round(q, NoCall) /\ Turn(q, NoCall) /\ Calls(q, NoCall)
    BY <2>1, <2>4 DEF Round, Turn, Calls
  <2>7. Serial(q, NoCall) /\ Waits(q, NoCall) BY <2>4 DEF Serial, Waits, Live
  <2> QED BY <1>3, <1>6, <2>2, <2>3, <2>4, <2>5, <2>6, <2>7
          DEF AfterPiqueResolution, Keeps, Sound, q
<1> QED BY <1>4, <1>5, <1>6

LEMMA CompletarManoKeeps ==
    ASSUME NEW r, Ready(r), r.skipped \/ \A s \in SeatOrder(r) \ r.folded : r.paid[s] > 0
    PROVE  Keeps(r, CompletarMano(r))
<1> DEFINE quiet == [ClearTurnTimer(r) EXCEPT !.phase = "COMPLETAR"]
           q == [quiet EXCEPT !.completing = @ + 1]
<1>1. Shape(r) /\ Books(r) /\ Order(r) /\ Price(r) /\ Chains(r) = 0 BY DEF Ready
<1>2. SameBut({"turnTimer", "phase"}, r, quiet) /\ quiet.turnTimer = FALSE
      /\ quiet.phase = "COMPLETAR"
  BY <1>1 DEF ClearTurnTimer, SameBut, Shape, PiqueFields, Fields
<1>3. CompletarMano(r) = IF SeatOrder(r) \cap Active(r) = {} THEN AfterPiqueResolution(quiet) ELSE q
  BY Zenon DEF CompletarMano
<1>4. SameBut({"completing"}, quiet, q) /\ q.completing = quiet.completing + 1
  <2> HIDE DEF quiet
  <2> QED BY <1>2 DEF SameBut, PiqueFields, Fields
<1> HIDE DEF quiet, q
<1>5. /\ quiet.players = r.players /\ quiet.preBet = r.preBet /\ quiet.passers = r.passers
      /\ quiet.paid = r.paid /\ quiet.reopened = r.reopened /\ quiet.dealing = r.dealing
      /\ quiet.completing = r.completing /\ quiet.turn = r.turn /\ quiet.cleanups = r.cleanups
      /\ quiet.chips = r.chips /\ quiet.balance = r.balance /\ quiet.skewed = r.skewed
      /\ quiet.debit = r.debit /\ quiet.waiting = r.waiting /\ quiet.piquePot = r.piquePot
      /\ quiet.skipped = r.skipped /\ quiet.folded = r.folded
  BY <1>2 DEF SameBut, PiqueFields, Fields
<1>6. Shape(quiet) BY <1>1, <1>2, ShapeFrom DEF Seats, Switches, Counts, PiquePhases
<1>7. /\ SeatOrder(quiet) = SeatOrder(r) /\ ~InRound(quiet) /\ ChipsOf(quiet) = ChipsOf(r)
      /\ Chains(quiet) = 0
  BY <1>1, <1>2, <1>5 DEF SeatOrder, InRound, ChipsOf, Chains
<1>8. Books(quiet) /\ Order(quiet) /\ Price(quiet) /\ Bettors(quiet)
  BY <1>1, <1>2, <1>5, <1>7 DEF Books, Order, Price, Bettors
<1>9. Ready(quiet) BY <1>5, <1>6, <1>7, <1>8 DEF Ready
<1>10. Keeps(r, AfterPiqueResolution(quiet))
  BY <1>5, <1>7, <1>8, <1>9, AfterPiqueResolutionKeeps DEF Keeps
<1>11. quiet.dealing = 0 /\ quiet.completing = 0 /\ quiet.cleanups = 0 BY <1>6, <1>7, NoChains
<1>12. /\ q.players = quiet.players /\ q.preBet = quiet.preBet /\ q.passers = quiet.passers
       /\ q.paid = quiet.paid /\ q.reopened = quiet.reopened /\ q.dealing = quiet.dealing
       /\ q.turn = quiet.turn /\ q.cleanups = quiet.cleanups /\ q.phase = quiet.phase
       /\ q.chips = quiet.chips /\ q.balance = quiet.balance /\ q.skewed = quiet.skewed
       /\ q.debit = quiet.debit /\ q.waiting = quiet.waiting /\ q.piquePot = quiet.piquePot
       /\ q.skipped = quiet.skipped /\ q.folded = quiet.folded /\ q.completing = 1
  BY <1>4, <1>11 DEF SameBut, PiqueFields, Fields
<1>13. Shape(q)
  <2>1. q.completing \in Nat BY <1>12
  <2> QED BY <1>4, <1>6, <2>1, ShapeFrom DEF Seats, Switches, Counts
<1>14. /\ SeatOrder(q) = SeatOrder(quiet) /\ ~InRound(q) /\ ChipsOf(q) = ChipsOf(quiet)
       /\ Chains(q) = 1
  BY <1>7, <1>11, <1>12 DEF SeatOrder, InRound, ChipsOf, Chains
<1>15. Books(q) /\ Order(q) /\ Price(q) /\ Bettors(q)
  BY <1>8, <1>12, <1>14 DEF Books, Order, Price, Bettors
<1>16. Round(q, NoCall) /\ Turn(q, NoCall) /\ Calls(q, NoCall)
  BY <1>2, <1>12, <1>14 DEF Round, Turn, Calls
<1>17. Serial(q, NoCall) /\ Waits(q, NoCall)
  BY <1>9, <1>12, <1>14 DEF Serial, Waits, Ready
<1>18. ChipsOf(r) \in Int BY <1>1, ChipsAreInt
<1>19. Keeps(r, q)
  BY <1>5, <1>7, <1>12, <1>13, <1>14, <1>15, <1>16, <1>17, <1>18 DEF Keeps, Sound
<1> QED BY <1>3, <1>10, <1>19

(* The turn goes on, or the round is over.                                 *)
LEMMA AdvanceTurnPhase2Ends ==
    ASSUME NEW r, Speaks(r, NoCall), NEW from \in Seat \cup {NoSeat},
           r.phase = "PIQUE" \/ from = NoSeat
    PROVE  Ends(r, AdvanceTurnPhase2(r, from))
<1> DEFINE asked == IF from # NoSeat THEN from ELSE r.turn
           start == IF asked \notin SeatOrder(r) /\ from # NoSeat THEN r.mano ELSE asked
           Way(s) == IF from # NoSeat THEN StepsFrom(start, s) ELSE StepsAfter(start, s)
           idle  == SeatOrder(r) \ (r.folded \cup r.acted)
           toAct == idle \cap r.connected
           away  == {s \in idle \ r.connected : \A t \in toAct : Way(s) < Way(t)}
           next  == CHOOSE s \in toAct : \A t \in toAct : Way(s) <= Way(t)
           moved == [r EXCEPT !.folded = @ \cup away, !.acted = @ \cup away,
                              !.passers = @ \cup away]
           skip == [r EXCEPT !.skipped = TRUE]
           done == [moved EXCEPT !.reopened = FALSE, !.preBet = {}]
<1>1. Ready(r) /\ Shape(r) /\ Order(r) /\ Price(r) /\ Chains(r) = 0 /\ Books(r)
  BY DEF Speaks, Ready
<1>2. AdvanceTurnPhase2(r, from) =
        IF Cardinality(InPique(r)) < 2 /\ InPique(r) \subseteq r.acted THEN TooFewWent(r)
        ELSE IF start \notin SeatOrder(r) THEN CompletarMano(skip)
        ELSE IF toAct # {} THEN GiveTurn(moved, next)
        ELSE IF Cardinality(InPique(moved)) < 2 THEN TooFewWent(moved)
        ELSE CompletarMano(done)
  BY Zenon DEF AdvanceTurnPhase2
<1>3. SeatOrder(r) \subseteq Seat /\ NoSeat \notin Seat BY <1>1, OrderInSeat DEF Seat, NoSeat
<1>4. start \in SeatOrder(r) => r.phase = "PIQUE" /\ Round(r, NoCall)
  BY <1>3 DEF Speaks
<1>5. start \in SeatOrder(r) /\ toAct # {} => next \in toAct
  <2> SUFFICES ASSUME start \in SeatOrder(r), toAct # {} PROVE next \in toAct OBVIOUS
  <2> DEFINE T == {Way(s) : s \in toAct}
  <2>1. start \in Seat \cup {NoSeat} /\ toAct \subseteq Seat BY <1>3
  <2> HIDE DEF start, toAct
  <2>2. T \subseteq Nat /\ T # {} BY <2>1, DistancesAreNat
  <2>3. \E m \in T : \A n \in T : m <= n
    <3> HIDE DEF T
    <3> QED BY <2>2, LeastExists
  <2>4. \E s \in toAct : \A t \in toAct : Way(s) <= Way(t) BY <2>3
  <2> HIDE DEF Way
  <2> QED BY <2>4
<1>6. /\ away \subseteq idle /\ away \cap toAct = {} /\ toAct \subseteq idle
      /\ (toAct = {} => away = idle)
  OBVIOUS
<1>7. idle \subseteq SeatOrder(r) /\ idle \cap (r.folded \cup r.acted) = {}
      /\ SeatOrder(r) \ (r.folded \cup r.acted) \subseteq idle
  OBVIOUS
<1> HIDE DEF start, Way, next, toAct, idle, away
<1>8. /\ SameBut({"skipped"}, r, skip) /\ skip.skipped = TRUE
      /\ SameBut({"folded", "acted", "passers"}, r, moved)
      /\ moved.folded = r.folded \cup away /\ moved.acted = r.acted \cup away
      /\ moved.passers = r.passers \cup away
  BY <1>1 DEF SameBut, Shape, PiqueFields, Fields
<1> HIDE DEF moved, skip
<1>9. SameBut({"reopened", "preBet"}, moved, done) /\ done.reopened = FALSE /\ done.preBet = {}
  BY <1>8 DEF SameBut, PiqueFields, Fields
<1> HIDE DEF done
<1>10. r.folded \subseteq Seat /\ r.acted \subseteq Seat /\ r.passers \subseteq Seat
       /\ r.preBet \subseteq Seat /\ away \subseteq Seat
  BY <1>1, <1>3, <1>6, <1>7 DEF Shape, Seats
<1>11. CASE Cardinality(InPique(r)) < 2 /\ InPique(r) \subseteq r.acted
  BY <1>2, <1>11, TooFewWentEnds
<1>12. CASE start \notin SeatOrder(r) /\ AdvanceTurnPhase2(r, from) = CompletarMano(skip)
  <2>1. Shape(skip) BY <1>1, <1>8, ShapeFrom DEF Seats, Switches, Counts
  <2>2. /\ skip.players = r.players /\ skip.waiting = r.waiting /\ skip.turn = r.turn
        /\ skip.preBet = r.preBet /\ skip.passers = r.passers /\ skip.paid = r.paid
        /\ skip.reopened = r.reopened /\ skip.dealing = r.dealing
        /\ skip.completing = r.completing /\ skip.cleanups = r.cleanups
        /\ skip.chips = r.chips /\ skip.balance = r.balance /\ skip.skewed = r.skewed
        /\ skip.debit = r.debit /\ skip.piquePot = r.piquePot
    BY <1>8 DEF SameBut, PiqueFields, Fields
  <2>3. SeatOrder(skip) = SeatOrder(r) /\ Chains(skip) = 0 /\ ChipsOf(skip) = ChipsOf(r)
    BY <1>1, <2>2 DEF SeatOrder, Chains, ChipsOf
  <2>4. Ready(skip) BY <1>1, <2>1, <2>2, <2>3 DEF Ready, Books, Order, Price
  <2>5. Keeps(skip, CompletarMano(skip)) BY <1>8, <2>4, CompletarManoKeeps
  <2>6. Keeps(r, CompletarMano(skip)) BY <2>2, <2>3, <2>5 DEF Keeps
  <2> QED BY <1>1, <1>12, <2>6, KeepsEnds
<1>13. CASE start \in SeatOrder(r)
  <2>1. /\ moved.players = r.players /\ moved.waiting = r.waiting /\ moved.turn = r.turn
        /\ moved.preBet = r.preBet /\ moved.paid = r.paid /\ moved.phase = r.phase
        /\ moved.reopened = r.reopened /\ moved.dealing = r.dealing
        /\ moved.completing = r.completing /\ moved.cleanups = r.cleanups
        /\ moved.chips = r.chips /\ moved.balance = r.balance /\ moved.skewed = r.skewed
        /\ moved.debit = r.debit /\ moved.piquePot = r.piquePot
        /\ moved.connected = r.connected
    BY <1>8 DEF SameBut, PiqueFields, Fields
  <2>2. Shape(moved)
    <3>1. moved.folded \subseteq Seat /\ moved.acted \subseteq Seat /\ moved.passers \subseteq Seat
      BY <1>8, <1>10
    <3> QED BY <1>1, <1>8, <3>1, ShapeFrom DEF Seats, Switches, Counts
  <2>3. SeatOrder(moved) = SeatOrder(r) /\ Chains(moved) = 0 /\ ChipsOf(moved) = ChipsOf(r)
        /\ InRound(moved) /\ InRound(r)
    BY <1>1, <1>4, <1>13, <2>1 DEF SeatOrder, Chains, ChipsOf, InRound
  <2>4. r.dealing = 0 BY <1>1, NoChains
  <2>5. \A s \in away : r.paid[s] = 0
    BY <1>4, <1>6, <1>7, <1>10, <1>13, <2>3 DEF Round
  <2>6. Price(moved) BY <1>1, <1>8, <2>1, <2>4, <2>5 DEF Price
  <2>7. Ready(moved) BY <1>1, <2>1, <2>2, <2>3, <2>6 DEF Ready, Books, Order
  <2>8. Round(moved, NoCall)
    <3>1. /\ r.passers \cup r.preBet \subseteq r.folded
          /\ \A s \in Seat \ r.acted : r.paid[s] = 0
          /\ \A s \in (SeatOrder(r) \cap r.acted) \ r.folded : s # NoCall.seat => r.paid[s] > 0
      BY <1>4, <1>13, <2>3 DEF Round
    <3>2. moved.passers \cup moved.preBet \subseteq moved.folded BY <1>8, <2>1, <3>1
    <3>3. \A s \in Seat \ moved.acted : moved.paid[s] = 0 BY <1>8, <2>1, <3>1
    <3>4. \A s \in (SeatOrder(moved) \cap moved.acted) \ moved.folded :
            s # NoCall.seat => moved.paid[s] > 0
      BY <1>8, <2>1, <2>3, <3>1
    <3> QED BY <3>2, <3>3, <3>4 DEF Round
  <2>9. Speaks(moved, NoCall) BY <1>4, <1>13, <2>1, <2>7, <2>8 DEF Speaks
  <2>10. CASE toAct # {} /\ AdvanceTurnPhase2(r, from) = GiveTurn(moved, next)
    <3>1. next \in toAct BY <1>5, <1>13, <2>10
    <3>2. next \in SeatOrder(moved) /\ next \notin moved.folded \cup moved.acted
      BY <1>6, <1>7, <1>8, <2>3, <3>1
    <3>3. LET q == GiveTurn(moved, next)
          IN  Sound(q, NoCall) /\ ChipsOf(q) = ChipsOf(moved) /\ q.chips = moved.chips
      BY <1>4, <1>13, <2>1, <2>7, <2>8, <3>2, GiveTurnEnds
    <3>4. ChipsOf(r) \in Int BY <1>1, ChipsAreInt
    <3>5. Keeps(r, GiveTurn(moved, next)) BY <2>1, <2>3, <3>3, <3>4 DEF Keeps
    <3> QED BY <1>1, <2>10, <3>5, KeepsEnds
  <2>11. CASE AdvanceTurnPhase2(r, from) = TooFewWent(moved)
    <3>1. Ends(moved, TooFewWent(moved)) BY <2>9, TooFewWentEnds
    <3>2. Step(r, TooFewWent(moved)) BY <2>1, <3>1, StepFrom DEF Ends
    <3> QED BY <2>11, <3>1, <3>2 DEF Ends
  <2>12. CASE toAct = {} /\ AdvanceTurnPhase2(r, from) = CompletarMano(done)
    <3>1. /\ done.players = moved.players /\ done.waiting = moved.waiting
          /\ done.turn = moved.turn /\ done.paid = moved.paid /\ done.passers = moved.passers
          /\ done.dealing = moved.dealing /\ done.completing = moved.completing
          /\ done.cleanups = moved.cleanups /\ done.chips = moved.chips
          /\ done.balance = moved.balance /\ done.skewed = moved.skewed
          /\ done.debit = moved.debit /\ done.piquePot = moved.piquePot
          /\ done.folded = moved.folded
      BY <1>9 DEF SameBut, PiqueFields, Fields
    <3>2. Shape(done) BY <1>9, <2>2, ShapeFrom DEF Seats, Switches, Counts
    <3>3. SeatOrder(done) = SeatOrder(moved) /\ Chains(done) = 0 /\ ChipsOf(done) = ChipsOf(moved)
      BY <2>3, <3>1 DEF SeatOrder, Chains, ChipsOf
    <3>4. Ready(done) BY <1>9, <2>7, <3>1, <3>2, <3>3 DEF Ready, Books, Order, Price
    <3>5. \A s \in SeatOrder(done) \ done.folded : done.paid[s] > 0
      <4> SUFFICES ASSUME NEW s \in SeatOrder(done), s \notin done.folded
                   PROVE  done.paid[s] > 0
        OBVIOUS
      <4>1. s \in SeatOrder(r) /\ s \notin r.folded /\ s \notin away
        BY <1>8, <2>3, <3>1, <3>3
      <4>2. s \in r.acted BY <1>6, <1>7, <2>12, <4>1
      <4>3. s # NoCall.seat BY <1>3, <4>1 DEF NoCall
      <4> QED BY <1>4, <1>13, <2>1, <2>3, <3>1, <4>1, <4>2, <4>3 DEF Round
    <3>6. Keeps(done, CompletarMano(done)) BY <3>4, <3>5, CompletarManoKeeps
    <3>7. Keeps(r, CompletarMano(done)) BY <2>1, <2>3, <3>1, <3>3, <3>6 DEF Keeps
    <3> QED BY <1>1, <2>12, <3>7, KeepsEnds
  <2> QED BY <1>2, <1>11, <1>13, <2>10, <2>11, <2>12
<1> QED BY <1>2, <1>11, <1>12, <1>13

-----------------------------------------------------------------------------
(* What the players say.                                                   *)

LEMMA LiveIsReady ==
    ASSUME NEW r, NEW c, Sound(r, c), InRound(r) \/ c # NoCall
    PROVE  Ready(r)
<1>1. Chains(r) = 0 BY DEF Sound, Serial
<1>2. r.players \cap Newcomers \subseteq r.waiting BY DEF Sound, Waits, Live
<1> QED BY <1>1, <1>2 DEF Sound, Ready

(* The seat s acts in the room r, and q is what the room looks like before *)
(* the rest of the handler.                                                *)
MayAnswer(r, s) ==
    Sound(r, NoCall) /\ r.phase = "PIQUE" /\ r.turn = s /\ s \in r.players \ r.acted

Spoken(r, s, q) ==
    /\ SameBut({"turnTimer", "restarts", "acted", "skewed", "debit"}, r, q)
    /\ q.acted = r.acted \cup {s} /\ Shape(q) /\ Books(q)

LEMMA WhoAnswers ==
    ASSUME NEW r, NEW s, MayAnswer(r, s)
    PROVE  /\ s \in Seat /\ s \in SeatOrder(r) /\ s \notin r.folded \cup r.acted \cup Newcomers
           /\ s \notin r.passers \cup r.preBet /\ r.paid[s] = 0
           /\ Ready(r) /\ InRound(r) /\ Round(r, NoCall) /\ s # NoSeat
<1>1. Shape(r) /\ Order(r) /\ InRound(r) /\ Round(r, NoCall) /\ Turn(r, NoCall)
  BY DEF MayAnswer, Sound, InRound
<1>2. Ready(r) BY <1>1, LiveIsReady DEF MayAnswer
<1>3. s \in Seat /\ s # NoSeat BY <1>1, OrderInSeat DEF MayAnswer, Seat, NoSeat
<1>4. s \in SeatOrder(r) BY <1>1, <1>3 DEF MayAnswer, Order
<1>5. s \notin Newcomers BY <1>2, <1>4 DEF Ready, SeatOrder
<1>6. s \notin r.folded \cup r.acted BY <1>1, <1>3 DEF MayAnswer, Turn
<1>7. s \notin r.passers \cup r.preBet /\ r.paid[s] = 0 BY <1>1, <1>3, <1>6 DEF Round
<1> QED BY <1>1, <1>2, <1>3, <1>4, <1>5, <1>6, <1>7

LEMMA ActsSpeaks ==
    ASSUME NEW r, Shape(r), Books(r), NEW s \in Seat
    PROVE  Spoken(r, s, Acts(r, s))
<1> DEFINE q == Acts(r, s)
<1>1. /\ SameBut({"turnTimer", "restarts", "acted"}, r, q) /\ q.acted = r.acted \cup {s}
      /\ q.turnTimer = FALSE /\ q.restarts = 0
  BY DEF Acts, ClearTurnTimer, SameBut, Shape, PiqueFields, Fields
<1> HIDE DEF q
<1>2. Shape(q)
  <2>1. q.acted \subseteq Seat /\ q.turnTimer \in BOOLEAN /\ q.restarts \in Nat
    <3>1. r.acted \subseteq Seat BY DEF Shape, Seats
    <3>2. r.acted \cup {s} \subseteq Seat BY <3>1
    <3>3. q.acted \subseteq Seat BY <1>1, <3>2
    <3>4. q.turnTimer \in BOOLEAN BY <1>1
    <3>5. q.restarts \in Nat BY <1>1
    <3> QED BY <3>3, <3>4, <3>5
  <2>2. (\A g \in Seats \cap {"turnTimer", "restarts", "acted"} : g = "acted")
        /\ (\A b \in Switches \cap {"turnTimer", "restarts", "acted"} : b = "turnTimer")
        /\ (\A n \in Counts \cap {"turnTimer", "restarts", "acted"} : n = "restarts")
    BY DEF Seats, Switches, Counts
  <2> QED BY <1>1, <2>1, <2>2, ShapeFrom
<1>3. Books(q) BY <1>1 DEF Books, SameBut, PiqueFields, Fields
<1> QED BY <1>1, <1>2, <1>3 DEF Spoken, SameBut, q

LEMMA RecordSpoken ==
    ASSUME NEW r, NEW s, NEW q, Spoken(r, s, q) PROVE Spoken(r, s, RecordEvent(q))
<1> DEFINE p == RecordEvent(q)
<1>1. SameBut({"skewed", "debit"}, q, p) /\ Shape(p) /\ Books(p)
  BY RecordEventFrame DEF Spoken
<1> HIDE DEF p
<1>2. p.acted = q.acted BY <1>1 DEF SameBut, PiqueFields, Fields
<1> QED BY <1>1, <1>2 DEF Spoken, SameBut, p

LEMMA SpokenFields ==
    ASSUME NEW r, NEW s, NEW q, Spoken(r, s, q)
    PROVE  /\ q.players = r.players /\ q.connected = r.connected /\ q.waiting = r.waiting
           /\ q.folded = r.folded /\ q.passers = r.passers /\ q.preBet = r.preBet
           /\ q.paid = r.paid /\ q.phase = r.phase /\ q.turn = r.turn /\ q.chips = r.chips
           /\ q.dealing = r.dealing /\ q.completing = r.completing /\ q.cleanups = r.cleanups
           /\ q.reopened = r.reopened /\ q.skipped = r.skipped /\ q.piquePot = r.piquePot
           /\ q.mano = r.mano /\ q.maxBet = r.maxBet /\ q.passes = r.passes
           /\ SeatOrder(q) = SeatOrder(r) /\ Chains(q) = Chains(r) /\ ChipsOf(q) = ChipsOf(r)
           /\ InRound(q) = InRound(r)
<1>1. /\ q.players = r.players /\ q.connected = r.connected /\ q.waiting = r.waiting
      /\ q.folded = r.folded /\ q.passers = r.passers /\ q.preBet = r.preBet
      /\ q.paid = r.paid /\ q.phase = r.phase /\ q.turn = r.turn /\ q.chips = r.chips
      /\ q.dealing = r.dealing /\ q.completing = r.completing /\ q.cleanups = r.cleanups
      /\ q.reopened = r.reopened /\ q.skipped = r.skipped /\ q.piquePot = r.piquePot
      /\ q.mano = r.mano /\ q.maxBet = r.maxBet /\ q.passes = r.passes
  BY DEF Spoken, SameBut, PiqueFields, Fields
<1> QED BY <1>1 DEF SeatOrder, Chains, ChipsOf, InRound

(* He has spoken, and neither folded nor paid yet.                         *)
LEMMA SpokenIsReady ==
    ASSUME NEW r, NEW s, NEW q, MayAnswer(r, s), Spoken(r, s, q), NEW amount
    PROVE  /\ Ready(q) /\ Round(q, [seat |-> s, amount |-> amount]) /\ q.phase = "PIQUE"
           /\ ChipsOf(q) = ChipsOf(r)
<1> DEFINE c == [seat |-> s, amount |-> amount]
<1>1. Ready(r) /\ Round(r, NoCall) /\ InRound(r) /\ s \in Seat BY WhoAnswers
<1>2. Ready(q) BY <1>1, SpokenFields DEF Ready, Order, Price, Spoken
<1>3. /\ q.passers \cup q.preBet \subseteq q.folded
      /\ \A t \in Seat \ q.acted : q.paid[t] = 0
      /\ \A t \in (SeatOrder(q) \cap q.acted) \ q.folded : t # s => q.paid[t] > 0
  <2>1. /\ r.passers \cup r.preBet \subseteq r.folded
        /\ \A t \in Seat \ r.acted : r.paid[t] = 0
        /\ \A t \in (SeatOrder(r) \cap r.acted) \ r.folded : t # NoCall.seat => r.paid[t] > 0
    BY <1>1 DEF Round
  <2>2. q.acted = r.acted \cup {s} BY DEF Spoken
  <2>3. SeatOrder(r) \subseteq Seat BY <1>1, OrderInSeat DEF Ready
  <2>4. \A t \in Seat : t # NoCall.seat BY DEF NoCall, NoSeat, Seat
  <2> QED BY <2>1, <2>2, <2>3, <2>4, SpokenFields
<1>4. c.seat = s OBVIOUS
<1>5. Round(q, c)
  <2> HIDE DEF c
  <2> QED BY <1>3, <1>4 DEF Round
<1> QED BY <1>2, <1>5, SpokenFields DEF MayAnswer

(* The tail of a pass or a fold: La Mano and the deal are handed on, and   *)
(* the turn goes on.                                                       *)
LEMMA TailEnds ==
    ASSUME NEW r, NEW p, NEW q, Speaks(p, NoCall), Moved(p, q),
           p.chips = r.chips, p.piquePot = r.piquePot, p.connected = r.connected,
           r.preBet \subseteq p.preBet
    PROVE  Ends(r, AdvanceTurnPhase2(q, NoSeat))
<1>1. Speaks(q, NoCall) BY MovedIsIdle, UnaffectedSpeaks
<1>2. Ends(q, AdvanceTurnPhase2(q, NoSeat)) BY <1>1, AdvanceTurnPhase2Ends
<1>3. q.chips = r.chips /\ q.piquePot = r.piquePot /\ q.connected = r.connected
      /\ r.preBet \subseteq q.preBet
  BY MovedIsIdle
<1>4. Step(r, AdvanceTurnPhase2(q, NoSeat)) BY <1>2, <1>3, StepFrom DEF Ends
<1> QED BY <1>2, <1>4 DEF Ends

(* The bettor who folds is the only one who has acted, is in the order of  *)
(* seats and has not paid, so the others keep what the round needs.        *)
LEMMA FoldUnfundedEnds ==
    ASSUME NEW r, NEW c, Speaks(r, c), c.seat \in Seat
    PROVE  Ends(r, FoldUnfunded(r, c.seat))
<1> DEFINE s == c.seat
           out == [r EXCEPT !.folded = @ \cup {s}]
           next == IF s = r.mano THEN TransferMano(out) ELSE out
<1>1. Ready(r) /\ Shape(r) BY DEF Speaks, Ready
<1>2. FoldUnfunded(r, s) = AdvanceTurnPhase2(next, NoSeat) BY Zenon DEF FoldUnfunded
<1>3. SameBut({"folded"}, r, out) /\ out.folded = r.folded \cup {s}
  BY <1>1 DEF SameBut, Shape, PiqueFields, Fields
<1> HIDE DEF out
<1>4. Shape(out)
  <2>1. out.folded \subseteq Seat BY <1>1, <1>3 DEF Shape, Seats
  <2> QED BY <1>1, <1>3, <2>1, ShapeFrom DEF Seats, Switches, Counts
<1>5. /\ out.players = r.players /\ out.waiting = r.waiting /\ out.turn = r.turn
      /\ out.preBet = r.preBet /\ out.passers = r.passers /\ out.paid = r.paid
      /\ out.reopened = r.reopened /\ out.dealing = r.dealing /\ out.phase = r.phase
      /\ out.completing = r.completing /\ out.cleanups = r.cleanups /\ out.acted = r.acted
      /\ out.chips = r.chips /\ out.balance = r.balance /\ out.skewed = r.skewed
      /\ out.debit = r.debit /\ out.piquePot = r.piquePot /\ out.connected = r.connected
  BY <1>3 DEF SameBut, PiqueFields, Fields
<1>6. SeatOrder(out) = SeatOrder(r) /\ Chains(out) = Chains(r) /\ InRound(out) = InRound(r)
  BY <1>5 DEF SeatOrder, Chains, InRound
<1>7. Ready(out) BY <1>1, <1>4, <1>5, <1>6 DEF Ready, Books, Order, Price
<1>8. Round(r, c) => Round(out, NoCall) BY <1>3, <1>5, <1>6 DEF Round
<1>9. Speaks(out, NoCall) BY <1>5, <1>7, <1>8 DEF Speaks
<1>10. Moved(out, next) BY <1>4, TransferManoMoves, MovedSame
<1> HIDE DEF next
<1>11. Ends(r, AdvanceTurnPhase2(next, NoSeat)) BY <1>5, <1>9, <1>10, TailEnds
<1> QED BY <1>2, <1>11

(* "paso", of a player or of the timer of his turn.                        *)
LEMMA PassEnds ==
    ASSUME NEW r, NEW s, MayAnswer(r, s), NEW juego \in BOOLEAN
    PROVE  Ends(r, Pass(r, s, juego))
<1> DEFINE acted == RecordEvent(Acts(r, s))
           preBet == IF ~acted.reopened /\ acted.maxBet = 0 THEN acted.preBet \cup {s}
                     ELSE acted.preBet
           passes == [acted.passes EXCEPT ![s] = IF acted.reopened THEN @ ELSE Min({@ + 1, 2})]
           out == [acted EXCEPT !.folded = @ \cup {s}, !.passers = @ \cup {s},
                             !.preBet = IF ~r.reopened /\ r.maxBet = 0 THEN @ \cup {s} ELSE @,
                             !.passes[s] = IF r.reopened THEN @ ELSE Min({@ + 1, 2})]
           shown == [out EXCEPT !.phase = "PIQUE_REVEAL", !.turn = s]
           rotated == AttemptManoRotation(out, s)
           next == IF s = out.mano THEN TransferMano(rotated) ELSE rotated
<1>1. /\ s \in Seat /\ s \in SeatOrder(r) /\ s \notin r.folded \cup r.acted \cup Newcomers
      /\ r.paid[s] = 0 /\ Ready(r) /\ InRound(r) /\ Shape(r) /\ Books(r) /\ Price(r)
      /\ r.phase = "PIQUE"
  BY WhoAnswers DEF Ready, MayAnswer
<1>2. Pass(r, s, juego) = IF ~r.reopened /\ out.passes[s] = 2 /\ juego THEN shown
                          ELSE AdvanceTurnPhase2(next, NoSeat)
  BY Zenon DEF Pass, AfterPass
<1>3. Spoken(r, s, acted) BY <1>1, ActsSpeaks, RecordSpoken
<1> HIDE DEF acted
<1>4. Shape(acted) /\ Ready(acted) /\ Round(acted, [seat |-> s, amount |-> 0])
      /\ ChipsOf(acted) = ChipsOf(r)
  BY <1>3, SpokenIsReady DEF Spoken
<1>5. out = [acted EXCEPT !.folded = acted.folded \cup {s}, !.passers = acted.passers \cup {s},
                          !.preBet = preBet, !.passes = passes]
  <2>1. acted.reopened = r.reopened /\ acted.maxBet = r.maxBet BY <1>3, SpokenFields
  <2> HIDE DEF out
  <2>2. out = [acted EXCEPT !.folded = acted.folded \cup {s},
                            !.passers = acted.passers \cup {s},
                            !.preBet = IF ~r.reopened /\ r.maxBet = 0 THEN acted.preBet \cup {s}
                                       ELSE acted.preBet,
                            !.passes = [acted.passes EXCEPT ![s] =
                                          IF r.reopened THEN @ ELSE Min({@ + 1, 2})]]
    BY DEF out
  <2> QED BY <2>1, <2>2
<1>6. passes \in [Seat -> Nat]
  <2>1. acted.passes \in [Seat -> Nat] BY <1>4 DEF Shape
  <2>2. acted.passes[s] + 1 \in Nat BY <1>1, <2>1
  <2>3. Min({acted.passes[s] + 1, 2}) \in Nat BY <2>2, MinOfTwo
  <2> QED BY <2>1, <2>3
<1>7. preBet \subseteq acted.preBet \cup {s} /\ acted.preBet \subseteq preBet
      /\ (acted.reopened => preBet = acted.preBet)
  OBVIOUS
<1> HIDE DEF out, preBet, passes
<1>8. /\ SameBut({"folded", "passers", "preBet", "passes"}, acted, out)
      /\ out.folded = acted.folded \cup {s} /\ out.passers = acted.passers \cup {s}
      /\ out.preBet = preBet /\ out.passes = passes
  BY <1>4, <1>5 DEF SameBut, Shape, PiqueFields, Fields
<1>9. Shape(out)
  <2>1. out.folded \subseteq Seat /\ out.passers \subseteq Seat /\ out.preBet \subseteq Seat
    BY <1>1, <1>4, <1>7, <1>8 DEF Shape, Seats
  <2> QED BY <1>4, <1>6, <1>8, <2>1, ShapeFrom DEF Seats, Switches, Counts
<1>10. /\ out.players = acted.players /\ out.waiting = acted.waiting /\ out.turn = acted.turn
       /\ out.paid = acted.paid /\ out.acted = acted.acted /\ out.phase = acted.phase
       /\ out.reopened = acted.reopened /\ out.dealing = acted.dealing
       /\ out.completing = acted.completing /\ out.cleanups = acted.cleanups
       /\ out.chips = acted.chips /\ out.balance = acted.balance /\ out.skewed = acted.skewed
       /\ out.debit = acted.debit /\ out.piquePot = acted.piquePot
       /\ out.connected = acted.connected /\ out.skipped = acted.skipped
  BY <1>8 DEF SameBut, PiqueFields, Fields
<1>11. SeatOrder(out) = SeatOrder(acted) /\ Chains(out) = Chains(acted)
       /\ InRound(out) = InRound(acted) /\ ChipsOf(out) = ChipsOf(acted)
  BY <1>10 DEF SeatOrder, Chains, InRound, ChipsOf
<1>12. acted.paid[s] = 0 /\ acted.phase = "PIQUE" /\ InRound(acted)
  BY <1>1, <1>3, SpokenFields
<1>13. Ready(out)
  <2>1. Books(out) BY <1>4, <1>10 DEF Ready, Books
  <2>2. Order(out) BY <1>1, <1>4, <1>7, <1>8, <1>10, <1>11 DEF Ready, Order
  <2>3. acted.dealing = 0 BY <1>4, NoChains DEF Ready
  <2>4. Price(out) BY <1>4, <1>7, <1>8, <1>10, <1>12, <2>3 DEF Ready, Price
  <2> QED BY <1>4, <1>9, <1>10, <1>11, <2>1, <2>2, <2>4 DEF Ready
<1>14. Round(out, NoCall)
  <2> DEFINE c == [seat |-> s, amount |-> 0]
  <2>1. c.seat = s OBVIOUS
  <2> HIDE DEF c
  <2>2. /\ acted.passers \cup acted.preBet \subseteq acted.folded
        /\ \A t \in Seat \ acted.acted : acted.paid[t] = 0
        /\ \A t \in (SeatOrder(acted) \cap acted.acted) \ acted.folded : t # s => acted.paid[t] > 0
    BY <1>4, <1>12, <2>1 DEF Round, c
  <2>3. out.passers \cup out.preBet \subseteq out.folded BY <1>7, <1>8, <2>2
  <2>4. /\ \A t \in Seat \ out.acted : out.paid[t] = 0
        /\ \A t \in (SeatOrder(out) \cap out.acted) \ out.folded : out.paid[t] > 0
    BY <1>8, <1>10, <1>11, <2>2
  <2> QED BY <2>3, <2>4 DEF Round
<1>15. /\ out.chips = r.chips /\ out.piquePot = r.piquePot /\ out.connected = r.connected
       /\ r.preBet \subseteq out.preBet
  BY <1>3, <1>7, <1>8, <1>10, SpokenFields
<1>16. Ends(r, AdvanceTurnPhase2(next, NoSeat))
  <2>1. Speaks(out, NoCall)
    <3>1. out.phase = "PIQUE" BY <1>10, <1>12
    <3> QED BY <1>13, <1>14, <3>1, Zenon DEF Speaks
  <2>2. Moved(out, next) BY <1>9, RotationMoves
  <2> HIDE DEF next
  <2> QED BY <1>15, <2>1, <2>2, TailEnds
<1>17. Ends(r, shown)
  <2>1. SameBut({"phase", "turn"}, out, shown) /\ shown.phase = "PIQUE_REVEAL" /\ shown.turn = s
    BY <1>9 DEF SameBut, Shape, PiqueFields, Fields
  <2> HIDE DEF shown
  <2>2. Shape(shown) BY <1>1, <1>9, <2>1, ShapeFrom DEF Seats, Switches, Counts, PiquePhases
  <2>3. /\ shown.players = out.players /\ shown.waiting = out.waiting
        /\ shown.paid = out.paid /\ shown.acted = out.acted /\ shown.folded = out.folded
        /\ shown.reopened = out.reopened /\ shown.dealing = out.dealing
        /\ shown.completing = out.completing /\ shown.cleanups = out.cleanups
        /\ shown.chips = out.chips /\ shown.balance = out.balance
        /\ shown.skewed = out.skewed /\ shown.debit = out.debit
        /\ shown.piquePot = out.piquePot /\ shown.passers = out.passers
        /\ shown.preBet = out.preBet
    BY <2>1 DEF SameBut, PiqueFields, Fields
  <2>4. SeatOrder(shown) = SeatOrder(out) /\ Chains(shown) = 0 /\ ChipsOf(shown) = ChipsOf(r)
        /\ s \in SeatOrder(shown)
    BY <1>1, <1>3, <1>4, <1>11, <1>13, <2>3, SpokenFields DEF Ready, SeatOrder, Chains, ChipsOf
  <2>5. Books(shown) /\ Order(shown) /\ Price(shown)
    BY <1>13, <2>1, <2>3, <2>4 DEF Ready, Books, Order, Price
  <2>6. InRound(out) BY <1>11, <1>12
  <2>7. Round(shown, NoCall) BY <1>14, <2>3, <2>4, <2>6 DEF Round
  <2>8. Turn(shown, NoCall) /\ Calls(shown, NoCall) /\ Bettors(shown)
    BY <2>1 DEF Turn, Calls, Bettors
  <2>9. Serial(shown, NoCall) /\ Waits(shown, NoCall)
    BY <1>13, <2>3, <2>4 DEF Serial, Waits, Ready
  <2>10. ChipsOf(r) \in Int BY <1>1, ChipsAreInt
  <2>11. Keeps(r, shown)
    BY <1>15, <2>2, <2>3, <2>4, <2>5, <2>7, <2>8, <2>9, <2>10 DEF Keeps, Sound
  <2> QED BY <1>1, <2>11, KeepsEnds
<1> QED BY <1>2, <1>16, <1>17

(* A bet is offered: its player has acted, has the turn and did not pay.   *)
LEMMA OfferIsSound ==
    ASSUME NEW r, NEW s, MayAnswer(r, s), NEW named, Spoken(r, s, named),
           NEW amount \in Nat \ {0}, amount <= r.chips[s], NEW price \in Nat
    PROVE  LET c == [seat |-> s, amount |-> amount]
               q == [named EXCEPT !.maxBet = price]
           IN  /\ Sound(named, c) /\ Sound(q, c)
               /\ Step(r, named) /\ Step(r, q)
<1> DEFINE c == [seat |-> s, amount |-> amount]
           q == [named EXCEPT !.maxBet = price]
<1>1. /\ s \in Seat /\ s \in SeatOrder(r) /\ s \notin r.folded \cup r.passers \cup r.preBet
      /\ r.paid[s] = 0 /\ Shape(r) /\ r.turn = s
  BY WhoAnswers DEF Ready, MayAnswer
<1>2. Ready(named) /\ Round(named, c) /\ named.phase = "PIQUE" /\ ChipsOf(named) = ChipsOf(r)
  BY SpokenIsReady
<1>3. c.seat = s /\ c.amount = amount OBVIOUS
<1>4. c # NoCall BY <1>3 DEF NoCall
<1> HIDE DEF c
<1>5. /\ named.acted = r.acted \cup {s} /\ named.folded = r.folded /\ named.turn = r.turn
      /\ named.passers = r.passers /\ named.preBet = r.preBet /\ named.paid = r.paid
      /\ named.chips = r.chips /\ named.connected = r.connected
  BY SpokenFields DEF Spoken
<1>6. Calls(named, c) BY <1>1, <1>2, <1>3, <1>5 DEF Calls
<1>7. Turn(named, c) /\ Bettors(named) BY <1>2, <1>4 DEF Turn, Bettors
<1>8. Serial(named, c) /\ Waits(named, c) BY <1>2 DEF Ready, Serial, Waits
<1>9. Sound(named, c) BY <1>2, <1>6, <1>7, <1>8 DEF Sound, Ready
<1>10. Step(r, named)
  <2>1. ChipsOf(r) \in Int /\ \A t \in r.preBet : r.chips[t] \in Nat
    BY <1>1, ChipsAreInt DEF Shape, Seats
  <2> QED BY <1>2, <1>5, <2>1 DEF Step
<1>11. SameBut({"maxBet"}, named, q) /\ q.maxBet = price
  BY <1>2 DEF Ready, Shape, SameBut, PiqueFields, Fields
<1> HIDE DEF q
<1>12. Shape(q)
  <2>1. Shape(named) BY <1>2 DEF Ready
  <2> QED BY <1>11, <2>1, ShapeFrom DEF Seats, Switches, Counts
<1>13. SameBut(Idle, named, q) BY <1>11 DEF SameBut, Idle
<1>14. Sound(q, c) BY <1>9, <1>12, <1>13, UnaffectedSound
<1>15. Step(r, q)
  <2>1. ChipsOf(q) = ChipsOf(named) BY <1>12, <1>13, Unaffected
  <2>2. q.chips = named.chips BY <1>11 DEF SameBut, PiqueFields, Fields
  <2> QED BY <1>10, <2>1, <2>2 DEF Step
<1> QED BY <1>9, <1>10, <1>14, <1>15 DEF c, q

(* What a call of recordBet finds in the room when it is answered.         *)
LEMMA WhoIsCalled ==
    ASSUME NEW r, NEW c, Sound(r, c), c # NoCall
    PROVE  /\ Ready(r) /\ Speaks(r, c) /\ c.seat \in Seat /\ c.seat # NoSeat
           /\ c.amount \in Nat \ {0} /\ c.amount <= r.chips[c.seat]
           /\ c.seat \notin r.passers \cup r.preBet /\ r.paid[c.seat] = 0
           /\ (r.phase = "PIQUE" => c.seat \in r.acted \ r.folded)
           /\ r.turn \in {c.seat, NoSeat} /\ r.phase # "PIQUE_REVEAL"
<1>1. Ready(r) BY LiveIsReady
<1>2. Calls(r, c) /\ Round(r, c) BY DEF Sound
<1>3. c.seat \in Seat /\ c.seat # NoSeat BY <1>2 DEF Calls, Seat, NoSeat
<1>4. Speaks(r, c) BY <1>1, <1>2 DEF Speaks, Calls
<1> QED BY <1>1, <1>2, <1>3, <1>4 DEF Calls

(* Chips and wallet meet again: the ledger takes the bet now, or took it   *)
(* before the reply was lost.                                              *)
LEMMA DebitedBooks ==
    ASSUME NEW r, Shape(r), Books(r), NEW c \in [seat : Seat \cup {NoSeat}, amount : Nat],
           c.seat \in Seat, r.debit \in {NoCall, c}
    PROVE  LET q == Debited(r, c)
           IN  /\ SameBut({"balance", "debit"}, r, q) /\ q.debit = NoCall
               /\ q.balance \in [Seat -> Int]
               /\ \A s \in Seat \ r.skewed :
                    r.chips[s] - q.balance[s] = IF s = c.seat THEN c.amount ELSE 0
<1> DEFINE q == Debited(r, c)
<1>1. \A s \in Seat \ r.skewed :
        r.chips[s] - r.balance[s] = IF s = r.debit.seat THEN r.debit.amount ELSE 0
  BY DEF Books
<1>2. c.seat # NoSeat /\ NoSeat \notin Seat BY DEF Seat, NoSeat
<1>3. NoCall.seat = NoSeat BY DEF NoCall
<1>4. r.chips \in [Seat -> Nat] /\ r.balance \in [Seat -> Int] /\ c.amount \in Nat
  BY DEF Shape
<1>5. CASE r.debit = NoCall
  <2>1. /\ SameBut({"balance", "debit"}, r, q) /\ q.debit = NoCall
        /\ q.balance = [r.balance EXCEPT ![c.seat] = @ - c.amount]
    BY <1>5 DEF Debited, SameBut, Shape, PiqueFields, Fields
  <2> HIDE DEF q
  <2>2. q.balance \in [Seat -> Int] BY <1>4, <2>1
  <2>3. ASSUME NEW s \in Seat, s \notin r.skewed
        PROVE  r.chips[s] - q.balance[s] = IF s = c.seat THEN c.amount ELSE 0
    <3>1. r.chips[s] - r.balance[s] = 0 BY <1>1, <1>2, <1>3, <1>5, <2>3
    <3>2. q.balance[s] = IF s = c.seat THEN r.balance[s] - c.amount ELSE r.balance[s]
      BY <1>4, <2>1
    <3>3. r.chips[s] \in Int /\ r.balance[s] \in Int BY <1>4
    <3> QED BY <1>4, <3>1, <3>2, <3>3
  <2> QED BY <2>1, <2>2, <2>3 DEF q
<1>6. CASE r.debit # NoCall
  <2>1. r.debit = c BY <1>6
  <2>2. /\ SameBut({"balance", "debit"}, r, q) /\ q.debit = NoCall /\ q.balance = r.balance
    BY <1>6 DEF Debited, SameBut, Shape, PiqueFields, Fields
  <2> HIDE DEF q
  <2> QED BY <1>1, <1>4, <2>1, <2>2 DEF q
<1> QED BY <1>5, <1>6

LEMMA BetAcceptedEnds ==
    ASSUME NEW r, NEW c \in [seat : Seat \cup {NoSeat}, amount : Nat], Sound(r, c), c # NoCall,
           r.debit \in {NoCall, c}
    PROVE  LET bet == [Debited(r, c) EXCEPT !.chips[c.seat] = @ - c.amount,
                                            !.piquePot = @ + c.amount,
                                            !.paid[c.seat] = @ + c.amount]
           IN  Ends(r, AdvanceTurnPhase2(bet, NoSeat))
<1> DEFINE s == c.seat
           debited == Debited(r, c)
           bet == [debited EXCEPT !.chips[s] = @ - c.amount, !.piquePot = @ + c.amount,
                                  !.paid[s] = @ + c.amount]
           q == AdvanceTurnPhase2(bet, NoSeat)
<1>1. /\ Ready(r) /\ Speaks(r, c) /\ s \in Seat /\ s # NoSeat
      /\ c.amount \in Nat \ {0} /\ c.amount <= r.chips[s]
      /\ s \notin r.passers \cup r.preBet /\ r.paid[s] = 0
      /\ (r.phase = "PIQUE" => s \in r.acted \ r.folded)
      /\ Shape(r) /\ Books(r) /\ Order(r) /\ Price(r) /\ Chains(r) = 0
  BY WhoIsCalled DEF Ready
<1>2. /\ SameBut({"balance", "debit"}, r, debited) /\ debited.debit = NoCall
      /\ debited.balance \in [Seat -> Int]
      /\ \A t \in Seat \ r.skewed :
           r.chips[t] - debited.balance[t] = IF t = s THEN c.amount ELSE 0
  BY <1>1, DebitedBooks
<1> HIDE DEF debited
<1>3. /\ SameBut({"balance", "debit", "chips", "piquePot", "paid"}, r, bet)
      /\ bet.debit = NoCall /\ bet.balance = debited.balance
      /\ bet.chips = [r.chips EXCEPT ![s] = @ - c.amount]
      /\ bet.piquePot = r.piquePot + c.amount
      /\ bet.paid = [r.paid EXCEPT ![s] = @ + c.amount]
  <2>1. /\ debited.chips = r.chips /\ debited.piquePot = r.piquePot /\ debited.paid = r.paid
        /\ DOMAIN debited = PiqueFields
    BY <1>2 DEF SameBut, PiqueFields, Fields
  <2> DEFINE chips == [r.chips EXCEPT ![s] = @ - c.amount]
             paid == [r.paid EXCEPT ![s] = @ + c.amount]
  <2>2. bet = [debited EXCEPT !.chips = chips, !.piquePot = @ + c.amount, !.paid = paid]
    BY <2>1
  <2> HIDE DEF chips, paid, bet
  <2>3. /\ bet.chips = chips /\ bet.piquePot = r.piquePot + c.amount /\ bet.paid = paid
        /\ DOMAIN bet = PiqueFields
        /\ \A f \in PiqueFields \ {"chips", "piquePot", "paid"} : bet[f] = debited[f]
    BY <2>1, <2>2 DEF PiqueFields, Fields
  <2>4. bet.debit = NoCall /\ bet.balance = debited.balance
    BY <1>2, <2>3 DEF PiqueFields, Fields
  <2> QED BY <1>2, <2>3, <2>4 DEF SameBut, chips, paid
<1> HIDE DEF bet
<1>4. r.chips \in [Seat -> Nat] /\ r.paid \in [Seat -> Nat] /\ r.piquePot \in Nat
  BY <1>1 DEF Shape, Counts
<1>5. bet.chips \in [Seat -> Nat]
  <2>1. r.chips[s] - c.amount \in Nat BY <1>1, <1>4
  <2> QED BY <1>3, <1>4, <2>1
<1>6. bet.paid \in [Seat -> Nat] BY <1>1, <1>3, <1>4
<1>7. /\ bet.players = r.players /\ bet.connected = r.connected /\ bet.waiting = r.waiting
      /\ bet.folded = r.folded /\ bet.acted = r.acted /\ bet.passers = r.passers
      /\ bet.preBet = r.preBet /\ bet.phase = r.phase /\ bet.turn = r.turn
      /\ bet.dealing = r.dealing /\ bet.completing = r.completing
      /\ bet.cleanups = r.cleanups /\ bet.reopened = r.reopened /\ bet.skewed = r.skewed
      /\ bet.mano = r.mano /\ bet.dealer = r.dealer /\ bet.mainBet = r.mainBet
      /\ bet.passes = r.passes
  BY <1>3 DEF SameBut, PiqueFields, Fields
<1>8. Shape(bet)
  <2>1. \A g \in Seats : bet[g] \subseteq Seat
    <3>1. \A g \in Seats : bet[g] = r[g] BY <1>3 DEF SameBut, PiqueFields, Fields, Seats
    <3> QED BY <1>1, <3>1 DEF Shape
  <2>2. \A b \in Switches : bet[b] \in BOOLEAN
    <3>1. \A b \in Switches : bet[b] = r[b] BY <1>3 DEF SameBut, PiqueFields, Fields, Switches
    <3> QED BY <1>1, <3>1, Zenon DEF Shape
  <2>3. \A n \in Counts : bet[n] \in Nat
    <3>1. \A n \in Counts \ {"piquePot"} : bet[n] = r[n]
      BY <1>3 DEF SameBut, PiqueFields, Fields, Counts
    <3>2. bet.piquePot \in Nat BY <1>1, <1>3, <1>4
    <3> QED BY <1>1, <3>1, <3>2 DEF Shape
  <2>4. NoCall \in [seat : Seat \cup {NoSeat}, amount : Nat] BY DEF NoCall
  <2>5. bet.passes \in [Seat -> Nat] BY <1>1, <1>7 DEF Shape
  <2>6. DOMAIN bet = PiqueFields BY <1>3 DEF SameBut
  <2> QED BY <1>1, <1>2, <1>3, <1>5, <1>6, <1>7, <2>1, <2>2, <2>3, <2>4, <2>5, <2>6 DEF Shape
<1>9. Books(bet)
  <2> SUFFICES ASSUME NEW t \in Seat, t \notin bet.skewed
               PROVE  bet.chips[t] - bet.balance[t]
                        = IF t = bet.debit.seat THEN bet.debit.amount ELSE 0
    BY DEF Books
  <2>1. r.chips[t] - debited.balance[t] = IF t = s THEN c.amount ELSE 0 BY <1>2, <1>7
  <2>2. bet.chips[t] = IF t = s THEN r.chips[t] - c.amount ELSE r.chips[t] BY <1>3, <1>4
  <2>3. bet.debit.amount = 0 BY <1>3 DEF NoCall
  <2>4. r.chips[t] \in Int /\ debited.balance[t] \in Int BY <1>2, <1>4
  <2> QED BY <1>1, <1>3, <2>1, <2>2, <2>3, <2>4
<1>10. SeatOrder(bet) = SeatOrder(r) /\ Chains(bet) = 0 /\ InRound(bet) = InRound(r)
  BY <1>1, <1>7 DEF SeatOrder, Chains, InRound
<1>11. \A t \in Seat \ {s} : bet.paid[t] = r.paid[t] /\ bet.chips[t] = r.chips[t]
  BY <1>3, <1>4
<1>12. bet.paid[s] > 0 BY <1>1, <1>3, <1>4
<1>13. Price(bet)
  <2>1. r.dealing = 0 BY <1>1, NoChains
  <2>2. r.passers \subseteq Seat /\ r.preBet \subseteq Seat BY <1>1 DEF Shape, Seats
  <2> QED BY <1>1, <1>7, <1>11, <2>1, <2>2 DEF Price
<1>14. Order(bet) BY <1>1, <1>7, <1>10 DEF Order
<1>15. Ready(bet) BY <1>1, <1>7, <1>8, <1>9, <1>10, <1>13, <1>14 DEF Ready
<1>16. Speaks(bet, NoCall)
  <2>1. CASE r.phase = "LOBBY" /\ r.turn = NoSeat BY <1>7, <1>15, <2>1 DEF Speaks
  <2>2. CASE r.phase = "PIQUE" /\ Round(r, c)
    <3>1. InRound(r) BY <2>2 DEF InRound
    <3>2. /\ r.passers \cup r.preBet \subseteq r.folded
          /\ \A t \in Seat \ r.acted : r.paid[t] = 0
          /\ \A t \in (SeatOrder(r) \cap r.acted) \ r.folded : t # s => r.paid[t] > 0
      BY <2>2, <3>1 DEF Round
    <3>3. SeatOrder(r) \subseteq Seat BY <1>1, OrderInSeat
    <3>4. /\ bet.passers \cup bet.preBet \subseteq bet.folded
          /\ \A t \in Seat \ bet.acted : bet.paid[t] = 0
      BY <1>1, <1>7, <1>11, <2>2, <3>2
    <3>5. \A t \in (SeatOrder(bet) \cap bet.acted) \ bet.folded : bet.paid[t] > 0
      BY <1>7, <1>10, <1>11, <1>12, <3>2, <3>3
    <3>6. Round(bet, NoCall) BY <3>4, <3>5 DEF Round
    <3> QED BY <1>7, <1>15, <2>2, <3>6 DEF Speaks
  <2> QED BY <1>1, <2>1, <2>2 DEF Speaks
<1>17. Ends(bet, q) BY <1>16, AdvanceTurnPhase2Ends
<1> HIDE DEF q
<1>18. ChipsOf(bet) = ChipsOf(r)
  <2>1. r.chips = [bet.chips EXCEPT ![s] = @ + c.amount]
    <3>1. bet.chips[s] + c.amount = r.chips[s] BY <1>1, <1>3, <1>4
    <3> QED BY <1>3, <1>4, <1>5, <3>1
  <2>2. SumFunctionOnSet(r.chips, Seat) = SumFunctionOnSet(bet.chips, Seat) + c.amount
    BY <1>1, <1>5, <2>1, SumOfOneMore
  <2>3. SumFunctionOnSet(bet.chips, Seat) \in Int BY <1>8, ChipsAreInt
  <2> QED BY <1>1, <1>3, <1>4, <2>2, <2>3 DEF ChipsOf
<1>19. Step(r, q)
  <2>1. \A t \in r.preBet \cap r.connected : q.chips[t] >= bet.chips[t]
    BY <1>7, <1>17 DEF Ends, Step
  <2>2. \A t \in r.preBet : bet.chips[t] = r.chips[t]
    <3>1. r.preBet \subseteq Seat BY <1>1 DEF Shape, Seats
    <3> QED BY <1>1, <1>11, <3>1
  <2>3. ChipsOf(q) <= ChipsOf(bet) BY <1>17 DEF Ends, Step
  <2> QED BY <1>18, <2>1, <2>2, <2>3 DEF Step
<1> QED BY <1>17, <1>19 DEF Ends, bet, debited, q

(* The bet failed for the room: its player may act again.                  *)
LEMMA TryAgainSound ==
    ASSUME NEW r, NEW c, Sound(r, c), c # NoCall, NEW q,
           SameBut({"acted", "balance", "debit"}, r, q), q.acted = r.acted \ {c.seat},
           Shape(q), Books(q)
    PROVE  Sound(q, NoCall) /\ Step(r, q)
<1>1. /\ Ready(r) /\ c.seat \in Seat /\ r.paid[c.seat] = 0 /\ r.turn \in {c.seat, NoSeat}
      /\ (r.phase = "PIQUE" => c.seat \notin r.folded) /\ Order(r) /\ Price(r) /\ Shape(r)
      /\ r.phase # "PIQUE_REVEAL" /\ Round(r, c) /\ Bettors(r)
  BY WhoIsCalled DEF Ready, Sound
<1>2. /\ q.players = r.players /\ q.connected = r.connected /\ q.waiting = r.waiting
      /\ q.folded = r.folded /\ q.passers = r.passers
      /\ q.preBet = r.preBet /\ q.paid = r.paid /\ q.phase = r.phase /\ q.turn = r.turn
      /\ q.chips = r.chips /\ q.dealing = r.dealing /\ q.completing = r.completing
      /\ q.cleanups = r.cleanups /\ q.reopened = r.reopened /\ q.skipped = r.skipped
      /\ q.piquePot = r.piquePot
  BY DEF SameBut, PiqueFields, Fields
<1>3. SeatOrder(q) = SeatOrder(r) /\ Chains(q) = 0 /\ InRound(q) = InRound(r)
      /\ ChipsOf(q) = ChipsOf(r)
  BY <1>1, <1>2 DEF Ready, SeatOrder, Chains, InRound, ChipsOf
<1>4. Order(q) /\ Price(q) /\ Bettors(q) BY <1>1, <1>2, <1>3 DEF Order, Price, Bettors
<1>5. Round(q, NoCall)
  <2>1. \A t \in Seat : t # NoCall.seat BY DEF NoCall, NoSeat, Seat
  <2> QED BY <1>1, <1>2, <1>3, <2>1 DEF Round
<1>6. Turn(q, NoCall) BY <1>1, <1>2 DEF Turn
<1>7. Calls(q, NoCall) BY DEF Calls
<1>8. Serial(q, NoCall) /\ Waits(q, NoCall) BY <1>1, <1>2, <1>3 DEF Ready, Serial, Waits
<1>9. Step(r, q)
  <2>1. ChipsOf(r) \in Int /\ \A t \in r.preBet : r.chips[t] \in Nat
    BY <1>1, ChipsAreInt DEF Shape, Seats
  <2> QED BY <1>2, <1>3, <2>1 DEF Step
<1> QED BY <1>4, <1>5, <1>6, <1>7, <1>8, <1>9 DEF Sound

-----------------------------------------------------------------------------
(* The timers.                                                             *)

(* One chain of timers is under way, and comes to its end.                 *)
LEMMA ChainIsOver ==
    ASSUME NEW r, NEW c, Sound(r, c), Chains(r) # 0
    PROVE  /\ c = NoCall /\ ~InRound(r) /\ Shape(r) /\ Chains(r) = 1
           /\ r.players \cap Newcomers \subseteq r.waiting
           /\ r.dealing \in Nat /\ r.completing \in Nat /\ r.cleanups \in Nat
           /\ (r.dealing > 0 => r.dealing = 1 /\ r.completing = 0 /\ r.cleanups = 0)
           /\ (r.completing > 0 => r.dealing = 0 /\ r.completing = 1 /\ r.cleanups = 0)
           /\ (r.cleanups > 0 => r.dealing = 0 /\ r.completing = 0 /\ r.cleanups = 1)
<1>1. Shape(r) /\ Chains(r) = 1 /\ c = NoCall /\ ~InRound(r) BY DEF Sound, Serial
<1>2. r.players \cap Newcomers \subseteq r.waiting BY <1>1 DEF Sound, Waits, Live
<1>3. r.dealing \in Nat /\ r.completing \in Nat /\ r.cleanups \in Nat
  BY <1>1 DEF Shape, Counts
<1>4. r.dealing + r.completing + r.cleanups = 1 BY <1>1 DEF Chains
<1> QED BY <1>1, <1>2, <1>3, <1>4

(* The two cards are dealt and the round begins.                           *)
LEMMA DealDoneEnds ==
    ASSUME NEW r, Sound(r, NoCall), r.dealing > 0
    PROVE  LET q == [r EXCEPT !.dealing = @ - 1, !.phase = "PIQUE", !.acted = @ \ r.players]
           IN  Ends(r, AdvanceTurnPhase2(q, r.mano))
<1> DEFINE q == [r EXCEPT !.dealing = @ - 1, !.phase = "PIQUE", !.acted = @ \ r.players]
<1>1. Shape(r) /\ Books(r) /\ Order(r) /\ Price(r) BY DEF Sound
<1>2. Chains(r) # 0 BY <1>1, NoChains DEF Shape, Counts
<1>3. /\ r.players \cap Newcomers \subseteq r.waiting /\ r.dealing = 1 /\ r.completing = 0
      /\ r.cleanups = 0
  BY <1>2, ChainIsOver
<1>4. /\ SameBut({"dealing", "phase", "acted"}, r, q) /\ q.dealing = 0 /\ q.phase = "PIQUE"
      /\ q.acted = r.acted \ r.players
  <2> DEFINE acted == r.acted \ r.players
  <2>1. r.dealing - 1 = 0 BY <1>3
  <2>2. q = [r EXCEPT !.dealing = 0, !.phase = "PIQUE", !.acted = acted] BY <2>1
  <2>3. DOMAIN r = PiqueFields BY <1>1 DEF Shape
  <2> HIDE DEF q, acted
  <2>4. q.dealing = 0 /\ q.phase = "PIQUE" /\ q.acted = acted
    BY <2>2, <2>3 DEF PiqueFields, Fields
  <2>5. SameBut({"dealing", "phase", "acted"}, r, q)
    BY <2>2, <2>3 DEF SameBut, PiqueFields, Fields
  <2> QED BY <2>4, <2>5 DEF acted
<1> HIDE DEF q
<1>5. /\ q.players = r.players /\ q.connected = r.connected /\ q.waiting = r.waiting
      /\ q.folded = r.folded /\ q.passers = r.passers
      /\ q.preBet = r.preBet /\ q.paid = r.paid /\ q.turn = r.turn
      /\ q.chips = r.chips /\ q.balance = r.balance /\ q.debit = r.debit
      /\ q.skewed = r.skewed /\ q.completing = r.completing
      /\ q.cleanups = r.cleanups /\ q.reopened = r.reopened /\ q.piquePot = r.piquePot
  BY <1>4 DEF SameBut, PiqueFields, Fields
<1>6. Shape(q)
  <2>1. q.acted \subseteq Seat /\ q.dealing \in Nat BY <1>1, <1>4 DEF Shape, Seats
  <2> QED BY <1>1, <1>4, <2>1, ShapeFrom DEF Seats, Switches, Counts, PiquePhases
<1>7. SeatOrder(q) = SeatOrder(r) /\ Chains(q) = 0
  BY <1>3, <1>4, <1>5 DEF SeatOrder, Chains
<1>8. r.passers = {} /\ r.preBet = {} /\ \A s \in Seat : r.paid[s] = 0
  BY <1>1, <1>3 DEF Price
<1>9. Ready(q)
  BY <1>1, <1>3, <1>4, <1>5, <1>6, <1>7, <1>8 DEF Ready, Books, Order, Price
<1>10. Round(q, NoCall)
  <2>1. SeatOrder(q) \cap q.acted = {} BY <1>4, <1>5 DEF SeatOrder
  <2> QED BY <1>5, <1>8, <2>1 DEF Round
<1>11. Speaks(q, NoCall) BY <1>4, <1>9, <1>10 DEF Speaks
<1>12. r.mano \in Seat \cup {NoSeat} BY <1>1 DEF Shape
<1>13. Ends(q, AdvanceTurnPhase2(q, r.mano)) BY <1>4, <1>11, <1>12, AdvanceTurnPhase2Ends
<1>14. Step(r, AdvanceTurnPhase2(q, r.mano)) BY <1>5, <1>13, StepFrom DEF Ends
<1> QED BY <1>13, <1>14 DEF Ends, q

(* The two other cards are dealt and the pique is over.                    *)
LEMMA CompletarDoneEnds ==
    ASSUME NEW r, Sound(r, NoCall), r.completing > 0
    PROVE  Ends(r, AfterPiqueResolution([r EXCEPT !.completing = @ - 1]))
<1> DEFINE q == [r EXCEPT !.completing = @ - 1]
<1>1. Shape(r) /\ Books(r) /\ Order(r) /\ Price(r) /\ Bettors(r) BY DEF Sound
<1>2. Chains(r) # 0 BY <1>1, NoChains DEF Shape, Counts
<1>3. /\ r.players \cap Newcomers \subseteq r.waiting /\ r.dealing = 0 /\ r.completing = 1
      /\ r.cleanups = 0 /\ ~InRound(r)
  BY <1>2, ChainIsOver
<1>4. SameBut({"completing"}, r, q) /\ q.completing = 0
  BY <1>1, <1>3 DEF SameBut, Shape, PiqueFields, Fields
<1> HIDE DEF q
<1>5. /\ q.players = r.players /\ q.connected = r.connected /\ q.waiting = r.waiting
      /\ q.folded = r.folded /\ q.passers = r.passers /\ q.phase = r.phase
      /\ q.preBet = r.preBet /\ q.paid = r.paid /\ q.turn = r.turn
      /\ q.chips = r.chips /\ q.balance = r.balance /\ q.debit = r.debit
      /\ q.skewed = r.skewed /\ q.dealing = r.dealing /\ q.skipped = r.skipped
      /\ q.cleanups = r.cleanups /\ q.reopened = r.reopened /\ q.piquePot = r.piquePot
  BY <1>4 DEF SameBut, PiqueFields, Fields
<1>6. Shape(q)
  <2>1. q.completing \in Nat BY <1>4
  <2> QED BY <1>1, <1>4, <2>1, ShapeFrom DEF Seats, Switches, Counts
<1>7. SeatOrder(q) = SeatOrder(r) /\ Chains(q) = 0 /\ ~InRound(q)
  BY <1>3, <1>4, <1>5 DEF SeatOrder, Chains, InRound
<1>8. Ready(q) /\ Bettors(q)
  BY <1>1, <1>3, <1>5, <1>6, <1>7 DEF Ready, Books, Order, Price, Bettors
<1>9. Ends(q, AfterPiqueResolution(q))
  BY <1>6, <1>7, <1>8, AfterPiqueResolutionKeeps, KeepsEnds
<1>10. Step(r, AfterPiqueResolution(q)) BY <1>5, <1>9, StepFrom DEF Ends
<1> QED BY <1>9, <1>10 DEF Ends, q

(* The hand of the only player left is over.                               *)
LEMMA EndHandEnds ==
    ASSUME NEW r, Sound(r, NoCall), r.cleanups > 0
    PROVE  LET q == PromoteWaitingPlayers([r EXCEPT !.cleanups = @ - 1, !.mano = NoSeat,
                                                    !.phase = "LOBBY"])
           IN  Ends(r, IF r.rotated THEN q ELSE NextDealer(q))
<1> DEFINE closed == [r EXCEPT !.cleanups = @ - 1, !.mano = NoSeat, !.phase = "LOBBY"]
           q == PromoteWaitingPlayers(closed)
<1>1. Shape(r) /\ Books(r) /\ Order(r) /\ Price(r) BY DEF Sound
<1>2. Chains(r) # 0 BY <1>1, NoChains DEF Shape, Counts
<1>3. r.dealing = 0 /\ r.completing = 0 /\ r.cleanups = 1 BY <1>2, ChainIsOver
<1>4. /\ SameBut({"cleanups", "mano", "phase", "waiting"}, r, q) /\ q.cleanups = 0
      /\ q.mano = NoSeat /\ q.phase = "LOBBY" /\ q.waiting = {}
  <2>1. /\ SameBut({"cleanups", "mano", "phase"}, r, closed) /\ closed.cleanups = 0
        /\ closed.mano = NoSeat /\ closed.phase = "LOBBY"
    <3>1. r.cleanups - 1 = 0 BY <1>3
    <3>2. closed = [r EXCEPT !.cleanups = 0, !.mano = NoSeat, !.phase = "LOBBY"] BY <3>1
    <3>3. DOMAIN r = PiqueFields BY <1>1 DEF Shape
    <3> HIDE DEF closed
    <3> QED BY <3>2, <3>3 DEF SameBut, PiqueFields, Fields
  <2> HIDE DEF closed
  <2> QED BY <2>1 DEF PromoteWaitingPlayers, SameBut, PiqueFields, Fields
<1> HIDE DEF q
<1>5. /\ q.players = r.players /\ q.connected = r.connected /\ q.passers = r.passers
      /\ q.preBet = r.preBet /\ q.paid = r.paid /\ q.turn = r.turn
      /\ q.chips = r.chips /\ q.balance = r.balance /\ q.debit = r.debit
      /\ q.skewed = r.skewed /\ q.dealing = r.dealing /\ q.completing = r.completing
      /\ q.reopened = r.reopened /\ q.piquePot = r.piquePot
  BY <1>4 DEF SameBut, PiqueFields, Fields
<1>6. Shape(q)
  <2>1. q.cleanups \in Nat BY <1>4
  <2> QED BY <1>1, <1>4, <2>1, ShapeFrom DEF Seats, Switches, Counts, PiquePhases
<1>7. SeatOrder(r) \subseteq SeatOrder(q) /\ Chains(q) = 0 /\ ChipsOf(q) = ChipsOf(r)
  BY <1>3, <1>4, <1>5 DEF SeatOrder, Chains, ChipsOf
<1>8. Order(q) BY <1>1, <1>4, <1>5, <1>7 DEF Order
<1>9. Sound(q, NoCall)
  <2>1. Books(q) /\ Price(q) BY <1>1, <1>5 DEF Books, Price
  <2> QED BY <1>4, <1>6, <1>7, <1>8, <2>1, InTheLobby
<1>10. ChipsOf(r) \in Int BY <1>1, ChipsAreInt
<1>11. Keeps(r, q) BY <1>5, <1>7, <1>9, <1>10 DEF Keeps
<1>12. Keeps(r, NextDealer(q))
  <2>1. Moved(q, NextDealer(q)) BY <1>6, NextDealerMoves
  <2>2. Sound(NextDealer(q), NoCall) /\ ChipsOf(NextDealer(q)) = ChipsOf(q)
        /\ NextDealer(q).chips = q.chips
    BY <1>9, <2>1, MovedIsIdle, UnaffectedSound, Unaffected
  <2> QED BY <1>5, <1>7, <1>10, <2>2 DEF Keeps
<1> QED BY <1>1, <1>11, <1>12, KeepsEnds DEF q

(* The cards are covered again.                                            *)
LEMMA DismissEnds ==
    ASSUME NEW r, Sound(r, NoCall), r.phase = "PIQUE_REVEAL"
    PROVE  Ends(r, AdvanceTurnPhase2([ClearTurnTimer(r) EXCEPT !.phase = "PIQUE"], NoSeat))
<1> DEFINE q == [ClearTurnTimer(r) EXCEPT !.phase = "PIQUE"]
<1>1. Ready(r) /\ Shape(r) /\ Round(r, NoCall) /\ InRound(r)
  <2>1. InRound(r) BY DEF InRound
  <2> QED BY <2>1, LiveIsReady DEF Sound
<1>2. SameBut({"turnTimer", "phase"}, r, q) /\ q.turnTimer = FALSE /\ q.phase = "PIQUE"
  BY <1>1 DEF ClearTurnTimer, SameBut, Shape, PiqueFields, Fields
<1> HIDE DEF q
<1>3. Shape(q) BY <1>1, <1>2, ShapeFrom DEF Seats, Switches, Counts, PiquePhases
<1>4. /\ q.players = r.players /\ q.connected = r.connected /\ q.waiting = r.waiting
      /\ q.folded = r.folded /\ q.passers = r.passers /\ q.acted = r.acted
      /\ q.preBet = r.preBet /\ q.paid = r.paid /\ q.turn = r.turn
      /\ q.chips = r.chips /\ q.balance = r.balance /\ q.debit = r.debit
      /\ q.skewed = r.skewed /\ q.dealing = r.dealing /\ q.completing = r.completing
      /\ q.cleanups = r.cleanups /\ q.reopened = r.reopened /\ q.piquePot = r.piquePot
  BY <1>2 DEF SameBut, PiqueFields, Fields
<1>5. SeatOrder(q) = SeatOrder(r) /\ Chains(q) = Chains(r) BY <1>4 DEF SeatOrder, Chains
<1>6. Ready(q) BY <1>1, <1>3, <1>4, <1>5 DEF Ready, Books, Order, Price
<1>7. Round(q, NoCall) BY <1>1, <1>4, <1>5 DEF Round
<1>8. Speaks(q, NoCall) BY <1>2, <1>6, <1>7 DEF Speaks
<1>9. Ends(q, AdvanceTurnPhase2(q, NoSeat)) BY <1>8, AdvanceTurnPhase2Ends
<1>10. Step(r, AdvanceTurnPhase2(q, NoSeat)) BY <1>4, <1>9, StepFrom DEF Ends
<1> QED BY <1>9, <1>10 DEF Ends, q

(* The time of a turn is up: who is there passes.                          *)
LEMMA TimeIsUp ==
    ASSUME NEW r, NEW c, Sound(r, c)
    PROVE  LET quiet == ClearTurnTimer(r)
           IN  /\ Sound(quiet, c) /\ Step(r, quiet)
               /\ \A s : c = NoCall /\ MayAnswer(r, s) =>
                    \A juego \in BOOLEAN : Ends(r, Pass(quiet, s, juego))
<1> DEFINE quiet == ClearTurnTimer(r)
<1>1. Shape(r) BY DEF Sound
<1>2. Moved(r, quiet) BY <1>1, ClearTurnTimerMoves
<1>3. /\ SameBut(Idle, r, quiet) /\ Shape(quiet) /\ quiet.chips = r.chips
      /\ quiet.piquePot = r.piquePot /\ quiet.connected = r.connected
      /\ quiet.preBet = r.preBet /\ quiet.turn = r.turn /\ quiet.phase = r.phase
      /\ quiet.players = r.players /\ quiet.acted = r.acted
  <2>1. quiet.players = r.players /\ quiet.acted = r.acted
    BY <1>2 DEF Moved, SameBut, PiqueFields, Fields
  <2> QED BY <1>2, <2>1, MovedIsIdle
<1> HIDE DEF quiet
<1>4. Sound(quiet, c) BY <1>3, UnaffectedSound
<1>5. Step(r, quiet)
  <2>1. ChipsOf(quiet) = ChipsOf(r) BY <1>3, Unaffected
  <2>2. ChipsOf(r) \in Int /\ \A t \in r.preBet : r.chips[t] \in Nat
    BY <1>1, ChipsAreInt DEF Shape, Seats
  <2> QED BY <1>3, <2>1, <2>2 DEF Step
<1>6. ASSUME NEW s, c = NoCall, MayAnswer(r, s), NEW juego \in BOOLEAN
      PROVE  Ends(r, Pass(quiet, s, juego))
  <2>1. MayAnswer(quiet, s) BY <1>3, <1>4, <1>6 DEF MayAnswer
  <2>2. Ends(quiet, Pass(quiet, s, juego)) BY <2>1, PassEnds
  <2>3. Step(r, Pass(quiet, s, juego)) BY <1>3, <2>2, StepFrom DEF Ends
  <2> QED BY <2>2, <2>3 DEF Ends
<1> QED BY <1>4, <1>5, <1>6 DEF quiet

-----------------------------------------------------------------------------
(* Connections: the call that is waiting for its answer stays.             *)

Stays(r, q, c) == Sound(q, c) /\ Step(r, q)

LEMMA StaysTwice ==
    ASSUME NEW r, NEW p, NEW q, NEW c, Shape(r), Stays(r, p, c), Stays(p, q, c),
           p.chips = r.chips, r.preBet \subseteq p.preBet, r.connected \subseteq p.connected
    PROVE  Stays(r, q, c)
<1>1. ChipsOf(r) \in Int /\ ChipsOf(p) \in Int /\ ChipsOf(q) \in Int
  BY ChipsAreInt DEF Stays, Sound
<1>2. ChipsOf(q) <= ChipsOf(r) BY <1>1 DEF Stays, Step
<1> QED BY <1>2 DEF Stays, Step

LEMMA MovedStays ==
    ASSUME NEW r, NEW q, NEW c, Sound(r, c), Moved(r, q)
    PROVE  Stays(r, q, c)
<1>1. Sound(q, c) BY MovedIsIdle, UnaffectedSound
<1>2. ChipsOf(q) = ChipsOf(r) /\ q.chips = r.chips BY MovedIsIdle, Unaffected
<1>3. Shape(r) BY DEF Sound
<1>4. ChipsOf(r) \in Int /\ \A t \in r.preBet : r.chips[t] \in Nat
  BY <1>3, ChipsAreInt DEF Shape, Seats
<1> QED BY <1>1, <1>2, <1>4 DEF Stays, Step

(* A room nobody is connected to starts afresh: no main bet is given back, *)
(* for there is none yet.                                                  *)
LEMMA ResetRoomStateStays ==
    ASSUME NEW r, NEW c, Sound(r, c) PROVE Stays(r, ResetRoomState(r), c)
<1> DEFINE owed == IF r.phase = "LOBBY" THEN {} ELSE {s \in r.players : r.mainBet[s] > 0}
           credited == {s \in owed : <<s, Ref("all-disconnected")>> \notin r.refs}
           balance == [s \in Seat |-> IF s \in credited THEN r.balance[s] + r.mainBet[s]
                                      ELSE r.balance[s]]
           refs == r.refs \cup {<<s, Ref("all-disconnected")>> : s \in owed}
           roundBet == [s \in Seat |-> IF s \in r.players THEN 0 ELSE r.roundBet[s]]
           mainBet == [s \in Seat |-> IF s \in r.players THEN 0 ELSE r.mainBet[s]]
           cards == [s \in Seat |-> IF s \in r.players THEN 0 ELSE r.cards[s]]
           q == ResetRoomState(r)
<1>1. /\ Shape(r) /\ Books(r) /\ Order(r) /\ Price(r) /\ Calls(r, c) /\ Serial(r, c)
      /\ Waits(r, c)
  BY DEF Sound
<1>2. owed = {} /\ credited = {}
  <2>1. \A s \in r.players : r.mainBet[s] = 0 BY <1>1, OrderInSeat DEF Shape
  <2> QED BY <2>1
<1>3. balance = r.balance
  <2>1. r.balance \in [Seat -> Int] BY <1>1 DEF Shape
  <2> QED BY <1>2, <2>1
<1>4. mainBet \in [Seat -> {0}] BY <1>1 DEF Shape
<1>5. q = [r EXCEPT !.balance = balance, !.refs = refs, !.skewed = @ \cup credited,
                  !.turnTimer = FALSE, !.autoTimer = FALSE,
                  !.phase = "LOBBY", !.pot = 0, !.piquePot = 0,
                  !.mano = NoSeat, !.turn = NoSeat,
                  !.folded = @ \ r.players, !.acted = @ \ r.players, !.allIn = @ \ r.players,
                  !.passed = @ \ r.players, !.declined = @ \ r.players,
                  !.yes = @ \ r.players, !.no = @ \ r.players,
                  !.roundBet = roundBet, !.mainBet = mainBet, !.cards = cards]
  BY DEF ResetRoomState
<1> HIDE DEF owed, credited, balance, refs, roundBet, mainBet, cards, q
<1>6. /\ DOMAIN q = PiqueFields
      /\ \A f \in PiqueFields \ {"balance", "refs", "skewed", "turnTimer", "autoTimer", "phase",
                                 "pot", "piquePot", "mano", "turn", "folded", "acted", "allIn",
                                 "passed", "declined", "yes", "no", "roundBet", "mainBet",
                                 "cards"} : q[f] = r[f]
  BY <1>1, <1>5 DEF Shape, PiqueFields, Fields
<1>7. /\ q.balance = balance /\ q.skewed = r.skewed \cup credited
      /\ q.turnTimer = FALSE /\ q.autoTimer = FALSE /\ q.phase = "LOBBY" /\ q.piquePot = 0
      /\ q.mano = NoSeat /\ q.turn = NoSeat /\ q.mainBet = mainBet
  BY <1>1, <1>5 DEF Shape, PiqueFields, Fields
<1>8. /\ q.folded = r.folded \ r.players /\ q.acted = r.acted \ r.players
      /\ q.allIn = r.allIn \ r.players /\ q.passed = r.passed \ r.players
      /\ q.declined = r.declined \ r.players /\ q.yes = r.yes \ r.players
      /\ q.no = r.no \ r.players
  BY <1>1, <1>5 DEF Shape, PiqueFields, Fields
<1>9. /\ q.players = r.players /\ q.connected = r.connected /\ q.waiting = r.waiting
      /\ q.passers = r.passers /\ q.preBet = r.preBet /\ q.paid = r.paid
      /\ q.chips = r.chips /\ q.debit = r.debit /\ q.dealing = r.dealing
      /\ q.completing = r.completing /\ q.cleanups = r.cleanups /\ q.reopened = r.reopened
      /\ q.dealer = r.dealer /\ q.passes = r.passes
  BY <1>6 DEF PiqueFields, Fields
<1>10. Shape(q)
  <2>1. \A g \in Seats : q[g] \subseteq Seat
    <3>1. \A g \in {"folded", "acted", "allIn", "passed", "declined", "yes", "no"} :
            q[g] \subseteq r[g]
      BY <1>8
    <3>2. q.skewed = r.skewed BY <1>2, <1>7
    <3>3. \A g \in Seats \ {"folded", "acted", "allIn", "passed", "declined", "yes", "no"} :
            q[g] = r[g]
      BY <1>6, <3>2 DEF Seats, PiqueFields, Fields
    <3>4. \A g \in Seats : r[g] \subseteq Seat BY <1>1 DEF Shape
    <3> SUFFICES ASSUME NEW g \in Seats PROVE q[g] \subseteq Seat OBVIOUS
    <3>5. q[g] \subseteq r[g] BY <3>1, <3>3
    <3> QED BY <3>4, <3>5
  <2>2. \A b \in Switches : q[b] \in BOOLEAN
    <3>1. \A b \in Switches \ {"turnTimer", "autoTimer"} : q[b] = r[b]
      BY <1>6 DEF Switches, PiqueFields, Fields
    <3> QED BY <1>1, <1>7, <3>1, Zenon DEF Shape
  <2>3. \A n \in Counts : q[n] \in Nat
    <3>1. \A n \in Counts \ {"piquePot"} : q[n] = r[n]
      BY <1>6 DEF Counts, PiqueFields, Fields
    <3> QED BY <1>1, <1>7, <3>1 DEF Shape
  <2>4. \A m \in {"chips", "paid", "passes"} : q[m] \in [Seat -> Nat] BY <1>1, <1>9 DEF Shape
  <2>5. /\ q.debit \in [seat : Seat \cup {NoSeat}, amount : Nat]
        /\ (q.debit = NoCall \/ q.debit.seat \in Seat)
        /\ q.balance \in [Seat -> Int] /\ q.dealer \in Seat
    BY <1>1, <1>3, <1>7, <1>9 DEF Shape
  <2> QED BY <1>4, <1>6, <1>7, <2>1, <2>2, <2>3, <2>4, <2>5 DEF Shape, PiquePhases
<1>11. Books(q) BY <1>1, <1>2, <1>3, <1>7, <1>9 DEF Books
<1>12. Chains(q) = Chains(r) /\ ~InRound(q) BY <1>7, <1>9 DEF Chains, InRound
<1>13. Order(q) /\ Price(q) BY <1>1, <1>7, <1>9 DEF Order, Price
<1>14. Round(q, c) /\ Turn(q, c) /\ Bettors(q) BY <1>7, <1>12 DEF Round, Turn, Bettors
<1>15. Calls(q, c) BY <1>1, <1>7, <1>9 DEF Calls
<1>16. Serial(q, c) /\ Waits(q, c) BY <1>1, <1>9, <1>12 DEF Serial, Waits, Live
<1>17. Step(r, q)
  <2>1. /\ ChipsOf(r) \in Int /\ SumFunctionOnSet(r.chips, Seat) \in Int /\ r.piquePot \in Nat
        /\ \A t \in r.preBet : r.chips[t] \in Nat
    BY <1>1, ChipsAreInt DEF Shape, Seats
  <2>2. ChipsOf(q) <= ChipsOf(r) BY <1>7, <1>9, <2>1 DEF ChipsOf
  <2> QED BY <1>9, <2>1, <2>2 DEF Step
<1> QED BY <1>10, <1>11, <1>13, <1>14, <1>15, <1>16, <1>17 DEF Stays, Sound, q

(* removePlayer: one seat fewer.                                           *)
LEMMA RemovePlayerStays ==
    ASSUME NEW r, NEW c, Sound(r, c), NEW s \in Seat
    PROVE  Stays(r, RemovePlayer(r, s), c)
<1> DEFINE gone == [r EXCEPT !.players = @ \ {s}]
           order == SeatOrder(gone)
           heir == IF gone.players = {} \/ r.dealer # s THEN r.dealer
                   ELSE IF order # {} THEN Min(order) ELSE Min(gone.players)
           dealt == [gone EXCEPT !.dealer = heir,
                                 !.mano = IF @ = s /\ gone.players # {} /\ r.phase # "LOBBY"
                                          THEN heir ELSE @]
           mano == IF gone.mano = s /\ gone.players # {} /\ r.phase # "LOBBY" THEN heir
                   ELSE gone.mano
           idle == IF r.turn = s THEN ClearTurnTimer([dealt EXCEPT !.turn = NoSeat]) ELSE dealt
<1>1. /\ Shape(r) /\ Books(r) /\ Order(r) /\ Price(r) /\ Round(r, c) /\ Turn(r, c)
      /\ Calls(r, c) /\ Serial(r, c) /\ Waits(r, c) /\ Bettors(r)
  BY DEF Sound
<1>2. RemovePlayer(r, s) = IF gone.players = {} THEN ResetRoomState(idle) ELSE idle
  BY Zenon DEF RemovePlayer
<1>3. SameBut({"players"}, r, gone) /\ gone.players = r.players \ {s}
  BY <1>1 DEF SameBut, Shape, PiqueFields, Fields
<1>4. dealt = [gone EXCEPT !.dealer = heir, !.mano = mano] OBVIOUS
<1> HIDE DEF gone
<1>5. gone.players \in SUBSET Seat /\ order \in SUBSET Seat
  BY <1>1, <1>3, OrderInSeat DEF SeatOrder
<1>6. heir \in Seat
  <2>1. r.dealer \in Seat BY <1>1 DEF Shape
  <2>2. order # {} => Min(order) \in Seat BY <1>5, MinInSet
  <2>3. gone.players # {} => Min(gone.players) \in Seat BY <1>5, MinInSet
  <2> HIDE DEF order
  <2> QED BY <2>1, <2>2, <2>3
<1> HIDE DEF heir, order
<1>7. mano \in Seat \cup {NoSeat}
  <2>1. gone.mano \in Seat \cup {NoSeat} BY <1>1, <1>3 DEF SameBut, Shape, PiqueFields, Fields
  <2> QED BY <1>6, <2>1
<1> HIDE DEF mano, dealt
<1>8. /\ SameBut({"players", "dealer", "mano"}, r, dealt) /\ dealt.players = r.players \ {s}
      /\ dealt.dealer = heir /\ dealt.mano = mano
  BY <1>3, <1>4 DEF SameBut, PiqueFields, Fields
<1>9. /\ SameBut({"players", "dealer", "mano", "turn", "turnTimer"}, r, idle)
      /\ idle.players = r.players \ {s} /\ idle.dealer = heir /\ idle.mano = mano
      /\ idle.turn = (IF r.turn = s THEN NoSeat ELSE r.turn)
      /\ idle.turnTimer \in {FALSE, r.turnTimer}
  <2>1. CASE r.turn = s
    <3>1. idle = [[dealt EXCEPT !.turn = NoSeat] EXCEPT !.turnTimer = FALSE]
      BY <2>1 DEF ClearTurnTimer
    <3> HIDE DEF idle
    <3> QED BY <1>8, <2>1, <3>1 DEF SameBut, PiqueFields, Fields
  <2>2. CASE r.turn # s
    <3>1. idle = dealt BY <2>2
    <3> HIDE DEF idle
    <3> QED BY <1>8, <2>2, <3>1 DEF SameBut, PiqueFields, Fields
  <2> QED BY <2>1, <2>2
<1> HIDE DEF idle
<1>10. /\ idle.connected = r.connected /\ idle.waiting = r.waiting
       /\ idle.folded = r.folded /\ idle.passers = r.passers /\ idle.acted = r.acted
       /\ idle.preBet = r.preBet /\ idle.paid = r.paid /\ idle.phase = r.phase
       /\ idle.chips = r.chips /\ idle.balance = r.balance /\ idle.debit = r.debit
       /\ idle.skewed = r.skewed /\ idle.dealing = r.dealing /\ idle.completing = r.completing
       /\ idle.cleanups = r.cleanups /\ idle.reopened = r.reopened
       /\ idle.piquePot = r.piquePot /\ idle.skipped = r.skipped
  BY <1>9 DEF SameBut, PiqueFields, Fields
<1>11. Shape(idle)
  <2>1. idle.turnTimer \in BOOLEAN
    <3>1. r.turnTimer \in BOOLEAN BY <1>1 DEF Shape, Switches
    <3> QED BY <1>9, <3>1
  <2>2. idle.turn \in Seat \cup {NoSeat} BY <1>1, <1>9 DEF Shape
  <2>3. idle.players \subseteq Seat BY <1>3, <1>5, <1>9
  <2> QED BY <1>1, <1>6, <1>7, <1>9, <2>1, <2>2, <2>3, ShapeFrom DEF Seats, Switches, Counts
<1>12. /\ SeatOrder(idle) = SeatOrder(r) \ {s} /\ Chains(idle) = Chains(r)
       /\ InRound(idle) = InRound(r) /\ ChipsOf(idle) = ChipsOf(r)
  BY <1>9, <1>10 DEF SeatOrder, Chains, InRound, ChipsOf
<1>13. Books(idle) /\ Order(idle) /\ Price(idle) /\ Bettors(idle)
  <2>1. Order(idle) BY <1>1, <1>9, <1>10, <1>12 DEF Order
  <2> QED BY <1>1, <1>10, <1>12, <2>1 DEF Books, Price, Bettors
<1>14. Round(idle, c) BY <1>1, <1>10, <1>12 DEF Round
<1>15. Turn(idle, c) BY <1>1, <1>9, <1>10 DEF Turn
<1>16. Calls(idle, c) BY <1>1, <1>9, <1>10 DEF Calls
<1>17. Serial(idle, c) /\ Waits(idle, c)
  BY <1>1, <1>9, <1>10, <1>12 DEF Serial, Waits, Live
<1>18. Stays(r, idle, c)
  <2>1. ChipsOf(r) \in Int /\ \A t \in r.preBet : r.chips[t] \in Nat
    BY <1>1, ChipsAreInt DEF Shape, Seats
  <2>2. Step(r, idle) BY <1>10, <1>12, <2>1 DEF Step
  <2> QED BY <1>11, <1>13, <1>14, <1>15, <1>16, <1>17, <2>2 DEF Stays, Sound
<1>19. Stays(r, ResetRoomState(idle), c)
  <2>1. Stays(idle, ResetRoomState(idle), c) BY <1>18, ResetRoomStateStays DEF Stays
  <2> QED BY <1>1, <1>10, <1>18, <2>1, StaysTwice
<1> QED BY <1>2, <1>18, <1>19

(* Who is connected matters to no part of the invariant.                   *)
LEMMA ConnectedStays ==
    ASSUME NEW r, NEW c, Sound(r, c), NEW connected \in SUBSET Seat
    PROVE  LET q == [r EXCEPT !.connected = connected]
           IN  Stays(r, q, c) /\ q.chips = r.chips /\ q.preBet = r.preBet
<1> DEFINE q == [r EXCEPT !.connected = connected]
<1>1. /\ Shape(r) /\ Books(r) /\ Order(r) /\ Price(r) /\ Round(r, c) /\ Turn(r, c)
      /\ Calls(r, c) /\ Serial(r, c) /\ Waits(r, c) /\ Bettors(r)
  BY DEF Sound
<1>2. SameBut({"connected"}, r, q) /\ q.connected = connected
  BY <1>1 DEF SameBut, Shape, PiqueFields, Fields
<1> HIDE DEF q
<1>3. /\ q.players = r.players /\ q.waiting = r.waiting /\ q.turn = r.turn
      /\ q.folded = r.folded /\ q.passers = r.passers /\ q.acted = r.acted
      /\ q.preBet = r.preBet /\ q.paid = r.paid /\ q.phase = r.phase
      /\ q.chips = r.chips /\ q.balance = r.balance /\ q.debit = r.debit
      /\ q.skewed = r.skewed /\ q.dealing = r.dealing /\ q.completing = r.completing
      /\ q.cleanups = r.cleanups /\ q.reopened = r.reopened
      /\ q.piquePot = r.piquePot /\ q.skipped = r.skipped
  BY <1>2 DEF SameBut, PiqueFields, Fields
<1>4. Shape(q)
  <2>1. q.connected \subseteq Seat BY <1>2
  <2> QED BY <1>1, <1>2, <2>1, ShapeFrom DEF Seats, Switches, Counts
<1>5. /\ SeatOrder(q) = SeatOrder(r) /\ Chains(q) = Chains(r)
      /\ InRound(q) = InRound(r) /\ ChipsOf(q) = ChipsOf(r)
  BY <1>3 DEF SeatOrder, Chains, InRound, ChipsOf
<1>6. Books(q) /\ Order(q) /\ Price(q) /\ Bettors(q)
  BY <1>1, <1>3, <1>5 DEF Books, Order, Price, Bettors
<1>7. Round(q, c) /\ Turn(q, c) /\ Calls(q, c) BY <1>1, <1>3, <1>5 DEF Round, Turn, Calls
<1>8. Serial(q, c) /\ Waits(q, c) BY <1>1, <1>3, <1>5 DEF Serial, Waits, Live
<1>9. ChipsOf(r) \in Int /\ \A t \in r.preBet : r.chips[t] \in Nat
  BY <1>1, ChipsAreInt DEF Shape, Seats
<1>10. Step(r, q) BY <1>3, <1>5, <1>9 DEF Step
<1> QED BY <1>3, <1>4, <1>6, <1>7, <1>8, <1>10 DEF Stays, Sound, q

LEMMA OfflineStays ==
    ASSUME NEW r, NEW c, Sound(r, c), NEW s
    PROVE  LET q == Offline(r, s) IN Stays(r, q, c)
<1> DEFINE left == r.connected \ {s}
           off == [r EXCEPT !.connected = left]
           q == ResetRoomState(off)
<1>1. Shape(r) BY DEF Sound
<1>2. left \in SUBSET Seat BY <1>1, OrderInSeat
<1>3. Offline(r, s) = IF off.players \cap off.connected = {} THEN q ELSE off
  BY DEF Offline
<1> HIDE DEF left
<1>4. Stays(r, off, c) /\ off.chips = r.chips /\ off.preBet = r.preBet
  BY <1>2, ConnectedStays
<1> HIDE DEF off
<1>5. Stays(off, q, c) BY <1>4, ResetRoomStateStays DEF Stays
<1> HIDE DEF q
<1>6. q.chips = off.chips
  BY <1>4 DEF q, ResetRoomState, Stays, Sound, Shape, PiqueFields, Fields
<1>7. Stays(r, q, c)
  <2>1. ChipsOf(r) \in Int /\ ChipsOf(off) \in Int /\ ChipsOf(q) \in Int
        /\ \A t \in r.preBet : r.chips[t] \in Nat
    BY <1>1, <1>4, <1>5, ChipsAreInt DEF Stays, Sound, Shape, Seats
  <2>2. ChipsOf(q) <= ChipsOf(r) BY <1>4, <1>5, <2>1 DEF Stays, Step
  <2> QED BY <1>4, <1>5, <1>6, <2>1, <2>2 DEF Stays, Step
<1> QED BY <1>3, <1>4, <1>7

LEMMA HandOverDealMoves ==
    ASSUME NEW r, Shape(r), NEW s \in Seat
    PROVE  Moved(r, HandOverDeal(r, s))
<1> DEFINE heirs  == SeatOrder(r) \cap r.connected
           others == r.players \cap r.connected
           heir == IF s \in SeatOrder(r) /\ heirs # {} THEN FirstAfter(s, heirs) ELSE Min(others)
           p == [r EXCEPT !.rotated = TRUE]
           q == [p EXCEPT !.dealer = heir]
<1>1. heirs \in SUBSET Seat /\ others \in SUBSET Seat BY OrderInSeat
<1>2. CASE r.dealer # s \/ others = {} BY <1>2, MovedSame DEF HandOverDeal
<1>3. CASE ~(r.dealer # s \/ others = {})
  <2>1. heirs # {} => FirstAfter(s, heirs) \in Seat BY <1>1, FirstIsFound
  <2>2. Min(others) \in Seat BY <1>1, <1>3, MinInSet
  <2>3. HandOverDeal(r, s) = [r EXCEPT !.rotated = TRUE, !.dealer = heir]
    BY <1>3 DEF HandOverDeal
  <2> HIDE DEF heirs, others
  <2>4. heir \in Seat BY <2>1, <2>2
  <2> HIDE DEF heir
  <2>5. HandOverDeal(r, s) = q BY <2>3
  <2>6. Moved(r, p) BY RotatedMoves
  <2> HIDE DEF p
  <2>7. Moved(p, q) BY <2>4, <2>6, DealerMoves DEF Moved
  <2> QED BY <2>5, <2>6, <2>7, MovedTwice
<1> QED BY <1>2, <1>3

(* Who joins is a newcomer and waits.                                      *)
LEMMA JoinStays ==
    ASSUME NEW r, NEW c, Sound(r, c), NEW s \in Newcomers \ (r.players \cup r.waiting)
    PROVE  LET q == [r EXCEPT !.players = @ \cup {s}, !.connected = @ \cup {s},
                              !.waiting = @ \cup {s},
                              !.dealer = IF @ \in r.players \cap r.connected THEN @ ELSE s]
           IN  Stays(r, q, c)
<1> DEFINE players == r.players \cup {s}
           connected == r.connected \cup {s}
           waiting == r.waiting \cup {s}
           dealer == IF r.dealer \in r.players \cap r.connected THEN r.dealer ELSE s
           q == [r EXCEPT !.players = @ \cup {s}, !.connected = @ \cup {s},
                          !.waiting = @ \cup {s},
                          !.dealer = IF @ \in r.players \cap r.connected THEN @ ELSE s]
<1>1. /\ Shape(r) /\ Books(r) /\ Order(r) /\ Price(r) /\ Round(r, c) /\ Turn(r, c)
      /\ Calls(r, c) /\ Serial(r, c) /\ Waits(r, c) /\ Bettors(r)
  BY DEF Sound
<1>2. s \in Seat BY PiqueAssumption
<1>3. /\ players \subseteq Seat /\ connected \subseteq Seat /\ waiting \subseteq Seat
      /\ dealer \in Seat
  BY <1>1, <1>2 DEF Shape, Seats
<1>4. q = [r EXCEPT !.players = players, !.connected = connected, !.waiting = waiting,
                    !.dealer = dealer]
  OBVIOUS
<1> HIDE DEF players, connected, waiting, dealer, q
<1>5. /\ SameBut({"players", "connected", "waiting", "dealer"}, r, q) /\ q.players = players
      /\ q.connected = connected /\ q.waiting = waiting /\ q.dealer = dealer
  BY <1>1, <1>4 DEF SameBut, Shape, PiqueFields, Fields
<1>6. /\ q.turn = r.turn
      /\ q.folded = r.folded /\ q.passers = r.passers /\ q.acted = r.acted
      /\ q.preBet = r.preBet /\ q.paid = r.paid /\ q.phase = r.phase
      /\ q.chips = r.chips /\ q.balance = r.balance /\ q.debit = r.debit
      /\ q.skewed = r.skewed /\ q.dealing = r.dealing /\ q.completing = r.completing
      /\ q.cleanups = r.cleanups /\ q.reopened = r.reopened
      /\ q.piquePot = r.piquePot /\ q.skipped = r.skipped
  BY <1>5 DEF SameBut, PiqueFields, Fields
<1>7. Shape(q) BY <1>1, <1>3, <1>5, ShapeFrom DEF Seats, Switches, Counts
<1>8. SeatOrder(q) = SeatOrder(r) BY <1>5 DEF SeatOrder, players, waiting
<1>9. Chains(q) = Chains(r) /\ InRound(q) = InRound(r) /\ ChipsOf(q) = ChipsOf(r)
  BY <1>6 DEF Chains, InRound, ChipsOf
<1>10. Order(q) BY <1>1, <1>5, <1>6, <1>8 DEF Order, waiting
<1>11. Books(q) /\ Price(q) /\ Bettors(q)
  BY <1>1, <1>6, <1>8 DEF Books, Price, Bettors
<1>12. Round(q, c) /\ Turn(q, c) /\ Calls(q, c)
  BY <1>1, <1>6, <1>8, <1>9 DEF Round, Turn, Calls
<1>13. Serial(q, c) BY <1>1, <1>9 DEF Serial
<1>14. Waits(q, c) BY <1>1, <1>5, <1>9 DEF Waits, Live, players, waiting
<1>15. ChipsOf(r) \in Int /\ \A t \in r.preBet : r.chips[t] \in Nat
  BY <1>1, ChipsAreInt DEF Shape, Seats
<1>16. Step(r, q) BY <1>6, <1>9, <1>15 DEF Step
<1> QED BY <1>7, <1>10, <1>11, <1>12, <1>13, <1>14, <1>16 DEF Stays, Sound, q

-----------------------------------------------------------------------------
(* The inductive invariant, and the steps.                                 *)

Outside ==
    /\ call \in [seat : Seat \cup {NoSeat}, amount : Nat]
    /\ links \in [grace : SUBSET Seat, mano : SUBSET Seat, leaving : SUBSET Seat]
    /\ fates \in 0..MaxFates /\ failures \in 0..MaxFailures

PiqueInv == Sound(room, call) /\ Outside

LEMMA FirstDealIsSound == Init => PiqueInv
<1> SUFFICES ASSUME Init PROVE PiqueInv OBVIOUS
<1> DEFINE T == RoomWith(Table0, FieldsOfPique)
<1>1. room = EnterPique(T) /\ call = NoCall BY DEF Init
<1>2. /\ DOMAIN Table0 = Fields
      /\ DOMAIN FieldsOfPique = PiqueFields \ Fields
  BY DEF Table0, FieldsOfPique, PiqueFields, Fields
<1>3. /\ DOMAIN T = PiqueFields
      /\ \A f \in Fields : T[f] = Table0[f]
      /\ \A f \in PiqueFields \ Fields : T[f] = FieldsOfPique[f]
  <2>1. Fields \subseteq PiqueFields BY DEF PiqueFields
  <2> QED BY <1>2, <2>1 DEF RoomWith
<1> HIDE DEF T
<1>4. /\ T.phase = "BARAJANDO" /\ T.turn = NoSeat /\ T.mano = NoSeat /\ T.dealer = 1
      /\ T.rotated = FALSE /\ T.piquePot = 0 /\ T.maxBet = 0 /\ T.cleanups = 0
      /\ T.players = Seat \ Newcomers /\ T.connected = Seat \ Newcomers /\ T.waiting = {}
      /\ T.folded = {} /\ T.acted = {} /\ T.allIn = {} /\ T.passed = {} /\ T.declined = {}
      /\ T.yes = {} /\ T.no = {} /\ T.chips = Purse /\ T.balance = Purse /\ T.skewed = {}
      /\ T.mainBet = [s \in Seat |-> 0] /\ T.turnTimer = FALSE /\ T.autoTimer = FALSE
      /\ T.revealTimer = FALSE /\ T.pending = FALSE
  BY ZenonT(60), <1>3 DEF Table0, Fields
<1>5. /\ T.passers = {} /\ T.preBet = {} /\ T.reopened = FALSE /\ T.restarts = 0
      /\ T.passes = [s \in Seat |-> 0] /\ T.dealing = 0 /\ T.completing = 0
      /\ T.debit = NoCall /\ T.deals = 0 /\ T.paid = [s \in Seat |-> 0] /\ T.skipped = FALSE
  BY <1>3 DEF FieldsOfPique, PiqueFields, Fields
<1>6. Purse \in [Seat -> Nat] /\ 1 \in Seat BY PiqueAssumption
<1>7. Shape(T)
  <2>1. \A g \in Seats : T[g] \subseteq Seat BY <1>4, <1>5 DEF Seats
  <2>2. \A b \in Switches : T[b] \in BOOLEAN BY <1>4, <1>5 DEF Switches
  <2>3. \A n \in Counts : T[n] \in Nat BY <1>4, <1>5 DEF Counts
  <2>4. \A m \in {"chips", "paid", "passes"} : T[m] \in [Seat -> Nat] BY <1>4, <1>5, <1>6
  <2>5. T.balance \in [Seat -> Int] /\ T.mainBet \in [Seat -> {0}] BY <1>4, <1>6
  <2>6. T.debit \in [seat : Seat \cup {NoSeat}, amount : Nat] BY <1>5 DEF NoCall
  <2> QED BY <1>3, <1>4, <1>5, <1>6, <2>1, <2>2, <2>3, <2>4, <2>5, <2>6 DEF Shape, PiquePhases
<1>8. Books(T)
  <2>1. \A s \in Seat : Purse[s] - Purse[s] = 0 BY <1>6
  <2> QED BY <1>4, <1>5, <2>1 DEF Books, NoCall
<1>9. Order(T) /\ Chains(T) = 0 /\ T.players \cap Newcomers \subseteq T.waiting
  BY <1>4, <1>5 DEF Order, Chains
<1>10. Sound(room, call) BY <1>1, <1>7, <1>8, <1>9, EnterPiqueSound
<1>11. Outside
  <2>1. NoCall \in [seat : Seat \cup {NoSeat}, amount : Nat] BY DEF NoCall
  <2>2. 0 \in 0..MaxFates /\ 0 \in 0..MaxFailures BY PiqueAssumption
  <2>3. links \in [grace : SUBSET Seat, mano : SUBSET Seat, leaving : SUBSET Seat] BY DEF Init
  <2> QED BY <1>1, <2>1, <2>2, <2>3 DEF Init, Outside
<1> QED BY <1>10, <1>11 DEF PiqueInv

(* One of the handlers ran.                                                *)
Handled == Sound(room', call') /\ Step(room, room')

LEMMA MayActAnswers ==
    ASSUME NEW s, Sound(room, call), MayAct(s) PROVE MayAnswer(room, s) /\ call = NoCall
BY DEF MayAct, MayAnswer

LEMMA PlayersAreHandled ==
    ASSUME PiqueInv, NEW s \in Seat, ClientMessage(s)
    PROVE  Handled
<1> USE DEF PiqueInv
<1>1. CASE Paso(s)
  <2>1. MayAnswer(room, s) /\ call = NoCall BY <1>1, MayActAnswers DEF Paso
  <2>2. PICK juego \in BOOLEAN : room' = Pass(room, s, juego) BY <1>1 DEF Paso
  <2>3. Ends(room, room') BY <2>1, <2>2, PassEnds
  <2>4. call' = NoCall BY <1>1, <2>1 DEF Paso
  <2> QED BY <2>3, <2>4 DEF Ends, Handled
<1>2. ASSUME NEW offer \in Offers, Voy(s, offer) PROVE Handled
  <2> DEFINE amount == Offered(s, offer)
             named == IF room.debit.seat = s THEN Acts(room, s) ELSE RecordEvent(Acts(room, s))
  <2>1. MayAnswer(room, s) /\ call = NoCall BY <1>2, MayActAnswers DEF Voy
  <2>2. Shape(room) /\ Books(room) BY DEF Sound
  <2>3. Spoken(room, s, named) BY <2>2, ActsSpeaks, RecordSpoken
  <2>4. amount \in Nat /\ amount <= room.chips[s]
    <3>1. offer \in Nat /\ room.chips[s] \in Nat BY <2>2, PiqueAssumption DEF Shape
    <3> QED BY <3>1, MinOfTwo DEF Offered
  <2>5. IF amount = 0
        THEN room' = FoldUnfunded(RecordEvent(named), s) /\ UNCHANGED call
        ELSE /\ room' = IF s = room.mano THEN [named EXCEPT !.maxBet = amount] ELSE named
             /\ call' = [seat |-> s, amount |-> amount]
    BY <1>2, Zenon DEF Voy
  <2> HIDE DEF amount, named
  <2>6. CASE amount = 0
    <3> DEFINE noted == RecordEvent(named)
               c == [seat |-> s, amount |-> 0]
    <3>1. Spoken(room, s, noted) BY <2>3, RecordSpoken
    <3> HIDE DEF noted
    <3>2. Ready(noted) /\ Round(noted, c) /\ noted.phase = "PIQUE" BY <2>1, <3>1, SpokenIsReady
    <3>3. Speaks(noted, c) /\ c.seat = s /\ s \in Seat BY <2>1, <3>2, WhoAnswers DEF Speaks
    <3> HIDE DEF c
    <3>4. Ends(noted, FoldUnfunded(noted, s)) BY <3>3, FoldUnfundedEnds
    <3>5. Step(room, FoldUnfunded(noted, s)) BY <3>1, <3>4, SpokenFields, StepFrom DEF Ends
    <3>6. room' = FoldUnfunded(noted, s) /\ call' = NoCall BY <2>1, <2>5, <2>6 DEF noted
    <3> QED BY <3>4, <3>5, <3>6 DEF Ends, Handled
  <2>7. CASE amount # 0
    <3>1. amount \in Nat \ {0} BY <2>4, <2>7
    <3>2. call' = [seat |-> s, amount |-> amount]
          /\ room' \in {named, [named EXCEPT !.maxBet = amount]}
      BY <2>5, <2>7
    <3> DEFINE c == [seat |-> s, amount |-> amount]
               priced == [named EXCEPT !.maxBet = amount]
    <3>3. /\ Sound(named, c) /\ Sound(priced, c)
          /\ Step(room, named) /\ Step(room, priced)
      <4>1. amount \in Nat BY <3>1
      <4> QED BY <2>1, <2>3, <2>4, <3>1, <4>1, OfferIsSound, Zenon
    <3>4. call' = c /\ (room' = named \/ room' = priced) BY <3>2
    <3> HIDE DEF c, priced
    <3> QED BY <3>3, <3>4 DEF Handled
  <2> QED BY <2>6, <2>7
<1>3. ASSUME NEW offer \in Offers, VoyRefused(s, offer) PROVE Handled
  <2> DEFINE q == [ClearTurnTimer(room) EXCEPT !.restarts = 0]
  <2>1. Shape(room) BY DEF Sound
  <2>2. SameBut({"turnTimer", "restarts"}, room, q) /\ q.turnTimer = FALSE /\ q.restarts = 0
    BY <2>1 DEF ClearTurnTimer, SameBut, Shape, PiqueFields, Fields
  <2>3. room' = q /\ call' = call BY <1>3 DEF VoyRefused
  <2> HIDE DEF q
  <2>4. Shape(q)
    <3>1. q.turnTimer \in BOOLEAN /\ q.restarts \in Nat
      <4>1. q.turnTimer \in BOOLEAN BY <2>2, Zenon
      <4>2. q.restarts \in Nat BY <2>2
      <4> QED BY <4>1, <4>2
    <3> DEFINE F == {"turnTimer", "restarts"}
    <3>2. Seats \cap F = {} /\ Switches \cap F = {"turnTimer"} /\ Counts \cap F = {"restarts"}
          /\ {"chips", "paid", "passes"} \cap F = {} /\ F \cap {"balance", "mainBet", "debit"} = {}
          /\ F \cap {"phase", "turn", "mano", "dealer"} = {}
      BY DEF Seats, Switches, Counts
    <3>3. SameBut(F, room, q) BY <2>2
    <3> HIDE DEF F
    <3> QED BY <2>1, <3>1, <3>2, <3>3, ShapeFrom
  <2>5. SameBut(Idle, room, q) BY <2>2 DEF SameBut, Idle
  <2>6. Sound(q, call) /\ ChipsOf(q) = ChipsOf(room) BY <2>4, <2>5, UnaffectedSound, Unaffected
  <2>7. q.chips = room.chips BY <2>2 DEF SameBut, PiqueFields, Fields
  <2>8. ChipsOf(room) \in Int /\ \A t \in room.preBet : room.chips[t] \in Nat
    BY <2>1, ChipsAreInt DEF Shape, Seats
  <2> QED BY <2>3, <2>6, <2>7, <2>8 DEF Handled, Step
<1> QED BY <1>1, <1>2, <1>3 DEF ClientMessage

LEMMA RepliesAreHandled == ASSUME PiqueInv, LedgerReply PROVE Handled
<1> USE DEF PiqueInv
<1>1. Sound(room, call) /\ call \in [seat : Seat \cup {NoSeat}, amount : Nat]
  BY DEF Outside
<1>2. call # NoCall /\ call' = NoCall
  BY DEF LedgerReply, BetAccepted, BetUnfunded, BetFailed, BetLost, Answered
<1>3. /\ Ready(room) /\ Shape(room) /\ Books(room) /\ Speaks(room, call) /\ call.seat \in Seat
  BY <1>1, <1>2, WhoIsCalled DEF Ready
<1>4. CASE BetAccepted
  <2>1. room.debit \in {NoCall, call} BY <1>4 DEF BetAccepted, Repeatable
  <2>2. Ends(room, room') BY <1>1, <1>2, <1>4, <2>1, BetAcceptedEnds, Zenon DEF BetAccepted
  <2> QED BY <1>2, <2>2 DEF Ends, Handled
<1>5. CASE BetUnfunded
  <2>1. Ends(room, room') BY <1>3, <1>5, FoldUnfundedEnds DEF BetUnfunded
  <2> QED BY <1>2, <2>1 DEF Ends, Handled
<1>6. CASE BetFailed
  <2> DEFINE acted == room.acted \ {call.seat}
             q == [room EXCEPT !.acted = acted]
  <2>1. room' = q BY <1>6 DEF BetFailed
  <2>2. acted \subseteq Seat BY <1>3 DEF Shape, Seats
  <2> HIDE DEF acted
  <2>3. SameBut({"acted"}, room, q) /\ q.acted = acted
    BY <1>3 DEF SameBut, Shape, PiqueFields, Fields
  <2> HIDE DEF q
  <2>4. Shape(q) BY <1>3, <2>2, <2>3, ShapeFrom DEF Seats, Switches, Counts
  <2>5. Books(q) BY <1>3, <2>3 DEF Books, SameBut, PiqueFields, Fields
  <2>6. SameBut({"acted", "balance", "debit"}, room, q) BY <2>3 DEF SameBut
  <2>7. Sound(q, NoCall) /\ Step(room, q)
    BY <1>1, <1>2, <2>3, <2>4, <2>5, <2>6, TryAgainSound DEF acted
  <2> QED BY <1>2, <2>1, <2>7 DEF Handled
<1>7. CASE BetLost
  <2> DEFINE acted == room.acted \ {call.seat}
             debited == Debited(room, call)
             q == [debited EXCEPT !.acted = acted, !.debit = call]
  <2>1. room.debit \in {NoCall, call} BY <1>7 DEF BetLost, Repeatable
  <2>2. /\ SameBut({"balance", "debit"}, room, debited)
        /\ debited.balance \in [Seat -> Int]
        /\ \A s \in Seat \ room.skewed :
             room.chips[s] - debited.balance[s] = IF s = call.seat THEN call.amount ELSE 0
    BY <1>1, <1>3, <2>1, DebitedBooks
  <2>3. room' = q
    <3>1. debited.acted = room.acted BY <2>2 DEF SameBut, PiqueFields, Fields
    <3> QED BY <1>7, <3>1 DEF BetLost
  <2>4. acted \subseteq Seat BY <1>3 DEF Shape, Seats
  <2> HIDE DEF acted, debited
  <2>5. /\ SameBut({"acted", "balance", "debit"}, room, q) /\ q.acted = acted
        /\ q.debit = call /\ q.balance = debited.balance
    BY <2>2 DEF SameBut, PiqueFields, Fields
  <2> HIDE DEF q
  <2>6. Shape(q)
    <3>1. \A g \in Seats : q[g] \subseteq Seat
      <4>1. \A g \in Seats \ {"acted"} : q[g] = room[g]
        BY <2>5 DEF SameBut, PiqueFields, Fields, Seats
      <4> QED BY <1>3, <2>4, <2>5, <4>1 DEF Shape
    <3>2. \A b \in Switches : q[b] \in BOOLEAN
      <4>1. \A b \in Switches : q[b] = room[b]
        BY <2>5 DEF SameBut, PiqueFields, Fields, Switches
      <4> QED BY <1>3, <4>1, Zenon DEF Shape
    <3>3. \A n \in Counts : q[n] \in Nat
      <4>1. \A n \in Counts : q[n] = room[n] BY <2>5 DEF SameBut, PiqueFields, Fields, Counts
      <4> QED BY <1>3, <4>1 DEF Shape
    <3>4. /\ q.phase = room.phase /\ q.turn = room.turn /\ q.mano = room.mano
          /\ q.dealer = room.dealer /\ q.chips = room.chips /\ q.paid = room.paid
          /\ q.passes = room.passes /\ q.mainBet = room.mainBet /\ DOMAIN q = PiqueFields
      BY <2>5 DEF SameBut, PiqueFields, Fields
    <3>5. \A m \in {"chips", "paid", "passes"} : q[m] \in [Seat -> Nat]
      BY <1>3, <3>4 DEF Shape
    <3> QED BY <1>1, <1>3, <2>2, <2>5, <3>1, <3>2, <3>3, <3>4, <3>5 DEF Shape
  <2>7. Books(q)
    <3>1. q.chips = room.chips /\ q.skewed = room.skewed
      BY <2>5 DEF SameBut, PiqueFields, Fields
    <3> QED BY <2>2, <2>5, <3>1 DEF Books
  <2>8. Sound(q, NoCall) /\ Step(room, q)
    BY <1>1, <1>2, <2>5, <2>6, <2>7, TryAgainSound DEF acted
  <2> QED BY <1>2, <2>3, <2>8 DEF Handled
<1> QED BY <1>4, <1>5, <1>6, <1>7 DEF LedgerReply

LEMMA TimersAreHandled == ASSUME PiqueInv, Timer \/ DismissReveal PROVE Handled
<1> USE DEF PiqueInv
<1>1. Shape(room) /\ Sound(room, call) BY DEF Sound
<1>2. CASE TurnTimeout
  <2> DEFINE quiet == ClearTurnTimer(room)
  <2>1. IF room.turn \in room.connected /\ MayAct(room.turn)
        THEN \E juego \in BOOLEAN : room' = Pass(quiet, room.turn, juego)
        ELSE room' = quiet
    BY <1>2, Zenon DEF TurnTimeout
  <2>2. call' = call BY <1>2 DEF TurnTimeout
  <2>3. CASE MayAct(room.turn) /\ \E juego \in BOOLEAN : room' = Pass(quiet, room.turn, juego)
    <3>1. MayAnswer(room, room.turn) /\ call = NoCall BY <2>3, MayActAnswers
    <3>2. Ends(room, room') BY <1>1, <2>3, <3>1, TimeIsUp
    <3> QED BY <2>2, <3>1, <3>2 DEF Ends, Handled
  <2>4. CASE room' = quiet BY <1>1, <2>2, <2>4, TimeIsUp DEF Handled
  <2> QED BY <2>1, <2>3, <2>4
<1>3. CASE DealDone
  <2>1. room.dealing > 0 /\ call' = call BY <1>3 DEF DealDone
  <2>2. Chains(room) # 0 BY <1>1, <2>1, NoChains DEF Shape, Counts
  <2>3. call = NoCall BY <1>1, <2>2, ChainIsOver
  <2>4. Ends(room, room') BY <1>1, <1>3, <2>1, <2>3, DealDoneEnds DEF DealDone
  <2> QED BY <2>1, <2>3, <2>4 DEF Ends, Handled
<1>4. CASE CompletarDone
  <2>1. room.completing > 0 /\ call' = call BY <1>4 DEF CompletarDone
  <2>2. Chains(room) # 0 BY <1>1, <2>1, NoChains DEF Shape, Counts
  <2>3. call = NoCall BY <1>1, <2>2, ChainIsOver
  <2>4. Ends(room, room') BY <1>1, <1>4, <2>1, <2>3, CompletarDoneEnds DEF CompletarDone
  <2> QED BY <2>1, <2>3, <2>4 DEF Ends, Handled
<1>5. CASE EndHand
  <2>1. room.cleanups > 0 /\ call' = call BY <1>5 DEF EndHand
  <2>2. Chains(room) # 0 BY <1>1, <2>1, NoChains DEF Shape, Counts
  <2>3. call = NoCall BY <1>1, <2>2, ChainIsOver
  <2>4. Ends(room, room') BY <1>1, <1>5, <2>1, <2>3, EndHandEnds DEF EndHand
  <2> QED BY <2>1, <2>3, <2>4 DEF Ends, Handled
<1>6. CASE DismissReveal
  <2>1. room.phase = "PIQUE_REVEAL" /\ call' = call BY <1>6 DEF DismissReveal
  <2>2. call = NoCall BY <1>1, <2>1, WhoIsCalled
  <2>3. Ends(room, room') BY <1>1, <1>6, <2>1, <2>2, DismissEnds DEF DismissReveal
  <2> QED BY <2>1, <2>2, <2>3 DEF Ends, Handled
<1> QED BY <1>2, <1>3, <1>4, <1>5, <1>6 DEF Timer

LEMMA ConnectionsAreHandled ==
    ASSUME PiqueInv, NEW s \in Seat, Connection(s)
    PROVE  Handled
<1> USE DEF PiqueInv
<1>1. Shape(room) /\ Sound(room, call) BY DEF Sound
<1>2. call' = call
  BY DEF Connection, Disconnect, Reconnect, GraceExpires, Leave, LeaveDone, Abandon, Join
<1>3. SUFFICES Stays(room, room', call) BY <1>2 DEF Handled, Stays
<1>4. CASE Disconnect(s) BY <1>1, <1>4, OfflineStays DEF Disconnect
<1>5. CASE Reconnect(s)
  <2>1. room.connected \cup {s} \in SUBSET Seat BY <1>1, OrderInSeat
  <2>2. room' = [room EXCEPT !.connected = room.connected \cup {s}] BY <1>5 DEF Reconnect
  <2> QED BY <1>1, <2>1, <2>2, ConnectedStays
<1>6. CASE GraceExpires(s)
  <2> DEFINE q == IF s \in links.mano THEN TransferMano(room) ELSE room
  <2>1. room' = RemovePlayer(q, s) BY <1>6, Zenon DEF GraceExpires
  <2>2. Moved(room, q) BY <1>1, TransferManoMoves, MovedSame
  <2> HIDE DEF q
  <2>3. Stays(room, q, call) BY <1>1, <2>2, MovedStays
  <2>4. Stays(q, RemovePlayer(q, s), call) BY <2>3, RemovePlayerStays DEF Stays
  <2>5. q.chips = room.chips /\ q.preBet = room.preBet /\ q.connected = room.connected
    BY <2>2, MovedIsIdle
  <2> QED BY <1>1, <2>1, <2>3, <2>4, <2>5, StaysTwice
<1>7. CASE Leave(s)
  <2> DEFINE off == Offline(room, s)
             q == IF WasMano(s) THEN TransferMano(off) ELSE off
  <2>1. room' = HandOverDeal(q, s) BY <1>7, Zenon DEF Leave
  <2>2. Stays(room, off, call) BY <1>1, OfflineStays
  <2> HIDE DEF off
  <2>3. Shape(off) BY <2>2 DEF Stays, Sound
  <2>4. Moved(off, q) BY <2>3, TransferManoMoves, MovedSame
  <2> HIDE DEF q
  <2>5. Moved(q, HandOverDeal(q, s)) BY <2>4, HandOverDealMoves DEF Moved
  <2>6. Moved(off, HandOverDeal(q, s)) BY <2>4, <2>5, MovedTwice
  <2> DEFINE p == HandOverDeal(q, s)
  <2> HIDE DEF p
  <2>7. Moved(off, p) BY <2>6 DEF p
  <2>8. Sound(p, call) /\ ChipsOf(p) = ChipsOf(off) /\ p.chips = off.chips
    BY <2>2, <2>7, MovedIsIdle, UnaffectedSound, Unaffected DEF Stays
  <2>9. Stays(room, p, call) BY <2>2, <2>8 DEF Stays, Step
  <2> QED BY <2>1, <2>9 DEF p
<1>8. CASE LeaveDone(s) BY <1>1, <1>8, RemovePlayerStays DEF LeaveDone
<1>9. CASE Abandon(s) BY <1>1, <1>9, RemovePlayerStays DEF Abandon
<1>10. CASE Join(s) BY <1>1, <1>10, JoinStays, Zenon DEF Join
<1> QED BY <1>4, <1>5, <1>6, <1>7, <1>8, <1>9, <1>10 DEF Connection

(* No handler breaks the invariant, mints chips or charges the wrong one.  *)
LEMMA NextIsHandled == PiqueInv /\ Next => Handled
BY PlayersAreHandled, ConnectionsAreHandled, RepliesAreHandled, TimersAreHandled DEF Next

-----------------------------------------------------------------------------
(* What is not in the record: the call, the links and the two counters.    *)

LEMMA OutsideIsKept == ASSUME PiqueInv, Next PROVE Outside'
<1> DEFINE Record == [seat : Seat \cup {NoSeat}, amount : Nat]
           Links == [grace : SUBSET Seat, mano : SUBSET Seat, leaving : SUBSET Seat]
<1>1. /\ call \in Record /\ links \in Links
      /\ fates \in 0..MaxFates /\ failures \in 0..MaxFailures
  BY DEF PiqueInv, Outside
<1>2. Shape(room) /\ MaxFates \in Nat /\ MaxFailures \in Nat
  BY PiqueAssumption DEF PiqueInv, Sound
<1>3. NoCall \in Record BY DEF NoCall
<1>4. SUFFICES /\ call' \in Record /\ links' \in Links
               /\ fates' \in 0..MaxFates /\ failures' \in 0..MaxFailures
  BY DEF Outside
<1>5. ASSUME NEW s \in Seat, ClientMessage(s)
      PROVE  call' \in Record /\ links' = links /\ fates' = fates /\ failures' = failures
  <2>1. CASE Paso(s) BY <1>1, <2>1 DEF Paso
  <2>2. ASSUME NEW offer \in Offers, VoyRefused(s, offer)
        PROVE  call' \in Record /\ links' = links /\ fates' = fates /\ failures' = failures
    BY <1>1, <2>2 DEF VoyRefused
  <2>3. ASSUME NEW offer \in Offers, Voy(s, offer)
        PROVE  call' \in Record /\ links' = links /\ fates' = fates /\ failures' = failures
    <3> DEFINE amount == Offered(s, offer)
    <3>1. amount \in Nat
      <4>1. offer \in Nat /\ room.chips[s] \in Nat BY <1>2, PiqueAssumption DEF Shape
      <4> QED BY <4>1, MinOfTwo DEF Offered
    <3>2. call' = call \/ call' = [seat |-> s, amount |-> amount] BY <2>3 DEF Voy
    <3>3. links' = links /\ fates' = fates /\ failures' = failures BY <2>3 DEF Voy
    <3> HIDE DEF amount
    <3> QED BY <1>1, <3>1, <3>2, <3>3
  <2> QED BY <1>5, <2>1, <2>2, <2>3 DEF ClientMessage
<1>6. ASSUME LedgerReply
      PROVE  call' = NoCall /\ links' = links /\ fates' = fates /\ failures' \in 0..MaxFailures
  <2>1. PICK reply \in Replies : Answered(reply)
    BY <1>6 DEF LedgerReply, BetAccepted, BetUnfunded, BetFailed, BetLost, Answered
  <2>2. failures' = failures \/ (failures < MaxFailures /\ failures' = failures + 1)
    BY <2>1 DEF Answered
  <2>3. failures' \in 0..MaxFailures BY <1>1, <1>2, <2>2
  <2> QED BY <2>1, <2>3 DEF Answered
<1>7. ASSUME Timer \/ DismissReveal
      PROVE  call' = call /\ links' = links /\ fates' = fates /\ failures' = failures
  BY <1>7 DEF Timer, TurnTimeout, DealDone, CompletarDone, EndHand, DismissReveal
<1>8. ASSUME NEW s \in Seat, Connection(s)
      PROVE  call' = call /\ links' \in Links /\ fates' \in 0..MaxFates /\ failures' = failures
  <2>1. call' = call /\ failures' = failures
    BY <1>8 DEF Connection, Disconnect, Reconnect, GraceExpires, Leave, LeaveDone, Abandon, Join
  <2>2. fates' = fates \/ (fates < MaxFates /\ fates' = fates + 1)
    BY <1>8 DEF Connection, Disconnect, Reconnect, GraceExpires, Leave, LeaveDone, Abandon, Join,
                MayLose
  <2>3. fates' \in 0..MaxFates BY <1>1, <1>2, <2>2
  <2>4. links' \in Links
    <3>1. CASE Disconnect(s)
      <4>1. links' = [links EXCEPT !.grace = @ \cup {s},
                                   !.mano = IF WasMano(s) THEN @ \cup {s} ELSE @ \ {s}]
        BY <3>1 DEF Disconnect
      <4> QED BY <1>1, <4>1
    <3>2. CASE Reconnect(s) BY <1>1, <3>2 DEF Reconnect
    <3>3. CASE GraceExpires(s) BY <1>1, <3>3 DEF GraceExpires
    <3>4. CASE Leave(s)
      <4>1. links' = [links EXCEPT !.leaving = @ \cup {s}] BY <3>4 DEF Leave
      <4> QED BY <1>1, <4>1
    <3>5. CASE LeaveDone(s) BY <1>1, <3>5 DEF LeaveDone
    <3>6. CASE Abandon(s) BY <1>1, <3>6 DEF Abandon
    <3>7. CASE Join(s) BY <1>1, <3>7 DEF Join
    <3> QED BY <1>8, <3>1, <3>2, <3>3, <3>4, <3>5, <3>6, <3>7 DEF Connection
  <2> QED BY <2>1, <2>3, <2>4
<1> HIDE DEF Record, Links
<1> QED BY <1>1, <1>3, <1>5, <1>6, <1>7, <1>8 DEF Next

(* A step that leaves the room alone makes no chips either.                *)
LEMMA NoStepHandles == ASSUME PiqueInv, room' = room, call' = call PROVE Handled
<1>1. Sound(room, call) /\ Shape(room) BY DEF PiqueInv, Sound
<1>2. ChipsOf(room) \in Int /\ \A s \in room.preBet : room.chips[s] \in Nat
  <2>1. room.preBet \subseteq Seat /\ room.chips \in [Seat -> Nat] BY <1>1 DEF Shape, Seats
  <2> QED BY <1>1, <2>1, ChipsAreInt
<1> QED BY <1>1, <1>2 DEF Handled, Step

LEMMA PiqueInvIsInductive == PiqueInv /\ [Next]_vars => PiqueInv' /\ Handled
<1> SUFFICES ASSUME PiqueInv, [Next]_vars PROVE PiqueInv' /\ Handled OBVIOUS
<1>1. CASE Next
  <2>1. Handled BY <1>1, NextIsHandled
  <2>2. Outside' BY <1>1, OutsideIsKept
  <2>3. Sound(room, call)' BY <2>1 DEF Handled
  <2> QED BY <2>1, <2>2, <2>3 DEF PiqueInv
<1>2. CASE UNCHANGED vars
  <2>1. room' = room /\ call' = call /\ links' = links /\ fates' = fates /\ failures' = failures
    BY <1>2 DEF vars
  <2>2. Handled BY <2>1, NoStepHandles
  <2>3. Sound(room, call)' BY <2>2 DEF Handled
  <2>4. Outside' BY <2>1 DEF PiqueInv, Outside
  <2> QED BY <2>2, <2>3, <2>4 DEF PiqueInv
<1> QED BY <1>1, <1>2

LEMMA PiqueInvHolds == Spec => []PiqueInv
BY FirstDealIsSound, PiqueInvIsInductive, PTL DEF Spec

-----------------------------------------------------------------------------
(* The theorems.                                                           *)

(* Whatever the clients, the ledger and the network do, the state of the   *)
(* pique is made of what its fields are declared for; in particular no     *)
(* refund, bet or banda takes a player's chips or the pot below zero       *)
(* (restartPique, collectPiqueBanda and onVoy of MesaRoom).                *)
THEOREM PiqueTypeCorrect == Spec => []TypeOK
<1>1. PiqueInv => TypeOK
  <2> SUFFICES ASSUME PiqueInv PROVE TypeOK OBVIOUS
  <2>1. Shape(room) /\ Outside BY DEF PiqueInv, Sound
  <2>2. Groups \cup {"passers", "preBet"} = Seats BY DEF Groups, Seats
  <2>3. Flags \cup {"reopened", "skipped"} = Switches BY DEF Flags, Switches
  <2>4. call.seat \in Seat \cup {NoSeat} /\ call.amount \in Nat BY <2>1 DEF Outside
  <2>5. \A g \in Groups \cup {"passers", "preBet"} : room[g] \subseteq Seat
    BY <2>1, <2>2 DEF Shape
  <2>6. \A b \in Flags \cup {"reopened", "skipped"} : room[b] \in BOOLEAN
    BY <2>1, <2>3, Zenon DEF Shape
  <2>7. room.phase \in {"BARAJANDO", "PIQUE", "PIQUE_REVEAL", "COMPLETAR", "APUESTA_4_CARTAS",
                        "LOBBY"}
    BY <2>1 DEF Shape, PiquePhases
  <2>8. /\ room.turn \in Seat \cup {NoSeat} /\ room.mano \in Seat \cup {NoSeat}
        /\ room.dealer \in Seat
        /\ \A n \in Counts : room[n] \in Nat
        /\ \A m \in {"chips", "paid", "passes"} : room[m] \in [Seat -> Nat]
    BY <2>1 DEF Shape
  <2>9. /\ links \in [grace : SUBSET Seat, mano : SUBSET Seat, leaving : SUBSET Seat]
        /\ fates \in 0..MaxFates /\ failures \in 0..MaxFailures
    BY <2>1 DEF Outside
  <2> QED BY <2>4, <2>5, <2>6, <2>7, <2>8, <2>9, Zenon DEF TypeOK, Counts
<1> QED BY <1>1, PiqueInvHolds, PTL

(* Nobody is dealt the two other cards for nothing: however the bets are   *)
(* refused, lost and repeated, the players leave and the passers are asked *)
(* again, at the end of the round of the pique everybody who is still in   *)
(* has a bet in its pot (advanceTurnPhase2 and completarMano of MesaRoom). *)
THEOREM EveryoneInHasPaid == Spec => []PaidToPlay
<1>1. PiqueInv => PaidToPlay
  <2> SUFFICES ASSUME PiqueInv PROVE PaidToPlay OBVIOUS
  <2>1. Bettors(room) BY DEF PiqueInv, Sound
  <2> QED BY <2>1 DEF Bettors, PaidToPlay, Active
<1> QED BY <1>1, PiqueInvHolds, PTL

(* The turn of the pique is never left with a player who is out or has     *)
(* spoken, who could not answer it (advanceTurnPhase2 of MesaRoom).        *)
THEOREM TurnIsAnswerable == Spec => []TurnCanAct
<1>1. PiqueInv => TurnCanAct
  <2> SUFFICES ASSUME PiqueInv PROVE TurnCanAct OBVIOUS
  <2>1. Turn(room, call) /\ Shape(room) BY DEF PiqueInv, Sound
  <2>2. NoSeat \notin room.players BY <2>1 DEF Shape, Seats, Seat, NoSeat
  <2> QED BY <2>1, <2>2 DEF Turn, TurnCanAct
<1> QED BY <1>1, PiqueInvHolds, PTL

(* A bet whose reply was lost, tried again or left alone, is debited once: *)
(* chips in RAM and wallet in the ledger differ by that bet only (onVoy of *)
(* MesaRoom and recordBet of SupabaseService).                             *)
THEOREM BetsAreDebitedOnce == Spec => []DebitedOnce
<1>1. PiqueInv => DebitedOnce
  <2> SUFFICES ASSUME PiqueInv PROVE DebitedOnce OBVIOUS
  <2>1. Books(room) /\ Shape(room) BY DEF PiqueInv, Sound
  <2>2. room.players \subseteq Seat BY <2>1, OrderInSeat
  <2> QED BY <2>1, <2>2 DEF Books, DebitedOnce
<1> QED BY <1>1, PiqueInvHolds, PTL

(* No step makes chips: what the players hold and the pot of the pique     *)
(* only pass from one to the other, in refunds and bandas as well          *)
(* (restartPique, abortPique and collectPiqueBanda of MesaRoom).           *)
THEOREM ChipsAreHandedOn == Spec => NothingMinted
<1>1. PiqueInv /\ [Next]_vars => [ChipsOf(room') <= ChipsOf(room)]_vars
  BY PiqueInvIsInductive DEF Handled, Step
<1> QED BY <1>1, PiqueInvHolds, PTL DEF Spec, NothingMinted

(* The banda is only owed by players who passed and have nothing in the    *)
(* pot, and who passed before there was a price is asked again before he   *)
(* is charged (reopenPiqueForPassers of MesaRoom).                         *)
THEOREM BandaIsOnlyOwed == Spec => BandaIsOwed
<1> DEFINE Owed == /\ \A s \in room'.passers : room'.paid[s] = 0
                   /\ \A s \in room.preBet \cap room.connected : room'.chips[s] >= room.chips[s]
<1>1. PiqueInv /\ [Next]_vars => [Owed]_vars
  <2> SUFFICES ASSUME PiqueInv, [Next]_vars PROVE Owed OBVIOUS
  <2>1. Handled BY PiqueInvIsInductive
  <2>2. Price(room') /\ Step(room, room') BY <2>1 DEF Handled, Sound
  <2> QED BY <2>2 DEF Price, Step
<1> QED BY <1>1, PiqueInvHolds, PTL DEF Spec, BandaIsOwed
=============================================================================
