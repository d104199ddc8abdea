--------------------------- MODULE FourCards_proofs ---------------------------
(***************************************************************************)
(* Module FourCards for any number of seats, purses, calls and lost        *)
(* connections, as long as no client bets while the room is busy with      *)
(* something else (Hasty = FALSE).  The invariant is "Sound": what the     *)
(* record looks like, that the room waits for one thing at a time, and who *)
(* the pique was decided for.  A helper either keeps the fields that       *)
(* matter to it (Keeps), or is entered with a room that waits for nothing  *)
(* (Ready) and leaves a sound one.                                         *)
(***************************************************************************)
EXTENDS FourCards, Sums

F4 == Fields \cup
    {"asked", "claims", "callers", "validators", "validationTimer", "collect", "callerId",
     "winners", "contestants", "continuation", "reopenCallers", "missing", "dealing",
     "dealFrom", "booked", "away"}

Phases4 == {"APUESTA_4_CARTAS", "JUEGO_VALIDACION", "PIQUE_REVEAL", "SHOWDOWN", "DESCARTE",
            "COMPLETAR_DESCARTE", "REVELAR_CARTA", "LOBBY"}

Sets4 == Groups \cup {"asked", "validators", "winners", "contestants", "dealing", "away"}
Seats4 == {"turn", "mano", "pasoBy", "callerId", "dealFrom"}
Counts4 == {"pot", "piquePot", "maxBet", "cleanups"}
Call == [seat : Seat, amount : Nat \ {0}]
Collection == [left : Seq(Call), all : Seq(Call), amount : Nat, main : Seat \cup {NoSeat},
               paid : Nat]

(* What the value of a field may be.                                       *)
Typed(f, v) ==
    /\ f = "phase" => v \in Phases4
    /\ f = "dealer" => v \in Seat
    /\ f \in Seats4 => v \in Seat \cup {NoSeat}
    /\ f \in Sets4 => v \subseteq Seat
    /\ f \in Flags \cup {"validationTimer"} => v \in BOOLEAN
    /\ f \in Counts4 => v \in Nat
    /\ f \in {"roundBet", "mainBet", "booked"} => v \in [Seat -> Nat]
    /\ f \in {"chips", "balance"} => v \in [Seat -> Int]
    /\ f = "cards" => v \in [Seat -> 0..MaxHand]
    /\ f = "missing" => v \in [Seat -> 0..4]
    /\ f = "claims" => v \in Seq(Seat)
    /\ f \in {"callers", "reopenCallers"} => v \in Seq(Call)
    /\ f = "collect" => v \in Collection

Shape(r) ==
    /\ DOMAIN r = F4 /\ \A f \in F4 : Typed(f, r[f])
    /\ \A s \in Seat : r.roundBet[s] <= r.mainBet[s]

(* The room waits for one thing at a time: for nothing but a move ...      *)
Rest(r) ==
    /\ r.pasoBy \notin r.players /\ ~r.validationTimer /\ r.collect = NoCall /\ r.dealing = {}
    /\ r.phase = "JUEGO_VALIDACION" => r.asked = {}

(* ... for the answer to a question about juego ...                        *)
Asks(r) ==
    /\ ~r.validationTimer /\ r.collect = NoCall /\ r.dealing = {} /\ ~r.turnTimer
    /\ \/ r.phase = "APUESTA_4_CARTAS" /\ r.turn = r.pasoBy
       \/ r.phase = "LOBBY"

(* ... for the answers to a validation ...                                 *)
Validates(r) ==
    /\ r.pasoBy \notin r.players /\ r.validationTimer /\ r.collect = NoCall /\ r.dealing = {}
    /\ r.phase \in {"JUEGO_VALIDACION", "LOBBY"} /\ ~r.turnTimer

(* ... for the ledger's answer to a call ...                               *)
Collects(r) ==
    LET c == r.collect
    IN  /\ r.pasoBy \notin r.players /\ ~r.validationTimer /\ c # NoCall /\ r.dealing = {}
        /\ r.phase \in {"JUEGO_VALIDACION", "APUESTA_4_CARTAS", "LOBBY"} /\ ~r.turnTimer
        /\ r.phase = "JUEGO_VALIDACION" => r.asked = {}
        /\ c.left # <<>> /\ c.amount \in 1..r.chips[Head(c.left).seat]
        /\ c.paid > 0 => /\ c.main # NoSeat
                         /\ r.cards[c.main] = 0 \/ c.paid <= r.roundBet[c.main]

(* ... for the next card ...                                               *)
Deals4(r) ==
    /\ r.pasoBy \notin r.players /\ ~r.validationTimer /\ r.collect = NoCall /\ r.dealing # {}
    /\ r.phase \in {"COMPLETAR_DESCARTE", "LOBBY"}
    /\ \A s \in r.dealing : r.missing[s] > 0

(* ... or for the ledger's answer to a bet.                                *)
Bets(r, b) ==
    /\ Rest(r) /\ r.phase \in {"APUESTA_4_CARTAS", "LOBBY"}
    /\ b.seat \in Seat /\ b.amount \in Int /\ b.amount <= r.chips[b.seat]
    /\ b.kind \in {"voy", "igualar", "resto"}

Waits(r, b) ==
    IF b = NoBet THEN Rest(r) \/ Asks(r) \/ Validates(r) \/ Collects(r) \/ Deals4(r)
    ELSE Bets(r, b)

(* The winners of the pique: none of the competition beats them, but for   *)
(* the point of La Mano.                                                   *)
Decided(r) ==
    r.phase = "SHOWDOWN" /\ r.piquePot > 0 =>
      \A s \in r.winners \cap r.players :
        s \in r.passed /\ \A t \in r.contestants \cap r.players : Hand(r, t) <= Hand(r, s) + 1

(* While no connection was lost: who passed or claimed has juego, and the  *)
(* competition are all of them.                                            *)
Fair(r) ==
    /\ r.players = Seat
    /\ r.pasoBy # NoSeat => r.maxBet > 0
    /\ r.validationTimer =>
         /\ r.maxBet = 0
         /\ \A i \in DOMAIN r.claims : TieneJuego(Hand(r, r.claims[i]))
         /\ \A s \in r.validators : TieneJuego(Hand(r, s))
    /\ r.piquePot > 0 =>
         /\ \A s \in r.passed : TieneJuego(Hand(r, s))
         /\ r.phase # "SHOWDOWN" /\ r.maxBet = 0 => r.passed = {}
         /\ r.phase = "SHOWDOWN" =>
              \A s \in r.winners : \A t \in r.passed : Hand(r, t) <= Hand(r, s) + 1

Sound(r, b, calm) == Shape(r) /\ Waits(r, b) /\ Decided(r) /\ (calm => Fair(r))

NoLinks == [grace |-> {}, mano |-> {}, leaving |-> {}]

Inv ==
    /\ Sound(room, bet, fates = 0)
    /\ links \in [grace : SUBSET Seat, mano : SUBSET Seat, leaving : SUBSET Seat]
    /\ fates \in 0..MaxFates /\ (fates = 0 => links = NoLinks)

(* Entered by the handlers that go on with the hand.                       *)
Ready(r, calm) == Shape(r) /\ Rest(r) /\ r.phase # "SHOWDOWN" /\ (calm => Fair(r))

Ends(r, calm) == Sound(r, NoBet, calm)

-----------------------------------------------------------------------------
(* The seats that the code's loops look for exist.                         *)

LEMMA MinInSet == ASSUME NEW C \in SUBSET Seat, C # {} PROVE Min(C) \in C
<1>1. C \in SUBSET Nat BY DEF Seat
<1> QED BY <1>1, MinIsLeast

LEMMA DistancesAreNat ==
    ASSUME NEW x \in Seat \cup {NoSeat}, NEW s \in Seat
    PROVE  StepsFrom(x, s) \in Nat /\ StepsAfter(x, s) \in Nat
BY NAssumption DEF StepsFrom, StepsAfter, Seat, NoSeat

(* The loops over seatOrder find a seat of the set they look for.          *)
LEMMA FirstIsFound ==
    ASSUME NEW x \in Seat \cup {NoSeat}, NEW C \in SUBSET Seat, C # {}
    PROVE  FirstFrom(x, C) \in C /\ FirstAfter(x, C) \in C
<1> DEFINE from  == [s \in C |-> StepsFrom(x, s)]
           after == [s \in C |-> StepsAfter(x, s)]
<1>1. from \in [C -> Nat] /\ after \in [C -> Nat] BY DistancesAreNat
<1> HIDE DEF from, after
<1>2. /\ \E s \in C : \A t \in C : from[s] <= from[t]
      /\ \E s \in C : \A t \in C : after[s] <= after[t]
  BY <1>1, NearestExists
<1> USE DEF from, after
<1> QED BY <1>2 DEF FirstFrom, FirstAfter

(* resolveHandWinners: among one player or more somebody wins.             *)
LEMMA SomebodyWins ==
    ASSUME NEW competitors \in SUBSET Seat, competitors # {},
           NEW eval \in [Seat -> 0..MaxHand], NEW mano
    PROVE  /\ ResolveHandWinners(competitors, eval, mano) # {}
           /\ ResolveHandWinners(competitors, eval, mano) \subseteq competitors
<1> DEFINE Value(p) == WithManoBonus(eval[p], p = mano)
           behind == [p \in competitors |-> 500 - Value(p)]
<1>1. \A p \in competitors : Value(p) \in 0..500 BY DEF WithManoBonus, MaxHand
<1>2. behind \in [competitors -> Nat] BY <1>1
<1>3. PICK p \in competitors : \A q \in competitors : behind[p] <= behind[q]
  <2> HIDE DEF behind
  <2> QED BY <1>2, NearestExists
<1>4. ASSUME NEW q \in competitors PROVE Value(p) >= Value(q)
  <2>1. 500 - Value(p) <= 500 - Value(q) BY <1>3
  <2>2. Value(p) \in Int /\ Value(q) \in Int BY <1>1
  <2> HIDE DEF Value, behind
  <2> QED BY <2>1, <2>2
<1> QED BY <1>4 DEF ResolveHandWinners

-----------------------------------------------------------------------------
(* The shape of the record.                                                *)

SameBut(F, r, q) == DOMAIN q = F4 /\ \A f \in F4 \ F : q[f] = r[f]

LEMMA ShapeFrame ==
    ASSUME NEW F, NEW r, NEW q, Shape(r), SameBut(F, r, q), \A f \in F : Typed(f, q[f]),
           \A s \in Seat : q.roundBet[s] <= q.mainBet[s]
    PROVE  Shape(q)
BY DEF Shape, SameBut

(* A change of fields that hold no bets.                                   *)
LEMMA ShapeFrameNoBets ==
    ASSUME NEW F, NEW r, NEW q, Shape(r), SameBut(F, r, q), \A f \in F : Typed(f, q[f]),
           "roundBet" \notin F, "mainBet" \notin F
    PROVE  Shape(q)
<1>1. q.roundBet = r.roundBet /\ q.mainBet = r.mainBet BY DEF SameBut, F4, Fields
<1> QED BY <1>1, ShapeFrame DEF Shape

LEMMA ShapeFields ==
    ASSUME NEW r, Shape(r)
    PROVE  /\ DOMAIN r = F4
           /\ r.phase \in Phases4 /\ r.dealer \in Seat
           /\ r.turn \in Seat \cup {NoSeat} /\ r.mano \in Seat \cup {NoSeat}
           /\ r.pasoBy \in Seat \cup {NoSeat} /\ r.callerId \in Seat \cup {NoSeat}
           /\ r.dealFrom \in Seat \cup {NoSeat}
           /\ r.pot \in Nat /\ r.piquePot \in Nat /\ r.maxBet \in Nat /\ r.cleanups \in Nat
           /\ r.roundBet \in [Seat -> Nat] /\ r.mainBet \in [Seat -> Nat]
           /\ r.booked \in [Seat -> Nat]
           /\ r.chips \in [Seat -> Int] /\ r.balance \in [Seat -> Int]
           /\ r.cards \in [Seat -> 0..MaxHand] /\ r.missing \in [Seat -> 0..4]
           /\ r.claims \in Seq(Seat) /\ r.callers \in Seq(Call) /\ r.reopenCallers \in Seq(Call)
           /\ r.collect \in Collection
<1>1. DOMAIN r = F4 /\ \A f \in F4 : Typed(f, r[f]) BY DEF Shape
<1>2. \A f \in Seats4 : r[f] \in Seat \cup {NoSeat} BY <1>1 DEF Typed, F4, Fields, Seats4
<1>3. \A f \in Counts4 : r[f] \in Nat BY <1>1 DEF Typed, F4, Fields, Counts4
<1>4. \A f \in {"roundBet", "mainBet", "booked"} : r[f] \in [Seat -> Nat]
  BY <1>1 DEF Typed, F4, Fields
<1>5. \A f \in {"chips", "balance"} : r[f] \in [Seat -> Int] BY <1>1 DEF Typed, F4, Fields
<1>6. r.phase \in Phases4 /\ r.dealer \in Seat /\ r.cards \in [Seat -> 0..MaxHand]
      /\ r.missing \in [Seat -> 0..4]
  <2>1. {"phase", "dealer", "cards", "missing"} \subseteq F4 BY DEF F4, Fields
  <2> QED BY <1>1, <2>1 DEF Typed
<1>7. r.claims \in Seq(Seat) /\ r.collect \in Collection
      /\ \A f \in {"callers", "reopenCallers"} : r[f] \in Seq(Call)
  <2>1. {"claims", "callers", "reopenCallers", "collect"} \subseteq F4 BY DEF F4
  <2> QED BY <1>1, <2>1 DEF Typed
<1> QED BY <1>1, <1>2, <1>3, <1>4, <1>5, <1>6, <1>7 DEF Seats4, Counts4

LEMMA ShapeSets ==
    ASSUME NEW r, Shape(r)
    PROVE  /\ r.players \subseteq Seat /\ r.connected \subseteq Seat /\ r.waiting \subseteq Seat
           /\ r.folded \subseteq Seat /\ r.acted \subseteq Seat /\ r.allIn \subseteq Seat
           /\ r.passed \subseteq Seat /\ r.declined \subseteq Seat /\ r.yes \subseteq Seat
           /\ r.no \subseteq Seat /\ r.skewed \subseteq Seat /\ r.asked \subseteq Seat
           /\ r.validators \subseteq Seat /\ r.winners \subseteq Seat
           /\ r.contestants \subseteq Seat /\ r.dealing \subseteq Seat /\ r.away \subseteq Seat
           /\ SeatOrder(r) \subseteq Seat /\ Active(r) \subseteq Seat
           /\ HandOf(r) \in [Seat -> 0..MaxHand]
<1>1. \A f \in Sets4 : Typed(f, r[f]) BY DEF Shape, F4, Fields, Sets4, Groups
<1>2. \A f \in Sets4 : r[f] \subseteq Seat BY <1>1 DEF Typed
<1>3. HandOf(r) \in [Seat -> 0..MaxHand]
  <2>1. r.cards \in [Seat -> 0..MaxHand] BY ShapeFields
  <2> QED BY <2>1 DEF HandOf, Hand, NINGUNA, MaxHand
<1> QED BY <1>2, <1>3 DEF Sets4, Groups, SeatOrder, Active

LEMMA ShapeFlags ==
    ASSUME NEW r, Shape(r)
    PROVE  \A f \in Flags \cup {"validationTimer"} : r[f] \in BOOLEAN
<1>1. \A f \in Flags \cup {"validationTimer"} : Typed(f, r[f]) BY DEF Shape, F4, Fields, Flags
<1> QED BY <1>1, Zenon DEF Typed

(* One field of each type.                                                 *)
LEMMA TypedSeat ==
    ASSUME NEW f \in Seats4, NEW v \in Seat \cup {NoSeat} PROVE Typed(f, v)
BY DEF Typed, Seats4, Sets4, Groups, Flags, Counts4
LEMMA TypedSet ==
    ASSUME NEW f \in Sets4, NEW v, v \subseteq Seat PROVE Typed(f, v)
BY DEF Typed, Seats4, Sets4, Groups, Flags, Counts4
LEMMA TypedFlag ==
    ASSUME NEW f \in Flags \cup {"validationTimer"}, NEW v \in BOOLEAN PROVE Typed(f, v)
BY DEF Typed, Seats4, Sets4, Groups, Flags, Counts4
LEMMA TypedCount ==
    ASSUME NEW f \in Counts4, NEW v \in Nat PROVE Typed(f, v)
BY DEF Typed, Seats4, Sets4, Groups, Flags, Counts4
LEMMA TypedBets ==
    ASSUME NEW f \in {"roundBet", "mainBet", "booked"}, NEW v \in [Seat -> Nat] PROVE Typed(f, v)
BY DEF Typed, Seats4, Sets4, Groups, Flags, Counts4
LEMMA TypedMoney ==
    ASSUME NEW f \in {"chips", "balance"}, NEW v \in [Seat -> Int] PROVE Typed(f, v)
BY DEF Typed, Seats4, Sets4, Groups, Flags, Counts4
(* What nothing is said of.                                                *)
Untyped == {"refs", "forced", "llevoBy", "returnTo", "pasoPhase", "continuation"}
LEMMA TypedOther ==
    ASSUME NEW f \in Untyped, NEW v PROVE Typed(f, v)
BY DEF Typed, Seats4, Sets4, Groups, Flags, Counts4, Untyped

-----------------------------------------------------------------------------
(* What a helper leaves alone, and what follows for the parts of Sound.    *)

Core == {"phase", "players", "pasoBy", "validationTimer", "collect", "dealing", "asked",
         "claims", "callers", "validators", "passed", "cards", "winners", "contestants",
         "maxBet", "piquePot"}

Keeps(r, q) == Shape(q) /\ \A f \in Core : q[f] = r[f]

(* No chips change hands.                                                  *)
Moves(r, q) == Keeps(r, q) /\ q.chips = r.chips /\ q.mainBet = r.mainBet

LEMMA KeepsFields ==
    ASSUME NEW r, NEW q, Keeps(r, q)
    PROVE  /\ q.phase = r.phase /\ q.players = r.players /\ q.pasoBy = r.pasoBy
           /\ q.validationTimer = r.validationTimer /\ q.collect = r.collect
           /\ q.dealing = r.dealing /\ q.asked = r.asked /\ q.claims = r.claims
           /\ q.callers = r.callers /\ q.validators = r.validators /\ q.passed = r.passed
           /\ q.cards = r.cards /\ q.winners = r.winners /\ q.contestants = r.contestants
           /\ q.maxBet = r.maxBet /\ q.piquePot = r.piquePot
           /\ \A s : Hand(q, s) = Hand(r, s)
BY DEF Keeps, Core, Hand

LEMMA KeepsTwice ==
    ASSUME NEW r, NEW p, NEW q, Keeps(r, p), Keeps(p, q) PROVE Keeps(r, q)
BY DEF Keeps

LEMMA MovesTwice ==
    ASSUME NEW r, NEW p, NEW q, Moves(r, p), Moves(p, q) PROVE Moves(r, q)
BY DEF Moves, Keeps

LEMMA MovesSame == ASSUME NEW r, Shape(r) PROVE Moves(r, r)
BY DEF Moves, Keeps

LEMMA KeepsSound ==
    ASSUME NEW r, NEW q, Keeps(r, q)
    PROVE  /\ Rest(r) => Rest(q)
           /\ Decided(r) => Decided(q)
           /\ Fair(r) => Fair(q)
           /\ \A calm : Ready(r, calm) => Ready(q, calm)
<1>1. Rest(r) => Rest(q) BY KeepsFields DEF Rest
<1>2. Decided(r) => Decided(q)
  <2> SUFFICES ASSUME Decided(r) PROVE Decided(q) OBVIOUS
  <2> QED BY KeepsFields DEF Decided
<1>3. Fair(r) => Fair(q) BY KeepsFields DEF Fair
<1>4. Shape(q) /\ q.phase = r.phase BY KeepsFields DEF Keeps
<1> QED BY <1>1, <1>2, <1>3, <1>4 DEF Ready

(* Fields nothing of the core is in.                                       *)
LEMMA KeepsFrame ==
    ASSUME NEW F, NEW r, NEW q, Shape(r), SameBut(F, r, q), \A f \in F : Typed(f, q[f]),
           F \cap (Core \cup {"roundBet", "mainBet", "chips"}) = {}
    PROVE  Moves(r, q)
<1>1. Shape(q) BY ShapeFrameNoBets
<1>2. \A f \in Core \cup {"chips", "mainBet"} : f \in F4 \ F BY DEF Core, F4, Fields
<1>3. \A f \in Core \cup {"chips", "mainBet"} : q[f] = r[f] BY <1>2 DEF SameBut
<1> QED BY <1>1, <1>3 DEF Moves, Keeps

-----------------------------------------------------------------------------
(* Timers, turn and deal.                                                  *)

LEMMA ClearTurnTimerMoves ==
    ASSUME NEW r, Shape(r)
    PROVE  Moves(r, ClearTurnTimer(r)) /\ SameBut({"turnTimer"}, r, ClearTurnTimer(r))
           /\ ClearTurnTimer(r).turnTimer = FALSE
<1> DEFINE q == ClearTurnTimer(r)
<1>1. SameBut({"turnTimer"}, r, q) /\ q.turnTimer = FALSE
  BY ShapeFields DEF SameBut, ClearTurnTimer, F4, Fields
<1>2. Typed("turnTimer", q.turnTimer) BY <1>1, TypedFlag DEF Flags
<1> HIDE DEF q
<1>3. Moves(r, q) BY <1>1, <1>2, KeepsFrame DEF Core
<1> QED BY <1>1, <1>3 DEF q

LEMMA ClearAutoTimerMoves ==
    ASSUME NEW r, Shape(r)
    PROVE  Moves(r, ClearAutoTimer(r)) /\ SameBut({"autoTimer"}, r, ClearAutoTimer(r))
<1> DEFINE q == ClearAutoTimer(r)
<1>1. SameBut({"autoTimer"}, r, q) /\ q.autoTimer = FALSE
  BY ShapeFields DEF SameBut, ClearAutoTimer, F4, Fields
<1>2. Typed("autoTimer", q.autoTimer) BY <1>1, TypedFlag DEF Flags
<1> HIDE DEF q
<1>3. Moves(r, q) BY <1>1, <1>2, KeepsFrame DEF Core
<1> QED BY <1>1, <1>3 DEF q

LEMMA GiveTurnMoves ==
    ASSUME NEW r, Shape(r), NEW s \in Seat PROVE Moves(r, GiveTurn(r, s))
<1> DEFINE q == GiveTurn(r, s)
<1>1. /\ SameBut({"turn", "turnTimer"}, r, q)
      /\ q.turn = s /\ q.turnTimer = (s \in r.players \cap r.connected)
  BY ShapeFields DEF SameBut, GiveTurn, F4, Fields
<1>2. Typed("turnTimer", q.turnTimer)
  <2>1. q.turnTimer \in BOOLEAN BY <1>1
  <2> QED BY <2>1, TypedFlag DEF Flags
<1>3. Typed("turn", q.turn) BY <1>1, TypedSeat DEF Seats4
<1> HIDE DEF q
<1>4. Moves(r, q) BY <1>1, <1>2, <1>3, KeepsFrame DEF Core
<1> QED BY <1>4 DEF q

LEMMA ManoMoves ==
    ASSUME NEW r, Shape(r), NEW s \in Seat \cup {NoSeat}
    PROVE  LET q == [r EXCEPT !.mano = s] IN Moves(r, q) /\ SameBut({"mano"}, r, q) /\ q.mano = s
<1> DEFINE q == [r EXCEPT !.mano = s]
<1>1. SameBut({"mano"}, r, q) /\ q.mano = s BY ShapeFields DEF SameBut, F4, Fields
<1>2. Typed("mano", q.mano) BY <1>1, TypedSeat DEF Seats4
<1> HIDE DEF q
<1>3. Moves(r, q) BY <1>1, <1>2, KeepsFrame DEF Core
<1> QED BY <1>1, <1>3 DEF q

LEMMA DealerMoves ==
    ASSUME NEW r, Shape(r), NEW s \in Seat PROVE Moves(r, [r EXCEPT !.dealer = s])
<1> DEFINE q == [r EXCEPT !.dealer = s]
<1>1. SameBut({"dealer"}, r, q) /\ q.dealer = s BY ShapeFields DEF SameBut, F4, Fields
<1>2. Typed("dealer", q.dealer) BY <1>1 DEF Typed, Seats4, Sets4, Groups, Flags, Counts4
<1> HIDE DEF q
<1>3. Moves(r, q) BY <1>1, <1>2, KeepsFrame DEF Core
<1> QED BY <1>1, <1>3 DEF q

LEMMA TransferManoMoves ==
    ASSUME NEW r, Shape(r)
    PROVE  Moves(r, TransferMano(r)) /\ SameBut({"mano"}, r, TransferMano(r))
<1> DEFINE heirs == SeatOrder(r) \cap Active(r)
<1>1. CASE r.mano \in SeatOrder(r) /\ heirs # {}
  <2>1. heirs \in SUBSET Seat /\ r.mano \in Seat \cup {NoSeat} BY ShapeSets, ShapeFields
  <2>2. FirstAfter(r.mano, heirs) \in Seat BY <1>1, <2>1, FirstIsFound
  <2>3. TransferMano(r) = [r EXCEPT !.mano = FirstAfter(r.mano, heirs)]
    BY <1>1 DEF TransferMano
  <2> QED BY <2>2, <2>3, ManoMoves
<1>2. CASE ~(r.mano \in SeatOrder(r) /\ heirs # {})
  BY <1>2, MovesSame, ShapeFields DEF TransferMano, SameBut
<1> QED BY <1>1, <1>2

LEMMA NextDealerMoves == ASSUME NEW r, Shape(r) PROVE Moves(r, NextDealer(r))
<1>1. CASE r.dealer \in SeatOrder(r)
  <2>1. SeatOrder(r) \in SUBSET Seat /\ r.dealer \in Seat \cup {NoSeat}
    BY ShapeSets, ShapeFields
  <2>2. FirstAfter(r.dealer, SeatOrder(r)) \in Seat BY <1>1, <2>1, FirstIsFound
  <2>3. NextDealer(r) = [r EXCEPT !.dealer = FirstAfter(r.dealer, SeatOrder(r))]
    BY <1>1 DEF NextDealer
  <2> QED BY <2>2, <2>3, DealerMoves
<1>2. CASE r.dealer \notin SeatOrder(r) BY <1>2, MovesSame DEF NextDealer
<1> QED BY <1>1, <1>2

LEMMA AttemptManoRotationMoves ==
    ASSUME NEW r, Shape(r), NEW s PROVE Moves(r, AttemptManoRotation(r, s))
<1> DEFINE p == [r EXCEPT !.rotated = TRUE]
<1>1. SameBut({"rotated"}, r, p) /\ p.rotated = TRUE
  BY ShapeFields DEF SameBut, F4, Fields
<1>2. Typed("rotated", p.rotated) BY <1>1, TypedFlag DEF Flags
<1> HIDE DEF p
<1>3. Moves(r, p) BY <1>1, <1>2, KeepsFrame DEF Core
<1>4. Moves(p, NextDealer(p)) BY <1>3, NextDealerMoves DEF Moves, Keeps
<1>5. Moves(r, NextDealer(p)) BY <1>3, <1>4, MovesTwice
<1> QED BY <1>5, MovesSame DEF AttemptManoRotation, p

LEMMA FoldAndPassManoMoves ==
    ASSUME NEW r, Shape(r), NEW s \in Seat PROVE Moves(r, FoldAndPassMano(r, s))
<1> DEFINE p == [r EXCEPT !.folded = @ \cup {s}, !.acted = @ \cup {s}]
           t == AttemptManoRotation(p, s)
<1>1. /\ SameBut({"folded", "acted"}, r, p)
      /\ p.folded = r.folded \cup {s} /\ p.acted = r.acted \cup {s}
  BY ZenonT(60), ShapeFields DEF SameBut, F4, Fields
<1>2. r.folded \subseteq Seat /\ r.acted \subseteq Seat BY ShapeSets
<1>3. Typed("folded", p.folded) /\ Typed("acted", p.acted)
  BY <1>1, <1>2, TypedSet DEF Sets4, Groups
<1>4. FoldAndPassMano(r, s) = IF s = r.mano THEN TransferMano(t) ELSE t
  BY DEF FoldAndPassMano
<1> HIDE DEF p
<1>5. Moves(r, p) BY <1>1, <1>3, KeepsFrame DEF Core
<1>6. Moves(p, t) BY <1>5, AttemptManoRotationMoves DEF Moves, Keeps
<1>7. Moves(r, t) BY <1>5, <1>6, MovesTwice
<1> HIDE DEF t
<1>8. Moves(t, TransferMano(t)) BY <1>7, TransferManoMoves DEF Moves, Keeps
<1>9. Moves(r, TransferMano(t)) BY <1>7, <1>8, MovesTwice
<1> QED BY <1>4, <1>7, <1>9

LEMMA MarkDisconnectedMoves ==
    ASSUME NEW r, Shape(r) PROVE Moves(r, MarkDisconnectedAsImplicitAllIn(r))
<1> DEFINE q == MarkDisconnectedAsImplicitAllIn(r)
<1>1. SameBut({"allIn"}, r, q) /\ q.allIn \subseteq r.allIn \cup r.players
  BY ShapeFields DEF SameBut, MarkDisconnectedAsImplicitAllIn, F4, Fields
<1>2. r.allIn \subseteq Seat /\ r.players \subseteq Seat BY ShapeSets
<1> HIDE DEF q
<1>3. Typed("allIn", q.allIn)
  <2>1. q.allIn \subseteq Seat BY <1>1, <1>2
  <2> QED BY <2>1, TypedSet DEF Sets4, Groups
<1>4. Moves(r, q) BY <1>1, <1>3, KeepsFrame DEF Core
<1> QED BY <1>4 DEF q

LEMMA ScheduleCleanupMoves ==
    ASSUME NEW r, Shape(r) PROVE Moves(r, ScheduleCleanup(r))
<1> DEFINE q == ScheduleCleanup(r)
<1>1. SameBut({"cleanups"}, r, q) /\ q.cleanups = r.cleanups + 1
  BY ShapeFields DEF SameBut, ScheduleCleanup, F4, Fields
<1>2. r.cleanups \in Nat BY ShapeFields
<1> HIDE DEF q
<1>3. Typed("cleanups", q.cleanups) BY <1>1, <1>2, TypedCount DEF Counts4
<1>4. Moves(r, q) BY <1>1, <1>3, KeepsFrame DEF Core
<1> QED BY <1>4 DEF q

-----------------------------------------------------------------------------
(* Money.                                                                  *)

LEMMA KeepsFrameMoney ==
    ASSUME NEW F, NEW r, NEW q, Shape(r), SameBut(F, r, q), \A f \in F : Typed(f, q[f]),
           F \cap Core = {}, \A s \in Seat : q.roundBet[s] <= q.mainBet[s]
    PROVE  Keeps(r, q)
<1>1. Shape(q) BY ShapeFrame
<1>2. \A f \in Core : f \in F4 \ F BY DEF Core, F4, Fields
<1> QED BY <1>1, <1>2 DEF Keeps, SameBut

Purse == {"chips", "balance", "refs", "skewed"}

LEMMA PurseKeeps ==
    ASSUME NEW r, NEW q, Shape(r), SameBut(Purse, r, q),
           q.chips \in [Seat -> Int], q.balance \in [Seat -> Int], q.skewed \subseteq Seat
    PROVE  Keeps(r, q) /\ q.mainBet = r.mainBet
<1>1. q.mainBet = r.mainBet /\ q.roundBet = r.roundBet BY DEF SameBut, Purse, F4, Fields
<1>2. Typed("chips", q.chips) /\ Typed("balance", q.balance) BY TypedMoney
<1>3. Typed("skewed", q.skewed) BY TypedSet DEF Sets4, Groups
<1>4. Typed("refs", q.refs) BY TypedOther DEF Untyped
<1>5. \A f \in Purse : Typed(f, q[f]) BY <1>2, <1>3, <1>4 DEF Purse
<1>6. \A s \in Seat : q.roundBet[s] <= q.mainBet[s] BY <1>1 DEF Shape
<1>7. Purse \cap Core = {} BY DEF Purse, Core
<1> QED BY <1>1, <1>5, <1>6, <1>7, KeepsFrameMoney

LEMMA PayPlayerKeeps ==
    ASSUME NEW r, Shape(r), NEW s \in Seat, NEW amount \in Int, NEW ref
    PROVE  LET q == PayPlayer(r, s, amount, ref)
           IN  /\ Keeps(r, q) /\ q.mainBet = r.mainBet /\ SameBut(Purse, r, q)
               /\ q.chips = [r.chips EXCEPT ![s] = @ + amount]
<1>0. r.chips \in [Seat -> Int] /\ r.balance \in [Seat -> Int] /\ DOMAIN r = F4
      /\ r.skewed \subseteq Seat
  BY ShapeFields, ShapeSets
<1>1. CASE amount = 0
  <2>1. r.chips = [r.chips EXCEPT ![s] = @ + amount] BY <1>0, <1>1
  <2>2. PayPlayer(r, s, amount, ref) = r BY <1>1 DEF PayPlayer
  <2> QED BY <1>0, <2>1, <2>2, MovesSame DEF SameBut, Moves
<1>2. CASE amount # 0
  <2> DEFINE ok == LedgerAccepts(r, s, amount, ref)
             c == LedgerCredit(r, s, amount, ref)
             q == PayPlayer(r, s, amount, ref)
  <2>1. /\ DOMAIN c = F4 /\ \A f \in F4 \ {"balance", "refs"} : c[f] = r[f]
        /\ c.balance = IF ok THEN [r.balance EXCEPT ![s] = @ + amount] ELSE r.balance
        /\ c.chips = r.chips /\ c.skewed = r.skewed
    BY <1>0 DEF LedgerCredit, F4, Fields
  <2> HIDE DEF c
  <2>2. q = [c EXCEPT !.chips[s] = @ + amount,
                      !.skewed = IF ok THEN @ ELSE @ \cup {s}]
    BY <1>2 DEF PayPlayer, c
  <2> HIDE DEF q, ok
  <2>3. /\ SameBut(Purse, r, q)
        /\ q.chips = [r.chips EXCEPT ![s] = @ + amount]
        /\ q.balance = IF ok THEN [r.balance EXCEPT ![s] = @ + amount] ELSE r.balance
        /\ q.skewed = IF ok THEN r.skewed ELSE r.skewed \cup {s}
    BY <2>1, <2>2 DEF SameBut, Purse, F4, Fields
  <2>4. q.chips \in [Seat -> Int] /\ q.balance \in [Seat -> Int] /\ q.skewed \subseteq Seat
    BY <1>0, <2>3
  <2> QED BY <2>3, <2>4, PurseKeeps DEF q
<1> QED BY <1>1, <1>2

LEMMA PayTogetherKeeps ==
    ASSUME NEW r, Shape(r), NEW payout, DOMAIN payout \subseteq Seat,
           \A s \in DOMAIN payout : payout[s] \in Int, NEW ref
    PROVE  LET q == PayTogether(r, payout, ref)
           IN  /\ Keeps(r, q) /\ q.mainBet = r.mainBet /\ SameBut(Purse, r, q)
               /\ \A s \in Seat \ DOMAIN payout : q.chips[s] = r.chips[s]
<1> DEFINE paid == {s \in DOMAIN payout : payout[s] # 0}
           accepted == {s \in paid : LedgerAccepts(r, s, payout[s], ref)}
           chips == [s \in Seat |-> IF s \in paid THEN r.chips[s] + payout[s] ELSE r.chips[s]]
           balance == [s \in Seat |-> IF s \in accepted THEN r.balance[s] + payout[s]
                                      ELSE r.balance[s]]
           q == PayTogether(r, payout, ref)
<1>0. r.chips \in [Seat -> Int] /\ r.balance \in [Seat -> Int] /\ DOMAIN r = F4
      /\ r.skewed \subseteq Seat
  BY ShapeFields, ShapeSets
<1>1. /\ SameBut(Purse, r, q)
      /\ q.chips = chips /\ q.balance = balance /\ q.skewed = r.skewed \cup (paid \ accepted)
  BY <1>0 DEF PayTogether, SameBut, Purse, F4, Fields
<1>2. paid \subseteq Seat /\ accepted \subseteq paid /\ \A s \in paid : payout[s] \in Int
      /\ s \in DOMAIN payout
  OBVIOUS
<1> HIDE DEF q, paid, accepted
<1>3. chips \in [Seat -> Int] /\ balance \in [Seat -> Int] BY <1>0, <1>2
<1>4. \A s \in Seat \ DOMAIN payout : chips[s] = r.chips[s] BY <1>2
<1> HIDE DEF chips, balance
<1>5. q.skewed \subseteq Seat BY <1>0, <1>1, <1>2
<1> QED BY <1>1, <1>3, <1>4, <1>5, PurseKeeps DEF q

(* What the players have and have bet together stays theirs.               *)
Stakes(r, q) == \A s \in Seat : q.chips[s] + q.mainBet[s] = r.chips[s] + r.mainBet[s]

LEMMA MovesStakes == ASSUME NEW r, NEW q, Moves(r, q) PROVE Stakes(r, q)
BY DEF Moves, Stakes

LEMMA ReturnUncalledKeeps ==
    ASSUME NEW r, Shape(r), NEW s \in Seat, NEW uncalled \in Nat, uncalled <= r.roundBet[s]
    PROVE  LET q == ReturnUncalled(r, s, uncalled) IN Keeps(r, q) /\ Stakes(r, q)
<1> DEFINE p == PayPlayer(r, s, uncalled, Ref("uncalled"))
           q == ReturnUncalled(r, s, uncalled)
<1>1. Keeps(r, p) /\ p.mainBet = r.mainBet /\ SameBut(Purse, r, p)
      /\ p.chips = [r.chips EXCEPT ![s] = @ + uncalled]
  BY PayPlayerKeeps
<1>2. p.roundBet = r.roundBet /\ p.pot = r.pot BY <1>1 DEF SameBut, Purse, F4, Fields
<1>3. Shape(p) BY <1>1 DEF Keeps
<1>4. /\ DOMAIN p = F4 /\ r.roundBet \in [Seat -> Nat] /\ r.mainBet \in [Seat -> Nat]
      /\ r.pot \in Nat /\ r.chips \in [Seat -> Int] /\ \A x \in Seat : r.roundBet[x] <= r.mainBet[x]
  BY <1>3, ShapeFields DEF Shape
<1> DEFINE round == [p.roundBet EXCEPT ![s] = @ - uncalled]
           main == [p.mainBet EXCEPT ![s] = @ - uncalled]
           pot == IF p.pot >= uncalled THEN p.pot - uncalled ELSE 0
<1>5. q = [p EXCEPT !.roundBet = round, !.mainBet = main, !.pot = pot]
  BY Zenon DEF ReturnUncalled
<1>6. /\ SameBut({"roundBet", "mainBet", "pot"}, p, q)
      /\ q.roundBet = round /\ q.mainBet = main /\ q.pot = pot /\ q.chips = p.chips
  <2> HIDE DEF p, q, round, main, pot
  <2> QED BY <1>4, <1>5 DEF SameBut, F4, Fields
<1> HIDE DEF p, q
<1>7. r.roundBet[s] - uncalled \in Nat /\ r.mainBet[s] - uncalled \in Nat
  <2>1. r.roundBet[s] \in Nat /\ r.mainBet[s] \in Nat /\ r.roundBet[s] <= r.mainBet[s] BY <1>4
  <2> QED BY <2>1
<1>8. q.roundBet \in [Seat -> Nat] /\ q.mainBet \in [Seat -> Nat]
  BY <1>1, <1>2, <1>4, <1>6, <1>7
<1>9. \A x \in Seat : q.roundBet[x] <= q.mainBet[x]
  <2> SUFFICES ASSUME NEW x \in Seat PROVE q.roundBet[x] <= q.mainBet[x] OBVIOUS
  <2>1. r.roundBet[x] \in Nat /\ r.mainBet[x] \in Nat /\ r.roundBet[x] <= r.mainBet[x] BY <1>4
  <2> QED BY <1>1, <1>2, <1>4, <1>6, <2>1
<1>10. q.pot \in Nat BY <1>2, <1>4, <1>6
<1>11. \A f \in {"roundBet", "mainBet", "pot"} : Typed(f, q[f])
  BY <1>8, <1>10, TypedBets, TypedCount DEF Counts4
<1>12. Keeps(p, q)
  <2>1. {"roundBet", "mainBet", "pot"} \cap Core = {} BY DEF Core
  <2> QED BY ZenonT(60), <1>3, <1>6, <1>9, <1>11, <2>1, KeepsFrameMoney
<1>13. Stakes(r, q)
  <2> SUFFICES ASSUME NEW x \in Seat
               PROVE  q.chips[x] + q.mainBet[x] = r.chips[x] + r.mainBet[x]
    BY DEF Stakes
  <2>1. r.chips[x] \in Int /\ r.mainBet[x] \in Int BY <1>4
  <2> QED BY <1>1, <1>4, <1>6, <2>1
<1> QED BY <1>1, <1>12, <1>13, KeepsTwice DEF q

(* The greatest of some bets is one of them.                               *)
LEMMA MaxOfBets ==
    ASSUME NEW f \in [Seat -> Nat], NEW C \in SUBSET Seat
    PROVE  LET m == Max({f[t] : t \in C} \cup {0})
           IN  m \in Nat /\ \A t \in C : f[t] <= m
<1> DEFINE B(A) == {f[t] : t \in A} \cup {0}
           D == {A \in SUBSET C : \E m \in B(A) : \A n \in B(A) : n <= m}
<1>1. IsFiniteSet(C)
  <2>1. IsFiniteSet(Seat) BY FS_Interval, NAssumption DEF Seat
  <2> QED BY <2>1, FS_Subset
<1>2. {} \in D OBVIOUS
<1>3. ASSUME NEW A \in D, NEW x \in C \ A PROVE A \cup {x} \in D
  <2>1. PICK m \in B(A) : \A n \in B(A) : n <= m BY <1>3
  <2>2. B(A \cup {x}) = B(A) \cup {f[x]} OBVIOUS
  <2>3. f[x] \in Nat /\ B(A) \subseteq Nat BY <1>3
  <2> HIDE DEF B
  <2>4. CASE f[x] <= m
    <3>1. \A n \in B(A \cup {x}) : n <= m BY <2>1, <2>2, <2>4
    <3>2. A \cup {x} \in SUBSET C BY <1>3
    <3> QED BY <2>2, <3>1, <3>2
  <2>5. CASE ~(f[x] <= m)
    <3>1. \A n \in B(A \cup {x}) : n <= f[x]
      <4> SUFFICES ASSUME NEW n \in B(A) PROVE n <= f[x] BY <2>2, <2>3
      <4>1. n <= m /\ n \in Nat /\ m \in Nat BY <2>1, <2>3
      <4> QED BY <2>3, <2>5, <4>1
    <3>2. A \cup {x} \in SUBSET C BY <1>3
    <3> QED BY <2>2, <3>1, <3>2
  <2> QED BY <2>4, <2>5
<1>4. C \in D
  <2>1. D \in SUBSET (SUBSET C) OBVIOUS
  <2> HIDE DEF D
  <2> QED BY <1>1, <1>2, <1>3, <2>1, SetInduction
<1>5. Max(B(C)) \in B(C) /\ \A n \in B(C) : Max(B(C)) >= n
  <2>1. PICK m \in B(C) : \A n \in B(C) : n <= m BY <1>4
  <2>2. B(C) \subseteq Nat OBVIOUS
  <2> HIDE DEF B
  <2>3. \A n \in B(C) : m >= n BY <2>1, <2>2
  <2> QED BY <2>3 DEF Max
<1>6. B(C) \subseteq Nat OBVIOUS
<1>7. \A t \in C : f[t] \in B(C) OBVIOUS
<1> HIDE DEF B
<1>8. Max(B(C)) \in Nat /\ \A t \in C : f[t] <= Max(B(C)) BY <1>5, <1>6, <1>7
<1> QED BY <1>8 DEF B

LEMMA RefundUncalledBetKeeps ==
    ASSUME NEW r, Shape(r)
    PROVE  Keeps(r, RefundUncalledBet(r)) /\ Stakes(r, RefundUncalledBet(r))
<1> DEFINE pool == {s \in r.players : s \in r.connected \/ r.roundBet[s] > 0}
           Second(s) == Max({r.roundBet[t] : t \in pool \ {s}} \cup {0})
           above == {s \in pool \ r.folded : r.roundBet[s] > Second(s)}
           leader == CHOOSE s \in above : TRUE
           uncalled == r.roundBet[leader] - Second(leader)
<1>1. r.players \subseteq Seat /\ r.roundBet \in [Seat -> Nat] BY ShapeSets, ShapeFields
<1>2. RefundUncalledBet(r) = IF above # {} THEN ReturnUncalled(r, leader, uncalled) ELSE r
  BY DEF RefundUncalledBet
<1>3. \A s \in Seat : Second(s) \in Nat
  <2> SUFFICES ASSUME NEW s \in Seat PROVE Second(s) \in Nat OBVIOUS
  <2>1. pool \ {s} \in SUBSET Seat BY <1>1
  <2> HIDE DEF pool
  <2> QED BY <1>1, <2>1, MaxOfBets
<1>4. ASSUME above # {}
      PROVE  leader \in Seat /\ uncalled \in Nat /\ uncalled <= r.roundBet[leader]
  <2>1. leader \in above BY <1>4
  <2>2. leader \in Seat /\ r.roundBet[leader] > Second(leader) BY <1>1, <2>1
  <2> HIDE DEF leader, Second
  <2>3. r.roundBet[leader] \in Nat /\ Second(leader) \in Nat BY <1>1, <1>3, <2>2
  <2> QED BY <2>2, <2>3
<1>5. CASE above # {}
  <2> HIDE DEF above, uncalled, leader
  <2> QED BY <1>2, <1>4, <1>5, ReturnUncalledKeeps
<1>6. CASE above = {}
  <2>1. RefundUncalledBet(r) = r BY <1>2, <1>6
  <2> QED BY <2>1, MovesSame, MovesStakes DEF Moves
<1> QED BY <1>5, <1>6

LEMMA RefundUncalledBetActive ==
    ASSUME NEW r, Shape(r)
    PROVE  LET q == RefundUncalledBet(r)
           IN  q.players = r.players /\ q.connected = r.connected /\ q.folded = r.folded
<1>1. ASSUME NEW s, NEW uncalled
      PROVE  LET q == ReturnUncalled(r, s, uncalled)
             IN  q.players = r.players /\ q.connected = r.connected /\ q.folded = r.folded
  BY ShapeFields DEF ReturnUncalled, PayPlayer, LedgerCredit, F4, Fields
<1> QED BY <1>1, Zenon DEF RefundUncalledBet

-----------------------------------------------------------------------------
(* A room that waits for nothing, in whatever phase.                       *)

Rested(r, calm) == Ends(r, calm) /\ Rest(r)

LEMMA ReadyIsRested ==
    ASSUME NEW r, NEW calm, Ready(r, calm) PROVE Rested(r, calm) /\ Ends(r, calm)
BY DEF Ready, Rested, Ends, Sound, Waits, Decided

LEMMA KeepsRested ==
    ASSUME NEW r, NEW q, NEW calm, Rested(r, calm), Keeps(r, q) PROVE Rested(q, calm)
<1>1. Shape(q) BY DEF Keeps
<1> QED BY <1>1, KeepsSound DEF Rested, Ends, Sound, Waits

(* The core but for the phase.                                             *)
LEMMA PhaseReady ==
    ASSUME NEW r, NEW q, NEW calm, Ready(r, calm), Shape(q),
           \A f \in Core \ {"phase"} : q[f] = r[f],
           q.phase \notin {"SHOWDOWN", "JUEGO_VALIDACION"}
    PROVE  Ready(q, calm)
<1>1. /\ q.players = r.players /\ q.pasoBy = r.pasoBy
      /\ q.validationTimer = r.validationTimer /\ q.collect = r.collect
      /\ q.dealing = r.dealing /\ q.claims = r.claims
      /\ q.validators = r.validators /\ q.passed = r.passed
      /\ q.cards = r.cards /\ q.maxBet = r.maxBet /\ q.piquePot = r.piquePot
  BY DEF Core
<1>2. \A s : Hand(q, s) = Hand(r, s) BY <1>1 DEF Hand
<1>3. Rest(q) BY <1>1 DEF Ready, Rest
<1>4. calm => Fair(q)
  <2> SUFFICES ASSUME calm PROVE Fair(q) OBVIOUS
  <2>1. Fair(r) /\ r.phase # "SHOWDOWN" BY DEF Ready
  <2> QED BY <1>1, <1>2, <2>1 DEF Fair
<1> QED BY <1>3, <1>4 DEF Ready

(* Nobody is left who could move, or the time is over.                     *)
LEMMA LobbyRested ==
    ASSUME NEW r, NEW q, NEW calm, Rested(r, calm), Shape(q),
           \A f \in Core \ {"phase", "piquePot"} : q[f] = r[f],
           q.phase = "LOBBY", q.piquePot = 0
    PROVE  Rested(q, calm)
<1>1. /\ q.players = r.players /\ q.pasoBy = r.pasoBy
      /\ q.validationTimer = r.validationTimer /\ q.collect = r.collect
      /\ q.dealing = r.dealing /\ q.claims = r.claims
      /\ q.validators = r.validators /\ q.cards = r.cards /\ q.maxBet = r.maxBet
  BY DEF Core
<1>2. \A s : Hand(q, s) = Hand(r, s) BY <1>1 DEF Hand
<1>3. Rest(q) BY <1>1 DEF Rested, Rest
<1>4. calm => Fair(q)
  <2> SUFFICES ASSUME calm PROVE Fair(q) OBVIOUS
  <2>1. Fair(r) BY DEF Rested, Ends, Sound
  <2> QED BY <1>1, <1>2, <2>1 DEF Fair
<1>5. Decided(q) BY DEF Decided
<1> QED BY <1>3, <1>4, <1>5 DEF Rested, Ends, Sound, Waits

-----------------------------------------------------------------------------
(* The end of a hand.                                                      *)

LEMMA RakeType == ASSUME NEW a \in Nat PROVE RakeOf(a) \in Nat
BY DEF RakeOf

LEMMA PayPiqueToBestKeeps ==
    ASSUME NEW r, Shape(r), NEW C \in SUBSET Seat, C # {}
    PROVE  Keeps(r, PayPiqueToBest(r, C))
<1> DEFINE eval == [s \in Seat |-> Hand(r, s)]
           mano == IF r.mano # NoSeat THEN r.mano ELSE r.dealer
           best == ResolveHandWinners(C, eval, mano)
           w == CHOOSE s \in best : \A t \in best : s <= t
<1>1. eval \in [Seat -> 0..MaxHand] BY ShapeSets DEF HandOf
<1>2. best # {} /\ best \subseteq Seat
  <2> HIDE DEF eval, mano
  <2> QED BY <1>1, SomebodyWins
<1>3. w \in Seat
  <2> HIDE DEF best
  <2>1. \E s \in best : \A t \in best : s <= t BY <1>2, LeastExists DEF Seat
  <2> QED BY <2>1, <1>2
<1>4. PayPiqueToBest(r, C) =
        IF r.piquePot > 0
        THEN PayPlayer(r, w, r.piquePot - RakeOf(r.piquePot), PotRef(r.piquePot)) ELSE r
  BY DEF PayPiqueToBest
<1>5. r.piquePot - RakeOf(r.piquePot) \in Int
  <2>1. r.piquePot \in Nat BY ShapeFields
  <2> QED BY <2>1, RakeType
<1> HIDE DEF w
<1>6. CASE r.piquePot > 0
  <2>1. Keeps(r, PayPlayer(r, w, r.piquePot - RakeOf(r.piquePot), PotRef(r.piquePot)))
    BY <1>3, <1>5, PayPlayerKeeps
  <2> QED BY <1>4, <1>6, <2>1
<1>7. CASE ~(r.piquePot > 0) BY <1>4, <1>7, MovesSame DEF Moves
<1> QED BY <1>6, <1>7

LEMMA RefundAllRested ==
    ASSUME NEW r, NEW calm, Rested(r, calm) PROVE Rested(RefundAllActiveBets(r), calm)
<1> DEFINE owed    == {s \in r.players : r.mainBet[s] > 0}
           sharers == IF r.piquePot > 0 THEN r.players \ r.folded ELSE {}
           share   == r.piquePot \div Cardinality(sharers)
           PiqueShare(s) == share + IF \A t \in sharers : s <= t
                                    THEN r.piquePot - share * Cardinality(sharers) ELSE 0
           PiqueGives == {s \in sharers : PiqueShare(s) > 0}
           Amount(s) == (IF s \in owed THEN r.mainBet[s] ELSE 0)
                          + (IF s \in PiqueGives THEN PiqueShare(s) ELSE 0)
           used == {<<s, Ref("cancelled")>> : s \in owed}
                     \cup {<<s, Ref("cancelled-pique")>> : s \in PiqueGives}
           Credited(s) ==
             (IF <<s, Ref("cancelled")>> \in used \ r.refs THEN r.mainBet[s] ELSE 0)
               + (IF <<s, Ref("cancelled-pique")>> \in used \ r.refs THEN PiqueShare(s) ELSE 0)
           chips == [s \in Seat |-> r.chips[s] + Amount(s)]
           balance == [s \in Seat |-> r.balance[s] + Credited(s)]
           refs == r.refs \cup used
           skewed == r.skewed \cup {s \in Seat : \E u \in used \cap r.refs : u[1] = s}
           acted == r.acted \ r.players
           folded == r.folded \ r.players
           main == [s \in Seat |-> IF s \in r.players THEN 0 ELSE r.mainBet[s]]
           round == [s \in Seat |-> IF s \in r.players THEN 0 ELSE r.roundBet[s]]
           q == RefundAllActiveBets(r)
           C == {"chips", "balance", "refs", "skewed", "pot", "piquePot", "turn", "mano", "acted",
                 "folded", "mainBet", "roundBet", "phase", "waiting"}
<1>0. Shape(r) BY DEF Rested, Ends, Sound
<1>1. /\ DOMAIN r = F4 /\ r.chips \in [Seat -> Int] /\ r.balance \in [Seat -> Int]
      /\ r.mainBet \in [Seat -> Nat] /\ r.roundBet \in [Seat -> Nat] /\ r.piquePot \in Nat
      /\ r.skewed \subseteq Seat /\ r.acted \subseteq Seat /\ r.folded \subseteq Seat
      /\ r.players \subseteq Seat
  BY <1>0, ShapeFields, ShapeSets
<1>2. \A s \in sharers : PiqueShare(s) \in Int
  <2> SUFFICES ASSUME NEW s \in sharers PROVE PiqueShare(s) \in Int OBVIOUS
  <2>1. IsFiniteSet(sharers) /\ sharers # {}
    <3>1. IsFiniteSet(Seat) BY FS_Interval, NAssumption DEF Seat
    <3>2. sharers \subseteq Seat BY <1>1
    <3> QED BY <3>1, <3>2, FS_Subset
  <2>2. Cardinality(sharers) \in Nat \ {0} BY <2>1, FS_CardinalityType, FS_EmptySet
  <2> DEFINE n == Cardinality(sharers)
  <2>3. n \in Nat \ {0} BY <2>2
  <2> HIDE DEF n, sharers
  <2>4. r.piquePot \div n \in Int BY <1>1, <2>3
  <2>5. r.piquePot - (r.piquePot \div n) * n \in Int BY <1>1, <2>3, <2>4
  <2> QED BY <2>4, <2>5 DEF n
<1>3. \A s \in Seat : Amount(s) \in Int
  <2> HIDE DEF PiqueShare, sharers, owed
  <2> QED BY <1>1, <1>2
<1>4. \A s \in Seat : Credited(s) \in Int
  <2> SUFFICES ASSUME NEW s \in Seat PROVE Credited(s) \in Int OBVIOUS
  <2>1. Ref("cancelled") # Ref("cancelled-pique") BY DEF Ref
  <2>2. <<s, Ref("cancelled-pique")>> \in used => s \in PiqueGives
    <3> HIDE DEF PiqueGives, owed
    <3> QED BY <2>1
  <2>3. PiqueGives \subseteq sharers OBVIOUS
  <2> HIDE DEF PiqueShare, sharers, owed, used, PiqueGives
  <2> QED BY <1>1, <1>2, <2>2, <2>3
<1>5. /\ chips \in [Seat -> Int] /\ balance \in [Seat -> Int]
  <2> HIDE DEF Amount, Credited
  <2> QED BY <1>1, <1>3, <1>4
<1>6. /\ main \in [Seat -> Nat] /\ round \in [Seat -> Nat]
      /\ \A s \in Seat : round[s] <= main[s]
  BY <1>0, <1>1 DEF Shape
<1>7. skewed \subseteq Seat /\ acted \subseteq Seat /\ folded \subseteq Seat BY <1>1
<1>8. q = [[r EXCEPT !.chips = chips, !.balance = balance, !.refs = refs, !.skewed = skewed,
                     !.pot = 0, !.piquePot = 0, !.turn = NoSeat, !.mano = NoSeat,
                     !.acted = acted, !.folded = folded, !.mainBet  = main,
                     !.roundBet = round, !.phase = "LOBBY"] EXCEPT !.waiting = {}]
  BY Zenon DEF RefundAllActiveBets, PromoteWaitingPlayers
<1> HIDE DEF chips, balance, refs, skewed, acted, folded, main, round, q
<1>9. /\ SameBut(C, r, q)
      /\ q.chips = chips /\ q.balance = balance /\ q.skewed = skewed /\ q.pot = 0
      /\ q.piquePot = 0 /\ q.turn = NoSeat /\ q.mano = NoSeat /\ q.acted = acted
      /\ q.folded = folded /\ q.mainBet = main /\ q.roundBet = round /\ q.phase = "LOBBY"
      /\ q.waiting = {}
  BY ZenonT(60), <1>1, <1>8 DEF SameBut, F4, Fields
<1>10. \A f \in C : Typed(f, q[f])
  <2>1. Typed("phase", q.phase)
    BY <1>9 DEF Typed, Phases4, Seats4, Sets4, Groups, Flags, Counts4
  <2>2. Typed("chips", q.chips) /\ Typed("balance", q.balance) BY <1>5, <1>9, TypedMoney
  <2>3. Typed("mainBet", q.mainBet) /\ Typed("roundBet", q.roundBet) BY <1>6, <1>9, TypedBets
  <2>4. Typed("refs", q.refs) BY TypedOther DEF Untyped
  <2>5. Typed("pot", q.pot) /\ Typed("piquePot", q.piquePot) BY <1>9, TypedCount DEF Counts4
  <2>6. Typed("turn", q.turn) /\ Typed("mano", q.mano) BY <1>9, TypedSeat DEF Seats4
  <2>7. Typed("skewed", q.skewed) /\ Typed("acted", q.acted) /\ Typed("folded", q.folded)
        /\ Typed("waiting", q.waiting)
    BY <1>7, <1>9, TypedSet DEF Sets4, Groups
  <2> QED BY <2>1, <2>2, <2>3, <2>4, <2>5, <2>6, <2>7
<1>11. Shape(q) BY <1>0, <1>6, <1>9, <1>10, ShapeFrame
<1>12. \A f \in Core \ {"phase", "piquePot"} : q[f] = r[f]
  BY <1>9 DEF SameBut, Core, F4, Fields
<1> QED BY <1>9, <1>11, <1>12, LobbyRested DEF q

LEMMA EndHandEarlyRested ==
    ASSUME NEW r, NEW calm, Rested(r, calm) PROVE Rested(EndHandEarlyAfterFoldOut(r), calm)
<1> DEFINE remaining == Active(r)
           solo  == CHOOSE s \in remaining : TRUE
           quiet == ClearTurnTimer(r)
           paid  == IF Cardinality(remaining) = 1 /\ r.pot > 0
                    THEN PayPlayer(quiet, solo, r.pot - RakeOf(r.pot), PotRef(r.pot))
                    ELSE quiet
<1>0. Shape(r) BY DEF Rested, Ends, Sound
<1>1. remaining \in SUBSET Seat BY <1>0, ShapeSets
<1>2. Moves(r, quiet) BY <1>0, ClearTurnTimerMoves
<1>3. Rested(quiet, calm) /\ Shape(quiet) BY <1>2, KeepsRested DEF Moves, Keeps
<1>4. CASE remaining = {} BY <1>3, <1>4, RefundAllRested DEF EndHandEarlyAfterFoldOut
<1>5. CASE remaining # {}
  <2>1. solo \in Seat BY <1>1, <1>5
  <2>2. r.pot - RakeOf(r.pot) \in Int
    <3>1. r.pot \in Nat BY <1>0, ShapeFields
    <3> QED BY <3>1, RakeType
  <2> HIDE DEF solo, quiet, remaining
  <2>3. Rested(paid, calm) /\ Shape(paid)
    <3>1. CASE Cardinality(remaining) = 1 /\ r.pot > 0
      <4>1. Keeps(quiet, paid) BY <1>3, <2>1, <2>2, <3>1, PayPlayerKeeps
      <4> HIDE DEF paid
      <4> QED BY <1>3, <4>1, KeepsRested DEF Keeps
    <3>2. CASE ~(Cardinality(remaining) = 1 /\ r.pot > 0) BY <1>3, <3>2
    <3> QED BY <3>1, <3>2
  <2> HIDE DEF paid
  <2> DEFINE best == PayPiqueToBest(paid, remaining)
  <2>4. Keeps(paid, best) BY <1>1, <1>5, <2>3, PayPiqueToBestKeeps
  <2> HIDE DEF best
  <2>5. Rested(best, calm) /\ Shape(best) BY <2>3, <2>4, KeepsRested DEF Keeps
  <2>6. Keeps(best, ScheduleCleanup(best)) BY <2>5, ScheduleCleanupMoves DEF Moves
  <2>7. Rested(ScheduleCleanup(best), calm) BY <2>5, <2>6, KeepsRested
  <2>8. EndHandEarlyAfterFoldOut(r) = ScheduleCleanup(best)
    BY <1>5 DEF EndHandEarlyAfterFoldOut, best, paid, remaining, solo, quiet
  <2> QED BY <2>7, <2>8
<1> QED BY <1>4, <1>5

-----------------------------------------------------------------------------
(* The discards.                                                           *)

LEMMA EnterRevelarCartaReady ==
    ASSUME NEW r, NEW calm, Ready(r, calm)
    PROVE  Ready(EnterRevelarCarta(r), calm) /\ Stakes(r, EnterRevelarCarta(r))
<1> DEFINE q == EnterRevelarCarta(r)
           F == {"turnTimer", "phase", "revealTimer"}
<1>1. Shape(r) BY DEF Ready
<1>2. SameBut(F, r, q) /\ q.turnTimer = FALSE /\ q.phase = "REVELAR_CARTA" /\ q.revealTimer = TRUE
  BY <1>1, ShapeFields DEF EnterRevelarCarta, ClearTurnTimer, SameBut, F4, Fields
<1> HIDE DEF q
<1>3. Typed("turnTimer", q.turnTimer) /\ Typed("revealTimer", q.revealTimer)
  BY <1>2, TypedFlag DEF Flags
<1>4. Typed("phase", q.phase)
  BY <1>2 DEF Typed, Phases4, Seats4, Sets4, Groups, Flags, Counts4
<1>5. Shape(q) BY <1>1, <1>2, <1>3, <1>4, ShapeFrameNoBets
<1>6. \A f \in Core \ {"phase"} : q[f] = r[f] BY <1>2 DEF SameBut, Core, F4, Fields
<1>7. Stakes(r, q) BY <1>2 DEF SameBut, Stakes, F4, Fields
<1> QED BY <1>2, <1>5, <1>6, <1>7, PhaseReady DEF q

LEMMA EnterReemplazoEnds ==
    ASSUME NEW r, NEW calm, Ready(r, calm)
    PROVE  Ends(EnterReemplazo(r), calm) /\ Stakes(r, EnterReemplazo(r))
<1> DEFINE short == {s \in SeatOrder(r) \cap Active(r) : r.missing[s] > 0}
           start == IF r.mano \in SeatOrder(r) THEN r.mano ELSE Min(SeatOrder(r))
           q == EnterReemplazo(r)
<1>1. Shape(r) BY DEF Ready
<1>2. short \subseteq SeatOrder(r) /\ SeatOrder(r) \subseteq Seat BY <1>1, ShapeSets
<1>3. CASE short = {}
  BY <1>3, EnterRevelarCartaReady, ReadyIsRested DEF EnterReemplazo
<1>4. CASE short # {}
  <2>1. start \in Seat
    <3> HIDE DEF short
    <3> QED BY <1>2, <1>4, MinInSet
  <2>2. q = [r EXCEPT !.phase = "COMPLETAR_DESCARTE", !.dealing = short, !.dealFrom = start]
    BY <1>4 DEF EnterReemplazo
  <2>3. \A s \in short : r.missing[s] > 0 OBVIOUS
  <2> HIDE DEF q, short, start
  <2>4. /\ SameBut({"phase", "dealing", "dealFrom"}, r, q)
        /\ q.phase = "COMPLETAR_DESCARTE" /\ q.dealing = short /\ q.dealFrom = start
    BY <1>1, <2>2, ShapeFields DEF SameBut, F4, Fields
  <2>5. Typed("phase", q.phase)
    BY <2>4 DEF Typed, Phases4, Seats4, Sets4, Groups, Flags, Counts4
  <2>6. Typed("dealing", q.dealing) BY <1>2, <2>4, TypedSet DEF Sets4
  <2>7. Typed("dealFrom", q.dealFrom) BY <2>1, <2>4, TypedSeat DEF Seats4
  <2>8. Shape(q) BY <1>1, <2>4, <2>5, <2>6, <2>7, ShapeFrameNoBets
  <2>9. /\ q.players = r.players /\ q.pasoBy = r.pasoBy
        /\ q.validationTimer = r.validationTimer /\ q.collect = r.collect
        /\ q.missing = r.missing /\ q.claims = r.claims
        /\ q.validators = r.validators /\ q.passed = r.passed
        /\ q.cards = r.cards /\ q.maxBet = r.maxBet /\ q.piquePot = r.piquePot
    BY <2>4 DEF SameBut, F4, Fields
  <2>10. Stakes(r, q) BY <2>4 DEF SameBut, Stakes, F4, Fields
  <2>11. Waits(q, NoBet)
    <3>1. Deals4(q) BY <1>4, <2>3, <2>4, <2>9 DEF Deals4, Ready, Rest
    <3> QED BY <3>1 DEF Waits
  <2>12. Decided(q) BY <2>4 DEF Decided
  <2>13. calm => Fair(q)
    <3> SUFFICES ASSUME calm PROVE Fair(q) OBVIOUS
    <3>1. \A s : Hand(q, s) = Hand(r, s) BY <2>9 DEF Hand
    <3>2. Fair(r) /\ r.phase # "SHOWDOWN" BY DEF Ready
    <3> QED BY <2>4, <2>9, <3>1, <3>2 DEF Fair
  <2> QED BY <2>8, <2>10, <2>11, <2>12, <2>13 DEF Ends, Sound, q
<1> QED BY <1>3, <1>4

(* Whoever has the turn next is one of those who may still move.           *)
LEMMA GiveTurnEnds ==
    ASSUME NEW r, NEW calm, Ready(r, calm), NEW C \in SUBSET Seat, C # {},
           NEW from \in Seat \cup {NoSeat}, NEW x \in Seat \cup {NoSeat}
    PROVE  LET q == GiveTurn(r, IF from # NoSeat THEN FirstFrom(x, C) ELSE FirstAfter(x, C))
           IN  Ends(q, calm) /\ Stakes(r, q)
<1> DEFINE s == IF from # NoSeat THEN FirstFrom(x, C) ELSE FirstAfter(x, C)
<1>1. s \in Seat BY FirstIsFound
<1> HIDE DEF s
<1>2. Moves(r, GiveTurn(r, s)) BY <1>1, GiveTurnMoves DEF Ready
<1>3. Ready(GiveTurn(r, s), calm) BY <1>2, KeepsSound DEF Moves
<1> QED BY <1>2, <1>3, ReadyIsRested, MovesStakes DEF s

LEMMA StakesTwice ==
    ASSUME NEW r, NEW p, NEW q, Stakes(r, p), Stakes(p, q) PROVE Stakes(r, q)
BY DEF Stakes

LEMMA ClearTurnTimerReady ==
    ASSUME NEW r, NEW calm, Ready(r, calm)
    PROVE  Ready(ClearTurnTimer(r), calm) /\ Stakes(r, ClearTurnTimer(r))
BY ClearTurnTimerMoves, KeepsSound, MovesStakes DEF Ready, Moves

LEMMA AdvanceTurnDescarteEnds ==
    ASSUME NEW r, NEW calm, Ready(r, calm), NEW from \in Seat \cup {NoSeat}
    PROVE  Ends(AdvanceTurnDescarte(r, from), calm) /\ Stakes(r, AdvanceTurnDescarte(r, from))
<1> DEFINE asked == IF from # NoSeat THEN from ELSE r.turn
           start == IF asked \notin SeatOrder(r) /\ from # NoSeat THEN r.mano ELSE asked
           next  == (SeatOrder(r) \cap Active(r)) \ r.acted
           quiet == ClearTurnTimer(r)
           q == AdvanceTurnDescarte(r, from)
<1>1. Shape(r) BY DEF Ready
<1>2. next \in SUBSET Seat /\ start \in Seat \cup {NoSeat} BY <1>1, ShapeFields, ShapeSets
<1>3. q = IF start \notin SeatOrder(r) \/ next = {} THEN EnterReemplazo(quiet)
          ELSE GiveTurn(r, IF from # NoSeat THEN FirstFrom(start, next)
                           ELSE FirstAfter(start, next))
  BY DEF AdvanceTurnDescarte
<1>4. Ready(quiet, calm) /\ Stakes(r, quiet) BY ClearTurnTimerReady
<1> HIDE DEF asked, start, next, quiet, q
<1>5. CASE start \notin SeatOrder(r) \/ next = {}
  <2>1. Ends(EnterReemplazo(quiet), calm) /\ Stakes(quiet, EnterReemplazo(quiet))
    BY <1>4, EnterReemplazoEnds
  <2>2. q = EnterReemplazo(quiet) BY <1>3, <1>5
  <2> QED BY <1>4, <2>1, <2>2, StakesTwice DEF q
<1>6. CASE ~(start \notin SeatOrder(r) \/ next = {})
  <2>1. q = GiveTurn(r, IF from # NoSeat THEN FirstFrom(start, next) ELSE FirstAfter(start, next))
    BY <1>3, <1>6
  <2> QED BY <1>2, <1>6, <2>1, GiveTurnEnds DEF q
<1> QED BY <1>5, <1>6

(* The phase may be that of a showdown that has just been closed.          *)
LEMMA EnterDescarteEnds ==
    ASSUME NEW r, NEW calm, Ready([r EXCEPT !.phase = "DESCARTE"], calm), DOMAIN r = F4
    PROVE  Ends(EnterDescarte(r), calm) /\ Stakes(r, EnterDescarte(r))
<1> DEFINE p == [r EXCEPT !.phase = "DESCARTE"]
           acted == r.acted \ r.players
           q == [ClearTurnTimer(r) EXCEPT !.phase = "DESCARTE", !.acted = acted,
                                          !.pasoBy = NoSeat, !.pasoPhase = "LOBBY"]
           F == {"turnTimer", "acted", "pasoBy", "pasoPhase"}
<1>1. Shape(p) /\ Ready(p, calm) BY DEF Ready
<1>2. /\ SameBut(F, p, q) /\ q.turnTimer = FALSE /\ q.acted = acted /\ q.pasoBy = NoSeat
      /\ \A f \in F4 \ {"phase"} : p[f] = r[f]
  <2> HIDE DEF acted
  <2> QED BY ZenonT(60), <1>1, ShapeFields DEF ClearTurnTimer, SameBut, F4, Fields
<1>3. EnterDescarte(r) = AdvanceTurnDescarte(q, r.mano)
  BY Zenon DEF EnterDescarte, ClearTurnTimer
<1> HIDE DEF p, q
<1>4. r.mano \in Seat \cup {NoSeat} /\ acted \subseteq Seat /\ p.players \subseteq Seat
  <2>1. r.mano = p.mano /\ r.acted = p.acted BY <1>2 DEF F4, Fields
  <2>2. p.mano \in Seat \cup {NoSeat} /\ p.acted \subseteq Seat /\ p.players \subseteq Seat
    BY <1>1, ShapeFields, ShapeSets
  <2> QED BY <2>1, <2>2
<1> HIDE DEF acted
<1>5. Shape(q)
  <2>1. Typed("turnTimer", q.turnTimer) BY <1>2, TypedFlag DEF Flags
  <2>2. Typed("acted", q.acted) BY <1>2, <1>4, TypedSet DEF Sets4, Groups
  <2>3. Typed("pasoBy", q.pasoBy) BY <1>2, TypedSeat DEF Seats4
  <2>4. Typed("pasoPhase", q.pasoPhase) BY TypedOther DEF Untyped
  <2> QED BY <1>1, <1>2, <2>1, <2>2, <2>3, <2>4, ShapeFrameNoBets
<1>6. /\ q.players = p.players /\ q.phase = p.phase
      /\ q.validationTimer = p.validationTimer /\ q.collect = p.collect
      /\ q.dealing = p.dealing /\ q.claims = p.claims /\ q.asked = p.asked
      /\ q.validators = p.validators /\ q.passed = p.passed /\ q.winners = p.winners
      /\ q.cards = p.cards /\ q.maxBet = p.maxBet /\ q.piquePot = p.piquePot
      /\ q.chips = p.chips /\ q.mainBet = p.mainBet
  BY <1>2 DEF SameBut, F4, Fields
<1>7. Ready(q, calm)
  <2>1. Rest(q) BY <1>1, <1>2, <1>4, <1>6 DEF Ready, Rest, Seat, NoSeat
  <2>2. calm => Fair(q)
    <3> SUFFICES ASSUME calm PROVE Fair(q) OBVIOUS
    <3>1. \A s : Hand(q, s) = Hand(p, s) BY <1>6 DEF Hand
    <3>2. Fair(p) /\ p.phase # "SHOWDOWN" BY <1>1 DEF Ready
    <3> QED BY <1>2, <1>6, <3>1, <3>2 DEF Fair
  <2> QED BY <1>1, <1>5, <1>6, <2>1, <2>2 DEF Ready
<1>8. Stakes(r, q)
  <2>1. p.chips = r.chips /\ p.mainBet = r.mainBet BY <1>2 DEF F4, Fields
  <2> QED BY <1>6, <2>1 DEF Stakes
<1>9. Ends(AdvanceTurnDescarte(q, r.mano), calm) /\ Stakes(q, AdvanceTurnDescarte(q, r.mano))
  BY <1>4, <1>7, AdvanceTurnDescarteEnds
<1> QED BY <1>3, <1>8, <1>9, StakesTwice

(* The phase alone.                                                        *)
LEMMA SetPhaseShape ==
    ASSUME NEW r, Shape(r), NEW phase \in Phases4
    PROVE  LET q == [r EXCEPT !.phase = phase]
           IN  Shape(q) /\ SameBut({"phase"}, r, q) /\ q.phase = phase
<1> DEFINE q == [r EXCEPT !.phase = phase]
<1>1. SameBut({"phase"}, r, q) /\ q.phase = phase BY ShapeFields DEF SameBut, F4, Fields
<1> HIDE DEF q
<1>2. Typed("phase", q.phase) BY <1>1 DEF Typed, Phases4, Seats4, Sets4, Groups, Flags, Counts4
<1>3. Shape(q) BY <1>1, <1>2, ShapeFrameNoBets
<1> QED BY <1>1, <1>3 DEF q

LEMMA SetPhaseReady ==
    ASSUME NEW r, NEW calm, Ready(r, calm),
           NEW phase \in Phases4 \ {"SHOWDOWN", "JUEGO_VALIDACION"}
    PROVE  LET q == [r EXCEPT !.phase = phase] IN Ready(q, calm) /\ Stakes(r, q)
<1> DEFINE q == [r EXCEPT !.phase = phase]
<1>1. Shape(r) BY DEF Ready
<1>2. Shape(q) /\ SameBut({"phase"}, r, q) /\ q.phase = phase BY <1>1, SetPhaseShape
<1> HIDE DEF q
<1>3. \A f \in Core \ {"phase"} : q[f] = r[f] BY <1>2 DEF SameBut, Core, F4, Fields
<1>4. Stakes(r, q) BY <1>2 DEF SameBut, Stakes, F4, Fields
<1> QED BY <1>2, <1>3, <1>4, PhaseReady DEF q

LEMMA DescarteFromReady ==
    ASSUME NEW r, NEW calm, Ready(r, calm)
    PROVE  Ends(EnterDescarte(r), calm) /\ Stakes(r, EnterDescarte(r))
<1>1. Ready([r EXCEPT !.phase = "DESCARTE"], calm) BY SetPhaseReady DEF Phases4
<1>2. DOMAIN r = F4 BY ShapeFields DEF Ready
<1> QED BY <1>1, <1>2, EnterDescarteEnds

-----------------------------------------------------------------------------
(* Who wins the pique.                                                     *)

(* Nobody beats a winner by more than the point of La Mano.                *)
LEMMA WinnersAreBest ==
    ASSUME NEW C \in SUBSET Seat, NEW eval \in [Seat -> 0..MaxHand], NEW mano
    PROVE  /\ ResolveHandWinners(C, eval, mano) \subseteq C
           /\ \A s \in ResolveHandWinners(C, eval, mano), t \in C : eval[t] <= eval[s] + 1
<1> SUFFICES ASSUME NEW s \in ResolveHandWinners(C, eval, mano), NEW t \in C
             PROVE  eval[t] <= eval[s] + 1
  BY DEF ResolveHandWinners
<1>1. s \in Seat /\ t \in Seat BY DEF ResolveHandWinners
<1>2. WithManoBonus(eval[s], s = mano) >= WithManoBonus(eval[t], t = mano)
  BY DEF ResolveHandWinners
<1>3. eval[s] \in Int /\ eval[t] \in Int BY <1>1 DEF MaxHand
<1>4. WithManoBonus(eval[s], s = mano) \in {eval[s], eval[s] + 1}
      /\ WithManoBonus(eval[t], t = mano) \in {eval[t], eval[t] + 1}
  BY DEF WithManoBonus
<1> HIDE DEF WithManoBonus
<1> QED BY <1>2, <1>3, <1>4

(* The showdown of the pique: the winners are among the contestants, and   *)
(* the contestants, of those who are still there, have passed.             *)
LEMMA ShowdownRested ==
    ASSUME NEW r, NEW q, NEW calm, Shape(r), Rest(r),
           SameBut({"winners", "contestants", "continuation", "reopenCallers", "phase", "turn"},
                   r, q),
           q.phase = "SHOWDOWN", q.turn \in Seat \cup {NoSeat},
           q.reopenCallers \in Seq(Call), q.contestants \in SUBSET Seat, NEW mano,
           q.winners = ResolveHandWinners(q.contestants \cap r.players, HandOf(r), mano),
           q.contestants \cap r.players \subseteq r.passed,
           calm => /\ r.players = Seat /\ (r.pasoBy # NoSeat => r.maxBet > 0)
                   /\ r.piquePot > 0 => /\ \A s \in r.passed : TieneJuego(Hand(r, s))
                                        /\ r.passed \subseteq q.contestants
    PROVE  Rested(q, calm) /\ Stakes(r, q)
<1>1. HandOf(r) \in [Seat -> 0..MaxHand] /\ r.players \subseteq Seat /\ r.passed \subseteq Seat
  BY ShapeSets
<1>2. /\ q.winners \subseteq q.contestants \cap r.players
      /\ \A s \in q.winners, t \in q.contestants \cap r.players :
            HandOf(r)[t] <= HandOf(r)[s] + 1
  <2> DEFINE C == q.contestants \cap r.players
  <2>1. C \in SUBSET Seat BY <1>1
  <2> HIDE DEF C
  <2>2. q.winners = ResolveHandWinners(C, HandOf(r), mano) BY DEF C
  <2> DEFINE W == ResolveHandWinners(C, HandOf(r), mano)
  <2>3. W \subseteq C /\ \A s \in W, t \in C : HandOf(r)[t] <= HandOf(r)[s] + 1
    BY <1>1, <2>1, WinnersAreBest
  <2>4. q.winners = W BY <2>2
  <2> HIDE DEF W
  <2> QED BY <2>3, <2>4 DEF C
<1>3. /\ q.players = r.players /\ q.pasoBy = r.pasoBy
      /\ q.validationTimer = r.validationTimer /\ q.collect = r.collect
      /\ q.dealing = r.dealing /\ q.claims = r.claims
      /\ q.validators = r.validators /\ q.passed = r.passed
      /\ q.cards = r.cards /\ q.maxBet = r.maxBet /\ q.piquePot = r.piquePot
      /\ q.chips = r.chips /\ q.mainBet = r.mainBet
  BY DEF SameBut, F4, Fields
<1>4. \A s \in Seat : Hand(q, s) = Hand(r, s) /\ HandOf(r)[s] = Hand(r, s)
  BY <1>3 DEF Hand, HandOf
<1>5. Shape(q)
  <2>1. Typed("winners", q.winners) /\ Typed("contestants", q.contestants)
    BY <1>1, <1>2, TypedSet DEF Sets4
  <2>2. Typed("continuation", q.continuation) BY TypedOther DEF Untyped
  <2>3. Typed("reopenCallers", q.reopenCallers) /\ Typed("phase", q.phase)
    BY DEF Typed, Phases4, Seats4, Sets4, Groups, Flags, Counts4
  <2>4. Typed("turn", q.turn) BY TypedSeat DEF Seats4
  <2> QED BY <2>1, <2>2, <2>3, <2>4, ShapeFrameNoBets
<1>6. Rest(q) BY <1>3 DEF Rest
<1>7. Decided(q)
  <2> SUFFICES ASSUME NEW s \in q.winners, NEW t \in q.contestants \cap q.players
               PROVE  s \in q.passed /\ Hand(q, t) <= Hand(q, s) + 1
    BY <1>2, <1>3 DEF Decided
  <2>1. s \in Seat /\ t \in Seat BY <1>1, <1>2, <1>3
  <2>2. HandOf(r)[t] <= HandOf(r)[s] + 1 BY <1>2, <1>3
  <2> QED BY <1>2, <1>3, <1>4, <2>1, <2>2
<1>8. calm => Fair(q)
  <2> SUFFICES ASSUME calm PROVE Fair(q) OBVIOUS
  <2>1. /\ r.players = Seat /\ (r.pasoBy # NoSeat => r.maxBet > 0)
        /\ r.piquePot > 0 => /\ \A s \in r.passed : TieneJuego(Hand(r, s))
                             /\ r.passed \subseteq q.contestants
    OBVIOUS
  <2>2. q.piquePot > 0 => \A s \in q.winners, t \in q.passed : Hand(q, t) <= Hand(q, s) + 1
    <3> SUFFICES ASSUME q.piquePot > 0, NEW s \in q.winners, NEW t \in q.passed
                 PROVE  Hand(q, t) <= Hand(q, s) + 1
      OBVIOUS
    <3>1. t \in q.contestants \cap r.players BY <1>1, <1>3, <2>1
    <3>2. s \in Seat /\ t \in Seat BY <1>1, <1>2, <3>1
    <3>3. HandOf(r)[t] <= HandOf(r)[s] + 1 BY <1>2, <3>1
    <3> QED BY <1>4, <3>2, <3>3
  <2>3. \A i \in DOMAIN r.claims : r.claims[i] \in Seat BY ShapeFields
  <2>4. r.validators \subseteq Seat BY ShapeSets
  <2>5. \A s \in r.passed : Hand(q, s) = Hand(r, s) BY <1>1, <1>4
  <2>6. ~r.validationTimer BY DEF Rest
  <2> QED BY <1>3, <2>1, <2>2, <2>5, <2>6 DEF Fair
<1>9. Stakes(r, q) BY <1>3 DEF Stakes
<1> QED BY <1>5, <1>6, <1>7, <1>8, <1>9 DEF Rested, Ends, Sound, Waits

LEMMA MergePiqueReady ==
    ASSUME NEW r, NEW calm, Ready(r, calm)
    PROVE  LET q == [r EXCEPT !.pot = @ + r.piquePot, !.piquePot = 0]
           IN  Ready(q, calm) /\ Stakes(r, q) /\ q.phase = r.phase
<1> DEFINE q == [r EXCEPT !.pot = @ + r.piquePot, !.piquePot = 0]
<1>1. Shape(r) BY DEF Ready
<1>2. r.pot \in Nat /\ r.piquePot \in Nat BY <1>1, ShapeFields
<1>3. SameBut({"pot", "piquePot"}, r, q) /\ q.pot = r.pot + r.piquePot /\ q.piquePot = 0
  BY <1>1, ShapeFields DEF SameBut, F4, Fields
<1> HIDE DEF q
<1>4. Typed("pot", q.pot) /\ Typed("piquePot", q.piquePot)
  BY <1>2, <1>3, TypedCount DEF Counts4
<1>5. Shape(q) BY <1>1, <1>3, <1>4, ShapeFrameNoBets
<1>6. /\ q.players = r.players /\ q.pasoBy = r.pasoBy /\ q.phase = r.phase
      /\ q.validationTimer = r.validationTimer /\ q.collect = r.collect
      /\ q.dealing = r.dealing /\ q.claims = r.claims /\ q.asked = r.asked
      /\ q.validators = r.validators /\ q.cards = r.cards /\ q.maxBet = r.maxBet
      /\ q.chips = r.chips /\ q.mainBet = r.mainBet
  BY <1>3 DEF SameBut, F4, Fields
<1>7. calm => Fair(q)
  <2> SUFFICES ASSUME calm PROVE Fair(q) OBVIOUS
  <2>1. \A s : Hand(q, s) = Hand(r, s) BY <1>6 DEF Hand
  <2>2. Fair(r) BY DEF Ready
  <2> QED BY <1>3, <1>6, <2>1, <2>2 DEF Fair
<1>8. Ready(q, calm) BY <1>5, <1>6, <1>7 DEF Ready, Rest
<1>9. Stakes(r, q) BY <1>6 DEF Stakes
<1> QED BY <1>6, <1>8, <1>9 DEF q

LEMMA ResolvePiqueEnds ==
    ASSUME NEW r, NEW calm, Ready(r, calm)
    PROVE  LET q == ResolvePiqueAfterApuesta4(r)
           IN  /\ Stakes(r, q)
               /\ \/ Ready(q, calm) /\ q.phase = r.phase
                  \/ Rested(q, calm) /\ q.phase = "SHOWDOWN" /\ q.winners # {}
<1> DEFINE C == r.passed \cap r.players
           winners == ResolveHandWinners(C, HandOf(r), r.mano)
           q == ResolvePiqueAfterApuesta4(r)
<1>1. Shape(r) /\ Rest(r) /\ r.phase # "SHOWDOWN" BY DEF Ready
<1>2. CASE r.piquePot <= 0
  <2>1. q = r BY <1>2 DEF ResolvePiqueAfterApuesta4
  <2>2. Stakes(r, r) BY DEF Stakes
  <2> QED BY <2>1, <2>2
<1>3. CASE ~(r.piquePot <= 0) /\ C = {}
  <2>1. q = [r EXCEPT !.pot = @ + r.piquePot, !.piquePot = 0]
    BY <1>3 DEF ResolvePiqueAfterApuesta4
  <2> QED BY <2>1, MergePiqueReady
<1>4. CASE ~(r.piquePot <= 0) /\ C # {}
  <2>1. C \in SUBSET Seat /\ HandOf(r) \in [Seat -> 0..MaxHand] BY <1>1, ShapeSets
  <2>2. winners # {} /\ winners \subseteq C
    <3> HIDE DEF C
    <3> QED BY <1>4, <2>1, SomebodyWins
  <2>3. Min(winners) \in Seat
    <3> HIDE DEF winners, C
    <3> QED BY <2>1, <2>2, MinInSet
  <2>4. q = [r EXCEPT !.winners = winners, !.contestants = C,
                      !.continuation = "DESCARTE", !.reopenCallers = <<>>,
                      !.phase = "SHOWDOWN", !.turn = Min(winners)]
    BY <1>4 DEF ResolvePiqueAfterApuesta4, StartPiqueShowdown
  <2> HIDE DEF q
  <2>5. /\ SameBut({"winners", "contestants", "continuation", "reopenCallers", "phase", "turn"},
                   r, q)
        /\ q.winners = winners /\ q.contestants = C /\ q.reopenCallers = <<>>
        /\ q.phase = "SHOWDOWN" /\ q.turn = Min(winners)
    <3> HIDE DEF winners, C
    <3> QED BY ZenonT(60), <1>1, <2>4, ShapeFields DEF SameBut, F4, Fields
  <2>6. C \cap r.players = C OBVIOUS
  <2>7. calm => /\ r.players = Seat /\ (r.pasoBy # NoSeat => r.maxBet > 0)
                /\ r.piquePot > 0 => /\ \A s \in r.passed : TieneJuego(Hand(r, s))
                                     /\ r.passed \subseteq C
    <3>1. r.passed \subseteq Seat BY <1>1, ShapeSets
    <3> QED BY <3>1 DEF Ready, Fair
  <2>8. q.reopenCallers \in Seq(Call) BY <2>5
  <2>9. q.winners = ResolveHandWinners(q.contestants \cap r.players, HandOf(r), r.mano)
    BY <2>5, <2>6
  <2>10. C \subseteq r.passed OBVIOUS
  <2> HIDE DEF C, winners
  <2>11. Rested(q, calm) /\ Stakes(r, q)
    BY <1>1, <2>1, <2>3, <2>5, <2>6, <2>7, <2>8, <2>9, <2>10, ShowdownRested
  <2> QED BY <2>2, <2>5, <2>11 DEF q
<1> QED BY <1>2, <1>3, <1>4

-----------------------------------------------------------------------------
(* The end of the round of bets.                                           *)

LEMMA StartJuegoValidationEnds ==
    ASSUME NEW r, NEW calm, Ready(r, calm), NEW withJuego \in SUBSET Seat, r.maxBet = 0,
           \A s \in withJuego : TieneJuego(Hand(r, s))
    PROVE  LET q == StartJuegoValidation(r, withJuego) IN Ends(q, calm) /\ Stakes(r, q)
<1> DEFINE q == StartJuegoValidation(r, withJuego)
           active == Active(r)
           acted == r.acted \ Active(r)
           p == [r EXCEPT !.turnTimer = FALSE]
           F == {"turnTimer", "phase", "asked", "claims", "callers", "validators", "callerId",
                 "acted", "validationTimer"}
<1>1. Shape(r) BY DEF Ready
<1>2. q = [p EXCEPT !.phase = "JUEGO_VALIDACION", !.asked = active, !.claims = <<>>,
                     !.callers = <<>>, !.validators = withJuego, !.callerId = NoSeat,
                     !.acted = acted, !.validationTimer = TRUE]
  BY Zenon DEF StartJuegoValidation, ClearTurnTimer
<1>3. active \subseteq Seat /\ acted \subseteq Seat BY <1>1, ShapeSets
<1> HIDE DEF q, active, acted
<1>4. /\ SameBut(F, r, q) /\ q.turnTimer = FALSE /\ q.phase = "JUEGO_VALIDACION"
      /\ q.asked = active /\ q.claims = <<>> /\ q.callers = <<>> /\ q.validators = withJuego
      /\ q.callerId = NoSeat /\ q.acted = acted /\ q.validationTimer = TRUE
  <2>1. DOMAIN p = F4 /\ p.turnTimer = FALSE /\ \A f \in F4 \ {"turnTimer"} : p[f] = r[f]
    BY <1>1, ShapeFields DEF F4, Fields
  <2> HIDE DEF p
  <2>2. /\ q.phase = "JUEGO_VALIDACION" /\ q.asked = active /\ q.claims = <<>>
        /\ q.callers = <<>> /\ q.validators = withJuego
        /\ q.callerId = NoSeat /\ q.acted = acted /\ q.validationTimer = TRUE
    BY <1>2, <2>1 DEF F4, Fields
  <2>3. DOMAIN q = F4 /\ \A f \in F4 \ (F \ {"turnTimer"}) : q[f] = p[f] BY <1>2, <2>1
  <2>4. q.turnTimer = FALSE BY <2>1, <2>3 DEF F4, Fields
  <2> QED BY <2>1, <2>2, <2>3, <2>4 DEF SameBut
<1>5. Shape(q)
  <2>1. Typed("turnTimer", q.turnTimer) /\ Typed("validationTimer", q.validationTimer)
    BY <1>4, TypedFlag DEF Flags
  <2>2. Typed("phase", q.phase) /\ Typed("claims", q.claims) /\ Typed("callers", q.callers)
    BY <1>4 DEF Typed, Phases4, Seats4, Sets4, Groups, Flags, Counts4
  <2>3. Typed("asked", q.asked) /\ Typed("validators", q.validators) /\ Typed("acted", q.acted)
    BY <1>3, <1>4, TypedSet DEF Sets4, Groups
  <2>4. Typed("callerId", q.callerId) BY <1>4, TypedSeat DEF Seats4
  <2> QED BY <1>1, <1>4, <2>1, <2>2, <2>3, <2>4, ShapeFrameNoBets
<1>6. /\ q.players = r.players /\ q.pasoBy = r.pasoBy /\ q.collect = r.collect
      /\ q.dealing = r.dealing /\ q.passed = r.passed
      /\ q.cards = r.cards /\ q.maxBet = r.maxBet /\ q.piquePot = r.piquePot
      /\ q.chips = r.chips /\ q.mainBet = r.mainBet
  BY <1>4 DEF SameBut, F4, Fields
<1>7. Waits(q, NoBet)
  <2>1. Validates(q) BY <1>4, <1>6 DEF Validates, Ready, Rest
  <2> QED BY <2>1 DEF Waits
<1>8. Decided(q) BY <1>4 DEF Decided
<1>9. calm => Fair(q)
  <2> SUFFICES ASSUME calm PROVE Fair(q) OBVIOUS
  <2>1. \A s : Hand(q, s) = Hand(r, s) BY <1>6 DEF Hand
  <2>2. Fair(r) /\ r.phase # "SHOWDOWN" BY DEF Ready
  <2>3. DOMAIN q.claims = {} BY <1>4
  <2> QED BY <1>4, <1>6, <2>1, <2>2, <2>3 DEF Fair
<1>10. Stakes(r, q) BY <1>6 DEF Stakes
<1> QED BY <1>5, <1>7, <1>8, <1>9, <1>10 DEF Ends, Sound, q

(* With more than one active player nobody is paid.                        *)
LEMMA ResolveAndStartDescarteEnds ==
    ASSUME NEW r, NEW calm, Ready(r, calm)
    PROVE  LET q == ResolveAndStartDescarte(r)
           IN  Ends(q, calm) /\ (~(Cardinality(Active(r)) <= 1) => Stakes(r, q))
<1> DEFINE withJuego == {s \in Active(r) : TieneJuego(Hand(r, s))}
           p == ResolvePiqueAfterApuesta4(r)
           q == ResolveAndStartDescarte(r)
<1>1. withJuego \in SUBSET Seat BY ShapeSets DEF Ready
<1>2. \A s \in withJuego : TieneJuego(Hand(r, s)) OBVIOUS
<1>3. /\ Stakes(r, p)
      /\ \/ Ready(p, calm) /\ p.phase = r.phase
         \/ Rested(p, calm) /\ p.phase = "SHOWDOWN" /\ p.winners # {}
  BY ResolvePiqueEnds
<1>4. q = IF Cardinality(Active(r)) > 1 /\ r.maxBet = 0 /\ withJuego # {}
          THEN StartJuegoValidation(r, withJuego)
          ELSE IF p.phase = "SHOWDOWN" THEN p
          ELSE IF Cardinality(Active(r)) <= 1 THEN EndHandEarlyAfterFoldOut(p)
          ELSE EnterDescarte(p)
  BY DEF ResolveAndStartDescarte
<1> HIDE DEF withJuego, p, q
<1>5. CASE Cardinality(Active(r)) > 1 /\ r.maxBet = 0 /\ withJuego # {}
  <2>1. q = StartJuegoValidation(r, withJuego) BY <1>4, <1>5
  <2> QED BY <1>1, <1>2, <1>5, <2>1, StartJuegoValidationEnds DEF q
<1>6. CASE ~(Cardinality(Active(r)) > 1 /\ r.maxBet = 0 /\ withJuego # {}) /\ p.phase = "SHOWDOWN"
  <2>1. q = p BY <1>4, <1>6
  <2> QED BY <1>3, <1>6, <2>1 DEF Ready, Rested, q
<1>7. CASE ~(Cardinality(Active(r)) > 1 /\ r.maxBet = 0 /\ withJuego # {}) /\ p.phase # "SHOWDOWN"
  <2>1. Ready(p, calm) BY <1>3, <1>7
  <2>2. CASE Cardinality(Active(r)) <= 1
    <3>1. q = EndHandEarlyAfterFoldOut(p) BY <1>4, <1>7, <2>2
    <3>2. Rested(q, calm) BY <2>1, <3>1, ReadyIsRested, EndHandEarlyRested
    <3> QED BY <2>2, <3>2 DEF Rested, q
  <2>3. CASE ~(Cardinality(Active(r)) <= 1)
    <3>1. q = EnterDescarte(p) BY <1>4, <1>7, <2>3
    <3>2. Ends(q, calm) /\ Stakes(p, q) BY <2>1, <3>1, DescarteFromReady
    <3> QED BY <1>3, <3>2, StakesTwice DEF q
  <2> QED BY <2>2, <2>3
<1> QED BY <1>5, <1>6, <1>7

LEMMA NobodyToPlayEnds ==
    ASSUME NEW r, NEW calm, Ready(r, calm) PROVE Ends(NobodyToPlay(r), calm)
<1> DEFINE p == IF r.phase = "APUESTA_4_CARTAS" THEN ResolvePiqueAfterApuesta4(r) ELSE r
           q == NobodyToPlay(r)
<1>1. q = IF r.phase = "APUESTA_4_CARTAS" /\ p.winners # {} THEN p
          ELSE IF p.pot = 0 /\ Active(r) = {} /\ p.piquePot = 0
          THEN EndHandEarlyAfterFoldOut(p)
          ELSE ResolveAndStartDescarte(p)
  BY DEF NobodyToPlay
<1>2. \/ Ready(p, calm)
      \/ Rested(p, calm) /\ r.phase = "APUESTA_4_CARTAS" /\ p.winners # {}
  BY ResolvePiqueEnds
<1>3. Rested(p, calm) BY <1>2, ReadyIsRested
<1> HIDE DEF p, q
<1>4. CASE r.phase = "APUESTA_4_CARTAS" /\ p.winners # {}
  BY <1>1, <1>3, <1>4 DEF Rested, q
<1>5. CASE ~(r.phase = "APUESTA_4_CARTAS" /\ p.winners # {})
  <2>1. Ready(p, calm) BY <1>2, <1>5
  <2>2. Ends(EndHandEarlyAfterFoldOut(p), calm) BY <1>3, EndHandEarlyRested DEF Rested
  <2>3. Ends(ResolveAndStartDescarte(p), calm) BY <2>1, ResolveAndStartDescarteEnds
  <2> QED BY <1>1, <1>5, <2>2, <2>3 DEF q
<1> QED BY <1>4, <1>5

LEMMA AdvanceTurnBettingEnds ==
    ASSUME NEW r, NEW calm, Ready(r, calm), NEW from \in Seat \cup {NoSeat}
    PROVE  LET q == AdvanceTurnBetting(r, from)
           IN  Ends(q, calm) /\ (~(Cardinality(Active(r)) <= 1) => Stakes(r, q))
<1> DEFINE asked == IF from # NoSeat THEN from ELSE r.turn
           start == IF asked \notin SeatOrder(r) /\ from # NoSeat THEN r.mano ELSE asked
           next  == {s \in SeatOrder(r) : M!InTurn(r, s)}
           back == RefundUncalledBet(r)
           quiet == ClearTurnTimer(back)
           q == AdvanceTurnBetting(r, from)
<1>1. Shape(r) BY DEF Ready
<1>2. next \in SUBSET Seat /\ start \in Seat \cup {NoSeat} BY <1>1, ShapeFields, ShapeSets
<1>3. q = IF Cardinality(Active(r)) <= 1 THEN NobodyToPlay(back)
          ELSE IF start \notin SeatOrder(r) THEN ResolveAndStartDescarte(r)
          ELSE IF next # {}
          THEN GiveTurn(r, IF from # NoSeat THEN FirstFrom(start, next)
                           ELSE FirstAfter(start, next))
          ELSE ResolveAndStartDescarte(quiet)
  BY DEF AdvanceTurnBetting
<1>4. Keeps(r, back) /\ Stakes(r, back) BY <1>1, RefundUncalledBetKeeps
<1>5. Ready(back, calm) BY <1>4, KeepsSound
<1>6. Ready(quiet, calm) /\ Stakes(back, quiet) BY <1>5, ClearTurnTimerReady
<1>7. Active(quiet) = Active(r)
  <2>1. SameBut({"turnTimer"}, back, quiet) BY <1>5, ClearTurnTimerMoves DEF Ready
  <2>2. back.players = r.players /\ back.connected = r.connected /\ back.folded = r.folded
    BY <1>1, RefundUncalledBetActive
  <2> QED BY <2>1, <2>2 DEF Active, SameBut, F4, Fields
<1> HIDE DEF asked, start, next, back, quiet, q
<1>8. CASE Cardinality(Active(r)) <= 1
  <2>1. q = NobodyToPlay(back) BY <1>3, <1>8
  <2> QED BY <1>5, <1>8, <2>1, NobodyToPlayEnds DEF q
<1>9. CASE ~(Cardinality(Active(r)) <= 1) /\ start \notin SeatOrder(r)
  <2>1. q = ResolveAndStartDescarte(r) BY <1>3, <1>9
  <2> QED BY <2>1, ResolveAndStartDescarteEnds DEF q
<1>10. CASE ~(Cardinality(Active(r)) <= 1) /\ start \in SeatOrder(r) /\ next # {}
  <2>1. q = GiveTurn(r, IF from # NoSeat THEN FirstFrom(start, next) ELSE FirstAfter(start, next))
    BY <1>3, <1>10
  <2> QED BY <1>2, <1>10, <2>1, GiveTurnEnds DEF q
<1>11. CASE ~(Cardinality(Active(r)) <= 1) /\ start \in SeatOrder(r) /\ next = {}
  <2>1. q = ResolveAndStartDescarte(quiet) BY <1>3, <1>11
  <2>2. Ends(q, calm) /\ Stakes(quiet, q)
    BY <1>6, <1>7, <1>11, <2>1, ResolveAndStartDescarteEnds
  <2> QED BY <1>4, <1>6, <2>2, StakesTwice DEF q
<1> QED BY <1>8, <1>9, <1>10, <1>11

-----------------------------------------------------------------------------
(* The pique is paid, and what the last player bet.                        *)

(* The core but for the phase, what is left of the pique, and its winners. *)
LEMMA ReadyAgain ==
    ASSUME NEW r, NEW q, NEW calm, Ready(r, calm), Shape(q),
           \A f \in Core \ {"phase", "piquePot", "winners", "contestants"} : q[f] = r[f],
           q.phase \notin {"SHOWDOWN", "JUEGO_VALIDACION"},
           q.piquePot \in {0, r.piquePot}
    PROVE  Ready(q, calm)
<1>1. /\ q.players = r.players /\ q.pasoBy = r.pasoBy
      /\ q.validationTimer = r.validationTimer /\ q.collect = r.collect
      /\ q.dealing = r.dealing /\ q.claims = r.claims
      /\ q.validators = r.validators /\ q.passed = r.passed
      /\ q.cards = r.cards /\ q.maxBet = r.maxBet
  BY DEF Core
<1>2. \A s : Hand(q, s) = Hand(r, s) BY <1>1 DEF Hand
<1>3. Rest(q) BY <1>1 DEF Ready, Rest
<1>4. calm => Fair(q)
  <2> SUFFICES ASSUME calm PROVE Fair(q) OBVIOUS
  <2>1. Fair(r) /\ r.phase # "SHOWDOWN" BY DEF Ready
  <2>2. q.piquePot > 0 => r.piquePot > 0 OBVIOUS
  <2> QED BY <1>1, <1>2, <2>1, <2>2 DEF Fair
<1> QED BY <1>3, <1>4 DEF Ready

LEMMA MaxOfZero ==
    ASSUME NEW x \in Int PROVE Max({0, x}) = IF x > 0 THEN x ELSE 0
<1> DEFINE m == IF x > 0 THEN x ELSE 0
<1>1. m \in {0, x} /\ m \in Int /\ \A y \in {0, x} : m >= y OBVIOUS
<1>2. \A n \in {0, x} : (\A y \in {0, x} : n >= y) => n = m OBVIOUS
<1> HIDE DEF m
<1>3. Max({0, x}) = m BY <1>1, <1>2 DEF Max
<1> QED BY <1>3 DEF m

LEMMA MaxOfTwo ==
    ASSUME NEW x \in Int, NEW y \in Int PROVE Max({x, y}) = IF x >= y THEN x ELSE y
<1> DEFINE m == IF x >= y THEN x ELSE y
<1>1. m \in {x, y} /\ m \in Int /\ \A z \in {x, y} : m >= z OBVIOUS
<1>2. \A n \in {x, y} : (\A z \in {x, y} : n >= z) => n = m OBVIOUS
<1> HIDE DEF m
<1>3. Max({x, y}) = m BY <1>1, <1>2 DEF Max
<1> QED BY <1>3 DEF m

(* Nothing but the purses and the pique changes.                           *)
Paid(r, q) == Shape(q) /\ SameBut(Purse \cup {"piquePot"}, r, q) /\ q.piquePot \in {0, r.piquePot}

LEMMA NoPique ==
    ASSUME NEW r, NEW p, Shape(p), SameBut(Purse, r, p)
    PROVE  LET q == [p EXCEPT !.piquePot = 0] IN Paid(r, q) /\ q.piquePot = 0 /\ q.chips = p.chips
<1> DEFINE q == [p EXCEPT !.piquePot = 0]
<1>1. SameBut({"piquePot"}, p, q) /\ q.piquePot = 0 BY ShapeFields DEF SameBut, F4, Fields
<1> HIDE DEF q
<1>2. Typed("piquePot", q.piquePot) BY <1>1, TypedCount DEF Counts4
<1>3. Shape(q) BY <1>1, <1>2, ShapeFrameNoBets
<1>4. SameBut(Purse \cup {"piquePot"}, r, q) BY <1>1 DEF SameBut
<1>5. q.chips = p.chips BY <1>1 DEF SameBut, F4, Fields
<1> QED BY <1>1, <1>3, <1>4, <1>5 DEF Paid, q

LEMMA PaidSame == ASSUME NEW r, Shape(r) PROVE Paid(r, r)
BY DEF Paid, SameBut, Shape

LEMMA AwardPiqueToContestantPaid ==
    ASSUME NEW r, Shape(r), NEW w \in Seat
    PROVE  LET q == AwardPiqueToContestant(r, w)
           IN  /\ Paid(r, q) /\ (w \in r.players => q.piquePot = 0)
               /\ \A s \in Seat : q.chips[s] # r.chips[s] =>
                    s = w /\ w \in r.players /\ r.piquePot > 0
<1> DEFINE q == AwardPiqueToContestant(r, w)
           p == PayPlayer(r, w, r.piquePot - RakeOf(r.piquePot), Ref("pique-apuesta4"))
<1>1. r.piquePot \in Nat /\ r.chips \in [Seat -> Int] BY ShapeFields
<1>2. r.piquePot - RakeOf(r.piquePot) \in Int BY <1>1, RakeType
<1>3. CASE w \in r.players /\ r.piquePot > 0
  <2>1. q = [p EXCEPT !.piquePot = 0] BY <1>3 DEF AwardPiqueToContestant
  <2>2. /\ Keeps(r, p) /\ SameBut(Purse, r, p)
        /\ p.chips = [r.chips EXCEPT ![w] = @ + (r.piquePot - RakeOf(r.piquePot))]
    BY <1>2, PayPlayerKeeps
  <2>3. Shape(p) BY <2>2 DEF Keeps
  <2> HIDE DEF p
  <2>4. Paid(r, q) /\ q.piquePot = 0 /\ q.chips = p.chips BY <2>1, <2>2, <2>3, NoPique
  <2>5. \A s \in Seat : p.chips[s] # r.chips[s] => s = w BY <1>1, <2>2
  <2> HIDE DEF q
  <2> QED BY <1>3, <2>4, <2>5 DEF q
<1>4. CASE ~(w \in r.players /\ r.piquePot > 0)
  <2>1. q = r BY <1>4 DEF AwardPiqueToContestant
  <2>2. w \in r.players => r.piquePot = 0 BY <1>1, <1>4
  <2> QED BY <2>1, <2>2, PaidSame DEF q
<1> QED BY <1>3, <1>4

LEMMA SharesAreInt ==
    ASSUME NEW amount \in Int, NEW winners \in SUBSET Seat, winners # {}
    PROVE  \A s \in winners : SplitAmount(amount, winners)[s] \in Int
<1>1. IsFiniteSet(winners)
  <2>1. IsFiniteSet(Seat) BY FS_Interval, NAssumption DEF Seat
  <2> QED BY <2>1, FS_Subset
<1>2. Cardinality(winners) \in Nat \ {0} BY <1>1, FS_CardinalityType, FS_EmptySet
<1> DEFINE n == Cardinality(winners)
<1>3. n \in Nat \ {0} BY <1>2
<1>4. amount \div n \in Int BY <1>3
<1> HIDE DEF n
<1>5. \A b \in BOOLEAN : amount \div n + (IF b THEN 1 ELSE 0) \in Int BY <1>4
<1>6. \A s \in winners :
        SplitAmount(amount, winners)[s] =
          amount \div n + (IF Cardinality({q \in winners : q < s}) < amount % n THEN 1 ELSE 0)
  BY DEF SplitAmount, n
<1> QED BY <1>5, <1>6

LEMMA AwardSplitPiquePaid ==
    ASSUME NEW r, Shape(r), NEW winners \in SUBSET Seat, winners # {}
    PROVE  LET q == AwardSplitPique(r, winners)
           IN  /\ Paid(r, q) /\ q.piquePot = 0
               /\ \A s \in Seat : q.chips[s] # r.chips[s] =>
                    s \in winners \cap r.players /\ r.piquePot > 0
<1> DEFINE shares == SplitAmount(r.piquePot - RakeOf(r.piquePot), winners)
           payout == [s \in winners \cap r.players |-> shares[s]]
           p == PayTogether(r, payout, Ref("pique-split"))
           q == AwardSplitPique(r, winners)
<1>1. r.piquePot \in Nat BY ShapeFields
<1>2. r.piquePot - RakeOf(r.piquePot) \in Int BY <1>1, RakeType
<1>3. CASE r.piquePot <= 0
  <2>1. q = r /\ r.piquePot = 0 BY <1>1, <1>3 DEF AwardSplitPique
  <2> QED BY <2>1, PaidSame DEF q
<1>4. CASE ~(r.piquePot <= 0)
  <2>1. \A s \in winners : shares[s] \in Int BY <1>2, SharesAreInt
  <2> HIDE DEF shares
  <2>2. DOMAIN payout = winners \cap r.players /\ \A s \in DOMAIN payout : payout[s] \in Int
    BY <2>1
  <2> HIDE DEF payout
  <2>3. /\ Keeps(r, p) /\ SameBut(Purse, r, p)
        /\ \A s \in Seat \ DOMAIN payout : p.chips[s] = r.chips[s]
    <3>1. DOMAIN payout \subseteq Seat BY <2>2
    <3> QED BY <2>2, <3>1, PayTogetherKeeps
  <2>4. q = [p EXCEPT !.piquePot = 0] BY <1>4 DEF AwardSplitPique, payout, shares
  <2>5. Shape(p) BY <2>3 DEF Keeps
  <2> HIDE DEF p, q
  <2>6. Paid(r, q) /\ q.piquePot = 0 /\ q.chips = p.chips BY <2>3, <2>4, <2>5, NoPique
  <2> QED BY <1>1, <1>4, <2>2, <2>3, <2>6 DEF q
<1> QED BY <1>3, <1>4

(* The pot of the only player left.                                        *)
LEMMA ReturnPotKeeps ==
    ASSUME NEW r, Shape(r)
    PROVE  LET q == ReturnPot(r)
           IN  /\ Keeps(r, q) /\ q.mainBet = r.mainBet /\ SameBut(Purse \cup {"pot"}, r, q)
               /\ \A s \in Seat : q.chips[s] # r.chips[s] =>
                    Active(r) = {s} /\ q.chips[s] = r.chips[s] + r.pot
<1> DEFINE solo == CHOOSE s \in Active(r) : TRUE
           p == PayPlayer(r, solo, r.pot, <<"pot", r.pot, 0>>)
           q == ReturnPot(r)
<1>1. r.pot \in Nat /\ r.chips \in [Seat -> Int] /\ Active(r) \subseteq Seat
  BY ShapeFields, ShapeSets
<1>2. CASE Cardinality(Active(r)) = 1 /\ r.pot > 0
  <2>1. Active(r) = {solo}
    <3>1. IsFiniteSet(Seat) BY FS_Interval, NAssumption DEF Seat
    <3>2. IsFiniteSet(Active(r)) BY <1>1, <3>1, FS_Subset
    <3>3. \E x : Active(r) = {x} BY <1>2, <3>2, FS_Singleton
    <3> QED BY <3>3
  <2>2. solo \in Seat BY <1>1, <2>1
  <2>3. q = [p EXCEPT !.pot = 0] BY <1>2 DEF ReturnPot
  <2> HIDE DEF solo
  <2>4. /\ Keeps(r, p) /\ p.mainBet = r.mainBet /\ SameBut(Purse, r, p)
        /\ p.chips = [r.chips EXCEPT ![solo] = @ + r.pot]
    BY <1>1, <2>2, PayPlayerKeeps
  <2>5. Shape(p) BY <2>4 DEF Keeps
  <2> HIDE DEF p, q
  <2>6. SameBut({"pot"}, p, q) /\ q.pot = 0 BY <2>3, <2>5, ShapeFields DEF SameBut, F4, Fields
  <2>7. Typed("pot", q.pot) BY <2>6, TypedCount DEF Counts4
  <2>8. Moves(p, q)
    <3>1. {"pot"} \cap (Core \cup {"roundBet", "mainBet", "chips"}) = {} BY DEF Core
    <3> QED BY <2>5, <2>6, <2>7, <3>1, KeepsFrame
  <2>9. Keeps(r, q) BY <2>4, <2>8, KeepsTwice DEF Moves
  <2>10. SameBut(Purse \cup {"pot"}, r, q) BY <2>4, <2>6 DEF SameBut
  <2> QED BY <1>1, <2>1, <2>4, <2>8, <2>9, <2>10 DEF Moves, q
<1>3. CASE ~(Cardinality(Active(r)) = 1 /\ r.pot > 0)
  <2>1. q = r BY <1>3 DEF ReturnPot
  <2> QED BY <2>1, MovesSame DEF Moves, SameBut, Shape, q
<1> QED BY <1>2, <1>3

-----------------------------------------------------------------------------
(* The calls of a validation.                                              *)

LEMMA ReturnExcessShape ==
    ASSUME NEW r, Shape(r), NEW s \in Seat, NEW excess \in Nat, excess <= r.roundBet[s]
    PROVE  LET q == ReturnExcess(r, s, excess)
           IN  Shape(q) /\ SameBut({"chips", "roundBet", "mainBet", "pot", "skewed"}, r, q)
<1> DEFINE chips == [r.chips EXCEPT ![s] = @ + excess]
           round == [r.roundBet EXCEPT ![s] = @ - excess]
           main == [r.mainBet EXCEPT ![s] = @ - excess]
           pot == Max({0, r.pot - excess})
           skewed == IF excess > 0 THEN r.skewed \cup {s} ELSE r.skewed
           q == ReturnExcess(r, s, excess)
           F == {"chips", "roundBet", "mainBet", "pot", "skewed"}
<1>1. /\ DOMAIN r = F4 /\ r.roundBet \in [Seat -> Nat] /\ r.mainBet \in [Seat -> Nat]
      /\ r.pot \in Nat /\ r.chips \in [Seat -> Int] /\ r.skewed \subseteq Seat
      /\ \A x \in Seat : r.roundBet[x] <= r.mainBet[x]
  BY ShapeFields, ShapeSets DEF Shape
<1>2. q = [r EXCEPT !.chips = chips, !.roundBet = round, !.mainBet = main, !.pot = pot,
                    !.skewed = skewed]
  BY Zenon DEF ReturnExcess
<1>3. chips \in [Seat -> Int] BY <1>1
<1>4. r.roundBet[s] - excess \in Nat /\ r.mainBet[s] - excess \in Nat
  <2>1. r.roundBet[s] \in Nat /\ r.mainBet[s] \in Nat /\ r.roundBet[s] <= r.mainBet[s] BY <1>1
  <2> QED BY <2>1
<1>5. round \in [Seat -> Nat] /\ main \in [Seat -> Nat] BY <1>1, <1>4
<1>6. \A x \in Seat : round[x] <= main[x]
  <2> SUFFICES ASSUME NEW x \in Seat PROVE round[x] <= main[x] OBVIOUS
  <2>1. r.roundBet[x] \in Nat /\ r.mainBet[x] \in Nat /\ r.roundBet[x] <= r.mainBet[x] BY <1>1
  <2> QED BY <1>1, <2>1
<1>7. pot \in Nat
  <2>1. r.pot - excess \in Int BY <1>1
  <2> QED BY <2>1, MaxOfZero
<1>8. skewed \subseteq Seat BY <1>1
<1> HIDE DEF q, chips, round, main, pot, skewed
<1>9. /\ SameBut(F, r, q) /\ q.chips = chips /\ q.roundBet = round /\ q.mainBet = main
      /\ q.pot = pot /\ q.skewed = skewed
  BY <1>1, <1>2 DEF SameBut, F4, Fields
<1>10. \A f \in F : Typed(f, q[f])
  <2>1. Typed("chips", q.chips) BY <1>3, <1>9, TypedMoney
  <2>2. Typed("roundBet", q.roundBet) /\ Typed("mainBet", q.mainBet) BY <1>5, <1>9, TypedBets
  <2>3. Typed("pot", q.pot) BY <1>7, <1>9, TypedCount DEF Counts4
  <2>4. Typed("skewed", q.skewed) BY <1>8, <1>9, TypedSet DEF Sets4, Groups
  <2> QED BY <2>1, <2>2, <2>3, <2>4
<1>11. Shape(q) BY <1>6, <1>9, <1>10, ShapeFrame
<1> QED BY <1>9, <1>11 DEF q

LEMMA WinByCallingEnds ==
    ASSUME NEW r, NEW calm, Ready(r, calm), NEW s \in Seat, NEW paid \in Nat,
           paid <= r.roundBet[s]
    PROVE  Ends(WinByCalling(r, s, paid), calm)
<1> DEFINE p == AwardPiqueToContestant(r, s)
           excess == Max({0, paid - MinPique})
           t == ReturnExcess(p, s, excess)
           q == WinByCalling(r, s, paid)
<1>1. Shape(r) BY DEF Ready
<1>2. Paid(r, p) BY <1>1, AwardPiqueToContestantPaid
<1>3. Shape(p) /\ p.roundBet = r.roundBet BY <1>2 DEF Paid, SameBut, Purse, F4, Fields
<1>4. excess \in Nat /\ excess <= r.roundBet[s]
  <2>1. MinPique \in Nat /\ r.roundBet[s] \in Nat
    BY <1>1, ShapeFields, FourCardsAssumption
  <2>2. paid - MinPique \in Int /\ paid - MinPique <= paid BY <2>1
  <2>3. excess = IF paid - MinPique > 0 THEN paid - MinPique ELSE 0 BY <2>2, MaxOfZero
  <2> HIDE DEF excess
  <2> QED BY <2>1, <2>2, <2>3
<1>5. q = [t EXCEPT !.callerId = s, !.phase = "PIQUE_REVEAL", !.turn = s]
  BY DEF WinByCalling
<1> HIDE DEF p, excess
<1>6. Shape(t) /\ SameBut({"chips", "roundBet", "mainBet", "pot", "skewed"}, p, t)
  BY <1>3, <1>4, ReturnExcessShape
<1> HIDE DEF t, q
<1>7. /\ SameBut({"callerId", "phase", "turn"}, t, q)
      /\ q.callerId = s /\ q.phase = "PIQUE_REVEAL" /\ q.turn = s
  BY <1>5, <1>6, ShapeFields DEF SameBut, F4, Fields
<1>8. Shape(q)
  <2>1. Typed("callerId", q.callerId) /\ Typed("turn", q.turn) BY <1>7, TypedSeat DEF Seats4
  <2>2. Typed("phase", q.phase)
    BY <1>7 DEF Typed, Phases4, Seats4, Sets4, Groups, Flags, Counts4
  <2> QED BY <1>6, <1>7, <2>1, <2>2, ShapeFrameNoBets
<1>9. \A f \in Core \ {"phase", "piquePot"} : q[f] = r[f]
  <2> SUFFICES ASSUME NEW f \in Core \ {"phase", "piquePot"} PROVE q[f] = r[f] OBVIOUS
  <2>1. /\ f \in F4 \ (Purse \cup {"piquePot"})
        /\ f \in F4 \ {"chips", "roundBet", "mainBet", "pot", "skewed"}
        /\ f \in F4 \ {"callerId", "phase", "turn"}
    BY DEF Core, Purse, F4, Fields
  <2> QED BY <1>2, <1>6, <1>7, <2>1 DEF Paid, SameBut
<1>10. q.piquePot \in {0, r.piquePot} BY <1>2, <1>6, <1>7 DEF Paid, SameBut, F4, Fields
<1>11. Ready(q, calm) BY <1>7, <1>8, <1>9, <1>10, ReadyAgain
<1> QED BY <1>11, ReadyIsRested DEF q

(* Between two answers of the ledger.                                      *)
PaidFrom(r, c) ==
    c.paid > 0 => c.main # NoSeat /\ (r.cards[c.main] = 0 \/ c.paid <= r.roundBet[c.main])

Collecting(r, calm) ==
    /\ Shape(r) /\ r.pasoBy \notin r.players /\ ~r.validationTimer /\ r.dealing = {}
    /\ r.phase \in {"JUEGO_VALIDACION", "APUESTA_4_CARTAS", "LOBBY"} /\ ~r.turnTimer
    /\ r.phase = "JUEGO_VALIDACION" => r.asked = {}
    /\ calm => Fair(r)

Charged(c, chips) == c.left = <<>> \/ c.amount \in 1..chips[Head(c.left).seat]

LEMMA CollectShape ==
    ASSUME NEW r, Shape(r), NEW c \in Collection
    PROVE  LET q == [r EXCEPT !.collect = c]
           IN  Shape(q) /\ SameBut({"collect"}, r, q) /\ q.collect = c
<1> DEFINE q == [r EXCEPT !.collect = c]
<1>1. SameBut({"collect"}, r, q) /\ q.collect = c BY ShapeFields DEF SameBut, F4, Fields
<1> HIDE DEF q
<1>2. Typed("collect", q.collect)
  BY <1>1 DEF Typed, Phases4, Seats4, Sets4, Groups, Flags, Counts4
<1>3. Shape(q) BY <1>1, <1>2, ShapeFrameNoBets
<1> QED BY <1>1, <1>3 DEF q

LEMMA NoCallIsCollection == NoCall \in Collection
BY DEF NoCall, Collection

(* The collection is not looked at by Fair.                                *)
LEMMA CollectFields ==
    ASSUME NEW r, NEW q, Shape(r), SameBut({"collect"}, r, q)
    PROVE  /\ q.players = r.players /\ q.pasoBy = r.pasoBy /\ q.phase = r.phase
           /\ q.validationTimer = r.validationTimer /\ q.turnTimer = r.turnTimer
           /\ q.dealing = r.dealing /\ q.claims = r.claims /\ q.asked = r.asked
           /\ q.validators = r.validators /\ q.passed = r.passed /\ q.winners = r.winners
           /\ q.cards = r.cards /\ q.maxBet = r.maxBet /\ q.piquePot = r.piquePot
           /\ q.chips = r.chips /\ q.mainBet = r.mainBet /\ q.roundBet = r.roundBet
           /\ (Fair(r) => Fair(q)) /\ Stakes(r, q) /\ Active(q) = Active(r)
<1>1. /\ q.players = r.players /\ q.pasoBy = r.pasoBy /\ q.phase = r.phase
      /\ q.validationTimer = r.validationTimer /\ q.turnTimer = r.turnTimer
      /\ q.dealing = r.dealing /\ q.claims = r.claims /\ q.asked = r.asked
      /\ q.validators = r.validators /\ q.passed = r.passed /\ q.winners = r.winners
      /\ q.cards = r.cards /\ q.maxBet = r.maxBet /\ q.piquePot = r.piquePot
      /\ q.chips = r.chips /\ q.mainBet = r.mainBet /\ q.roundBet = r.roundBet
      /\ q.connected = r.connected /\ q.folded = r.folded
  BY DEF SameBut, F4, Fields
<1>2. \A s : Hand(q, s) = Hand(r, s) BY <1>1 DEF Hand
<1>3. Fair(r) => Fair(q) BY <1>1, <1>2 DEF Fair
<1>4. Stakes(r, q) /\ Active(q) = Active(r) BY <1>1 DEF Stakes, Active
<1> QED BY <1>1, <1>3, <1>4

LEMMA FreeReady ==
    ASSUME NEW r, NEW calm, Collecting(r, calm)
    PROVE  LET q == [r EXCEPT !.collect = NoCall] IN Ready(q, calm) /\ SameBut({"collect"}, r, q)
<1> DEFINE q == [r EXCEPT !.collect = NoCall]
<1>1. Shape(r) BY DEF Collecting
<1>2. Shape(q) /\ SameBut({"collect"}, r, q) /\ q.collect = NoCall
  BY <1>1, NoCallIsCollection, CollectShape
<1> HIDE DEF q
<1>3. Ready(q, calm) BY <1>1, <1>2, CollectFields DEF Ready, Rest, Collecting
<1> QED BY <1>2, <1>3 DEF q

(* The room waits for the ledger.                                          *)
LEMMA ChargedEnds ==
    ASSUME NEW r, NEW calm, Collecting(r, calm), r.collect.left # <<>>,
           Charged(r.collect, r.chips), PaidFrom(r, r.collect)
    PROVE  Ends(r, calm)
<1>1. r.collect # NoCall BY DEF NoCall
<1>2. Collects(r) BY <1>1 DEF Collects, Collecting, Charged, PaidFrom
<1>3. Decided(r) BY DEF Decided, Collecting
<1> QED BY <1>2, <1>3 DEF Ends, Sound, Waits, Collecting

LEMMA SuffixOfCalls ==
    ASSUME NEW left \in Seq(Call), NEW m \in DOMAIN left
    PROVE  LET t == SubSeq(left, m, Len(left))
           IN  t \in Seq(Call) /\ t # <<>> /\ Head(t) = left[m]
<1>1. m \in 1..Len(left) /\ Len(left) \in Nat OBVIOUS
<1>2. SubSeq(left, m, Len(left)) \in Seq(Call)
  BY <1>1
<1>3. Len(SubSeq(left, m, Len(left))) = Len(left) - m + 1
      /\ SubSeq(left, m, Len(left))[1] = left[m]
  BY <1>1
<1> DEFINE t == SubSeq(left, m, Len(left))
<1> HIDE DEF t
<1>4. t \in Seq(Call) /\ Len(t) = Len(left) - m + 1 /\ t[1] = left[m] BY <1>2, <1>3 DEF t
<1>5. Len(t) > 0 BY <1>1, <1>4
<1>6. t # <<>> /\ Head(t) = t[1] BY <1>4, <1>5
<1> QED BY <1>4, <1>6 DEF t

LEMMA ChargeCollects ==
    ASSUME NEW r, NEW calm, Collecting(r, calm), NEW c \in Collection, PaidFrom(r, c)
    PROVE  LET q == Charge(r, c)
           IN  /\ Collecting(q, calm) /\ SameBut({"collect"}, r, q)
               /\ Charged(q.collect, q.chips) /\ PaidFrom(q, q.collect)
<1> DEFINE able == {i \in DOMAIN c.left :
                     c.left[i].seat \in r.players /\ r.chips[c.left[i].seat] > 0}
           m == Min(able)
           next == c.left[m]
           left == SubSeq(c.left, m, Len(c.left))
           amount == Min({next.amount, r.chips[next.seat]})
           d == IF able = {} THEN [c EXCEPT !.left = <<>>, !.amount = 0]
                ELSE [c EXCEPT !.left = left, !.amount = amount]
           q == Charge(r, c)
<1>1. Shape(r) /\ r.players \subseteq Seat /\ r.chips \in [Seat -> Int]
  BY ShapeFields, ShapeSets DEF Collecting
<1>2. q = [r EXCEPT !.collect = d] BY Zenon DEF Charge
<1>3. c.left \in Seq(Call) BY DEF Collection
<1>4. /\ d \in Collection /\ d.main = c.main /\ d.paid = c.paid /\ d.all = c.all
      /\ Charged(d, r.chips)
  <2>1. CASE able = {}
    <3>1. d = [c EXCEPT !.left = <<>>, !.amount = 0] BY <2>1
    <3>2. <<>> \in Seq(Call) /\ 0 \in Nat OBVIOUS
    <3> HIDE DEF d, able
    <3>3. /\ d \in Collection /\ d.left = <<>> /\ d.main = c.main /\ d.paid = c.paid
          /\ d.all = c.all
      <4>1. d \in Collection BY <3>1, <3>2 DEF Collection
      <4>2. d.left = <<>> /\ d.main = c.main /\ d.paid = c.paid /\ d.all = c.all
        BY <3>1 DEF Collection
      <4> QED BY <4>1, <4>2
    <3> QED BY <3>3 DEF Charged
  <2>2. CASE able # {}
    <3>1. able \in SUBSET Nat BY <1>3
    <3>2. m \in able
      <4> HIDE DEF able
      <4>1. \E x \in able : \A y \in able : x <= y BY <2>2, <3>1, LeastExists
      <4> QED BY <4>1 DEF Min
    <3>3. m \in DOMAIN c.left /\ next.seat \in r.players /\ r.chips[next.seat] > 0
      BY ZenonT(60), <3>2
    <3>4. d = [c EXCEPT !.left = left, !.amount = amount] BY <2>2
    <3> HIDE DEF m, able, d
    <3>5. left \in Seq(Call) /\ left # <<>> /\ Head(left) = next BY <1>3, <3>3, SuffixOfCalls
    <3>6. next \in Call BY <1>3, <3>3
    <3> HIDE DEF left, next
    <3>7. next.amount \in Nat /\ next.amount > 0 /\ r.chips[next.seat] \in Int
      BY <1>1, <3>3, <3>6 DEF Call
    <3>8. amount \in 1..r.chips[next.seat] BY <3>3, <3>7, MinOfTwo
    <3> HIDE DEF amount
    <3>9. amount \in Nat BY <3>7, <3>8
    <3>10. /\ d \in Collection /\ d.left = left /\ d.amount = amount
           /\ d.main = c.main /\ d.paid = c.paid /\ d.all = c.all
      <4>1. d \in Collection BY <3>4, <3>5, <3>9 DEF Collection
      <4>2. /\ d.left = left /\ d.amount = amount
            /\ d.main = c.main /\ d.paid = c.paid /\ d.all = c.all
        BY <3>4 DEF Collection
      <4> QED BY <4>1, <4>2
    <3> QED BY <3>5, <3>8, <3>10 DEF Charged
  <2> QED BY <2>1, <2>2
<1> HIDE DEF d
<1>5. Shape(q) /\ SameBut({"collect"}, r, q) /\ q.collect = d BY <1>1, <1>2, <1>4, CollectShape
<1> HIDE DEF q
<1>6. Collecting(q, calm) BY <1>1, <1>5, CollectFields DEF Collecting
<1>7. PaidFrom(q, d) BY <1>1, <1>4, <1>5, CollectFields DEF PaidFrom
<1> QED BY <1>1, <1>4, <1>5, <1>6, <1>7, CollectFields DEF q

LEMMA ReopenEnds ==
    ASSUME NEW r, NEW calm, Ready(r, calm)
    PROVE  LET q == Reopen(r)
           IN  Ends(q, calm) /\ (~(Cardinality(Active(r)) <= 1) => Stakes(r, q))
<1> DEFINE p == [r EXCEPT !.turn = r.mano]
<1>1. Shape(r) /\ r.mano \in Seat \cup {NoSeat} BY ShapeFields DEF Ready
<1>2. SameBut({"turn"}, r, p) /\ p.turn = r.mano
  BY <1>1, ShapeFields DEF SameBut, F4, Fields
<1> HIDE DEF p
<1>3. Typed("turn", p.turn) BY <1>1, <1>2, TypedSeat DEF Seats4
<1>4. Moves(r, p)
  <2>1. {"turn"} \cap (Core \cup {"roundBet", "mainBet", "chips"}) = {} BY DEF Core
  <2> QED BY <1>1, <1>2, <1>3, <2>1, KeepsFrame
<1>5. Ready(p, calm) /\ Stakes(r, p) BY <1>4, KeepsSound, MovesStakes DEF Moves
<1>6. Active(p) = Active(r) BY <1>2 DEF Active, SameBut, F4, Fields
<1>7. Ends(AdvanceTurnBetting(p, r.mano), calm)
      /\ (~(Cardinality(Active(p)) <= 1) => Stakes(p, AdvanceTurnBetting(p, r.mano)))
  BY <1>1, <1>5, AdvanceTurnBettingEnds
<1>8. Reopen(r) = AdvanceTurnBetting(p, r.mano) BY DEF Reopen, p
<1> QED BY <1>5, <1>6, <1>7, <1>8, StakesTwice

LEMMA AfterReopeningEnds ==
    ASSUME NEW r, NEW calm, Collecting(r, calm), r.collect.main = NoSeat \/ r.collect.left = <<>>,
           Charged(r.collect, r.chips), PaidFrom(r, r.collect)
    PROVE  LET q == AfterReopening(r)
           IN  Ends(q, calm) /\ (~(Cardinality(Active(r)) <= 1) => Stakes(r, q))
<1> DEFINE p == [r EXCEPT !.collect = NoCall]
<1>1. Ready(p, calm) /\ SameBut({"collect"}, r, p) BY FreeReady
<1>2. Shape(r) BY DEF Collecting
<1>3. Active(p) = Active(r) /\ Stakes(r, p) BY <1>1, <1>2, CollectFields
<1>4. AfterReopening(r) = IF r.collect.left # <<>> THEN r ELSE Reopen(p) BY DEF AfterReopening
<1> HIDE DEF p
<1>5. CASE r.collect.left # <<>>
  <2>1. Ends(r, calm) /\ Stakes(r, r) BY <1>5, ChargedEnds DEF Stakes
  <2> QED BY <1>4, <1>5, <2>1
<1>6. CASE r.collect.left = <<>>
  <2>1. Ends(Reopen(p), calm) /\ (~(Cardinality(Active(p)) <= 1) => Stakes(p, Reopen(p)))
    BY <1>1, ReopenEnds
  <2> QED BY <1>3, <1>4, <1>6, <2>1, StakesTwice
<1> QED BY <1>5, <1>6

(* The phase may be that of a showdown that has just been closed.          *)
LEMMA CallersReopenEnds ==
    ASSUME NEW r, NEW calm, Ready([r EXCEPT !.phase = "APUESTA_4_CARTAS"], calm), DOMAIN r = F4,
           ~r.turnTimer, NEW callers \in Seq(Call)
    PROVE  LET q == CallersReopen(r, callers)
           IN  Ends(q, calm) /\ (~(Cardinality(Active(r)) <= 1) => Stakes(r, q))
<1> DEFINE p == [r EXCEPT !.phase = "APUESTA_4_CARTAS"]
           c == [NoCall EXCEPT !.left = callers, !.all = callers]
           t == Charge(p, c)
<1>1. Ready(p, calm) /\ Shape(p) BY DEF Ready
<1>2. p.phase = "APUESTA_4_CARTAS" /\ \A f \in F4 \ {"phase"} : p[f] = r[f]
  BY DEF F4, Fields
<1> HIDE DEF p
<1>3. p.turnTimer = r.turnTimer /\ p.chips = r.chips /\ p.mainBet = r.mainBet
      /\ Active(p) = Active(r)
  BY <1>2 DEF Active, F4, Fields
<1>4. Collecting(p, calm) BY <1>1, <1>2, <1>3 DEF Collecting, Ready, Rest
<1>5. c \in Collection /\ c.main = NoSeat /\ c.paid = 0 BY DEF NoCall, Collection
<1> HIDE DEF c
<1>6. PaidFrom(p, c) BY <1>5 DEF PaidFrom
<1>7. /\ Collecting(t, calm) /\ SameBut({"collect"}, p, t)
      /\ Charged(t.collect, t.chips) /\ PaidFrom(t, t.collect)
  BY <1>4, <1>5, <1>6, ChargeCollects
<1>8. t.collect.main = NoSeat
  <2>1. \A L, a : [c EXCEPT !.left = L, !.amount = a].main = c.main BY <1>5 DEF Collection
  <2>2. DOMAIN p = F4 BY <1>1, ShapeFields
  <2>3. \E L, a : t.collect = [c EXCEPT !.left = L, !.amount = a]
    BY <2>2 DEF Charge, F4
  <2> QED BY <1>5, <2>1, <2>3
<1> HIDE DEF t
<1>9. Ends(AfterReopening(t), calm)
      /\ (~(Cardinality(Active(t)) <= 1) => Stakes(t, AfterReopening(t)))
  BY <1>7, <1>8, AfterReopeningEnds
<1>10. Stakes(r, p) BY <1>3 DEF Stakes
<1>11. Active(t) = Active(p) /\ Stakes(p, t) BY <1>1, <1>7, CollectFields
<1>12. CallersReopen(r, callers) = AfterReopening(t) BY DEF CallersReopen, t, c, p
<1> QED BY <1>3, <1>9, <1>10, <1>11, <1>12, StakesTwice

-----------------------------------------------------------------------------
(* The validation is over.                                                 *)

(* The rest of the core stays, whoever has won the pique.                  *)
LEMMA ResolvePiqueSame ==
    ASSUME NEW r, Shape(r)
    PROVE  LET q == ResolvePiqueAfterApuesta4(r)
           IN  /\ DOMAIN q = F4 /\ q.piquePot \in {0, r.piquePot}
               /\ \A f \in Core \ {"phase", "piquePot", "winners", "contestants"} : q[f] = r[f]
<1> DEFINE F == {"pot", "piquePot", "winners", "contestants", "continuation", "reopenCallers",
                 "phase", "turn"}
           q == ResolvePiqueAfterApuesta4(r)
<1>1. DOMAIN r = F4 BY ShapeFields
<1>2. SameBut(F, r, q) /\ q.piquePot \in {0, r.piquePot}
  <2> DEFINE C == r.passed \cap r.players
             W == ResolveHandWinners(C, HandOf(r), r.mano)
  <2>1. \/ q = r
        \/ q = [r EXCEPT !.pot = @ + r.piquePot, !.piquePot = 0]
        \/ q = [r EXCEPT !.winners = W, !.contestants = C,
                         !.continuation = "DESCARTE", !.reopenCallers = <<>>,
                         !.phase = "SHOWDOWN", !.turn = Min(W)]
    BY DEF ResolvePiqueAfterApuesta4, StartPiqueShowdown
  <2> HIDE DEF q, C, W
  <2> QED BY ZenonT(60), <1>1, <2>1 DEF SameBut, F4, Fields
<1>3. \A f \in Core \ {"phase", "piquePot", "winners", "contestants"} : f \in F4 \ F
  BY DEF Core, F4, Fields
<1> QED BY <1>2, <1>3 DEF SameBut

LEMMA DescarteAfterPique ==
    ASSUME NEW r, NEW calm, Ready(r, calm)
    PROVE  Ends(EnterDescarte(ResolvePiqueAfterApuesta4(r)), calm)
<1> DEFINE p == ResolvePiqueAfterApuesta4(r)
           q == [p EXCEPT !.phase = "DESCARTE"]
<1>1. Shape(r) BY DEF Ready
<1>2. Shape(p) BY ResolvePiqueEnds DEF Ready, Rested, Ends, Sound
<1>3. /\ DOMAIN p = F4 /\ p.piquePot \in {0, r.piquePot}
      /\ \A f \in Core \ {"phase", "piquePot", "winners", "contestants"} : p[f] = r[f]
  BY <1>1, ResolvePiqueSame
<1> HIDE DEF p
<1>4. Shape(q) /\ SameBut({"phase"}, p, q) /\ q.phase = "DESCARTE"
  BY <1>2, SetPhaseShape DEF Phases4
<1> HIDE DEF q
<1>5. q.piquePot = p.piquePot
      /\ \A f \in Core \ {"phase", "piquePot", "winners", "contestants"} : q[f] = p[f]
  BY <1>4 DEF SameBut, Core, F4, Fields
<1>6. Ready(q, calm) BY <1>3, <1>4, <1>5, ReadyAgain
<1> QED BY <1>3, <1>6, EnterDescarteEnds DEF p, q

LEMMA AfterCollectionEnds ==
    ASSUME NEW r, NEW calm, Collecting(r, calm),
           Charged(r.collect, r.chips), PaidFrom(r, r.collect)
    PROVE  Ends(AfterCollection(r), calm)
<1> DEFINE c == r.collect
           free == [r EXCEPT !.collect = NoCall]
           q == AfterCollection(r)
<1>1. Shape(r) /\ c \in Collection /\ ~r.turnTimer BY ShapeFields DEF Collecting
<1>2. c.main \in Seat \cup {NoSeat} /\ c.paid \in Nat /\ c.all \in Seq(Call)
  BY <1>1 DEF Collection
<1>3. Ready(free, calm) /\ SameBut({"collect"}, r, free) BY FreeReady
<1>4. q = IF c.main = NoSeat THEN AfterReopening(r)
          ELSE IF c.left # <<>> THEN r
          ELSE IF c.paid <= 0 THEN EnterDescarte(ResolvePiqueAfterApuesta4(free))
          ELSE IF TieneJuego(Hand(r, c.main)) THEN WinByCalling(free, c.main, c.paid)
          ELSE CallersReopen(free, c.all)
  BY DEF AfterCollection
<1> HIDE DEF free, q
<1>5. CASE c.main = NoSeat BY <1>4, <1>5, AfterReopeningEnds DEF q
<1>6. CASE c.main # NoSeat /\ c.left # <<>> BY <1>4, <1>6, ChargedEnds DEF q
<1>7. CASE c.main # NoSeat /\ c.left = <<>> /\ c.paid <= 0
  BY <1>3, <1>4, <1>7, DescarteAfterPique DEF q
<1>8. CASE c.main # NoSeat /\ c.left = <<>> /\ ~(c.paid <= 0) /\ TieneJuego(Hand(r, c.main))
  <2>1. q = WinByCalling(free, c.main, c.paid) BY <1>4, <1>8
  <2>2. r.cards[c.main] # 0
    BY <1>8 DEF TieneJuego, Hand, NINGUNA, PRIMERA
  <2>3. c.paid <= free.roundBet[c.main] BY <1>1, <1>2, <1>3, <1>8, <2>2, CollectFields DEF PaidFrom
  <2>4. Ends(WinByCalling(free, c.main, c.paid), calm)
    BY <1>2, <1>3, <1>8, <2>3, WinByCallingEnds
  <2> QED BY <2>1, <2>4 DEF q
<1>9. CASE c.main # NoSeat /\ c.left = <<>> /\ ~(c.paid <= 0) /\ ~TieneJuego(Hand(r, c.main))
  <2>1. q = CallersReopen(free, c.all) BY <1>4, <1>9
  <2>2. Ready([free EXCEPT !.phase = "APUESTA_4_CARTAS"], calm)
    BY <1>3, SetPhaseReady DEF Phases4
  <2>3. DOMAIN free = F4 /\ ~free.turnTimer BY <1>1, <1>3, CollectFields DEF SameBut
  <2>4. Ends(CallersReopen(free, c.all), calm) BY <1>2, <2>2, <2>3, CallersReopenEnds
  <2> QED BY <2>1, <2>4 DEF q
<1> QED BY <1>4, <1>5, <1>6, <1>7, <1>8, <1>9

LEMMA ResolveCallersOnlyEnds ==
    ASSUME NEW r, NEW calm, Ready(r, calm), r.phase \in {"JUEGO_VALIDACION", "LOBBY"},
           ~r.turnTimer, NEW callers \in Seq(Call), callers # <<>>
    PROVE  Ends(ResolveCallersOnly(r, callers), calm)
<1> DEFINE main == Head(callers).seat
           c == [NoCall EXCEPT !.left = callers, !.all = callers, !.main = main]
           q == Charge(r, c)
<1>1. main \in Seat
  <2>1. Head(callers) \in Call OBVIOUS
  <2> QED BY <2>1 DEF Call
<1> HIDE DEF main
<1>2. c \in Collection /\ c.paid = 0 BY <1>1 DEF NoCall, Collection
<1> HIDE DEF c
<1>3. PaidFrom(r, c) BY <1>2 DEF PaidFrom
<1>4. Collecting(r, calm) BY DEF Collecting, Ready, Rest
<1>5. /\ Collecting(q, calm) /\ Charged(q.collect, q.chips) /\ PaidFrom(q, q.collect)
  BY <1>2, <1>3, <1>4, ChargeCollects
<1>6. Ends(AfterCollection(q), calm) BY <1>5, AfterCollectionEnds
<1>7. ResolveCallersOnly(r, callers) =
        IF main \notin r.players THEN EnterDescarte(ResolvePiqueAfterApuesta4(r))
        ELSE AfterCollection(q)
  BY DEF ResolveCallersOnly, main, c
<1> QED BY <1>6, <1>7, DescarteAfterPique

LEMMA ClaimJuegoClaims ==
    ASSUME NEW r, Shape(r), NEW s \in Seat
    PROVE  LET q == ClaimJuego(r, s)
           IN  /\ Shape(q) /\ SameBut({"folded", "passed", "mano"}, r, q)
               /\ q.passed = r.passed \cup ({s} \cap r.players)
<1> DEFINE out == [r EXCEPT !.folded = @ \cup {s}, !.passed = @ \cup {s}]
           q == ClaimJuego(r, s)
<1>1. /\ SameBut({"folded", "passed"}, r, out)
      /\ out.folded = r.folded \cup {s} /\ out.passed = r.passed \cup {s}
  BY ZenonT(60), ShapeFields DEF SameBut, F4, Fields
<1>2. q = IF s \notin r.players THEN r ELSE IF s = r.mano THEN TransferMano(out) ELSE out
  BY DEF ClaimJuego
<1> HIDE DEF out, q
<1>3. Typed("folded", out.folded) /\ Typed("passed", out.passed)
  BY <1>1, ShapeSets, TypedSet DEF Sets4, Groups
<1>4. Shape(out) BY <1>1, <1>3, ShapeFrameNoBets
<1>5. Shape(TransferMano(out)) /\ SameBut({"mano"}, out, TransferMano(out))
  BY <1>4, TransferManoMoves DEF Moves, Keeps
<1>6. TransferMano(out).passed = out.passed BY <1>5 DEF SameBut, F4, Fields
<1>7. SameBut({"folded", "passed", "mano"}, r, out)
      /\ SameBut({"folded", "passed", "mano"}, r, TransferMano(out))
  BY <1>1, <1>5 DEF SameBut
<1>8. SameBut({"folded", "passed", "mano"}, r, r) BY ShapeFields DEF SameBut
<1>9. CASE s \notin r.players BY <1>2, <1>8, <1>9 DEF q
<1>10. CASE s \in r.players
  <2>1. q = TransferMano(out) \/ q = out BY <1>2, <1>10
  <2> QED BY <1>1, <1>4, <1>5, <1>6, <1>7, <1>10, <2>1 DEF q
<1> QED BY <1>9, <1>10

(* The fold over the claims is a recursive function on the sets of their   *)
(* indices.                                                                *)
FoldsClaims(g, r, seq, K) ==
    g = [s \in K |-> IF s = {} THEN r ELSE ClaimJuego(g[s \ {Max(s)}], seq[Max(s)])]

LEMMA LastIsIn ==
    ASSUME NEW n \in Nat, NEW s \in SUBSET (1..n), s # {} PROVE Max(s) \in s
<1> DEFINE T == {n - i : i \in s}
<1>1. T \in SUBSET Nat /\ T # {} OBVIOUS
<1> HIDE DEF T
<1>2. PICK m \in T : \A k \in T : m <= k BY <1>1, LeastExists
<1>3. PICK i \in s : m = n - i BY <1>2 DEF T
<1>4. \A j \in s : n - j \in T BY DEF T
<1>5. \A j \in s : i >= j
  <2> SUFFICES ASSUME NEW j \in s PROVE i >= j OBVIOUS
  <2>1. n - i <= n - j BY <1>2, <1>3, <1>4
  <2>2. i \in Int /\ j \in Int OBVIOUS
  <2> QED BY <2>1, <2>2
<1> QED BY <1>5 DEF Max

LEMMA FoldOfClaimsExists ==
    ASSUME NEW r, NEW seq, NEW n \in Nat
    PROVE  \E g : FoldsClaims(g, r, seq, SUBSET (1..n))
<1> DEFINE S == 1..n
           K(k) == {s \in SUBSET S : Cardinality(s) <= k}
           T == {k \in Nat : ~ \E g : FoldsClaims(g, r, seq, K(k))}
<1>0. IsFiniteSet(S) BY FS_Interval
<1>1. \A s \in SUBSET S : IsFiniteSet(s) /\ Cardinality(s) \in Nat
  BY <1>0, FS_Subset, FS_CardinalityType
<1>2. T = {}
  <2> SUFFICES ASSUME T # {} PROVE FALSE OBVIOUS
  <2>1. PICK m \in T : \A k \in T : m <= k
    <3> HIDE DEF T
    <3>1. T \in SUBSET Nat BY DEF T
    <3> QED BY <3>1, LeastExists
  <2>2. m # 0
    <3> DEFINE g == [s \in {{}} |-> r]
    <3>1. K(0) = {{}}
      <4>1. ASSUME NEW s \in K(0) PROVE s = {}
        <5>1. IsFiniteSet(s) /\ Cardinality(s) = 0 BY <1>1
        <5> QED BY <5>1, FS_EmptySet
      <4>2. {} \in K(0) BY FS_EmptySet
      <4> QED BY <4>1, <4>2
    <3>2. FoldsClaims(g, r, seq, {{}}) BY DEF FoldsClaims
    <3> QED BY <3>1, <3>2
  <2>3. m - 1 \in Nat /\ m - 1 \notin T
    <3>1. m \in Nat OBVIOUS
    <3>2. m - 1 \in Nat /\ ~(m <= m - 1) BY <3>1, <2>2
    <3> HIDE DEF T
    <3> QED BY <3>2, <2>1
  <2>4. PICK g : FoldsClaims(g, r, seq, K(m - 1)) BY <2>3
  <2> DEFINE h == [s \in K(m) |-> IF s = {} THEN r
                                  ELSE ClaimJuego(g[s \ {Max(s)}], seq[Max(s)])]
  <2>5. ASSUME NEW s \in K(m - 1) PROVE h[s] = g[s]
    <3>1. s \in K(m)
      <4>1. Cardinality(s) \in Nat /\ Cardinality(s) <= m - 1 /\ m \in Nat BY <1>1
      <4> QED BY <4>1
    <3> QED BY <3>1, <2>4 DEF FoldsClaims
  <2>6. ASSUME NEW s \in K(m), s # {} PROVE s \ {Max(s)} \in K(m - 1)
    <3>1. IsFiniteSet(s) /\ Max(s) \in s BY <1>1, <2>6, LastIsIn
    <3>2. Cardinality(s \ {Max(s)}) = Cardinality(s) - 1 /\ Cardinality(s) \in Nat
      BY <3>1, OneLess
    <3>3. Cardinality(s) <= m /\ m \in Nat OBVIOUS
    <3>4. Cardinality(s \ {Max(s)}) <= m - 1
      <4> DEFINE c == Cardinality(s)
                 d == Cardinality(s \ {Max(s)})
      <4>1. c \in Nat /\ d = c - 1 /\ c <= m /\ m \in Nat BY <3>2, <3>3
      <4> HIDE DEF c, d
      <4>2. d <= m - 1 BY <4>1
      <4> QED BY <4>2 DEF d
    <3>5. s \ {Max(s)} \in SUBSET S OBVIOUS
    <3> QED BY <3>4, <3>5
  <2>7. FoldsClaims(h, r, seq, K(m)) BY <2>5, <2>6 DEF FoldsClaims
  <2> QED BY <2>7
<1>3. Cardinality(S) \in Nat BY <1>0, FS_CardinalityType
<1>4. K(Cardinality(S)) = SUBSET S
  <2>1. \A s \in SUBSET S : Cardinality(s) <= Cardinality(S) BY <1>0, FS_Subset
  <2> QED BY <2>1
<1> QED BY <1>2, <1>3, <1>4

(* All claims together.                                                    *)
LEMMA ClaimsAreTaken ==
    ASSUME NEW r, Shape(r), NEW seq \in Seq(Seat)
    PROVE  LET q == FoldLeft(ClaimJuego, r, seq)
           IN  /\ Shape(q) /\ SameBut({"folded", "passed", "mano"}, r, q)
               /\ q.passed = r.passed \cup (Range(seq) \cap r.players)
<1> DEFINE n == Len(seq)
           g == CHOOSE it : FoldsClaims(it, r, seq, SUBSET (1..n))
           Right(s) == /\ Shape(g[s]) /\ SameBut({"folded", "passed", "mano"}, r, g[s])
                       /\ g[s].passed = r.passed \cup ({seq[i] : i \in s} \cap r.players)
           D == {s \in SUBSET (1..n) : ~Right(s)}
<1>1. n \in Nat /\ DOMAIN seq = 1..n OBVIOUS
<1>2. FoldLeft(ClaimJuego, r, seq) = g[1..n]
  BY <1>1 DEF FoldLeft, MapThenFoldSet, FoldsClaims
<1>3. FoldsClaims(g, r, seq, SUBSET (1..n)) BY <1>1, FoldOfClaimsExists
<1> HIDE DEF g
<1>4. D = {}
  <2> SUFFICES ASSUME D # {} PROVE FALSE OBVIOUS
  <2>1. IsFiniteSet(1..n) BY <1>1, FS_Interval
  <2>2. PICK A \in D : \A B \in D : Cardinality(A) <= Cardinality(B)
    <3> HIDE DEF D
    <3>1. D \in SUBSET (SUBSET (1..n)) BY DEF D
    <3> QED BY <2>1, <3>1, SmallestExists
  <2>3. A # {}
    <3> SUFFICES ASSUME A = {} PROVE FALSE OBVIOUS
    <3>1. g[{}] = r BY <1>3 DEF FoldsClaims
    <3>2. SameBut({"folded", "passed", "mano"}, r, r) BY ShapeFields DEF SameBut
    <3>3. {seq[i] : i \in {}} = {} OBVIOUS
    <3>4. Right({}) BY <3>1, <3>2, <3>3
    <3> QED BY <3>4
  <2> DEFINE x == Max(A)
             B == A \ {x}
  <2>4. x \in A /\ x \in 1..n /\ seq[x] \in Seat BY <1>1, <2>3, LastIsIn
  <2>5. g[A] = ClaimJuego(g[B], seq[x]) BY <1>3, <2>3 DEF FoldsClaims
  <2>6. Right(B)
    <3>1. IsFiniteSet(A) BY <2>1, FS_Subset
    <3>2. Cardinality(B) < Cardinality(A) /\ Cardinality(A) \in Nat /\ Cardinality(B) \in Nat
      BY <2>4, <3>1, OneLess
    <3>3. B \notin D
      <4> HIDE DEF D, B
      <4> QED BY <2>2, <3>2
    <3>4. B \in SUBSET (1..n) OBVIOUS
    <3> QED BY <3>3, <3>4
  <2>7. /\ Shape(g[A]) /\ SameBut({"folded", "passed", "mano"}, g[B], g[A])
        /\ g[A].passed = g[B].passed \cup ({seq[x]} \cap g[B].players)
    <3>1. Shape(g[B]) BY <2>6
    <3> HIDE DEF B, x
    <3> DEFINE p == g[B]
               z == seq[x]
    <3>2. Shape(p) /\ z \in Seat /\ g[A] = ClaimJuego(p, z) BY <2>4, <2>5, <3>1
    <3> HIDE DEF p, z
    <3>3. /\ Shape(ClaimJuego(p, z)) /\ SameBut({"folded", "passed", "mano"}, p, ClaimJuego(p, z))
          /\ ClaimJuego(p, z).passed = p.passed \cup ({z} \cap p.players)
      BY <3>2, ClaimJuegoClaims
    <3>4. /\ Shape(g[A]) /\ SameBut({"folded", "passed", "mano"}, p, g[A])
          /\ g[A].passed = p.passed \cup ({z} \cap p.players)
      BY <3>2, <3>3
    <3> QED BY <3>4 DEF p, z
  <2>8. g[B].players = r.players BY <2>6 DEF SameBut, F4, Fields
  <2>9. {seq[i] : i \in A} = {seq[i] : i \in B} \cup {seq[x]} BY <2>4
  <2>10. SameBut({"folded", "passed", "mano"}, r, g[A]) BY <2>6, <2>7 DEF SameBut
  <2>11. g[A].passed = r.passed \cup ({seq[i] : i \in A} \cap r.players)
    <3> HIDE DEF B, x
    <3> QED BY <2>6, <2>7, <2>8, <2>9
  <2>12. Right(A) BY <2>7, <2>10, <2>11
  <2> QED BY <2>12
<1>5. Right(1..n) BY <1>4
<1>6. {seq[i] : i \in 1..n} = Range(seq) BY <1>1 DEF Range
<1> QED BY <1>2, <1>5, <1>6

LEMMA ResolveClaimsEnds ==
    ASSUME NEW r, NEW calm, Ready(r, calm), r.claims # <<>>,
           calm => /\ r.maxBet = 0
                   /\ \A i \in DOMAIN r.claims : TieneJuego(Hand(r, r.claims[i]))
    PROVE  Ends(ResolveClaims(r), calm)
<1> DEFINE claimants == Range(r.claims)
           winners == ResolveHandWinners(claimants \cap r.players, HandOf(r), r.mano)
           firsts == {i \in DOMAIN r.claims : r.claims[i] \in winners}
           turn == IF winners = {} THEN NoSeat ELSE r.claims[Min(firsts)]
           out == FoldLeft(ClaimJuego, r, r.claims)
           next == IF r.callers # <<>> THEN "REOPEN_BETTING"
                   ELSE IF Cardinality(Active(out)) <= 1 THEN "CLEANUP" ELSE "DESCARTE"
           q == ResolveClaims(r)
<1>1. Shape(r) /\ Rest(r) /\ r.phase # "SHOWDOWN" BY DEF Ready
<1>2. r.claims \in Seq(Seat) /\ r.callers \in Seq(Call) BY <1>1, ShapeFields
<1>3. claimants \in SUBSET Seat BY <1>2 DEF Range
<1>4. /\ Shape(out) /\ SameBut({"folded", "passed", "mano"}, r, out)
      /\ out.passed = r.passed \cup (claimants \cap r.players)
  BY <1>1, <1>2, ClaimsAreTaken
<1>5. q = [[out EXCEPT !.winners = ResolveHandWinners(claimants, HandOf(out), out.mano),
                       !.contestants = claimants,
                       !.continuation = next, !.reopenCallers = r.callers,
                       !.phase = "SHOWDOWN", !.turn = turn] EXCEPT !.winners = winners]
  BY Zenon DEF ResolveClaims, StartPiqueShowdown
<1>6. turn \in Seat \cup {NoSeat}
  <2> SUFFICES ASSUME winners # {} PROVE r.claims[Min(firsts)] \in Seat OBVIOUS
  <2>1. winners \subseteq claimants
    <3> DEFINE C == claimants \cap r.players
    <3>1. C \in SUBSET Seat /\ HandOf(r) \in [Seat -> 0..MaxHand] BY <1>1, <1>3, ShapeSets
    <3>2. C \subseteq claimants OBVIOUS
    <3>3. winners = ResolveHandWinners(C, HandOf(r), r.mano) OBVIOUS
    <3> HIDE DEF C, claimants, winners
    <3>4. winners \subseteq C BY <3>1, <3>3, WinnersAreBest
    <3> QED BY <3>2, <3>4
  <2> HIDE DEF winners
  <2>2. firsts # {} BY <2>1 DEF Range
  <2>3. DOMAIN r.claims \in SUBSET Nat /\ \A i \in DOMAIN r.claims : r.claims[i] \in Seat
    BY <1>2
  <2>4. firsts \in SUBSET Nat BY <2>3
  <2>5. Min(firsts) \in firsts
    <3> HIDE DEF firsts
    <3> QED BY <2>2, <2>4, LeastExists DEF Min
  <2> QED BY <2>3, <2>5
<1> HIDE DEF turn, next, out
<1>7. /\ SameBut({"winners", "contestants", "continuation", "reopenCallers", "phase", "turn"},
                 out, q)
      /\ q.phase = "SHOWDOWN" /\ q.turn = turn /\ q.reopenCallers = r.callers
      /\ q.contestants = claimants /\ q.winners = winners
  <2> HIDE DEF q, winners, claimants
  <2>1. DOMAIN out = F4 BY <1>4, ShapeFields
  <2> DEFINE p == [out EXCEPT !.winners = ResolveHandWinners(claimants, HandOf(out), out.mano),
                       !.contestants = claimants,
                       !.continuation = next, !.reopenCallers = r.callers,
                       !.phase = "SHOWDOWN", !.turn = turn]
  <2>2. /\ SameBut({"winners", "contestants", "continuation", "reopenCallers", "phase", "turn"},
                   out, p)
        /\ p.phase = "SHOWDOWN" /\ p.turn = turn /\ p.reopenCallers = r.callers
        /\ p.contestants = claimants
    BY <2>1 DEF SameBut, F4, Fields
  <2>3. q = [p EXCEPT !.winners = winners] BY <1>5
  <2> HIDE DEF p
  <2> QED BY <2>2, <2>3 DEF SameBut, F4, Fields
<1>8. /\ out.players = r.players /\ out.pasoBy = r.pasoBy /\ out.maxBet = r.maxBet
      /\ out.phase = r.phase /\ out.collect = r.collect /\ out.dealing = r.dealing
      /\ out.validationTimer = r.validationTimer /\ out.asked = r.asked
      /\ out.cards = r.cards /\ out.piquePot = r.piquePot
  BY <1>4 DEF SameBut, F4, Fields
<1>9. Rest(out) BY <1>1, <1>8 DEF Rest
<1>10. /\ HandOf(out) = HandOf(r)
       /\ \A s : Hand(out, s) = Hand(r, s)
  BY <1>8 DEF Hand, HandOf
<1>11. q.winners = ResolveHandWinners(q.contestants \cap out.players, HandOf(out), r.mano)
  BY <1>7, <1>8, <1>10
<1>12. q.contestants \cap out.players \subseteq out.passed
  <2> HIDE DEF claimants, winners, q
  <2> QED BY <1>4, <1>7, <1>8
<1>13. calm => /\ out.players = Seat /\ (out.pasoBy # NoSeat => out.maxBet > 0)
               /\ out.piquePot > 0 => /\ \A s \in out.passed : TieneJuego(Hand(out, s))
                                      /\ out.passed \subseteq q.contestants
  <2> SUFFICES ASSUME calm
               PROVE  /\ out.players = Seat /\ (out.pasoBy # NoSeat => out.maxBet > 0)
                      /\ out.piquePot > 0 => /\ \A s \in out.passed : TieneJuego(Hand(out, s))
                                             /\ out.passed \subseteq q.contestants
    OBVIOUS
  <2>1. Fair(r) BY DEF Ready
  <2>2. out.players = Seat /\ (out.pasoBy # NoSeat => out.maxBet > 0) BY <1>8, <2>1 DEF Fair
  <2>3. r.piquePot > 0 => r.passed = {} BY <1>1, <2>1 DEF Fair
  <2>4. \A s \in claimants : TieneJuego(Hand(r, s)) BY DEF Range
  <2> HIDE DEF claimants, winners, q
  <2> QED BY <1>4, <1>7, <1>8, <1>10, <2>2, <2>3, <2>4
<1>14. q.contestants \in SUBSET Seat /\ q.reopenCallers \in Seq(Call)
       /\ q.turn \in Seat \cup {NoSeat}
  BY <1>2, <1>3, <1>6, <1>7
<1> HIDE DEF q, claimants, winners
<1>15. Rested(q, calm)
  BY <1>4, <1>7, <1>9, <1>11, <1>12, <1>13, <1>14, ShowdownRested
<1> QED BY <1>15 DEF Rested, q

(* However the question about juego ends, what follows is sound.           *)
LEMMA ResolveJuegoValidationEnds ==
    ASSUME NEW r, NEW calm, Shape(r), Validates(r), r.asked = {}, calm => Fair(r)
    PROVE  Ends(ResolveJuegoValidation(r), calm)
<1> DEFINE quiet == [r EXCEPT !.validationTimer = FALSE]
<1>1. SameBut({"validationTimer"}, r, quiet) /\ quiet.validationTimer = FALSE
  BY ShapeFields DEF SameBut, F4, Fields
<1>2. ResolveJuegoValidation(r) =
        IF r.claims # <<>> THEN ResolveClaims(quiet)
        ELSE IF r.callers # <<>> THEN ResolveCallersOnly(quiet, r.callers)
        ELSE EnterDescarte(ResolvePiqueAfterApuesta4(quiet))
  BY DEF ResolveJuegoValidation
<1> HIDE DEF quiet
<1>3. Typed("validationTimer", quiet.validationTimer) BY <1>1, TypedFlag
<1>4. Shape(quiet) BY <1>1, <1>3, ShapeFrameNoBets
<1>5. /\ quiet.players = r.players /\ quiet.pasoBy = r.pasoBy /\ quiet.collect = r.collect
      /\ quiet.dealing = r.dealing /\ quiet.phase = r.phase /\ quiet.asked = r.asked
      /\ quiet.turnTimer = r.turnTimer /\ quiet.maxBet = r.maxBet
      /\ quiet.piquePot = r.piquePot /\ quiet.passed = r.passed /\ quiet.winners = r.winners
      /\ quiet.claims = r.claims /\ quiet.callers = r.callers /\ quiet.cards = r.cards
  BY <1>1 DEF SameBut, F4, Fields
<1>6. r.phase \in {"JUEGO_VALIDACION", "LOBBY"} /\ ~r.turnTimer BY DEF Validates
<1>7. \A s : Hand(quiet, s) = Hand(r, s) BY <1>5 DEF Hand
<1>8. calm => Fair(quiet)
  <2> SUFFICES ASSUME calm PROVE Fair(quiet) OBVIOUS
  <2>1. Fair(r) OBVIOUS
  <2> QED BY <1>1, <1>5, <1>7, <2>1 DEF Fair
<1>9. Rest(quiet) BY <1>1, <1>5 DEF Rest, Validates
<1>10. Ready(quiet, calm) BY <1>4, <1>5, <1>6, <1>8, <1>9 DEF Ready
<1>11. calm => /\ quiet.maxBet = 0
               /\ \A i \in DOMAIN quiet.claims : TieneJuego(Hand(quiet, quiet.claims[i]))
  BY <1>5, <1>7 DEF Validates, Fair
<1>12. CASE r.claims # <<>>
  <2>1. quiet.claims # <<>> BY <1>5, <1>12
  <2>2. Ends(ResolveClaims(quiet), calm) BY <1>10, <1>11, <2>1, ResolveClaimsEnds
  <2> QED BY <1>2, <1>12, <2>2
<1>13. CASE r.claims = <<>> /\ r.callers # <<>>
  <2>1. r.callers \in Seq(Call) BY ShapeFields
  <2>2. Ends(ResolveCallersOnly(quiet, r.callers), calm)
    BY <1>5, <1>6, <1>10, <1>13, <2>1, ResolveCallersOnlyEnds
  <2> QED BY <1>2, <1>13, <2>2
<1>14. CASE r.claims = <<>> /\ r.callers = <<>>
  BY <1>2, <1>10, <1>14, DescarteAfterPique
<1> QED BY <1>12, <1>13, <1>14

(* A call that is taken, and the calls that are left.                      *)
LEMMA TakeCallCollects ==
    ASSUME NEW r, NEW calm, Collecting(r, calm), NEW s \in Seat, NEW amount \in Nat \ {0},
           amount <= r.chips[s], PaidFrom(r, r.collect)
    PROVE  LET q == TakeCall(r, s, amount)
           IN  /\ Collecting(q, calm) /\ PaidFrom(q, q.collect)
               /\ q.collect.left = r.collect.left /\ q.collect.all = r.collect.all
               /\ q.collect.main = r.collect.main /\ q.collect.amount = r.collect.amount
<1> DEFINE total == r.roundBet[s] + amount
           c == [r.collect EXCEPT !.paid = IF s = r.collect.main THEN amount ELSE @]
           p == Debit(r, s, amount)
           q == TakeCall(r, s, amount)
<1>1. Shape(r) BY DEF Collecting
<1>2. /\ r.roundBet \in [Seat -> Nat] /\ r.mainBet \in [Seat -> Nat] /\ r.pot \in Nat
      /\ r.chips \in [Seat -> Int] /\ r.balance \in [Seat -> Int] /\ r.maxBet \in Nat
      /\ r.booked \in [Seat -> Nat] /\ r.collect \in Collection /\ DOMAIN r = F4
      /\ \A t \in Seat : r.roundBet[t] <= r.mainBet[t]
  BY <1>1, ShapeFields DEF Shape
<1>3. /\ SameBut({"balance", "booked", "skewed"}, r, p)
      /\ p.balance \in [Seat -> Int] /\ p.booked \in [Seat -> Nat] /\ p.skewed \subseteq Seat
  <2>1. r.skewed \subseteq Seat BY <1>1, ShapeSets
  <2>2. CASE Booked(r, s, amount)
    <3>1. p = [r EXCEPT !.skewed = @ \cup {s}] BY <2>2 DEF Debit
    <3> HIDE DEF p
    <3> QED BY <1>2, <2>1, <3>1 DEF SameBut, F4, Fields
  <2>3. CASE ~Booked(r, s, amount)
    <3>1. p = [r EXCEPT !.balance[s] = @ - amount, !.booked[s] = amount] BY <2>3 DEF Debit
    <3> DEFINE b == [r.balance EXCEPT ![s] = @ - amount]
               k == [r.booked EXCEPT ![s] = amount]
    <3>2. p = [r EXCEPT !.balance = b, !.booked = k] BY <3>1
    <3>3. b \in [Seat -> Int] /\ k \in [Seat -> Nat] BY <1>2
    <3> HIDE DEF p, b, k
    <3> QED BY <1>2, <2>1, <3>2, <3>3 DEF SameBut, F4, Fields
  <2> QED BY <2>2, <2>3
<1> DEFINE chips == [r.chips EXCEPT ![s] = @ - amount]
           roundBet == [r.roundBet EXCEPT ![s] = total]
           mainBet == [r.mainBet EXCEPT ![s] = @ + amount]
<1>4. q = [p EXCEPT !.chips[s] = @ - amount, !.roundBet[s] = total, !.mainBet[s] = @ + amount,
                    !.pot = @ + amount, !.acted = @ \cup {s}, !.maxBet = Max({@, total}),
                    !.collect.paid = IF s = r.collect.main THEN amount ELSE @]
  BY Zenon DEF TakeCall
<1> HIDE DEF p, q
<1>5. /\ p.chips = r.chips /\ p.roundBet = r.roundBet /\ p.mainBet = r.mainBet /\ p.pot = r.pot
      /\ p.acted = r.acted /\ p.maxBet = r.maxBet /\ p.collect = r.collect /\ DOMAIN p = F4
  BY <1>3 DEF SameBut, F4, Fields
<1>6. q = [p EXCEPT !.chips = chips, !.roundBet = roundBet, !.mainBet = mainBet,
                    !.pot = r.pot + amount, !.acted = r.acted \cup {s},
                    !.maxBet = Max({r.maxBet, total}), !.collect = c]
  BY <1>4, <1>5
<1>7. /\ chips \in [Seat -> Int] /\ roundBet \in [Seat -> Nat] /\ mainBet \in [Seat -> Nat]
      /\ total \in Nat /\ total >= amount /\ r.pot + amount \in Nat
      /\ \A t \in Seat : roundBet[t] <= mainBet[t]
  <2>1. total \in Nat /\ r.mainBet[s] + amount \in Nat /\ total <= r.mainBet[s] + amount
        /\ r.chips[s] - amount \in Int /\ total >= amount
    BY <1>2
  <2>2. roundBet[s] = total /\ mainBet[s] = r.mainBet[s] + amount BY <1>2
  <2>3. \A t \in Seat \ {s} : roundBet[t] = r.roundBet[t] /\ mainBet[t] = r.mainBet[t] BY <1>2
  <2>4. roundBet \in [Seat -> Nat] /\ mainBet \in [Seat -> Nat] /\ chips \in [Seat -> Int]
    <3> HIDE DEF total
    <3> QED BY <1>2, <2>1
  <2> HIDE DEF roundBet, mainBet, chips
  <2> QED BY <1>2, <2>1, <2>2, <2>3, <2>4
<1>8. /\ c \in Collection /\ c.left = r.collect.left /\ c.all = r.collect.all
      /\ c.main = r.collect.main /\ c.amount = r.collect.amount
      /\ c.paid = IF s = r.collect.main THEN amount ELSE r.collect.paid
  BY <1>2 DEF Collection
<1>9. roundBet[s] = total /\ \A t \in Seat \ {s} : roundBet[t] = r.roundBet[t] BY <1>2
<1> HIDE DEF chips, roundBet, mainBet, c, total
<1> DEFINE F == {"balance", "booked", "skewed", "chips", "roundBet", "mainBet", "pot", "acted",
                 "maxBet", "collect"}
<1>10. /\ SameBut(F \ {"balance", "booked", "skewed"}, p, q)
       /\ q.chips = chips /\ q.roundBet = roundBet /\ q.mainBet = mainBet
       /\ q.pot = r.pot + amount /\ q.acted = r.acted \cup {s}
       /\ q.maxBet = Max({r.maxBet, total}) /\ q.collect = c
  BY <1>5, <1>6 DEF SameBut, F4, Fields
<1>11. SameBut(F, r, q) /\ q.balance = p.balance /\ q.booked = p.booked /\ q.skewed = p.skewed
  BY <1>3, <1>10 DEF SameBut, F4, Fields
<1>12. q.maxBet \in Nat /\ q.maxBet > 0
  <2>1. total \in Int /\ r.maxBet \in Int BY <1>2, <1>7
  <2>2. q.maxBet = IF r.maxBet >= total THEN r.maxBet ELSE total BY <1>10, <2>1, MaxOfTwo
  <2> QED BY <1>2, <1>7, <2>2
<1>13. Shape(q)
  <2>1. /\ Typed("balance", q.balance) /\ Typed("chips", q.chips)
    BY <1>3, <1>7, <1>10, <1>11, TypedMoney
  <2>2. Typed("booked", q.booked) /\ Typed("roundBet", q.roundBet) /\ Typed("mainBet", q.mainBet)
    BY <1>3, <1>7, <1>10, <1>11, TypedBets
  <2>3. Typed("pot", q.pot) /\ Typed("maxBet", q.maxBet)
    BY <1>7, <1>10, <1>12, TypedCount DEF Counts4
  <2>4. r.acted \subseteq Seat BY <1>1, ShapeSets
  <2>5. Typed("acted", q.acted) /\ Typed("skewed", q.skewed)
    BY <1>3, <1>10, <1>11, <2>4, TypedSet DEF Sets4, Groups
  <2>6. Typed("collect", q.collect)
    BY <1>8, <1>10 DEF Typed, Seats4, Sets4, Groups, Flags, Counts4
  <2>7. \A f \in F : Typed(f, q[f]) BY <2>1, <2>2, <2>3, <2>5, <2>6
  <2>8. \A t \in Seat : q.roundBet[t] <= q.mainBet[t] BY <1>7, <1>10
  <2> QED BY <1>1, <1>11, <2>7, <2>8, ShapeFrame
<1>14. /\ q.players = r.players /\ q.pasoBy = r.pasoBy /\ q.phase = r.phase
       /\ q.validationTimer = r.validationTimer /\ q.turnTimer = r.turnTimer
       /\ q.dealing = r.dealing /\ q.asked = r.asked /\ q.passed = r.passed
       /\ q.winners = r.winners /\ q.cards = r.cards /\ q.piquePot = r.piquePot
  BY <1>11 DEF SameBut, F4, Fields
<1>15. calm => Fair(q)
  <2> SUFFICES ASSUME calm PROVE Fair(q) OBVIOUS
  <2>1. Fair(r) /\ ~r.validationTimer /\ r.phase # "SHOWDOWN" BY DEF Collecting
  <2>2. \A t : Hand(q, t) = Hand(r, t) BY <1>14 DEF Hand
  <2>3. q.maxBet # 0 BY <1>12
  <2> QED BY <1>12, <1>14, <2>1, <2>2, <2>3 DEF Fair
<1>16. Collecting(q, calm) BY <1>13, <1>14, <1>15 DEF Collecting
<1>17. PaidFrom(q, q.collect)
  <2> SUFFICES ASSUME c.paid > 0
               PROVE  c.main # NoSeat /\ (r.cards[c.main] = 0 \/ c.paid <= roundBet[c.main])
    BY <1>10, <1>14 DEF PaidFrom
  <2>1. CASE s = r.collect.main
    <3>1. s # NoSeat BY DEF Seat, NoSeat
    <3>2. c.main = s /\ c.paid = amount BY <1>8, <2>1
    <3>3. amount <= roundBet[s] BY <1>7, <1>9
    <3> QED BY <3>1, <3>2, <3>3
  <2>2. CASE s # r.collect.main
    <3>1. c.main \in Seat \cup {NoSeat} BY <1>8 DEF Collection
    <3>2. r.collect.paid > 0 BY <1>8, <2>2
    <3>3. c.main # NoSeat /\ (r.cards[c.main] = 0 \/ c.paid <= r.roundBet[c.main])
      BY <1>8, <2>2, <3>2 DEF PaidFrom
    <3> QED BY <1>8, <1>9, <2>2, <3>1, <3>3
  <2> QED BY <2>1, <2>2
<1> QED BY <1>8, <1>10, <1>16, <1>17 DEF q

LEMMA CollectNextEnds ==
    ASSUME NEW r, NEW calm, Collecting(r, calm), r.collect.left # <<>>, PaidFrom(r, r.collect)
    PROVE  Ends(CollectNext(r), calm)
<1> DEFINE c == [r.collect EXCEPT !.left = Tail(@)]
           q == Charge(r, c)
<1>1. r.collect \in Collection BY ShapeFields DEF Collecting
<1>2. Tail(r.collect.left) \in Seq(Call) BY <1>1 DEF Collection
<1>3. c \in Collection /\ c.main = r.collect.main /\ c.paid = r.collect.paid
  BY <1>1, <1>2 DEF Collection
<1>4. CollectNext(r) = AfterCollection(q) BY Zenon DEF CollectNext
<1> HIDE DEF c
<1>5. PaidFrom(r, c) BY <1>3 DEF PaidFrom
<1>6. Collecting(q, calm) /\ Charged(q.collect, q.chips) /\ PaidFrom(q, q.collect)
  BY <1>3, <1>5, ChargeCollects
<1> HIDE DEF q
<1> QED BY <1>4, <1>6, AfterCollectionEnds

(* What a step gives a player, as in Gain.                                 *)
Gains(r, q, s) ==
    (q.chips[s] + q.mainBet[s]) - (r.chips[s] + r.mainBet[s])
      - IF Active(r) = {s} THEN r.pot ELSE 0

LEMMA StakesGainNothing ==
    ASSUME NEW r, NEW q, Shape(r), Shape(q), Stakes(r, q), NEW s \in Seat
    PROVE  Gains(r, q, s) <= 0
<1>1. /\ r.chips[s] \in Int /\ q.chips[s] \in Int /\ r.mainBet[s] \in Nat /\ q.mainBet[s] \in Nat
      /\ r.pot \in Nat
  BY ShapeFields
<1>2. q.chips[s] + q.mainBet[s] = r.chips[s] + r.mainBet[s] BY DEF Stakes
<1> QED BY <1>1, <1>2 DEF Gains

(* The pique is paid, and the hand goes on.                                *)
LEMMA FinalizePiqueEnds ==
    ASSUME NEW r, NEW calm, Rested(r, calm), r.phase = "SHOWDOWN", r.winners # {}, ~r.turnTimer
    PROVE  LET q == FinalizePique(r)
           IN  /\ Ends(q, calm)
               /\ \A s \in Seat : Gains(r, q, s) > 0 =>
                    s \in r.winners \cap r.players /\ r.piquePot > 0
<1> DEFINE one == CHOOSE s \in r.winners : TRUE
           paid == IF Cardinality(r.winners) = 1 THEN AwardPiqueToContestant(r, one)
                   ELSE AwardSplitPique(r, r.winners)
           cards == [s \in Seat |-> IF s \in r.contestants \cap r.players
                                    THEN 0 ELSE paid.cards[s]]
           mid == [paid EXCEPT !.winners = {}, !.contestants = {}, !.continuation = "DESCARTE",
                               !.reopenCallers = <<>>, !.cards = cards]
           done == ReturnPot(mid)
           alone == Cardinality(Active(r)) <= 1
           q == FinalizePique(r)
           F == {"winners", "contestants", "continuation", "reopenCallers", "cards"}
<1>1. Shape(r) /\ Rest(r) /\ (calm => Fair(r)) BY DEF Rested, Ends, Sound
<1>2. q = IF alone \/ r.continuation = "CLEANUP" THEN ScheduleCleanup(done)
          ELSE IF r.continuation = "REOPEN_BETTING" THEN CallersReopen(done, r.reopenCallers)
          ELSE EnterDescarte(done)
  BY Zenon DEF FinalizePique
<1>3. r.winners \in SUBSET Seat /\ one \in r.winners BY <1>1, ShapeSets
<1>4. /\ Paid(r, paid) /\ (calm => paid.piquePot = 0)
      /\ \A s \in Seat : paid.chips[s] # r.chips[s] =>
           s \in r.winners \cap r.players /\ r.piquePot > 0
  <2>1. CASE Cardinality(r.winners) = 1
    <3> HIDE DEF one
    <3>1. paid = AwardPiqueToContestant(r, one) /\ one \in Seat BY <1>3, <2>1
    <3>2. calm => one \in r.players BY <1>1, <3>1 DEF Fair
    <3> HIDE DEF paid
    <3> QED BY <1>1, <1>3, <3>1, <3>2, AwardPiqueToContestantPaid
  <2>2. CASE Cardinality(r.winners) # 1
    <3>1. paid = AwardSplitPique(r, r.winners) BY <2>2
    <3> HIDE DEF paid
    <3> QED BY <1>1, <1>3, <3>1, AwardSplitPiquePaid
  <2> QED BY <2>1, <2>2
<1> HIDE DEF one, paid, done, q
<1>5. Shape(paid) /\ DOMAIN paid = F4 /\ paid.cards \in [Seat -> 0..MaxHand]
  BY <1>4, ShapeFields DEF Paid
<1>6. cards \in [Seat -> 0..MaxHand]
  <2>1. \A s \in Seat : cards[s] \in 0..MaxHand BY <1>5 DEF MaxHand
  <2> QED BY <2>1
<1> HIDE DEF cards
<1>7. /\ SameBut(F, paid, mid)
      /\ mid.winners = {} /\ mid.contestants = {} /\ mid.continuation = "DESCARTE"
      /\ mid.reopenCallers = <<>> /\ mid.cards = cards
  BY <1>5 DEF SameBut, F4, Fields
<1> HIDE DEF mid
<1>8. Shape(mid)
  <2>1. Typed("winners", mid.winners) /\ Typed("contestants", mid.contestants)
    BY <1>7, TypedSet DEF Sets4
  <2>2. Typed("continuation", mid.continuation) BY TypedOther DEF Untyped
  <2>3. Typed("reopenCallers", mid.reopenCallers) /\ Typed("cards", mid.cards)
    BY <1>6, <1>7 DEF Typed, Seats4, Sets4, Groups, Flags, Counts4
  <2>4. \A f \in F : Typed(f, mid[f]) BY <2>1, <2>2, <2>3
  <2> QED BY <1>5, <1>7, <2>4, ShapeFrameNoBets
<1>9. /\ Keeps(mid, done) /\ done.mainBet = mid.mainBet
      /\ SameBut(Purse \cup {"pot"}, mid, done)
      /\ \A s \in Seat : done.chips[s] # mid.chips[s] =>
           Active(mid) = {s} /\ done.chips[s] = mid.chips[s] + mid.pot
  BY <1>8, ReturnPotKeeps DEF done
<1> DEFINE G == F \cup Purse \cup {"piquePot", "pot"}
<1>10. SameBut(G, r, done) /\ done.piquePot = paid.piquePot /\ done.winners = {}
  BY <1>4, <1>7, <1>9 DEF SameBut, Paid, Purse, F4, Fields
<1>11. /\ done.phase = "SHOWDOWN" /\ done.players = r.players /\ done.connected = r.connected
       /\ done.folded = r.folded /\ done.pasoBy = r.pasoBy /\ done.turnTimer = r.turnTimer
       /\ done.validationTimer = r.validationTimer /\ done.collect = r.collect
       /\ done.dealing = r.dealing /\ done.maxBet = r.maxBet /\ done.passed = r.passed
       /\ done.mainBet = r.mainBet
  BY <1>10 DEF SameBut, Purse, F4, Fields
<1>12. Shape(done) BY <1>9 DEF Keeps
<1>13. Rest(done) BY <1>1, <1>11 DEF Rest
<1>14. calm => Fair(done)
  <2> SUFFICES ASSUME calm PROVE Fair(done) OBVIOUS
  <2>1. Fair(r) /\ ~r.validationTimer /\ done.piquePot = 0
    BY <1>1, <1>4, <1>10 DEF Rest
  <2> QED BY <1>11, <2>1 DEF Fair
<1>15. Active(done) = Active(r) BY <1>11 DEF Active
<1>16. ASSUME NEW s \in Seat, Gains(r, done, s) > 0
       PROVE  s \in r.winners \cap r.players /\ r.piquePot > 0
  <2> SUFFICES ASSUME paid.chips[s] = r.chips[s] PROVE FALSE BY <1>4
  <2>1. mid.chips[s] = r.chips[s] /\ mid.pot = r.pot /\ Active(mid) = Active(r)
    BY <1>4, <1>7 DEF SameBut, Paid, Purse, Active, F4, Fields
  <2>2. /\ r.chips[s] \in Int /\ r.mainBet[s] \in Nat /\ r.pot \in Nat /\ done.chips[s] \in Int
    BY <1>1, <1>12, ShapeFields
  <2>3. \/ done.chips[s] = r.chips[s]
        \/ Active(r) = {s} /\ done.chips[s] = r.chips[s] + r.pot
    BY <1>9, <2>1
  <2> QED BY <1>11, <1>16, <2>2, <2>3 DEF Gains
<1>17. \A s \in Seat : done.chips[s] + done.mainBet[s] = q.chips[s] + q.mainBet[s]
                         => Gains(r, q, s) = Gains(r, done, s)
  BY DEF Gains
<1>18. CASE alone \/ r.continuation = "CLEANUP"
  <2>1. q = ScheduleCleanup(done) BY <1>2, <1>18
  <2>2. Moves(done, q) BY <1>12, <2>1, ScheduleCleanupMoves
  <2>3. Decided(done) BY <1>10 DEF Decided
  <2>4. Rested(done, calm) BY <1>12, <1>13, <1>14, <2>3 DEF Rested, Ends, Sound, Waits
  <2>5. Rested(q, calm) BY <2>2, <2>4, KeepsRested DEF Moves
  <2>6. \A s \in Seat : done.chips[s] + done.mainBet[s] = q.chips[s] + q.mainBet[s]
    BY <2>2 DEF Moves
  <2> QED BY <1>16, <1>17, <2>5, <2>6 DEF Rested, q
<1>19. CASE ~(alone \/ r.continuation = "CLEANUP")
  <2>1. ASSUME NEW phase \in {"DESCARTE", "APUESTA_4_CARTAS"}
        PROVE  Ready([done EXCEPT !.phase = phase], calm)
    <3> DEFINE d == [done EXCEPT !.phase = phase]
    <3>1. phase \in Phases4 BY DEF Phases4
    <3>2. Shape(d) /\ SameBut({"phase"}, done, d) /\ d.phase = phase
      BY <1>12, <3>1, SetPhaseShape
    <3> HIDE DEF d
    <3>3. /\ d.players = r.players /\ d.pasoBy = r.pasoBy
          /\ d.validationTimer = r.validationTimer /\ d.collect = r.collect
          /\ d.dealing = r.dealing /\ d.maxBet = r.maxBet /\ d.piquePot = done.piquePot
      BY <1>11, <3>2 DEF SameBut, F4, Fields
    <3>4. Rest(d) /\ d.phase # "SHOWDOWN" BY <1>1, <3>2, <3>3 DEF Rest
    <3>5. calm => Fair(d)
      <4> SUFFICES ASSUME calm PROVE Fair(d) OBVIOUS
      <4>1. Fair(r) /\ ~r.validationTimer /\ done.piquePot = 0
        BY <1>1, <1>4, <1>10 DEF Rest
      <4> QED BY <3>3, <4>1 DEF Fair
    <3>6. Ready(d, calm) BY <3>2, <3>4, <3>5 DEF Ready
    <3> QED BY <3>6 DEF d
  <2>2. DOMAIN done = F4 BY <1>12, ShapeFields
  <2>3. Ends(q, calm) /\ Stakes(done, q)
    <3>1. CASE r.continuation = "REOPEN_BETTING"
      <4>1. q = CallersReopen(done, r.reopenCallers) BY <1>2, <1>19, <3>1
      <4>2. r.reopenCallers \in Seq(Call) /\ ~done.turnTimer BY <1>1, <1>11, ShapeFields
      <4>3. ~(Cardinality(Active(done)) <= 1) BY <1>15, <1>19
      <4> QED BY <2>1, <2>2, <4>1, <4>2, <4>3, CallersReopenEnds
    <3>2. CASE r.continuation # "REOPEN_BETTING"
      <4>1. q = EnterDescarte(done) BY <1>2, <1>19, <3>2
      <4> QED BY <2>1, <2>2, <4>1, EnterDescarteEnds
    <3> QED BY <3>1, <3>2
  <2> QED BY <1>16, <1>17, <2>3 DEF Stakes, q
<1> QED BY <1>18, <1>19

-----------------------------------------------------------------------------
(* Connections are lost, players removed, the hand called off: the room    *)
(* still waits for at most what it waited for.                             *)

Unfading == {"pasoBy", "validationTimer", "collect", "dealing", "missing", "maxBet", "chips",
             "asked"}

Fades(r, q) ==
    /\ Shape(q) /\ q.players \subseteq r.players /\ (q.turnTimer => r.turnTimer)
    /\ \A f \in Unfading : q[f] = r[f]
    /\ q.turn = r.turn \/ r.turn \notin q.players \/ q.phase = "LOBBY"
    /\ \A s \in Seat : q.cards[s] = 0 \/ q.roundBet[s] = r.roundBet[s]
    /\ \A s \in Seat : r.cards[s] = 0 => q.cards[s] = 0
    /\ \A s \in Seat : q.mainBet[s] <= r.mainBet[s]
    /\ \/ q.phase = "LOBBY"
       \/ /\ q.phase = r.phase /\ q.cards = r.cards
          /\ \A f \in {"piquePot", "passed", "winners", "contestants"} : q[f] = r[f]

LEMMA FadesSound ==
    ASSUME NEW r, NEW q, NEW b, Sound(r, b, FALSE), Fades(r, q) PROVE Sound(q, b, FALSE)
<1>1. /\ q.pasoBy = r.pasoBy /\ q.validationTimer = r.validationTimer
      /\ q.collect = r.collect /\ q.dealing = r.dealing /\ q.missing = r.missing
      /\ q.chips = r.chips /\ q.asked = r.asked
      /\ q.players \subseteq r.players /\ (q.turnTimer => r.turnTimer)
      /\ q.phase = r.phase \/ q.phase = "LOBBY"
  BY DEF Fades, Unfading
<1>2. Decided(q)
  <2> SUFFICES ASSUME q.phase = "SHOWDOWN", q.piquePot > 0 PROVE Decided(q) BY DEF Decided
  <2>1. /\ r.phase = "SHOWDOWN" /\ q.piquePot = r.piquePot /\ q.passed = r.passed
        /\ q.winners = r.winners /\ q.contestants = r.contestants /\ q.cards = r.cards
    BY DEF Fades
  <2>2. Decided(r) BY DEF Sound
  <2>3. \A s : Hand(q, s) = Hand(r, s) BY <2>1 DEF Hand
  <2> QED BY <1>1, <2>1, <2>2, <2>3 DEF Decided
<1>3. Waits(q, b)
  <2>1. ASSUME Rest(r) PROVE Rest(q) BY <1>1, <2>1 DEF Rest
  <2>2. CASE b # NoBet
    <3>1. Bets(r, b) BY <2>2 DEF Sound, Waits
    <3> QED BY <1>1, <2>1, <2>2, <3>1 DEF Bets, Waits
  <2>3. CASE b = NoBet /\ Rest(r) BY <2>1, <2>3 DEF Waits
  <2>4. CASE b = NoBet /\ Asks(r)
    <3>1. ~q.validationTimer /\ q.collect = NoCall /\ q.dealing = {} /\ ~q.turnTimer
      BY <1>1, <2>4 DEF Asks
    <3>2. CASE q.phase = "LOBBY" BY <2>4, <3>1, <3>2 DEF Asks, Waits
    <3>3. CASE q.phase # "LOBBY"
      <4>1. q.phase = "APUESTA_4_CARTAS" /\ r.turn = r.pasoBy BY <1>1, <2>4, <3>3 DEF Asks
      <4>2. CASE q.turn = r.turn BY <1>1, <2>4, <3>1, <4>1, <4>2 DEF Asks, Waits
      <4>3. CASE q.turn # r.turn
        <5>1. q.pasoBy \notin q.players BY <1>1, <3>3, <4>1, <4>3 DEF Fades
        <5>2. Rest(q) BY <3>1, <4>1, <5>1 DEF Rest
        <5> QED BY <2>4, <5>2 DEF Waits
      <4> QED BY <4>2, <4>3
    <3> QED BY <3>2, <3>3
  <2>5. CASE b = NoBet /\ Validates(r)
    <3>1. Validates(q) BY <1>1, <2>5 DEF Validates
    <3> QED BY <2>5, <3>1 DEF Waits
  <2>6. CASE b = NoBet /\ Collects(r)
    <3>1. Shape(r) BY DEF Sound
    <3>2. r.collect.main \in Seat \cup {NoSeat} BY <3>1, ShapeFields DEF Collection
    <3>3. r.collect.paid > 0 =>
            /\ r.collect.main # NoSeat
            /\ q.cards[r.collect.main] = 0 \/ r.collect.paid <= q.roundBet[r.collect.main]
      BY <2>6, <3>2 DEF Collects, Fades
    <3>4. Collects(q) BY <1>1, <2>6, <3>3 DEF Collects
    <3> QED BY <2>6, <3>4 DEF Waits
  <2>7. CASE b = NoBet /\ Deals4(r)
    <3>1. Deals4(q) BY <1>1, <2>7 DEF Deals4
    <3> QED BY <2>7, <3>1 DEF Waits
  <2> QED BY <2>2, <2>3, <2>4, <2>5, <2>6, <2>7 DEF Sound, Waits
<1> QED BY <1>2, <1>3 DEF Sound, Fades

LEMMA FadesFair ==
    ASSUME NEW r, NEW q, Fair(r), Fades(r, q), q.players = Seat, q.piquePot = 0,
           q.claims = r.claims, q.validators = r.validators, q.cards = r.cards
    PROVE  Fair(q)
<1>1. /\ q.pasoBy = r.pasoBy /\ q.validationTimer = r.validationTimer /\ q.maxBet = r.maxBet
  BY DEF Fades, Unfading
<1>2. \A s : Hand(q, s) = Hand(r, s) BY DEF Hand
<1> QED BY <1>1, <1>2 DEF Fair

LEMMA FadesTwice ==
    ASSUME NEW r, Shape(r), NEW p, NEW q, Fades(r, p), Fades(p, q) PROVE Fades(r, q)
<1>1. /\ Shape(q) /\ q.players \subseteq p.players /\ p.players \subseteq r.players
      /\ (q.turnTimer => r.turnTimer) /\ \A f \in Unfading : q[f] = r[f]
  BY DEF Fades
<1>2. \A s \in Seat : q.cards[s] = 0 \/ q.roundBet[s] = r.roundBet[s]
  <2> SUFFICES ASSUME NEW s \in Seat, q.cards[s] # 0 PROVE q.roundBet[s] = r.roundBet[s]
    OBVIOUS
  <2>1. q.roundBet[s] = p.roundBet[s] /\ p.cards[s] # 0 BY DEF Fades
  <2>2. p.roundBet[s] = r.roundBet[s] BY <2>1 DEF Fades
  <2> QED BY <2>1, <2>2
<1>3. \A s \in Seat : r.cards[s] = 0 => q.cards[s] = 0 BY DEF Fades
<1>4. \/ q.phase = "LOBBY"
      \/ /\ q.phase = r.phase /\ q.cards = r.cards
         /\ \A f \in {"piquePot", "passed", "winners", "contestants"} : q[f] = r[f]
  BY DEF Fades
<1>5. q.turn = r.turn \/ r.turn \notin q.players \/ q.phase = "LOBBY" BY <1>1 DEF Fades
<1>6. \A s \in Seat : q.mainBet[s] <= r.mainBet[s]
  <2>1. Shape(p) /\ Shape(q) BY DEF Fades
  <2>2. p.mainBet \in [Seat -> Nat] /\ q.mainBet \in [Seat -> Nat] BY <2>1, ShapeFields
  <2> TAKE s \in Seat
  <2>3. q.mainBet[s] <= p.mainBet[s] /\ p.mainBet[s] <= r.mainBet[s] BY DEF Fades
  <2>4. p.mainBet[s] \in Nat /\ q.mainBet[s] \in Nat /\ r.mainBet[s] \in Nat
    BY <2>2, ShapeFields
  <2> QED BY <2>3, <2>4
<1> QED BY <1>1, <1>2, <1>3, <1>4, <1>5, <1>6 DEF Fades

LEMMA FrameFades ==
    ASSUME NEW F, NEW r, NEW q, Shape(q), SameBut(F, r, q),
           F \cap (Unfading \cup {"turn", "cards", "roundBet", "mainBet", "phase", "piquePot",
                                  "passed", "winners", "contestants"}) = {},
           q.players \subseteq r.players, q.turnTimer => r.turnTimer
    PROVE  Fades(r, q)
<1>1. q.mainBet = r.mainBet BY DEF SameBut, F4, Fields
<1>2. \A s \in Seat : q.mainBet[s] <= r.mainBet[s]
  <2>1. \A s \in Seat : q.mainBet[s] \in Nat BY ShapeFields
  <2> QED BY <1>1, <2>1
<1> QED BY <1>2 DEF Fades, Unfading, SameBut, F4, Fields

LEMMA NextDealerFrame ==
    ASSUME NEW r, Shape(r) PROVE SameBut({"dealer"}, r, NextDealer(r))
BY ShapeFields DEF SameBut, NextDealer, F4, Fields

LEMMA NobodyWaits ==
    ASSUME NEW r, Shape(r)
    PROVE  LET q == PromoteWaitingPlayers(r) IN Shape(q) /\ SameBut({"waiting"}, r, q)
<1> DEFINE q == PromoteWaitingPlayers(r)
<1>1. SameBut({"waiting"}, r, q) /\ q.waiting = {}
  BY ShapeFields DEF PromoteWaitingPlayers, SameBut, F4, Fields
<1> HIDE DEF q
<1>2. Typed("waiting", q.waiting) BY <1>1, TypedSet DEF Sets4, Groups
<1>3. Shape(q) BY <1>1, <1>2, ShapeFrameNoBets
<1> QED BY <1>1, <1>3 DEF q

LEMMA CleanupRoundFades ==
    ASSUME NEW r, Shape(r)
    PROVE  LET q == CleanupRound(r)
           IN  /\ Fades(r, q) /\ q.phase = "LOBBY" /\ q.piquePot = 0
               /\ SameBut({"turnTimer", "autoTimer", "forced", "pot", "piquePot", "mano",
                           "phase", "waiting", "dealer"}, r, q)
<1> DEFINE F == {"turnTimer", "autoTimer", "forced", "pot", "piquePot", "mano", "phase"}
           t == ClearTurnTimer(r)
           a == ClearAutoTimer(t)
           p == [a EXCEPT !.forced = NoSeat, !.pot = 0, !.piquePot = 0, !.mano = NoSeat,
                          !.phase = "LOBBY"]
           w == PromoteWaitingPlayers(p)
           q == CleanupRound(r)
<1>1. q = IF r.rotated THEN w ELSE NextDealer(w) BY Zenon DEF CleanupRound
<1>2. Shape(t) /\ SameBut({"turnTimer"}, r, t) /\ t.turnTimer = FALSE
  BY ClearTurnTimerMoves DEF Moves, Keeps
<1> HIDE DEF t
<1>3. Shape(a) /\ SameBut({"autoTimer"}, t, a)
  BY <1>2, ClearAutoTimerMoves DEF Moves, Keeps
<1> HIDE DEF a
<1>4. /\ SameBut({"forced", "pot", "piquePot", "mano", "phase"}, a, p)
      /\ p.forced = NoSeat /\ p.pot = 0 /\ p.piquePot = 0 /\ p.mano = NoSeat
      /\ p.phase = "LOBBY"
  BY <1>3, ShapeFields DEF SameBut, F4, Fields
<1> HIDE DEF p
<1>5. Shape(p)
  <2>1. Typed("forced", p.forced) BY TypedOther DEF Untyped
  <2>2. Typed("pot", p.pot) /\ Typed("piquePot", p.piquePot) BY <1>4, TypedCount DEF Counts4
  <2>3. Typed("mano", p.mano) BY <1>4, TypedSeat DEF Seats4
  <2>4. Typed("phase", p.phase) BY <1>4 DEF Typed, Phases4, Seats4, Sets4, Groups, Flags, Counts4
  <2> QED BY <1>3, <1>4, <2>1, <2>2, <2>3, <2>4, ShapeFrameNoBets
<1>6. SameBut(F, r, p) /\ p.turnTimer = FALSE
  BY <1>2, <1>3, <1>4 DEF SameBut, F4, Fields
<1>7. Shape(w) /\ SameBut({"waiting"}, p, w) BY <1>5, NobodyWaits
<1> HIDE DEF w
<1>8. Shape(q) /\ SameBut({"dealer"}, w, q)
  <2>1. SameBut({"dealer"}, w, w) BY <1>7 DEF SameBut
  <2> HIDE DEF q
  <2>2. CASE r.rotated BY <1>1, <1>7, <2>1, <2>2
  <2>3. CASE ~r.rotated
    <3>1. q = NextDealer(w) BY <1>1, <2>3
    <3> QED BY <1>7, <3>1, NextDealerFrame, NextDealerMoves DEF Moves, Keeps
  <2> QED BY <2>2, <2>3
<1> HIDE DEF q
<1> DEFINE G == F \cup {"waiting", "dealer"}
<1>9. SameBut(G, r, q) /\ q.turnTimer = FALSE /\ q.phase = "LOBBY" /\ q.piquePot = 0
  BY <1>4, <1>6, <1>7, <1>8 DEF SameBut, F4, Fields
<1>10. Fades(r, q)
  <2>1. q.mainBet = r.mainBet BY <1>9 DEF SameBut, F4, Fields
  <2>2. \A s \in Seat : q.mainBet[s] \in Nat BY <1>8, ShapeFields
  <2>3. \A s \in Seat : q.mainBet[s] <= r.mainBet[s] BY <2>1, <2>2
  <2> QED BY <1>8, <1>9, <2>3 DEF Fades, Unfading, SameBut, F4, Fields
<1>11. G = {"turnTimer", "autoTimer", "forced", "pot", "piquePot", "mano",
            "phase", "waiting", "dealer"}
  OBVIOUS
<1> QED BY <1>9, <1>10, <1>11 DEF q

LEMMA CleanupRoundSound ==
    ASSUME NEW r, NEW b, NEW calm, Sound(r, b, calm)
    PROVE  Sound(CleanupRound(r), b, calm)
<1> DEFINE q == CleanupRound(r)
<1>1. Shape(r) /\ Sound(r, b, FALSE) BY DEF Sound
<1>2. /\ Fades(r, q) /\ q.phase = "LOBBY" /\ q.piquePot = 0
      /\ SameBut({"turnTimer", "autoTimer", "forced", "pot", "piquePot", "mano",
                  "phase", "waiting", "dealer"}, r, q)
  BY <1>1, CleanupRoundFades
<1> HIDE DEF q
<1>3. Sound(q, b, FALSE) BY <1>1, <1>2, FadesSound
<1>4. q.players = r.players /\ q.claims = r.claims /\ q.validators = r.validators
      /\ q.cards = r.cards
  BY <1>2 DEF SameBut, F4, Fields
<1>5. calm => Fair(q)
  <2> SUFFICES ASSUME calm PROVE Fair(q) OBVIOUS
  <2>1. Fair(r) /\ q.players = Seat BY <1>4 DEF Sound, Fair
  <2> QED BY <1>2, <1>4, <2>1, FadesFair
<1> QED BY <1>3, <1>5 DEF Sound, q

(* The main pot is awarded, which nobody gains from but the last active    *)
(* player.                                                                 *)
LEMMA AwardPotEnds ==
    ASSUME NEW r, NEW calm, Rested(r, calm), NEW w \in Seat
    PROVE  Rested(AwardPot(r, w), calm)
<1> DEFINE amount == (r.pot - RakeOf(r.pot)) + (r.piquePot - RakeOf(r.piquePot))
           p == PayPlayer(r, w, amount, Ref("showdown-single"))
           q == AwardPot(r, w)
<1>1. Shape(r) BY DEF Rested, Ends, Sound
<1>2. q = IF w \in r.players THEN CleanupRound(p) ELSE r BY DEF AwardPot
<1>3. CASE w \notin r.players BY <1>2, <1>3
<1>4. CASE w \in r.players
  <2>1. amount \in Int
    <3>1. r.pot \in Nat /\ r.piquePot \in Nat BY <1>1, ShapeFields
    <3>2. RakeOf(r.pot) \in Nat /\ RakeOf(r.piquePot) \in Nat BY <3>1, RakeType
    <3> QED BY <3>1, <3>2
  <2> HIDE DEF amount
  <2>2. Keeps(r, p) BY <1>1, <2>1, PayPlayerKeeps
  <2> HIDE DEF p
  <2>3. Rested(p, calm) BY <2>2, KeepsRested
  <2>4. Sound(CleanupRound(p), NoBet, calm) BY <2>3, CleanupRoundSound DEF Rested, Ends
  <2>5. Rest(CleanupRound(p))
    <3> DEFINE c == CleanupRound(p)
    <3>1. Shape(p) BY <2>3 DEF Rested, Ends, Sound
    <3>2. /\ c.phase = "LOBBY"
          /\ SameBut({"turnTimer", "autoTimer", "forced", "pot", "piquePot", "mano",
                      "phase", "waiting", "dealer"}, p, c)
      BY <3>1, CleanupRoundFades
    <3> HIDE DEF c
    <3>3. /\ c.pasoBy = p.pasoBy /\ c.players = p.players /\ c.collect = p.collect
          /\ c.validationTimer = p.validationTimer /\ c.dealing = p.dealing
      BY <3>2 DEF SameBut, F4, Fields
    <3> QED BY <2>3, <3>2, <3>3 DEF Rested, Rest, c
  <2> QED BY <1>2, <1>4, <2>4, <2>5 DEF Rested, Ends
<1> QED BY <1>3, <1>4

LEMMA TransferManoFades ==
    ASSUME NEW r, Shape(r) PROVE Fades(r, TransferMano(r)) /\ Shape(TransferMano(r))
<1> DEFINE q == TransferMano(r)
<1>1. Shape(q) /\ SameBut({"mano"}, r, q) BY TransferManoMoves DEF Moves, Keeps
<1> HIDE DEF q
<1>2. q.players = r.players /\ q.turnTimer = r.turnTimer BY <1>1 DEF SameBut, F4, Fields
<1>3. Fades(r, q) BY <1>1, <1>2, FrameFades DEF Unfading
<1> QED BY <1>1, <1>3 DEF q

LEMMA ResetRoomStateFades ==
    ASSUME NEW r, Shape(r) PROVE Fades(r, ResetRoomState(r))
<1> DEFINE owed == IF r.phase = "LOBBY" THEN {} ELSE {s \in r.players : r.mainBet[s] > 0}
           credited == {s \in owed : <<s, Ref("all-disconnected")>> \notin r.refs}
           balance == [s \in Seat |-> IF s \in credited THEN r.balance[s] + r.mainBet[s]
                                      ELSE r.balance[s]]
           refs == r.refs \cup {<<s, Ref("all-disconnected")>> : s \in owed}
           roundBet == [s \in Seat |-> IF s \in r.players THEN 0 ELSE r.roundBet[s]]
           mainBet == [s \in Seat |-> IF s \in r.players THEN 0 ELSE r.mainBet[s]]
           cards == [s \in Seat |-> IF s \in r.players THEN 0 ELSE r.cards[s]]
           q == ResetRoomState(r)
<1>1. /\ r.roundBet \in [Seat -> Nat] /\ r.mainBet \in [Seat -> Nat]
      /\ r.balance \in [Seat -> Int] /\ r.cards \in [Seat -> 0..MaxHand] /\ DOMAIN r = F4
      /\ \A t \in Seat : r.roundBet[t] <= r.mainBet[t]
  BY ShapeFields DEF Shape
<1>2. credited \subseteq Seat BY ShapeSets
<1>3. q = [r EXCEPT !.balance = balance, !.refs = refs, !.skewed = @ \cup credited,
                    !.turnTimer = FALSE, !.autoTimer = FALSE,
                    !.phase = "LOBBY", !.pot = 0, !.piquePot = 0,
                    !.mano = NoSeat, !.turn = NoSeat,
                    !.folded = @ \ r.players, !.acted = @ \ r.players, !.allIn = @ \ r.players,
                    !.passed = @ \ r.players, !.declined = @ \ r.players,
                    !.yes = @ \ r.players, !.no = @ \ r.players,
                    !.roundBet = roundBet, !.mainBet = mainBet, !.cards = cards]
  BY DEF ResetRoomState
<1> HIDE DEF credited, q
<1>4. balance \in [Seat -> Int]
  <2>1. \A s \in Seat : r.balance[s] + r.mainBet[s] \in Int BY <1>1
  <2> QED BY <1>1, <2>1
<1>5. /\ roundBet \in [Seat -> Nat] /\ mainBet \in [Seat -> Nat] /\ cards \in [Seat -> 0..MaxHand]
      /\ \A t \in Seat : roundBet[t] <= mainBet[t]
  <2>1. \A s \in Seat : cards[s] \in 0..MaxHand BY <1>1 DEF MaxHand
  <2> QED BY <1>1, <2>1
<1>6. /\ \A t \in Seat : cards[t] = 0 \/ roundBet[t] = r.roundBet[t]
      /\ \A t \in Seat : r.cards[t] = 0 => cards[t] = 0
      /\ \A t \in Seat : mainBet[t] <= r.mainBet[t]
  BY <1>1
<1> DEFINE A == {"balance", "refs", "skewed", "turnTimer", "autoTimer", "phase", "pot",
                 "piquePot", "mano", "turn", "folded", "acted", "allIn", "passed", "declined",
                 "yes", "no", "roundBet", "mainBet", "cards"}
<1> HIDE DEF balance, refs, roundBet, mainBet, cards
<1>7. /\ SameBut(A, r, q)
      /\ q.balance = balance /\ q.skewed = r.skewed \cup credited /\ q.turnTimer = FALSE
      /\ q.autoTimer = FALSE /\ q.phase = "LOBBY" /\ q.pot = 0 /\ q.piquePot = 0
      /\ q.mano = NoSeat /\ q.turn = NoSeat
      /\ q.roundBet = roundBet /\ q.mainBet = mainBet /\ q.cards = cards
  BY ZenonT(60), <1>1, <1>3 DEF SameBut, F4, Fields
<1>8. /\ q.folded \subseteq r.folded /\ q.acted \subseteq r.acted /\ q.allIn \subseteq r.allIn
      /\ q.passed \subseteq r.passed /\ q.declined \subseteq r.declined
      /\ q.yes \subseteq r.yes /\ q.no \subseteq r.no
  BY <1>1, <1>3 DEF F4, Fields
<1>9. Shape(q)
  <2>1. Typed("balance", q.balance) BY <1>4, <1>7, TypedMoney
  <2>2. Typed("refs", q.refs) BY TypedOther DEF Untyped
  <2>3. \A f \in {"skewed", "folded", "acted", "allIn", "passed", "declined", "yes", "no"} :
          Typed(f, q[f])
    BY <1>2, <1>7, <1>8, ShapeSets, TypedSet DEF Sets4, Groups
  <2>4. Typed("turnTimer", q.turnTimer) /\ Typed("autoTimer", q.autoTimer)
    BY <1>7, TypedFlag DEF Flags
  <2>5. Typed("phase", q.phase) BY <1>7 DEF Typed, Phases4, Seats4, Sets4, Groups, Flags, Counts4
  <2>6. Typed("pot", q.pot) /\ Typed("piquePot", q.piquePot) BY <1>7, TypedCount DEF Counts4
  <2>7. Typed("mano", q.mano) /\ Typed("turn", q.turn) BY <1>7, TypedSeat DEF Seats4
  <2>8. Typed("roundBet", q.roundBet) /\ Typed("mainBet", q.mainBet) BY <1>5, <1>7, TypedBets
  <2>9. Typed("cards", q.cards) BY <1>5, <1>7 DEF Typed, Seats4, Sets4, Groups, Flags, Counts4
  <2>10. \A f \in A : Typed(f, q[f])
    BY <2>1, <2>2, <2>3, <2>4, <2>5, <2>6, <2>7, <2>8, <2>9
  <2>11. \A t \in Seat : q.roundBet[t] <= q.mainBet[t] BY <1>5, <1>7
  <2> QED BY <1>7, <2>10, <2>11, ShapeFrame
<1>10. q.players = r.players /\ \A f \in Unfading : q[f] = r[f]
  BY <1>7 DEF SameBut, Unfading, F4, Fields
<1>11. Fades(r, q) BY <1>6, <1>7, <1>9, <1>10 DEF Fades
<1> QED BY <1>11 DEF q

LEMMA OfflineFades ==
    ASSUME NEW r, Shape(r), NEW s
    PROVE  Fades(r, Offline(r, s)) /\ Shape(Offline(r, s))
<1> DEFINE off == [r EXCEPT !.connected = @ \ {s}]
<1>1. SameBut({"connected"}, r, off) /\ off.connected = r.connected \ {s}
  BY ShapeFields DEF SameBut, F4, Fields
<1>2. Offline(r, s) = IF off.players \cap off.connected = {} THEN ResetRoomState(off) ELSE off
  BY DEF Offline
<1> HIDE DEF off
<1>3. Typed("connected", off.connected) BY <1>1, ShapeSets, TypedSet DEF Sets4, Groups
<1>4. Shape(off) BY <1>1, <1>3, ShapeFrameNoBets
<1>5. off.players = r.players /\ off.turnTimer = r.turnTimer
  BY <1>1 DEF SameBut, F4, Fields
<1>6. Fades(r, off) BY <1>1, <1>4, <1>5, FrameFades DEF Unfading
<1>7. Fades(off, ResetRoomState(off)) BY <1>4, ResetRoomStateFades
<1>8. Fades(r, ResetRoomState(off)) BY <1>6, <1>7, FadesTwice
<1> QED BY <1>2, <1>4, <1>6, <1>8 DEF Fades

LEMMA HandOverDealFades ==
    ASSUME NEW r, Shape(r), NEW s \in Seat
    PROVE  Fades(r, HandOverDeal(r, s)) /\ Shape(HandOverDeal(r, s))
<1> DEFINE heirs == SeatOrder(r) \cap r.connected
           others == r.players \cap r.connected
           d == IF s \in SeatOrder(r) /\ heirs # {} THEN FirstAfter(s, heirs) ELSE Min(others)
           p == [r EXCEPT !.rotated = TRUE, !.dealer = d]
<1>1. HandOverDeal(r, s) = IF r.dealer # s \/ others = {} THEN r ELSE p
  BY DEF HandOverDeal
<1>2. CASE r.dealer # s \/ others = {}
  <2>1. SameBut({}, r, r) BY ShapeFields DEF SameBut
  <2>2. Fades(r, r) BY <2>1, FrameFades
  <2> QED BY <1>1, <1>2, <2>2
<1>3. CASE ~(r.dealer # s \/ others = {})
  <2>1. heirs \in SUBSET Seat /\ others \in SUBSET Seat BY ShapeSets
  <2>2. d \in Seat
    <3>1. heirs # {} => FirstAfter(s, heirs) \in heirs
      <4> HIDE DEF heirs
      <4> QED BY <2>1, FirstIsFound
    <3>2. Min(others) \in others
      <4> HIDE DEF others
      <4> QED BY <1>3, <2>1, MinInSet
    <3> QED BY <2>1, <3>1, <3>2
  <2> HIDE DEF d
  <2>3. SameBut({"rotated", "dealer"}, r, p) /\ p.rotated = TRUE /\ p.dealer = d
    BY ShapeFields DEF SameBut, F4, Fields
  <2>4. HandOverDeal(r, s) = p BY <1>1, <1>3
  <2> HIDE DEF p
  <2>5. Typed("rotated", p.rotated) BY <2>3, TypedFlag DEF Flags
  <2>6. Typed("dealer", p.dealer) BY <2>2, <2>3 DEF Typed, Seats4, Sets4, Groups, Flags, Counts4
  <2>7. Shape(p) BY <2>3, <2>5, <2>6, ShapeFrameNoBets
  <2>8. p.players = r.players /\ p.turnTimer = r.turnTimer BY <2>3 DEF SameBut, F4, Fields
  <2>9. Fades(r, p) BY <2>3, <2>7, <2>8, FrameFades DEF Unfading
  <2> QED BY <2>4, <2>7, <2>9
<1> QED BY <1>2, <1>3

LEMMA RemovePlayerFades ==
    ASSUME NEW r, Shape(r), NEW s \in Seat PROVE Fades(r, RemovePlayer(r, s))
<1> DEFINE gone == [r EXCEPT !.players = @ \ {s}]
           order == SeatOrder(gone)
           heir == IF gone.players = {} \/ r.dealer # s THEN r.dealer
                   ELSE IF order # {} THEN Min(order) ELSE Min(gone.players)
           mano == IF r.mano = s /\ gone.players # {} /\ r.phase # "LOBBY" THEN heir ELSE r.mano
           dealt == [gone EXCEPT !.dealer = heir,
                                 !.mano = IF @ = s /\ gone.players # {} /\ r.phase # "LOBBY"
                                          THEN heir ELSE @]
           away == [dealt EXCEPT !.turn = NoSeat]
           idle == IF r.turn = s THEN ClearTurnTimer(away) ELSE dealt
           q == RemovePlayer(r, s)
<1>1. /\ SameBut({"players"}, r, gone) /\ gone.players = r.players \ {s}
  BY ShapeFields DEF SameBut, F4, Fields
<1>2. q = IF gone.players = {} THEN ResetRoomState(idle) ELSE idle BY Zenon DEF RemovePlayer
<1> HIDE DEF gone, q
<1>3. Shape(gone)
  <2>1. Typed("players", gone.players) BY <1>1, ShapeSets, TypedSet DEF Sets4, Groups
  <2> QED BY <1>1, <2>1, ShapeFrameNoBets
<1>4. heir \in Seat
  <2>1. r.dealer \in Seat BY ShapeFields
  <2>2. order \in SUBSET Seat /\ gone.players \in SUBSET Seat BY <1>3, ShapeSets
  <2> HIDE DEF order
  <2>3. order # {} => Min(order) \in Seat BY <2>2, MinInSet
  <2>4. gone.players # {} => Min(gone.players) \in Seat BY <2>2, MinInSet
  <2> QED BY <2>1, <2>3, <2>4
<1> HIDE DEF heir, order
<1>5. mano \in Seat \cup {NoSeat} BY <1>4, ShapeFields
<1>6. SameBut({"dealer", "mano"}, gone, dealt) /\ dealt.dealer = heir /\ dealt.mano = mano
  <2>1. gone.mano = r.mano BY <1>1 DEF SameBut, F4, Fields
  <2>2. DOMAIN gone = F4 BY <1>3, ShapeFields
  <2> QED BY <2>1, <2>2 DEF SameBut, F4, Fields
<1> HIDE DEF mano
<1> HIDE DEF dealt
<1>7. Shape(dealt)
  <2>1. Typed("mano", dealt.mano) BY <1>5, <1>6, TypedSeat DEF Seats4
  <2>2. Typed("dealer", dealt.dealer)
    BY <1>4, <1>6 DEF Typed, Seats4, Sets4, Groups, Flags, Counts4
  <2> QED BY <1>3, <1>6, <2>1, <2>2, ShapeFrameNoBets
<1>8. SameBut({"players", "dealer", "mano"}, r, dealt) /\ dealt.players = r.players \ {s}
  BY <1>1, <1>6 DEF SameBut, F4, Fields
<1>9. Shape(idle) /\ Fades(r, idle)
  <2>1. CASE r.turn # s
    <3>1. idle = dealt BY <2>1
    <3>2. dealt.turnTimer = r.turnTimer BY <1>8 DEF SameBut, F4, Fields
    <3> QED BY <1>7, <1>8, <3>1, <3>2, FrameFades DEF Unfading
  <2>2. CASE r.turn = s
    <3>1. SameBut({"turn"}, dealt, away) /\ away.turn = NoSeat
      BY <1>7, ShapeFields DEF SameBut, F4, Fields
    <3>2. idle = ClearTurnTimer(away) BY <2>2
    <3> HIDE DEF away, idle
    <3>3. Typed("turn", away.turn) BY <3>1, TypedSeat DEF Seats4
    <3>4. Shape(away) BY <1>7, <3>1, <3>3, ShapeFrameNoBets
    <3>5. Shape(idle) /\ SameBut({"turnTimer"}, away, idle) /\ idle.turnTimer = FALSE
      BY <3>2, <3>4, ClearTurnTimerMoves DEF Moves, Keeps
    <3> DEFINE F == {"players", "dealer", "mano", "turn", "turnTimer"}
    <3>6. SameBut(F, r, idle) /\ idle.players = r.players \ {s}
      BY <1>8, <3>1, <3>5 DEF SameBut, F4, Fields
    <3>7. \A t \in Seat : idle.mainBet[t] <= r.mainBet[t]
      <4>1. idle.mainBet = r.mainBet BY <3>6 DEF SameBut, F4, Fields
      <4>2. \A t \in Seat : idle.mainBet[t] \in Nat BY <3>5, ShapeFields
      <4> QED BY <4>1, <4>2
    <3>8. Fades(r, idle) BY <2>2, <3>5, <3>6, <3>7 DEF Fades, Unfading, SameBut, F4, Fields
    <3> QED BY <3>5, <3>8
  <2> QED BY <2>1, <2>2
<1> HIDE DEF idle
<1>10. Fades(r, ResetRoomState(idle)) BY <1>9, ResetRoomStateFades, FadesTwice
<1> QED BY <1>2, <1>9, <1>10 DEF q

-----------------------------------------------------------------------------
(* The betting actions of the round, and the answer about juego.           *)

LEMMA FoldAndAdvanceEnds ==
    ASSUME NEW r, NEW calm, Ready(r, calm), NEW s \in Seat
    PROVE  Ends(AdvanceTurnBetting(FoldAndPassMano(r, s), NoSeat), calm)
<1> DEFINE q == FoldAndPassMano(r, s)
<1>1. Keeps(r, q) BY FoldAndPassManoMoves DEF Ready, Moves
<1> HIDE DEF q
<1>2. Ready(q, calm) BY <1>1, KeepsSound
<1>3. Ends(AdvanceTurnBetting(q, NoSeat), calm) BY <1>2, AdvanceTurnBettingEnds
<1> QED BY <1>3 DEF q

LEMMA ActAndAdvanceEnds ==
    ASSUME NEW r, NEW calm, Ready(r, calm), NEW s \in Seat
    PROVE  Ends(AdvanceTurnBetting([r EXCEPT !.acted = @ \cup {s}], NoSeat), calm)
<1> DEFINE q == [r EXCEPT !.acted = @ \cup {s}]
<1>1. Shape(r) BY DEF Ready
<1>2. SameBut({"acted"}, r, q) /\ q.acted = r.acted \cup {s}
  BY <1>1, ShapeFields DEF SameBut, F4, Fields
<1> HIDE DEF q
<1>3. Typed("acted", q.acted) BY <1>1, <1>2, ShapeSets, TypedSet DEF Sets4, Groups
<1>4. Keeps(r, q) BY <1>1, <1>2, <1>3, KeepsFrame DEF Moves, Core
<1>5. Ready(q, calm) BY <1>4, KeepsSound
<1>6. Ends(AdvanceTurnBetting(q, NoSeat), calm) BY <1>5, AdvanceTurnBettingEnds
<1> QED BY <1>6 DEF q

(* Only cards without juego are collected.                                 *)
LEMMA CollectCardsReady ==
    ASSUME NEW r, NEW calm, Ready(r, calm), NEW s \in Seat, ~TieneJuego(Hand(r, s))
    PROVE  Ready(CollectPlayerCards(r, s), calm)
<1> DEFINE cards == [r.cards EXCEPT ![s] = 0]
           p == [r EXCEPT !.cards = cards]
<1>1. Shape(r) /\ Rest(r) /\ r.phase # "SHOWDOWN" BY DEF Ready
<1>2. CollectPlayerCards(r, s) = IF s \in r.players THEN p ELSE r BY DEF CollectPlayerCards
<1>3. r.cards \in [Seat -> 0..MaxHand] BY <1>1, ShapeFields
<1>4. cards \in [Seat -> 0..MaxHand] /\ \A t \in Seat \ {s} : cards[t] = r.cards[t]
  BY <1>3 DEF MaxHand
<1> HIDE DEF cards
<1>5. SameBut({"cards"}, r, p) /\ p.cards = cards
  BY <1>1, ShapeFields DEF SameBut, F4, Fields
<1> HIDE DEF p
<1>6. Typed("cards", p.cards)
  BY <1>4, <1>5 DEF Typed, Seats4, Sets4, Groups, Flags, Counts4
<1>7. Shape(p) BY <1>1, <1>5, <1>6, ShapeFrameNoBets
<1>8. /\ p.players = r.players /\ p.pasoBy = r.pasoBy /\ p.collect = r.collect
      /\ p.dealing = r.dealing /\ p.phase = r.phase /\ p.asked = r.asked
      /\ p.maxBet = r.maxBet /\ p.piquePot = r.piquePot /\ p.passed = r.passed
      /\ p.validationTimer = r.validationTimer
  BY <1>5 DEF SameBut, F4, Fields
<1>9. calm => Fair(p)
  <2> SUFFICES ASSUME calm PROVE Fair(p) OBVIOUS
  <2>1. Fair(r) /\ ~r.validationTimer BY DEF Ready, Rest
  <2>2. r.passed \subseteq Seat BY <1>1, ShapeSets
  <2>3. r.piquePot > 0 => s \notin r.passed BY <2>1 DEF Fair
  <2>4. \A t \in Seat \ {s} : Hand(p, t) = Hand(r, t) BY <1>4, <1>5 DEF Hand
  <2>5. r.piquePot > 0 => \A t \in r.passed : TieneJuego(Hand(p, t))
    BY <2>1, <2>2, <2>3, <2>4 DEF Fair
  <2> QED BY <1>1, <1>8, <2>1, <2>5 DEF Fair
<1>10. Rest(p) BY <1>1, <1>8 DEF Rest
<1>11. Ready(p, calm) BY <1>1, <1>7, <1>8, <1>9, <1>10 DEF Ready
<1> QED BY <1>2, <1>11

LEMMA PassEnds ==
    ASSUME NEW r, NEW calm, Ready(r, calm), r.phase = "APUESTA_4_CARTAS",
           NEW s \in Seat, r.turn = s
    PROVE  Ends(Pass(r, s), calm)
<1> DEFINE quiet == ClearTurnTimer(r)
           asks == [quiet EXCEPT !.pasoBy = s, !.pasoPhase = r.phase]
<1>1. Shape(r) /\ Rest(r) BY DEF Ready
<1>2. /\ Keeps(r, quiet) /\ SameBut({"turnTimer"}, r, quiet) /\ quiet.turnTimer = FALSE
      /\ Ready(quiet, calm)
  BY <1>1, ClearTurnTimerMoves, KeepsSound DEF Moves
<1>3. Pass(r, s) =
        IF r.maxBet = 0 \/ r.roundBet[s] >= r.maxBet
        THEN AdvanceTurnBetting([quiet EXCEPT !.acted = @ \cup {s}], NoSeat)
        ELSE IF TieneJuego(Hand(r, s)) THEN asks
        ELSE AdvanceTurnBetting(FoldAndPassMano(CollectPlayerCards(quiet, s), s), NoSeat)
  BY DEF Pass
<1> HIDE DEF quiet
<1>4. CASE r.maxBet = 0 \/ r.roundBet[s] >= r.maxBet
  BY <1>2, <1>3, <1>4, ActAndAdvanceEnds
<1>5. CASE ~(r.maxBet = 0 \/ r.roundBet[s] >= r.maxBet) /\ TieneJuego(Hand(r, s))
  <2>1. /\ SameBut({"pasoBy", "pasoPhase"}, quiet, asks) /\ asks.pasoBy = s
    BY <1>2, ShapeFields DEF SameBut, F4, Fields
  <2> HIDE DEF asks
  <2>2. Typed("pasoBy", asks.pasoBy) BY <2>1, TypedSeat DEF Seats4
  <2>3. Typed("pasoPhase", asks.pasoPhase) BY TypedOther DEF Untyped
  <2>4. Shape(asks) BY <1>2, <2>1, <2>2, <2>3, ShapeFrameNoBets DEF Keeps
  <2>5. /\ asks.players = r.players /\ asks.collect = r.collect /\ asks.turn = r.turn
        /\ asks.dealing = r.dealing /\ asks.phase = r.phase /\ asks.turnTimer = FALSE
        /\ asks.maxBet = r.maxBet /\ asks.piquePot = r.piquePot /\ asks.passed = r.passed
        /\ asks.validationTimer = r.validationTimer /\ asks.cards = r.cards
    BY <1>2, <2>1 DEF SameBut, F4, Fields
  <2>6. Asks(asks) BY <1>1, <2>1, <2>5 DEF Rest, Asks
  <2>7. Decided(asks) BY <2>5 DEF Decided
  <2>8. calm => Fair(asks)
    <3> SUFFICES ASSUME calm PROVE Fair(asks) OBVIOUS
    <3>1. Fair(r) /\ ~r.validationTimer BY DEF Ready, Rest
    <3>2. r.maxBet > 0 BY <1>1, <1>5, ShapeFields
    <3>3. \A t : Hand(asks, t) = Hand(r, t) BY <2>5 DEF Hand
    <3> QED BY <2>5, <3>1, <3>2, <3>3 DEF Fair
  <2>9. Ends(asks, calm) BY <2>4, <2>6, <2>7, <2>8 DEF Ends, Sound, Waits
  <2> QED BY <1>3, <1>5, <2>9
<1>6. CASE ~(r.maxBet = 0 \/ r.roundBet[s] >= r.maxBet) /\ ~TieneJuego(Hand(r, s))
  <2>1. ~TieneJuego(Hand(quiet, s)) BY <1>2, <1>6, KeepsFields
  <2>2. Ready(CollectPlayerCards(quiet, s), calm) BY <1>2, <2>1, CollectCardsReady
  <2>3. Ends(AdvanceTurnBetting(FoldAndPassMano(CollectPlayerCards(quiet, s), s), NoSeat), calm)
    BY <2>2, FoldAndAdvanceEnds
  <2> QED BY <1>3, <1>6, <2>3
<1> QED BY <1>4, <1>5, <1>6

LEMMA PasoAnswerEnds ==
    ASSUME NEW r, NEW calm, Shape(r), Asks(r), calm => Fair(r), NEW s \in Seat, r.pasoBy = s
    PROVE  LET asked == [ClearTurnTimer(r) EXCEPT !.pasoBy = NoSeat, !.pasoPhase = "LOBBY"]
               out == IF TieneJuego(Hand(r, s)) THEN [asked EXCEPT !.passed = @ \cup {s}]
                      ELSE CollectPlayerCards(asked, s)
           IN  Ends(AdvanceTurnBetting(FoldAndPassMano(out, s), NoSeat), calm)
<1> DEFINE quiet == ClearTurnTimer(r)
           asked == [quiet EXCEPT !.pasoBy = NoSeat, !.pasoPhase = "LOBBY"]
           rival == [asked EXCEPT !.passed = @ \cup {s}]
           out == IF TieneJuego(Hand(r, s)) THEN rival ELSE CollectPlayerCards(asked, s)
<1>1. Shape(quiet) /\ SameBut({"turnTimer"}, r, quiet) BY ClearTurnTimerMoves DEF Moves, Keeps
<1> HIDE DEF quiet
<1>2. /\ SameBut({"pasoBy", "pasoPhase"}, quiet, asked) /\ asked.pasoBy = NoSeat
  BY <1>1, ShapeFields DEF SameBut, F4, Fields
<1> HIDE DEF asked
<1>3. Shape(asked)
  <2>1. Typed("pasoBy", asked.pasoBy) BY <1>2, TypedSeat DEF Seats4
  <2>2. Typed("pasoPhase", asked.pasoPhase) BY TypedOther DEF Untyped
  <2> QED BY <1>1, <1>2, <2>1, <2>2, ShapeFrameNoBets
<1>4. /\ asked.players = r.players /\ asked.collect = r.collect
      /\ asked.dealing = r.dealing /\ asked.phase = r.phase
      /\ asked.maxBet = r.maxBet /\ asked.piquePot = r.piquePot /\ asked.passed = r.passed
      /\ asked.validationTimer = r.validationTimer /\ asked.cards = r.cards
  BY <1>1, <1>2 DEF SameBut, F4, Fields
<1>5. \A t : Hand(asked, t) = Hand(r, t) BY <1>4 DEF Hand
<1>6. r.phase \in {"APUESTA_4_CARTAS", "LOBBY"} BY DEF Asks
<1>7. NoSeat \notin r.players BY ShapeSets DEF Seat, NoSeat
<1>8. Rest(asked) BY <1>2, <1>4, <1>6, <1>7 DEF Rest, Asks
<1>9. Ready(asked, calm)
  <2>1. ~asked.validationTimer BY <1>8 DEF Rest
  <2>2. calm => Fair(asked) BY <1>2, <1>4, <1>5, <1>6, <2>1 DEF Fair
  <2> QED BY <1>3, <1>4, <1>6, <1>8, <2>2 DEF Ready
<1>10. Ready(out, calm)
  <2>1. CASE TieneJuego(Hand(r, s))
    <3>1. SameBut({"passed"}, asked, rival) /\ rival.passed = r.passed \cup {s}
      BY <1>3, <1>4, ShapeFields DEF SameBut, F4, Fields
    <3>2. out = rival BY <2>1
    <3> HIDE DEF rival
    <3>3. Typed("passed", rival.passed) BY <3>1, ShapeSets, TypedSet DEF Sets4, Groups
    <3>4. Shape(rival) BY <1>3, <3>1, <3>3, ShapeFrameNoBets
    <3>5. /\ rival.players = r.players /\ rival.collect = r.collect
          /\ rival.dealing = r.dealing /\ rival.phase = r.phase /\ rival.pasoBy = NoSeat
          /\ rival.maxBet = r.maxBet /\ rival.piquePot = r.piquePot
          /\ rival.validationTimer = asked.validationTimer /\ rival.cards = r.cards
          /\ rival.asked = asked.asked
      BY <1>2, <1>4, <3>1 DEF SameBut, F4, Fields
    <3>6. Rest(rival) BY <1>2, <1>4, <1>8, <3>5 DEF Rest
    <3>7. calm => Fair(rival)
      <4> SUFFICES ASSUME calm PROVE Fair(rival) OBVIOUS
      <4>1. Fair(r) /\ ~rival.validationTimer BY <3>6 DEF Rest
      <4>2. r.maxBet > 0
        <5>1. s # NoSeat BY DEF Seat, NoSeat
        <5> QED BY <4>1, <5>1 DEF Fair
      <4>3. \A t : Hand(rival, t) = Hand(r, t) BY <3>5 DEF Hand
      <4> QED BY <1>6, <2>1, <3>1, <3>5, <4>1, <4>2, <4>3 DEF Fair
    <3>8. Ready(rival, calm) BY <1>6, <3>4, <3>5, <3>6, <3>7 DEF Ready
    <3> QED BY <3>2, <3>8
  <2>2. CASE ~TieneJuego(Hand(r, s))
    <3>1. ~TieneJuego(Hand(asked, s)) BY <1>5, <2>2
    <3> QED BY <1>9, <2>2, <3>1, CollectCardsReady
  <2> QED BY <2>1, <2>2
<1> HIDE DEF out
<1>11. Ends(AdvanceTurnBetting(FoldAndPassMano(out, s), NoSeat), calm)
  BY <1>10, FoldAndAdvanceEnds
<1> QED BY <1>11 DEF out, rival, asked, quiet

-----------------------------------------------------------------------------
(* The discards and their replacement.                                     *)

LEMMA DropEnds ==
    ASSUME NEW r, NEW calm, Ready(r, calm), NEW s \in Seat, NEW k \in 0..4
    PROVE  Ends(Drop(r, s, k), calm)
<1> DEFINE quiet == ClearTurnTimer(r)
           missing == [r.missing EXCEPT ![s] = k]
           q == [quiet EXCEPT !.acted = @ \cup {s}, !.missing[s] = k]
<1>1. Shape(r) BY DEF Ready
<1>2. /\ Keeps(r, quiet) /\ SameBut({"turnTimer"}, r, quiet) /\ Ready(quiet, calm)
  BY <1>1, ClearTurnTimerMoves, KeepsSound DEF Moves
<1>3. Drop(r, s, k) = AdvanceTurnDescarte(q, NoSeat) BY DEF Drop
<1> HIDE DEF quiet
<1>4. Shape(quiet) /\ quiet.missing = r.missing BY <1>2 DEF Keeps, SameBut, F4, Fields
<1>5. missing \in [Seat -> 0..4] BY <1>1, ShapeFields
<1>6. SameBut({"acted", "missing"}, quiet, q) /\ q.missing = missing
      /\ q.acted = quiet.acted \cup {s}
  BY ZenonT(60), <1>4, ShapeFields DEF SameBut, F4, Fields
<1> HIDE DEF q, missing
<1>7. Typed("acted", q.acted) BY <1>4, <1>6, ShapeSets, TypedSet DEF Sets4, Groups
<1>8. Typed("missing", q.missing) BY <1>5, <1>6 DEF Typed, Seats4, Sets4, Groups, Flags, Counts4
<1>9. Keeps(quiet, q) BY <1>4, <1>6, <1>7, <1>8, KeepsFrame DEF Moves, Core
<1>10. Ready(q, calm) BY <1>2, <1>9, KeepsSound
<1> QED BY <1>3, <1>10, AdvanceTurnDescarteEnds

LEMMA ReplaceCardEnds ==
    ASSUME NEW r, NEW calm, Shape(r), Deals4(r), calm => Fair(r)
    PROVE  Ends(ReplaceCard(r), calm)
<1> DEFINE s == FirstFrom(r.dealFrom, r.dealing)
           missing == [r.missing EXCEPT ![s] = @ - 1]
           dealing == IF r.missing[s] = 1 THEN r.dealing \ {s} ELSE r.dealing
           dealt == [r EXCEPT !.missing[s] = @ - 1,
                              !.dealing = IF r.missing[s] = 1 THEN @ \ {s} ELSE @]
<1>1. ReplaceCard(r) = IF dealt.dealing = {} THEN EnterRevelarCarta(dealt) ELSE dealt
  BY DEF ReplaceCard
<1>2. r.dealing \in SUBSET Seat /\ r.dealing # {} /\ r.dealFrom \in Seat \cup {NoSeat}
  BY ShapeSets, ShapeFields DEF Deals4
<1>3. s \in r.dealing BY <1>2, FirstIsFound
<1> HIDE DEF s
<1>4. r.missing \in [Seat -> 0..4] /\ \A t \in r.dealing : r.missing[t] > 0
  BY ShapeFields DEF Deals4
<1>5. missing \in [Seat -> 0..4] BY <1>2, <1>3, <1>4
<1>6. dealing \subseteq Seat /\ \A t \in dealing : missing[t] > 0
  <2>1. \A t \in r.dealing \ {s} : missing[t] = r.missing[t] BY <1>2, <1>4
  <2>2. missing[s] = r.missing[s] - 1 BY <1>2, <1>3, <1>4
  <2>3. r.missing[s] \in 0..4 /\ r.missing[s] > 0 BY <1>2, <1>3, <1>4
  <2> HIDE DEF missing
  <2> QED BY <1>2, <1>3, <1>4, <2>1, <2>2, <2>3
<1>7. SameBut({"missing", "dealing"}, r, dealt) /\ dealt.missing = missing
      /\ dealt.dealing = dealing
  BY ZenonT(60), ShapeFields DEF SameBut, F4, Fields
<1> HIDE DEF dealt, missing, dealing
<1>8. Shape(dealt)
  <2>1. Typed("missing", dealt.missing)
    BY <1>5, <1>7 DEF Typed, Seats4, Sets4, Groups, Flags, Counts4
  <2>2. Typed("dealing", dealt.dealing) BY <1>6, <1>7, TypedSet DEF Sets4
  <2> QED BY <1>7, <2>1, <2>2, ShapeFrameNoBets
<1>9. /\ dealt.players = r.players /\ dealt.collect = r.collect /\ dealt.pasoBy = r.pasoBy
      /\ dealt.phase = r.phase /\ dealt.asked = r.asked /\ dealt.claims = r.claims
      /\ dealt.maxBet = r.maxBet /\ dealt.piquePot = r.piquePot /\ dealt.passed = r.passed
      /\ dealt.validationTimer = r.validationTimer /\ dealt.cards = r.cards
      /\ dealt.winners = r.winners /\ dealt.validators = r.validators
  BY <1>7 DEF SameBut, F4, Fields
<1>10. \A t : Hand(dealt, t) = Hand(r, t) BY <1>9 DEF Hand
<1>11. calm => Fair(dealt)
  <2> SUFFICES ASSUME calm PROVE Fair(dealt) OBVIOUS
  <2>1. Fair(r) /\ ~r.validationTimer BY DEF Deals4
  <2> QED BY <1>9, <1>10, <2>1 DEF Fair
<1>12. r.phase \in {"COMPLETAR_DESCARTE", "LOBBY"} BY DEF Deals4
<1>13. CASE dealt.dealing = {}
  <2>1. Rest(dealt) BY <1>9, <1>12, <1>13 DEF Deals4, Rest
  <2>2. Ready(dealt, calm) BY <1>8, <1>9, <1>11, <1>12, <2>1 DEF Ready
  <2>3. Ready(EnterRevelarCarta(dealt), calm) BY <2>2, EnterRevelarCartaReady
  <2> QED BY <1>1, <1>13, <2>3, ReadyIsRested
<1>14. CASE dealt.dealing # {}
  <2>1. Deals4(dealt) BY <1>6, <1>7, <1>9, <1>14 DEF Deals4
  <2>2. Decided(dealt) BY <1>9, <1>12 DEF Decided
  <2>3. Ends(dealt, calm) BY <1>8, <1>11, <2>1, <2>2 DEF Ends, Sound, Waits
  <2> QED BY <1>1, <1>14, <2>3
<1> QED BY <1>13, <1>14

-----------------------------------------------------------------------------
(* The operators of the main pot that these phases use are those of Table. *)

LEMMA SeatsOfMainPot ==
    /\ M!Seat = Seat /\ M!NoSeat = NoSeat /\ M!MaxHand = MaxHand
    /\ NoBet = [seat |-> NoSeat, kind |-> "none", amount |-> 0, full |-> FALSE, phase |-> "LOBBY"]
BY Zenon DEF M!Seat, Seat, M!NoSeat, NoSeat, M!MaxHand, MaxHand, NoBet, M!NoBet

LEMMA TablesOfMainPot ==
    ASSUME NEW r, NEW s
    PROVE  /\ M!SeatOrder(r) = SeatOrder(r) /\ M!Active(r) = Active(r)
           /\ M!ClearTurnTimer(r) = ClearTurnTimer(r)
           /\ M!MarkDisconnectedAsImplicitAllIn(r) = MarkDisconnectedAsImplicitAllIn(r)
           /\ M!TransferMano(r) = TransferMano(r) /\ M!Offline(r, s) = Offline(r, s)
           /\ M!HandOverDeal(r, s) = HandOverDeal(r, s) /\ M!RemovePlayer(r, s) = RemovePlayer(r, s)
<1>1. /\ M!SeatOrder(r) = SeatOrder(r) /\ M!Active(r) = Active(r)
      /\ M!ClearTurnTimer(r) = ClearTurnTimer(r)
      /\ M!MarkDisconnectedAsImplicitAllIn(r) = MarkDisconnectedAsImplicitAllIn(r)
  BY Zenon DEF M!SeatOrder, SeatOrder, M!Active, Active, M!ClearTurnTimer, ClearTurnTimer,
               M!MarkDisconnectedAsImplicitAllIn, MarkDisconnectedAsImplicitAllIn
<1>2. \A x, C : M!FirstAfter(x, C) = FirstAfter(x, C)
  BY Zenon DEF M!FirstAfter, FirstAfter, M!StepsAfter, StepsAfter, M!StepsFrom, StepsFrom
<1>3. M!TransferMano(r) = TransferMano(r)
  BY <1>1, <1>2, Zenon DEF M!TransferMano, TransferMano
<1>4. \A q : M!ResetRoomState(q) = ResetRoomState(q)
  BY SeatsOfMainPot, ZenonT(60) DEF M!ResetRoomState, ResetRoomState, M!Ref, Ref
<1>5. M!Offline(r, s) = Offline(r, s)
  BY <1>4, Zenon DEF M!Offline, Offline
<1>6. M!HandOverDeal(r, s) = HandOverDeal(r, s)
  BY Zenon DEF M!HandOverDeal, HandOverDeal, M!Min, Min, M!SeatOrder, SeatOrder,
               M!FirstAfter, FirstAfter, M!StepsAfter, StepsAfter, M!StepsFrom, StepsFrom
<1>7. M!RemovePlayer(r, s) = RemovePlayer(r, s)
  BY Zenon
  DEF M!RemovePlayer, RemovePlayer, M!Min, Min, M!SeatOrder, SeatOrder, M!NoSeat, NoSeat,
      M!ClearTurnTimer, ClearTurnTimer, M!ResetRoomState, ResetRoomState, M!Ref, Ref,
      M!Seat, Seat
<1> QED BY <1>1, <1>3, <1>5, <1>6, <1>7

(* A bet that is taken leaves a room that waits for nothing.               *)
LEMMA TakeBetReady ==
    ASSUME NEW r, NEW calm, Ready(r, calm), NEW b, b.seat \in Seat, b.amount \in Nat \ {0},
           b.kind \in {"voy", "igualar", "resto"}
    PROVE  Ready(M!TakeBet(r, b), calm)
<1> DEFINE s == b.seat
           n == b.amount
           chips == [r.chips EXCEPT ![s] = @ - n]
           balance == [r.balance EXCEPT ![s] = @ - n]
           roundBet == [r.roundBet EXCEPT ![s] = @ + n]
           mainBet == [r.mainBet EXCEPT ![s] = @ + n]
           taken == [r EXCEPT !.chips[s] = @ - n, !.balance[s] = @ - n,
                              !.roundBet[s] = @ + n, !.mainBet[s] = @ + n,
                              !.pot = @ + n, !.acted = @ \cup {s}]
           voy == [taken EXCEPT !.maxBet = taken.roundBet[s]]
           igualar == [taken EXCEPT !.allIn = IF b.full THEN @ ELSE @ \cup {s}]
           resto == [taken EXCEPT !.allIn = @ \cup {s}, !.maxBet = Max({@, taken.roundBet[s]})]
           q == M!TakeBet(r, b)
           A == {"chips", "balance", "roundBet", "mainBet", "pot", "acted"}
           F == A \cup {"maxBet", "allIn"}
<1>1. Shape(r) /\ Rest(r) /\ r.phase # "SHOWDOWN" BY DEF Ready
<1>2. q = CASE b.kind = "voy" -> MarkDisconnectedAsImplicitAllIn(voy)
            [] b.kind = "igualar" -> igualar
            [] b.kind = "resto" -> MarkDisconnectedAsImplicitAllIn(resto)
  BY Zenon DEF M!TakeBet, M!MarkDisconnectedAsImplicitAllIn, MarkDisconnectedAsImplicitAllIn,
               M!Max, Max
<1>3. /\ r.roundBet \in [Seat -> Nat] /\ r.mainBet \in [Seat -> Nat] /\ r.pot \in Nat
      /\ r.chips \in [Seat -> Int] /\ r.balance \in [Seat -> Int] /\ r.maxBet \in Nat
      /\ DOMAIN r = F4 /\ \A t \in Seat : r.roundBet[t] <= r.mainBet[t]
  BY <1>1, ShapeFields DEF Shape
<1>4. taken = [r EXCEPT !.chips = chips, !.balance = balance, !.roundBet = roundBet,
                        !.mainBet = mainBet, !.pot = r.pot + n, !.acted = r.acted \cup {s}]
  OBVIOUS
<1>5. /\ chips \in [Seat -> Int] /\ balance \in [Seat -> Int] /\ roundBet \in [Seat -> Nat]
      /\ mainBet \in [Seat -> Nat] /\ r.pot + n \in Nat
      /\ roundBet[s] > 0 /\ \A t \in Seat : roundBet[t] <= mainBet[t]
  <2>1. /\ r.roundBet[s] + n \in Nat /\ r.mainBet[s] + n \in Nat /\ r.chips[s] - n \in Int
        /\ r.balance[s] - n \in Int /\ r.roundBet[s] + n <= r.mainBet[s] + n
        /\ r.roundBet[s] + n > 0 /\ r.pot + n \in Nat
    BY <1>3
  <2>2. roundBet[s] = r.roundBet[s] + n /\ mainBet[s] = r.mainBet[s] + n BY <1>3
  <2>3. \A t \in Seat \ {s} : roundBet[t] = r.roundBet[t] /\ mainBet[t] = r.mainBet[t] BY <1>3
  <2>4. /\ chips \in [Seat -> Int] /\ balance \in [Seat -> Int]
        /\ roundBet \in [Seat -> Nat] /\ mainBet \in [Seat -> Nat]
    BY <1>3, <2>1
  <2> HIDE DEF roundBet, mainBet, chips, balance
  <2> QED BY <1>3, <2>1, <2>2, <2>3, <2>4
<1> HIDE DEF chips, balance, roundBet, mainBet, q
<1>6. /\ SameBut(A, r, taken)
      /\ taken.chips = chips /\ taken.balance = balance /\ taken.roundBet = roundBet
      /\ taken.mainBet = mainBet /\ taken.pot = r.pot + n /\ taken.acted = r.acted \cup {s}
  BY ZenonT(60), <1>3, <1>4 DEF SameBut, F4, Fields
<1> HIDE DEF taken
<1>7. Shape(taken)
  <2>1. Typed("balance", taken.balance) /\ Typed("chips", taken.chips)
    BY <1>5, <1>6, TypedMoney
  <2>2. Typed("roundBet", taken.roundBet) /\ Typed("mainBet", taken.mainBet)
    BY <1>5, <1>6, TypedBets
  <2>3. Typed("pot", taken.pot) BY <1>5, <1>6, TypedCount DEF Counts4
  <2>4. Typed("acted", taken.acted) BY <1>1, <1>6, ShapeSets, TypedSet DEF Sets4, Groups
  <2>5. \A f \in A : Typed(f, taken[f]) BY <2>1, <2>2, <2>3, <2>4
  <2>6. \A t \in Seat : taken.roundBet[t] <= taken.mainBet[t] BY <1>5, <1>6
  <2> QED BY <1>1, <1>6, <2>5, <2>6, ShapeFrame
<1>8. taken.allIn \subseteq Seat /\ taken.maxBet = r.maxBet /\ DOMAIN taken = F4
      /\ taken.roundBet[s] \in Nat /\ taken.roundBet[s] > 0
  BY <1>5, <1>6, <1>7, ShapeSets, ShapeFields DEF SameBut, F4, Fields
<1>9. ASSUME NEW p, SameBut({"maxBet", "allIn"}, taken, p), p.maxBet \in Nat,
             p.allIn \subseteq Seat
      PROVE  Shape(p)
  <2>1. Typed("maxBet", p.maxBet) BY <1>9, TypedCount DEF Counts4
  <2>2. Typed("allIn", p.allIn) BY <1>9, TypedSet DEF Sets4, Groups
  <2> QED BY <1>7, <1>9, <2>1, <2>2, ShapeFrameNoBets
<1>10. ASSUME NEW p, Shape(p), SameBut({"maxBet", "allIn"}, taken, p),
              p.maxBet = 0 => r.maxBet = 0
       PROVE  Ready(p, calm)
  <2>1. SameBut(F, r, p) BY <1>6, <1>10 DEF SameBut
  <2>2. /\ p.players = r.players /\ p.pasoBy = r.pasoBy /\ p.collect = r.collect
        /\ p.dealing = r.dealing /\ p.phase = r.phase /\ p.asked = r.asked
        /\ p.piquePot = r.piquePot /\ p.passed = r.passed
        /\ p.validationTimer = r.validationTimer /\ p.cards = r.cards
    BY <2>1 DEF SameBut, F4, Fields
  <2>3. Rest(p) BY <1>1, <2>2 DEF Rest
  <2>4. calm => Fair(p)
    <3> SUFFICES ASSUME calm PROVE Fair(p) OBVIOUS
    <3>1. Fair(r) /\ ~p.validationTimer BY <2>3 DEF Ready, Rest
    <3>2. \A t : Hand(p, t) = Hand(r, t) BY <2>2 DEF Hand
    <3>3. p.pasoBy = NoSeat
      <4>1. r.players = Seat BY <3>1 DEF Fair
      <4>2. r.pasoBy \in Seat \cup {NoSeat} BY <1>1, ShapeFields
      <4> QED BY <1>1, <2>2, <4>1, <4>2 DEF Rest
    <3> QED BY <1>1, <1>10, <2>2, <3>1, <3>2, <3>3 DEF Fair
  <2> QED BY <1>1, <1>10, <2>2, <2>3, <2>4 DEF Ready
<1>11. CASE b.kind = "voy"
  <2>1. SameBut({"maxBet", "allIn"}, taken, voy) /\ voy.maxBet = taken.roundBet[s]
        /\ voy.allIn = taken.allIn
    BY <1>8 DEF SameBut, F4, Fields
  <2>2. q = MarkDisconnectedAsImplicitAllIn(voy) BY <1>2, <1>11
  <2> HIDE DEF voy
  <2>3. Shape(voy) BY <1>8, <1>9, <2>1
  <2>4. Ready(voy, calm) BY <1>8, <1>10, <2>1, <2>3
  <2>5. Keeps(voy, q) BY <2>2, <2>3, MarkDisconnectedMoves DEF Moves
  <2> QED BY <2>4, <2>5, KeepsSound DEF q
<1>12. CASE b.kind = "igualar"
  <2>1. SameBut({"maxBet", "allIn"}, taken, igualar) /\ igualar.maxBet = r.maxBet
        /\ igualar.allIn \subseteq Seat
    BY <1>8 DEF SameBut, F4, Fields
  <2>2. q = igualar BY <1>2, <1>12
  <2> HIDE DEF igualar
  <2>3. Shape(igualar) BY <1>3, <1>9, <2>1
  <2> QED BY <1>10, <2>1, <2>2, <2>3 DEF q
<1>13. CASE b.kind = "resto"
  <2>1. SameBut({"maxBet", "allIn"}, taken, resto)
        /\ resto.maxBet = Max({r.maxBet, taken.roundBet[s]}) /\ resto.allIn \subseteq Seat
    BY <1>8 DEF SameBut, F4, Fields
  <2>2. q = MarkDisconnectedAsImplicitAllIn(resto) BY <1>2, <1>13
  <2> HIDE DEF resto
  <2>3. resto.maxBet \in Nat /\ resto.maxBet > 0
    <3>1. resto.maxBet = IF r.maxBet >= taken.roundBet[s] THEN r.maxBet ELSE taken.roundBet[s]
      BY <1>3, <1>8, <2>1, MaxOfTwo
    <3> QED BY <1>3, <1>8, <3>1
  <2>4. Shape(resto) BY <1>9, <2>1, <2>3
  <2>5. Ready(resto, calm) BY <1>10, <2>1, <2>3, <2>4
  <2>6. Keeps(resto, q) BY <2>2, <2>4, MarkDisconnectedMoves DEF Moves
  <2> QED BY <2>5, <2>6, KeepsSound DEF q
<1> QED BY <1>11, <1>12, <1>13

-----------------------------------------------------------------------------
(* Every action preserves the invariant.                                   *)

LEMMA InvOf ==
    ASSUME Inv, Sound(room', bet', fates = 0), UNCHANGED <<links, fates>> PROVE Inv'
BY DEF Inv, NoLinks

LEMMA InvOfEnds ==
    ASSUME Inv, Ends(room', fates = 0), bet' = NoBet, UNCHANGED <<links, fates>> PROVE Inv'
BY InvOf DEF Ends

LEMMA InvFacts ==
    ASSUME Inv
    PROVE  /\ Shape(room) /\ Waits(room, bet) /\ Decided(room) /\ (fates = 0 => Fair(room))
           /\ Sound(room, bet, fates = 0)
BY DEF Inv, Sound

LEMMA ActsAtRest ==
    ASSUME Inv, Hasty = FALSE, NEW s \in Seat, MayAct(s)
    PROVE  Ready(room, fates = 0) /\ room.phase = "APUESTA_4_CARTAS" /\ room.turn = s
           /\ bet = NoBet
<1>1. Shape(room) /\ Waits(room, bet) /\ (fates = 0 => Fair(room)) BY InvFacts
<1>2. /\ bet = NoBet /\ room.turn = s /\ room.phase = "APUESTA_4_CARTAS"
      /\ room.pasoBy # s /\ room.collect = NoCall
  BY DEF MayAct
<1>3. Rest(room) BY <1>1, <1>2 DEF Waits, Asks, Validates, Collects, Deals4
<1> QED BY <1>1, <1>2, <1>3 DEF Ready

(* A phase in which the room waits for nothing but a move.                 *)
LEMMA RestsInPhase ==
    ASSUME Inv, room.phase \in {"PIQUE_REVEAL", "SHOWDOWN", "DESCARTE"}
    PROVE  /\ bet = NoBet /\ Rested(room, fates = 0)
           /\ (room.phase # "SHOWDOWN" => Ready(room, fates = 0))
<1>1. Shape(room) /\ Waits(room, bet) /\ Decided(room) /\ (fates = 0 => Fair(room))
  BY InvFacts
<1>2. bet = NoBet /\ Rest(room)
  BY <1>1 DEF Waits, Bets, Asks, Validates, Collects, Deals4
<1> QED BY <1>1, <1>2 DEF Ready, Rested, Ends, Sound, Waits

LEMMA BetsReady ==
    ASSUME Inv, bet # NoBet
    PROVE  /\ Ready(room, fates = 0) /\ bet.seat \in Seat /\ bet.amount \in Int
           /\ bet.kind \in {"voy", "igualar", "resto"} /\ Sound(room, NoBet, fates = 0)
<1>1. Shape(room) /\ Bets(room, bet) /\ Decided(room) /\ (fates = 0 => Fair(room))
  BY InvFacts DEF Waits
<1> QED BY <1>1 DEF Bets, Ready, Sound, Waits

LEMMA PasoStep ==
    ASSUME Inv, Hasty = FALSE, NEW s \in Seat, Paso(s) PROVE Inv'
<1>1. MayAct(s) /\ room' = Pass(room, s) /\ UNCHANGED <<bet, links, fates>> BY DEF Paso
<1>2. /\ Ready(room, fates = 0) /\ room.phase = "APUESTA_4_CARTAS" /\ room.turn = s
      /\ bet = NoBet
  BY <1>1, ActsAtRest
<1>3. Ends(Pass(room, s), fates = 0) BY <1>2, PassEnds
<1> QED BY <1>1, <1>2, <1>3, InvOfEnds

LEMMA SubmitStep ==
    ASSUME Inv, Ready(room, fates = 0), room.phase = "APUESTA_4_CARTAS", bet = NoBet,
           NEW s \in Seat, NEW kind \in {"voy", "igualar", "resto"}, NEW full,
           NEW amount \in Int, amount <= room.chips[s], Submit(s, kind, amount, full)
    PROVE  Inv'
<1> DEFINE quiet == ClearTurnTimer(room)
           b == [seat |-> s, kind |-> kind, amount |-> amount, full |-> full,
                 phase |-> room.phase]
<1>1. Ready(quiet, fates = 0) BY ClearTurnTimerReady
<1>2. \/ room' = AdvanceTurnBetting(FoldAndPassMano(quiet, s), NoSeat)
         /\ UNCHANGED <<bet, links, fates>>
      \/ room' = quiet /\ bet' = b /\ UNCHANGED <<links, fates>>
  BY DEF Submit
<1>3. Shape(room) BY DEF Ready
<1>4. quiet.phase = "APUESTA_4_CARTAS" /\ quiet.chips = room.chips
  BY ZenonT(60), <1>3, ClearTurnTimerMoves, KeepsFields DEF Moves
<1> HIDE DEF quiet
<1>5. CASE room' = AdvanceTurnBetting(FoldAndPassMano(quiet, s), NoSeat)
           /\ UNCHANGED <<bet, links, fates>>
  <2>1. Ends(AdvanceTurnBetting(FoldAndPassMano(quiet, s), NoSeat), fates = 0)
    BY <1>1, FoldAndAdvanceEnds
  <2> QED BY <1>5, <2>1, InvOfEnds
<1>6. CASE room' = quiet /\ bet' = b /\ UNCHANGED <<links, fates>>
  <2>1. b.kind # "none" OBVIOUS
  <2>2. NoBet.kind = "none" BY SeatsOfMainPot
  <2>3. b # NoBet BY <2>1, <2>2
  <2>4. b.seat = s /\ b.amount = amount /\ b.kind = kind OBVIOUS
  <2> HIDE DEF b
  <2>5. Bets(quiet, b) BY <1>1, <1>4, <2>4 DEF Bets, Ready
  <2>6. Decided(quiet) BY <1>4 DEF Decided
  <2>7. Sound(quiet, b, fates = 0) BY <1>1, <2>3, <2>5, <2>6 DEF Ready, Sound, Waits
  <2> QED BY <1>6, <2>7, InvOf
<1> QED BY <1>2, <1>5, <1>6

LEMMA VoyStep ==
    ASSUME Inv, Hasty = FALSE, NEW s \in Seat, NEW raise \in Raises, Voy(s, raise) PROVE Inv'
<1>1. MayAct(s) /\ Submit(s, "voy", Min({raise, room.chips[s]}), TRUE) BY DEF Voy
<1>2. /\ Ready(room, fates = 0) /\ room.phase = "APUESTA_4_CARTAS" /\ room.turn = s
      /\ bet = NoBet
  BY <1>1, ActsAtRest
<1>3. room.chips[s] \in Int BY <1>2, ShapeFields DEF Ready
<1>4. raise \in Int BY FourCardsAssumption
<1> DEFINE amount == Min({raise, room.chips[s]})
<1>5. amount = IF raise <= room.chips[s] THEN raise ELSE room.chips[s] BY <1>3, <1>4, MinOfTwo
<1>6. Submit(s, "voy", amount, TRUE) BY <1>1
<1> HIDE DEF amount
<1>7. amount \in Int /\ amount <= room.chips[s] BY <1>3, <1>4, <1>5
<1> QED BY <1>2, <1>6, <1>7, SubmitStep

LEMMA VoyTooLowStep ==
    ASSUME Inv, Hasty = FALSE, NEW s \in Seat, NEW raise \in Raises, VoyTooLow(s, raise)
    PROVE  Inv'
<1>1. MayAct(s) /\ room' = ClearTurnTimer(room) /\ UNCHANGED <<bet, links, fates>>
  BY DEF VoyTooLow
<1>2. Ready(room, fates = 0) /\ bet = NoBet BY <1>1, ActsAtRest
<1>3. Ready(ClearTurnTimer(room), fates = 0) BY <1>2, ClearTurnTimerReady
<1> QED BY <1>1, <1>2, <1>3, ReadyIsRested, InvOfEnds

LEMMA IgualarStep ==
    ASSUME Inv, Hasty = FALSE, NEW s \in Seat, Igualar(s) PROVE Inv'
<1> DEFINE call == room.maxBet - room.roundBet[s]
           amount == Min({call, room.chips[s]})
           quiet == ClearTurnTimer(room)
<1>1. /\ MayAct(s)
      /\ IF call <= 0
         THEN /\ room' = AdvanceTurnBetting([quiet EXCEPT !.acted = @ \cup {s}], NoSeat)
              /\ UNCHANGED <<bet, links, fates>>
         ELSE Submit(s, "igualar", amount, room.chips[s] >= call)
  BY Zenon DEF Igualar
<1>2. /\ Ready(room, fates = 0) /\ room.phase = "APUESTA_4_CARTAS" /\ room.turn = s
      /\ bet = NoBet
  BY <1>1, ActsAtRest
<1>3. room.chips[s] \in Int /\ call \in Int BY <1>2, ShapeFields DEF Ready
<1> HIDE DEF call
<1>4. amount = IF call <= room.chips[s] THEN call ELSE room.chips[s] BY <1>3, MinOfTwo
<1> HIDE DEF amount
<1>5. CASE call <= 0
  <2>1. Ready(quiet, fates = 0) BY <1>2, ClearTurnTimerReady
  <2> HIDE DEF quiet
  <2>2. Ends(AdvanceTurnBetting([quiet EXCEPT !.acted = @ \cup {s}], NoSeat), fates = 0)
    BY <2>1, ActAndAdvanceEnds
  <2>3. /\ room' = AdvanceTurnBetting([quiet EXCEPT !.acted = @ \cup {s}], NoSeat)
        /\ UNCHANGED <<bet, links, fates>>
    BY <1>1, <1>5
  <2> QED BY <1>2, <2>2, <2>3, InvOfEnds
<1>6. CASE ~(call <= 0)
  <2>1. Submit(s, "igualar", amount, room.chips[s] >= call) BY <1>1, <1>6
  <2>2. amount \in Int /\ amount <= room.chips[s] BY <1>3, <1>4
  <2> QED BY <1>2, <2>1, <2>2, SubmitStep
<1> QED BY <1>5, <1>6

LEMMA RestoStep ==
    ASSUME Inv, Hasty = FALSE, NEW s \in Seat, Resto(s) PROVE Inv'
<1>1. MayAct(s) /\ Submit(s, "resto", room.chips[s], TRUE) BY DEF Resto
<1>2. /\ Ready(room, fates = 0) /\ room.phase = "APUESTA_4_CARTAS" /\ room.turn = s
      /\ bet = NoBet
  BY <1>1, ActsAtRest
<1> DEFINE amount == room.chips[s]
<1>3. amount \in Int BY <1>2, ShapeFields DEF Ready
<1>4. amount <= room.chips[s] BY <1>3
<1>5. Submit(s, "resto", amount, TRUE) BY <1>1
<1> HIDE DEF amount
<1> QED BY <1>2, <1>3, <1>4, <1>5, SubmitStep

LEMMA BetStep ==
    ASSUME Inv, BetAccepted \/ BetUnfunded \/ BetFailed PROVE Inv'
<1>1. CASE BetAccepted
  <2>1. /\ bet # NoBet /\ 0 < bet.amount /\ bet' = NoBet /\ UNCHANGED <<links, fates>>
        /\ room' = AdvanceTurnBetting(M!TakeBet(room, bet), NoSeat)
    BY <1>1 DEF BetAccepted
  <2>2. /\ Ready(room, fates = 0) /\ bet.seat \in Seat /\ bet.amount \in Int
        /\ bet.kind \in {"voy", "igualar", "resto"}
    BY <2>1, BetsReady
  <2>3. bet.amount \in Nat \ {0} BY <2>1, <2>2
  <2>4. Ready(M!TakeBet(room, bet), fates = 0) BY <2>2, <2>3, TakeBetReady
  <2>5. Ends(AdvanceTurnBetting(M!TakeBet(room, bet), NoSeat), fates = 0)
    BY <2>4, AdvanceTurnBettingEnds
  <2> QED BY <2>1, <2>5, InvOfEnds
<1>2. CASE BetUnfunded
  <2>1. /\ bet # NoBet /\ bet' = NoBet /\ UNCHANGED <<links, fates>>
        /\ room' = AdvanceTurnBetting(FoldAndPassMano(room, bet.seat), NoSeat)
    BY <1>2 DEF BetUnfunded
  <2>2. Ready(room, fates = 0) /\ bet.seat \in Seat BY <2>1, BetsReady
  <2>3. Ends(AdvanceTurnBetting(FoldAndPassMano(room, bet.seat), NoSeat), fates = 0)
    BY <2>2, FoldAndAdvanceEnds
  <2> QED BY <2>1, <2>3, InvOfEnds
<1>3. CASE BetFailed
  <2>1. bet # NoBet /\ bet' = NoBet /\ UNCHANGED <<room, links, fates>>
    BY <1>3 DEF BetFailed, M!BetFailed, NoBet
  <2>2. Sound(room, NoBet, fates = 0) BY <2>1, BetsReady
  <2> QED BY <2>1, <2>2, InvOf
<1> QED BY <1>1, <1>2, <1>3

LEMMA PasoJuegoStep ==
    ASSUME Inv, NEW s \in Seat, PasoJuegoResponse(s) PROVE Inv'
<1> DEFINE asked == [ClearTurnTimer(room) EXCEPT !.pasoBy = NoSeat, !.pasoPhase = "LOBBY"]
           out == IF TieneJuego(Hand(room, s)) THEN [asked EXCEPT !.passed = @ \cup {s}]
                  ELSE CollectPlayerCards(asked, s)
           q == AdvanceTurnBetting(FoldAndPassMano(out, s), NoSeat)
<1>1. MayAnswerPaso(s) /\ room' = q /\ UNCHANGED <<bet, links, fates>>
  BY Zenon DEF PasoJuegoResponse
<1>2. Shape(room) /\ Waits(room, bet) /\ (fates = 0 => Fair(room)) BY InvFacts
<1>3. room.pasoBy = s /\ room.pasoBy \in room.players BY <1>1 DEF MayAnswerPaso
<1>4. bet = NoBet /\ Asks(room)
  BY <1>2, <1>3 DEF Waits, Rest, Bets, Validates, Collects, Deals4
<1>5. Ends(q, fates = 0) BY <1>2, <1>3, <1>4, PasoAnswerEnds
<1> HIDE DEF q
<1> QED BY <1>1, <1>4, <1>5, InvOfEnds

LEMMA AnswerStep ==
    ASSUME Inv, NEW s \in Seat, NEW say \in {"pass", "call", "claim-juego"},
           NEW amount \in Calls \cup {0}, Answer(s, say, amount)
    PROVE  Inv'
<1> DEFINE claims == IF say = "claim-juego" THEN Append(room.claims, s) ELSE room.claims
           callers == IF say = "call" THEN Append(room.callers, [seat |-> s, amount |-> amount])
                      ELSE room.callers
           heard == [room EXCEPT
             !.asked = @ \ {s},
             !.claims = IF say = "claim-juego" THEN Append(@, s) ELSE @,
             !.callers = IF say = "call" THEN Append(@, [seat |-> s, amount |-> amount]) ELSE @]
<1>1. /\ MayAnswer(s) /\ (say = "claim-juego" => s \in room.validators)
      /\ amount = 0 <=> say # "call"
      /\ UNCHANGED <<bet, links, fates>>
      /\ room' = IF heard.asked = {} THEN ResolveJuegoValidation(heard) ELSE heard
  BY DEF Answer
<1>2. Shape(room) /\ Waits(room, bet) /\ (fates = 0 => Fair(room)) BY InvFacts
<1>3. room.phase = "JUEGO_VALIDACION" /\ s \in room.asked BY <1>1 DEF MayAnswer
<1>4. bet = NoBet /\ Validates(room)
  BY <1>2, <1>3 DEF Waits, Rest, Bets, Asks, Collects, Deals4
<1>5. room.claims \in Seq(Seat) /\ room.callers \in Seq(Call) BY <1>2, ShapeFields
<1>6. claims \in Seq(Seat) BY <1>5
<1>7. callers \in Seq(Call)
  <2>1. CASE say = "call"
    <3>1. amount \in Nat \ {0} BY <1>1, <2>1, FourCardsAssumption
    <3>2. [seat |-> s, amount |-> amount] \in Call BY <3>1 DEF Call
    <3> QED BY <1>5, <2>1, <3>2
  <2>2. CASE say # "call" BY <1>5, <2>2
  <2> QED BY <2>1, <2>2
<1>8. /\ SameBut({"asked", "claims", "callers"}, room, heard)
      /\ heard.asked = room.asked \ {s} /\ heard.claims = claims /\ heard.callers = callers
  BY ZenonT(60), <1>2, ShapeFields DEF SameBut, F4, Fields
<1> HIDE DEF heard, callers
<1>9. Shape(heard)
  <2>1. Typed("asked", heard.asked) BY <1>2, <1>8, ShapeSets, TypedSet DEF Sets4
  <2>2. Typed("claims", heard.claims) /\ Typed("callers", heard.callers)
    BY <1>6, <1>7, <1>8 DEF Typed, Seats4, Sets4, Groups, Flags, Counts4
  <2> QED BY <1>2, <1>8, <2>1, <2>2, ShapeFrameNoBets
<1>10. /\ heard.players = room.players /\ heard.pasoBy = room.pasoBy
       /\ heard.collect = room.collect /\ heard.dealing = room.dealing
       /\ heard.phase = room.phase /\ heard.turnTimer = room.turnTimer
       /\ heard.maxBet = room.maxBet /\ heard.piquePot = room.piquePot
       /\ heard.passed = room.passed /\ heard.cards = room.cards
       /\ heard.validationTimer = room.validationTimer /\ heard.validators = room.validators
  BY <1>8 DEF SameBut, F4, Fields
<1>11. Validates(heard) BY <1>4, <1>10 DEF Validates
<1>12. fates = 0 => Fair(heard)
  <2> SUFFICES ASSUME fates = 0 PROVE Fair(heard) OBVIOUS
  <2>1. Fair(room) /\ room.validationTimer BY <1>2, <1>4 DEF Validates
  <2>2. \A t : Hand(heard, t) = Hand(room, t) BY <1>10 DEF Hand
  <2>3. \A i \in DOMAIN claims : TieneJuego(Hand(room, claims[i]))
    <3> SUFFICES ASSUME NEW i \in DOMAIN claims PROVE TieneJuego(Hand(room, claims[i])) OBVIOUS
    <3>1. \A j \in DOMAIN room.claims : TieneJuego(Hand(room, room.claims[j])) BY <2>1 DEF Fair
    <3>2. CASE say # "claim-juego" BY <3>1, <3>2
    <3>3. CASE say = "claim-juego"
      <4>1. claims = Append(room.claims, s) BY <3>3
      <4>2. claims[i] = s \/ (i \in DOMAIN room.claims /\ claims[i] = room.claims[i])
        BY <1>5, <4>1
      <4>3. TieneJuego(Hand(room, s)) BY <1>1, <2>1, <3>3 DEF Fair
      <4> QED BY <3>1, <4>2, <4>3
    <3> QED BY <3>2, <3>3
  <2> HIDE DEF claims
  <2> QED BY <1>3, <1>8, <1>10, <2>1, <2>2, <2>3 DEF Fair
<1> HIDE DEF claims
<1>13. CASE heard.asked = {}
  <2>1. Ends(ResolveJuegoValidation(heard), fates = 0)
    BY <1>9, <1>11, <1>12, <1>13, ResolveJuegoValidationEnds
  <2> QED BY <1>1, <1>4, <1>13, <2>1, InvOfEnds
<1>14. CASE heard.asked # {}
  <2>1. Decided(heard) BY <1>3, <1>10 DEF Decided
  <2>2. Ends(heard, fates = 0) BY <1>9, <1>11, <1>12, <2>1 DEF Ends, Sound, Waits
  <2> QED BY <1>1, <1>4, <1>14, <2>2, InvOfEnds
<1> QED BY <1>13, <1>14

(* The calls of a validation, while the room collects them.                *)
LEMMA CollectingNow ==
    ASSUME Inv, room.collect # NoCall
    PROVE  /\ bet = NoBet /\ Collecting(room, fates = 0) /\ room.collect.left # <<>>
           /\ PaidFrom(room, room.collect)
           /\ Head(room.collect.left).seat \in Seat
           /\ room.collect.amount \in Nat \ {0}
           /\ room.collect.amount <= room.chips[Head(room.collect.left).seat]
<1>1. Shape(room) /\ Waits(room, bet) /\ (fates = 0 => Fair(room)) BY InvFacts
<1>2. bet = NoBet /\ Collects(room)
  BY <1>1 DEF Waits, Rest, Bets, Asks, Validates, Deals4
<1>3. room.collect \in Collection /\ room.chips \in [Seat -> Int] BY <1>1, ShapeFields
<1>4. /\ room.collect.left # <<>>
      /\ room.collect.amount \in 1..room.chips[Head(room.collect.left).seat]
  BY <1>2 DEF Collects
<1>5. Head(room.collect.left) \in Call BY <1>3, <1>4 DEF Collection
<1>6. Head(room.collect.left).seat \in Seat BY <1>5 DEF Call
<1>7. room.chips[Head(room.collect.left).seat] \in Int BY <1>3, <1>6
<1>8. room.collect.amount \in Nat \ {0}
      /\ room.collect.amount <= room.chips[Head(room.collect.left).seat]
  BY <1>4, <1>7
<1>9. Collecting(room, fates = 0) BY <1>1, <1>2 DEF Collects, Collecting
<1>10. PaidFrom(room, room.collect) BY <1>2 DEF Collects, PaidFrom
<1> QED BY <1>2, <1>4, <1>6, <1>8, <1>9, <1>10

LEMMA CallStep ==
    ASSUME Inv, CallTaken \/ CallRefused PROVE Inv'
<1> DEFINE s == Head(room.collect.left).seat
           amount == room.collect.amount
           q == TakeCall(room, s, amount)
<1>1. room.collect # NoCall /\ UNCHANGED <<bet, links, fates>>
      /\ (room' = CollectNext(q) \/ room' = CollectNext(room))
  BY DEF CallTaken, CallRefused
<1>2. /\ bet = NoBet /\ Collecting(room, fates = 0) /\ room.collect.left # <<>>
      /\ PaidFrom(room, room.collect) /\ s \in Seat
      /\ amount \in Nat \ {0} /\ amount <= room.chips[s]
  BY <1>1, CollectingNow
<1> HIDE DEF s, amount
<1>3. /\ Collecting(q, fates = 0) /\ PaidFrom(q, q.collect)
      /\ q.collect.left = room.collect.left
  BY <1>2, TakeCallCollects
<1> HIDE DEF q
<1>4. q.collect.left # <<>> BY <1>2, <1>3
<1>5. Ends(CollectNext(q), fates = 0) BY <1>3, <1>4, CollectNextEnds
<1>6. Ends(CollectNext(room), fates = 0) BY <1>2, CollectNextEnds
<1> QED BY <1>1, <1>2, <1>5, <1>6, InvOfEnds

LEMMA DismissRevealStep ==
    ASSUME Inv, DismissReveal PROVE Inv'
<1> DEFINE t == ClearTurnTimer(room)
           quiet == [t EXCEPT !.callerId = NoSeat]
           open == [quiet EXCEPT !.phase = "APUESTA_4_CARTAS"]
<1>1. /\ room.phase = "PIQUE_REVEAL" /\ UNCHANGED <<bet, links, fates>>
      /\ \/ room' = ScheduleCleanup(ReturnPot(quiet))
         \/ room' = AdvanceTurnBetting(open, NoSeat)
  BY DEF DismissReveal, MayDismissReveal
<1>2. bet = NoBet /\ Ready(room, fates = 0) BY <1>1, RestsInPhase
<1>3. Shape(t) /\ Ready(t, fates = 0)
  BY <1>2, ClearTurnTimerReady DEF Ready
<1> HIDE DEF t
<1>4. SameBut({"callerId"}, t, quiet) /\ quiet.callerId = NoSeat
  BY <1>3, ShapeFields DEF SameBut, F4, Fields
<1> HIDE DEF quiet
<1>5. Typed("callerId", quiet.callerId) BY <1>4, TypedSeat DEF Seats4
<1>6. Keeps(t, quiet) BY <1>3, <1>4, <1>5, KeepsFrame DEF Moves, Core
<1>7. Ready(quiet, fates = 0) /\ Shape(quiet) BY <1>3, <1>6, KeepsSound DEF Ready
<1>8. Ends(ScheduleCleanup(ReturnPot(quiet)), fates = 0)
  <2> DEFINE p == ReturnPot(quiet)
  <2>1. Keeps(quiet, p) BY <1>7, ReturnPotKeeps
  <2> HIDE DEF p
  <2>2. Ready(p, fates = 0) /\ Shape(p) BY <1>7, <2>1, KeepsSound DEF Ready
  <2>3. Keeps(p, ScheduleCleanup(p)) BY <2>2, ScheduleCleanupMoves DEF Moves
  <2>4. Ready(ScheduleCleanup(p), fates = 0) BY <2>2, <2>3, KeepsSound
  <2>5. Ends(ScheduleCleanup(p), fates = 0) BY <2>4, ReadyIsRested
  <2> QED BY <2>5 DEF p
<1>9. Ready(open, fates = 0) BY <1>7, SetPhaseReady DEF Phases4
<1> HIDE DEF open
<1>10. Ends(AdvanceTurnBetting(open, NoSeat), fates = 0) BY <1>9, AdvanceTurnBettingEnds
<1> QED BY <1>1, <1>2, <1>8, <1>10, InvOfEnds

(* The room when somebody closes a showdown.                               *)
LEMMA ShowdownClosed ==
    ASSUME Inv, room.phase = "SHOWDOWN"
    PROVE  LET quiet == ClearAutoTimer(ClearTurnTimer(room))
           IN  /\ Rested(quiet, fates = 0) /\ Moves(room, quiet) /\ ~quiet.turnTimer
               /\ SameBut({"turnTimer", "autoTimer"}, room, quiet)
<1> DEFINE t == ClearTurnTimer(room)
           quiet == ClearAutoTimer(t)
<1>1. Rested(room, fates = 0) BY RestsInPhase
<1>2. Shape(room) BY InvFacts
<1>3. Moves(room, t) /\ SameBut({"turnTimer"}, room, t) /\ t.turnTimer = FALSE
  BY <1>2, ClearTurnTimerMoves
<1> HIDE DEF t
<1>4. Shape(t) BY <1>3 DEF Moves, Keeps
<1>5. Moves(t, quiet) /\ SameBut({"autoTimer"}, t, quiet) BY <1>4, ClearAutoTimerMoves
<1> HIDE DEF quiet
<1>6. Moves(room, quiet) BY <1>3, <1>5, MovesTwice
<1>7. Rested(quiet, fates = 0) BY <1>1, <1>6, KeepsRested DEF Moves
<1>8. ~quiet.turnTimer BY <1>3, <1>5 DEF SameBut, F4, Fields
<1>9. SameBut({"turnTimer", "autoTimer"}, room, quiet) BY <1>3, <1>5 DEF SameBut
<1> QED BY <1>6, <1>7, <1>8, <1>9 DEF quiet, t

LEMMA DismissShowdownStep ==
    ASSUME Inv, DismissShowdown PROVE Inv'
<1> DEFINE quiet == ClearAutoTimer(ClearTurnTimer(room))
<1>1. /\ room.phase = "SHOWDOWN" /\ UNCHANGED <<bet, links, fates>>
      /\ \/ room.winners # {} /\ room' = FinalizePique(quiet)
         \/ Active(room) # {} /\ room' = AwardPot(quiet, Min(Active(room)))
         \/ room' = EndHandEarlyAfterFoldOut(quiet)
  BY DEF DismissShowdown, MayDismissShowdown
<1>2. bet = NoBet BY <1>1, RestsInPhase
<1>3. Rested(quiet, fates = 0) /\ Moves(room, quiet) /\ ~quiet.turnTimer
  BY <1>1, ShowdownClosed
<1> HIDE DEF quiet
<1>4. quiet.winners = room.winners /\ quiet.phase = "SHOWDOWN"
  BY <1>1, <1>3, KeepsFields DEF Moves
<1>5. CASE room.winners # {} /\ room' = FinalizePique(quiet)
  <2>1. Ends(FinalizePique(quiet), fates = 0) BY <1>3, <1>4, <1>5, FinalizePiqueEnds
  <2> QED BY <1>1, <1>2, <1>5, <2>1, InvOfEnds
<1>6. CASE Active(room) # {} /\ room' = AwardPot(quiet, Min(Active(room)))
  <2>1. Active(room) \in SUBSET Seat BY InvFacts, ShapeSets
  <2>2. Min(Active(room)) \in Seat BY <1>6, <2>1, MinInSet
  <2>3. Ends(AwardPot(quiet, Min(Active(room))), fates = 0)
    BY <1>3, <2>2, AwardPotEnds DEF Rested
  <2> QED BY <1>1, <1>2, <1>6, <2>3, InvOfEnds
<1>7. CASE room' = EndHandEarlyAfterFoldOut(quiet)
  <2>1. Ends(EndHandEarlyAfterFoldOut(quiet), fates = 0)
    BY <1>3, EndHandEarlyRested DEF Rested
  <2> QED BY <1>1, <1>2, <1>7, <2>1, InvOfEnds
<1> QED BY <1>1, <1>5, <1>6, <1>7

LEMMA DiscardStep ==
    ASSUME Inv, NEW s \in Seat, NEW k \in Drops, Discard(s, k) PROVE Inv'
<1>1. room.phase = "DESCARTE" /\ room' = Drop(room, s, k) /\ UNCHANGED <<bet, links, fates>>
  BY DEF Discard, MayDiscard
<1>2. bet = NoBet /\ Ready(room, fates = 0) BY <1>1, RestsInPhase
<1>3. k \in 0..4 BY FourCardsAssumption
<1>4. Ends(Drop(room, s, k), fates = 0) BY <1>2, <1>3, DropEnds
<1> QED BY <1>1, <1>2, <1>4, InvOfEnds

LEMMA DescartePasoStep ==
    ASSUME Inv, NEW s \in Seat, DescartePaso(s) PROVE Inv'
<1> DEFINE quiet == ClearTurnTimer(room)
           q == FoldAndPassMano(quiet, s)
<1>1. room.phase = "DESCARTE" /\ room' = AdvanceTurnDescarte(q, NoSeat)
      /\ UNCHANGED <<bet, links, fates>>
  BY DEF DescartePaso, MayDiscard
<1>2. bet = NoBet /\ Ready(room, fates = 0) BY <1>1, RestsInPhase
<1>3. Ready(quiet, fates = 0) BY <1>2, ClearTurnTimerReady
<1> HIDE DEF quiet
<1>4. Keeps(quiet, q) BY <1>3, FoldAndPassManoMoves DEF Ready, Moves
<1> HIDE DEF q
<1>5. Ready(q, fates = 0) BY <1>3, <1>4, KeepsSound
<1>6. Ends(AdvanceTurnDescarte(q, NoSeat), fates = 0) BY <1>5, AdvanceTurnDescarteEnds
<1> QED BY <1>1, <1>2, <1>6, InvOfEnds

LEMMA ClearTurnTimerSound ==
    ASSUME NEW r, NEW b, NEW calm, Sound(r, b, calm) PROVE Sound(ClearTurnTimer(r), b, calm)
<1> DEFINE q == ClearTurnTimer(r)
<1>1. Shape(r) /\ Sound(r, b, FALSE) BY DEF Sound
<1>2. Keeps(r, q) /\ SameBut({"turnTimer"}, r, q) /\ q.turnTimer = FALSE /\ Shape(q)
  BY <1>1, ClearTurnTimerMoves DEF Moves, Keeps
<1> HIDE DEF q
<1>3. q.players = r.players BY <1>2 DEF SameBut, F4, Fields
<1>4. Fades(r, q) BY <1>2, <1>3, FrameFades DEF Unfading
<1>5. Sound(q, b, FALSE) BY <1>1, <1>4, FadesSound
<1>6. calm => Fair(q) BY <1>2, KeepsSound DEF Sound
<1> QED BY <1>5, <1>6 DEF Sound, q

LEMMA TurnTimeoutStep ==
    ASSUME Inv, TurnTimeout PROVE Inv'
<1> DEFINE quiet == ClearTurnTimer(room)
           s == room.turn
<1>1. /\ room.turnTimer /\ bet = NoBet /\ UNCHANGED <<bet, links, fates>>
      /\ \/ room' = quiet
         \/ /\ s \in room.players
            /\ \/ room.phase = "APUESTA_4_CARTAS" /\ room' = Pass(quiet, s)
               \/ room.phase = "DESCARTE" /\ room' = Drop(quiet, s, 0)
  BY DEF TurnTimeout
<1>2. Shape(room) /\ Waits(room, bet) /\ Sound(room, bet, fates = 0)
      /\ (fates = 0 => Fair(room))
  BY InvFacts
<1>3. Sound(quiet, bet, fates = 0) BY <1>2, ClearTurnTimerSound
<1>4. CASE room' = quiet
  <2>1. Sound(room', bet', fates = 0) BY <1>1, <1>3, <1>4
  <2> QED BY <1>1, <2>1, InvOf
<1>5. CASE s \in room.players /\ room.phase = "APUESTA_4_CARTAS" /\ room' = Pass(quiet, s)
  <2>1. Rest(room) BY <1>1, <1>2, <1>5 DEF Waits, Asks, Validates, Collects, Deals4
  <2>2. Ready(room, fates = 0) BY <1>2, <1>5, <2>1 DEF Ready
  <2>3. Ready(quiet, fates = 0) BY <2>2, ClearTurnTimerReady
  <2>4. SameBut({"turnTimer"}, room, quiet) BY <1>2, ClearTurnTimerMoves
  <2> HIDE DEF quiet
  <2>5. quiet.phase = "APUESTA_4_CARTAS" /\ quiet.turn = s
    BY <1>5, <2>4 DEF SameBut, F4, Fields
  <2>6. s \in Seat BY <1>2, <1>5, ShapeSets
  <2>7. Ends(Pass(quiet, s), fates = 0)
    <3> HIDE DEF s
    <3> QED BY <2>3, <2>5, <2>6, PassEnds
  <2> QED BY <1>1, <1>5, <2>7, InvOfEnds
<1>6. CASE s \in room.players /\ room.phase = "DESCARTE" /\ room' = Drop(quiet, s, 0)
  <2>1. Ready(room, fates = 0) BY <1>6, RestsInPhase
  <2>2. Ready(quiet, fates = 0) BY <2>1, ClearTurnTimerReady
  <2>3. s \in Seat BY <1>2, <1>6, ShapeSets
  <2> HIDE DEF quiet, s
  <2>4. Ends(Drop(quiet, s, 0), fates = 0) BY <2>2, <2>3, DropEnds
  <2> QED BY <1>1, <1>6, <2>4, InvOfEnds
<1> QED BY <1>1, <1>4, <1>5, <1>6

LEMMA ValidationTimeoutStep ==
    ASSUME Inv, ValidationTimeout PROVE Inv'
<1> DEFINE q == [room EXCEPT !.asked = {}]
<1>1. room.validationTimer /\ room' = ResolveJuegoValidation(q) /\ UNCHANGED <<bet, links, fates>>
  BY DEF ValidationTimeout
<1>2. Shape(room) /\ Waits(room, bet) /\ (fates = 0 => Fair(room)) BY InvFacts
<1>3. bet = NoBet /\ Validates(room)
  BY <1>1, <1>2 DEF Waits, Rest, Bets, Asks, Collects, Deals4
<1>4. SameBut({"asked"}, room, q) /\ q.asked = {}
  BY <1>2, ShapeFields DEF SameBut, F4, Fields
<1> HIDE DEF q
<1>5. Shape(q)
  <2>1. Typed("asked", q.asked) BY <1>4, TypedSet DEF Sets4
  <2> QED BY <1>2, <1>4, <2>1, ShapeFrameNoBets
<1>6. /\ q.players = room.players /\ q.pasoBy = room.pasoBy /\ q.collect = room.collect
      /\ q.dealing = room.dealing /\ q.phase = room.phase /\ q.turnTimer = room.turnTimer
      /\ q.maxBet = room.maxBet /\ q.piquePot = room.piquePot /\ q.passed = room.passed
      /\ q.validationTimer = room.validationTimer /\ q.validators = room.validators
      /\ q.claims = room.claims /\ q.cards = room.cards /\ q.winners = room.winners
  BY <1>4 DEF SameBut, F4, Fields
<1>7. Validates(q) BY <1>3, <1>6 DEF Validates
<1>8. fates = 0 => Fair(q)
  <2>1. \A t : Hand(q, t) = Hand(room, t) BY <1>6 DEF Hand
  <2> QED BY <1>2, <1>6, <2>1 DEF Fair
<1>9. Ends(ResolveJuegoValidation(q), fates = 0)
  BY <1>4, <1>5, <1>7, <1>8, ResolveJuegoValidationEnds
<1> QED BY <1>1, <1>3, <1>9, InvOfEnds

LEMMA ReplaceTickStep ==
    ASSUME Inv, ReplaceTick PROVE Inv'
<1>1. room.dealing # {} /\ room' = ReplaceCard(room) /\ UNCHANGED <<bet, links, fates>>
  BY DEF ReplaceTick
<1>2. Shape(room) /\ Waits(room, bet) /\ (fates = 0 => Fair(room)) BY InvFacts
<1>3. bet = NoBet /\ Deals4(room)
  BY <1>1, <1>2 DEF Waits, Rest, Bets, Asks, Collects, Validates
<1>4. Ends(ReplaceCard(room), fates = 0) BY <1>2, <1>3, ReplaceCardEnds
<1> QED BY <1>1, <1>3, <1>4, InvOfEnds

LEMMA CleanupTimeoutStep ==
    ASSUME Inv, CleanupTimeout PROVE Inv'
<1> DEFINE q == [room EXCEPT !.cleanups = @ - 1]
<1>1. room.cleanups > 0 /\ room' = CleanupRound(q) /\ UNCHANGED <<bet, links, fates>>
  BY DEF CleanupTimeout
<1>2. Shape(room) /\ Sound(room, bet, fates = 0) /\ (fates = 0 => Fair(room)) BY InvFacts
<1>3. room.cleanups \in Nat BY <1>2, ShapeFields
<1>4. SameBut({"cleanups"}, room, q) /\ q.cleanups = room.cleanups - 1
  BY <1>2, ShapeFields DEF SameBut, F4, Fields
<1> HIDE DEF q
<1>5. Typed("cleanups", q.cleanups) BY <1>1, <1>3, <1>4, TypedCount DEF Counts4
<1>6. Keeps(room, q) BY <1>2, <1>4, <1>5, KeepsFrame DEF Moves, Core
<1>7. q.players = room.players /\ q.turnTimer = room.turnTimer
  BY <1>4 DEF SameBut, F4, Fields
<1>8. Fades(room, q) BY <1>4, <1>6, <1>7, FrameFades DEF Unfading, Keeps
<1>9. Sound(room, bet, FALSE) BY <1>2 DEF Sound
<1>10. Sound(q, bet, FALSE) BY <1>8, <1>9, FadesSound
<1>11. Sound(q, bet, fates = 0) BY <1>2, <1>6, <1>10, KeepsSound DEF Sound
<1>12. Sound(CleanupRound(q), bet, fates = 0) BY <1>11, CleanupRoundSound
<1>13. Sound(room', bet', fates = 0) BY <1>1, <1>12
<1> QED BY <1>1, <1>13, InvOf

(* Whatever happens to the connections, once one was lost.                 *)
LEMMA InvFades ==
    ASSUME Inv, Fades(room, room'), bet' = bet, fates' \in 1..MaxFates,
           links' \in [grace : SUBSET Seat, mano : SUBSET Seat, leaving : SUBSET Seat]
    PROVE  Inv'
<1>1. Sound(room, bet, FALSE) BY InvFacts DEF Sound
<1>2. Sound(room', bet, FALSE) BY <1>1, FadesSound
<1>3. MaxFates \in Nat BY FourCardsAssumption
<1>4. fates' # 0 /\ fates' \in 0..MaxFates BY <1>3
<1>5. Sound(room', bet', fates' = 0) BY <1>2, <1>4 DEF Sound
<1> QED BY <1>4, <1>5 DEF Inv

LEMMA FadesToo ==
    ASSUME NEW r, Shape(r), NEW p, NEW F, Fades(r, p), NEW q, SameBut(F, p, q),
           F \in {{"away"}, {"connected"}}, \A f \in F : q[f] \subseteq Seat
    PROVE  Fades(r, q)
<1>1. Shape(p) BY DEF Fades
<1>2. \A f \in F : Typed(f, q[f]) BY TypedSet DEF Sets4, Groups
<1>3. Shape(q) BY <1>1, <1>2, ShapeFrameNoBets
<1>4. q.players = p.players /\ q.turnTimer = p.turnTimer BY DEF SameBut, F4, Fields
<1>5. Fades(p, q) BY <1>3, <1>4, FrameFades DEF Unfading
<1> QED BY <1>5, FadesTwice

LEMMA ConnectionFades ==
    ASSUME Inv, NEW s \in Seat, Connection(s)
    PROVE  /\ Fades(room, room') /\ bet' = bet /\ fates' \in 1..MaxFates
           /\ links' \in [grace : SUBSET Seat, mano : SUBSET Seat, leaving : SUBSET Seat]
<1>1. /\ Shape(room) /\ fates \in 0..MaxFates /\ (fates = 0 => links = NoLinks)
      /\ links \in [grace : SUBSET Seat, mano : SUBSET Seat, leaving : SUBSET Seat]
  BY DEF Inv, Sound
<1>2. MaxFates \in Nat BY FourCardsAssumption
<1>3. ASSUME NEW fate, M!MayLose(s, fate) PROVE fates' \in 1..MaxFates
  BY <1>1, <1>2, <1>3 DEF M!MayLose
<1>4. links.grace \subseteq Seat /\ links.mano \subseteq Seat /\ links.leaving \subseteq Seat
  BY <1>1
<1>5. CASE Disconnect(s)
  <2> DEFINE off == Offline(room, s)
             q == [off EXCEPT !.away = @ \cup {s}]
             mano == IF M!WasMano(s) THEN links.mano \cup {s} ELSE links.mano \ {s}
  <2>1. /\ M!MayLose(s, "drop") /\ room' = q /\ bet' = bet
        /\ links' = [links EXCEPT !.grace = @ \cup {s}, !.mano = mano]
    BY <1>1, <1>5 DEF Disconnect
  <2>2. fates' \in 1..MaxFates BY <1>3, <2>1
  <2>3. Fades(room, off) /\ Shape(off) BY <1>1, OfflineFades
  <2> HIDE DEF off
  <2>4. SameBut({"away"}, off, q) /\ q.away = off.away \cup {s}
    BY <2>3, ShapeFields DEF SameBut, F4, Fields
  <2>5. q.away \subseteq Seat BY <2>3, <2>4, ShapeSets
  <2> HIDE DEF q
  <2>6. Fades(room, q) BY <1>1, <2>3, <2>4, <2>5, FadesToo
  <2>7. mano \subseteq Seat BY <1>4
  <2> HIDE DEF mano
  <2>8. links' \in [grace : SUBSET Seat, mano : SUBSET Seat, leaving : SUBSET Seat]
    BY <1>1, <2>1, <2>7
  <2> QED BY <2>1, <2>2, <2>6, <2>8
<1>6. CASE M!Reconnect(s)
  <2> DEFINE q == [room EXCEPT !.connected = @ \cup {s}]
  <2>1. /\ s \in links.grace /\ room' = q /\ links' = [links EXCEPT !.grace = @ \ {s}]
        /\ bet' = bet /\ fates' = fates
    BY <1>6 DEF M!Reconnect
  <2>2. fates' \in 1..MaxFates BY <1>1, <1>2, <2>1 DEF NoLinks
  <2>3. SameBut({"connected"}, room, q) /\ q.connected = room.connected \cup {s}
    BY <1>1, ShapeFields DEF SameBut, F4, Fields
  <2>4. q.connected \subseteq Seat BY <1>1, <2>3, ShapeSets
  <2> HIDE DEF q
  <2>5. Fades(room, room)
    <3>1. SameBut({}, room, room) BY <1>1, ShapeFields DEF SameBut
    <3> QED BY <1>1, <3>1, FrameFades
  <2>6. Fades(room, q) BY <1>1, <2>3, <2>4, <2>5, FadesToo
  <2>7. links' \in [grace : SUBSET Seat, mano : SUBSET Seat, leaving : SUBSET Seat]
    BY <1>1, <2>1
  <2> QED BY <2>1, <2>2, <2>6, <2>7
<1>7. CASE M!GraceExpires(s)
  <2> DEFINE p == IF s \in links.mano THEN TransferMano(room) ELSE room
  <2>1. /\ s \in links.grace /\ room' = RemovePlayer(p, s)
        /\ links' = [links EXCEPT !.grace = @ \ {s}] /\ bet' = bet /\ fates' = fates
    BY <1>7, TablesOfMainPot DEF M!GraceExpires
  <2>2. fates' \in 1..MaxFates BY <1>1, <1>2, <2>1 DEF NoLinks
  <2>3. Fades(room, p) /\ Shape(p)
    <3>1. SameBut({}, room, room) BY <1>1, ShapeFields DEF SameBut
    <3>2. Fades(room, room) BY <1>1, <3>1, FrameFades
    <3> QED BY <1>1, <3>2, TransferManoFades
  <2> HIDE DEF p
  <2>4. Fades(room, RemovePlayer(p, s)) BY <1>1, <2>3, RemovePlayerFades, FadesTwice
  <2>5. links' \in [grace : SUBSET Seat, mano : SUBSET Seat, leaving : SUBSET Seat]
    BY <1>1, <2>1
  <2> QED BY <2>1, <2>2, <2>4, <2>5
<1>8. CASE M!Leave(s)
  <2> DEFINE off == Offline(room, s)
             p == IF M!WasMano(s) THEN TransferMano(off) ELSE off
  <2>1. /\ M!MayLose(s, "leave") /\ room' = HandOverDeal(p, s)
        /\ links' = [links EXCEPT !.leaving = @ \cup {s}] /\ bet' = bet
    BY <1>8, TablesOfMainPot DEF M!Leave
  <2>2. fates' \in 1..MaxFates BY <1>3, <2>1
  <2>3. Fades(room, off) /\ Shape(off) BY <1>1, OfflineFades
  <2> HIDE DEF off
  <2>4. Fades(off, TransferMano(off)) /\ Shape(TransferMano(off)) BY <2>3, TransferManoFades
  <2>5. Fades(room, p) /\ Shape(p) BY <1>1, <2>3, <2>4, FadesTwice
  <2> HIDE DEF p
  <2>6. Fades(room, HandOverDeal(p, s)) BY <1>1, <2>5, HandOverDealFades, FadesTwice
  <2>7. links' \in [grace : SUBSET Seat, mano : SUBSET Seat, leaving : SUBSET Seat]
    BY <1>1, <2>1
  <2> QED BY <2>1, <2>2, <2>6, <2>7
<1>9. CASE M!LeaveDone(s)
  <2>1. /\ s \in links.leaving /\ room' = RemovePlayer(room, s)
        /\ links' = [links EXCEPT !.leaving = @ \ {s}] /\ bet' = bet /\ fates' = fates
    BY <1>9, TablesOfMainPot DEF M!LeaveDone
  <2>2. fates' \in 1..MaxFates BY <1>1, <1>2, <2>1 DEF NoLinks
  <2>3. Fades(room, RemovePlayer(room, s)) BY <1>1, RemovePlayerFades
  <2>4. links' \in [grace : SUBSET Seat, mano : SUBSET Seat, leaving : SUBSET Seat]
    BY <1>1, <2>1
  <2> QED BY <2>1, <2>2, <2>3, <2>4
<1>10. CASE M!Abandon(s)
  <2>1. /\ M!MayLose(s, "abandon") /\ room' = RemovePlayer(room, s) /\ bet' = bet
        /\ links' = links
    BY <1>10, TablesOfMainPot DEF M!Abandon
  <2>2. fates' \in 1..MaxFates BY <1>3, <2>1
  <2>3. Fades(room, RemovePlayer(room, s)) BY <1>1, RemovePlayerFades
  <2> QED BY <1>1, <2>1, <2>2, <2>3
<1> QED BY <1>5, <1>6, <1>7, <1>8, <1>9, <1>10 DEF Connection

LEMMA ConnectionStep ==
    ASSUME Inv, NEW s \in Seat, Connection(s) PROVE Inv'
BY ConnectionFades, InvFades

-----------------------------------------------------------------------------
(* The table the pique leaves is sound.                                    *)

LEMMA SumOfMainPot ==
    ASSUME NEW f, NEW S PROVE M!SumFunctionOnSet(f, S) = SumFunctionOnSet(f, S)
BY Zenon DEF M!SumFunctionOnSet, SumFunctionOnSet, M!FoldFunctionOnSet, FoldFunctionOnSet,
             M!MapThenFoldSet, MapThenFoldSet

LEMMA DealFacts ==
    ASSUME NEW d \in Deals
    PROVE  /\ d.mano \in Seat /\ d.dealer \in Seat /\ d.rotated \in BOOLEAN
           /\ d.waiting \subseteq Seat /\ d.folded \subseteq Seat /\ d.allIn \subseteq Seat
           /\ d.cards \in [Seat -> 0..MaxHand] /\ d.chips \in [Seat -> Nat]
           /\ d.mainBet \in [Seat -> Nat] /\ d.pique \in Nat /\ d.merged \in Nat
BY FourCardsAssumption, SeatsOfMainPot DEF M!IsDeal

LEMMA StartOfMainPot ==
    ASSUME NEW d
    PROVE  M!Start(d) =
    [phase |-> "REVELAR_CARTA", turn |-> NoSeat, mano |-> d.mano, dealer |-> d.dealer,
     rotated |-> d.rotated, pot |-> d.merged + SumFunctionOnSet(d.mainBet, Seat),
     piquePot |-> 0, maxBet |-> 0,
     players |-> Seat, connected |-> Seat, waiting |-> d.waiting, folded |-> d.folded,
     acted |-> {}, allIn |-> d.allIn, passed |-> {}, declined |-> {}, yes |-> {}, no |-> {},
     chips |-> d.chips, roundBet |-> [s \in Seat |-> 0], mainBet |-> d.mainBet,
     cards |-> d.cards,
     turnTimer |-> FALSE, autoTimer |-> FALSE, revealTimer |-> TRUE, cleanups |-> 0,
     pasoBy |-> NoSeat, pasoPhase |-> "LOBBY", llevoBy |-> NoSeat, returnTo |-> "LOBBY",
     forced |-> NoSeat, pending |-> FALSE,
     balance |-> d.chips, refs |-> {}, skewed |-> {}]
BY SeatsOfMainPot, SumOfMainPot, Zenon DEF M!Start

LEMMA StartIsReady ==
    ASSUME NEW d \in Deals
    PROVE  LET r == RoomWith([M!Start(d) EXCEPT !.piquePot = d.pique, !.revealTimer = FALSE],
                             FieldsOfFourCards)
           IN  Ready(M!OpenRound(ClearTurnTimer(r), "APUESTA_4_CARTAS"), TRUE)
               /\ r.mano \in Seat
<1> DEFINE pot == d.merged + SumFunctionOnSet(d.mainBet, Seat)
           a == [M!Start(d) EXCEPT !.piquePot = d.pique, !.revealTimer = FALSE]
           x == FieldsOfFourCards
           r == RoomWith(a, x)
           t == ClearTurnTimer(r)
           zero == [s \in Seat |-> IF s \in Seat THEN 0 ELSE t.roundBet[s]]
           q == M!OpenRound(t, "APUESTA_4_CARTAS")
<1>1. /\ d.mano \in Seat /\ d.dealer \in Seat /\ d.rotated \in BOOLEAN
      /\ d.waiting \subseteq Seat /\ d.folded \subseteq Seat /\ d.allIn \subseteq Seat
      /\ d.cards \in [Seat -> 0..MaxHand] /\ d.chips \in [Seat -> Nat]
      /\ d.mainBet \in [Seat -> Nat] /\ d.pique \in Nat /\ d.merged \in Nat
  BY DealFacts
<1>2. pot \in Nat
  <2>1. IsFiniteSet(Seat) BY NAssumption, FS_Interval DEF Seat
  <2>2. SumFunctionOnSet(d.mainBet, Seat) \in Nat BY <1>1, <2>1, SumOfNats
  <2> QED BY <1>1, <2>2
<1> HIDE DEF pot
<1>3. /\ DOMAIN a = Fields
      /\ a.turn = NoSeat /\ a.mano = d.mano /\ a.dealer = d.dealer /\ a.rotated = d.rotated
      /\ a.pot = pot /\ a.piquePot = d.pique /\ a.maxBet = 0 /\ a.players = Seat
      /\ a.connected = Seat /\ a.waiting = d.waiting /\ a.folded = d.folded /\ a.acted = {}
      /\ a.allIn = d.allIn /\ a.passed = {} /\ a.declined = {} /\ a.yes = {} /\ a.no = {}
      /\ a.chips = d.chips /\ a.roundBet = [s \in Seat |-> 0] /\ a.mainBet = d.mainBet
      /\ a.cards = d.cards /\ a.turnTimer = FALSE /\ a.autoTimer = FALSE
      /\ a.revealTimer = FALSE /\ a.cleanups = 0 /\ a.pasoBy = NoSeat /\ a.pending = FALSE
      /\ a.balance = d.chips /\ a.skewed = {} /\ a.phase = "REVELAR_CARTA"
  BY ZenonT(60), StartOfMainPot DEF Fields, pot
<1>4. /\ DOMAIN x = F4 \ Fields
      /\ x.asked = {} /\ x.claims = <<>> /\ x.callers = <<>> /\ x.validators = {}
      /\ x.validationTimer = FALSE /\ x.collect = NoCall /\ x.callerId = NoSeat
      /\ x.winners = {} /\ x.contestants = {} /\ x.reopenCallers = <<>>
      /\ x.missing = [s \in Seat |-> 0] /\ x.dealing = {} /\ x.dealFrom = NoSeat
      /\ x.booked = [s \in Seat |-> 0] /\ x.away = {}
  BY DEF FieldsOfFourCards, F4, Fields
<1> HIDE DEF a, x
<1>5. /\ DOMAIN r = F4 /\ \A f \in Fields : r[f] = a[f]
      /\ \A f \in F4 \ Fields : r[f] = x[f]
  <2>1. r = [f \in Fields \cup (F4 \ Fields) |-> IF f \in Fields THEN a[f] ELSE x[f]]
    BY <1>3, <1>4 DEF RoomWith
  <2>2. Fields \cup (F4 \ Fields) = F4 BY DEF F4
  <2> HIDE DEF r
  <2> QED BY <2>1, <2>2
<1> HIDE DEF r
<1>6. SameBut({"turnTimer"}, r, t) /\ t.turnTimer = FALSE
  BY <1>5 DEF ClearTurnTimer, SameBut, F4, Fields
<1> HIDE DEF t
<1>7. DOMAIN t = F4 /\ t.players = Seat /\ t.acted = {}
  BY <1>3, <1>5, <1>6 DEF SameBut, F4, Fields
<1>8. q = [t EXCEPT !.phase = "APUESTA_4_CARTAS", !.maxBet = 0, !.acted = {}, !.roundBet = zero]
  <2>1. q = [t EXCEPT !.phase = "APUESTA_4_CARTAS", !.maxBet = 0, !.acted = @ \ t.players,
              !.roundBet = [s \in Seat |-> IF s \in t.players THEN 0 ELSE @[s]]]
    BY SeatsOfMainPot, Zenon DEF M!OpenRound
  <2>2. t.acted \ t.players = {} BY <1>7
  <2> HIDE DEF q
  <2> QED BY <1>7, <2>1, <2>2
<1>9. zero = [s \in Seat |-> 0] OBVIOUS
<1> HIDE DEF q, zero
<1>10. /\ SameBut({"phase", "maxBet", "acted", "roundBet"}, t, q)
       /\ q.phase = "APUESTA_4_CARTAS" /\ q.maxBet = 0 /\ q.acted = {} /\ q.roundBet = zero
  BY <1>7, <1>8 DEF SameBut, F4, Fields
<1>11. /\ DOMAIN q = F4 /\ q.turnTimer = FALSE
       /\ \A f \in Fields \ {"phase", "maxBet", "acted", "roundBet", "turnTimer"} : q[f] = a[f]
       /\ \A f \in F4 \ Fields : q[f] = x[f]
  BY <1>5, <1>6, <1>10 DEF SameBut, F4, Fields
<1>12. /\ q.turn = NoSeat /\ q.mano = d.mano /\ q.dealer = d.dealer /\ q.rotated = d.rotated
       /\ q.pot = pot /\ q.piquePot = d.pique /\ q.players = Seat
       /\ q.connected = Seat /\ q.waiting = d.waiting /\ q.folded = d.folded
       /\ q.allIn = d.allIn /\ q.passed = {} /\ q.declined = {} /\ q.yes = {} /\ q.no = {}
       /\ q.chips = d.chips /\ q.mainBet = d.mainBet
       /\ q.cards = d.cards /\ q.autoTimer = FALSE
       /\ q.revealTimer = FALSE /\ q.cleanups = 0 /\ q.pasoBy = NoSeat /\ q.pending = FALSE
       /\ q.balance = d.chips /\ q.skewed = {}
  BY <1>3, <1>11 DEF Fields
<1>13. /\ q.asked = {} /\ q.claims = <<>> /\ q.callers = <<>> /\ q.validators = {}
       /\ q.validationTimer = FALSE /\ q.collect = NoCall /\ q.callerId = NoSeat
       /\ q.winners = {} /\ q.contestants = {} /\ q.reopenCallers = <<>>
       /\ q.missing = [s \in Seat |-> 0] /\ q.dealing = {} /\ q.dealFrom = NoSeat
       /\ q.booked = [s \in Seat |-> 0] /\ q.away = {}
  BY <1>4, <1>11 DEF F4, Fields
<1>14. Shape(q)
  <2>1. Typed("phase", q.phase) /\ Typed("dealer", q.dealer)
    BY <1>1, <1>10, <1>12 DEF Typed, Phases4, Seats4, Sets4, Groups, Flags, Counts4
  <2>2. \A f \in Seats4 : Typed(f, q[f])
    <3>1. \A f \in Seats4 : q[f] \in Seat \cup {NoSeat} BY <1>1, <1>12, <1>13 DEF Seats4
    <3> QED BY <3>1, TypedSeat
  <2>3. \A f \in Sets4 : Typed(f, q[f])
    <3>1. \A f \in Sets4 : q[f] \subseteq Seat
      BY <1>1, <1>10, <1>12, <1>13 DEF Sets4, Groups
    <3> QED BY <3>1, TypedSet
  <2>4. \A f \in Flags \cup {"validationTimer"} : Typed(f, q[f])
    <3>1. \A f \in Flags \cup {"validationTimer"} : q[f] \in BOOLEAN
      BY <1>1, <1>11, <1>12, <1>13 DEF Flags
    <3> QED BY <3>1, TypedFlag
  <2>5. \A f \in Counts4 : Typed(f, q[f])
    <3>1. \A f \in Counts4 : q[f] \in Nat BY <1>1, <1>2, <1>10, <1>12 DEF Counts4
    <3> QED BY <3>1, TypedCount
  <2>6. \A f \in {"roundBet", "mainBet", "booked"} : Typed(f, q[f])
    <3>1. q.roundBet \in [Seat -> Nat] /\ q.mainBet \in [Seat -> Nat]
      BY <1>1, <1>9, <1>10, <1>12
    <3>2. q.booked \in [Seat -> Nat] BY <1>13
    <3>3. \A f \in {"roundBet", "mainBet", "booked"} : q[f] \in [Seat -> Nat] BY <3>1, <3>2
    <3> QED BY <3>3, TypedBets
  <2>7. \A f \in {"chips", "balance"} : Typed(f, q[f])
    <3>1. d.chips \in [Seat -> Int] BY <1>1
    <3> QED BY <1>12, <3>1, TypedMoney
  <2>8. Typed("cards", q.cards) /\ Typed("missing", q.missing)
    BY <1>1, <1>12, <1>13 DEF Typed, Seats4, Sets4, Groups, Flags, Counts4
  <2>9. Typed("claims", q.claims) /\ Typed("callers", q.callers)
        /\ Typed("reopenCallers", q.reopenCallers)
    BY <1>13 DEF Typed, Seats4, Sets4, Groups, Flags, Counts4
  <2>10. Typed("collect", q.collect)
    BY <1>13, NoCallIsCollection DEF Typed, Seats4, Sets4, Groups, Flags, Counts4
  <2>11. \A f \in Untyped : Typed(f, q[f]) BY TypedOther
  <2>12. \A f \in F4 : Typed(f, q[f])
    BY <2>1, <2>2, <2>3, <2>4, <2>5, <2>6, <2>7, <2>8, <2>9, <2>10, <2>11
    DEF F4, Fields, Seats4, Sets4, Groups, Flags, Counts4, Untyped
  <2>13. \A s \in Seat : q.roundBet[s] <= q.mainBet[s] BY <1>1, <1>9, <1>10, <1>12
  <2> QED BY <1>11, <2>12, <2>13 DEF Shape
<1>15. Rest(q) BY <1>10, <1>12, <1>13 DEF Rest, Seat, NoSeat
<1>16. Fair(q) BY <1>10, <1>12, <1>13 DEF Fair
<1>17. r.mano \in Seat BY <1>1, <1>3, <1>5 DEF Fields
<1>18. Ready(q, TRUE) BY <1>10, <1>14, <1>15, <1>16 DEF Ready
<1> QED BY <1>17, <1>18 DEF q, t, r, a, x

LEMMA InitIsSound == ASSUME Init PROVE Inv
<1>1. PICK d \in Deals :
         room = EnterApuesta4(RoomWith(
                  [M!Start(d) EXCEPT !.piquePot = d.pique, !.revealTimer = FALSE],
                  FieldsOfFourCards))
  BY DEF Init
<1> DEFINE r == RoomWith([M!Start(d) EXCEPT !.piquePot = d.pique, !.revealTimer = FALSE],
                         FieldsOfFourCards)
           q == M!OpenRound(ClearTurnTimer(r), "APUESTA_4_CARTAS")
<1>2. room = AdvanceTurnBetting(q, r.mano) BY <1>1 DEF EnterApuesta4
<1>3. Ready(q, TRUE) /\ r.mano \in Seat BY StartIsReady
<1> HIDE DEF r, q
<1>4. Ends(room, TRUE) BY <1>2, <1>3, AdvanceTurnBettingEnds
<1>5. bet = NoBet /\ links = NoLinks /\ fates = 0 BY DEF Init, NoLinks
<1>6. MaxFates \in Nat BY FourCardsAssumption
<1>7. links \in [grace : SUBSET Seat, mano : SUBSET Seat, leaving : SUBSET Seat]
  BY <1>5 DEF NoLinks
<1>8. Sound(room, bet, fates = 0) BY <1>4, <1>5 DEF Ends, Sound
<1> QED BY <1>5, <1>6, <1>7, <1>8 DEF Inv

-----------------------------------------------------------------------------
(* The invariant, and what it says of the state.                           *)

LEMMA StutterStep == ASSUME Inv, UNCHANGED vars PROVE Inv'
<1>1. /\ Sound(room, bet, fates = 0) /\ fates \in 0..MaxFates
      /\ links \in [grace : SUBSET Seat, mano : SUBSET Seat, leaving : SUBSET Seat]
      /\ fates = 0 => links = NoLinks
  BY DEF Inv
<1> QED BY <1>1, InvOf DEF vars

LEMMA BettingStep ==
    ASSUME Inv, Hasty = FALSE, NEW s \in Seat, BettingAction(s) PROVE Inv'
<1>1. CASE Paso(s) BY <1>1, PasoStep
<1>2. CASE \E raise \in Raises : Voy(s, raise) \/ VoyTooLow(s, raise)
  BY <1>2, VoyStep, VoyTooLowStep
<1>3. CASE Igualar(s) BY <1>3, IgualarStep
<1>4. CASE Resto(s) BY <1>4, RestoStep
<1> QED BY <1>1, <1>2, <1>3, <1>4 DEF BettingAction

LEMMA MessageStep ==
    ASSUME Inv, Hasty = FALSE, NEW s \in Seat, ClientMessage(s) PROVE Inv'
<1>1. CASE BettingAction(s) BY <1>1, BettingStep
<1>2. CASE PasoJuegoResponse(s) BY <1>2, PasoJuegoStep
<1>3. CASE \E say \in {"pass", "call", "claim-juego"}, amount \in Calls \cup {0} :
             Answer(s, say, amount)
  BY <1>3, AnswerStep
<1>4. CASE \E k \in Drops : Discard(s, k) BY <1>4, DiscardStep
<1>5. CASE DescartePaso(s) BY <1>5, DescartePasoStep
<1> QED BY <1>1, <1>2, <1>3, <1>4, <1>5 DEF ClientMessage

LEMMA NextStep ==
    ASSUME Inv, Hasty = FALSE, [Next]_vars PROVE Inv'
<1>1. CASE \E s \in Seat : ClientMessage(s) \/ Connection(s)
  BY <1>1, MessageStep, ConnectionStep
<1>2. CASE DismissReveal \/ DismissShowdown BY <1>2, DismissRevealStep, DismissShowdownStep
<1>3. CASE LedgerReply BY <1>3, BetStep, CallStep DEF LedgerReply
<1>4. CASE Timer
  BY <1>4, TurnTimeoutStep, ValidationTimeoutStep, ReplaceTickStep, CleanupTimeoutStep DEF Timer
<1>5. CASE UNCHANGED vars BY <1>5, StutterStep
<1> QED BY <1>1, <1>2, <1>3, <1>4, <1>5 DEF Next

LEMMA SoundIsInvariant == ASSUME Hasty = FALSE PROVE Spec => []Inv
<1>1. Init => Inv BY InitIsSound
<1>2. Inv /\ [Next]_vars => Inv' BY NextStep
<1> QED BY <1>1, <1>2, PTL DEF Spec

LEMMA InvIsTypeOK == ASSUME Inv PROVE TypeOK
<1>1. /\ Shape(room) /\ Waits(room, bet) /\ fates \in 0..MaxFates
      /\ links \in [grace : SUBSET Seat, mano : SUBSET Seat, leaving : SUBSET Seat]
  BY InvFacts DEF Inv
<1>2. /\ room.phase \in {"APUESTA_4_CARTAS", "JUEGO_VALIDACION", "PIQUE_REVEAL", "SHOWDOWN",
                         "DESCARTE", "COMPLETAR_DESCARTE", "REVELAR_CARTA", "LOBBY"}
      /\ room.turn \in Seat \cup {NoSeat} /\ room.mano \in Seat \cup {NoSeat}
      /\ room.dealer \in Seat /\ room.chips \in [Seat -> Int]
      /\ room.missing \in [Seat -> 0..4] /\ room.callerId \in Seat \cup {NoSeat}
  BY <1>1, ShapeFields DEF Phases4
<1>3. \A g \in Groups \cup {"asked", "validators", "winners", "contestants", "dealing", "away"} :
        room[g] \subseteq Seat
  BY <1>1, ShapeSets DEF Groups
<1>4. \A b \in Flags \cup {"validationTimer"} : room[b] \in BOOLEAN BY <1>1, ShapeFlags
<1>5. /\ \A n \in {"pot", "piquePot", "maxBet", "cleanups"} : room[n] \in Nat
      /\ \A m \in {"roundBet", "mainBet", "booked"} : room[m] \in [Seat -> Nat]
  BY <1>1, ShapeFields
<1>6. bet # NoBet => bet.seat \in Seat /\ bet.amount <= room.chips[bet.seat]
  BY <1>1 DEF Waits, Bets
<1>7. room.collect # NoCall =>
        room.collect.amount \in 1..room.chips[Head(room.collect.left).seat]
  BY <1>1 DEF Waits, Bets, Rest, Asks, Validates, Collects, Deals4
<1> QED BY <1>1, <1>2, <1>3, <1>4, <1>5, <1>6, <1>7, Zenon DEF TypeOK

(* The record, the bet and the call that wait for the ledger stay what     *)
(* TypeOK says: no pot and no bet on the table is ever in debt, and        *)
(* whatever the ledger is asked to debit the player has when it answers.   *)
THEOREM FourCardsTypeCorrect == ASSUME Hasty = FALSE PROVE Spec => []TypeOK
<1>1. Inv => TypeOK BY InvIsTypeOK
<1> QED BY <1>1, SoundIsInvariant, PTL

-----------------------------------------------------------------------------
(* The showdown of the pique: nothing but closing it pays anybody.         *)

LEMMA CleanupTimeoutFades ==
    ASSUME Inv, CleanupTimeout PROVE Fades(room, room')
<1> DEFINE q == [room EXCEPT !.cleanups = @ - 1]
<1>1. room.cleanups > 0 /\ room' = CleanupRound(q) BY DEF CleanupTimeout
<1>2. Shape(room) BY InvFacts
<1>3. room.cleanups \in Nat BY <1>2, ShapeFields
<1>4. SameBut({"cleanups"}, room, q) /\ q.cleanups = room.cleanups - 1
  BY <1>2, ShapeFields DEF SameBut, F4, Fields
<1> HIDE DEF q
<1>5. Typed("cleanups", q.cleanups) BY <1>1, <1>3, <1>4, TypedCount DEF Counts4
<1>6. Shape(q) BY <1>2, <1>4, <1>5, ShapeFrameNoBets
<1>7. q.players = room.players /\ q.turnTimer = room.turnTimer
  BY <1>4 DEF SameBut, F4, Fields
<1>8. Fades(room, q) BY <1>4, <1>6, <1>7, FrameFades DEF Unfading
<1>9. Fades(q, CleanupRound(q)) BY <1>6, CleanupRoundFades
<1>10. Fades(room, CleanupRound(q)) BY <1>2, <1>8, <1>9, FadesTwice
<1> QED BY <1>1, <1>10

LEMMA FadedGainNothing ==
    ASSUME NEW r, NEW q, Shape(r), Fades(r, q) \/ Moves(r, q), NEW s \in Seat
    PROVE  Gains(r, q, s) <= 0
<1>1. r.pot \in Nat /\ r.chips[s] \in Int /\ r.mainBet[s] \in Nat BY ShapeFields
<1>2. q.chips = r.chips BY DEF Fades, Unfading, Moves
<1>3. Shape(q) BY DEF Fades, Moves, Keeps
<1>4. q.mainBet[s] \in Nat BY <1>3, ShapeFields
<1>5. q.mainBet[s] <= r.mainBet[s]
  <2>1. CASE Fades(r, q) BY <2>1 DEF Fades
  <2>2. CASE Moves(r, q) BY <1>4, <2>2 DEF Moves
  <2> QED BY <2>1, <2>2
<1> QED BY <1>1, <1>2, <1>4, <1>5 DEF Gains

LEMMA ShowdownStep ==
    ASSUME Inv, [Next]_vars, room.phase = "SHOWDOWN", room.winners # {}
    PROVE  \/ room' = FinalizePique(ClearAutoTimer(ClearTurnTimer(room)))
           \/ Fades(room, room') \/ Moves(room, room')
<1>1. /\ Shape(room) /\ bet = NoBet /\ room.pasoBy \notin room.players
      /\ ~room.validationTimer /\ room.collect = NoCall /\ room.dealing = {}
  BY InvFacts, RestsInPhase DEF Rested, Rest
<1>2. ASSUME NEW s \in Seat PROVE ~ClientMessage(s)
  <2>1. ~BettingAction(s)
    BY DEF BettingAction, Paso, Voy, VoyTooLow, Igualar, Resto, MayAct
  <2>2. ~PasoJuegoResponse(s) BY <1>1 DEF PasoJuegoResponse, MayAnswerPaso
  <2>3. \A say, amount : ~Answer(s, say, amount) BY DEF Answer, MayAnswer
  <2>4. (\A k : ~Discard(s, k)) /\ ~DescartePaso(s) BY DEF Discard, DescartePaso, MayDiscard
  <2> QED BY <2>1, <2>2, <2>3, <2>4 DEF ClientMessage
<1>3. ~LedgerReply
  <2>1. ~BetAccepted /\ ~BetUnfunded BY <1>1 DEF BetAccepted, BetUnfunded
  <2>2. ~BetFailed BY <1>1 DEF BetFailed, M!BetFailed, NoBet
  <2>3. ~CallTaken /\ ~CallRefused BY <1>1 DEF CallTaken, CallRefused
  <2> QED BY <2>1, <2>2, <2>3 DEF LedgerReply
<1>4. ~DismissReveal /\ ~ValidationTimeout /\ ~ReplaceTick
  BY <1>1 DEF DismissReveal, MayDismissReveal, ValidationTimeout, ReplaceTick
<1>5. CASE \E s \in Seat : Connection(s) BY <1>5, ConnectionFades
<1>6. CASE DismissShowdown BY <1>6 DEF DismissShowdown
<1>7. CASE TurnTimeout
  <2>1. room' = ClearTurnTimer(room) BY <1>7 DEF TurnTimeout
  <2> QED BY <1>1, <2>1, ClearTurnTimerMoves
<1>8. CASE CleanupTimeout BY <1>8, CleanupTimeoutFades
<1>9. CASE UNCHANGED vars
  <2>1. room' = room BY <1>9 DEF vars
  <2> QED BY <1>1, <2>1, MovesSame
<1> QED BY <1>2, <1>3, <1>4, <1>5, <1>6, <1>7, <1>8, <1>9 DEF Next, Timer

LEMMA ShowdownPaysTheBest ==
    ASSUME Inv, [Next]_vars, room.phase = "SHOWDOWN", room.winners # {},
           NEW s \in Seat, Gains(room, room', s) > 0
    PROVE  /\ s \in room.passed /\ (fates = 0 => TieneJuego(Hand(room, s)))
           /\ \A t \in (IF fates = 0 THEN room.passed ELSE room.contestants) \cap room.players :
                Hand(room, t) <= Hand(room, s) + 1
<1> DEFINE quiet == ClearAutoTimer(ClearTurnTimer(room))
<1>1. Shape(room) /\ Decided(room) /\ (fates = 0 => Fair(room)) BY InvFacts
<1>2. /\ Rested(quiet, fates = 0) /\ Moves(room, quiet) /\ ~quiet.turnTimer
      /\ SameBut({"turnTimer", "autoTimer"}, room, quiet)
  BY ShowdownClosed
<1>3. room' = FinalizePique(quiet)
  <2>1. ~(Gains(room, room', s) <= 0)
    <3>1. ~(Fades(room, room') \/ Moves(room, room')) \/ Shape(room') BY DEF Fades, Moves, Keeps
    <3>2. CASE Fades(room, room') \/ Moves(room, room')
      <4>1. /\ room.pot \in Nat /\ room.chips[s] \in Int /\ room.mainBet[s] \in Nat
            /\ room'.chips[s] \in Int /\ room'.mainBet[s] \in Nat
        BY <1>1, <3>1, <3>2, ShapeFields
      <4> QED BY <4>1 DEF Gains
    <3>3. CASE ~(Fades(room, room') \/ Moves(room, room'))
      <4>1. room' = FinalizePique(quiet) BY <3>3, ShowdownStep
      <4>2. Shape(FinalizePique(quiet))
        <5>1. quiet.phase = "SHOWDOWN" /\ quiet.winners # {}
          BY <1>2, KeepsFields DEF Moves
        <5> HIDE DEF quiet
        <5> QED BY <1>2, <5>1, FinalizePiqueEnds DEF Ends, Sound
      <4>3. /\ room.pot \in Nat /\ room.chips[s] \in Int /\ room.mainBet[s] \in Nat
            /\ room'.chips[s] \in Int /\ room'.mainBet[s] \in Nat
        BY <1>1, <4>1, <4>2, ShapeFields
      <4> QED BY <4>3 DEF Gains
    <3> QED BY <3>2, <3>3
  <2> QED BY <1>1, <2>1, ShowdownStep, FadedGainNothing
<1> HIDE DEF quiet
<1>4. /\ quiet.phase = "SHOWDOWN" /\ quiet.winners = room.winners
      /\ quiet.players = room.players /\ quiet.piquePot = room.piquePot
      /\ quiet.chips = room.chips /\ quiet.mainBet = room.mainBet
  BY <1>2, KeepsFields DEF Moves
<1>5. quiet.pot = room.pot /\ Active(quiet) = Active(room)
  BY <1>2 DEF SameBut, Active, F4, Fields
<1>6. Gains(quiet, room', s) = Gains(room, room', s) BY <1>4, <1>5 DEF Gains
<1>7. s \in room.winners \cap room.players /\ room.piquePot > 0
  BY <1>2, <1>3, <1>4, <1>6, FinalizePiqueEnds
<1>8. s \in room.passed /\ \A t \in room.contestants \cap room.players :
                             Hand(room, t) <= Hand(room, s) + 1
  BY <1>1, <1>7 DEF Decided
<1>9. CASE fates = 0
  <2>1. /\ \A t \in room.passed : TieneJuego(Hand(room, t))
        /\ \A t \in room.passed : Hand(room, t) <= Hand(room, s) + 1
    BY <1>1, <1>7, <1>9 DEF Fair
  <2> QED BY <1>8, <1>9, <2>1
<1>10. CASE fates # 0 BY <1>8, <1>10
<1> QED BY <1>9, <1>10

(* A pique that was competed for goes to the best juego: when the showdown *)
(* of those who passed or claimed with juego is closed, nobody gains but   *)
(* one of its winners, whom nobody of the competition beats by more than   *)
(* the point of La Mano.                                                   *)
THEOREM BestJuegoIsPaid == ASSUME Hasty = FALSE PROVE Spec => BestJuegoTakesPique
<1>1. ASSUME Inv, [Next]_vars
      PROVE  room.phase = "SHOWDOWN" /\ room.winners # {} =>
         LET rivals == (IF fates = 0 THEN room.passed ELSE room.contestants) \cap room.players
         IN  \A s \in Seat : Gain(s) > 0 =>
               /\ s \in room.passed /\ (fates = 0 => TieneJuego(Hand(room, s)))
               /\ \A t \in rivals : Hand(room, t) <= Hand(room, s) + 1
  <2>1. \A s \in Seat : Gain(s) = Gains(room, room', s) BY DEF Gain, Gains
  <2> QED BY <1>1, <2>1, ShowdownPaysTheBest
<1> QED BY <1>1, SoundIsInvariant, PTL DEF Spec, BestJuegoTakesPique
===============================================================================
