-------------------------------- MODULE Table --------------------------------
(***************************************************************************)
(* The memory of one room (rooms/MesaRoom.ts) while the main pot of a hand *)
(* is played, and the synchronous helpers every handler of that room       *)
(* calls.  The room is ONE record, and a helper of the code is an operator *)
(* from the room before the call to the room after it: a handler that      *)
(* calls four helpers is the composition of four operators, in the order   *)
(* of the code, and is still one atomic step of the room's event loop.     *)
(*                                                                         *)
(* Seats are 1..N in the order of seatOrder; 0 stands for the empty id "". *)
(* A boolean of every Player object is the set of the seats where it is    *)
(* TRUE, a number is a function on Seat.  A seat whose Player was deleted  *)
(* keeps its values: a handler that holds the object across an await still *)
(* writes to it.                                                           *)
(***************************************************************************)
EXTENDS Pots

CONSTANT N

ASSUME NAssumption == N \in Nat \ {0}

Seat == 1..N
NoSeat == 0

BettingPhases == {"GUERRA", "CANTICOS", "GUERRA_JUEGO"}
Phases == BettingPhases \cup
    {"REVELAR_CARTA", "DECLARAR_JUEGO", "PIQUE_REVEAL", "SHOWDOWN", "SHOWDOWN_WAIT", "LOBBY"}

(* Players.filter(p => !p.isFolded && p.connected): the code's notion of   *)
(* an active player.  It does not look at isWaiting.                       *)
Active(r) == (r.players \cap r.connected) \ r.folded

(* seatOrder: waiting players enter it only when they are promoted.        *)
SeatOrder(r) == r.players \ r.waiting

Hand(r, s) == IF r.cards[s] = 0 THEN NINGUNA ELSE r.cards[s]

-----------------------------------------------------------------------------
(* The ledger of public.process_ledger_entry and public.award_pot as the   *)
(* room uses it: a balance per player and the references already used.     *)
(* A reference names one operation of one player: a second operation with  *)
(* a used reference moves no money (the same payload is answered with the  *)
(* old result, another payload with an error), and neither does an amount  *)
(* that is not positive.  Ghost: "skewed" collects the players whose RAM   *)
(* chips moved while such a call left the ledger where it was.             *)

Ref(kind) == <<kind, 0, 0>>

(* The reference awardPot derives when its caller names no operation.      *)
PotRef(amount) == <<"pot", amount - RakeOf(amount), RakeOf(amount)>>

LedgerAccepts(r, s, amount, ref) == amount > 0 /\ <<s, ref>> \notin r.refs

LedgerCredit(r, s, amount, ref) ==
    IF LedgerAccepts(r, s, amount, ref)
    THEN [r EXCEPT !.balance[s] = @ + amount, !.refs = @ \cup {<<s, ref>>}]
    ELSE r

(* A mistake the properties are tested against: the award is never sent.   *)
Bug_PayInRamOnly(r, s, amount, ref) == [r EXCEPT !.chips[s] = @ + amount]

(* chips += amount in RAM, and the credit under the reference: every       *)
(* payout and every refund of the room but the one of resetRoomState.      *)
PayPlayer(r, s, amount, ref) ==
    LET credited == LedgerCredit(r, s, amount, ref)
    IN  IF amount = 0 THEN r
        ELSE [credited EXCEPT !.chips[s] = @ + amount,
                              !.skewed = IF LedgerAccepts(r, s, amount, ref)
                                         THEN @ ELSE @ \cup {s}]

(* The same for several players at once: payout maps each to his amount.   *)
PayTogether(r, payout, ref) ==
    LET paid == {s \in DOMAIN payout : payout[s] # 0}
        accepted == {s \in paid : LedgerAccepts(r, s, payout[s], ref)}
    IN  [r EXCEPT !.chips   = [s \in Seat |-> IF s \in paid THEN @[s] + payout[s] ELSE @[s]],
                  !.balance = [s \in Seat |-> IF s \in accepted THEN @[s] + payout[s] ELSE @[s]],
                  !.refs    = @ \cup {<<s, ref>> : s \in accepted},
                  !.skewed  = @ \cup (paid \ accepted)]

-----------------------------------------------------------------------------
(* Turn order.                                                             *)

(* How many seats clockwise from x to s, and the same with a full turn     *)
(* instead of 0: the two ways the code's loops over seatOrder start.       *)
StepsFrom(x, s)  == (s - x + N) % N
StepsAfter(x, s) == IF s = x THEN N ELSE StepsFrom(x, s)

FirstFrom(x, C)  == CHOOSE s \in C : \A t \in C : StepsFrom(x, s) <= StepsFrom(x, t)
FirstAfter(x, C) == CHOOSE s \in C : \A t \in C : StepsAfter(x, s) <= StepsAfter(x, t)

(* A mistake: clearTurnTimer() forgets to clear.                           *)
Bug_KeepTurnTimer(r) == r

ClearTurnTimer(r) == [r EXCEPT !.turnTimer = FALSE]
ClearAutoTimer(r) == [r EXCEPT !.autoTimer = FALSE]

(* turnPlayerId = s; startTurnTimer() arms nothing for a seat that is gone *)
(* or disconnected.                                                        *)
GiveTurn(r, s) ==
    [r EXCEPT !.turn = s, !.turnTimer = s \in r.players \cap r.connected]

TransferMano(r) ==
    LET heirs == SeatOrder(r) \cap Active(r)
    IN  IF r.mano \in SeatOrder(r) /\ heirs # {}
        THEN [r EXCEPT !.mano = FirstAfter(r.mano, heirs)]
        ELSE r

(* A mistake: the old dealer is dismissed and nobody follows him.          *)
Bug_NoNextDealer(r) == [r EXCEPT !.dealer = NoSeat]

NextDealer(r) ==
    IF r.dealer \in SeatOrder(r)
    THEN [r EXCEPT !.dealer = FirstAfter(r.dealer, SeatOrder(r))]
    ELSE r

AttemptManoRotation(r, s) ==
    IF s = r.dealer /\ ~r.rotated
    THEN NextDealer([r EXCEPT !.rotated = TRUE])
    ELSE r

(* A player leaves the hand: the tail of every fold of the betting rounds. *)
FoldAndPassMano(r, s) ==
    LET folded  == [r EXCEPT !.folded = @ \cup {s}, !.acted = @ \cup {s}]
        rotated == AttemptManoRotation(folded, s)
    IN  IF s = r.mano THEN TransferMano(rotated) ELSE rotated

CollectPlayerCards(r, s) ==
    IF s \in r.players THEN [r EXCEPT !.cards[s] = 0] ELSE r

MarkDisconnectedAsImplicitAllIn(r) ==
    [r EXCEPT !.allIn = @ \cup {s \in r.players \ (r.connected \cup r.folded) :
                                   0 < r.roundBet[s] /\ r.roundBet[s] < r.maxBet}]

-----------------------------------------------------------------------------
(* The end of a hand.                                                      *)

PromoteWaitingPlayers(r) == [r EXCEPT !.waiting = {}]

CleanupRound(r) ==
    LET cleared == PromoteWaitingPlayers(
                     [ClearAutoTimer(ClearTurnTimer(r))
                        EXCEPT !.forced = NoSeat, !.pot = 0, !.piquePot = 0, !.mano = NoSeat,
                               !.phase = "LOBBY"])
    IN  IF r.rotated THEN cleared ELSE NextDealer(cleared)

ScheduleCleanup(r) == [r EXCEPT !.cleanups = @ + 1]

(* awardPot: one winner takes the pot and the pique and the hand is over.  *)
AwardPot(r, w) ==
    IF w \in r.players
    THEN CleanupRound(PayPlayer(r, w,
           (r.pot - RakeOf(r.pot)) + (r.piquePot - RakeOf(r.piquePot)), Ref("showdown-single")))
    ELSE r

(* A mistake: the refund is not taken out of the pot.                      *)
Bug_ReturnBesidesPot(r, s, uncalled) ==
    [PayPlayer(r, s, uncalled, Ref("uncalled")) EXCEPT !.roundBet[s] = @ - uncalled,
                                                       !.mainBet[s] = @ - uncalled]

(* The refund of the part of the highest bet of the round nobody matched.  *)
ReturnUncalled(r, s, uncalled) ==
    LET paid == PayPlayer(r, s, uncalled, Ref("uncalled"))
    IN  [paid EXCEPT !.roundBet[s] = @ - uncalled, !.mainBet[s] = @ - uncalled,
                     !.pot = IF @ >= uncalled THEN @ - uncalled ELSE 0]

RefundUncalledBet(r) ==
    LET pool == {s \in r.players : s \in r.connected \/ r.roundBet[s] > 0}
        Second(s) == Max({r.roundBet[t] : t \in pool \ {s}} \cup {0})
        above == {s \in pool \ r.folded : r.roundBet[s] > Second(s)}
        leader == CHOOSE s \in above : TRUE
    IN  IF above # {} THEN ReturnUncalled(r, leader, r.roundBet[leader] - Second(leader)) ELSE r

(* RefundAllActiveBets gives every player back what he put in the main     *)
(* pot, shares the pique between the players still in the hand, and        *)
(* returns the room to the LOBBY.                                          *)
RefundAllActiveBets(r) ==
    LET owed    == {s \in r.players : r.mainBet[s] > 0}
        sharers == IF r.piquePot > 0 THEN r.players \ r.folded ELSE {}
        share   == r.piquePot \div Cardinality(sharers)
        PiqueShare(s) == share + IF \A t \in sharers : s <= t
                                 THEN r.piquePot - share * Cardinality(sharers) ELSE 0
        PiqueGives == {s \in sharers : PiqueShare(s) > 0}
        Amount(s) == (IF s \in owed THEN r.mainBet[s] ELSE 0)
                       + (IF s \in PiqueGives THEN PiqueShare(s) ELSE 0)
        used == {<<s, Ref("cancelled")>> : s \in owed}
                  \cup {<<s, Ref("cancelled-pique")>> : s \in PiqueGives}
        Credited(s) ==
            (IF <<s, Ref("cancelled")>> \in used \ r.refs THEN r.mainBet[s] ELSE 0)
              + (IF <<s, Ref("cancelled-pique")>> \in used \ r.refs THEN PiqueShare(s) ELSE 0)
    IN  PromoteWaitingPlayers(
          [r EXCEPT !.chips   = [s \in Seat |-> r.chips[s] + Amount(s)],
                    !.balance = [s \in Seat |-> r.balance[s] + Credited(s)],
                    !.refs    = @ \cup used,
                    !.skewed  = @ \cup {s \in Seat : \E u \in used \cap r.refs : u[1] = s},
                    !.pot = 0, !.piquePot = 0, !.turn = NoSeat, !.mano = NoSeat,
                    !.acted = @ \ r.players, !.folded = @ \ r.players,
                    !.mainBet  = [s \in Seat |-> IF s \in r.players THEN 0 ELSE @[s]],
                    !.roundBet = [s \in Seat |-> IF s \in r.players THEN 0 ELSE @[s]],
                    !.phase = "LOBBY"])

(* The best hand among the players still active takes the pique, the first *)
(* of them when several are equal.                                         *)
PayPiqueToBest(r, candidates) ==
    LET best == ResolveHandWinners(candidates, [s \in Seat |-> Hand(r, s)],
                                   IF r.mano # NoSeat THEN r.mano ELSE r.dealer)
        w == CHOOSE s \in best : \A t \in best : s <= t
    IN  IF r.piquePot > 0
        THEN PayPlayer(r, w, r.piquePot - RakeOf(r.piquePot), PotRef(r.piquePot))
        ELSE r

(* The pots are paid but not emptied, and the phase and the turn stay, for *)
(* the three seconds until the scheduled cleanup.                          *)
EndHandEarlyAfterFoldOut(r) ==
    LET remaining == Active(r)
        solo  == CHOOSE s \in remaining : TRUE
        quiet == ClearTurnTimer(r)
        paid  == IF Cardinality(remaining) = 1 /\ r.pot > 0
                 THEN PayPlayer(quiet, solo, r.pot - RakeOf(r.pot), PotRef(r.pot))
                 ELSE quiet
    IN  IF remaining = {} THEN RefundAllActiveBets(quiet)
        ELSE ScheduleCleanup(PayPiqueToBest(paid, remaining))

(* resetRoomState refunds the main bets of a hand in the ledger only: the  *)
(* chips in RAM are expected to be read again when a player comes back.    *)
ResetRoomState(r) ==
    LET owed     == IF r.phase = "LOBBY" THEN {} ELSE {s \in r.players : r.mainBet[s] > 0}
        credited == {s \in owed : <<s, Ref("all-disconnected")>> \notin r.refs}
    IN  [r EXCEPT !.balance = [s \in Seat |-> IF s \in credited THEN @[s] + r.mainBet[s] ELSE @[s]],
                  !.refs    = @ \cup {<<s, Ref("all-disconnected")>> : s \in owed},
                  !.skewed  = @ \cup credited,
                  !.turnTimer = FALSE, !.autoTimer = FALSE,
                  !.phase = "LOBBY", !.pot = 0, !.piquePot = 0,
                  !.mano = NoSeat, !.turn = NoSeat,
                  !.folded = @ \ r.players, !.acted = @ \ r.players, !.allIn = @ \ r.players,
                  !.passed = @ \ r.players, !.declined = @ \ r.players,
                  !.yes = @ \ r.players, !.no = @ \ r.players,
                  !.roundBet = [s \in Seat |-> IF s \in r.players THEN 0 ELSE @[s]],
                  !.mainBet  = [s \in Seat |-> IF s \in r.players THEN 0 ELSE @[s]],
                  !.cards    = [s \in Seat |-> IF s \in r.players THEN 0 ELSE @[s]]]

(* removePlayer deletes the player and repairs the ids that named it; it   *)
(* gives the turn to nobody.                                               *)
RemovePlayer(r, s) ==
    LET gone == [r EXCEPT !.players = @ \ {s}]
        order == SeatOrder(gone)
        heir == IF gone.players = {} \/ r.dealer # s THEN r.dealer
                ELSE IF order # {} THEN Min(order) ELSE Min(gone.players)
        dealt == [gone EXCEPT !.dealer = heir,
                              !.mano = IF @ = s /\ gone.players # {} /\ r.phase # "LOBBY"
                                       THEN heir ELSE @]
        idle == IF r.turn = s THEN ClearTurnTimer([dealt EXCEPT !.turn = NoSeat]) ELSE dealt
    IN  IF gone.players = {} THEN ResetRoomState(idle) ELSE idle

-----------------------------------------------------------------------------
(* A player goes offline.  A room nobody is connected to starts afresh.    *)

Offline(r, s) ==
    LET off == [r EXCEPT !.connected = @ \ {s}]
    IN  IF off.players \cap off.connected = {} THEN ResetRoomState(off) ELSE off

(* A consented leave moves the deal to the next connected player.          *)
HandOverDeal(r, s) ==
    LET heirs  == SeatOrder(r) \cap r.connected
        others == r.players \cap r.connected
    IN  IF r.dealer # s \/ others = {} THEN r
        ELSE [r EXCEPT !.rotated = TRUE,
                       !.dealer = IF s \in SeatOrder(r) /\ heirs # {} THEN FirstAfter(s, heirs)
                                  ELSE Min(others)]

-----------------------------------------------------------------------------
(* The record with the fields that one part of the hand adds to it.        *)
RoomWith(r, fields) ==
    [f \in DOMAIN r \cup DOMAIN fields |-> IF f \in DOMAIN r THEN r[f] ELSE fields[f]]

(* The shape of the record, with the amounts of money left open: which     *)
(* fields there are, and what their values may be.                         *)

Fields == {"phase", "turn", "mano", "dealer", "rotated", "pot", "piquePot", "maxBet",
           "players", "connected", "waiting", "folded", "acted", "allIn", "passed",
           "declined", "yes", "no", "chips", "roundBet", "mainBet", "cards", "turnTimer",
           "autoTimer", "revealTimer", "cleanups", "pasoBy", "pasoPhase", "llevoBy",
           "returnTo", "forced", "pending", "balance", "refs", "skewed"}

IsSeatMap(f) == DOMAIN f = Seat

(* No hand is worth more: a type is 100..400, its points are below 100.    *)
MaxHand == 499

Groups == {"players", "connected", "waiting", "folded", "acted", "allIn", "passed",
           "declined", "yes", "no", "skewed"}
Maps == {"chips", "roundBet", "mainBet", "balance"}
Flags == {"rotated", "turnTimer", "autoTimer", "revealTimer", "pending"}

(* A question about juego and a reveal of juego remember the betting round *)
(* they interrupted: the callback the hand goes on with is looked up there. *)
RoomOK(r) ==
    /\ DOMAIN r = Fields
    /\ r.phase \in Phases /\ r.dealer \in Seat /\ r.cleanups \in Nat
    /\ r.turn \in Seat \cup {NoSeat} /\ r.mano \in Seat \cup {NoSeat}
    /\ r.forced \in Seat \cup {NoSeat}
    /\ \/ r.pasoBy = NoSeat /\ r.pasoPhase = "LOBBY"
       \/ r.pasoBy \in Seat /\ r.pasoPhase \in BettingPhases
    /\ \/ r.llevoBy = NoSeat /\ r.returnTo = "LOBBY"
       \/ r.llevoBy \in Seat /\ r.returnTo \in BettingPhases
    /\ \A g \in Groups : r[g] \subseteq Seat
    /\ \A m \in Maps : IsSeatMap(r[m])
    /\ r.cards \in [Seat -> 0..MaxHand]
    /\ \A b \in Flags : r[b] \in BOOLEAN

(* RAM and ledger agree on everyone at the table who is not "skewed".      *)
Match(r) == \A s \in r.players \ r.skewed : r.chips[s] = r.balance[s]

(* An armed turn timer belongs to a player of the room.                    *)
Owned(r) == r.turnTimer => r.turn \in r.players
=============================================================================
