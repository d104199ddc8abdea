------------------------------ MODULE FourCards ------------------------------
(***************************************************************************)
(* The hand between the pique and the main pot: the first round of bets    *)
(* with four cards (APUESTA_4_CARTAS), the question about juego when       *)
(* everybody checked (JUEGO_VALIDACION), who wins the pique, the discards  *)
(* (DESCARTE) and their replacement (COMPLETAR_DESCARTE).  Pique leaves    *)
(* the table this module starts from, and MainPot starts from the one it   *)
(* leaves.                                                                 *)
(*                                                                         *)
(* Two kinds of handlers await the ledger.  Betting actions do it one at a *)
(* time, in the queue of the room; the calls of a validation are collected *)
(* one after another outside that queue, by a function its caller may not  *)
(* wait for.                                                               *)
(***************************************************************************)
EXTENDS Table, SequencesExt

CONSTANTS
    Deals,        \* the tables the pique may leave
    MinPique,     \* state.minPique
    Raises,       \* the increments a client may ask for with "voy"
    Calls,        \* the amounts a client may answer the validation with
    Drops,        \* how many cards a client may discard
    Outcomes,     \* what recordBet may answer: subset of {"ok", "insufficient", "error"}
    Fates,        \* what may happen to a connection: subset of {"drop", "leave", "abandon"}
    MaxFates,     \* bound on the number of those events
    Hasty,        \* TRUE iff clients may bet while the calls of a validation are collected
                  \* or their question about juego is open
    MaxCleanups   \* bound on the cleanups that are scheduled at the same time

VARIABLES
    room,         \* the record of module Table and the fields of FieldsOfFourCards
    bet,          \* the recordBet call the action queue is waiting for, as in MainPot
    links,        \* connections that are going away, as in MainPot
    fates         \* counter of the events bounded by MaxFates

vars == <<room, bet, links, fates>>

(* The betting rounds, the ledger's answers and the connections are those  *)
(* of the main pot.                                                        *)
M == INSTANCE MainPot WITH AutoTimers <- FALSE

ASSUME FourCardsAssumption ==
    /\ \A d \in Deals :
         /\ M!IsDeal(d) /\ d.pique \in Nat /\ d.merged \in Nat
         /\ d.chips \in [Seat -> Nat] /\ d.mainBet \in [Seat -> Nat]
    /\ MinPique \in Nat \ {0} /\ Raises \subseteq Nat \ {0}
    /\ Calls \subseteq Nat /\ (\A c \in Calls : c >= MinPique) /\ Drops \subseteq 0..4
    /\ Hasty \in BOOLEAN /\ MaxFates \in Nat

NoBet == M!NoBet
NoCall == [left |-> <<>>, all |-> <<>>, amount |-> 0, main |-> NoSeat, paid |-> 0]

(* What these phases keep in the room.  The validation: who has not        *)
(* answered yet, the claims and the calls in the order they came, who may  *)
(* claim, and its timer; the calls that are left to collect, with the      *)
(* amount the ledger is asked for, all of them, the first caller - nobody  *)
(* when the round is reopened - and what he paid; the caller whose juego   *)
(* is shown.  The pique: who wins it when the showdown is closed, among    *)
(* whom, what happens then, with which calls.  The discards: how many      *)
(* cards a player lacks, who is still to be dealt his, and the seat that   *)
(* dealing started from.  In the ledger: what the call of each player was  *)
(* booked with.  Ghost: who was ever away without being removed.           *)
FieldsOfFourCards ==
    [asked |-> {}, claims |-> <<>>, callers |-> <<>>, validators |-> {}, validationTimer |-> FALSE,
     collect |-> NoCall, callerId |-> NoSeat,
     winners |-> {}, contestants |-> {}, continuation |-> "DESCARTE", reopenCallers |-> <<>>,
     missing |-> [s \in Seat |-> 0], dealing |-> {}, dealFrom |-> NoSeat,
     booked |-> [s \in Seat |-> 0], away |-> {}]

HandOf(r) == [s \in Seat |-> Hand(r, s)]

-----------------------------------------------------------------------------
(* The discards.                                                           *)

EnterRevelarCarta(r) == [ClearTurnTimer(r) EXCEPT !.phase = "REVELAR_CARTA", !.revealTimer = TRUE]

(* Who is in and connected now is dealt what he discarded, in turn from La *)
(* Mano.                                                                   *)
EnterReemplazo(r) ==
    LET short == {s \in SeatOrder(r) \cap Active(r) : r.missing[s] > 0}
        start == IF r.mano \in SeatOrder(r) THEN r.mano ELSE Min(SeatOrder(r))
    IN  IF short = {} THEN EnterRevelarCarta(r)
        ELSE [r EXCEPT !.phase = "COMPLETAR_DESCARTE", !.dealing = short, !.dealFrom = start]

AdvanceTurnDescarte(r, from) ==
    LET asked == IF from # NoSeat THEN from ELSE r.turn
        start == IF asked \notin SeatOrder(r) /\ from # NoSeat THEN r.mano ELSE asked
        next  == (SeatOrder(r) \cap Active(r)) \ r.acted
    IN  IF start \notin SeatOrder(r) \/ next = {} THEN EnterReemplazo(ClearTurnTimer(r))
        ELSE GiveTurn(r, IF from # NoSeat THEN FirstFrom(start, next) ELSE FirstAfter(start, next))

EnterDescarte(r) ==
    AdvanceTurnDescarte([ClearTurnTimer(r) EXCEPT !.phase = "DESCARTE", !.acted = @ \ r.players,
                                                  !.pasoBy = NoSeat, !.pasoPhase = "LOBBY"],
                        r.mano)

-----------------------------------------------------------------------------
(* The pique, which those who passed with juego still compete for.         *)

(* The winners are fixed now and paid when somebody closes the showdown.   *)
StartPiqueShowdown(r, contestants, first, continuation, callers) ==
    LET winners == ResolveHandWinners(contestants, HandOf(r), r.mano)
    IN  [r EXCEPT !.winners = winners, !.contestants = contestants,
                  !.continuation = continuation, !.reopenCallers = callers,
                  !.phase = "SHOWDOWN", !.turn = first]

(* A mistake: those who passed left the hand, and the pique with it.       *)
Bug_ResolveUnfolded(r) ==
    LET contestants == Active(r)
    IN  IF r.piquePot <= 0 THEN r
        ELSE IF contestants = {} THEN [r EXCEPT !.pot = @ + r.piquePot, !.piquePot = 0]
        ELSE StartPiqueShowdown(r, contestants,
               Min(ResolveHandWinners(contestants, HandOf(r), r.mano)), "DESCARTE", <<>>)

(* Nobody passed with juego: the pique is added to the main pot.           *)
ResolvePiqueAfterApuesta4(r) ==
    LET contestants == r.passed \cap r.players
    IN  IF r.piquePot <= 0 THEN r
        ELSE IF contestants = {} THEN [r EXCEPT !.pot = @ + r.piquePot, !.piquePot = 0]
        ELSE StartPiqueShowdown(r, contestants,
               Min(ResolveHandWinners(contestants, HandOf(r), r.mano)), "DESCARTE", <<>>)

AwardPiqueToContestant(r, w) ==
    IF w \in r.players /\ r.piquePot > 0
    THEN [PayPlayer(r, w, r.piquePot - RakeOf(r.piquePot), Ref("pique-apuesta4"))
            EXCEPT !.piquePot = 0]
    ELSE r

(* The share of a winner who is gone is paid to nobody.                    *)
AwardSplitPique(r, winners) ==
    LET shares == SplitAmount(r.piquePot - RakeOf(r.piquePot), winners)
    IN  IF r.piquePot <= 0 THEN r
        ELSE [PayTogether(r, [s \in winners \cap r.players |-> shares[s]], Ref("pique-split"))
                EXCEPT !.piquePot = 0]

(* The only player left takes his bet back without commission.             *)
ReturnPot(r) ==
    LET solo == CHOOSE s \in Active(r) : TRUE
    IN  IF Cardinality(Active(r)) = 1 /\ r.pot > 0
        THEN [PayPlayer(r, solo, r.pot, <<"pot", r.pot, 0>>) EXCEPT !.pot = 0]
        ELSE r

-----------------------------------------------------------------------------
(* The end of the round of bets.                                           *)

(* A mistake: the question waits for every answer.                         *)
Bug_NoDeadline(r, withJuego) ==
    [ClearTurnTimer(r) EXCEPT !.phase = "JUEGO_VALIDACION", !.asked = Active(r),
                              !.claims = <<>>, !.callers = <<>>, !.validators = withJuego,
                              !.callerId = NoSeat, !.acted = @ \ Active(r)]

(* Everybody active is asked once more, for everybody checked although     *)
(* there is juego at the table.                                            *)
StartJuegoValidation(r, withJuego) ==
    [ClearTurnTimer(r) EXCEPT !.phase = "JUEGO_VALIDACION", !.asked = Active(r),
                              !.claims = <<>>, !.callers = <<>>, !.validators = withJuego,
                              !.callerId = NoSeat, !.acted = @ \ Active(r),
                              !.validationTimer = TRUE]

ResolveAndStartDescarte(r) ==
    LET withJuego == {s \in Active(r) : TieneJuego(Hand(r, s))}
        resolved  == ResolvePiqueAfterApuesta4(r)
    IN  IF Cardinality(Active(r)) > 1 /\ r.maxBet = 0 /\ withJuego # {}
        THEN StartJuegoValidation(r, withJuego)
        ELSE IF resolved.phase = "SHOWDOWN" THEN resolved
        ELSE IF Cardinality(Active(r)) <= 1 THEN EndHandEarlyAfterFoldOut(resolved)
        ELSE EnterDescarte(resolved)

(* One active player or none.                                              *)
NobodyToPlay(r) ==
    LET resolved == IF r.phase = "APUESTA_4_CARTAS" THEN ResolvePiqueAfterApuesta4(r) ELSE r
    IN  IF r.phase = "APUESTA_4_CARTAS" /\ resolved.winners # {} THEN resolved
        ELSE IF resolved.pot = 0 /\ Active(r) = {} /\ resolved.piquePot = 0
        THEN EndHandEarlyAfterFoldOut(resolved)
        ELSE ResolveAndStartDescarte(resolved)

AdvanceTurnBetting(r, from) ==
    LET asked == IF from # NoSeat THEN from ELSE r.turn
        start == IF asked \notin SeatOrder(r) /\ from # NoSeat THEN r.mano ELSE asked
        next  == {s \in SeatOrder(r) : M!InTurn(r, s)}
    IN  IF Cardinality(Active(r)) <= 1 THEN NobodyToPlay(RefundUncalledBet(r))
        ELSE IF start \notin SeatOrder(r) THEN ResolveAndStartDescarte(r)
        ELSE IF next # {}
        THEN GiveTurn(r, IF from # NoSeat THEN FirstFrom(start, next) ELSE FirstAfter(start, next))
        ELSE ResolveAndStartDescarte(ClearTurnTimer(RefundUncalledBet(r)))

EnterApuesta4(r) ==
    AdvanceTurnBetting(M!OpenRound(ClearTurnTimer(r), "APUESTA_4_CARTAS"), r.mano)

-----------------------------------------------------------------------------
(* The calls of a validation, collected one after another.                 *)

Reopen(r) == AdvanceTurnBetting([r EXCEPT !.turn = r.mano], r.mano)

(* A mistake: the pot keeps what the caller takes back.                    *)
Bug_ReturnExcess(r, s, excess) ==
    [r EXCEPT !.chips[s] = @ + excess, !.roundBet[s] = @ - excess, !.mainBet[s] = @ - excess]

(* What a call bet beyond the minimum comes back, in the room only.        *)
ReturnExcess(r, s, excess) ==
    [r EXCEPT !.chips[s] = @ + excess, !.roundBet[s] = @ - excess, !.mainBet[s] = @ - excess,
              !.pot = Max({0, @ - excess}),
              !.skewed = IF excess > 0 THEN @ \cup {s} ELSE @]

(* A call with juego, without a claim, wins the pique at once and its      *)
(* cards are shown.                                                        *)
WinByCalling(r, s, paid) ==
    [ReturnExcess(AwardPiqueToContestant(r, s), s, Max({0, paid - MinPique}))
       EXCEPT !.callerId = s, !.phase = "PIQUE_REVEAL", !.turn = s]

(* Callers who are gone or out of chips are passed over; the next one is   *)
(* asked for at most what he has.                                          *)
Charge(r, c) ==
    LET able == {i \in DOMAIN c.left :
                   c.left[i].seat \in r.players /\ r.chips[c.left[i].seat] > 0}
        next == c.left[Min(able)]
    IN  [r EXCEPT !.collect =
           IF able = {} THEN [c EXCEPT !.left = <<>>, !.amount = 0]
           ELSE [c EXCEPT !.left = SubSeq(@, Min(able), Len(@)),
                          !.amount = Min({next.amount, r.chips[next.seat]})]]

(* The round of bets is open again when its calls are collected.           *)
AfterReopening(r) ==
    IF r.collect.left # <<>> THEN r ELSE Reopen([r EXCEPT !.collect = NoCall])

CallersReopen(r, callers) ==
    AfterReopening(Charge([r EXCEPT !.phase = "APUESTA_4_CARTAS"],
                          [NoCall EXCEPT !.left = callers, !.all = callers]))

(* Without a claim.  The calls of a player without juego are collected     *)
(* once more before the round is open again.                               *)
AfterCollection(r) ==
    LET c == r.collect
        free == [r EXCEPT !.collect = NoCall]
    IN  IF c.main = NoSeat THEN AfterReopening(r)
        ELSE IF c.left # <<>> THEN r
        ELSE IF c.paid <= 0 THEN EnterDescarte(ResolvePiqueAfterApuesta4(free))
        ELSE IF TieneJuego(Hand(r, c.main)) THEN WinByCalling(free, c.main, c.paid)
        ELSE CallersReopen(free, c.all)

ResolveCallersOnly(r, callers) ==
    LET main == Head(callers).seat
    IN  IF main \notin r.players THEN EnterDescarte(ResolvePiqueAfterApuesta4(r))
        ELSE AfterCollection(
               Charge(r, [NoCall EXCEPT !.left = callers, !.all = callers, !.main = main]))

(* A claim takes its player out of the main pot; the best of the claims    *)
(* wins the pique once the showdown is closed.                             *)
ClaimJuego(r, s) ==
    LET out == [r EXCEPT !.folded = @ \cup {s}, !.passed = @ \cup {s}]
    IN  IF s \notin r.players THEN r
        ELSE IF s = r.mano THEN TransferMano(out) ELSE out

ResolveClaims(r) ==
    LET claimants == Range(r.claims)
        winners == ResolveHandWinners(claimants \cap r.players, HandOf(r), r.mano)
        first == Min({i \in DOMAIN r.claims : r.claims[i] \in winners})
        out == FoldLeft(ClaimJuego, r, r.claims)
    IN  [StartPiqueShowdown(out, claimants, IF winners = {} THEN NoSeat ELSE r.claims[first],
                            IF r.callers # <<>> THEN "REOPEN_BETTING"
                            ELSE IF Cardinality(Active(out)) <= 1 THEN "CLEANUP" ELSE "DESCARTE",
                            r.callers)
          EXCEPT !.winners = winners]

ResolveJuegoValidation(r) ==
    LET quiet == [r EXCEPT !.validationTimer = FALSE]
    IN  IF r.claims # <<>> THEN ResolveClaims(quiet)
        ELSE IF r.callers # <<>> THEN ResolveCallersOnly(quiet, r.callers)
        ELSE EnterDescarte(ResolvePiqueAfterApuesta4(quiet))

-----------------------------------------------------------------------------
(* Betting actions, one at a time.  The round may have been reopened, and  *)
(* the turn be somebody's, while calls are still collected.                *)

MayAct(s) ==
    /\ bet = NoBet
    /\ s \in room.players \cap room.connected
    /\ room.turn = s /\ room.phase = "APUESTA_4_CARTAS"
    /\ room.cleanups < MaxCleanups
    /\ Hasty \/ (room.pasoBy # s /\ room.collect = NoCall)

(* "paso": a check, a question about the juego, or a fold.                 *)
Pass(r, s) ==
    LET quiet == ClearTurnTimer(r)
    IN  IF r.maxBet = 0 \/ r.roundBet[s] >= r.maxBet
        THEN AdvanceTurnBetting([quiet EXCEPT !.acted = @ \cup {s}], NoSeat)
        ELSE IF TieneJuego(Hand(r, s))
        THEN [quiet EXCEPT !.pasoBy = s, !.pasoPhase = r.phase]
        ELSE AdvanceTurnBetting(FoldAndPassMano(CollectPlayerCards(quiet, s), s), NoSeat)

Paso(s) ==
    /\ MayAct(s)
    /\ room' = Pass(room, s)
    /\ UNCHANGED <<bet, links, fates>>

(* A bet that cannot be paid at all is a fold; any other waits for the     *)
(* ledger.                                                                 *)
Submit(s, kind, amount, full) ==
    LET quiet == ClearTurnTimer(room)
    IN  IF room.chips[s] <= 0 /\ kind # "igualar"
        THEN /\ room' = AdvanceTurnBetting(FoldAndPassMano(quiet, s), NoSeat)
             /\ UNCHANGED <<bet, links, fates>>
        ELSE /\ room' = quiet
             /\ bet' = [seat |-> s, kind |-> kind, amount |-> amount, full |-> full,
                        phase |-> room.phase]
             /\ UNCHANGED <<links, fates>>

Voy(s, raise) ==
    /\ MayAct(s) /\ room.roundBet[s] + raise > room.maxBet
    /\ Submit(s, "voy", Min({raise, room.chips[s]}), TRUE)

VoyTooLow(s, raise) ==
    /\ MayAct(s) /\ room.roundBet[s] + raise <= room.maxBet
    /\ room' = ClearTurnTimer(room)
    /\ UNCHANGED <<bet, links, fates>>

Igualar(s) ==
    LET call == room.maxBet - room.roundBet[s]
    IN  /\ MayAct(s)
        /\ IF call <= 0
           THEN /\ room' = AdvanceTurnBetting([ClearTurnTimer(room) EXCEPT !.acted = @ \cup {s}],
                                              NoSeat)
                /\ UNCHANGED <<bet, links, fates>>
           ELSE Submit(s, "igualar", Min({call, room.chips[s]}), room.chips[s] >= call)

Resto(s) ==
    /\ MayAct(s)
    /\ Submit(s, "resto", room.chips[s], TRUE)

BetAccepted ==
    /\ bet # NoBet
    /\ "ok" \in Outcomes /\ 0 < bet.amount /\ bet.amount <= room.balance[bet.seat]
    /\ room' = AdvanceTurnBetting(M!TakeBet(room, bet), NoSeat)
    /\ bet' = NoBet
    /\ UNCHANGED <<links, fates>>

(* The wallet may hold less than the room believes.                        *)
BetUnfunded ==
    /\ bet # NoBet /\ bet.amount > 0
    /\ "insufficient" \in Outcomes \/ bet.amount > room.balance[bet.seat]
    /\ room' = AdvanceTurnBetting(FoldAndPassMano(room, bet.seat), NoSeat)
    /\ bet' = NoBet
    /\ UNCHANGED <<links, fates>>

BetFailed == M!BetFailed

-----------------------------------------------------------------------------
(* The other messages of the clients.                                      *)

(* The answer to the question of a "paso" with juego: the player leaves    *)
(* the main pot and competes for the pique, or leaves both.                *)
MayAnswerPaso(s) ==
    room.pasoBy = s /\ room.phase = room.pasoPhase /\ s \in room.players \cap room.connected

PasoJuegoResponse(s) ==
    /\ MayAnswerPaso(s)
    /\ LET asked == [ClearTurnTimer(room) EXCEPT !.pasoBy = NoSeat, !.pasoPhase = "LOBBY"]
           out == IF TieneJuego(Hand(room, s)) THEN [asked EXCEPT !.passed = @ \cup {s}]
                  ELSE CollectPlayerCards(asked, s)
       IN  room' = AdvanceTurnBetting(FoldAndPassMano(out, s), NoSeat)
    /\ UNCHANGED <<bet, links, fates>>

(* The answers to the validation: "pass", a call of at least the minimum,  *)
(* or a claim by who has juego.                                            *)
MayAnswer(s) ==
    room.phase = "JUEGO_VALIDACION" /\ s \in room.asked \cap room.players \cap room.connected

Answer(s, say, amount) ==
    /\ MayAnswer(s)
    /\ say = "claim-juego" => s \in room.validators
    /\ amount = 0 <=> say # "call"
    /\ LET heard == [room EXCEPT
             !.asked = @ \ {s},
             !.claims = IF say = "claim-juego" THEN Append(@, s) ELSE @,
             !.callers = IF say = "call" THEN Append(@, [seat |-> s, amount |-> amount]) ELSE @]
       IN  room' = IF heard.asked = {} THEN ResolveJuegoValidation(heard) ELSE heard
    /\ UNCHANGED <<bet, links, fates>>

(* A call is booked once, under a reference that names the hand and the    *)
(* player: the ledger answers the same call again with the old result, and *)
(* refuses another amount.                                                 *)
Booked(r, s, amount) == amount > 0 /\ r.booked[s] = amount

Debit(r, s, amount) ==
    IF Booked(r, s, amount) THEN [r EXCEPT !.skewed = @ \cup {s}]
    ELSE [r EXCEPT !.balance[s] = @ - amount, !.booked[s] = amount]

TakeCall(r, s, amount) ==
    LET total == r.roundBet[s] + amount
    IN  [Debit(r, s, amount) EXCEPT
           !.chips[s] = @ - amount, !.roundBet[s] = total, !.mainBet[s] = @ + amount,
           !.pot = @ + amount, !.acted = @ \cup {s}, !.maxBet = Max({@, total}),
           !.collect.paid = IF s = r.collect.main THEN amount ELSE @]

CollectNext(r) ==
    AfterCollection(Charge(r, [r.collect EXCEPT !.left = Tail(@)]))

CallTaken ==
    /\ room.collect # NoCall /\ "ok" \in Outcomes
    /\ LET s == Head(room.collect.left).seat
           amount == room.collect.amount
       IN  /\ Booked(room, s, amount) \/ (room.booked[s] = 0 /\ amount <= room.balance[s])
           /\ room' = CollectNext(TakeCall(room, s, amount))
    /\ UNCHANGED <<bet, links, fates>>

(* A call the ledger refuses is left out.                                  *)
CallRefused ==
    /\ room.collect # NoCall
    /\ LET s == Head(room.collect.left).seat
       IN  \/ Outcomes \cap {"insufficient", "error"} # {}
           \/ room.booked[s] \notin {0, room.collect.amount}
           \/ room.booked[s] = 0 /\ room.collect.amount > room.balance[s]
    /\ room' = CollectNext(room)
    /\ UNCHANGED <<bet, links, fates>>

(* The cards of the caller are covered again.                              *)
MayDismissReveal ==
    /\ room.phase = "PIQUE_REVEAL" /\ room.callerId # NoSeat
    /\ room.players \cap room.connected # {}

DismissReveal ==
    /\ MayDismissReveal
    /\ LET quiet == [ClearTurnTimer(room) EXCEPT !.callerId = NoSeat]
       IN  room' = IF Cardinality(Active(room)) <= 1 THEN ScheduleCleanup(ReturnPot(quiet))
                   ELSE AdvanceTurnBetting([quiet EXCEPT !.phase = "APUESTA_4_CARTAS"], NoSeat)
    /\ UNCHANGED <<bet, links, fates>>

(* Closing the showdown pays the pique that was decided.                   *)
FinalizePique(r) ==
    LET one == CHOOSE s \in r.winners : TRUE
        paid == IF Cardinality(r.winners) = 1 THEN AwardPiqueToContestant(r, one)
                ELSE AwardSplitPique(r, r.winners)
        done == ReturnPot(
                  [paid EXCEPT !.winners = {}, !.contestants = {}, !.continuation = "DESCARTE",
                               !.reopenCallers = <<>>,
                               !.cards = [s \in Seat |-> IF s \in r.contestants \cap r.players
                                                         THEN 0 ELSE @[s]]])
    IN  IF Cardinality(Active(r)) <= 1 \/ r.continuation = "CLEANUP" THEN ScheduleCleanup(done)
        ELSE IF r.continuation = "REOPEN_BETTING" THEN CallersReopen(done, r.reopenCallers)
        ELSE EnterDescarte(done)

MayDismissShowdown ==
    /\ room.phase = "SHOWDOWN" /\ room.cleanups < MaxCleanups
    /\ room.players \cap room.connected # {}

DismissShowdown ==
    /\ MayDismissShowdown
    /\ LET quiet == ClearAutoTimer(ClearTurnTimer(room))
       IN  room' = IF room.winners # {} THEN FinalizePique(quiet)
                   ELSE IF Active(room) # {} /\ room.pot > 0
                   THEN AwardPot(quiet, Min(Active(room)))
                   ELSE EndHandEarlyAfterFoldOut(quiet)
    /\ UNCHANGED <<bet, links, fates>>

(* The discards: k of the cards, or out of the hand.                       *)
MayDiscard(s) ==
    /\ bet = NoBet
    /\ room.phase = "DESCARTE" /\ room.turn = s /\ s \in room.players \cap room.connected

Drop(r, s, k) ==
    AdvanceTurnDescarte([ClearTurnTimer(r) EXCEPT !.acted = @ \cup {s}, !.missing[s] = k], NoSeat)

Discard(s, k) ==
    /\ MayDiscard(s)
    /\ room' = Drop(room, s, k)
    /\ UNCHANGED <<bet, links, fates>>

DescartePaso(s) ==
    /\ MayDiscard(s)
    /\ room' = AdvanceTurnDescarte(FoldAndPassMano(ClearTurnTimer(room), s), NoSeat)
    /\ UNCHANGED <<bet, links, fates>>

-----------------------------------------------------------------------------
(* The timers of the room.                                                 *)

TurnTimeout ==
    /\ room.turnTimer /\ bet = NoBet
    /\ LET quiet == ClearTurnTimer(room)
           s == room.turn
       IN  room' = IF s \notin room.players \cap room.connected THEN quiet
                   ELSE CASE room.phase = "APUESTA_4_CARTAS" -> Pass(quiet, s)
                          [] room.phase = "DESCARTE" -> Drop(quiet, s, 0)
                          [] OTHER -> quiet
    /\ UNCHANGED <<bet, links, fates>>

(* Who has not answered after 30 s passes.  The phase is not looked at.    *)
ValidationTimeout ==
    /\ room.validationTimer
    /\ room' = ResolveJuegoValidation([room EXCEPT !.asked = {}])
    /\ UNCHANGED <<bet, links, fates>>

(* A mistake: one card too many.                                           *)
Bug_OneCardMore(r) ==
    LET s == FirstFrom(r.dealFrom, r.dealing)
        dealt == [r EXCEPT !.missing[s] = @ - 1,
                           !.dealing = IF r.missing[s] = 0 THEN @ \ {s} ELSE @]
    IN  IF dealt.dealing = {} THEN EnterRevelarCarta(dealt) ELSE dealt

(* One card every 800 ms, all of a player's before the next one's.         *)
ReplaceCard(r) ==
    LET s == FirstFrom(r.dealFrom, r.dealing)
        dealt == [r EXCEPT !.missing[s] = @ - 1,
                           !.dealing = IF r.missing[s] = 1 THEN @ \ {s} ELSE @]
    IN  IF dealt.dealing = {} THEN EnterRevelarCarta(dealt) ELSE dealt

ReplaceTick ==
    /\ room.dealing # {}
    /\ room' = ReplaceCard(room)
    /\ UNCHANGED <<bet, links, fates>>

CleanupTimeout ==
    /\ room.cleanups > 0
    /\ room' = CleanupRound([room EXCEPT !.cleanups = @ - 1])
    /\ UNCHANGED <<bet, links, fates>>

-----------------------------------------------------------------------------
(* The hand is handed over to MainPot, or over: no timer and no call of    *)
(* these phases is left.                                                   *)
HandedOver ==
    /\ room.phase \in {"REVELAR_CARTA", "LOBBY"} /\ bet = NoBet /\ room.collect = NoCall
    /\ ~room.validationTimer /\ room.dealing = {} /\ room.cleanups = 0

Disconnect(s) ==
    /\ M!MayLose(s, "drop")
    /\ room' = [Offline(room, s) EXCEPT !.away = @ \cup {s}]
    /\ links' = [links EXCEPT !.grace = @ \cup {s},
                              !.mano = IF M!WasMano(s) THEN @ \cup {s} ELSE @ \ {s}]
    /\ UNCHANGED bet

Connection(s) ==
    /\ ~HandedOver
    /\ \/ Disconnect(s) \/ M!Reconnect(s) \/ M!GraceExpires(s)
       \/ M!Leave(s) \/ M!LeaveDone(s) \/ M!Abandon(s)

(* The pique is over: everybody holds four cards, the main pot is empty.   *)
Init ==
    /\ \E d \in Deals :
         room = EnterApuesta4(RoomWith(
                  [M!Start(d) EXCEPT !.piquePot = d.pique, !.revealTimer = FALSE],
                  FieldsOfFourCards))
    /\ bet = NoBet
    /\ links = [grace |-> {}, mano |-> {}, leaving |-> {}]
    /\ fates = 0

BettingAction(s) ==
    \/ Paso(s)
    \/ \E raise \in Raises : Voy(s, raise) \/ VoyTooLow(s, raise)
    \/ Igualar(s)
    \/ Resto(s)

ClientMessage(s) ==
    \/ BettingAction(s)
    \/ PasoJuegoResponse(s)
    \/ \E say \in {"pass", "call", "claim-juego"}, amount \in Calls \cup {0} :
         Answer(s, say, amount)
    \/ \E k \in Drops : Discard(s, k)
    \/ DescartePaso(s)

LedgerReply == BetAccepted \/ BetUnfunded \/ BetFailed \/ CallTaken \/ CallRefused

Timer == TurnTimeout \/ ValidationTimeout \/ ReplaceTick \/ CleanupTimeout

Next ==
    \/ \E s \in Seat : ClientMessage(s) \/ Connection(s)
    \/ DismissReveal \/ DismissShowdown
    \/ LedgerReply
    \/ Timer

Spec == Init /\ [][Next]_vars

-----------------------------------------------------------------------------
(* What the state is made of.  No pot and no bet on the table is ever in   *)
(* debt, though a call may be charged twice and its excess comes back; and *)
(* whatever the ledger is asked to debit, the player still has when it     *)
(* answers.  The stack is an integer: a pot below 100 cents is less than   *)
(* its commission.                                                         *)
TypeOK ==
    /\ room.phase \in {"APUESTA_4_CARTAS", "JUEGO_VALIDACION", "PIQUE_REVEAL", "SHOWDOWN",
                       "DESCARTE", "COMPLETAR_DESCARTE", "REVELAR_CARTA", "LOBBY"}
    /\ room.turn \in Seat \cup {NoSeat} /\ room.mano \in Seat \cup {NoSeat}
    /\ room.dealer \in Seat
    /\ \A g \in Groups \cup {"asked", "validators", "winners", "contestants", "dealing", "away"} :
         room[g] \subseteq Seat
    /\ \A b \in Flags \cup {"validationTimer"} : room[b] \in BOOLEAN
    /\ \A n \in {"pot", "piquePot", "maxBet", "cleanups"} : room[n] \in Nat
    /\ \A m \in {"roundBet", "mainBet", "booked"} : room[m] \in [Seat -> Nat]
    /\ room.chips \in [Seat -> Int]
    /\ bet # NoBet => bet.seat \in Seat /\ bet.amount <= room.chips[bet.seat]
    /\ room.collect # NoCall =>
         room.collect.amount \in 1..room.chips[Head(room.collect.left).seat]
    /\ room.missing \in [Seat -> 0..4]
    /\ room.callerId \in Seat \cup {NoSeat}
    /\ links \in [grace : SUBSET Seat, mano : SUBSET Seat, leaving : SUBSET Seat]
    /\ fates \in 0..MaxFates

(* What a step gives a player beyond his own stake coming back, and beyond *)
(* the pot the last player of the hand takes.                              *)
Gain(s) ==
    (room'.chips[s] + room'.mainBet[s]) - (room.chips[s] + room.mainBet[s])
      - IF Active(room) = {s} THEN room.pot ELSE 0

(* A pique that was competed for goes to the best juego: when the showdown *)
(* of those who passed or claimed with juego is closed, nobody else gains  *)
(* anything, and no hand of the competition beats one that does - although *)
(* La Mano may have passed on meanwhile, which is worth one point.  Unless *)
(* a connection was lost, the competition are all who have left the main   *)
(* pot; otherwise those of this showdown: when a winner is gone before he  *)
(* is paid, the pique goes to the next, whose cards may be collected.      *)
BestJuegoTakesPique ==
    [][room.phase = "SHOWDOWN" /\ room.winners # {} =>
         LET rivals == (IF fates = 0 THEN room.passed ELSE room.contestants) \cap room.players
         IN  \A s \in Seat : Gain(s) > 0 =>
               /\ s \in room.passed /\ (fates = 0 => TieneJuego(Hand(room, s)))
               /\ \A t \in rivals : Hand(room, t) <= Hand(room, s) + 1]_vars

(* Nobody discards for free: when the bets end in the discards, the        *)
(* players who are in the hand with chips left have put the same in the    *)
(* main pot.  Not those who were away while the others bet, nor those who  *)
(* wait for the next hand.  The round ends with the turn of a player: a    *)
(* bet that comes after the removal of its player ends the round for all   *)
(* (at a showdown of the pique it no longer shows whether one did); and a  *)
(* validation whose first call is refused keeps the calls it took.         *)
PaidToDiscard ==
    [][room'.phase = "DESCARTE" /\ room.phase \notin {"DESCARTE", "JUEGO_VALIDACION"}
         /\ room.turn \in SeatOrder(room) /\ (room.phase = "SHOWDOWN" => fates = 0) =>
         LET players == (SeatOrder(room') \cap Active(room')) \ (room'.allIn \cup room'.away)
             payers == {s \in players : room'.chips[s] > 0}
         IN  \A s, t \in payers : room'.mainBet[s] = room'.mainBet[t]]_vars

(* All the chips in the room, while its pots are to be paid.               *)
ChipsOf(r) ==
    SumFunctionOnSet(r.chips, Seat)
      + IF r.cleanups > 0 THEN 0 ELSE r.pot + r.piquePot

(* No chips are made, whatever is charged and given back; and none are     *)
(* lost but the commission of what is paid, as long as everybody stays     *)
(* connected.                                                              *)
OnlyRakeLeaves ==
    [][LET lost == ChipsOf(room) - ChipsOf(room')
           ended == room'.cleanups > room.cleanups \/ room'.phase = "LOBBY"
       IN  /\ 0 <= lost
           /\ fates = 0 => lost <= RakeOf(room.piquePot)
                                     + IF ended THEN RakeOf(Max({room.pot, room'.pot})) ELSE 0]_vars

(* The comment of resolveCallersOnly: "Toda respuesta Igualar se registra  *)
(* antes de tocar la memoria de la sala".  A call that is taken in the     *)
(* room is debited from the wallet as well.                                *)
CallsAreBooked ==
    [][room.collect # NoCall =>
         \A s \in Seat : room'.chips[s] < room.chips[s] =>
           room.balance[s] - room'.balance[s] = room.chips[s] - room'.chips[s]]_vars

-----------------------------------------------------------------------------
(* Liveness, under the fairness of MainPot: the event loop and the ledger  *)
(* do what is due, somebody closes what the table is shown, and players    *)
(* who are asked for a move again and again make one that needs no bet.    *)

MayServe ==
    \/ bet # NoBet \/ room.collect # NoCall
    \/ room.validationTimer \/ room.dealing # {} \/ room.cleanups > 0
    \/ MayDismissReveal \/ MayDismissShowdown

Serve == LedgerReply \/ ValidationTimeout \/ ReplaceTick \/ CleanupTimeout
           \/ DismissReveal \/ DismissShowdown

MayMove(s) == MayAct(s) \/ MayAnswerPaso(s) \/ MayDiscard(s)

Move(s) == Paso(s) \/ PasoJuegoResponse(s) \/ \E k \in Drops : Discard(s, k)

Fairness ==
    /\ <>[]MayServe => []<><<Serve>>_vars
    /\ []<>(\E s \in Seat : MayMove(s)) => []<><<\E s \in Seat : Move(s)>>_vars

FairSpec == Spec /\ Fairness

(* Unless a player loses his connection, the hand gets to its bottom card  *)
(* or back to the LOBBY, with no call, card or timer left over.            *)
HandGoesOn == [](fates = 0) => <>[]HandedOver
=============================================================================
