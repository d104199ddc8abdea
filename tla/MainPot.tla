------------------------------- MODULE MainPot -------------------------------
(***************************************************************************)
(* The main pot of a hand of Primera, from the GUERRA round to the LOBBY:  *)
(* the betting rounds GUERRA, CANTICOS and GUERRA_JUEGO, the declaration   *)
(* of juego between them, the showdown, and everything that may happen to  *)
(* the players' connections meanwhile.                                     *)
(*                                                                         *)
(* The room is a Node.js object: a handler runs without interruption up to *)
(* its first await.  The only awaits of this part are SupabaseService      *)
(* .recordBet, inside a betting action, and the revocation of the voice    *)
(* channel, inside a consented leave.  A handler that awaits is two        *)
(* actions here, and everything else may happen between them.              *)
(***************************************************************************)
EXTENDS Table

CONSTANTS
    Deals,        \* the tables a hand may reach GUERRA with
    Raises,       \* the increments a client may ask for with "voy"
    Outcomes,     \* what recordBet may answer: subset of {"ok", "insufficient", "error"}
    Fates,        \* what may happen to a connection: subset of {"drop", "leave", "abandon"}
    MaxFates,     \* bound on the number of those events
    Hasty,        \* TRUE iff a client may bet while his "paso" awaits the answer about juego
    AutoTimers,   \* TRUE iff the 30 s showdown timer may expire before a player answers
    MaxCleanups   \* bound on the cleanups that are scheduled at the same time

IsDeal(d) ==
    /\ d.mano \in Seat /\ d.dealer \in Seat /\ d.rotated \in BOOLEAN
    /\ d.waiting \subseteq Seat /\ d.folded \subseteq Seat /\ d.allIn \subseteq Seat
    /\ d.chips \in [Seat -> Int] /\ d.mainBet \in [Seat -> Nat] /\ d.merged \in Nat
    /\ d.cards \in [Seat -> 0..MaxHand]

ASSUME MainPotAssumption ==
    (\A d \in Deals : IsDeal(d)) /\ Raises \subseteq Int /\ MaxFates \in Nat

VARIABLES
    room,         \* the record of module Table
    bet,          \* the recordBet call the action queue is waiting for, or NoBet
    links,        \* connections that are going away, and how many did
    fates         \* counter of the events bounded by MaxFates

vars == <<room, bet, links, fates>>

NoBet == [seat |-> NoSeat, kind |-> "none", amount |-> 0, full |-> FALSE, phase |-> "LOBBY"]

-----------------------------------------------------------------------------
(* A handler hands the room over to what it calls last: nothing, the       *)
(* advanceNext() of a betting round, or the entry of a phase.  Finish runs *)
(* those calls, in the same step.                                          *)

Still(r) == [room |-> r, due |-> "nothing", phase |-> r.phase]
Advance(r, phase) == [room |-> r, due |-> "advance", phase |-> phase]
Enter(r, phase) == [room |-> r, due |-> "enter", phase |-> phase]

NextPhase ==
    [GUERRA |-> "CANTICOS", CANTICOS |-> "DECLARAR_JUEGO", GUERRA_JUEGO |-> "SHOWDOWN"]

(* Two mistakes: an all-in player is asked again, or a raise is not        *)
(* answered by those who have acted.                                       *)
Bug_InTurnAllIn(r, s) ==
    /\ s \in Active(r) \ (r.passed \cup r.declined)
    /\ s \notin r.acted \/ r.roundBet[s] < r.maxBet

Bug_InTurnOnce(r, s) == s \in Active(r) \ (r.allIn \cup r.passed \cup r.declined \cup r.acted)

InTurn(r, s) ==
    /\ s \in Active(r) \ (r.allIn \cup r.passed \cup r.declined)
    /\ s \notin r.acted \/ r.roundBet[s] < r.maxBet

(* One active player or none, after the refund of an uncalled bet.         *)
NobodyToPlay(r, phase) ==
    IF r.pot = 0 /\ Active(r) = {} /\ r.piquePot = 0
    THEN Still(EndHandEarlyAfterFoldOut(r))
    ELSE Enter(r, NextPhase[phase])

AdvanceTurnBetting(r, from, phase) ==
    LET asked == IF from # NoSeat THEN from ELSE r.turn
        start == IF asked \notin SeatOrder(r) /\ from # NoSeat THEN r.mano ELSE asked
        next  == {s \in SeatOrder(r) : InTurn(r, s)}
    IN  IF Cardinality(Active(r)) <= 1 THEN NobodyToPlay(RefundUncalledBet(r), phase)
        ELSE IF start \notin SeatOrder(r) THEN Enter(r, NextPhase[phase])
        ELSE IF next # {}
        THEN Still(GiveTurn(r, IF from # NoSeat THEN FirstFrom(start, next)
                                                ELSE FirstAfter(start, next)))
        ELSE Enter(ClearTurnTimer(RefundUncalledBet(r)), NextPhase[phase])

-----------------------------------------------------------------------------
(* The showdown.                                                           *)

(* One pot to the best of its eligible hands.                              *)
PotWinners(r, pot) ==
    ResolveHandWinners(pot.eligible, [s \in Seat |-> Hand(r, s)],
                       IF r.mano # NoSeat THEN r.mano ELSE r.dealer)

PotShare(r, pot, s) ==
    IF s \in PotWinners(r, pot)
    THEN SplitAmount(pot.amount - RakeOf(pot.amount), PotWinners(r, pot))[s]
    ELSE 0

(* What every winner of a pot receives: his shares, and the pique for the  *)
(* first winner of the last pot.                                           *)
Payouts(r, pots) ==
    LET last  == CHOOSE p \in pots : \A q \in pots : q.level <= p.level
        first == Min(PotWinners(r, last))
        pique == r.piquePot - RakeOf(r.piquePot)
    IN  [s \in UNION {PotWinners(r, p) : p \in pots} |->
           SumFunctionOnSet([p \in pots |-> PotShare(r, p, s)], pots)
             + IF s = first /\ pique > 0 THEN pique ELSE 0]

(* Two or more competitors: the pots are paid at once, each player's       *)
(* payouts in one operation of the ledger.  The pots stay on the table     *)
(* until the showdown is closed.                                           *)
SettleShowdown(r, competitors) ==
    PayTogether([r EXCEPT !.turnTimer = FALSE, !.autoTimer = TRUE, !.pending = TRUE],
                Payouts(r, {p \in SidePots(r.players, r.mainBet, r.pot, competitors) :
                              p.eligible # {}}),
                Ref("showdown"))

Showdown(r) ==
    LET open == [r EXCEPT !.phase = "SHOWDOWN"]
        competitors == (r.players \cap (r.connected \cup r.allIn)) \ r.folded
        w == CHOOSE s \in competitors : TRUE
    IN  IF competitors = {}
        THEN PromoteWaitingPlayers([r EXCEPT !.pot = 0, !.piquePot = 0, !.phase = "LOBBY"])
        ELSE IF Cardinality(competitors) > 1 THEN SettleShowdown(open, competitors)
        ELSE IF r.forced = w
        THEN [open EXCEPT !.turn = w, !.turnTimer = FALSE, !.autoTimer = TRUE]
        ELSE IF r.pot > 0
        THEN [open EXCEPT !.phase = "SHOWDOWN_WAIT", !.turn = w,
                          !.turnTimer = FALSE, !.autoTimer = TRUE]
        ELSE IF r.cards[w] # 0 THEN [open EXCEPT !.autoTimer = TRUE]
        ELSE EndHandEarlyAfterFoldOut(open)

-----------------------------------------------------------------------------
(* The phases.                                                             *)

OpenRound(r, phase) ==
    [r EXCEPT !.phase = phase, !.maxBet = 0, !.acted = @ \ r.players,
              !.roundBet = [s \in Seat |-> IF s \in r.players THEN 0 ELSE @[s]]]

EnterGuerra(r) ==
    AdvanceTurnBetting([OpenRound(ClearTurnTimer(r), "GUERRA")
                          EXCEPT !.pasoBy = NoSeat, !.pasoPhase = "LOBBY"],
                       r.mano, "GUERRA")

EnterCanticos(r) ==
    IF r.maxBet = 0 THEN Enter(ClearTurnTimer(r), "DECLARAR_JUEGO")
    ELSE AdvanceTurnBetting([OpenRound(r, "CANTICOS")
                               EXCEPT !.pasoBy = NoSeat, !.pasoPhase = "LOBBY"],
                            r.mano, "CANTICOS")

(* The players who declared no juego are out as soon as one declared it.   *)
FoldWithoutJuego(r, without) ==
    LET folded == [r EXCEPT !.folded = @ \cup without]
    IN  IF r.mano \in without THEN TransferMano(folded) ELSE folded

(* A mistake: the last declaration passes the turn to nobody.              *)
Bug_DeclarationsStayOpen(r, declarers) == Still([ClearTurnTimer(r) EXCEPT !.turn = NoSeat])

CloseDeclarations(r, declarers) ==
    LET with   == declarers \cap r.yes
        quiet  == [r EXCEPT !.turnTimer = FALSE, !.forced = NoSeat]
        folded == FoldWithoutJuego(quiet, declarers \cap r.no)
    IN  IF with = {} THEN Enter(quiet, "SHOWDOWN")
        ELSE IF Cardinality(with) = 1
        THEN Enter([folded EXCEPT !.forced = CHOOSE s \in with : TRUE], "SHOWDOWN")
        ELSE Enter(folded, "GUERRA_JUEGO")

AdvanceTurnDeclarar(r, from) ==
    LET declarers == Active(r) \ r.waiting
        asked == IF from # NoSeat THEN from ELSE r.turn
        start == IF asked \in SeatOrder(r) THEN asked ELSE r.mano
        next  == declarers \ r.acted
    IN  IF Cardinality(declarers) <= 1 \/ start \notin SeatOrder(r)
        THEN Enter(ClearTurnTimer(r), "SHOWDOWN")
        ELSE IF next # {}
        THEN Still(GiveTurn(r, IF from # NoSeat THEN FirstFrom(start, next)
                                                ELSE FirstAfter(start, next)))
        ELSE CloseDeclarations(r, declarers)

EnterDeclararJuego(r) ==
    IF Cardinality(Active(r) \ r.waiting) <= 1 \/ r.maxBet > 0
    THEN Enter(ClearTurnTimer(r), "SHOWDOWN")
    ELSE AdvanceTurnDeclarar(
           [r EXCEPT !.phase = "DECLARAR_JUEGO", !.acted = @ \ r.players,
                     !.yes = @ \ r.players, !.no = @ \ r.players],
           r.mano)

EnterGuerraJuego(r) ==
    AdvanceTurnBetting(
      [OpenRound(ClearTurnTimer(r), "GUERRA_JUEGO") EXCEPT !.declined = @ \ r.players],
      r.mano, "GUERRA_JUEGO")

(* Entering a phase may run through it, and through the next.              *)
IsDue(step, phase) == step.due = "enter" /\ step.phase = phase

AfterAction(step) ==
    IF step.due = "advance" THEN AdvanceTurnBetting(step.room, NoSeat, step.phase) ELSE step
AfterGuerra(step) ==
    IF IsDue(step, "CANTICOS") THEN EnterCanticos(step.room) ELSE step
AfterCanticos(step) ==
    IF IsDue(step, "DECLARAR_JUEGO") THEN EnterDeclararJuego(step.room) ELSE step
AfterDeclarar(step) ==
    IF IsDue(step, "GUERRA_JUEGO") THEN EnterGuerraJuego(step.room) ELSE step
AfterBetting(step) ==
    IF IsDue(step, "SHOWDOWN") THEN Showdown(step.room) ELSE step.room

Finish(step) == AfterBetting(AfterDeclarar(AfterCanticos(AfterGuerra(AfterAction(step)))))

-----------------------------------------------------------------------------
(* Betting actions.  The queue of handlePlayerAction runs one at a time:   *)
(* while a recordBet call is awaited no other betting action starts.       *)

MayAct(s) ==
    /\ bet = NoBet
    /\ s \in room.players \cap room.connected
    /\ room.turn = s
    /\ room.phase \in BettingPhases
    /\ room.cleanups < MaxCleanups
    /\ Hasty \/ room.pasoBy # s

(* "paso": a check, a declined extra bet, a question about the juego, or a *)
(* fold.                                                                   *)
Pass(r, s) ==
    LET quiet == ClearTurnTimer(r)
        acted == [quiet EXCEPT !.acted = @ \cup {s}]
    IN  IF r.maxBet = 0 \/ r.roundBet[s] >= r.maxBet THEN Advance(acted, r.phase)
        ELSE IF r.phase = "GUERRA_JUEGO"
        THEN Advance([acted EXCEPT !.declined = @ \cup {s}], r.phase)
        ELSE IF TieneJuego(Hand(r, s))
        THEN Still([quiet EXCEPT !.pasoBy = s, !.pasoPhase = r.phase])
        ELSE Advance(FoldAndPassMano(CollectPlayerCards(quiet, s), s), r.phase)

Paso(s) ==
    /\ MayAct(s)
    /\ room' = Finish(Pass(room, s))
    /\ UNCHANGED <<bet, links, fates>>

(* A bet that cannot be paid at all is a fold; any other clears the timer  *)
(* and waits for the ledger.                                               *)
Submit(s, kind, amount, full) ==
    IF room.chips[s] <= 0 /\ kind # "igualar"
    THEN /\ room' = Finish(Advance(FoldAndPassMano(ClearTurnTimer(room), s), room.phase))
         /\ UNCHANGED <<bet, links, fates>>
    ELSE /\ room' = ClearTurnTimer(room)
         /\ bet' = [seat |-> s, kind |-> kind, amount |-> amount, full |-> full,
                    phase |-> room.phase]
         /\ UNCHANGED <<links, fates>>

Voy(s, raise) ==
    /\ MayAct(s)
    /\ room.roundBet[s] + raise > room.maxBet
    /\ Submit(s, "voy", Min({raise, room.chips[s]}), TRUE)

(* An increment that does not exceed the highest bet is answered with an   *)
(* error, after the turn timer was cleared.                                *)
VoyTooLow(s, raise) ==
    /\ MayAct(s)
    /\ room.roundBet[s] + raise <= room.maxBet
    /\ room' = ClearTurnTimer(room)
    /\ UNCHANGED <<bet, links, fates>>

Igualar(s) ==
    LET call == room.maxBet - room.roundBet[s]
    IN  /\ MayAct(s)
        /\ IF call <= 0
           THEN /\ room' = Finish(Advance([ClearTurnTimer(room) EXCEPT !.acted = @ \cup {s}],
                                          room.phase))
                /\ UNCHANGED <<bet, links, fates>>
           ELSE Submit(s, "igualar", Min({call, room.chips[s]}), room.chips[s] >= call)

Resto(s) ==
    /\ MayAct(s)
    /\ Submit(s, "resto", room.chips[s], TRUE)

(* The ledger has the bet: the room takes it from the Player object it     *)
(* looked up before the await, and the round goes on from whoever has the  *)
(* turn now.                                                               *)
TakeBet(r, b) ==
    LET s == b.seat
        taken == [r EXCEPT !.chips[s] = @ - b.amount, !.balance[s] = @ - b.amount,
                           !.roundBet[s] = @ + b.amount, !.mainBet[s] = @ + b.amount,
                           !.pot = @ + b.amount, !.acted = @ \cup {s}]
    IN  CASE b.kind = "voy" ->
               MarkDisconnectedAsImplicitAllIn([taken EXCEPT !.maxBet = taken.roundBet[s]])
          [] b.kind = "igualar" ->
               [taken EXCEPT !.allIn = IF b.full THEN @ ELSE @ \cup {s}]
          [] b.kind = "resto" ->
               MarkDisconnectedAsImplicitAllIn(
                 [taken EXCEPT !.allIn = @ \cup {s}, !.maxBet = Max({@, taken.roundBet[s]})])

BetAccepted ==
    /\ bet # NoBet
    /\ "ok" \in Outcomes /\ 0 < bet.amount /\ bet.amount <= room.balance[bet.seat]
    /\ room' = Finish(Advance(TakeBet(room, bet), bet.phase))
    /\ bet' = NoBet
    /\ UNCHANGED <<links, fates>>

(* "Saldo insuficiente": the wallet may have been spent elsewhere.         *)
BetUnfunded ==
    /\ bet # NoBet
    /\ "insufficient" \in Outcomes /\ bet.amount > 0
    /\ room' = Finish(Advance(FoldAndPassMano(room, bet.seat), bet.phase))
    /\ bet' = NoBet
    /\ UNCHANGED <<links, fates>>

(* Any other failure, the rejection of an amount of 0 included: the player *)
(* is told to try again.                                                   *)
BetFailed ==
    /\ bet # NoBet
    /\ "error" \in Outcomes \/ bet.amount = 0
    /\ bet' = NoBet
    /\ UNCHANGED <<room, links, fates>>

-----------------------------------------------------------------------------
(* The other messages of the clients.                                      *)

(* The answer to the question of a "paso" with juego.  It does not go      *)
(* through the queue, and looks at the question only, not at the turn.     *)
MayAnswer(s) ==
    /\ room.pasoBy = s /\ room.phase = room.pasoPhase
    /\ s \in room.players \cap room.connected

PasoJuegoResponse(s) ==
    /\ MayAnswer(s)
    /\ LET asked == [ClearTurnTimer(room) EXCEPT !.pasoBy = NoSeat, !.pasoPhase = "LOBBY"]
       IN  room' =
             IF TieneJuego(Hand(room, s))
             THEN [asked EXCEPT !.acted = @ \cup {s}, !.passed = @ \cup {s},
                                !.llevoBy = s, !.returnTo = room.phase,
                                !.phase = "PIQUE_REVEAL", !.turn = s]
             ELSE Finish(Advance(FoldAndPassMano(CollectPlayerCards(asked, s), s), room.phase))
    /\ UNCHANGED <<bet, links, fates>>

(* Anybody closes the reveal of a hand with juego: its player is paid the  *)
(* pique, leaves the main pot, and the round goes on.                      *)
CloseReveal(r) ==
    LET s == r.llevoBy
        closed == [ClearTurnTimer(r) EXCEPT !.llevoBy = NoSeat, !.returnTo = "LOBBY",
                                            !.phase = r.returnTo]
        paid == PayPlayer(CollectPlayerCards(closed, s), s, r.piquePot - RakeOf(r.piquePot),
                          PotRef(r.piquePot))
        out == [paid EXCEPT !.piquePot = 0, !.folded = @ \cup {s}]
    IN  Advance(IF s \notin r.players THEN closed
                ELSE IF s = r.mano THEN TransferMano(out) ELSE out,
                r.returnTo)

MayDismissReveal ==
    room.phase = "PIQUE_REVEAL" /\ room.llevoBy # NoSeat
      /\ room.players \cap room.connected # {}

DismissReveal ==
    /\ MayDismissReveal
    /\ room' = Finish(CloseReveal(room))
    /\ UNCHANGED <<bet, links, fates>>

(* The server declares for the player: what the client claims is ignored.  *)
Declare(r, s) ==
    AdvanceTurnDeclarar(
      [ClearTurnTimer(r) EXCEPT !.acted = @ \cup {s},
                                !.yes = IF TieneJuego(Hand(r, s)) THEN @ \cup {s} ELSE @ \ {s},
                                !.no  = IF TieneJuego(Hand(r, s)) THEN @ \ {s} ELSE @ \cup {s}],
      NoSeat)

MayDeclare(s) ==
    room.phase = "DECLARAR_JUEGO" /\ room.turn = s /\ s \in room.players \cap room.connected

DeclararJuego(s) ==
    /\ MayDeclare(s)
    /\ room' = Finish(Declare(room, s))
    /\ UNCHANGED <<bet, links, fates>>

(* The message clears the timers before it looks at who sent it.           *)
MayShow(s) ==
    /\ room.phase = "SHOWDOWN_WAIT" /\ room.cleanups < MaxCleanups
    /\ s \in room.players \cap room.connected

ShowMuck(s, show) ==
    /\ MayShow(s)
    /\ LET quiet == ClearAutoTimer(ClearTurnTimer(room))
       IN  room' = IF s # room.turn THEN quiet
                   ELSE IF show THEN [quiet EXCEPT !.phase = "SHOWDOWN"]
                   ELSE AwardPot(quiet, s)
    /\ UNCHANGED <<bet, links, fates>>

MayDismissShowdown ==
    /\ room.phase = "SHOWDOWN" /\ room.cleanups < MaxCleanups
    /\ room.players \cap room.connected # {}

DismissShowdown ==
    /\ MayDismissShowdown
    /\ LET quiet == ClearAutoTimer(ClearTurnTimer(room))
       IN  room' = IF room.pending THEN CleanupRound([quiet EXCEPT !.pending = FALSE])
                   ELSE IF Active(room) # {} /\ room.pot > 0
                   THEN AwardPot(quiet, Min(Active(room)))
                   ELSE EndHandEarlyAfterFoldOut(quiet)
    /\ UNCHANGED <<bet, links, fates>>

-----------------------------------------------------------------------------
(* The timers of the room.                                                 *)

StartGuerra ==
    /\ room.revealTimer
    /\ room' = Finish(EnterGuerra([room EXCEPT !.revealTimer = FALSE]))
    /\ UNCHANGED <<bet, links, fates>>

TurnTimeout ==
    /\ room.turnTimer /\ bet = NoBet
    /\ LET quiet == ClearTurnTimer(room)
           s == room.turn
       IN  room' = Finish(
             IF s \notin room.players \cap room.connected THEN Still(quiet)
             ELSE CASE room.phase \in BettingPhases -> Pass(quiet, s)
                    [] room.phase = "DECLARAR_JUEGO" -> Declare(quiet, s)
                    [] room.phase = "PIQUE_REVEAL" /\ room.llevoBy # NoSeat -> CloseReveal(quiet)
                    [] OTHER -> Still(quiet))
    /\ UNCHANGED <<bet, links, fates>>

ShowdownTimeout ==
    /\ AutoTimers /\ room.autoTimer
    /\ LET quiet == ClearAutoTimer(room)
       IN  room' = IF room.phase \notin {"SHOWDOWN", "SHOWDOWN_WAIT"} THEN quiet
                   ELSE IF room.pending THEN CleanupRound([quiet EXCEPT !.pending = FALSE])
                   ELSE IF room.forced # NoSeat
                   THEN AwardPot([quiet EXCEPT !.forced = NoSeat], room.forced)
                   ELSE EndHandEarlyAfterFoldOut(quiet)
    /\ UNCHANGED <<bet, links, fates>>

CleanupTimeout ==
    /\ room.cleanups > 0
    /\ room' = CleanupRound([room EXCEPT !.cleanups = @ - 1])
    /\ UNCHANGED <<bet, links, fates>>

-----------------------------------------------------------------------------
(* Connections.  Losing one is not a move: no handler of this section      *)
(* passes the turn on.                                                     *)

WasMano(s) == room.mano = s /\ room.phase # "LOBBY"

MayLose(s, fate) ==
    /\ fate \in Fates /\ fates < MaxFates /\ fates' = fates + 1
    /\ s \in room.players \cap room.connected

(* The socket closes: 60 s of grace, and whether the player was La Mano is *)
(* remembered from now.                                                    *)
Disconnect(s) ==
    /\ MayLose(s, "drop")
    /\ room' = Offline(room, s)
    /\ links' = [links EXCEPT !.grace = @ \cup {s},
                              !.mano = IF WasMano(s) THEN @ \cup {s} ELSE @ \ {s}]
    /\ UNCHANGED bet

Reconnect(s) ==
    /\ s \in links.grace
    /\ room' = [room EXCEPT !.connected = @ \cup {s}]
    /\ links' = [links EXCEPT !.grace = @ \ {s}]
    /\ UNCHANGED <<bet, fates>>

GraceExpires(s) ==
    /\ s \in links.grace
    /\ room' = RemovePlayer(IF s \in links.mano THEN TransferMano(room) ELSE room, s)
    /\ links' = [links EXCEPT !.grace = @ \ {s}]
    /\ UNCHANGED <<bet, fates>>

(* The client closes on purpose; the player is removed once his voice      *)
(* channel is revoked.                                                     *)
Leave(s) ==
    /\ MayLose(s, "leave")
    /\ LET off == Offline(room, s)
       IN  room' = HandOverDeal(IF WasMano(s) THEN TransferMano(off) ELSE off, s)
    /\ links' = [links EXCEPT !.leaving = @ \cup {s}]
    /\ UNCHANGED bet

LeaveDone(s) ==
    /\ s \in links.leaving
    /\ room' = RemovePlayer(room, s)
    /\ links' = [links EXCEPT !.leaving = @ \ {s}]
    /\ UNCHANGED <<bet, fates>>

Abandon(s) ==
    /\ MayLose(s, "abandon")
    /\ room' = RemovePlayer(room, s)
    /\ UNCHANGED <<bet, links>>

-----------------------------------------------------------------------------
(* The room when the bottom card was revealed and GUERRA is about to start *)
(* for a table of Deals: what is left of every stake, who is out or waits, *)
(* the bets of APUESTA_4_CARTAS, and the pique that was merged in the pot. *)

Start(d) ==
    [phase |-> "REVELAR_CARTA", turn |-> NoSeat, mano |-> d.mano, dealer |-> d.dealer,
     rotated |-> d.rotated, pot |-> d.merged + SumFunctionOnSet(d.mainBet, Seat),
     piquePot |-> 0, maxBet |-> 0,
     players |-> Seat, connected |-> Seat, waiting |-> d.waiting, folded |-> d.folded,
     acted |-> {}, allIn |-> d.allIn, passed |-> {}, declined |-> {}, yes |-> {}, no |-> {},
     chips |-> d.chips, roundBet |-> [s \in Seat |-> 0], mainBet |-> d.mainBet,
     cards |-> d.cards,
     turnTimer |-> FALSE, autoTimer |-> FALSE, revealTimer |-> TRUE, cleanups |-> 0,
     pasoBy |-> NoSeat, pasoPhase |-> "LOBBY", llevoBy |-> NoSeat, returnTo |-> "LOBBY",
     forced |-> NoSeat, pending |-> FALSE,
     balance |-> d.chips, refs |-> {}, skewed |-> {}]

Init ==
    /\ \E d \in Deals : room = Start(d)
    /\ bet = NoBet
    /\ links = [grace |-> {}, mano |-> {}, leaving |-> {}]
    /\ fates = 0

BettingAction(s) ==
    \/ Paso(s)
    \/ \E raise \in Raises : Voy(s, raise) \/ VoyTooLow(s, raise)
    \/ Igualar(s)
    \/ Resto(s)

ClientMessage(s) ==
    \/ BettingAction(s)
    \/ PasoJuegoResponse(s)
    \/ DeclararJuego(s)
    \/ \E show \in BOOLEAN : ShowMuck(s, show)

LedgerReply == BetAccepted \/ BetUnfunded \/ BetFailed

Timer == StartGuerra \/ TurnTimeout \/ ShowdownTimeout \/ CleanupTimeout

Connection(s) ==
    \/ Disconnect(s) \/ Reconnect(s) \/ GraceExpires(s)
    \/ Leave(s) \/ LeaveDone(s) \/ Abandon(s)

(* The hand is over: the room waits for the players to get ready again.    *)
HandOver ==
    /\ room.phase = "LOBBY" /\ bet = NoBet /\ ~room.revealTimer /\ room.cleanups = 0

Next ==
    \/ \E s \in Seat : ClientMessage(s) \/ Connection(s)
    \/ DismissReveal \/ DismissShowdown
    \/ LedgerReply
    \/ Timer
    \/ HandOver /\ UNCHANGED vars

Spec == Init /\ [][Next]_vars

-----------------------------------------------------------------------------
(* What the state is made of.  The amounts of money are left open here:    *)
(* the properties below say which of them belong together.                 *)

TypeOK ==
    /\ RoomOK(room)
    /\ \/ bet = NoBet
       \/ /\ bet.seat \in Seat /\ bet.kind \in {"voy", "igualar", "resto"}
          /\ bet.phase \in BettingPhases
    /\ links \in [grace : SUBSET Seat, mano : SUBSET Seat, leaving : SUBSET Seat]
    /\ fates \in 0..MaxFates

(* The chips in RAM and the wallet in the ledger are two copies of one     *)
(* number: at every moment they agree for every player of the room, except *)
(* those of whom the ledger answered an operation with an old result.      *)
RamMatchesLedger == Match(room)

(* Nobody is ever asked to move who cannot: while a betting round waits    *)
(* for a player, he is connected and neither folded, all-in, out for the   *)
(* pique nor excused from the extra bet, and he still owes an answer.      *)
TurnIsLive ==
    room.phase \in BettingPhases /\ bet = NoBet /\ room.cleanups = 0 =>
      /\ room.turn \in Active(room) \ (room.allIn \cup room.passed \cup room.declined)
      /\ room.turn \in room.acted => room.roundBet[room.turn] < room.maxBet

(* An armed turn timer belongs to a player of the room: removing the       *)
(* player whose turn it is disarms it.                                     *)
TimerHasOwner == Owned(room)

-----------------------------------------------------------------------------
(* What a step may do with the money.                                      *)

(* All the chips of the hand: the stacks, and the pots until they are paid *)
(* (they stay on the table for a while after that).                        *)
Unpaid(r) == IF r.pending \/ r.cleanups > 0 THEN 0 ELSE r.pot + r.piquePot
ChipsOf(r) == SumFunctionOnSet(r.chips, Seat) + Unpaid(r)

(* What a step gives a player beyond his own stake coming back.            *)
Won(s) == (room'.chips[s] + room'.mainBet[s]) - (room.chips[s] + room.mainBet[s])

(* The steps that pay the showdown of two or more players.                 *)
Settles == ~room.pending /\ room'.pending

(* The commission is the only thing that leaves the table: no step creates *)
(* chips, the steps before a pot is paid lose none, and a payment loses no *)
(* more than the commission of the pots (rounded up once per side pot).    *)
OnlyRakeLeaves ==
    [][LET lost == ChipsOf(room) - ChipsOf(room')
           paid == room'.pending \/ room'.cleanups > room.cleanups
                     \/ room'.phase = "LOBBY" \/ room.phase = "PIQUE_REVEAL"
       IN  /\ 0 <= lost
           /\ lost <= IF paid THEN RakeOf(Max({room.pot, room'.pot})) + RakeOf(room.piquePot)
                                     + 100 * N
                      ELSE 0]_vars

(* Who gets to the declaration of juego or to the showdown has paid for    *)
(* it: the players who have chips left, and neither declined the extra bet *)
(* nor wait for the next hand, have put the same in the main pot.          *)
StakesMatched ==
    [][room'.phase # room.phase /\ room'.phase \in {"DECLARAR_JUEGO", "SHOWDOWN"} =>
         LET payers == {s \in Active(room') \ (room'.declined \cup room'.waiting) :
                          room'.chips[s] > Won(s)}
         IN  \A s, t \in payers : room'.mainBet[s] = room'.mainBet[t]]_vars

(* All-in players play for what they matched: at the showdown a player     *)
(* wins from each stake at most as much as he staked himself, and besides  *)
(* that only the pique and the money no player at the table staked.        *)
WinningsCovered ==
    LET stakes == room'.mainBet
        merged == room'.pot - SumFunctionOnSet(stakes, room'.players)
    IN  \A s \in room'.players :
          Won(s) <= SumFunctionOnSet([t \in room'.players |-> Min({stakes[s], stakes[t]})],
                                     room'.players)
                      + merged + room'.piquePot

(* The better hand wins: no player wins anything at the showdown against a *)
(* competitor who staked at least as much and holds, with the bonus of La  *)
(* Mano, a better hand.                                                    *)
BeatenWinNothing ==
    LET Value(s) == WithManoBonus(Hand(room', s), s = room'.mano)
    IN  \A s, t \in Active(room') :
          Won(s) > 0 /\ room'.mainBet[s] <= room'.mainBet[t] => Value(t) <= Value(s)

(* A showdown is settled by the two rules above, however many all-ins and  *)
(* folds have cut the pot into side pots (persistShowdownResults).         *)
ShowdownIsFair == [][Settles => WinningsCovered /\ BeatenWinNothing]_vars

(* A player who is out of the hand gets none of its money, whichever way   *)
(* the hand ends: only the one who leaves it for the pique is paid as he   *)
(* folds.                                                                  *)
OnlyPlayersWin ==
    [][\A s \in Seat : Won(s) > 0 =>
         s \notin room'.folded \/ s = room.llevoBy]_vars

-----------------------------------------------------------------------------
(* Liveness.  The event loop runs its timers, Supabase answers every call, *)
(* and somebody closes what the table was shown: weak fairness.  Players   *)
(* who are asked for a move again and again - a bet that failed or was     *)
(* rejected leaves them the turn - sooner or later answer without a bet:   *)
(* strong fairness.  Both are written with the guards of the actions in    *)
(* the place of ENABLED, which TLC is slow to evaluate on nested steps:    *)
(* wherever one of the guards holds, the action changes something.         *)

MayServe ==
    \/ bet # NoBet
    \/ room.revealTimer \/ room.cleanups > 0
    \/ MayDismissReveal \/ MayDismissShowdown

Serve == LedgerReply \/ StartGuerra \/ CleanupTimeout \/ DismissReveal \/ DismissShowdown

MayMove(s) == MayAct(s) \/ MayAnswer(s) \/ MayDeclare(s) \/ (MayShow(s) /\ s = room.turn)

Move(s) == Paso(s) \/ PasoJuegoResponse(s) \/ DeclararJuego(s) \/ ShowMuck(s, FALSE)

Fairness ==
    /\ <>[]MayServe => []<><<Serve>>_vars
    /\ []<>(\E s \in Seat : MayMove(s)) => []<><<\E s \in Seat : Move(s)>>_vars

FairSpec == Spec /\ Fairness

(* Every hand whose players stay is played to its end: the room comes back *)
(* to the LOBBY and nothing of the hand is under way any more.             *)
HandEnds == <>[]HandOver

=============================================================================
