-------------------------------- MODULE Pique --------------------------------
(***************************************************************************)
(* The pique of a hand: two cards are dealt, the players say "voy" and bet *)
(* or "paso", and those who went are dealt two more cards.  When fewer     *)
(* than two went, the players who passed before there was a price are      *)
(* asked again, and when that does not help the pique is dealt again: the  *)
(* bet goes back, and those who passed pay the "banda" to the one who went.*)
(*                                                                         *)
(* The room is the record of module Table, with the fields of the pique.   *)
(* The main pot is empty during the pique, and so are its stakes.          *)
(***************************************************************************)
EXTENDS Table

CONSTANTS
    Purse,          \* the chips each seat brings
    MinPique,       \* state.minPique
    Banda,          \* what a pass costs when the pique is dealt again
    Offers,         \* the amounts a client may send with "voy"
    Replies,        \* subset of {"ok", "insufficient", "error", "lost"}
    Newcomers,      \* the seats that are taken during the hand
    Fates,          \* what may happen to a connection: subset of {"drop", "leave", "abandon"}
    MaxFates,       \* bound on the number of those events
    MaxFailures,    \* bound on the bets that fail although the ledger may take them
    MaxRestarts,    \* MAX_PIQUE_RESTARTS, 10 in the code
    MaxDeals        \* bound on the number of deals of the pique in one hand

ASSUME PiqueAssumption ==
    /\ Purse \in [Seat -> Nat] /\ MinPique \in Nat \ {0} /\ Banda \in Nat
    /\ Offers \subseteq Nat \ {0} /\ 1 \in Seat \ Newcomers /\ Newcomers \subseteq Seat
    /\ Replies \subseteq {"ok", "insufficient", "error", "lost"}
    /\ Fates \subseteq {"drop", "leave", "abandon"}
    /\ MaxFates \in Nat /\ MaxFailures \in Nat /\ MaxRestarts \in Nat /\ MaxDeals \in Nat

VARIABLES
    room,           \* the record of module Table and the fields of FieldsOfPique
    call,           \* the recordBet call the action queue is waiting for, or NoCall
    links,          \* connections that are going away, as in MainPot
    fates,          \* counter of the events bounded by MaxFates
    failures        \* counter of the replies bounded by MaxFailures

vars == <<room, call, links, fates, failures>>

NoCall == [seat |-> NoSeat, amount |-> 0]

(* What the pique keeps in the room: who passed, and who of them before    *)
(* there was a price; whether those were asked again; the restarts since   *)
(* the last action; how often each player passed; the chains of timers     *)
(* that deal two cards, and the two more, under way; the debit of a bet    *)
(* whose reply was lost.  Ghosts: the deals so far, the bets in the pot,   *)
(* and whether the round ended because nobody had the turn.                *)
FieldsOfPique ==
    [passers |-> {}, preBet |-> {}, reopened |-> FALSE, restarts |-> 0,
     passes |-> [s \in Seat |-> 0], dealing |-> 0, completing |-> 0, debit |-> NoCall,
     deals |-> 0, paid |-> [s \in Seat |-> 0], skipped |-> FALSE]

InPique(r) == Active(r) \ r.waiting

-----------------------------------------------------------------------------
(* The end of the round.                                                   *)

(* The timeline of the hand grew: the reference of a bet names its place   *)
(* in it, so a debit whose reply was lost is not found again.              *)
RecordEvent(r) ==
    IF r.debit = NoCall THEN r
    ELSE [r EXCEPT !.skewed = @ \cup {r.debit.seat}, !.debit = NoCall]

EnterPique(r) ==
    LET led == [r EXCEPT !.phase = "BARAJANDO", !.passers = {}, !.preBet = {},
                         !.reopened = FALSE, !.maxBet = 0, !.mano = r.dealer]
        moved == IF r.dealer \in r.players \ r.connected THEN TransferMano(led) ELSE led
    IN  [moved EXCEPT !.folded = (@ \ r.players) \cup (r.players \ r.connected)
                                   \cup (r.players \cap r.waiting),
                      !.dealing = @ + 1, !.deals = @ + 1,
                      !.paid = [s \in Seat |-> 0]]

(* Nobody to deal to, or nobody acts any more: back to the LOBBY.  Only a  *)
(* player who is still in is given the bets.                               *)
AbortPique(r) ==
    LET seated == (r.players \cap r.connected) \ r.waiting
        back == IF seated \ r.folded # {}
                THEN PayPlayer(r, Min(seated \ r.folded), r.piquePot, Ref("refund-restart")) ELSE r
    IN  PromoteWaitingPlayers(
          [back EXCEPT !.pot = 0, !.piquePot = 0, !.turn = NoSeat, !.mano = NoSeat,
                       !.restarts = 0, !.acted = @ \ r.players, !.folded = @ \ r.players,
                       !.phase = "LOBBY", !.paid = [s \in Seat |-> 0]])

(* A mistake: a player who cannot pay the banda still yields all of it.    *)
Bug_BandaOf(r, s) == Banda

BandaOf(r, s) == Min({Banda, r.chips[s]})

(* The banda moves in RAM.  In the ledger it is one transaction with a     *)
(* reference per user and hand, which takes a commission off the winner's  *)
(* part: it moves nothing when one of the references was used before.      *)
CollectBanda(r, w) ==
    LET losers == {s \in r.passers \cap r.players : r.chips[s] > 0}
        total == SumFunctionOnSet([s \in losers |-> BandaOf(r, s)], losers)
        used == {<<s, Ref("banda-loser")>> : s \in losers} \cup {<<w, Ref("banda-winner")>>}
        booked == used \cap r.refs = {}
        moved == [r EXCEPT !.chips = [s \in Seat |->
                             IF s \in losers THEN @[s] - BandaOf(r, s) ELSE @[s]]]
        won == [moved EXCEPT !.chips[w] = @ + total]
    IN  IF losers = {} \/ total = 0 THEN r
        ELSE RecordEvent(
               IF booked
               THEN [won EXCEPT !.balance = [s \in Seat |->
                                   IF s \in losers THEN @[s] - BandaOf(r, s)
                                   ELSE IF s = w THEN @[s] + total - RakeOf(total) ELSE @[s]],
                                !.refs = @ \cup used, !.skewed = @ \cup {w}]
               ELSE [won EXCEPT !.skewed = @ \cup losers \cup {w}])

(* A mistake: the bets are given back and stay in the pot.                 *)
Bug_KeepPot(r) ==
    LET voy == InPique(r)
        back == IF voy # {} THEN PayPlayer(r, Min(voy), r.piquePot, Ref("refund-pique")) ELSE r
    IN  EnterPique(RecordEvent(NextDealer([back EXCEPT !.rotated = TRUE])))

(* The pique is dealt again.  "The one who went" is the one who is in and  *)
(* connected: he is paid the whole pot.                                    *)
DealAgain(r) ==
    LET voy  == InPique(r)
        w    == Min(voy)
        back == IF voy # {} /\ r.piquePot > 0
                THEN PayPlayer(r, w, r.piquePot, Ref("refund-pique")) ELSE r
        free == [back EXCEPT !.piquePot = 0]
        charged == IF voy # {} THEN CollectBanda(free, w) ELSE free
        rotated == IF r.rotated THEN charged ELSE NextDealer([charged EXCEPT !.rotated = TRUE])
    IN  EnterPique(RecordEvent(rotated))

RestartPique(r) ==
    LET again == [r EXCEPT !.restarts = @ + 1]
    IN  IF \/ Cardinality((r.players \cap r.connected) \ r.waiting) < 2
           \/ again.restarts > MaxRestarts
        THEN AbortPique(again)
        ELSE DealAgain(again)

(* A mistake: those who are asked again still count as passed.             *)
Bug_StillPassed(r) ==
    LET asked == r.preBet \cap SeatOrder(r) \cap r.connected
        open == [r EXCEPT !.reopened = TRUE, !.preBet = {}]
    IN  IF asked = {} THEN RestartPique(open)
        ELSE GiveTurn([open EXCEPT !.folded = @ \ asked, !.acted = @ \ asked], Min(asked))

(* Those who passed before there was a price are asked again, the          *)
(* connected ones; the others are only charged when no one is left to ask. *)
ReopenPiqueForPassers(r) ==
    LET asked == r.preBet \cap SeatOrder(r) \cap r.connected
        open == [r EXCEPT !.reopened = TRUE, !.preBet = {}]
    IN  IF asked = {} THEN RestartPique([open EXCEPT !.passers = @ \cup r.preBet])
        ELSE GiveTurn([open EXCEPT !.passers = @ \ r.preBet, !.folded = @ \ asked,
                                   !.acted = @ \ asked], Min(asked))

TooFewWent(r) ==
    IF ~r.reopened /\ r.preBet # {} THEN ReopenPiqueForPassers(r) ELSE RestartPique(r)

(* What is left of the table once four cards are dealt: nobody, one player *)
(* - his hand ends in three seconds - or the players of the main pot.      *)
AfterPiqueResolution(r) ==
    IF Active(r) = {}
    THEN [PromoteWaitingPlayers(r) EXCEPT !.pot = 0, !.piquePot = 0, !.phase = "LOBBY"]
    ELSE IF Cardinality(Active(r)) = 1 THEN ScheduleCleanup(r)
    ELSE [r EXCEPT !.phase = "APUESTA_4_CARTAS"]

CompletarMano(r) ==
    LET quiet == [ClearTurnTimer(r) EXCEPT !.phase = "COMPLETAR"]
    IN  IF SeatOrder(r) \cap Active(r) = {} THEN AfterPiqueResolution(quiet)
        ELSE [quiet EXCEPT !.completing = @ + 1]

(* A mistake: who lost his connection before he acted is passed over.      *)
Bug_PassOver(r, from) ==
    LET start == IF from \in SeatOrder(r) THEN from ELSE r.turn
        toAct == (SeatOrder(r) \cap r.connected) \ (r.folded \cup r.acted)
    IN  IF Cardinality(InPique(r)) < 2 /\ InPique(r) \subseteq r.acted THEN TooFewWent(r)
        ELSE IF start \notin SeatOrder(r) THEN CompletarMano([r EXCEPT !.skipped = TRUE])
        ELSE IF toAct # {} THEN GiveTurn(r, IF from # NoSeat THEN FirstFrom(start, toAct)
                                            ELSE FirstAfter(start, toAct))
        ELSE CompletarMano([r EXCEPT !.reopened = FALSE, !.preBet = {}])

(* The turn goes on from a seat, or after the seat that has it.  Without a *)
(* seat to start from the round is over at once.  Players on the way who   *)
(* are disconnected and did not act fold, and count as passed.             *)
AdvanceTurnPhase2(r, from) ==
    LET asked == IF from # NoSeat THEN from ELSE r.turn
        start == IF asked \notin SeatOrder(r) /\ from # NoSeat THEN r.mano ELSE asked
        Way(s) == IF from # NoSeat THEN StepsFrom(start, s) ELSE StepsAfter(start, s)
        idle  == SeatOrder(r) \ (r.folded \cup r.acted)
        toAct == idle \cap r.connected
        away  == {s \in idle \ r.connected : \A t \in toAct : Way(s) < Way(t)}
        next  == CHOOSE s \in toAct : \A t \in toAct : Way(s) <= Way(t)
        moved == [r EXCEPT !.folded = @ \cup away, !.acted = @ \cup away,
                           !.passers = @ \cup away]
    IN  IF Cardinality(InPique(r)) < 2 /\ InPique(r) \subseteq r.acted THEN TooFewWent(r)
        ELSE IF start \notin SeatOrder(r) THEN CompletarMano([r EXCEPT !.skipped = TRUE])
        ELSE IF toAct # {} THEN GiveTurn(moved, next)
        ELSE IF Cardinality(InPique(moved)) < 2 THEN TooFewWent(moved)
        ELSE CompletarMano([moved EXCEPT !.reopened = FALSE, !.preBet = {}])

-----------------------------------------------------------------------------
(* The messages of the players.  They wait in the action queue of the room *)
(* while a bet is being recorded.                                          *)

MayAct(s) ==
    /\ call = NoCall /\ room.phase = "PIQUE" /\ room.turn = s
    /\ s \in room.players \ room.acted

Acts(r, s) == [ClearTurnTimer(r) EXCEPT !.restarts = 0, !.acted = @ \cup {s}]

AfterPass(r, s) ==
    LET rotated == AttemptManoRotation(r, s)
    IN  AdvanceTurnPhase2(IF s = r.mano THEN TransferMano(rotated) ELSE rotated, NoSeat)

(* "paso".  The second pass of a hand with two cards of a suit is shown to *)
(* the table, and the round waits until the cards are covered again.       *)
Pass(r, s, juego) ==
    LET acted == RecordEvent(Acts(r, s))
        out == [acted EXCEPT !.folded = @ \cup {s}, !.passers = @ \cup {s},
                             !.preBet = IF ~r.reopened /\ r.maxBet = 0 THEN @ \cup {s} ELSE @,
                             !.passes[s] = IF r.reopened THEN @ ELSE Min({@ + 1, 2})]
    IN  IF ~r.reopened /\ out.passes[s] = 2 /\ juego
        THEN [out EXCEPT !.phase = "PIQUE_REVEAL", !.turn = s]
        ELSE AfterPass(out, s)

Paso(s) ==
    /\ MayAct(s) /\ s \in room.connected
    /\ \E juego \in BOOLEAN : room' = Pass(room, s, juego)
    /\ UNCHANGED <<call, links, fates, failures>>

(* A mistake: the cards are covered and the turn stays where it was.       *)
Bug_CoverCards ==
    /\ room.phase = "PIQUE_REVEAL" /\ room.players \cap room.connected # {}
    /\ room' = [ClearTurnTimer(room) EXCEPT !.phase = "PIQUE"]
    /\ UNCHANGED <<call, links, fates, failures>>

DismissReveal ==
    /\ room.phase = "PIQUE_REVEAL" /\ room.players \cap room.connected # {}
    /\ room' = AdvanceTurnPhase2([ClearTurnTimer(room) EXCEPT !.phase = "PIQUE"], NoSeat)
    /\ UNCHANGED <<call, links, fates, failures>>

(* A bettor who is out of chips folds, and so does one whose wallet cannot *)
(* pay; neither counts as passed.                                          *)
FoldUnfunded(r, s) ==
    LET out == [r EXCEPT !.folded = @ \cup {s}]
    IN  AdvanceTurnPhase2(IF s = r.mano THEN TransferMano(out) ELSE out, NoSeat)

Offered(s, offer) == Min({offer, room.chips[s]})

(* La Mano bets the minimum or more, and so sets the price; the others may *)
(* not bet less than the price unless it is all they have.                 *)
TooLow(s, amount) ==
    /\ 0 < amount
    /\ IF s = room.mano THEN amount < MinPique
       ELSE amount < (IF room.maxBet > 0 THEN room.maxBet ELSE MinPique) /\ amount # room.chips[s]

(* A refused bet leaves the turn where it was, without its timer.          *)
VoyRefused(s, offer) ==
    /\ MayAct(s) /\ s \in room.connected /\ TooLow(s, Offered(s, offer))
    /\ room' = [ClearTurnTimer(room) EXCEPT !.restarts = 0]
    /\ UNCHANGED <<call, links, fates, failures>>

(* "voy" up to the call of recordBet.  The bet of the player whose last    *)
(* reply was lost has the same place in the timeline, and reference.       *)
Voy(s, offer) ==
    /\ MayAct(s) /\ s \in room.connected /\ ~TooLow(s, Offered(s, offer))
    /\ LET amount == Offered(s, offer)
           named == IF room.debit.seat = s THEN Acts(room, s) ELSE RecordEvent(Acts(room, s))
       IN  IF amount = 0
           THEN room' = FoldUnfunded(RecordEvent(named), s) /\ UNCHANGED call
           ELSE /\ room' = IF s = room.mano THEN [named EXCEPT !.maxBet = amount] ELSE named
                /\ call' = [seat |-> s, amount |-> amount]
    /\ UNCHANGED <<links, fates, failures>>

-----------------------------------------------------------------------------
(* The answers of recordBet.  The ledger debits once per reference: it     *)
(* answers a repeated call with the old result, and refuses it when the    *)
(* amount is another one.                                                  *)

(* A mistake: a repeated call has a reference of its own.                  *)
Bug_Debited(r, c) == [r EXCEPT !.balance[c.seat] = @ - c.amount, !.debit = NoCall]

Debited(r, c) ==
    IF r.debit = NoCall THEN [r EXCEPT !.balance[c.seat] = @ - c.amount]
    ELSE [r EXCEPT !.debit = NoCall]

Repeatable(c) == room.debit \in {NoCall, c}

Answered(reply) ==
    /\ reply \in Replies /\ call # NoCall /\ call' = NoCall
    /\ IF reply = "ok" \/ ~Repeatable(call) THEN UNCHANGED failures
       ELSE failures < MaxFailures /\ failures' = failures + 1
    /\ UNCHANGED <<links, fates>>

BetAccepted ==
    /\ Answered("ok") /\ Repeatable(call)
    /\ LET s == call.seat
           bet == [Debited(room, call) EXCEPT !.chips[s] = @ - call.amount,
                                              !.piquePot = @ + call.amount,
                                              !.paid[s] = @ + call.amount]
       IN  room' = AdvanceTurnPhase2(bet, NoSeat)

BetUnfunded ==
    /\ Answered("insufficient") /\ room.debit = NoCall
    /\ room' = FoldUnfunded(room, call.seat)

(* The player is asked to try again; nobody arms the timer of his turn.    *)
BetFailed ==
    /\ Answered("error")
    /\ room' = [room EXCEPT !.acted = @ \ {call.seat}]

(* The same for the room, but the ledger took the bet.                     *)
BetLost ==
    /\ Answered("lost") /\ Repeatable(call)
    /\ room' = [Debited(room, call) EXCEPT !.acted = @ \ {call.seat}, !.debit = call]

-----------------------------------------------------------------------------
(* The timers of the room.  No chain of timers looks at the phase it finds. *)

TurnTimeout ==
    /\ room.turnTimer /\ call = NoCall
    /\ LET quiet == ClearTurnTimer(room)
       IN  IF room.turn \in room.connected /\ MayAct(room.turn)
           THEN \E juego \in BOOLEAN : room' = Pass(quiet, room.turn, juego)
           ELSE room' = quiet
    /\ UNCHANGED <<call, links, fates, failures>>

(* The two cards are dealt, and the round begins with La Mano.             *)
DealDone ==
    /\ room.dealing > 0 /\ room.deals <= MaxDeals
    /\ room' = AdvanceTurnPhase2([room EXCEPT !.dealing = @ - 1, !.phase = "PIQUE",
                                              !.acted = @ \ room.players], room.mano)
    /\ UNCHANGED <<call, links, fates, failures>>

CompletarDone ==
    /\ room.completing > 0
    /\ room' = AfterPiqueResolution([room EXCEPT !.completing = @ - 1])
    /\ UNCHANGED <<call, links, fates, failures>>

EndHand ==
    /\ room.cleanups > 0
    /\ LET ended == PromoteWaitingPlayers([room EXCEPT !.cleanups = @ - 1, !.mano = NoSeat,
                                                       !.phase = "LOBBY"])
       IN  room' = IF room.rotated THEN ended ELSE NextDealer(ended)
    /\ UNCHANGED <<call, links, fates, failures>>

-----------------------------------------------------------------------------
(* Connections, as in MainPot: none of these handlers passes the turn on.  *)

(* The pique is over and the hand goes on elsewhere.                       *)
HandedOver ==
    /\ room.phase \in {"APUESTA_4_CARTAS", "LOBBY"}
    /\ room.dealing = 0 /\ room.completing = 0 /\ room.cleanups = 0 /\ call = NoCall

WasMano(s) == room.mano = s /\ room.phase # "LOBBY"

MayLose(s, fate) ==
    /\ fate \in Fates /\ fates < MaxFates /\ fates' = fates + 1 /\ ~HandedOver
    /\ s \in room.players \cap room.connected

Disconnect(s) ==
    /\ MayLose(s, "drop")
    /\ room' = Offline(room, s)
    /\ links' = [links EXCEPT !.grace = @ \cup {s},
                              !.mano = IF WasMano(s) THEN @ \cup {s} ELSE @ \ {s}]
    /\ UNCHANGED <<call, failures>>

Reconnect(s) ==
    /\ s \in links.grace
    /\ room' = [room EXCEPT !.connected = @ \cup {s}]
    /\ links' = [links EXCEPT !.grace = @ \ {s}]
    /\ UNCHANGED <<call, fates, failures>>

GraceExpires(s) ==
    /\ s \in links.grace
    /\ room' = RemovePlayer(IF s \in links.mano THEN TransferMano(room) ELSE room, s)
    /\ links' = [links EXCEPT !.grace = @ \ {s}]
    /\ UNCHANGED <<call, fates, failures>>

Leave(s) ==
    /\ MayLose(s, "leave")
    /\ LET off == Offline(room, s)
       IN  room' = HandOverDeal(IF WasMano(s) THEN TransferMano(off) ELSE off, s)
    /\ links' = [links EXCEPT !.leaving = @ \cup {s}]
    /\ UNCHANGED <<call, failures>>

LeaveDone(s) ==
    /\ s \in links.leaving
    /\ room' = RemovePlayer(room, s)
    /\ links' = [links EXCEPT !.leaving = @ \ {s}]
    /\ UNCHANGED <<call, fates, failures>>

Abandon(s) ==
    /\ MayLose(s, "abandon")
    /\ room' = RemovePlayer(room, s)
    /\ UNCHANGED <<call, links, failures>>

(* Who joins during the hand waits for the next one, and is the dealer if  *)
(* the dealer is not connected.                                            *)
Join(s) ==
    /\ s \in Newcomers \ (room.players \cup room.waiting)
    /\ room.phase # "LOBBY" /\ ~HandedOver
    /\ room' = [room EXCEPT !.players = @ \cup {s}, !.connected = @ \cup {s},
                            !.waiting = @ \cup {s},
                            !.dealer = IF @ \in room.players \cap room.connected THEN @ ELSE s]
    /\ UNCHANGED <<call, links, fates, failures>>

-----------------------------------------------------------------------------
(* A hand whose pique is about to be dealt for the first time.             *)

Table0 ==
    [phase |-> "BARAJANDO", turn |-> NoSeat, mano |-> NoSeat, dealer |-> 1, rotated |-> FALSE,
     pot |-> 0, piquePot |-> 0, maxBet |-> 0,
     players |-> Seat \ Newcomers, connected |-> Seat \ Newcomers, waiting |-> {},
     folded |-> {}, acted |-> {}, allIn |-> {}, passed |-> {}, declined |-> {},
     yes |-> {}, no |-> {}, chips |-> Purse,
     roundBet |-> [s \in Seat |-> 0], mainBet |-> [s \in Seat |-> 0],
     cards |-> [s \in Seat |-> 0],
     turnTimer |-> FALSE, autoTimer |-> FALSE, revealTimer |-> FALSE, cleanups |-> 0,
     pasoBy |-> NoSeat, pasoPhase |-> "LOBBY", llevoBy |-> NoSeat, returnTo |-> "LOBBY",
     forced |-> NoSeat, pending |-> FALSE,
     balance |-> Purse, refs |-> {}, skewed |-> {}]

Init ==
    /\ room = EnterPique(RoomWith(Table0, FieldsOfPique))
    /\ call = NoCall
    /\ links = [grace |-> {}, mano |-> {}, leaving |-> {}]
    /\ fates = 0 /\ failures = 0

ClientMessage(s) ==
    \/ Paso(s)
    \/ \E offer \in Offers : Voy(s, offer) \/ VoyRefused(s, offer)

LedgerReply == BetAccepted \/ BetUnfunded \/ BetFailed \/ BetLost

Timer == TurnTimeout \/ DealDone \/ CompletarDone \/ EndHand

Connection(s) ==
    \/ Disconnect(s) \/ Reconnect(s) \/ GraceExpires(s)
    \/ Leave(s) \/ LeaveDone(s) \/ Abandon(s) \/ Join(s)

Next ==
    \/ \E s \in Seat : ClientMessage(s) \/ Connection(s)
    \/ DismissReveal
    \/ LedgerReply
    \/ Timer

Spec == Init /\ [][Next]_vars

-----------------------------------------------------------------------------
(* What the state is made of.  No purse runs into debt: a bet and a banda  *)
(* take what is there.                                                     *)
TypeOK ==
    /\ room.phase \in {"BARAJANDO", "PIQUE", "PIQUE_REVEAL", "COMPLETAR", "APUESTA_4_CARTAS", "LOBBY"}
    /\ room.turn \in Seat \cup {NoSeat} /\ room.mano \in Seat \cup {NoSeat}
    /\ room.dealer \in Seat
    /\ \A g \in Groups \cup {"passers", "preBet"} : room[g] \subseteq Seat
    /\ \A b \in Flags \cup {"reopened", "skipped"} : room[b] \in BOOLEAN
    /\ \A n \in {"piquePot", "maxBet", "restarts", "dealing", "completing", "deals", "cleanups"} :
         room[n] \in Nat
    /\ \A m \in {"chips", "paid", "passes"} : room[m] \in [Seat -> Nat]
    /\ call.seat \in Seat \cup {NoSeat} /\ call.amount \in Nat
    /\ links \in [grace : SUBSET Seat, mano : SUBSET Seat, leaving : SUBSET Seat]
    /\ fates \in 0..MaxFates /\ failures \in 0..MaxFailures

(* Nobody plays the hand for nothing: when a round that had a turn to the  *)
(* end gives way to the two other cards, everybody they are dealt to has a *)
(* bet in the pot.                                                         *)
PaidToPlay ==
    room.phase = "COMPLETAR" /\ ~room.skipped =>
      \A s \in SeatOrder(room) \cap Active(room) : room.paid[s] > 0

(* The round never waits for a player who is out or has spoken.            *)
TurnCanAct ==
    room.phase = "PIQUE" /\ call = NoCall /\ room.turn \in room.players =>
      room.turn \notin room.folded \cup room.acted

(* A bet is debited once however often it is tried: the ledger is behind   *)
(* the chips of a player by the bet whose reply was lost, as long as he    *)
(* may repeat it, and agrees with them again once it is accepted.          *)
DebitedOnce ==
    \A s \in room.players \ room.skewed :
      room.chips[s] - room.balance[s] = IF s = room.debit.seat THEN room.debit.amount ELSE 0

(* All the chips of the table, and what the pique holds of them.           *)
ChipsOf(r) == SumFunctionOnSet(r.chips, Seat) + r.piquePot

(* Refunds and bandas hand chips on and make none.                         *)
NothingMinted == [][ChipsOf(room') <= ChipsOf(room)]_vars

(* The banda is the price of a pass.  Who has a bet in the pot of this     *)
(* deal does not owe it, whatever he had said before he was asked again;   *)
(* and who passed before there was a price, and is still there, is asked   *)
(* again before it is taken from him (reopenPiqueForPassers).              *)
BandaIsOwed ==
    [][/\ \A s \in room'.passers : room'.paid[s] = 0
       /\ \A s \in room.preBet \cap room.connected : room'.chips[s] >= room.chips[s]]_vars

=============================================================================
