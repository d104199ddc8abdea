# Mesa Primera - formal model of the game server

TLA+ modules, TLC runs and TLAPS proofs about the rooms of `apps/game-server`:
the part of the repository that holds other people's money while several
clients, timers and a database act on it at once.

Read in this order: `Combinations`, `Pots`, `Table`, `MainPot`, `Pique`,
`FourCards`, `Lobby`; then `PotManager` and `ShowdownOfOnePot`, which check the pure
algorithms; then, each with its promise first, `Bank` and `LedgerTransactions`,
`CrashedHand` and `Recovery`; the proofs last. Paths below are relative to `apps/game-server/src/`
unless they begin with `docs/` or `supabase/`.

## 1. Inventory of the system

| component | state | operations | interacts with | what makes it correct |
|---|---|---|---|---|
| hand rules, `rooms/combinations.ts` | none | evaluateHand, compareHands, resolveHandWinners, splitAmount | called by the showdown and the early ends | the better hand wins, La Mano decides ties only, no cent is lost in a split |
| side pots, `rooms/core/PotManager.ts`, `MesaRoom.calculateSidePots` | none | calculateSidePots | called by the showdown | nobody wins more of a stake than he matched; everything staked is in a pot |
| main pot, `rooms/MesaRoom.ts`, `rooms/commands/PlayerActionCommand.ts`, `ShowdownCommand.ts`, `rooms/phases/*` | the room: phase, turn, mano, dealer, pots, a record per player, three timers, a queue of betting actions | paso, voy, igualar, resto, llevo/no llevo, declarar juego, show/muck, dismissals, timeouts | ledger (await and fire-and-forget), connections, hand rules, side pots | turns only to players who can move, chips conserved, the right winners paid once, every hand ends |
| pique, `rooms/phases/SorteoPhase.ts`, `CompletarPhase.ts`, MesaRoom 900-1340 | ante, passers, banda | paso/voy to the pique, restart, banda | ledger | the ante is charged and returned once |
| descarte and APUESTA_4_CARTAS, `rooms/phases/*`, MesaRoom 1560-2080 | bets on four cards, validation of juego | bets, validation, replacement of cards | ledger, main pot | as the main pot, and no double charge by the validation |
| connections, `rooms/core/ConnectionManager.ts`, `RoomLifecycleCommand.ts` | sockets, grace periods, who was La Mano | drop, reconnect, expiry, leave, abandon | every phase | a player who goes loses no money that is his and stops nobody |
| lobby and joins, `ConnectionManager.ts`, `RoomLifecycleCommand.ts`, MesaRoom 594-990 | sessions, seats, ready, waiting, countdown | join, takeover by a second session, ready, start of a hand, return to the lobby | connections, votes, ledger (wallet read before a join) | a user sits once; a countdown runs for enough ready players |
| ledger, `services/SupabaseService.ts`, `supabase/migrations/*` | wallets, ledger rows, references | process_ledger_entry, award_pot, refunds, transfers | every payment | each operation settles once; wallet = sum of entries = chips in RAM |
| pique voting, `commands/PiqueVotingCommand.ts` | proposal, votes | propose, vote | joins and leaves | a vote is closed as soon as it is decided, and by nobody during a hand |
| transfers, `commands/TransferCommand.ts` | - | transfer | ledger, chips in RAM | both copies of both wallets agree |
| crash recovery, `services/CrashRecoveryService.ts`, recovery migrations | checkpoints, claims, fences, incidents | checkpoint, claim, refund, resolve | ledger, rooms | a crashed hand is decided once; from then on its money is moved by the expiry or by the table that resumed it, never by both. What its first table had paid is not looked at |
| supervision and voice, `commands/AdminCommand.ts`, LiveKit services | mutes, tokens | mute, watch, revoke | connections | - |
| deck, `core/DeckManager.ts` | deck, seed | shuffle, deal, recycle | phases | no card twice |
| replays, audit, alerts, anti-cheat | files, rows | append | none reads them back | - |
| sessions, notifications, workers, cron | Redis, outbox | dispatch, retry | database | - |
| `apps/web`, `packages`, `infra`, `e2e`, `scripts` | UI | - | messages to the rooms | - |

### The hard behaviours

* A room is one Node.js object. A handler runs to its first `await`
  undisturbed, then anything may happen: another client's message, a timer, a
  disconnection, the removal of the very player whose handler waits.
* Every amount is kept twice: chips in the room's memory, a wallet in the
  database. Bets wait for the database; payouts and refunds do not.
* The ledger is idempotent by reference: what is retried is not paid twice,
  and what reuses a reference by accident is not paid at all.
* The three timers (turn 30 s, showdown 30 s, cleanup 3 s) race the messages
  they stand in for.
* A hand has many ends: showdown, last player, mass disconnection, empty room.
* The pique, the first betting round, may start over: those who passed before
  there was a price are asked again, and when that does not help the bets go
  back, those who passed pay a banda, and the cards are dealt anew.
* When everybody checks with four cards although somebody has juego, all are asked
  once more; their calls are then collected from the ledger one after another,
  outside the queue in which every other bet waits.
* The functions of the database run as transactions of concurrent sessions: web
  actions and the rooms move the same wallets, and administrators decide the
  same requests.
* A user may come back in a second session while the first one is at the table, in
  its grace period or leaving; the Player is copied, and handlers that wait hold
  the old object. A vote, a countdown and a transfer go on meanwhile.
* A server that crashes leaves a hand behind, of which pots may be paid and bets
  returned. The next process resumes it in a new room or, past a deadline, gives the
  bets back, and may crash on the way; calls of the old one arrive late.

`PROJECT.json` lists every hazard at its line with the properties about it.

## 2. Modules

| module | stands for | form |
|---|---|---|
| `Combinations` | `rooms/combinations.ts` | pure operators |
| `Pots` | `MesaRoom.calculateSidePots` | closed form, as a set |
| `PotManager` | the loop of `core/PotManager.ts` | one action per iteration; shown to compute `Pots!SidePots` |
| `ShowdownOfOnePot` | resolveHandWinners and splitAmount as loops | one action per comparison and per share, in seat order; shown to pay what `Combinations` says |
| `Table` | the memory of a room and its synchronous helpers, the ledger they call | a record and operators from room to room |
| `MainPot` | every handler, phase and timer from the revealed bottom card to the LOBBY | the state machine, EXTENDS `Table` |
| `Pique` | the hand before it: two cards, voy or paso, restart and banda, two more cards | the state machine, EXTENDS `Table` |
| `FourCards` | between the two: bets with four cards, the question about juego, who takes the pique, discards and their replacement | the state machine, EXTENDS `Table`, with the handlers of `MainPot` it shares |
| `Lobby` | between two hands: sessions and seats, ready and countdown, the vote about the pique, transfers at the table | the state machine, with helpers from room to room as in `Table` |
| `Bank` | what the ledger promises | abstract specification |
| `LedgerTransactions` | the database functions that move money, as concurrent transactions | the state machine, implements `Bank` |
| `CrashedHand` | what the crash recovery promises about one hand | abstract specification |
| `Recovery` | `services/CrashRecoveryService.ts`, the game_recovery functions, the locked rooms | the state machine, implements `CrashedHand` |
| `MCPotManager`, `MCShowdownOfOnePot`, `MCMainPot`, `MCPique`, `MCFourCards`, `MCLobby`, `MCLedger`, `MCRecovery` | - | values of the constants for TLC |
| `Sums` | - | lemmas about sums, least and greatest elements of finite sets |
| `Loops_proofs`, `MainPot_proofs`, `Pique_proofs`, `FourCards_proofs`, `Lobby_proofs`, `LedgerTransactions_proofs`, `Recovery_proofs` | - | theorems |

`Pique`, `FourCards` and `MainPot` are a hand in three parts over one `Table` (room
and ledger): each ends where the next begins, in a phase entry that leaves no
timer and no call behind (`HandedOver`). `FourCards` instantiates `MainPot` for what
its betting round shares with the later ones: who is in turn, the ledger's
answer to a bet, the connections. `MainPot` also composes `Pots` and
`Combinations`. An operator of `Table` is a helper of the code: a handler that
calls four helpers is the composition of four operators in the order of the
code, one atomic step. A handler that awaits is two actions.

Handlers and phase entries of the code end in a call: `advanceNext()`, or the
`enter` of the next phase, which may run through to the phase after it. In
`MainPot` they return a step, the room with the call that is due
(`Still`, `Advance`, `Enter`), and `Finish` runs the calls that are due in the
same action, down to the phase that waits for somebody.

`Lobby` is what lies between two such hands, for a table where users come and go.
Its hand is three actions without content (opened, dealt, ended), and in exchange
its players are sessions `<<user, n>>`, which replace one another, where the other
modules have seats with a fixed player.

The money appears at three depths. The rooms' modules have one debit or credit
per call, answered or failed. `LedgerTransactions` opens the call: locks, the
read of the last balance, several entries, the commit. `Recovery` opens it at the
other end: what is left of bets and refunds when the process that sent them is
gone.

### Code to model: the rooms

| code | model |
|---|---|
| `state.*`, Player objects, private fields of MesaRoom | fields of `room`; a boolean of the Player objects is the set of seats where it is true |
| the queue of `handlePlayerAction`, with its one awaited `recordBet` | `bet` (`call` in `Pique`): nothing, or the call in flight; a betting action needs it free |
| `clock.setTimeout` | `turnTimer`, `autoTimer`, `revealTimer` (armed or not), `cleanups`, `dealing`, `completing` (how many are scheduled) |
| `pendingPasoJuegoPlayerId/Phase` | `pasoBy`, `pasoPhase` |
| the player and the phase of PIQUE_REVEAL | `llevoBy`, `returnTo` |
| `forcedShowdownRevealWinnerId`, pending showdown result | `forced`, `pending` |
| `dealerRotatedThisGame` | `rotated` |
| `piquePassers`, `piquePreBetPassers`, `piqueReopenedThisRound`, the restart counter, passes per player | `passers`, `preBet`, `reopened`, `restarts`, `passes` |
| `juegoValidationPendingIds`, `Responses`, `PlayersWithJuego`, `Timer`, `CallerId` | `asked`, `claims` and `callers` (in the order they came), `validators`, `validationTimer`, `callerId` |
| the locals of resolveCallersOnly and collectValidationCallerContributions across their awaits | `collect`: calls left, all calls, the amount asked of the ledger, the first caller, what he paid |
| `pendingPiqueWinnerIds`, `ContestantIds`, `Continuation`, `ReopenCallers` | `winners`, `contestants`, `continuation`, `reopenCallers` |
| `pendingDiscardCards`, the interval that deals their replacement | `missing` (how many), `dealing` (who is still to get his) and `dealFrom` (the seat the deal began with) in `FourCards` |
| the ledger row of a validation call | `booked`, its amount |
| wallets and references of `ledger` | `balance`, `refs` (pairs of player and reference) |
| the debit of a bet whose answer was lost | `debit`, until the timeline, which names the reference, has grown |
| `allowReconnection`, `wasActiveMano`, the await of a consented leave | `links.grace`, `links.mano`, `links.leaving` |

`skewed` is a history variable: the players whose chips moved while the ledger
answered with the result of an earlier operation, or the other way round; so are
`deals`, `paid` and `skipped` of `Pique` and `away` of `FourCards` (who was ever
disconnected). `fates` and `failures` count for the
bounds.

### Code to model: the lobby

| code | model |
|---|---|
| `sessionId`, and the `supabaseUserId` it belongs to | `<<user, n>>`, the n-th session of the user |
| `players`, and the booleans connected, isReady, isWaiting of a Player | `room.players` and its subsets |
| `seatOrder` | `room.seats`, a set: the order of turns is `Table`'s |
| `countdown`, -1 or not, and its interval | `room.countdown` |
| `proposedPique`, `piqueVoters` and the counters of the vote | `proposed`, `proposer`, `ballots`, `votesFor`, `votesAgainst`, `votersTotal` |
| the awaits of getWalletBalance and checkTableAccess in a join | `joining`, with the wallet that was `read` |
| `allowReconnection`, the await of the voice revocation | `grace`, `leaving` |
| the timers from STARTING to PIQUE_DEAL | `openings`, how many will still set the phase |
| transferBetweenPlayers, awaited | `transfers`: sent, done or refused in the database |

Two histories say what the properties leave out. `tangled` is set once the timers
of an opening outlive its hand: everybody went, the room was reset to LOBBY, and
the timers, which nobody clears, put it into the hand that does not exist.
`overtaken` is the set of users for whom a transfer and a join, or the lost answer
of a transfer, may have set chips and wallet apart. `events` counts for the bound.

### Code to model: the ledger

| code | model |
|---|---|
| an RPC, one transaction of the database | a `session`: the call, its state, its next entry |
| `SELECT ... FOR UPDATE` on a request, ticket, investigation | `row`, held to the end |
| `pg_advisory_xact_lock(hashtext(user))` | `users`, held to the end |
| `balance_after_cents` of the last entry; `wallets.balance_cents` | `last`; `wallet` |
| the unique `reference_id` | `entries`, pairs of operation and place |
| what a transaction wrote and did not commit | `wrote`, `draft` |

Two database functions that wait for each other's locks are `InDeadlock`, which
PostgreSQL breaks. `moved` is the history of what every user's entries amount to.

### Code to model: the crash recovery

| code | model |
|---|---|
| the row of `game_recovery_incidents`: status, claim, fence, replacement room, lease | `incident` |
| CrashRecoveryService: the step it is at, its timers | `servers[s].task`, `.expiry`, `.renews`, `.tries` |
| a replacement room: restored roster, who is back, whose grace runs, calls of the unlock check | `rooms[r]` |
| the ledger of the hand | `ledger`: `bets`; what the crashed table had `returned` and `paid`; what the expiry `credited`; whether the resumed `table` moved money |
| calls of the crashed server under way | `LateCall` |
| clock of the database | `ClaimExpires`, `LeaseExpires`, `DeadlinePasses`, at any moment |

A call is one step with its answer; a call of `Faulty` may be refused before its
effect, or its answer be lost after. Between two steps any process may crash.

### Abstractions

Rooms:

* `MainPot` is one hand, from REVELAR_CARTA on. What the earlier phases leave
  behind is a table of `Deals`: stacks, stakes, all-in and folded players, the
  merged pique. It ends in the LOBBY (`HandOver`). `Pique` is the
  first part, from the shuffle to APUESTA_4_CARTAS, with an empty main pot;
  `FourCards` the part between, up to the bottom card.
* Cards are their evaluation, an integer `100 * type + points`; 0 is a hand that
  was collected. `ShowdownOfOnePot` checks the evaluation on real cards. In `Pique`
  cards are only whether a player who passes holds two of a suit.
* In `FourCards` a discard leaves the evaluation of a hand as it is: nobody's
  juego is looked at between the discards and the bottom card. "Llevo juego" in
  DESCARTE is left out: who passed with juego has folded and has no turn there.
  The dead code after the return of resolveClaimantsWithCallers is not modelled.
* The ledger takes a debit and answers in one step; a credit is taken when it
  is issued. A failed RPC of `MainPot` moves nothing; in `Pique` the answer may be
  lost after the debit. The clawback of a failed award is left out.
* A turn timeout is not queued behind a bet in flight, and a queued message of a
  client that disconnects meanwhile is not modelled: there is one bet at a time.
* All players are signed in. During a hand, reconnection is that of the same
  session; a second session and the pique vote inside removePlayer are `Lobby`'s.
* The banda is computed in the room and sent as one transaction; its commission
  is 5 %, so chips and wallet of the winner differ from there on (`skewed`).
* `piqueReopenPendingIds` is left out: nothing reads it later.
* Replay, statistics, chat, metadata, voice and the broadcasts are left out.

Lobby: a join that has read wallet and sanctions runs to its end in one step (the
await of a muted player's token is left out), and so does its client, which does
not disconnect on the way. A session that was replaced may reconnect, to no
effect, and is not asked to abandon. Of the timers of an opening only the last is
kept, the one that names the phase of the hand. Chips move by transfers only, so
`ChipsFollowWallet` is about tables whose hands were settled. isFolded, hasActed,
the draw of the first dealer and maxClients are left out. An empty room is kept,
where Colyseus may dispose of it.

Ledger: what a session does between two waits for a lock is one step. An
investigation has one amount that is proposed, cancelled or approved. A transfer
that a user sends again has a new reference, for it contains the time, and is
another operation. Authorisation is left out. `transfer_pique_banda` is one
atomic step: its locks have keys no other function uses, so the update of a
wallet by both may also be lost in ways the model does not have; one loser stands
for all and the row of the commission, which moves nothing, is left out.

Recovery: one incident. Lease, deadline and timers are not measured. What the
checkpoint holds (recoverable, of an unsupported phase, invalid) is fixed at the
crash. The crash may have come at any moment of the hand: the ledger starts with the
bets and one of `Histories`, what the table had returned to each user and paid of
its pots, prizes and commission together, with no more given out than was bet (two
refunds or payments of one pot are the rooms' subject). What was under way arrives
later, as `LateCall`: a bet, a refund, a payment, or the replay that finishes the
game; all of it before the deadline, for a call that takes two minutes is not
modelled. Of a table that resumed the hand only whether it moves money is kept
(`MovesMoney`, `HandEnds`, `Leave`), not the amounts. So nothing here says that a
resumed table does not pay again what the crashed one had paid: the ledger refuses
the same reference only. And neither `CancelledIsRepaid` nor `KeepsPromise` says that
a cancelled hand had paid nothing before its server crashed: it may have (see the
disagreements), and then gives out what had been paid above its bets.

## 3. Runs

| run | constants | checks |
|---|---|---|
| `MCBetting` | three seats; deals: two equal hands and a short stack with the best, one juego, an all-in from before, a seat that waits for the next hand; raises 1000 and 3000 (one that every stack covers, one the short ones do not), fairness | turns, equal stakes when a round closes, conservation of chips, who wins how much; every hand ends |
| `MCConnections` | three seats, one event on a connection at any moment, showdown timer may expire | both copies of the money, the turn timer, the pots, who is paid |
| `MCPotManager` | four players, stakes 0, 1, 2, 4, every set of competitors, with and without unexplained money | that the loop computes the closed form |
| `MCShowdownOfOnePot` | every deal of twelve cards to three players, an amount whose payout does not divide | the loops pay the closed form, to the cent; La Mano |
| `MCPique` | three seats and a newcomer, one purse that cannot pay the banda; one connection lost, one bet failed or its answer lost, two deals of the pique, one restart | who is asked and who pays, bandas, one debit per bet |
| `MCFourCards` | three seats: two PRIMERAS a point apart, the lower one La Mano's, and no juego; one stack below a call, one that covers two; one event on a connection at any moment, fairness | who takes the pique, equal stakes before the discards, conservation of chips; the hand goes on |
| `MCLobby` | four users with two sessions each, three needed for the first hand, one other pique to propose, one amount to transfer; any two of proposals, transfers, departures and second sessions | one seat per user, the countdown, the vote, the pique of a hand, chips and wallets |
| `MCLedger` | two users, three sessions, eleven operations: a bet, an award, two transfers that cross, a banda, a withdrawal two administrators decide, an investigation | the sums, paper and money together, every call answered, the refinement of `Bank` |
| `MCRecovery` | two players, two processes, two rooms, two claims; one call that fails, at any place, or that the crashed server had sent and comes late; a pot paid before the crash, or nothing | one published room, exact refunds, the refinement of `CrashedHand` |
| `MCRecoverySettles` | one player who may leave, two processes, one room, a failed call among those the code tries again, fairness; the pique was paid | every hand decided; locked rooms released |
| `MCBanda` | two sessions, the operations of `MCLedger` | violated |
| `MCDoubleCharge` | the table of `MCFourCards`, everybody connected | violated |

Bounds. Three seats are the smallest table on which two players go on while a
third folds, is short, is away or waits; the turn order, side pots and ties all
differ from the two-seat case there, and four add one more side pot, which is
what `MCPotManager` needs. `MaxFates` bounds the events on connections: one is
enough for every order of one departure with one bet in flight. `MaxCleanups = 1`
is a guard on the messages that could end a hand a second time in the 3 s before
the cleanup. `MaxRestarts` is 10 in the code: 1 reaches the restart, and what
happens past the last one. `MaxDeals = 2` is enough for a reference of the first
deal to be used again by the second; a third one adds nothing a second does not
reuse. `MaxFences = 2` allows the claim that was lost and the one that replaced
it, `Retries` is 3 in the code and counts renewals alike whatever its value.
The late call of `MCRecovery` may come before the list of refunds is
derived or after; with the payment of `PaidOrNot` before it, out of two bets, a user is
owed all or nothing and more is owed than is left. A failed call and a late one do
not meet there: one `MaxFaults` bounds both.
Three sessions are two that conflict, in a circle if they like, and a third that
reads what they left; three are also what it takes to propose, cancel and
approve. `MCLobby` has four users because a voter's departure can leave a vote undecided
only with three voters, and `minPlayers = 3` is the default of the rooms; one budget
(`MaxEvents`) bounds proposals, transfers, departures and second sessions together,
for what can go wrong takes two of them: a proposal and a departure, a transfer and
a second session, a loss and a second session in its grace period. Being ready,
voting, answers, expiries and hands are not bounded; `MaxOpenings = 2` is the first
opening that is tangled with a later one. `AutoTimers = FALSE` assumes that players answer the showdown within
30 s. `Hasty = FALSE` lets the interface hide the betting buttons while the
question about juego is open, as the web client does, though the server does not
insist.

Stakes and raises are multiples of 1000 cents, so every commission divides
but for its rounding, which `OnlyRakeLeaves` allows once per side pot.
`StakesMatched` compares the players who have chips left: who is short pays what he
has, and a raise that is cut to the stack counts as far as it goes.
`PaidToDiscard` is the same of the round with four cards, and leaves out who was away during the bets
(he comes back to the discards without a stake) and who waits for the next hand. It is about rounds that end with
the turn of a player, and not about the end of a validation, where a refused
first call leaves the others' calls in the pot, nor, once a connection was lost, about
a showdown of the pique, which may follow a round without a turn.
`BestJuegoTakesPique` compares the winner with all who left the main pot as long as no connection was lost, and
with the competitors of this showdown otherwise: a pique whose winner went before he was paid is
competed for again, by players whose cards may have been collected. `MCFourCards` has one raise and
one amount of a call: what differs is whether a stack covers them, which the
three stacks do.
`PaidToPlay` is about rounds in which somebody had the
turn to the end: with the turn emptied by a removal, advanceTurnPhase2 closes the
round at once (`skipped`, hazard at `MesaRoom.ts:1031`).

Deadlock is not checked: every model really ends, in the LOBBY or where the
next part of the hand begins, with a call that was answered, an incident that is
closed, a loop that is done; and a hand may stop when a player goes (see below).
That hands do not stop while everybody stays is `HandEnds` and `HandGoesOn`.

### Fairness

`HandEnds` and `HandGoesOn` assume that the event loop runs its timers, that Supabase answers
every call and that somebody closes what the table was shown (weak fairness of
`Serve`), and that players who are asked for a move again and again - a bet that
failed leaves them the turn - answer at last with a message that needs no bet
(strong fairness of `Move`). The first two are properties of Node.js and of the
client; the third is an assumption about people, which the turn timer was
meant to make unnecessary and does not (see below).
Fairness is written with the guards of the actions instead of ENABLED; wherever
a guard holds, the action changes the state. Connections are left alone in
`MCBetting`, and `HandGoesOn` is about behaviours that lose none: with them a
hand may stop. Nobody is assumed to answer the question about juego; its timer
does.

`CallsAreAnswered` assumes that PostgreSQL runs a session that need not wait, and
looks for deadlocks after deadlock_timeout (weak fairness of `Work` and
`BreakDeadlock`, per session). No client is assumed to call.

`CrashedHandIsDecided` and `LockedRoomsAreReleased` assume that a process that is
down is started again (the container's restart policy), that its event loop runs
what is due, and that time passes. Players are not assumed to come back, nor
administrators to act. Calls that nobody repeats - the opening of an incident,
its marking for review, the expiry - do not fail in that run: the incident waits
for the next start when they do. Nor does a call of the crashed server come late: the
replay would finish the game and leave nothing to decide.

### Disagreements between documents and code

Each of these is a run with one property, violated.

| run | property | the repository says | the code does |
|---|---|---|---|
| `MCBanda` | `WalletKeepsTheMoney` | `docs/admin/ADMIN.md:204`: every insertion passes through process_ledger_entry, and the last `balance_after_cents` is the balance | `transfer_pique_banda` inserts entries without a balance; the next entry starts from 0 and overwrites the wallet |
| `MCDoubleCharge` | `CallsAreBooked` | comment at `MesaRoom.ts:1867`: every call of the validation is registered before the room's memory changes, so that none makes chips the ledger does not have | without juego of the first caller all calls are collected again under the same operation id: the stack is charged twice, the wallet once |

More were met while modelling. The modules have the behaviour, no run is spent
on them:

* The turn timer is cleared before a raise is refused (`docs/game/phases.md:45`);
  the asked player may bet while the question about juego is open, and the turn
  moves on (comment at `PlayerActionCommand.ts:263`).
* Two refunds of one hand share a reference, so the second does not reach the
  ledger (comment at `MesaRoom.ts:1475`); a paid pot stays on the table for 3 s,
  in which it can be paid again (`docs/finance/ledger-duplicados-2026-04.md:7`).
* A showdown without connected players drops the pot; a side pot all of whose
  players folded is paid to nobody (comment at `MesaRoom.ts:2365`); the removal of
  the player in turn passes the turn to nobody.
* The timeout of a player with juego who owes a call asks him a question and
  leaves no timer (`PlayerActionCommand.ts:255-264`). A raise beyond the stack is
  cut to the stack after it was validated, and `currentMaxBet` drops below a bet
  on the table (`:293` and `:325`). A player whose stake is from an earlier round
  is not made all-in by a raise while he is away (`MesaRoom.ts:2745`). A player
  who waits for the next hand competes for the pot at the showdown
  (`ShowdownPhase.ts:24`, where `MesaRoom.ts:1011` calls him a spectator).
* restartPique gives the whole pot of the pique to one connected player, where
  the comment at `MesaRoom.ts:1135` has the bets returned to those who made them: a
  bet of a player who is away comes back to nobody.
* In the pique the others may bet more than La Mano, where the comment at
  `PlayerActionCommand.ts:149` has them match exactly; and the limit of ten
  restarts counts from the last action, not from the start of the hand.
* With four cards: a bet that is answered after its player was removed finds an
  empty turn, and advanceTurnBetting closes the round for all, the unasked
  included (`MesaRoom.ts:2163`). A player who calls with juego wins the pique at
  once, also against a later caller with a better one (the comment at
  `MesaRoom.ts:1887` takes him for the only one). When the ledger refuses the first
  call, the calls after it stay in the pot and the round is not opened again
  (`MesaRoom.ts:1871`). The excess of a call returns in the room only
  (`MesaRoom.ts:1897`). A pique whose only winner was removed before the showdown is
  closed is paid to nobody, and so is the share of one of several.
* The refunds of a crashed hand are its bets less its refunds: win credits are not
  looked at (`20260713040000_game_recovery_idempotent_refunds.sql:66-88`,
  `20260713100000_game_recovery_terminal_resolution.sql:106-116`), where the comment at
  line 63 of the first has them computed from the bets and the credits persisted. A
  hand whose pique was paid while it went on (`MesaRoom.ts:2027`), that ended early
  (`:1489-1558`), or that crashed between the prize and the replay, is not finished; cancelled,
  it returns all bets, and what it had paid stays paid.
* A resumed room is discarded while its hand goes on
  (`docs/game/GAME_SCENARIOS.md:264` has it unlocked and played): the lease is renewed
  on, the renewals are refused because the incident is no longer pending, and
  after the last retry the room goes (`CrashRecoveryService.ts:386`).
* A second unlock check while the first one is answered finds the incident
  resumed and discards the room that was just opened (`MesaRoom.ts:446-454`); a
  lost answer does the same. A resumed hand whose server crashes again is not
  recovered: its incident is decided.
* A player who reconnects in his grace period does not pass through
  checkStartCountdown (`ConnectionManager.ts:380`), so a countdown runs with an
  active player who is not ready, where `MesaRoom.ts:757` wants all of them ready.
  The pique then deals him in, because its entry takes isFolded from connected and
  isWaiting only (`SorteoPhase.ts:123`) and forgets that startNewGame had folded him
  (`MesaRoom.ts:953`).
* resetRoomState goes back to LOBBY without promoting the players who wait, and
  without clearing the timers of an opening, which later put the room into a hand
  (`MesaRoom.ts:684`, `SorteoPhase.ts:129`). A showdown that nobody is left for
  keeps everybody ready (`ShowdownPhase.ts:27`), so the next countdown may start
  by itself.
* A second session votes again on the proposal its first session made or voted on
  (comments "El proponente no vota", "Ya voto" at `PiqueVotingCommand.ts:60`), and
  who joins during a vote votes without being counted as a voter.
* A pique that was raised by a vote may leave fewer than two players who can pay
  it; the hand starts nevertheless (`MesaRoom.ts:955`).
* A transfer that is answered after its sender or recipient joined anew, or whose
  answer is lost, leaves chips and wallet apart (`TransferCommand.ts:75`). Its
  minimum is 100 pesos in the room and 1000 in the database
  (`TransferCommand.ts:42`).
* The bonus of a claim is posted with the type `bonus`, which
  process_ledger_entry refuses (`docs/admin/ADMIN_SECURITY.md:311`).

## 4. Proofs

| module | theorems | for every |
|---|---|---|
| `MainPot_proofs` | `TypeCorrect`, `RamAndLedgerAgree` (`RamMatchesLedger`), `TimerIsOwned` (`TimerHasOwner`); `NobodyOutIsPaid` (`OnlyPlayersWin`); `TurnGoesToWhoCanPlay` (`TurnIsLive`); `ShowdownsAreFair` (`ShowdownIsFair`) | number of seats, set of well-formed deals, raises, lost connections and bounds; `TurnIsLive` and `ShowdownIsFair` for tables that lose no connection (`Fates = {}`), `OnlyPlayersWin` and `ShowdownIsFair` with no bet on a room that asks about juego (`Hasty = FALSE`), all as in the runs |
| `Loops_proofs` | `LoopPaysClosedForm` (`PaysClosedForm`), `ManoOnlyDecidesTies` (`ManoDecidesTies`), `SidePotsAreComputed` | deck, number of holders, amounts; finite table and stakes |
| `Pique_proofs` | `PiqueTypeCorrect`, `EveryoneInHasPaid` (`PaidToPlay`), `TurnIsAnswerable` (`TurnCanAct`), `BetsAreDebitedOnce` (`DebitedOnce`), `ChipsAreHandedOn` (`NothingMinted`), `BandaIsOnlyOwed` (`BandaIsOwed`) | number of seats and newcomers, purses, price, restarts, deals, failures and bounds |
| `FourCards_proofs` | `FourCardsTypeCorrect` (`TypeOK`), `BestJuegoIsPaid` (`BestJuegoTakesPique`) | number of seats, set of well-formed deals, minimum, raises, calls, outcomes and lost connections, as long as no client bets while the room asks or collects (`Hasty = FALSE`) |
| `Recovery_proofs` | `TypeCorrect`, `OneRoomPlays` (`OpenRoomIsPublished`), `CancelledHandIsRepaid` (`CancelledIsRepaid`), `PromiseIsKept` (`KeepsPromise`, the refinement of `CrashedHand`) | roster, number of processes and rooms, bets, histories of the hand, failing calls and bounds |
| `Lobby_proofs` | `SeatsStayWithPlayers` (`SeatsArePlayers`), `CountdownIsCovered` (`CountdownHasPlayers`), `PiqueIsFixed` (`PiqueHoldsInHand`), `LobbyTypeCorrect`, `OpenVotesAreUndecided` (`OpenVoteIsUndecided`), `ChipsMatchWallets` (`ChipsFollowWallet`) | set of users and sessions, minimum of players, amounts and bounds |
| `LedgerTransactions_proofs` | `TypeCorrect`, `EntriesAlwaysAddUp` (`EntriesAddUp`), `DecidedOnce` (`ApprovedIsPaid`), `LedgerIsBank` (`KeepsAccounts`, the refinement of `Bank`) | set of users, sessions, operations and papers |

Assumptions: `NAssumption` (there is a seat), `MainPotAssumption` (the deals are
well formed: stakes and the merged pique are natural numbers, chips and raises integers),
`ShowdownAssumption` (the cards are those of a deck, somebody is eligible, a payout has a cent for two), `FourCardsAssumption` (so are those the pique leaves; a call is at least the
minimum, a discard at most four cards), `PiqueAssumption` (purses, price and the amounts bet are natural numbers, some of
the players are newcomers), `RecoveryAssumption` (bets and what was returned and paid of them are natural
numbers, the model values differ), `LobbyAssumption` (amounts and minima are natural numbers), `LedgerAssumption` and `OperationAssumption` (an operation has at most
two entries, one where it decides a paper and none where it closes one, and at
most one operation pays for a paper). TLC evaluates them in the runs.

**Rooms.** Neither `RamMatchesLedger` nor `TimerHasOwner` is inductive alone: a helper pays a
player or gives him the turn because he is a seat of a room of the right shape.
`Inv` is `TypeOK /\ RamMatchesLedger /\ TimerHasOwner`; about the room alone it
says `Good(room)`, that is `RoomOK(room) /\ Match(room) /\ Owned(room)`.
There is one lemma per helper of `Table` - a good room stays good - on the facts
that turn order and winners always name a seat (`FirstIsFound`, `SomebodyWins`,
from the well-foundedness of <), and one per phase and per handler, by composition of the helpers' lemmas; `FinishGood` says that a
handler that hands over a good room leaves one behind, however many phases the
hand runs through; `InvHolds` is the whole specification. The one place where a
helper breaks a part of `Good` on its way is `RemovePlayer`: without the player
the armed timer has no owner until the turn is taken from him, so that its proof
looks at the record before and after, not at the steps between.

The amounts of money are left untyped in `RoomOK`; `MoneyInv` below and `Pique_proofs` type
them. The two copies are related without types, because every helper adds the same amount to both.

`TurnIsLive` has an argument of its own, over `Good`: a step of a handler `Continues`
when it leaves the turn with somebody who can play, or leaves the betting rounds, or
hands the hand to `advanceNext()` or to the `enter` of a next phase, and `FinishIsLive`
follows those calls down to the phase that waits. It is proved for `Fates = {}`,
which is also how the run checks it: no handler of a disconnection or a removal
passes the turn on, so with them it does not hold.

`ShowdownIsFair` compares two rooms, the one before a showdown and the one after, and is
proved in two halves. `SettleIsFair` is about the showdown alone. Its side pots
are layers of the stakes: those open to a player, up to the level of his stake, hold
what the others have of it (`LayersUpTo`, `OpenPots`), the rest pot holds what nobody
staked, and the players of a higher pot are among those of a lower one, so that whoever
is beaten by a hand that staked as much meets it in every pot of his. The other half
says that no step but a showdown moves money to a player before the LOBBY, and that the
showdown sees true stakes. `MoneyInv` says of a room whose hand is played (`Playing`) that
its money is in order (`Bank`: everybody is still there, no pique is on the table, the pot
is not less than the sum of the stakes, what was bet in this round not more than the
stake) and that only one of an open question, a bet in flight and a reveal is on. `Plays`
is a step of the money to the pot: chips and stake of each seat add up to what they did
(`Worth`). A handler may do several such steps and hand on to a phase, so that, as for the
turn, there is one lemma per handler, and `FinishSettles` follows the phases down to the
one that waits or pays. The two hypotheses are those of the run. They are needed: a
removed player's stake stays in the pot without him, and a bet beside an open question
puts two handlers to work on one round.

`OnlyPlayersWin` is proved with every connection there is to lose, so that it may assume
nothing about who is still there. What a lost connection, a removal, a timer or the end of
a hand does to the room is to let it fade (`Fades`): nobody is folded, no question is asked,
the phase stays or becomes the LOBBY, and whoever gains is not out. A handler of
the hand works on a room in which every seat is worth what it was (`Works`) and ends in a
room that rests (`Rests`): whoever gained is in the hand. Between the two, a player who is
forced to show his hand (`forced`) is handed from the declarations to the showdown, and may
have gone in the meantime. The invariant is `WinInv`, of which `Orderly` is the part about
what is open between two steps: the last competitor of a showdown and a forced one are not
folded, no player has declared both juego and no juego, and a question, a bet in flight and
a reveal are alone. TLC checked it at random on three seats with up to five lost connections
(11.7 million states) before it was proved.

**Loops.** The invariant of `ShowdownOfOnePot` is `LoopInv`: the hands are four cards each
(`Dealt`), the best hand is the best of those compared (`Compared`), the winners are those
that equal it (`Chosen`), and the first `index` of them, in seat order, have their shares
(`Shared`). That the shares are the payout to the cent is `SharesAddUp`; that La Mano's
point never reaches the next type needs that a hand has at most 84 points
(`PointsAreFew`). `SidePotInv` says of the loop of `PotManager` that the levels visited
are the lowest ones, `prevLevel` is the greatest of them and the pots are their layers.

**Sums.** The fold behind `SumFunctionOnSet` is a recursive function over the subsets of
a set. `Sums` shows that such a function exists and is the only one, by induction
(`SetInduction`, over sets of subsets, since the library's induction theorems take an
operator), and from it what the proofs about money use: a sum with one element more,
of a function changed in one place, of two functions, of natural numbers, of a part. Least and
greatest elements of a set, and the nearest below another, come from the same induction.

**Pique.** The invariant `Sound` is the shape of the record (`Shape`, with every
amount a natural number), that RAM and ledger agree up to the one debit whose
answer was lost (`Books`), that turns go to seats and newcomers wait (`Order`), and six
parts that only make sense together: who passed has paid nothing (`Price`), who has
spoken and is in has paid (`Round`), the turn is with somebody who has not spoken
(`Turn`), what the call under way knows about its player (`Calls`), one chain of timers
at most and none during a round (`Serial`, `Waits`), and that the players who are dealt
two more cards have bet (`Bettors`). `PaidToPlay` needs all of them: a bet counts
when it is answered, in a room that others have changed since it was sent. Every
helper has a lemma about the fields it touches, and `Step` - no chips are made, and
who will be asked again keeps his - is carried along for the two action properties.
Before it was proved, TLC checked the invariant on four seats (785 230 states) and on three
with two lost connections and two failed calls (2 833 229 states).

**Bets with four cards.** The invariant `Sound` says what the record looks like
(`Shape`), that the room waits for one thing at a time (`Waits`: a move, the answer about
juego, the answers of a validation, the ledger's answer to a call or to a bet, the next
card, each with the phases it belongs to), who the winners of a pique that waits to be
paid are (`Decided`: they have passed, and nobody of the competition beats them by two
points) and, before a connection is lost, that only juego has passed (`Fair`). `TypeOK` is
not inductive without `Waits`: a call is charged twice, and its excess comes back, so that
`pot`, `mainBet` and what is collected stay out of debt only because no other handler runs
between. A mass disconnection puts the room into the LOBBY under whatever it waits for,
so LOBBY is in each of the parts; `Fades` is what a lost connection, a removal or a
cleanup may do to the rest. The claims of a validation are a fold over a sequence, which
`FoldOfClaimsExists` gives as a recursive function over sets of indices. The hypothesis
`Hasty = FALSE` is that of the run, and the proof needs it: a player who bets while his
call is collected may overdraw (hazard at `MesaRoom.ts:1929`).

**Lobby.** That a user sits once and everybody who plays has a seat (`Seated`) is
kept by every helper on its own: the takeover because it renames one id in every
set, the fresh join because it looks for the user first. That a countdown is
covered needs to know more about a room without one: `Calm` says that outside the
LOBBY no countdown runs and no vote is open, and that one that runs has enough
ready players; it holds as long as the timers of an opening have not outlived their
hand, hence `openings > 0` in the LOBBY only when `tangled`. `Inv` is both, and
`PiqueIsFixed` follows from `Calm`: where no vote is open, no departure settles one.
The vote and the money are `MoneyInv`: the counters are the numbers of ballots of
those who still sit there, an open vote has neither majority (so the step that gives one
must close it), and the chips of a user are his wallet corrected by the transfers the
database has made and the room has not heard of, as a sum over `transfers`.

**Recovery.** The invariant `Recoverable` is `TypeOK /\ OpenRoomIsPublished /\
Balanced`; `Balanced` adds to `CancelledIsRepaid` what keeps the two who may move
money apart (`Separate`): the expiry has credited nobody unless the hand is
cancelled, and a table has moved money only of a hand that was resumed. It starts
with every history of the hand, and no late call disturbs it, since none arrives
after the decision. The many steps of the specification do few things to incident, ledger
and rooms: `StepIsKind` sorts them into seven kinds (nothing that shows, a hand
resumed, money moved by a table, the end of a table, the refund, the review, its
closing), and `Balanced` and the refinement are proved once per kind.

**Ledger.** A session that waits for its next lock has half of its operation
written and is trusted to finish it. `Kept` says what it knows: its part of the
entries is in order and is nobody's yet, its draft is the last balance plus what
it moves of it, and its row still has the status it read (`Sound`); locks are
held by one session (`Exclusive`); what is in the ledger is there whole, but for
a transfer whose second entry was refused, which the types rule out (`WholeIn`);
the sums (`AddUp`) and the papers (`PaidIn`) agree with the entries. `Exclusive`
is what makes `Sound` survive the commit of another session. The commit is the
step that `Bank` sees.

Model-checked only:

* of `MainPot`, what leaves the game over a whole hand, and equal stakes
  (`OnlyRakeLeaves`, `StakesMatched`). The first is not
  claimed for all tables: a level of the stakes that only folded players reached may be a side
  pot that is paid to nobody (see the disagreements), and more than a commission leaves with
  it; the tables of the run do not come to it;
* of `FourCards`, who pays to discard and the conservation of chips (`PaidToDiscard`,
  `OnlyRakeLeaves`): the one compares bets of several players, which the invariant
  would have to carry through every way a round ends, the other needs the sums of what a
  commission of 100 cents makes of a smaller pique. For that reason its stacks are integers:
  a winner may be paid a negative amount (hazard at `combinations.ts:158`);
* that the loop of `PotManager` returns (`ComputesSidePots`), and the rest of liveness,
  which needs fairness and ENABLED. What it returns is `SidePotsAreComputed`.

## 5. Not modelled, and what comes next

* A second session that takes a seat over during a hand: `Lobby` has its effect on
  the players, the seats and the vote, but not on the sets of the hand, in which
  handlers and timers go on with the old id.
* The draw of the first dealer, and the lookup of a recipient, which changes nothing.
* Notifications: an outbox in the database and workers that dispatch it.
* Deck, replays, audit, anti-cheat and reports: nothing of them is read back by the
  game. Supervision and voice: calls to LiveKit around small handlers.
* Server start-up, packages, scripts, tests, infrastructure and the web
  application: a client is any sequence of legal messages, a server action any
  call of the ledger. Row-level security and types generated from the schema
  have no behaviour.
* Proofs: `StakesMatched` of `MainPot`, `OnlyRakeLeaves` of `FourCards` with the lemmas of
  `Sums`.
