------------------------------ MODULE Recovery ------------------------------
(***************************************************************************)
(* The recovery of one hand whose server crashed: the server processes     *)
(* that start afterwards (CrashRecoveryService), the incident they share   *)
(* in the database (the game_recovery_* functions), and the locked rooms   *)
(* they create to bring the players back (MesaRoom).                       *)
(*                                                                         *)
(* The crash may have come at any moment of the hand: pots of it may be    *)
(* paid and bets returned, without the game being finished.                *)
(*                                                                         *)
(* A call to the database is one step: its effect and what the process     *)
(* makes of the answer.  A call of "Faulty" may also be refused before it  *)
(* has an effect, or its answer may be lost after.  Leases, the deadline   *)
(* and the timers of a process are not measured: a lease may run out, and  *)
(* a timer may fire, at any moment after it was set.                       *)
(***************************************************************************)
EXTENDS Integers, Functions

CONSTANTS
    User,         \* the roster of the hand
    Server,       \* server processes, each starts once
    Room,         \* replacement rooms they may create
    NoServer, NoRoom,
    Bets,         \* what each user had bet when the server crashed
    Histories,    \* what the crashed table may have returned and paid by then
    Checkpoints,  \* what the checkpoint may be: recoverable, unsupported, invalid
    Faulty,       \* calls that may fail, or arrive late
    Retries,      \* renewals that may fail in a row (3 in the code)
    MaxFaults, MaxFences, MaxDrops, MaxChecks  \* bounds

ASSUME RecoveryAssumption ==
    /\ NoServer \notin Server /\ NoRoom \notin Room
    /\ Bets \in [User -> Nat]
    /\ Histories \subseteq [returned : [User -> Nat], paid : Nat]
    /\ Retries \in Nat
    /\ Checkpoints \subseteq {"recoverable", "unsupported", "invalid"}

VARIABLES
    incident,     \* the row of game_recovery_incidents
    ledger,       \* the entries of the hand, by who made them
    finished,     \* games.status = 'finished'
    overdue,      \* recovery_deadline_at has passed on the database's clock
    checkpoint,   \* what game_recovery_checkpoints holds
    servers,      \* the CrashRecoveryService of each process
    rooms,        \* replacement rooms
    counts        \* faults and drops so far, for the bounds

vars == <<incident, ledger, finished, overdue, checkpoint, servers, rooms, counts>>

Statuses == {"none", "recovery_pending", "resumed", "cancelled_crash", "manual_review", "closed"}
Tasks == {"load", "open", "replace", "create", "map", "review", "idle"}
Expiries == {"none", "due", "derived", "escalate"}

NoIncident ==
    [status |-> "none", owner |-> NoServer, fence |-> 0, claimed |-> FALSE,
     room |-> NoRoom, roomFence |-> 0, leased |-> FALSE, acknowledged |-> FALSE]

NoAmounts == [u \in User |-> 0]

Offline ==
    [state |-> "off", task |-> "load", fence |-> 0, room |-> NoRoom,
     expiry |-> "none", list |-> NoAmounts, renews |-> NoRoom, tries |-> 0]

NotCreated ==
    [state |-> "none", server |-> NoServer, fence |-> 0,
     seats |-> {}, here |-> {}, lapsing |-> {}, checks |-> 0]

(* A room that was closed, or whose hand ended; nobody joins it any more   *)
(* for this hand.                                                          *)
Left(how) == [NotCreated EXCEPT !.state = how]

-----------------------------------------------------------------------------
(* What the functions of the database look at.                             *)

Pending == incident.status = "recovery_pending"

(* The ledger of the hand: its bets; what the crashed table had returned   *)
(* to each user and paid of its pots, prizes and rake; what the expiry has *)
(* credited; and whether the table that resumed it has moved money.        *)
LedgerAfter(history) ==
    [bets |-> Bets, returned |-> history.returned, paid |-> history.paid,
     credited |-> NoAmounts, table |-> FALSE]

Staked == SumFunctionOnSet(ledger.bets, User)

GivenOut == SumFunctionOnSet(ledger.returned, User) + ledger.paid

(* Bets less refunds, whoever made them; what was paid is not looked at.   *)
Owed(u) == ledger.bets[u] - ledger.returned[u] - ledger.credited[u]

(* derive_game_recovery_refunds: one amount per user who is owed.          *)
Derived == [u \in User |-> IF Owed(u) > 0 THEN Owed(u) ELSE 0]

Runs(s, task) == servers[s].state = "up" /\ servers[s].task = task

(* A call is refused, or its answer lost, or it comes late.                *)
Fails(call) ==
    /\ call \in Faulty /\ counts.faults < MaxFaults
    /\ counts' = [counts EXCEPT !.faults = @ + 1]

Answers == UNCHANGED counts

(* A room that is discarded disconnects its clients and refunds nobody.    *)
Bug_Discard(r) ==
    rooms' = IF r = NoRoom \/ rooms[r].state = "locked" THEN rooms
             ELSE [rooms EXCEPT ![r] = Left("gone")]

Discard(r) ==
    rooms' = IF r = NoRoom THEN rooms ELSE [rooms EXCEPT ![r] = Left("gone")]

-----------------------------------------------------------------------------
(* The start of a process: the checkpoint of the unfinished hand is read   *)
(* and its incident opened.  The retry of a load that failed is the same   *)
(* step later.                                                             *)

Start(s) ==
    /\ servers[s].state = "off"
    /\ servers' = [servers EXCEPT ![s].state = "up"]
    /\ UNCHANGED <<incident, ledger, finished, overdue, checkpoint, rooms, counts>>

Load(s) ==
    /\ Runs(s, "load")
    /\ servers' = [servers EXCEPT ![s].task =
                     IF ~finished /\ incident.status \in {"none", "recovery_pending"}
                     THEN "open" ELSE "idle"]
    /\ UNCHANGED <<incident, ledger, finished, overdue, checkpoint, rooms, counts>>

Opened == [incident EXCEPT !.status = IF @ = "none" THEN "recovery_pending" ELSE @]

AfterOpening == [recoverable |-> "replace", unsupported |-> "idle", invalid |-> "review"]

OpenIncident(s) ==
    /\ Runs(s, "open")
    /\ \/ /\ Answers
          /\ incident' = Opened
          /\ servers' = [servers EXCEPT ![s].task = AfterOpening[checkpoint],
                                        ![s].expiry = IF checkpoint = "invalid" THEN @ ELSE "due"]
       \/ /\ Fails("open")
          /\ incident' \in {incident, Opened}
          /\ servers' = [servers EXCEPT ![s].task = "idle"]
    /\ UNCHANGED <<ledger, finished, overdue, checkpoint, rooms>>

(* mark_game_recovery_incident_manual_review, which leaves a decided       *)
(* incident as it is.                                                      *)
Bug_MarkManualReview ==
    /\ incident' = [incident EXCEPT !.status = "manual_review"]
    /\ finished' = TRUE

MarkManualReview ==
    /\ incident' = [incident EXCEPT !.status = IF Pending THEN "manual_review" ELSE @]
    /\ finished' = (finished \/ Pending)

MayMarkManualReview == MarkManualReview \/ UNCHANGED <<incident, finished>>

ReviewInvalid(s) ==
    /\ Runs(s, "review")
    /\ \/ Answers /\ MarkManualReview
       \/ Fails("mark") /\ MayMarkManualReview
    /\ servers' = [servers EXCEPT ![s].task = "idle"]
    /\ UNCHANGED <<ledger, overdue, checkpoint, rooms>>

-----------------------------------------------------------------------------
(* createReplacement: claim the incident, create a locked room, publish it *)
(* as the room of the incident.  Whatever fails is tried again; a claim    *)
(* that is not granted changes nothing.                                    *)

GiveUpReplacing(s) ==
    /\ Runs(s, "replace")
    /\ servers' = [servers EXCEPT ![s].task = "idle",
                                  ![s].expiry = IF @ = "none" THEN "due" ELSE @]
    /\ UNCHANGED <<incident, ledger, finished, overdue, checkpoint, rooms, counts>>

Claimable(s) ==
    /\ Pending /\ ~overdue
    /\ ~incident.claimed \/ incident.owner = s
    /\ incident.room = NoRoom \/ ~incident.leased

(* The owner of a live claim keeps its fence.                              *)
NextFence(s) ==
    IF incident.claimed /\ incident.owner = s THEN incident.fence ELSE incident.fence + 1

Claim(s) ==
    /\ Runs(s, "replace") /\ Claimable(s) /\ NextFence(s) <= MaxFences
    /\ incident' = [incident EXCEPT !.owner = s, !.claimed = TRUE, !.fence = NextFence(s)]
    /\ \/ /\ Answers
          /\ servers' = [servers EXCEPT ![s].task = "create", ![s].fence = NextFence(s)]
       \/ Fails("claim") /\ UNCHANGED servers
    /\ UNCHANGED <<ledger, finished, overdue, checkpoint, rooms>>

(* restoreFromRecoverySnapshot: every seat is there, nobody is connected.  *)
Locked(s) ==
    [NotCreated EXCEPT !.state = "locked", !.server = s,
                       !.fence = servers[s].fence, !.seats = User]

Create(s) ==
    /\ Runs(s, "create")
    /\ \/ \E r \in Room :
            /\ Answers
            /\ rooms[r].state = "none"
            /\ rooms' = [rooms EXCEPT ![r] = Locked(s)]
            /\ servers' = [servers EXCEPT ![s].task = "map", ![s].room = r]
       \/ /\ Fails("create")
          /\ servers' = [servers EXCEPT ![s].task = "replace"]
          /\ UNCHANGED rooms
    /\ UNCHANGED <<incident, ledger, finished, overdue, checkpoint>>

Mappable(s) ==
    /\ Pending /\ ~overdue
    /\ incident.owner = s /\ incident.fence = servers[s].fence /\ incident.claimed
    /\ incident.room = NoRoom \/ ~incident.leased

SaveMapping(s) ==
    incident' = [incident EXCEPT !.room = servers[s].room,
                                 !.roomFence = servers[s].fence, !.leased = TRUE]

(* The room is published and its lease renewed from now on; or it is       *)
(* discarded, published or not, and replaced by another one.               *)
Map(s) ==
    /\ Runs(s, "map")
    /\ \/ /\ Answers /\ Mappable(s) /\ SaveMapping(s)
          /\ servers' = [servers EXCEPT ![s].task = "idle", ![s].renews = servers[s].room]
          /\ UNCHANGED rooms
       \/ /\ \/ Answers /\ ~Mappable(s) /\ UNCHANGED incident
             \/ Fails("map") /\ UNCHANGED incident
             \/ Fails("map") /\ Mappable(s) /\ SaveMapping(s)
          /\ Discard(servers[s].room)
          /\ servers' = [servers EXCEPT ![s].task = "replace", ![s].room = NoRoom]
    /\ UNCHANGED <<ledger, finished, overdue, checkpoint>>

-----------------------------------------------------------------------------
(* The lease of the published room is renewed every 10 s while the         *)
(* incident is pending.  After "Retries" more renewals that failed the     *)
(* process gives the incident to a human and discards its room, whatever   *)
(* was decided meanwhile.                                                  *)

Renewable(s) ==
    /\ Pending /\ ~overdue
    /\ incident.room = servers[s].renews /\ incident.roomFence = servers[s].fence
    /\ incident.owner = s /\ incident.fence = servers[s].fence
    /\ incident.claimed /\ incident.leased

Bug_Renew(s) ==
    /\ servers[s].state = "up" /\ servers[s].renews # NoRoom
    /\ \/ /\ Answers
          /\ servers' = [servers EXCEPT ![s].tries = IF Renewable(s) THEN 0 ELSE @ + 1]
       \/ Fails("renew") /\ servers' = [servers EXCEPT ![s].tries = @ + 1]
    /\ UNCHANGED <<incident, ledger, finished, overdue, checkpoint, rooms>>

Renew(s) ==
    /\ servers[s].state = "up" /\ servers[s].renews # NoRoom /\ servers[s].tries <= Retries
    /\ \/ /\ Answers
          /\ servers' = [servers EXCEPT ![s].tries = IF Renewable(s) THEN 0 ELSE @ + 1]
       \/ Fails("renew") /\ servers' = [servers EXCEPT ![s].tries = @ + 1]
    /\ UNCHANGED <<incident, ledger, finished, overdue, checkpoint, rooms>>

GiveUpLease(s) ==
    /\ servers[s].state = "up" /\ servers[s].tries = Retries + 1
    /\ \/ /\ Answers /\ MarkManualReview
          /\ Discard(servers[s].room)
          /\ servers' = [servers EXCEPT ![s].renews = NoRoom, ![s].tries = 0, ![s].room = NoRoom]
       \/ /\ Fails("mark") /\ MayMarkManualReview
          /\ servers' = [servers EXCEPT ![s].renews = NoRoom, ![s].tries = 0]
          /\ UNCHANGED rooms
    /\ UNCHANGED <<ledger, overdue, checkpoint>>

-----------------------------------------------------------------------------
(* expireRecovery, the timer of the deadline: derive what is owed, expire  *)
(* the incident and credit it in one transaction; what goes wrong is given *)
(* to a human.                                                             *)

Expiring(s, step) == servers[s].state = "up" /\ servers[s].expiry = step

Derive(s) ==
    /\ Expiring(s, "due")
    /\ \/ /\ Answers
          /\ servers' = [servers EXCEPT ![s].expiry = "derived",
                                        ![s].list = IF Pending THEN Derived ELSE NoAmounts]
       \/ /\ Fails("derive")
          /\ servers' = [servers EXCEPT ![s].expiry = "escalate", ![s].list = NoAmounts]
    /\ UNCHANGED <<incident, ledger, finished, overdue, checkpoint, rooms>>

(* The database's clock is behind the process's: again in a second.        *)
Bug_ExpireTooEarly(s) ==
    /\ Expiring(s, "derived") /\ Pending /\ ~overdue
    /\ servers' = [servers EXCEPT ![s].expiry = "none", ![s].list = NoAmounts]
    /\ UNCHANGED <<incident, ledger, finished, overdue, checkpoint, rooms, counts>>

ExpireTooEarly(s) ==
    /\ Expiring(s, "derived") /\ Pending /\ ~overdue
    /\ servers' = [servers EXCEPT ![s].expiry = "due", ![s].list = NoAmounts]
    /\ UNCHANGED <<incident, ledger, finished, overdue, checkpoint, rooms, counts>>

(* The transaction derives the list again, and raises when it is not the   *)
(* one it was given.                                                       *)
Bug_Agrees(s) == TRUE

Agrees(s) == servers[s].list = Derived

ExpireRaises(s) ==
    /\ Expiring(s, "derived")
    /\ \/ Answers /\ Pending /\ overdue /\ ~Agrees(s)
       \/ Fails("expire")
    /\ servers' = [servers EXCEPT ![s].expiry = "escalate", ![s].list = NoAmounts]
    /\ UNCHANGED <<incident, ledger, finished, overdue, checkpoint, rooms>>

ExpireRefunds(s) ==
    /\ Expiring(s, "derived") /\ Pending /\ overdue /\ Agrees(s)
    /\ incident' = [incident EXCEPT !.status = "cancelled_crash"]
    /\ finished' = TRUE
    /\ ledger' = [ledger EXCEPT !.credited = [u \in User |-> @[u] + servers[s].list[u]]]
    /\ \/ /\ Answers /\ Discard(servers[s].room)
          /\ servers' = [servers EXCEPT ![s].expiry = "none", ![s].list = NoAmounts,
                                        ![s].room = NoRoom]
       \/ /\ Fails("expire")
          /\ servers' = [servers EXCEPT ![s].expiry = "escalate", ![s].list = NoAmounts]
          /\ UNCHANGED rooms
    /\ UNCHANGED <<overdue, checkpoint>>

ExpireDecided(s) ==
    /\ Expiring(s, "derived") /\ ~Pending
    /\ \/ /\ incident.status \in {"cancelled_crash", "manual_review"}
          /\ Discard(servers[s].room)
          /\ servers' = [servers EXCEPT ![s].expiry = "none", ![s].list = NoAmounts,
                                        ![s].room = NoRoom]
       \/ /\ incident.status \notin {"cancelled_crash", "manual_review"}
          /\ servers' = [servers EXCEPT ![s].expiry = "none", ![s].list = NoAmounts]
          /\ UNCHANGED rooms
    /\ UNCHANGED <<incident, ledger, finished, overdue, checkpoint, counts>>

Escalate(s) ==
    /\ Expiring(s, "escalate")
    /\ \/ /\ Answers /\ MarkManualReview
          /\ incident'.status = "manual_review"
          /\ Discard(servers[s].room)
          /\ servers' = [servers EXCEPT ![s].expiry = "none", ![s].list = NoAmounts,
                                        ![s].room = NoRoom]
       \/ /\ \/ Answers /\ MarkManualReview /\ incident'.status # "manual_review"
             \/ Fails("mark") /\ MayMarkManualReview
          /\ servers' = [servers EXCEPT ![s].expiry = "none", ![s].list = NoAmounts]
          /\ UNCHANGED rooms
    /\ UNCHANGED <<ledger, overdue, checkpoint>>

-----------------------------------------------------------------------------
(* The players come back to a room.  Who has a record in it is matched by  *)
(* his user id, also when he is there already; who lost it while he was    *)
(* away sits down as a newcomer, and that is no occasion to unlock.        *)

Waits(r) == rooms[r].state = "locked"
Plays(r) == rooms[r].state = "open"

(* unlockRecoveryWhenRosterReturns, up to its call to the database.        *)
Unlocks(r, u) == Waits(r) /\ u \in rooms[r].seats \cup rooms[r].here /\ User \subseteq rooms[r].here \cup {u}

Join(r, u) ==
    /\ Waits(r) \/ Plays(r)
    /\ Unlocks(r, u) => rooms[r].checks < MaxChecks
    /\ rooms' = [rooms EXCEPT ![r].here = @ \cup {u}, ![r].lapsing = @ \ {u},
                              ![r].checks = IF Unlocks(r, u) THEN @ + 1 ELSE @]
    /\ UNCHANGED <<incident, ledger, finished, overdue, checkpoint, servers, counts>>

(* resolve_game_recovery_incident.                                         *)
Bug_Resolvable(r) == Pending /\ ~overdue

Resolvable(r) ==
    /\ Pending /\ ~overdue
    /\ incident.room = r /\ incident.roomFence = rooms[r].fence /\ incident.leased
    /\ incident.owner = rooms[r].server /\ incident.fence = rooms[r].fence /\ incident.claimed

(* A hand whose seats are gone ends in the lobby.                          *)
Unlocked(r) ==
    IF rooms[r].seats = {} THEN Left("over")
    ELSE [rooms[r] EXCEPT !.state = "open", !.checks = @ - 1]

Resolve(r) ==
    /\ Waits(r) \/ Plays(r)
    /\ rooms[r].checks > 0
    /\ \/ /\ Answers /\ Resolvable(r)
          /\ incident' = [incident EXCEPT !.status = "resumed"]
          /\ rooms' = [rooms EXCEPT ![r] = Unlocked(r)]
       \/ /\ \/ Answers /\ ~Resolvable(r) /\ UNCHANGED incident
             \/ Fails("resolve") /\ UNCHANGED incident
             \/ /\ Fails("resolve") /\ Resolvable(r)
                /\ incident' = [incident EXCEPT !.status = "resumed"]
          /\ Discard(r)
    /\ UNCHANGED <<ledger, finished, overdue, checkpoint, servers>>

(* A table in play moves money, or not: it had nothing to return or pay.   *)
MayMoveMoney == ledger' \in {ledger, [ledger EXCEPT !.table = TRUE]}

(* The last player of a hand in play leaves: resetRoomState returns what   *)
(* those who sit have bet.                                                 *)
Leave(r, u) ==
    /\ Waits(r) \/ Plays(r)
    /\ u \in rooms[r].here /\ counts.drops < MaxDrops
    /\ counts' = [counts EXCEPT !.drops = @ + 1]
    /\ \/ /\ Waits(r) \/ rooms[r].here # {u}
          /\ rooms' = [rooms EXCEPT ![r].here = @ \ {u}, ![r].lapsing = @ \cup {u}]
          /\ UNCHANGED ledger
       \/ /\ Plays(r) /\ rooms[r].here = {u}
          /\ rooms' = [rooms EXCEPT ![r] = Left("over")]
          /\ MayMoveMoney
    /\ UNCHANGED <<incident, finished, overdue, checkpoint, servers>>

(* 60 s later, or at once when he leaves for good, his record is removed.  *)
GraceEnds(r, u) ==
    /\ Waits(r) \/ Plays(r)
    /\ u \in rooms[r].lapsing
    /\ rooms' = [rooms EXCEPT ![r].lapsing = @ \ {u}, ![r].seats = @ \ {u}]
    /\ UNCHANGED <<incident, ledger, finished, overdue, checkpoint, servers, counts>>

(* In the middle of the hand: the pique is paid, a bet that nobody called  *)
(* is returned.                                                            *)
MovesMoney(r) ==
    /\ Plays(r)
    /\ ledger' = [ledger EXCEPT !.table = TRUE]
    /\ UNCHANGED <<incident, finished, overdue, checkpoint, servers, rooms, counts>>

(* The hand is played to its end.  A hand that ends early saves no replay, *)
(* which is what finishes the game.                                        *)
HandEnds(r) ==
    /\ Plays(r)
    /\ rooms' = [rooms EXCEPT ![r] = Left("over")]
    /\ MayMoveMoney
    /\ finished' \in {finished, TRUE}
    /\ UNCHANGED <<incident, overdue, checkpoint, servers, counts>>

-----------------------------------------------------------------------------
(* Time, crashes, and the administrators.  Only a pending incident's       *)
(* claim, lease and deadline are ever looked at.                           *)

ClaimExpires ==
    /\ Pending /\ incident.claimed
    /\ incident' = [incident EXCEPT !.claimed = FALSE]
    /\ UNCHANGED <<ledger, finished, overdue, checkpoint, servers, rooms, counts>>

LeaseExpires ==
    /\ Pending /\ incident.leased
    /\ incident' = [incident EXCEPT !.leased = FALSE]
    /\ UNCHANGED <<ledger, finished, overdue, checkpoint, servers, rooms, counts>>

DeadlinePasses ==
    /\ Pending /\ ~overdue
    /\ overdue' = TRUE
    /\ UNCHANGED <<incident, ledger, finished, checkpoint, servers, rooms, counts>>

(* A call the crashed server had sent takes effect after the crash: a bet  *)
(* that no checkpoint knows of, a refund, a pot paid, or the replay that   *)
(* finishes the game.  The table gave out no more than was bet.  It counts *)
(* as a fault.                                                             *)
LateCall(u) ==
    /\ incident.status \in {"none", "recovery_pending"} /\ ~overdue
    /\ Fails("late")
    /\ \/ ledger' = [ledger EXCEPT !.bets[u] = @ + 1] /\ UNCHANGED finished
       \/ /\ GivenOut < Staked
          /\ ledger' \in {[ledger EXCEPT !.returned[u] = @ + 1], [ledger EXCEPT !.paid = @ + 1]}
          /\ UNCHANGED finished
       \/ finished' = TRUE /\ UNCHANGED ledger
    /\ UNCHANGED <<incident, overdue, checkpoint, servers, rooms>>

(* Some process is left to start or to go on.                              *)
Crash(s) ==
    /\ servers[s].state = "up"
    /\ \E t \in Server \ {s} : servers[t].state # "down"
    /\ servers' = [servers EXCEPT ![s] = [Offline EXCEPT !.state = "down"]]
    /\ rooms' = [r \in Room |-> IF rooms[r].server = s
                                THEN Left("gone") ELSE rooms[r]]
    /\ UNCHANGED <<incident, ledger, finished, overdue, checkpoint, counts>>

Acknowledge ==
    /\ incident.status = "manual_review" /\ finished /\ ~incident.acknowledged
    /\ incident' = [incident EXCEPT !.acknowledged = TRUE]
    /\ UNCHANGED <<ledger, finished, overdue, checkpoint, servers, rooms, counts>>

(* An incident under review has no refunds that could be incomplete.       *)
Close ==
    /\ incident.status = "manual_review" /\ finished /\ incident.acknowledged
    /\ incident' = [incident EXCEPT !.status = "closed"]
    /\ UNCHANGED <<ledger, finished, overdue, checkpoint, servers, rooms, counts>>

-----------------------------------------------------------------------------
Init ==
    /\ incident = NoIncident
    /\ \E history \in Histories : ledger = LedgerAfter(history)
    /\ GivenOut <= Staked
    /\ finished = FALSE /\ overdue = FALSE
    /\ checkpoint \in Checkpoints
    /\ servers = [s \in Server |-> Offline]
    /\ rooms = [r \in Room |-> NotCreated]
    /\ counts = [faults |-> 0, drops |-> 0]

Replace(s) == GiveUpReplacing(s) \/ Claim(s) \/ Create(s) \/ Map(s)

Expiration(s) ==
    \/ Derive(s) \/ ExpireTooEarly(s) \/ ExpireRaises(s)
    \/ ExpireRefunds(s) \/ ExpireDecided(s) \/ Escalate(s)

Process(s) ==
    \/ Start(s) \/ Load(s) \/ OpenIncident(s) \/ ReviewInvalid(s)
    \/ Replace(s) \/ Renew(s) \/ GiveUpLease(s) \/ Expiration(s) \/ Crash(s)

Table(r) ==
    \/ Resolve(r) \/ MovesMoney(r) \/ HandEnds(r)
    \/ \E u \in User : Join(r, u) \/ Leave(r, u) \/ GraceEnds(r, u)

Environment ==
    \/ ClaimExpires \/ LeaseExpires \/ DeadlinePasses
    \/ \E u \in User : LateCall(u)
    \/ Acknowledge \/ Close

Next ==
    \/ \E s \in Server : Process(s)
    \/ \E r \in Room : Table(r)
    \/ Environment

Spec == Init /\ [][Next]_vars

(* A process that crashed is started again, its event loop runs what is    *)
(* due, and time passes.                                                   *)
Fairness ==
    /\ WF_vars(DeadlinePasses)
    /\ \A s \in Server :
         /\ WF_vars(Start(s)) /\ WF_vars(Load(s)) /\ WF_vars(OpenIncident(s))
         /\ WF_vars(ReviewInvalid(s)) /\ WF_vars(Replace(s))
         /\ WF_vars(Renew(s)) /\ WF_vars(GiveUpLease(s)) /\ WF_vars(Expiration(s))

FairSpec == Spec /\ Fairness

-----------------------------------------------------------------------------
Incidents ==
    [status : Statuses, owner : Server \cup {NoServer}, fence : Nat, claimed : BOOLEAN,
     room : Room \cup {NoRoom}, roomFence : Nat, leased : BOOLEAN, acknowledged : BOOLEAN]

Ledgers ==
    [bets : [User -> Nat], returned : [User -> Nat], paid : Nat,
     credited : [User -> Nat], table : BOOLEAN]

Services ==
    [state : {"off", "up", "down"}, task : Tasks, fence : Nat, room : Room \cup {NoRoom},
     expiry : Expiries, list : [User -> Nat], renews : Room \cup {NoRoom},
     tries : 0..Retries + 1]

Replacements ==
    [state : {"none", "locked", "open", "over", "gone"}, server : Server \cup {NoServer},
     fence : Nat, seats : SUBSET User, here : SUBSET User, lapsing : SUBSET User, checks : Nat]

TypeOK ==
    /\ incident \in Incidents
    /\ ledger \in Ledgers
    /\ finished \in BOOLEAN /\ overdue \in BOOLEAN
    /\ checkpoint \in Checkpoints
    /\ servers \in [Server -> Services]
    /\ rooms \in [Room -> Replacements]
    /\ counts \in [faults : Nat, drops : Nat]

(* The hand is played in one room only, the one the database sends the     *)
(* players to, under the fence of the last claim: a room of a process that *)
(* lost its claim never opens (resolve_game_recovery_incident, MesaRoom    *)
(* .unlockRecoveryWhenRosterReturns).                                      *)
OpenRoomIsPublished ==
    \A r \in Room : Plays(r) =>
      /\ incident.status = "resumed" /\ incident.room = r
      /\ incident.fence = rooms[r].fence /\ incident.roomFence = rooms[r].fence

(* A hand that was cancelled has returned every bet, once: the expiry has  *)
(* credited each user with what the crashed table had not returned of his  *)
(* bets, whatever reached the ledger between the derivation of the list    *)
(* and the transaction, and however often processes expire it; and no      *)
(* table that resumed the hand has moved money of it.  What was paid       *)
(* before the crash is not taken back: of a hand whose pique was paid all  *)
(* bets are returned, and more is given out than was bet                   *)
(* (expire_game_recovery_incident).                                        *)
CancelledIsRepaid ==
    incident.status = "cancelled_crash" =>
      /\ \A u \in User :
           ledger.credited[u] = IF ledger.bets[u] > ledger.returned[u]
                                THEN ledger.bets[u] - ledger.returned[u] ELSE 0
      /\ ~ledger.table

(* What CrashedHand sees of a recovery.                                    *)
Fate ==
    CASE incident.status \in {"none", "recovery_pending"} -> "interrupted"
      [] incident.status = "resumed" -> "resumed"
      [] incident.status = "cancelled_crash" -> "refunded"
      [] incident.status = "manual_review" -> "reviewed"
      [] incident.status = "closed" -> "closed"

Playing == \E r \in Room : Plays(r)

Movers ==
    (IF \E u \in User : ledger.credited[u] > 0 THEN {"expiry"} ELSE {})
      \cup (IF ledger.table THEN {"table"} ELSE {})

Hand == INSTANCE CrashedHand WITH fate <- Fate, playing <- Playing, movers <- Movers

(* The promise of CrashedHand: the fate of the hand is decided once, a     *)
(* table plays it only after it was resumed, and after the crash its money *)
(* is moved by the expiry or by that table, never by both and never        *)
(* against the decision (the whole of CrashRecoveryService).               *)
KeepsPromise == Hand!Spec

(* A crashed hand does not stay undecided: whatever crashes and fails, it  *)
(* is resumed, refunded or given to a human in the end.                    *)
CrashedHandIsDecided == <>(incident.status \notin {"none", "recovery_pending"})

(* Nobody is kept in a locked room after the hand was cancelled or given   *)
(* to a human.                                                             *)
LockedRoomsAreReleased ==
    incident.status \in {"cancelled_crash", "manual_review"} ~>
      \/ incident.status = "closed"
      \/ \A r \in Room : rooms[r].state # "locked"
=============================================================================
