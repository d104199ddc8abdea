-------------------------------- MODULE Lobby --------------------------------
(***************************************************************************)
(* A room between two hands: who sits at the table under which session,    *)
(* who is ready, the countdown to the next hand, the vote about the        *)
(* minimum pique, and transfers between players, which are allowed at any  *)
(* time.  From core/ConnectionManager.ts, RoomLifecycleCommand.ts,         *)
(* PiqueVotingCommand.ts, TransferCommand.ts and the helpers of            *)
(* MesaRoom.ts they call.                                                  *)
(*                                                                         *)
(* A user has a new session, <<user, n>>, with every connection that is    *)
(* not the reconnection of an old one.  When he joins a table where he     *)
(* sits already the new session takes the old one's place: the Player is   *)
(* copied to a new object under the new id, and the old object stays with  *)
(* the handlers that hold it.                                              *)
(*                                                                         *)
(* The hand itself is left out (Pique, FourCards, MainPot): it is opened,  *)
(* some time later it is dealt, and it ends.  As in Table the room is one  *)
(* record, and a helper of the code an operator from room to room.         *)
(***************************************************************************)
EXTENDS Integers, FiniteSets, FiniteSetsExt

CONSTANTS
    User,
    MaxSessions,   \* how many sessions a user may open
    NoOne,         \* the empty id
    MinPlayers,    \* minPlayers, for the first hand
    MinEntry,      \* what a user needs to sit down
    FirstPique,    \* minPique of the room when it is created
    Proposals,     \* what may be proposed instead
    Fortune,       \* the wallets of the users in the beginning
    Amounts,       \* what is transferred
    MaxEvents      \* how many proposals, transfers, departures and second sessions

Session == User \X (1..MaxSessions)
UserOf(s) == s[1]

ASSUME LobbyAssumption ==
    /\ MaxSessions \in Nat /\ NoOne \notin Session
    /\ MinPlayers \in Nat \ {0} /\ MinEntry \in Nat
    /\ FirstPique \in Nat \ {0} /\ Proposals \subseteq Nat \ {0}
    /\ Fortune \in [User -> Nat] /\ Amounts \subseteq Nat \ {0}

VARIABLES
    room,
    joining,    \* sessions in handleConnectionJoin, before their seat
    read,       \* the wallet each of them has read
    grace,      \* sessions whose 60 s to reconnect run
    leaving,    \* sessions whose leave waits for LiveKit
    opened,     \* how many sessions each user has opened
    openings,   \* hands whose timers (STARTING ... PIQUE_DEAL) run
    wallet,
    transfers,  \* the transfers that are awaited
    events,     \* counts for the bound
    tangled,    \* history: the timers of an opening outlived its hand
    overtaken   \* history: users whose chips a transfer and a join, or its
                \* lost answer, may have set apart from their wallets

connections == <<joining, read, grace, leaving, opened>>
money == <<wallet, transfers>>
vars == <<room, connections, openings, money, events, tangled, overtaken>>

NoBallots == [s \in Session |-> "none"]

Init ==
    /\ room = [phase |-> "LOBBY", players |-> {}, connected |-> {}, ready |-> {},
               waiting |-> {}, seats |-> {}, chips |-> [s \in Session |-> 0],
               countdown |-> FALSE, firstGame |-> TRUE, minPique |-> FirstPique,
               proposed |-> 0, proposer |-> NoOne, ballots |-> NoBallots,
               votesFor |-> 0, votesAgainst |-> 0, votersTotal |-> 0]
    /\ joining = {} /\ read = [s \in Session |-> 0]
    /\ grace = {} /\ leaving = {}
    /\ opened = [u \in User |-> 0]
    /\ openings = 0
    /\ wallet = Fortune /\ transfers = {}
    /\ events = 0 /\ tangled = FALSE /\ overtaken = {}

-----------------------------------------------------------------------------
(* The helpers of MesaRoom.ts.                                             *)

Active(r) == r.connected \ r.waiting

Required(r) == IF r.firstGame THEN MinPlayers ELSE 2

EnoughAreReady(r) == Cardinality(Active(r) \cap r.ready) >= Required(r)

(* The countdown, 5 s, is running or not.                                  *)
CheckStartCountdown(r) ==
    IF r.phase # "LOBBY" THEN r
    ELSE [r EXCEPT !.countdown = EnoughAreReady(r) /\ Active(r) \subseteq r.ready]

(* The timers of the hand that was being opened are not among those that   *)
(* are cleared, and players who wait go on waiting.                        *)
ResetRoomState(r) ==
    [r EXCEPT !.phase = "LOBBY", !.countdown = FALSE, !.firstGame = TRUE, !.ready = {}]

ClearPiqueProposal(r) ==
    [r EXCEPT !.proposed = 0, !.proposer = NoOne, !.ballots = NoBallots,
              !.votesFor = 0, !.votesAgainst = 0, !.votersTotal = 0]

Approve(r) == ClearPiqueProposal([r EXCEPT !.minPique = r.proposed])

Majority(r) == r.votersTotal \div 2 + 1

ResolvePiqueVoteIfReady(r) ==
    IF r.votersTotal = 0 THEN r
    ELSE IF r.votesFor >= Majority(r) THEN Approve(r)
    ELSE IF r.votesAgainst >= Majority(r) THEN ClearPiqueProposal(r)
    ELSE r

VotersBut(r, s) == Active(r) \ {s}

(* A mistake: the ballot is taken from the other side.                     *)
Bug_WithdrawBallot(r, s) ==
    [r EXCEPT !.ballots[s] = "none",
              !.votesFor = IF r.ballots[s] = "against" THEN @ - 1 ELSE @,
              !.votesAgainst = IF r.ballots[s] = "for" THEN @ - 1 ELSE @]

WithdrawBallot(r, s) ==
    [r EXCEPT !.ballots[s] = "none",
              !.votesFor = IF r.ballots[s] = "for" THEN @ - 1 ELSE @,
              !.votesAgainst = IF r.ballots[s] = "against" THEN @ - 1 ELSE @]

(* A mistake: with fewer voters the vote is not counted again.             *)
Bug_AdjustVote(r, s) ==
    IF r.proposed = 0 THEN r
    ELSE IF r.proposer = s THEN ClearPiqueProposal(r)
    ELSE [WithdrawBallot(r, s) EXCEPT !.votersTotal = Cardinality(VotersBut(r, r.proposer))]

(* The voters are counted anew whoever is removed, also an id nobody has.  *)
AdjustVote(r, s) ==
    LET counted == [WithdrawBallot(r, s) EXCEPT
                      !.votersTotal = Cardinality(VotersBut(r, r.proposer))]
    IN  IF r.proposed = 0 THEN r
        ELSE IF r.proposer = s THEN ClearPiqueProposal(r)
        ELSE IF counted.votersTotal = 0 THEN Approve(counted)
        ELSE ResolvePiqueVoteIfReady(counted)

RemovePlayer(r, s) ==
    LET without == [r EXCEPT !.players = @ \ {s}, !.connected = @ \ {s}, !.ready = @ \ {s},
                             !.waiting = @ \ {s}, !.seats = @ \ {s}, !.chips[s] = 0]
        checked == CheckStartCountdown(AdjustVote(without, s))
    IN  IF checked.players = {} THEN ResetRoomState(checked) ELSE checked

(* A mistake: a vote goes on during the hand.                              *)
Bug_StartNewGame(r) ==
    [r EXCEPT !.phase = "OPENING", !.countdown = FALSE, !.firstGame = FALSE]

(* Players who said they were ready and cannot pay the pique, which may    *)
(* have risen since, have to watch.                                        *)
StartNewGame(r) ==
    LET poor == {s \in r.ready \ r.waiting : r.chips[s] < r.minPique}
    IN  [ClearPiqueProposal(r) EXCEPT
           !.phase = "OPENING", !.countdown = FALSE, !.firstGame = FALSE,
           !.ready = @ \ poor, !.waiting = @ \cup poor]

(* cleanupRound: those who waited are promoted.                            *)
CleanupRound(r) ==
    [r EXCEPT !.phase = "LOBBY", !.ready = {}, !.waiting = {}, !.seats = @ \cup r.waiting]

(* The bound on what disturbs a table.                                     *)
Happens == events < MaxEvents /\ events' = events + 1

-----------------------------------------------------------------------------
(* Joining.                                                                *)

(* A client asks to join; its wallet is read, and its sanctions after it.  *)
AskToJoin(u) ==
    LET s == <<u, opened[u] + 1>>
    IN  /\ opened[u] < MaxSessions
        /\ IF opened[u] = 0 THEN UNCHANGED events ELSE Happens
        /\ opened' = [opened EXCEPT ![u] = @ + 1]
        /\ joining' = joining \cup {s}
        /\ read' = [read EXCEPT ![s] = wallet[u]]
        /\ UNCHANGED <<room, grace, leaving, openings, money, overtaken>>

PlayersOf(u) == {s \in room.players : UserOf(s) = u}

(* A transfer whose end the new object, or the balance it starts with,     *)
(* does not see.                                                           *)
Overtakes(u, t) == UserOf(t.from) = u \/ (t.to = u /\ t.state = "done")

Joined(s) ==
    /\ joining' = joining \ {s}
    /\ read' = [read EXCEPT ![s] = 0]
    /\ overtaken' = IF \E t \in transfers : Overtakes(UserOf(s), t)
                    THEN overtaken \cup {UserOf(s)} ELSE overtaken
    /\ UNCHANGED <<grace, leaving, opened, openings, money, events>>

(* A mistake: the seat keeps the old id.                                   *)
Bug_Replace(r, old, s) ==
    [r EXCEPT !.players = (@ \ {old}) \cup {s}, !.connected = (@ \ {old}) \cup {s},
              !.ready = @ \ {old}, !.chips = [@ EXCEPT ![old] = 0, ![s] = r.chips[old]]]

(* The new Player.  What the vote knows of the old id stays as it is.      *)
Replace(r, old, s) ==
    LET Renamed(ids) == IF old \in ids THEN (ids \ {old}) \cup {s} ELSE ids
    IN  [r EXCEPT !.players = Renamed(@), !.waiting = Renamed(@), !.seats = Renamed(@),
                  !.ready = IF r.phase = "LOBBY" THEN @ \ {old} ELSE Renamed(@),
                  !.connected = (@ \ {old}) \cup {s},
                  !.chips = [@ EXCEPT ![old] = 0,
                                      ![s] = IF r.phase = "LOBBY" THEN read[s] ELSE r.chips[old]]]

(* The user sits here already, connected or not.                           *)
TakeOver(s) ==
    /\ s \in joining
    /\ \E old \in PlayersOf(UserOf(s)) : room' = CheckStartCountdown(Replace(room, old, s))
    /\ Joined(s)

(* During a hand a new player waits, without a seat.                       *)
FreshJoin(s) ==
    LET waits == room.phase # "LOBBY"
    IN  /\ s \in joining /\ PlayersOf(UserOf(s)) = {}
        /\ read[s] >= MinEntry
        /\ room' = CheckStartCountdown(
                     [room EXCEPT !.players = @ \cup {s}, !.connected = @ \cup {s},
                                  !.chips[s] = read[s],
                                  !.waiting = IF waits THEN @ \cup {s} ELSE @,
                                  !.seats = IF waits THEN @ ELSE @ \cup {s}])
        /\ Joined(s)

(* A sanction, or too little money.                                        *)
JoinRefused(s) ==
    /\ s \in joining
    /\ joining' = joining \ {s} /\ read' = [read EXCEPT ![s] = 0]
    /\ UNCHANGED <<room, grace, leaving, opened, openings, money, events, overtaken>>

-----------------------------------------------------------------------------
(* The messages of the players at the table.                               *)

ToggleReady(s, isReady) ==
    /\ room.phase = "LOBBY" /\ s \in Active(room)
    /\ isReady => room.chips[s] >= room.minPique
    /\ room' = CheckStartCountdown(
                 [room EXCEPT !.ready = IF isReady THEN @ \cup {s} ELSE @ \ {s}])
    /\ UNCHANGED <<connections, openings, money, events, overtaken>>

(* The proposal of somebody who is alone is approved at once.              *)
ProposePique(s, amount) ==
    LET others == VotersBut(room, s)
        proposal == [ClearPiqueProposal(room) EXCEPT
                       !.proposed = amount, !.proposer = s, !.votersTotal = Cardinality(others)]
    IN  /\ room.phase = "LOBBY" /\ s \in Active(room)
        /\ room.proposed = 0 /\ amount # room.minPique
        /\ room' = IF others = {} THEN Approve(proposal) ELSE proposal
        /\ Happens
        /\ UNCHANGED <<connections, openings, money, overtaken>>

(* Whoever sits at the table by now may vote, counted as a voter or not.   *)
VotePique(s, ballot) ==
    /\ room.phase = "LOBBY" /\ s \in Active(room)
    /\ room.proposed # 0 /\ s # room.proposer /\ room.ballots[s] = "none"
    /\ room' = ResolvePiqueVoteIfReady(
                 [room EXCEPT !.ballots[s] = ballot,
                              !.votesFor = IF ballot = "for" THEN @ + 1 ELSE @,
                              !.votesAgainst = IF ballot = "against" THEN @ + 1 ELSE @])
    /\ UNCHANGED <<connections, openings, money, events, overtaken>>

-----------------------------------------------------------------------------
(* Connections.                                                            *)

(* A mistake: nobody looks at the countdown.                               *)
Bug_Offline(r, s) ==
    LET without == [r EXCEPT !.connected = @ \ {s}]
    IN  IF without.connected = {} THEN ResetRoomState(without) ELSE without

(* What every lost connection does at once.                                *)
Offline(r, s) ==
    LET without == [r EXCEPT !.connected = @ \ {s}]
    IN  CheckStartCountdown(IF without.connected = {} THEN ResetRoomState(without) ELSE without)

MayLose(s) == s \in room.connected /\ Happens

Drop(s) ==
    /\ MayLose(s)
    /\ room' = Offline(room, s)
    /\ grace' = grace \cup {s}
    /\ UNCHANGED <<joining, read, leaving, opened, openings, money, overtaken>>

(* Nothing is checked; and a session that was replaced meanwhile has an    *)
(* object that is in no room.                                              *)
Reconnect(s) ==
    /\ s \in grace
    /\ grace' = grace \ {s}
    /\ room' = IF s \in room.players THEN [room EXCEPT !.connected = @ \cup {s}] ELSE room
    /\ UNCHANGED <<joining, read, leaving, opened, openings, money, events, overtaken>>

GraceExpires(s) ==
    /\ s \in grace
    /\ grace' = grace \ {s}
    /\ room' = IF s \in room.connected THEN room ELSE RemovePlayer(room, s)
    /\ UNCHANGED <<joining, read, leaving, opened, openings, money, events, overtaken>>

Leave(s) ==
    /\ MayLose(s)
    /\ room' = Offline(room, s)
    /\ leaving' = leaving \cup {s}
    /\ UNCHANGED <<joining, read, grace, opened, openings, money, overtaken>>

LeaveDone(s) ==
    /\ s \in leaving
    /\ leaving' = leaving \ {s}
    /\ room' = RemovePlayer(room, s)
    /\ UNCHANGED <<joining, read, grace, opened, openings, money, events, overtaken>>

(* He abandons the table, or an administrator removes him.                 *)
Removed(s) ==
    /\ s \in room.players /\ Happens
    /\ room' = RemovePlayer(room, s)
    /\ UNCHANGED <<connections, openings, money, overtaken>>

-----------------------------------------------------------------------------
(* Hands.                                                                  *)

(* MaxOpenings is a bound: two openings at once.                           *)
MaxOpenings == 2

CountdownEnds ==
    /\ room.countdown /\ openings < MaxOpenings
    /\ room' = StartNewGame(room)
    /\ openings' = openings + 1
    /\ UNCHANGED <<connections, money, events, overtaken>>

(* Of the timers of an opening the last one, which fires whatever became   *)
(* of the hand.                                                            *)
Dealt ==
    /\ openings > 0
    /\ room' = [room EXCEPT !.phase = "HAND"]
    /\ openings' = openings - 1
    /\ UNCHANGED <<connections, money, events, overtaken>>

(* Everybody has to say anew that he is ready, except after a showdown     *)
(* that nobody was left for.                                               *)
HandEnds ==
    /\ room.phase = "HAND"
    /\ \E ready \in {{}, room.ready} : room' = [CleanupRound(room) EXCEPT !.ready = ready]
    /\ UNCHANGED <<connections, openings, money, events, overtaken>>

-----------------------------------------------------------------------------
(* Transfers.                                                              *)

SendTransfer(s, u, amount) ==
    /\ s \in room.connected /\ Happens
    /\ amount <= room.chips[s] /\ u # UserOf(s)
    /\ transfers' = transfers \cup
         {[id |-> events, from |-> s, to |-> u, amount |-> amount, state |-> "sent"]}
    /\ UNCHANGED <<room, connections, openings, wallet, overtaken>>

Becomes(t, state) == transfers' = (transfers \ {t}) \cup {[t EXCEPT !.state = state]}

(* transfer_between_players: one transaction, see LedgerTransactions.  A   *)
(* join that has read the wallet before carries the old balance.           *)
TransferCommits(t) ==
    LET from == UserOf(t.from)
    IN  /\ t.state = "sent"
        /\ IF wallet[from] >= t.amount
           THEN /\ Becomes(t, "done")
                /\ wallet' = [wallet EXCEPT ![from] = @ - t.amount, ![t.to] = @ + t.amount]
                /\ overtaken' = overtaken \cup {UserOf(s) : s \in {j \in joining :
                                                  UserOf(j) \in {from, t.to}}}
           ELSE Becomes(t, "refused") /\ UNCHANGED <<wallet, overtaken>>
        /\ UNCHANGED <<room, connections, openings, events>>

(* A mistake: the recipient's chips are forgotten.                         *)
Bug_MoveChips(r, t) ==
    [r EXCEPT !.chips = [s \in Session |-> IF s = t.from /\ s \in r.players
                                           THEN @[s] - t.amount ELSE @[s]]]

(* The sender's chips are those of the object the handler looked up first. *)
MoveChips(r, t) ==
    [r EXCEPT !.chips = [s \in Session |->
       IF s \notin r.players THEN 0
       ELSE IF s = t.from THEN @[s] - t.amount
       ELSE IF UserOf(s) = t.to THEN @[s] + t.amount
       ELSE @[s]]]

TransferAnswered(t) ==
    /\ t.state \in {"done", "refused"}
    /\ room' = IF t.state = "done" THEN MoveChips(room, t) ELSE room
    /\ transfers' = transfers \ {t}
    /\ UNCHANGED <<connections, openings, wallet, events, overtaken>>

(* The call fails, or its answer is lost: the handler takes both for a     *)
(* transfer that was not made.                                             *)
TransferFails(t) ==
    /\ transfers' = transfers \ {t}
    /\ overtaken' = IF t.state = "done" THEN overtaken \cup {UserOf(t.from), t.to} ELSE overtaken
    /\ UNCHANGED <<room, connections, openings, wallet, events>>

-----------------------------------------------------------------------------
Joins == \/ \E u \in User : AskToJoin(u)
         \/ \E s \in joining : TakeOver(s) \/ FreshJoin(s) \/ JoinRefused(s)

Messages ==
    \E s \in room.players :
      \/ \E isReady \in BOOLEAN : ToggleReady(s, isReady)
      \/ \E amount \in Proposals : ProposePique(s, amount)
      \/ \E ballot \in {"for", "against"} : VotePique(s, ballot)

Departures ==
    \/ \E s \in room.players : Drop(s) \/ Leave(s) \/ Removed(s)
    \/ \E s \in grace : Reconnect(s) \/ GraceExpires(s)
    \/ \E s \in leaving : LeaveDone(s)

Hands == CountdownEnds \/ Dealt \/ HandEnds

Transfers ==
    \/ \E s \in room.players, u \in User, amount \in Amounts : SendTransfer(s, u, amount)
    \/ \E t \in transfers : TransferCommits(t) \/ TransferAnswered(t) \/ TransferFails(t)

Watch == tangled' = (tangled \/ (room'.phase = "LOBBY" /\ openings' > 0))

Next == (Joins \/ Messages \/ Departures \/ Hands \/ Transfers) /\ Watch

Spec == Init /\ [][Next]_vars
-----------------------------------------------------------------------------
(* Sessions, seats, votes and money have their types; no count of votes    *)
(* drops below zero, and who sits here had opened the session.             *)
TypeOK ==
    /\ room.phase \in {"LOBBY", "OPENING", "HAND"}
    /\ room.players \subseteq {s \in Session : s[2] <= opened[UserOf(s)]} \ joining
    /\ room.connected \subseteq room.players /\ room.ready \subseteq room.players
    /\ room.waiting \subseteq room.players
    /\ room.chips \in [Session -> Int]
    /\ room.countdown \in BOOLEAN /\ room.firstGame \in BOOLEAN
    /\ room.minPique \in Nat \ {0} /\ room.proposed \in Nat
    /\ room.proposer \in Session \cup {NoOne}
    /\ room.ballots \in [Session -> {"none", "for", "against"}]
    /\ room.votesFor \in Nat /\ room.votesAgainst \in Nat /\ room.votersTotal \in Nat
    /\ joining \subseteq Session /\ grace \subseteq Session /\ leaving \subseteq Session
    /\ wallet \in [User -> Nat] /\ overtaken \subseteq User

(* However sessions replace one another, lose their connection and expire, *)
(* a user sits at the table once, everybody who plays has a seat in the    *)
(* order of turns, and no seat is left to somebody who is gone.            *)
SeatsArePlayers ==
    /\ \A s, t \in room.players : UserOf(s) = UserOf(t) => s = t
    /\ room.players \ room.waiting \subseteq room.seats
    /\ room.seats \subseteq room.players

(* A countdown goes on only as long as enough ready players are connected, *)
(* whoever drops out, leaves, is removed or replaced meanwhile.            *)
CountdownHasPlayers ==
    room.countdown /\ ~tangled => room.phase = "LOBBY" /\ EnoughAreReady(room)

Ballots(b) == {s \in Session : room.ballots[s] = b}

(* An open vote is undecided: its counts are those of the ballots, and as  *)
(* soon as one side has the majority, be it for a voter's departure, the   *)
(* vote is closed.                                                         *)
OpenVoteIsUndecided ==
    room.proposed # 0 =>
      /\ room.votesFor = Cardinality(Ballots("for")) /\ room.votesFor < Majority(room)
      /\ room.votesAgainst = Cardinality(Ballots("against"))
      /\ room.votesAgainst < Majority(room)

(* The minimum pique of a hand is fixed when the hand opens: no departure  *)
(* settles a vote during it.                                               *)
PiqueHoldsInHand ==
    [][room.phase # "LOBBY" /\ ~tangled => room'.minPique = room.minPique]_vars

Worth(made) == SumFunctionOnSet([t \in made |-> t.amount], made)

(* The chips in RAM are the wallet, but for transfers the database has     *)
(* made and the room has not heard of.  Excepted are users who joined with *)
(* a transfer under way, or whose transfer's answer was lost.              *)
ChipsFollowWallet ==
    \A s \in room.players : UserOf(s) \notin overtaken =>
      LET made == {t \in transfers : t.state = "done"}
      IN  room.chips[s] = wallet[UserOf(s)]
            + Worth({t \in made : UserOf(t.from) = UserOf(s)})
            - Worth({t \in made : t.to = UserOf(s)})
=============================================================================
