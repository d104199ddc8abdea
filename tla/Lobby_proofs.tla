---------------------------- MODULE Lobby_proofs ----------------------------
(***************************************************************************)
(* Module Lobby for any number of users and sessions.  First the seats,    *)
(* the countdown and the minimum pique: one lemma per helper of the code,  *)
(* what it leaves of a room that is "Seated" and "Calm".  Then the vote,   *)
(* whose counts are sizes of sets of ballots, and the chips, which follow  *)
(* the wallets by sums over the transfers under way (Sums).                *)
(***************************************************************************)
EXTENDS Lobby, Sums

Fields == {"phase", "players", "connected", "ready", "waiting", "seats", "chips",
           "countdown", "firstGame", "minPique", "proposed", "proposer", "ballots",
           "votesFor", "votesAgainst", "votersTotal"}

(* Sets of ids that belong together.                                       *)
Seated(r) ==
    /\ DOMAIN r = Fields
    /\ IsFiniteSet(r.players)
    /\ \A s, t \in r.players : UserOf(s) = UserOf(t) => s = t
    /\ r.connected \subseteq r.players /\ r.ready \subseteq r.players
    /\ r.waiting \subseteq r.players /\ r.seats \subseteq r.players
    /\ r.players \ r.waiting \subseteq r.seats

(* Countdown and votes belong to the lobby.                                *)
Calm(r) ==
    /\ r.countdown => r.phase = "LOBBY" /\ EnoughAreReady(r)
    /\ r.phase # "LOBBY" => r.proposed = 0

(* What a handler may do with a room during a hand.                        *)
KeepsPique(r, q) == r.phase # "LOBBY" /\ r.proposed = 0 => q.minPique = r.minPique

Inv ==
    /\ Seated(room)
    /\ openings \in Nat
    /\ room.phase = "LOBBY" /\ openings > 0 => tangled
    /\ ~tangled => Calm(room)

-----------------------------------------------------------------------------
(* The helpers.                                                            *)

(* Who is counted, and the rule, are all the countdown depends on.         *)
LEMMA SameCount ==
    ASSUME NEW r, NEW q, q.connected = r.connected, q.waiting = r.waiting,
           q.ready = r.ready, q.firstGame = r.firstGame
    PROVE  EnoughAreReady(q) = EnoughAreReady(r)
BY DEF EnoughAreReady, Active, Required

LEMMA CheckStartCountdownFrame ==
    ASSUME NEW r, DOMAIN r = Fields
    PROVE  /\ DOMAIN CheckStartCountdown(r) = Fields
           /\ \A f \in Fields \ {"countdown"} : CheckStartCountdown(r)[f] = r[f]
           /\ r.phase = "LOBBY" => CheckStartCountdown(r).countdown
                                     = (EnoughAreReady(r) /\ Active(r) \subseteq r.ready)
           /\ r.phase # "LOBBY" => CheckStartCountdown(r) = r
BY DEF CheckStartCountdown, Fields

(* After the countdown was checked it is right.                            *)
LEMMA CheckStartCountdownCalms ==
    ASSUME NEW r, Seated(r), r.phase # "LOBBY" => ~r.countdown /\ r.proposed = 0
    PROVE  Seated(CheckStartCountdown(r)) /\ Calm(CheckStartCountdown(r))
<1> DEFINE q == CheckStartCountdown(r)
<1>1. /\ DOMAIN q = Fields /\ \A f \in Fields \ {"countdown"} : q[f] = r[f]
      /\ r.phase = "LOBBY" => q.countdown = (EnoughAreReady(r) /\ Active(r) \subseteq r.ready)
      /\ r.phase # "LOBBY" => q = r
  BY CheckStartCountdownFrame DEF Seated
<1> HIDE DEF q
<1>2. Seated(q) BY <1>1 DEF Seated, Fields
<1>3. q.phase = r.phase /\ q.proposed = r.proposed BY <1>1 DEF Fields
<1>4. EnoughAreReady(q) = EnoughAreReady(r)
  <2>1. q.connected = r.connected /\ q.waiting = r.waiting /\ q.ready = r.ready
        /\ q.firstGame = r.firstGame
    BY <1>1 DEF Fields
  <2> QED BY <2>1, SameCount
<1>5. Calm(q) BY <1>1, <1>3, <1>4 DEF Calm
<1> QED BY <1>2, <1>5 DEF q

(* Seats do not depend on whether the countdown was calm before.           *)
LEMMA CheckStartCountdownSeats ==
    ASSUME NEW r, Seated(r) PROVE Seated(CheckStartCountdown(r))
BY CheckStartCountdownFrame DEF Seated, Fields

LEMMA ResetRoomStateFrame ==
    ASSUME NEW r, Seated(r)
    PROVE  LET q == ResetRoomState(r)
           IN  /\ Seated(q) /\ Calm(q)
               /\ q.phase = "LOBBY" /\ q.minPique = r.minPique
BY DEF ResetRoomState, Seated, Calm, Fields

VoteFields == {"minPique", "proposed", "proposer", "ballots", "votesFor", "votesAgainst",
               "votersTotal"}

(* The helpers of the vote touch nothing but the vote and the pique.       *)
SameButVote(r, q) == DOMAIN q = Fields /\ \A f \in Fields \ VoteFields : q[f] = r[f]

LEMMA VoteFrame ==
    ASSUME NEW r, DOMAIN r = Fields
    PROVE  /\ SameButVote(r, ClearPiqueProposal(r))
           /\ SameButVote(r, Approve(r))
           /\ SameButVote(r, ResolvePiqueVoteIfReady(r))
           /\ ClearPiqueProposal(r).proposed = 0
           /\ ClearPiqueProposal(r).minPique = r.minPique
<1>1. /\ SameButVote(r, ClearPiqueProposal(r))
      /\ ClearPiqueProposal(r).proposed = 0 /\ ClearPiqueProposal(r).minPique = r.minPique
  BY DEF ClearPiqueProposal, SameButVote, Fields, VoteFields
<1>2. SameButVote(r, Approve(r))
  BY DEF Approve, ClearPiqueProposal, SameButVote, Fields, VoteFields
<1>3. SameButVote(r, r) BY DEF SameButVote
<1>4. SameButVote(r, ResolvePiqueVoteIfReady(r))
  BY <1>1, <1>2, <1>3, Zenon DEF ResolvePiqueVoteIfReady
<1> QED BY <1>1, <1>2, <1>4

LEMMA VoteSeats ==
    ASSUME NEW r, NEW q, Seated(r), SameButVote(r, q)
    PROVE  /\ Seated(q) /\ EnoughAreReady(q) = EnoughAreReady(r)
           /\ q.phase = r.phase /\ q.countdown = r.countdown
<1>1. /\ q.players = r.players /\ q.connected = r.connected /\ q.ready = r.ready
      /\ q.waiting = r.waiting /\ q.seats = r.seats /\ q.firstGame = r.firstGame
      /\ q.phase = r.phase /\ q.countdown = r.countdown /\ DOMAIN q = Fields
  BY DEF SameButVote, Fields, VoteFields
<1>2. Seated(q) BY <1>1 DEF Seated
<1> QED BY <1>1, <1>2, SameCount

LEMMA AdjustVoteFrame ==
    ASSUME NEW r, NEW s, DOMAIN r = Fields
    PROVE  SameButVote(r, AdjustVote(r, s)) /\ (r.proposed = 0 => AdjustVote(r, s) = r)
<1> DEFINE w == WithdrawBallot(r, s)
           c == [w EXCEPT !.votersTotal = Cardinality(VotersBut(r, r.proposer))]
<1>1. SameButVote(r, c) BY DEF WithdrawBallot, SameButVote, Fields, VoteFields
<1>2. AdjustVote(r, s) \in {r, ClearPiqueProposal(r), Approve(c), ResolvePiqueVoteIfReady(c)}
  BY DEF AdjustVote
<1> HIDE DEF c
<1>3. SameButVote(c, Approve(c)) /\ SameButVote(c, ResolvePiqueVoteIfReady(c))
  BY <1>1, VoteFrame DEF SameButVote
<1>4. SameButVote(r, Approve(c)) /\ SameButVote(r, ResolvePiqueVoteIfReady(c))
  BY <1>1, <1>3 DEF SameButVote
<1>5. SameButVote(r, r) /\ SameButVote(r, ClearPiqueProposal(r)) BY VoteFrame DEF SameButVote
<1>6. SameButVote(r, AdjustVote(r, s)) BY <1>2, <1>4, <1>5
<1>7. r.proposed = 0 => AdjustVote(r, s) = r BY DEF AdjustVote
<1> QED BY <1>6, <1>7

(* Calm, but for a countdown that is about to be checked.                  *)
Quiet(r) == r.phase # "LOBBY" => ~r.countdown /\ r.proposed = 0

(* removePlayer: the seat goes with the player, the countdown is checked,  *)
(* and during a hand there is no vote to settle.                           *)
LEMMA RemovePlayerFrame ==
    ASSUME NEW r, NEW s, Seated(r)
    PROVE  LET q == RemovePlayer(r, s)
           IN  Seated(q) /\ (Quiet(r) => Calm(q)) /\ (Quiet(r) => KeepsPique(r, q))
<1> DEFINE without == [r EXCEPT !.players = @ \ {s}, !.connected = @ \ {s}, !.ready = @ \ {s},
                                !.waiting = @ \ {s}, !.seats = @ \ {s}, !.chips[s] = 0]
           voted == AdjustVote(without, s)
           checked == CheckStartCountdown(voted)
<1>1. /\ DOMAIN without = Fields
      /\ without.players = r.players \ {s} /\ without.connected = r.connected \ {s}
      /\ without.ready = r.ready \ {s} /\ without.waiting = r.waiting \ {s}
      /\ without.seats = r.seats \ {s} /\ without.phase = r.phase
      /\ without.countdown = r.countdown /\ without.proposed = r.proposed
      /\ without.minPique = r.minPique
  BY DEF Seated, Fields
<1>2. RemovePlayer(r, s) = IF checked.players = {} THEN ResetRoomState(checked) ELSE checked
  BY DEF RemovePlayer
<1> HIDE DEF without
<1>3. Seated(without)
  <2>1. IsFiniteSet(without.players) BY <1>1, FS_Subset DEF Seated
  <2> QED BY <1>1, <2>1 DEF Seated
<1>4. SameButVote(without, voted) /\ (without.proposed = 0 => voted = without)
  BY <1>1, AdjustVoteFrame
<1> HIDE DEF voted
<1>5. Seated(voted) /\ voted.phase = r.phase /\ voted.countdown = r.countdown
  BY <1>1, <1>3, <1>4, VoteSeats
<1>6. Seated(checked) BY <1>5, CheckStartCountdownSeats
<1>7. ASSUME Quiet(r) PROVE Calm(checked)
  <2>1. voted.phase # "LOBBY" => ~voted.countdown /\ voted.proposed = 0
    BY <1>1, <1>4, <1>5, <1>7 DEF Quiet
  <2> QED BY <1>5, <2>1, CheckStartCountdownCalms
<1>8. ASSUME Quiet(r), r.phase # "LOBBY" PROVE checked.minPique = r.minPique
  <2>1. voted = without BY <1>1, <1>4, <1>8 DEF Quiet
  <2>2. checked = voted BY <1>5, <1>8, CheckStartCountdownFrame DEF Seated
  <2> QED BY <1>1, <2>1, <2>2
<1> HIDE DEF checked
<1>9. LET q == ResetRoomState(checked)
      IN  Seated(q) /\ Calm(q) /\ q.minPique = checked.minPique
  BY <1>6, ResetRoomStateFrame
<1>10. CASE checked.players = {}
  BY <1>2, <1>6, <1>7, <1>8, <1>9, <1>10 DEF KeepsPique
<1>11. CASE checked.players # {}
  BY <1>2, <1>6, <1>7, <1>8, <1>11 DEF KeepsPique
<1> QED BY <1>10, <1>11

(* A connection is lost: the same, though the player stays.                *)
LEMMA OfflineFrame ==
    ASSUME NEW r, NEW s, Seated(r)
    PROVE  LET q == Offline(r, s)
           IN  Seated(q) /\ (Quiet(r) => Calm(q)) /\ (Quiet(r) => KeepsPique(r, q))
<1> DEFINE without == [r EXCEPT !.connected = @ \ {s}]
           left == IF without.connected = {} THEN ResetRoomState(without) ELSE without
<1>1. /\ DOMAIN without = Fields /\ without.connected = r.connected \ {s}
      /\ \A f \in Fields \ {"connected"} : without[f] = r[f]
  BY DEF Seated, Fields
<1>2. Offline(r, s) = CheckStartCountdown(left) BY DEF Offline
<1> HIDE DEF without
<1>3. Seated(without) BY <1>1 DEF Seated, Fields
<1>4. LET q == ResetRoomState(without)
      IN  Seated(q) /\ Calm(q) /\ q.phase = "LOBBY" /\ q.minPique = without.minPique
  BY <1>3, ResetRoomStateFrame
<1>5. Seated(left) /\ left.minPique = r.minPique /\ (Quiet(r) => Quiet(left))
  BY <1>1, <1>3, <1>4 DEF Quiet, Fields
<1> HIDE DEF left
<1>6. Seated(CheckStartCountdown(left)) BY <1>5, CheckStartCountdownSeats
<1>7. CheckStartCountdown(left).minPique = r.minPique
  BY <1>5, CheckStartCountdownFrame DEF Seated, Fields
<1>8. ASSUME Quiet(r) PROVE Calm(CheckStartCountdown(left))
  BY <1>5, <1>8, CheckStartCountdownCalms DEF Quiet
<1> QED BY <1>2, <1>6, <1>7, <1>8 DEF KeepsPique

(* The new session sits where the old one sat.                             *)
LEMMA ReplaceFrame ==
    ASSUME NEW r, NEW old \in r.players, NEW s, Seated(r), UserOf(s) = UserOf(old)
    PROVE  LET q == Replace(r, old, s)
           IN  Seated(q) /\ (Quiet(r) => Quiet(q)) /\ q.phase = r.phase /\ q.minPique = r.minPique
<1> DEFINE q == Replace(r, old, s)
           Renamed(ids) == IF old \in ids THEN (ids \ {old}) \cup {s} ELSE ids
<1>1. /\ DOMAIN q = Fields /\ q.players = Renamed(r.players)
      /\ q.waiting = Renamed(r.waiting) /\ q.seats = Renamed(r.seats)
      /\ q.ready = IF r.phase = "LOBBY" THEN r.ready \ {old} ELSE Renamed(r.ready)
      /\ q.connected = (r.connected \ {old}) \cup {s}
      /\ q.phase = r.phase /\ q.countdown = r.countdown /\ q.proposed = r.proposed
      /\ q.minPique = r.minPique
  BY DEF Replace, Seated, Fields
<1> HIDE DEF q
<1>2. IsFiniteSet(q.players)
  <2>1. IsFiniteSet(r.players \ {old}) BY FS_Subset DEF Seated
  <2>2. IsFiniteSet((r.players \ {old}) \cup {s}) BY <2>1, FS_AddElement
  <2>3. q.players = (r.players \ {old}) \cup {s} BY <1>1
  <2> QED BY <2>2, <2>3
<1>3. \A t, u \in q.players : UserOf(t) = UserOf(u) => t = u BY <1>1 DEF Seated
<1>4. Seated(q) BY <1>1, <1>2, <1>3 DEF Seated
<1> QED BY <1>1, <1>4 DEF Quiet, q

LEMMA StartNewGameFrame ==
    ASSUME NEW r, Seated(r)
    PROVE  LET q == StartNewGame(r)
           IN  Seated(q) /\ Calm(q) /\ q.minPique = r.minPique
<1> DEFINE poor == {s \in r.ready \ r.waiting : r.chips[s] < r.minPique}
           c == ClearPiqueProposal(r)
           q == StartNewGame(r)
<1>1. Seated(c) /\ c.proposed = 0 /\ c.minPique = r.minPique
  BY VoteFrame, VoteSeats DEF Seated
<1>2. poor \subseteq r.ready OBVIOUS
<1>3. q = [c EXCEPT !.phase = "OPENING", !.countdown = FALSE, !.firstGame = FALSE,
                    !.ready = @ \ poor, !.waiting = @ \cup poor]
  BY DEF StartNewGame
<1>4. c.ready = r.ready /\ c.players = r.players
  BY VoteFrame DEF Seated, SameButVote, Fields, VoteFields
<1> HIDE DEF poor, c, q
<1>5. /\ DOMAIN q = Fields /\ q.phase = "OPENING" /\ q.countdown = FALSE
      /\ q.ready = c.ready \ poor /\ q.waiting = c.waiting \cup poor
      /\ q.players = c.players /\ q.connected = c.connected /\ q.seats = c.seats
      /\ q.proposed = c.proposed /\ q.minPique = c.minPique
  BY <1>1, <1>3 DEF Seated, Fields
<1>6. Seated(q) BY <1>1, <1>2, <1>4, <1>5 DEF Seated
<1> QED BY <1>1, <1>5, <1>6 DEF Calm, q

LEMMA CleanupRoundFrame ==
    ASSUME NEW r, Seated(r)
    PROVE  LET q == CleanupRound(r)
           IN  /\ Seated(q) /\ q.phase = "LOBBY" /\ q.countdown = r.countdown
               /\ q.minPique = r.minPique /\ q.players = r.players
BY DEF CleanupRound, Seated, Fields

-----------------------------------------------------------------------------
(* The steps.                                                              *)

LEMMA SomebodyReconnects ==
    ASSUME NEW r, NEW s \in r.players, Seated(r)
    PROVE  LET q == [r EXCEPT !.connected = @ \cup {s}]
           IN  Seated(q) /\ (Calm(r) => Calm(q)) /\ q.minPique = r.minPique
<1> DEFINE q == [r EXCEPT !.connected = @ \cup {s}]
<1>1. /\ DOMAIN q = Fields /\ q.connected = r.connected \cup {s}
      /\ \A f \in Fields \ {"connected"} : q[f] = r[f]
  BY DEF Seated, Fields
<1> HIDE DEF q
<1>2. /\ q.players = r.players /\ q.ready = r.ready /\ q.waiting = r.waiting
      /\ q.seats = r.seats /\ q.firstGame = r.firstGame /\ q.phase = r.phase
      /\ q.countdown = r.countdown /\ q.proposed = r.proposed /\ q.minPique = r.minPique
  BY <1>1 DEF Fields
<1>3. Seated(q) BY <1>1, <1>2 DEF Seated
<1>4. ASSUME EnoughAreReady(r) PROVE EnoughAreReady(q)
  <2> DEFINE A == Active(r) \cap r.ready
             B == Active(q) \cap q.ready
  <2>1. A \subseteq B BY <1>1, <1>2 DEF Active
  <2>2. IsFiniteSet(B) BY <1>3, FS_Subset DEF Seated, Active
  <2>3. Cardinality(A) <= Cardinality(B) BY <2>1, <2>2, FS_Subset
  <2>4. Cardinality(A) \in Nat /\ Cardinality(B) \in Nat
    BY <2>1, <2>2, FS_Subset, FS_CardinalityType
  <2>5. Required(q) = Required(r) /\ Required(r) \in Nat
    BY <1>2, LobbyAssumption DEF Required
  <2>6. Cardinality(A) >= Required(r) BY <1>4 DEF EnoughAreReady
  <2> HIDE DEF A, B
  <2>7. Cardinality(B) >= Required(q) BY <2>3, <2>4, <2>5, <2>6
  <2> QED BY <2>7 DEF EnoughAreReady, B
<1> QED BY <1>2, <1>3, <1>4 DEF Calm, q

(* What every step does: seats stay, and so does calm, with the pique.     *)
Fine == Seated(room') /\ (~tangled => Calm(room') /\ KeepsPique(room, room'))

LEMMA CalmIsQuiet == ASSUME NEW r, Calm(r) PROVE Quiet(r)
BY DEF Calm, Quiet

LEMMA JoinsFine == ASSUME Inv, Joins PROVE Fine /\ UNCHANGED openings
<1>1. CASE UNCHANGED <<room, openings>> BY <1>1 DEF Inv, Fine, KeepsPique
<1>2. ASSUME NEW s \in joining, TakeOver(s) PROVE Fine /\ UNCHANGED openings
  <2>1. PICK old \in PlayersOf(UserOf(s)) : room' = CheckStartCountdown(Replace(room, old, s))
    BY <1>2 DEF TakeOver
  <2> DEFINE q == Replace(room, old, s)
  <2>2. old \in room.players /\ UserOf(s) = UserOf(old) BY DEF PlayersOf
  <2>3. Seated(q) /\ (Quiet(room) => Quiet(q)) /\ q.phase = room.phase
        /\ q.minPique = room.minPique
    BY <2>2, ReplaceFrame DEF Inv
  <2> HIDE DEF q
  <2>4. Seated(CheckStartCountdown(q)) BY <2>3, CheckStartCountdownSeats
  <2>5. ASSUME ~tangled PROVE Calm(CheckStartCountdown(q))
    <3>1. Quiet(q) BY <2>3, <2>5, CalmIsQuiet DEF Inv
    <3> QED BY <2>3, <3>1, CheckStartCountdownCalms DEF Quiet
  <2>6. CheckStartCountdown(q).minPique = room.minPique
    BY <2>3, CheckStartCountdownFrame DEF Seated, Fields
  <2>7. room' = CheckStartCountdown(q) BY <2>1 DEF q
  <2> QED BY <1>2, <2>4, <2>5, <2>6, <2>7 DEF Fine, KeepsPique, TakeOver, Joined
<1>3. ASSUME NEW s \in joining, FreshJoin(s) PROVE Fine /\ UNCHANGED openings
  <2> DEFINE waits == room.phase # "LOBBY"
             q == [room EXCEPT !.players = @ \cup {s}, !.connected = @ \cup {s},
                               !.chips[s] = read[s],
                               !.waiting = IF waits THEN @ \cup {s} ELSE @,
                               !.seats = IF waits THEN @ ELSE @ \cup {s}]
  <2>1. room' = CheckStartCountdown(q) /\ PlayersOf(UserOf(s)) = {} BY <1>3 DEF FreshJoin
  <2>2. /\ DOMAIN q = Fields /\ q.players = room.players \cup {s}
        /\ q.connected = room.connected \cup {s} /\ q.ready = room.ready
        /\ q.waiting = IF waits THEN room.waiting \cup {s} ELSE room.waiting
        /\ q.seats = IF waits THEN room.seats ELSE room.seats \cup {s}
        /\ q.phase = room.phase /\ q.countdown = room.countdown
        /\ q.proposed = room.proposed /\ q.minPique = room.minPique
    BY DEF Inv, Seated, Fields
  <2> HIDE DEF q
  <2>3. IsFiniteSet(q.players) BY <2>2, FS_AddElement DEF Inv, Seated
  <2>4. \A t, u \in q.players : UserOf(t) = UserOf(u) => t = u
    BY <2>1, <2>2 DEF Inv, Seated, PlayersOf
  <2>5. Seated(q) BY <2>2, <2>3, <2>4 DEF Inv, Seated
  <2>6. Seated(CheckStartCountdown(q)) BY <2>5, CheckStartCountdownSeats
  <2>7. ASSUME ~tangled PROVE Calm(CheckStartCountdown(q))
    <3>1. Quiet(q) BY <2>2, <2>7, CalmIsQuiet DEF Inv, Quiet
    <3> QED BY <2>5, <3>1, CheckStartCountdownCalms DEF Quiet
  <2>8. CheckStartCountdown(q).minPique = room.minPique
    BY <2>2, <2>5, CheckStartCountdownFrame DEF Seated, Fields
  <2> QED BY <1>3, <2>1, <2>6, <2>7, <2>8 DEF Fine, KeepsPique, FreshJoin, Joined
<1> QED BY <1>1, <1>2, <1>3 DEF Joins, AskToJoin, JoinRefused

LEMMA MessagesFine == ASSUME Inv, Messages PROVE Fine /\ UNCHANGED openings
<1>1. ASSUME NEW s, NEW isReady, ToggleReady(s, isReady) PROVE Fine /\ UNCHANGED openings
  <2> DEFINE q == [room EXCEPT !.ready = IF isReady THEN @ \cup {s} ELSE @ \ {s}]
  <2>1. room' = CheckStartCountdown(q) /\ s \in room.players /\ room.phase = "LOBBY"
    BY <1>1 DEF ToggleReady, Active, Inv, Seated
  <2>2. /\ DOMAIN q = Fields /\ \A f \in Fields \ {"ready"} : q[f] = room[f]
        /\ q.ready \subseteq room.ready \cup {s}
    BY DEF Inv, Seated, Fields
  <2> HIDE DEF q
  <2>3. Seated(q) /\ q.phase = "LOBBY" BY <2>1, <2>2 DEF Inv, Seated, Fields
  <2>4. Seated(CheckStartCountdown(q)) /\ Calm(CheckStartCountdown(q))
    BY <2>3, CheckStartCountdownCalms
  <2> QED BY <1>1, <2>1, <2>4 DEF Fine, KeepsPique, ToggleReady
<1>2. ASSUME NEW q, SameButVote(room, q), room' = q, room.phase = "LOBBY" PROVE Fine
  <2>1. Seated(q) /\ EnoughAreReady(q) = EnoughAreReady(room)
        /\ q.phase = room.phase /\ q.countdown = room.countdown
    BY <1>2, VoteSeats DEF Inv
  <2> QED BY <1>2, <2>1 DEF Fine, Calm, Inv, KeepsPique
<1>3. ASSUME NEW s, NEW amount, ProposePique(s, amount) PROVE Fine /\ UNCHANGED openings
  <2> DEFINE others == VotersBut(room, s)
             c == ClearPiqueProposal(room)
             proposal == [c EXCEPT !.proposed = amount, !.proposer = s,
                                   !.votersTotal = Cardinality(others)]
  <2>1. SameButVote(room, c) BY VoteFrame DEF Inv, Seated
  <2> HIDE DEF c
  <2>2. SameButVote(room, proposal) BY <2>1 DEF SameButVote, Fields, VoteFields
  <2> USE DEF c
  <2>3. room' = IF others = {} THEN Approve(proposal) ELSE proposal BY <1>3 DEF ProposePique
  <2> HIDE DEF proposal, c
  <2>4. SameButVote(proposal, Approve(proposal)) BY <2>2, VoteFrame DEF SameButVote
  <2>5. SameButVote(room, Approve(proposal)) BY <2>2, <2>4 DEF SameButVote
  <2> QED BY <1>2, <1>3, <2>2, <2>3, <2>5 DEF ProposePique
<1>4. ASSUME NEW s, NEW ballot, VotePique(s, ballot) PROVE Fine /\ UNCHANGED openings
  <2> DEFINE voted == [room EXCEPT !.ballots[s] = ballot,
                              !.votesFor = IF ballot = "for" THEN @ + 1 ELSE @,
                              !.votesAgainst = IF ballot = "against" THEN @ + 1 ELSE @]
  <2>1. SameButVote(room, voted) BY DEF SameButVote, Inv, Seated, Fields, VoteFields
  <2>2. room' = ResolvePiqueVoteIfReady(voted) BY <1>4 DEF VotePique
  <2> HIDE DEF voted
  <2>3. SameButVote(voted, ResolvePiqueVoteIfReady(voted)) BY <2>1, VoteFrame DEF SameButVote
  <2>4. SameButVote(room, ResolvePiqueVoteIfReady(voted)) BY <2>1, <2>3 DEF SameButVote
  <2> QED BY <1>2, <1>4, <2>2, <2>4 DEF VotePique
<1> QED BY <1>1, <1>3, <1>4 DEF Messages

LEMMA DeparturesFine == ASSUME Inv, Departures PROVE Fine /\ UNCHANGED openings
<1>1. ASSUME NEW s, room' = Offline(room, s) PROVE Fine
  BY <1>1, OfflineFrame, CalmIsQuiet DEF Fine, Inv
<1>2. ASSUME NEW s, room' = RemovePlayer(room, s) PROVE Fine
  BY <1>2, RemovePlayerFrame, CalmIsQuiet DEF Fine, Inv
<1>3. ASSUME NEW s, room' = IF s \in room.players THEN [room EXCEPT !.connected = @ \cup {s}]
                            ELSE room
      PROVE  Fine
  BY <1>3, SomebodyReconnects DEF Fine, Inv, KeepsPique
<1>4. ASSUME room' = room PROVE Fine BY <1>4 DEF Fine, Inv, KeepsPique
<1>5. ASSUME NEW s, Drop(s) \/ Leave(s) PROVE Fine /\ UNCHANGED openings
  BY <1>1, <1>5 DEF Drop, Leave
<1>6. ASSUME NEW s, GraceExpires(s) \/ LeaveDone(s) \/ Removed(s)
      PROVE  Fine /\ UNCHANGED openings
  BY <1>2, <1>4, <1>6 DEF GraceExpires, LeaveDone, Removed
<1>7. ASSUME NEW s, Reconnect(s) PROVE Fine /\ UNCHANGED openings
  BY <1>3, <1>7 DEF Reconnect
<1> QED BY <1>5, <1>6, <1>7 DEF Departures

LEMMA HandsFine == ASSUME Inv, Hands PROVE Fine /\ openings' \in Nat
<1>1. CASE CountdownEnds
  BY <1>1, StartNewGameFrame DEF CountdownEnds, Fine, Inv, KeepsPique
<1>2. CASE Dealt
  <2>1. /\ room' = [room EXCEPT !.phase = "HAND"] /\ openings > 0
        /\ openings' = openings - 1
    BY <1>2 DEF Dealt
  <2>2. Seated(room') /\ room'.phase = "HAND" /\ room'.countdown = room.countdown
        /\ room'.proposed = room.proposed /\ room'.minPique = room.minPique
    BY <2>1 DEF Inv, Seated, Fields
  <2>3. ~tangled => room.phase # "LOBBY" BY <2>1 DEF Inv
  <2> QED BY <2>1, <2>2, <2>3 DEF Fine, Inv, Calm, KeepsPique
<1>3. CASE HandEnds
  <2> DEFINE q == CleanupRound(room)
  <2>1. room.phase = "HAND" /\ UNCHANGED openings BY <1>3 DEF HandEnds
  <2>2. PICK ready \in {{}, room.ready} : room' = [q EXCEPT !.ready = ready]
    BY <1>3 DEF HandEnds
  <2>3. Seated(q) /\ q.phase = "LOBBY" /\ q.countdown = room.countdown
        /\ q.minPique = room.minPique /\ q.players = room.players
    BY CleanupRoundFrame DEF Inv
  <2> HIDE DEF q
  <2>4. ready \subseteq q.players BY <2>3 DEF Inv, Seated
  <2>5. Seated(room') /\ room'.phase = "LOBBY" /\ room'.countdown = room.countdown
        /\ room'.minPique = room.minPique
    BY <2>2, <2>3, <2>4 DEF Seated, Fields
  <2> QED BY <2>1, <2>5 DEF Fine, Inv, Calm, KeepsPique
<1> QED BY <1>1, <1>2, <1>3 DEF Hands

LEMMA TransfersFine == ASSUME Inv, Transfers PROVE Fine /\ UNCHANGED openings
<1>1. CASE UNCHANGED <<room, openings>> BY <1>1 DEF Inv, Fine, KeepsPique
<1>2. ASSUME NEW t, TransferAnswered(t) PROVE Fine /\ UNCHANGED openings
  <2> DEFINE q == MoveChips(room, t)
  <2>1. DOMAIN q = Fields /\ \A f \in Fields \ {"chips"} : q[f] = room[f]
    BY DEF MoveChips, Inv, Seated, Fields
  <2> HIDE DEF q
  <2>2. q.connected = room.connected /\ q.waiting = room.waiting /\ q.ready = room.ready
        /\ q.firstGame = room.firstGame
    BY <2>1 DEF Fields
  <2>3. EnoughAreReady(q) = EnoughAreReady(room) BY <2>2, SameCount
  <2>4. Seated(q) /\ (Calm(room) => Calm(q)) /\ q.minPique = room.minPique
    BY <2>1, <2>3 DEF Inv, Seated, Calm, Fields
  <2>5. (room' = q \/ room' = room) /\ UNCHANGED openings BY <1>2 DEF TransferAnswered, q
  <2> QED BY <2>4, <2>5 DEF Fine, Inv, KeepsPique
<1> QED BY <1>1, <1>2 DEF Transfers, SendTransfer, TransferCommits, TransferFails, Becomes

LEMMA InitFine == ASSUME Init PROVE Inv
BY FS_EmptySet DEF Init, Inv, Seated, Calm, Fields

LEMMA NextFine == ASSUME Inv, [Next]_vars PROVE Inv' /\ (~tangled => KeepsPique(room, room'))
<1>1. ASSUME Fine, openings' \in Nat, Watch PROVE Inv' /\ (~tangled => KeepsPique(room, room'))
  BY <1>1 DEF Fine, Watch, Inv
<1>2. CASE Next
  <2>1. Fine /\ openings' \in Nat
    BY <1>2, JoinsFine, MessagesFine, DeparturesFine, HandsFine, TransfersFine DEF Next, Inv
  <2> QED BY <1>1, <1>2, <2>1 DEF Next
<1>3. CASE UNCHANGED vars
  <2>1. UNCHANGED <<room, openings, tangled>> BY <1>3 DEF vars
  <2> QED BY <2>1 DEF Inv, KeepsPique
<1> QED BY <1>2, <1>3

LEMMA InvHolds == Spec => []Inv
<1>1. Inv /\ [Next]_vars => Inv' BY NextFine
<1> QED BY InitFine, <1>1, PTL DEF Spec

-----------------------------------------------------------------------------
(* The vote.  Its counts are those of the ballots: a count that went       *)
(* below zero, or missed a ballot, would decide the wrong way.             *)

Ballot == {"none", "for", "against"}

BallotsIn(r, b) == {s \in Session : r.ballots[s] = b}

Counted(r) ==
    /\ r.ballots \in [Session -> Ballot]
    /\ \A b \in {"for", "against"} : IsFiniteSet(BallotsIn(r, b))
    /\ r.votesFor = Cardinality(BallotsIn(r, "for"))
    /\ r.votesAgainst = Cardinality(BallotsIn(r, "against"))

VoteOK(r) ==
    /\ DOMAIN r = Fields
    /\ r.minPique \in Nat \ {0} /\ r.proposed \in Nat /\ r.votersTotal \in Nat
    /\ r.proposer \in Session \cup {NoOne}
    /\ Counted(r)

(* While a proposal is open somebody may vote on it and no side has won.   *)
Undecided(r) ==
    r.proposed # 0 => /\ r.votersTotal # 0
                      /\ r.votesFor < Majority(r) /\ r.votesAgainst < Majority(r)

LEMMA CountsAreNat ==
    ASSUME NEW r, Counted(r) PROVE r.votesFor \in Nat /\ r.votesAgainst \in Nat
BY FS_CardinalityType DEF Counted

LEMMA NoBallotsCounted ==
    ASSUME NEW r, r.ballots = NoBallots, r.votesFor = 0, r.votesAgainst = 0
    PROVE  Counted(r)
<1>1. \A b \in {"for", "against"} : BallotsIn(r, b) = {} BY DEF BallotsIn, NoBallots
<1>2. r.ballots \in [Session -> Ballot] BY DEF NoBallots, Ballot
<1> QED BY <1>1, <1>2, FS_EmptySet DEF Counted

LEMMA ClearPiqueProposalVote ==
    ASSUME NEW r, DOMAIN r = Fields, r.minPique \in Nat \ {0}
    PROVE  LET q == ClearPiqueProposal(r)
           IN  VoteOK(q) /\ Undecided(q) /\ q.minPique = r.minPique /\ q.proposed = 0
<1> DEFINE q == ClearPiqueProposal(r)
<1>1. /\ DOMAIN q = Fields /\ q.proposed = 0 /\ q.proposer = NoOne /\ q.ballots = NoBallots
      /\ q.votesFor = 0 /\ q.votesAgainst = 0 /\ q.votersTotal = 0 /\ q.minPique = r.minPique
  BY DEF ClearPiqueProposal, Fields
<1> HIDE DEF q
<1>2. Counted(q) BY <1>1, NoBallotsCounted
<1> QED BY <1>1, <1>2 DEF VoteOK, Undecided, q

LEMMA ApproveVote ==
    ASSUME NEW r, VoteOK(r), r.proposed # 0
    PROVE  VoteOK(Approve(r)) /\ Undecided(Approve(r))
<1> DEFINE q == [r EXCEPT !.minPique = r.proposed]
<1>1. DOMAIN q = Fields /\ q.minPique \in Nat \ {0} BY DEF VoteOK, Fields
<1> HIDE DEF q
<1>2. VoteOK(ClearPiqueProposal(q)) /\ Undecided(ClearPiqueProposal(q))
  BY <1>1, ClearPiqueProposalVote
<1> QED BY <1>2 DEF Approve, q

(* Whatever the counts, the vote is closed or undecided afterwards.        *)
LEMMA ResolveVote ==
    ASSUME NEW r, VoteOK(r), r.proposed # 0, r.votersTotal # 0
    PROVE  VoteOK(ResolvePiqueVoteIfReady(r)) /\ Undecided(ResolvePiqueVoteIfReady(r))
<1>1. VoteOK(Approve(r)) /\ Undecided(Approve(r)) BY ApproveVote
<1>2. VoteOK(ClearPiqueProposal(r)) /\ Undecided(ClearPiqueProposal(r))
  BY ClearPiqueProposalVote DEF VoteOK
<1>3. CASE r.votesFor >= Majority(r) BY <1>1, <1>3 DEF ResolvePiqueVoteIfReady
<1>4. CASE ~(r.votesFor >= Majority(r)) /\ r.votesAgainst >= Majority(r)
  BY <1>2, <1>4 DEF ResolvePiqueVoteIfReady
<1>5. CASE ~(r.votesFor >= Majority(r)) /\ ~(r.votesAgainst >= Majority(r))
  <2>1. r.votesFor \in Nat /\ r.votesAgainst \in Nat BY CountsAreNat DEF VoteOK
  <2>2. Majority(r) \in Nat BY DEF Majority, VoteOK
  <2>3. r.votesFor < Majority(r) /\ r.votesAgainst < Majority(r) BY <2>1, <2>2, <1>5
  <2>4. ResolvePiqueVoteIfReady(r) = r BY <1>5 DEF ResolvePiqueVoteIfReady
  <2> QED BY <2>3, <2>4 DEF Undecided
<1> QED BY <1>3, <1>4, <1>5

(* A ballot moves from one pile to another.                                *)
LEMMA BallotMoves ==
    ASSUME NEW r, Counted(r), NEW s \in Session, NEW b \in Ballot, NEW q,
           q.ballots = [r.ballots EXCEPT ![s] = b],
           r.ballots[s] = "none" \/ b = "none",
           q.votesFor = IF r.ballots[s] = "for" THEN r.votesFor - 1
                        ELSE IF b = "for" THEN r.votesFor + 1 ELSE r.votesFor,
           q.votesAgainst = IF r.ballots[s] = "against" THEN r.votesAgainst - 1
                            ELSE IF b = "against" THEN r.votesAgainst + 1 ELSE r.votesAgainst
    PROVE  Counted(q)
<1>1. q.ballots \in [Session -> Ballot] BY DEF Counted
<1>2. ASSUME NEW c \in {"for", "against"}
      PROVE  /\ IsFiniteSet(BallotsIn(q, c))
             /\ Cardinality(BallotsIn(q, c)) =
                  IF r.ballots[s] = c THEN Cardinality(BallotsIn(r, c)) - 1
                  ELSE IF b = c THEN Cardinality(BallotsIn(r, c)) + 1
                  ELSE Cardinality(BallotsIn(r, c))
  <2>1. IsFiniteSet(BallotsIn(r, c)) BY DEF Counted
  <2>2. CASE r.ballots[s] = c
    <3>1. BallotsIn(q, c) = BallotsIn(r, c) \ {s} /\ s \in BallotsIn(r, c)
      BY <2>2 DEF BallotsIn, Counted
    <3> QED BY <2>1, <2>2, <3>1, FS_RemoveElement
  <2>3. CASE r.ballots[s] # c /\ b = c
    <3>1. BallotsIn(q, c) = BallotsIn(r, c) \cup {s} /\ s \notin BallotsIn(r, c)
      BY <2>3 DEF BallotsIn, Counted
    <3> QED BY <2>1, <2>3, <3>1, FS_AddElement
  <2>4. CASE r.ballots[s] # c /\ b # c
    <3>1. BallotsIn(q, c) = BallotsIn(r, c) BY <2>4 DEF BallotsIn, Counted
    <3> QED BY <2>1, <2>4, <3>1
  <2> QED BY <2>2, <2>3, <2>4
<1> QED BY <1>1, <1>2 DEF Counted

LEMMA VotersAreCounted ==
    ASSUME NEW r, IsFiniteSet(r.connected), NEW s
    PROVE  Cardinality(VotersBut(r, s)) \in Nat
<1>1. VotersBut(r, s) \subseteq r.connected BY DEF VotersBut, Active
<1>2. IsFiniteSet(VotersBut(r, s)) BY <1>1, FS_Subset
<1> QED BY <1>2, FS_CardinalityType

(* A departure takes the ballot along, and counts again.                   *)
LEMMA AdjustVoteVote ==
    ASSUME NEW r, VoteOK(r), Undecided(r), IsFiniteSet(r.connected), NEW s \in Session
    PROVE  VoteOK(AdjustVote(r, s)) /\ Undecided(AdjustVote(r, s))
<1> DEFINE w == WithdrawBallot(r, s)
           n == Cardinality(VotersBut(r, r.proposer))
           c == [w EXCEPT !.votersTotal = n]
<1>1. AdjustVote(r, s) = IF r.proposed = 0 THEN r
                         ELSE IF r.proposer = s THEN ClearPiqueProposal(r)
                         ELSE IF c.votersTotal = 0 THEN Approve(c)
                         ELSE ResolvePiqueVoteIfReady(c)
  BY DEF AdjustVote
<1>2. /\ DOMAIN c = Fields /\ c.votersTotal = n
      /\ c.minPique = r.minPique /\ c.proposed = r.proposed /\ c.proposer = r.proposer
      /\ c.ballots = [r.ballots EXCEPT ![s] = "none"]
      /\ c.votesFor = IF r.ballots[s] = "for" THEN r.votesFor - 1 ELSE r.votesFor
      /\ c.votesAgainst = IF r.ballots[s] = "against" THEN r.votesAgainst - 1 ELSE r.votesAgainst
  BY DEF WithdrawBallot, VoteOK, Fields
<1>3. n \in Nat BY VotersAreCounted
<1> HIDE DEF w, n, c
<1>4. Counted(c)
  <2>1. "none" \in Ballot BY DEF Ballot
  <2> QED BY <1>2, <2>1, BallotMoves DEF VoteOK
<1>5. VoteOK(c) BY <1>2, <1>3, <1>4 DEF VoteOK
<1>6. CASE r.proposed = 0 BY <1>1, <1>6
<1>7. CASE r.proposed # 0 /\ r.proposer = s
  <2>1. VoteOK(ClearPiqueProposal(r)) /\ Undecided(ClearPiqueProposal(r))
    BY ClearPiqueProposalVote DEF VoteOK
  <2> QED BY <1>1, <1>7, <2>1
<1>8. CASE r.proposed # 0 /\ r.proposer # s /\ c.votersTotal = 0
  BY <1>1, <1>2, <1>5, <1>8, ApproveVote
<1>9. CASE r.proposed # 0 /\ r.proposer # s /\ c.votersTotal # 0
  BY <1>1, <1>2, <1>5, <1>9, ResolveVote
<1> QED BY <1>6, <1>7, <1>8, <1>9

(* The other helpers leave the vote alone.                                 *)
LEMMA SameVote ==
    ASSUME NEW r, NEW q, VoteOK(r), Undecided(r), DOMAIN q = Fields,
           \A f \in VoteFields : q[f] = r[f]
    PROVE  VoteOK(q) /\ Undecided(q)
<1>1. /\ q.minPique = r.minPique /\ q.proposed = r.proposed /\ q.proposer = r.proposer
      /\ q.ballots = r.ballots /\ q.votesFor = r.votesFor /\ q.votesAgainst = r.votesAgainst
      /\ q.votersTotal = r.votersTotal
  BY DEF VoteFields
<1>2. Majority(q) = Majority(r) BY <1>1 DEF Majority
<1>3. Counted(q) BY <1>1 DEF VoteOK, Counted, BallotsIn
<1> QED BY <1>1, <1>2, <1>3 DEF VoteOK, Undecided

-----------------------------------------------------------------------------
(* Types, votes and chips.                                                 *)

Typed(r) ==
    /\ r.phase \in {"LOBBY", "OPENING", "HAND"}
    /\ r.chips \in [Session -> Int]
    /\ r.countdown \in BOOLEAN /\ r.firstGame \in BOOLEAN
    /\ VoteOK(r) /\ Undecided(r)

(* Who is still at the table has the chips he had.                         *)
Keeps(r, q) == q.players \subseteq r.players /\ \A s \in q.players : q.chips[s] = r.chips[s]

(* Only other fields than those of the vote changed, and the chips did not. *)
LEMMA SameMoney ==
    ASSUME NEW r, NEW q, Typed(r), DOMAIN q = Fields,
           \A f \in VoteFields \cup {"chips"} : q[f] = r[f],
           q.phase \in {"LOBBY", "OPENING", "HAND"},
           q.countdown \in BOOLEAN, q.firstGame \in BOOLEAN
    PROVE  Typed(q)
<1>1. VoteOK(q) /\ Undecided(q)
  <2>1. \A f \in VoteFields : q[f] = r[f] OBVIOUS
  <2> QED BY <2>1, SameVote DEF Typed
<1>2. q.chips = r.chips OBVIOUS
<1> QED BY <1>1, <1>2 DEF Typed

LEMMA CheckStartCountdownTyped ==
    ASSUME NEW r, Typed(r)
    PROVE  LET q == CheckStartCountdown(r) IN Typed(q) /\ Keeps(r, q) /\ q.chips = r.chips
<1> DEFINE q == CheckStartCountdown(r)
<1>1. DOMAIN r = Fields BY DEF Typed, VoteOK
<1>2. DOMAIN q = Fields /\ \A f \in Fields \ {"countdown"} : q[f] = r[f]
  BY <1>1, CheckStartCountdownFrame
<1>3. q.countdown \in BOOLEAN
  <2>1. CASE r.phase = "LOBBY"
    <3>1. q.countdown = (EnoughAreReady(r) /\ Active(r) \subseteq r.ready)
      BY <1>1, <2>1, CheckStartCountdownFrame
    <3> HIDE DEF q
    <3> QED BY <3>1
  <2>2. CASE r.phase # "LOBBY" BY <2>2, <1>1, CheckStartCountdownFrame DEF Typed
  <2> QED BY <2>1, <2>2
<1> HIDE DEF q
<1>4. /\ q.players = r.players /\ q.chips = r.chips /\ q.phase = r.phase
      /\ q.firstGame = r.firstGame /\ \A f \in VoteFields \cup {"chips"} : q[f] = r[f]
  BY <1>2 DEF Fields, VoteFields
<1>5. Typed(q)
  <2>1. q.phase \in {"LOBBY", "OPENING", "HAND"} /\ q.firstGame \in BOOLEAN BY <1>4 DEF Typed
  <2> QED BY <1>2, <1>3, <1>4, <2>1, SameMoney
<1> QED BY <1>4, <1>5 DEF Keeps, q

LEMMA ResetRoomStateTyped ==
    ASSUME NEW r, Typed(r)
    PROVE  LET q == ResetRoomState(r) IN Typed(q) /\ Keeps(r, q)
<1> DEFINE q == ResetRoomState(r)
<1>1. /\ DOMAIN q = Fields /\ q.players = r.players /\ q.phase = "LOBBY"
      /\ q.countdown = FALSE /\ q.firstGame = TRUE
      /\ \A f \in VoteFields \cup {"chips"} : q[f] = r[f]
  BY DEF ResetRoomState, Typed, VoteOK, Fields, VoteFields
<1> HIDE DEF q
<1>2. Typed(q) BY <1>1, SameMoney
<1> QED BY <1>1, <1>2 DEF Keeps, q

(* The vote may change, and nothing else does.                             *)
LEMMA VoteTyped ==
    ASSUME NEW r, NEW q, Typed(r), SameButVote(r, q), VoteOK(q), Undecided(q)
    PROVE  Typed(q) /\ Keeps(r, q)
<1>1. /\ q.phase = r.phase /\ q.chips = r.chips /\ q.countdown = r.countdown
      /\ q.firstGame = r.firstGame /\ q.players = r.players
  BY DEF SameButVote, Fields, VoteFields
<1> QED BY <1>1 DEF Typed, Keeps

LEMMA RemovePlayerTyped ==
    ASSUME NEW r, Typed(r), Seated(r), NEW s \in Session
    PROVE  LET q == RemovePlayer(r, s) IN Typed(q) /\ Keeps(r, q)
<1> DEFINE without == [r EXCEPT !.players = @ \ {s}, !.connected = @ \ {s}, !.ready = @ \ {s},
                                !.waiting = @ \ {s}, !.seats = @ \ {s}, !.chips[s] = 0]
           voted == AdjustVote(without, s)
           checked == CheckStartCountdown(voted)
<1>1. RemovePlayer(r, s) = IF checked.players = {} THEN ResetRoomState(checked) ELSE checked
  BY DEF RemovePlayer
<1>2. /\ DOMAIN without = Fields /\ without.players = r.players \ {s}
      /\ without.connected = r.connected \ {s}
      /\ without.chips = [r.chips EXCEPT ![s] = 0]
      /\ without.phase = r.phase /\ without.countdown = r.countdown
      /\ without.firstGame = r.firstGame
      /\ \A f \in VoteFields : without[f] = r[f]
  BY DEF Seated, Fields, VoteFields
<1> HIDE DEF without
<1>3. Typed(without) /\ Keeps(r, without)
  <2>1. VoteOK(without) /\ Undecided(without) BY <1>2, SameVote DEF Typed
  <2>2. without.chips \in [Session -> Int] BY <1>2 DEF Typed
  <2>3. Keeps(r, without)
    <3>1. \A t \in r.players \ {s} : without.chips[t] = r.chips[t]
      <4>1. \A t \in r.players \ {s} : t \in Session => without.chips[t] = r.chips[t]
        BY <1>2 DEF Typed
      <4>2. \A t \in r.players \ {s} : t \notin Session => without.chips[t] = r.chips[t]
        BY <1>2 DEF Typed
      <4> QED BY <4>1, <4>2
    <3> QED BY <1>2, <3>1 DEF Keeps
  <2> QED BY <1>2, <2>1, <2>2, <2>3 DEF Typed
<1>4. Typed(voted) /\ Keeps(without, voted)
  <2>1. IsFiniteSet(without.connected)
    <3>1. without.connected \subseteq r.players BY <1>2 DEF Seated
    <3> QED BY <3>1, FS_Subset DEF Seated
  <2>2. VoteOK(voted) /\ Undecided(voted) BY <1>3, <2>1, AdjustVoteVote DEF Typed
  <2>3. SameButVote(without, voted) BY <1>2, AdjustVoteFrame
  <2> HIDE DEF voted
  <2> QED BY <1>3, <2>2, <2>3, VoteTyped
<1> HIDE DEF voted
<1>5. Typed(checked) /\ Keeps(voted, checked) BY <1>4, CheckStartCountdownTyped
<1> HIDE DEF checked
<1>6. Typed(ResetRoomState(checked)) /\ Keeps(checked, ResetRoomState(checked))
  BY <1>5, ResetRoomStateTyped
<1>7. Keeps(r, checked) /\ Keeps(r, ResetRoomState(checked))
  <2> DEFINE z == ResetRoomState(checked)
  <2>1. Keeps(checked, z) BY <1>6
  <2> HIDE DEF z
  <2>2. Keeps(r, checked) BY <1>3, <1>4, <1>5 DEF Keeps
  <2>3. Keeps(r, z) BY <2>1, <2>2 DEF Keeps
  <2> QED BY <2>2, <2>3 DEF z
<1> QED BY <1>1, <1>5, <1>6, <1>7

LEMMA OfflineTyped ==
    ASSUME NEW r, Typed(r), NEW s
    PROVE  LET q == Offline(r, s) IN Typed(q) /\ Keeps(r, q)
<1> DEFINE without == [r EXCEPT !.connected = @ \ {s}]
           left == IF without.connected = {} THEN ResetRoomState(without) ELSE without
<1>1. /\ DOMAIN without = Fields /\ without.players = r.players /\ without.chips = r.chips
      /\ without.phase = r.phase /\ without.countdown = r.countdown
      /\ without.firstGame = r.firstGame
      /\ \A f \in VoteFields \cup {"chips"} : without[f] = r[f]
  BY DEF Typed, VoteOK, Fields, VoteFields
<1>2. Offline(r, s) = CheckStartCountdown(left) BY DEF Offline
<1> HIDE DEF without
<1>3. Typed(without) /\ Keeps(r, without) BY <1>1, SameMoney DEF Typed, Keeps
<1>4. Typed(left) /\ Keeps(without, left)
  <2>1. Typed(ResetRoomState(without)) /\ Keeps(without, ResetRoomState(without))
    BY <1>3, ResetRoomStateTyped
  <2> QED BY <1>3, <2>1 DEF Keeps
<1> HIDE DEF left
<1>5. Typed(CheckStartCountdown(left)) /\ Keeps(left, CheckStartCountdown(left))
  BY <1>4, CheckStartCountdownTyped
<1> DEFINE z == CheckStartCountdown(left)
<1>6. Typed(z) /\ Keeps(left, z) BY <1>5
<1> HIDE DEF z
<1>7. Keeps(r, z) BY <1>3, <1>4, <1>6 DEF Keeps
<1> QED BY <1>2, <1>6, <1>7 DEF z

LEMMA StartNewGameTyped ==
    ASSUME NEW r, Typed(r)
    PROVE  LET q == StartNewGame(r) IN Typed(q) /\ Keeps(r, q)
<1> DEFINE c == ClearPiqueProposal(r)
           q == StartNewGame(r)
<1>1. Typed(c) /\ Keeps(r, c)
  <2>1. VoteOK(c) /\ Undecided(c) BY ClearPiqueProposalVote DEF Typed, VoteOK
  <2>2. SameButVote(r, c) BY VoteFrame DEF Typed, VoteOK
  <2> HIDE DEF c
  <2> QED BY <2>1, <2>2, VoteTyped
<1>2. \E ready, waiting : q = [c EXCEPT !.phase = "OPENING", !.countdown = FALSE,
                                        !.firstGame = FALSE, !.ready = ready, !.waiting = waiting]
  BY DEF StartNewGame
<1> HIDE DEF c, q
<1>3. /\ DOMAIN q = Fields /\ q.players = c.players /\ q.chips = c.chips
      /\ q.phase = "OPENING" /\ q.countdown = FALSE /\ q.firstGame = FALSE
      /\ \A f \in VoteFields \cup {"chips"} : q[f] = c[f]
  BY <1>1, <1>2 DEF Typed, VoteOK, Fields, VoteFields
<1>4. Typed(q) BY <1>1, <1>3, SameMoney
<1>5. Keeps(r, q) BY <1>1, <1>3 DEF Keeps
<1> QED BY <1>4, <1>5 DEF q

(* What transfers are worth changes by the transfer that comes or goes.    *)
LEMMA WorthOfOne ==
    ASSUME NEW T, IsFiniteSet(T), \A t \in T : t.amount \in Int
    PROVE  /\ Worth(T) \in Int
           /\ \A t \in T : Worth(T \ {t}) = Worth(T) - t.amount
           /\ \A t : t \notin T /\ t.amount \in Int => Worth(T \cup {t}) = Worth(T) + t.amount
<1> DEFINE A(S) == [t \in S |-> t.amount]
<1>1. Worth(T) \in Int
  <2>1. \A t \in T : A(T)[t] \in Int OBVIOUS
  <2> QED BY <2>1, SumType DEF Worth
<1>2. ASSUME NEW t \in T PROVE Worth(T \ {t}) = Worth(T) - t.amount
  <2> DEFINE R == T \ {t}
             f == A(T)
             g == A(R)
  <2>1. /\ \A x \in T : f[x] \in Int /\ f[t] = t.amount
        /\ \A x \in R : f[x] = g[x] /\ f[x] \in Int
    OBVIOUS
  <2>2. IsFiniteSet(R) BY OneLess
  <2>3. Worth(T) = SumFunctionOnSet(f, T) /\ Worth(R) = SumFunctionOnSet(g, R) BY DEF Worth
  <2> HIDE DEF f, g
  <2>4. SumFunctionOnSet(f, T) = f[t] + SumFunctionOnSet(f, R) BY <2>1, SumRemove
  <2>5. SumFunctionOnSet(f, R) = SumFunctionOnSet(g, R) BY <2>1, <2>2, SumSame
  <2>6. SumFunctionOnSet(f, R) \in Int BY <2>1, <2>2, SumType
  <2> QED BY <2>1, <2>3, <2>4, <2>5, <2>6
<1>3. ASSUME NEW t, t \notin T, t.amount \in Int
      PROVE  Worth(T \cup {t}) = Worth(T) + t.amount
  <2> DEFINE R == T \cup {t}
             f == A(T)
             g == A(R)
  <2>1. \A x \in T : g[x] = f[x] /\ g[x] \in Int OBVIOUS
  <2>2. g[t] = t.amount /\ \A x \in T \cup {t} : g[x] \in Int BY <1>3
  <2>3. Worth(T) = SumFunctionOnSet(f, T) /\ Worth(R) = SumFunctionOnSet(g, R) BY DEF Worth
  <2> HIDE DEF f, g
  <2>4. SumFunctionOnSet(g, T \cup {t}) = SumFunctionOnSet(g, T) + g[t] BY <1>3, <2>2, SumAdd
  <2>5. SumFunctionOnSet(g, T) = SumFunctionOnSet(f, T) BY <2>1, SumSame
  <2> QED BY <2>2, <2>3, <2>4, <2>5
<1> QED BY <1>1, <1>2, <1>3

Opened == {s \in Session : s[2] <= opened[UserOf(s)]}

Transfer == [id : Nat, from : Session, to : User, amount : Nat,
             state : {"sent", "done", "refused"}]

(* Sessions are opened before they are used.                               *)
Ids ==
    /\ opened \in [User -> Nat]
    /\ joining \subseteq Opened /\ room.players \subseteq Opened \ joining
    /\ grace \subseteq Session /\ leaving \subseteq Session

(* A transfer is from a player to somebody else, and there is one of each  *)
(* number.                                                                 *)
Sent ==
    /\ events \in Nat
    /\ IsFiniteSet(transfers) /\ transfers \subseteq Transfer
    /\ \A t \in transfers : t.id < events /\ t.to # UserOf(t.from)
    /\ \A t, u \in transfers : t.id = u.id => t = u

Purses == wallet \in [User -> Nat] /\ read \in [Session -> Nat] /\ overtaken \subseteq User

(* What a joining session has read is still the wallet, and a transfer     *)
(* whose sender has taken another session is counted as overtaken.         *)
Heard ==
    /\ \A s \in joining : UserOf(s) \notin overtaken => read[s] = wallet[UserOf(s)]
    /\ \A t \in transfers, s \in room.players :
         UserOf(s) = UserOf(t.from) /\ s # t.from => UserOf(s) \in overtaken

MadeBy(T, u) == {t \in T : t.state = "done" /\ UserOf(t.from) = u}
MadeTo(T, u) == {t \in T : t.state = "done" /\ t.to = u}

Follows(chips, u, w, T) == chips = w + Worth(MadeBy(T, u)) - Worth(MadeTo(T, u))

Agree ==
    \A s \in room.players : UserOf(s) \notin overtaken =>
      Follows(room.chips[s], UserOf(s), wallet[UserOf(s)], transfers)

MoneyInv == Inv /\ Typed(room) /\ Ids /\ Sent /\ Purses /\ Heard /\ Agree

LEMMA AgreeIsChipsFollowWallet == Agree <=> ChipsFollowWallet
<1>1. ASSUME NEW u
      PROVE  LET made == {t \in transfers : t.state = "done"}
             IN  /\ {t \in made : UserOf(t.from) = u} = MadeBy(transfers, u)
                 /\ {t \in made : t.to = u} = MadeTo(transfers, u)
  BY DEF MadeBy, MadeTo
<1> QED BY <1>1 DEF Agree, Follows, ChipsFollowWallet

LEMMA UserOfSession == ASSUME NEW s \in Session PROVE UserOf(s) \in User
BY DEF Session, UserOf

(* No transfer of a user is under way: his chips are his wallet.           *)
LEMMA NothingMade ==
    ASSUME NEW T, NEW u, NEW w \in Int, MadeBy(T, u) = {}, MadeTo(T, u) = {}
    PROVE  Follows(w, u, w, T)
<1>1. Worth({}) = 0 BY SumEmpty DEF Worth
<1> QED BY <1>1 DEF Follows

(* The steps that leave money and joins alone.                             *)
LEMMA KeepsMoney ==
    ASSUME MoneyInv, Inv', Typed(room'), Keeps(room, room'),
           UNCHANGED <<joining, read, opened, wallet, transfers, overtaken>>,
           events' \in {events, events + 1},
           grace' \subseteq Session, leaving' \subseteq Session
    PROVE  MoneyInv'
<1>1. Ids' BY DEF MoneyInv, Ids, Opened, Keeps
<1>2. Sent'
  <2>1. events \in Nat /\ events' \in Nat /\ events <= events' BY DEF MoneyInv, Sent
  <2>2. \A t \in transfers : t.id < events' BY <2>1 DEF MoneyInv, Sent, Transfer
  <2> QED BY <2>1, <2>2 DEF MoneyInv, Sent
<1>3. Purses' BY DEF MoneyInv, Purses
<1>4. Heard' BY DEF MoneyInv, Heard, Keeps
<1>5. Agree' BY DEF MoneyInv, Agree, Keeps
<1> QED BY <1>1, <1>2, <1>3, <1>4, <1>5 DEF MoneyInv

LEMMA PlayersAreSessions == ASSUME MoneyInv PROVE room.players \subseteq Session
BY DEF MoneyInv, Ids, Opened

LEMMA MessagesMoney == ASSUME MoneyInv, Inv', Messages PROVE MoneyInv'
<1>1. ASSUME Typed(room'), Keeps(room, room'), UNCHANGED <<connections, money, overtaken>>,
             events' \in {events, events + 1}
      PROVE  MoneyInv'
  <2>1. grace' \subseteq Session /\ leaving' \subseteq Session
    BY <1>1 DEF MoneyInv, Ids, connections
  <2> QED BY <1>1, <2>1, KeepsMoney DEF connections, money
<1>2. ASSUME NEW s \in room.players, NEW isReady, ToggleReady(s, isReady) PROVE MoneyInv'
  <2> DEFINE q == [room EXCEPT !.ready = IF isReady THEN @ \cup {s} ELSE @ \ {s}]
  <2>1. room' = CheckStartCountdown(q) BY <1>2 DEF ToggleReady
  <2>2. /\ DOMAIN q = Fields /\ q.players = room.players /\ q.chips = room.chips
        /\ q.phase = room.phase /\ q.countdown = room.countdown /\ q.firstGame = room.firstGame
        /\ \A f \in VoteFields \cup {"chips"} : q[f] = room[f]
    BY DEF MoneyInv, Typed, VoteOK, Fields, VoteFields
  <2> HIDE DEF q
  <2>3. Typed(q) /\ Keeps(room, q) BY <2>2, SameMoney DEF MoneyInv, Typed, Keeps
  <2>4. Typed(room') /\ Keeps(q, room') BY <2>1, <2>3, CheckStartCountdownTyped
  <2>5. Keeps(room, room') BY <2>3, <2>4 DEF Keeps
  <2> QED BY <1>1, <1>2, <2>4, <2>5 DEF ToggleReady
<1>3. ASSUME NEW s \in room.players, NEW amount \in Proposals, ProposePique(s, amount)
      PROVE  MoneyInv'
  <2> DEFINE others == VotersBut(room, s)
             c == ClearPiqueProposal(room)
             proposal == [c EXCEPT !.proposed = amount, !.proposer = s,
                                   !.votersTotal = Cardinality(others)]
  <2>1. VoteOK(c) /\ SameButVote(room, c)
    BY VoteFrame, ClearPiqueProposalVote DEF MoneyInv, Typed, VoteOK
  <2>2. c.ballots = NoBallots /\ c.votesFor = 0 /\ c.votesAgainst = 0
    BY DEF ClearPiqueProposal, MoneyInv, Typed, VoteOK, Fields
  <2>3. Cardinality(others) \in Nat
    <3>1. IsFiniteSet(room.connected) BY FS_Subset DEF MoneyInv, Inv, Seated
    <3> QED BY <3>1, VotersAreCounted
  <2>4. others # {} => Cardinality(others) # 0
    <3>1. IsFiniteSet(others)
      <4>1. others \subseteq room.players BY DEF VotersBut, Active, MoneyInv, Inv, Seated
      <4> QED BY <4>1, FS_Subset DEF MoneyInv, Inv, Seated
    <3> QED BY <3>1, FS_EmptySet
  <2>5. room' = IF others = {} THEN Approve(proposal) ELSE proposal BY <1>3 DEF ProposePique
  <2> HIDE DEF c, others
  <2>6. /\ DOMAIN proposal = Fields /\ proposal.proposed = amount /\ proposal.proposer = s
        /\ proposal.votersTotal = Cardinality(others) /\ proposal.minPique = c.minPique
        /\ proposal.ballots = NoBallots /\ proposal.votesFor = 0 /\ proposal.votesAgainst = 0
    BY <2>1, <2>2 DEF VoteOK, Fields
  <2>7. SameButVote(room, proposal) BY <2>1 DEF SameButVote, Fields, VoteFields
  <2> HIDE DEF proposal
  <2>8. amount \in Nat \ {0} /\ s \in Session
    BY LobbyAssumption, PlayersAreSessions
  <2>9. VoteOK(proposal)
    <3>1. Counted(proposal) BY <2>6, NoBallotsCounted
    <3> QED BY <2>1, <2>3, <2>6, <2>8, <3>1 DEF VoteOK
  <2>10. CASE others = {}
    <3>1. VoteOK(Approve(proposal)) /\ Undecided(Approve(proposal))
      BY <2>6, <2>8, <2>9, ApproveVote
    <3>2. SameButVote(proposal, Approve(proposal)) BY <2>6, VoteFrame
    <3>3. SameButVote(room, room') BY <2>5, <2>7, <2>10, <3>2 DEF SameButVote
    <3>4. Typed(room') /\ Keeps(room, room')
      BY <2>5, <2>10, <3>1, <3>3, VoteTyped DEF MoneyInv
    <3> QED BY <1>1, <1>3, <3>4 DEF ProposePique, Happens, connections
  <2>11. CASE others # {}
    <3>1. Majority(proposal) \in Nat \ {0} BY <2>3, <2>6 DEF Majority
    <3>2. Undecided(proposal) BY <2>4, <2>6, <2>11, <3>1 DEF Undecided
    <3>3. Typed(room') /\ Keeps(room, room')
      BY <2>5, <2>7, <2>9, <2>11, <3>2, VoteTyped DEF MoneyInv
    <3> QED BY <1>1, <1>3, <3>3 DEF ProposePique, Happens, connections
  <2> QED BY <2>10, <2>11
<1>4. ASSUME NEW s \in room.players, NEW ballot \in {"for", "against"}, VotePique(s, ballot)
      PROVE  MoneyInv'
  <2> DEFINE voted == [room EXCEPT !.ballots[s] = ballot,
                              !.votesFor = IF ballot = "for" THEN @ + 1 ELSE @,
                              !.votesAgainst = IF ballot = "against" THEN @ + 1 ELSE @]
  <2>1. room' = ResolvePiqueVoteIfReady(voted) /\ room.proposed # 0 /\ room.ballots[s] = "none"
    BY <1>4 DEF VotePique
  <2>2. /\ DOMAIN voted = Fields /\ voted.minPique = room.minPique
        /\ voted.proposed = room.proposed /\ voted.proposer = room.proposer
        /\ voted.votersTotal = room.votersTotal
        /\ voted.ballots = [room.ballots EXCEPT ![s] = ballot]
        /\ voted.votesFor = IF ballot = "for" THEN room.votesFor + 1 ELSE room.votesFor
        /\ voted.votesAgainst = IF ballot = "against" THEN room.votesAgainst + 1
                                ELSE room.votesAgainst
        /\ SameButVote(room, voted)
    BY DEF MoneyInv, Typed, VoteOK, Fields, SameButVote, VoteFields
  <2> HIDE DEF voted
  <2>3. s \in Session /\ ballot \in Ballot BY PlayersAreSessions DEF Ballot
  <2>4. Counted(voted) BY <2>1, <2>2, <2>3, BallotMoves DEF MoneyInv, Typed, VoteOK
  <2>5. VoteOK(voted) BY <2>2, <2>4 DEF MoneyInv, Typed, VoteOK
  <2>6. voted.proposed # 0 /\ voted.votersTotal # 0
    BY <2>1, <2>2 DEF MoneyInv, Typed, Undecided
  <2>7. VoteOK(room') /\ Undecided(room') BY <2>1, <2>5, <2>6, ResolveVote
  <2>8. SameButVote(voted, room') BY <2>1, <2>2, VoteFrame
  <2>9. SameButVote(room, room') BY <2>2, <2>8 DEF SameButVote
  <2>10. Typed(room') /\ Keeps(room, room') BY <2>7, <2>9, VoteTyped DEF MoneyInv
  <2> QED BY <1>1, <1>4, <2>10 DEF VotePique
<1> QED BY <1>2, <1>3, <1>4 DEF Messages

LEMMA DeparturesMoney == ASSUME MoneyInv, Inv', Departures PROVE MoneyInv'
<1>1. ASSUME NEW s \in Session, room' = Offline(room, s) \/ room' = RemovePlayer(room, s)
             \/ room' = room
      PROVE  Typed(room') /\ Keeps(room, room')
  BY <1>1, OfflineTyped, RemovePlayerTyped DEF MoneyInv, Inv, Keeps
<1>2. room.players \subseteq Session /\ grace \subseteq Session /\ leaving \subseteq Session
  BY PlayersAreSessions DEF MoneyInv, Ids
<1>3. ASSUME NEW s \in room.players, Drop(s) \/ Leave(s) PROVE MoneyInv'
  <2>1. Typed(room') /\ Keeps(room, room') BY <1>1, <1>2, <1>3 DEF Drop, Leave
  <2> QED BY <1>2, <1>3, <2>1, KeepsMoney DEF Drop, Leave, MayLose, Happens, money
<1>4. ASSUME NEW s \in room.players, Removed(s) PROVE MoneyInv'
  <2>1. Typed(room') /\ Keeps(room, room') BY <1>1, <1>2, <1>4 DEF Removed
  <2> QED BY <1>2, <1>4, <2>1, KeepsMoney DEF Removed, Happens, money, connections
<1>5. ASSUME NEW s \in grace, GraceExpires(s) PROVE MoneyInv'
  <2>1. Typed(room') /\ Keeps(room, room') BY <1>1, <1>2, <1>5 DEF GraceExpires
  <2> QED BY <1>2, <1>5, <2>1, KeepsMoney DEF GraceExpires, money
<1>6. ASSUME NEW s \in leaving, LeaveDone(s) PROVE MoneyInv'
  <2>1. Typed(room') /\ Keeps(room, room') BY <1>1, <1>2, <1>6 DEF LeaveDone
  <2> QED BY <1>2, <1>6, <2>1, KeepsMoney DEF LeaveDone, money
<1>7. ASSUME NEW s \in grace, Reconnect(s) PROVE MoneyInv'
  <2> DEFINE q == [room EXCEPT !.connected = @ \cup {s}]
  <2>1. /\ DOMAIN q = Fields /\ q.players = room.players /\ q.chips = room.chips
        /\ q.phase = room.phase /\ q.countdown = room.countdown /\ q.firstGame = room.firstGame
        /\ \A f \in VoteFields \cup {"chips"} : q[f] = room[f]
    BY DEF MoneyInv, Typed, VoteOK, Fields, VoteFields
  <2>2. room' = q \/ room' = room BY <1>7 DEF Reconnect
  <2> HIDE DEF q
  <2>3. Typed(room') /\ Keeps(room, room') BY <2>1, <2>2, SameMoney DEF MoneyInv, Typed, Keeps
  <2> QED BY <1>2, <1>7, <2>3, KeepsMoney DEF Reconnect, money
<1> QED BY <1>3, <1>4, <1>5, <1>6, <1>7 DEF Departures

LEMMA HandsMoney == ASSUME MoneyInv, Inv', Hands PROVE MoneyInv'
<1>1. ASSUME Typed(room'), Keeps(room, room') PROVE MoneyInv'
  <2>1. UNCHANGED <<connections, money, events, overtaken>>
    BY DEF Hands, CountdownEnds, Dealt, HandEnds
  <2>2. grace \subseteq Session /\ leaving \subseteq Session BY DEF MoneyInv, Ids
  <2> QED BY <1>1, <2>1, <2>2, KeepsMoney DEF connections, money
<1>2. CASE CountdownEnds
  BY <1>1, <1>2, StartNewGameTyped DEF CountdownEnds, MoneyInv
<1>3. ASSUME /\ DOMAIN room' = Fields /\ room'.players = room.players
             /\ room'.phase \in {"LOBBY", "OPENING", "HAND"}
             /\ room'.countdown = room.countdown /\ room'.firstGame = room.firstGame
             /\ \A f \in VoteFields \cup {"chips"} : room'[f] = room[f]
      PROVE  MoneyInv'
  <2>1. room.countdown \in BOOLEAN /\ room.firstGame \in BOOLEAN BY DEF MoneyInv, Typed
  <2>2. Typed(room') BY <1>3, <2>1, SameMoney DEF MoneyInv
  <2>3. Keeps(room, room') BY <1>3 DEF Keeps
  <2> QED BY <1>1, <2>2, <2>3
<1>4. CASE Dealt
  <2>1. room' = [room EXCEPT !.phase = "HAND"] BY <1>4 DEF Dealt
  <2> QED BY <1>3, <2>1 DEF MoneyInv, Typed, VoteOK, Fields, VoteFields
<1>5. CASE HandEnds
  <2> DEFINE q == CleanupRound(room)
  <2>1. PICK ready : room' = [q EXCEPT !.ready = ready] BY <1>5 DEF HandEnds
  <2>2. /\ DOMAIN q = Fields /\ q.players = room.players /\ q.phase = "LOBBY"
        /\ q.countdown = room.countdown /\ q.firstGame = room.firstGame
        /\ \A f \in VoteFields \cup {"chips"} : q[f] = room[f]
    BY DEF CleanupRound, MoneyInv, Typed, VoteOK, Fields, VoteFields
  <2> HIDE DEF q
  <2> QED BY <1>3, <2>1, <2>2 DEF Fields, VoteFields
<1> QED BY <1>2, <1>4, <1>5 DEF Hands

(* A session that joins: the others stay as they are, and the new object   *)
(* starts with the wallet unless a transfer overtakes it.                  *)
LEMMA JoinedMoney ==
    ASSUME MoneyInv, Inv', NEW s \in joining, Joined(s), Typed(room'),
           room'.players \subseteq room.players \cup {s},
           \A t \in room'.players : t # s => room'.chips[t] = room.chips[t],
           UserOf(s) \notin overtaken /\ (\A t \in transfers : ~Overtakes(UserOf(s), t))
             => room'.chips[s] = wallet[UserOf(s)]
    PROVE  MoneyInv'
<1>1. /\ joining' = joining \ {s} /\ read' = [read EXCEPT ![s] = 0]
      /\ overtaken' = IF \E t \in transfers : Overtakes(UserOf(s), t)
                      THEN overtaken \cup {UserOf(s)} ELSE overtaken
      /\ UNCHANGED <<grace, leaving, opened, openings, wallet, transfers, events>>
  BY DEF Joined, money
<1>2. s \in Session /\ UserOf(s) \in User BY UserOfSession DEF MoneyInv, Ids, Opened
<1>3. Ids'
  <2>1. s \in Opened /\ s \in joining BY DEF MoneyInv, Ids
  <2> QED BY <1>1, <2>1 DEF MoneyInv, Ids, Opened
<1>4. Sent' BY <1>1 DEF MoneyInv, Sent
<1>5. Purses' BY <1>1, <1>2 DEF MoneyInv, Purses
<1>6. overtaken \subseteq overtaken' BY <1>1
<1>7. Heard'
  <2>1. ASSUME NEW j \in joining', UserOf(j) \notin overtaken'
        PROVE  read'[j] = wallet'[UserOf(j)]
    <3>1. j \in joining /\ j # s /\ UserOf(j) \notin overtaken BY <1>1, <1>6, <2>1
    <3>2. read'[j] = read[j] BY <1>1, <3>1 DEF MoneyInv, Purses
    <3> QED BY <1>1, <3>1, <3>2 DEF MoneyInv, Heard
  <2>2. ASSUME NEW t \in transfers', NEW q \in room'.players,
               UserOf(q) = UserOf(t.from), q # t.from
        PROVE  UserOf(q) \in overtaken'
    <3>1. CASE q = s BY <1>1, <2>2, <3>1 DEF Overtakes
    <3>2. CASE q # s BY <1>1, <1>6, <2>2, <3>2 DEF MoneyInv, Heard
    <3> QED BY <3>1, <3>2
  <2> QED BY <2>1, <2>2 DEF Heard
<1>8. Agree'
  <2> SUFFICES ASSUME NEW q \in room'.players, UserOf(q) \notin overtaken'
               PROVE  Follows(room'.chips[q], UserOf(q), wallet[UserOf(q)], transfers)
    BY <1>1 DEF Agree
  <2>1. CASE q = s
    <3>1. \A t \in transfers : ~Overtakes(UserOf(s), t) BY <1>1, <2>1
    <3>2. room'.chips[s] = wallet[UserOf(s)] BY <1>6, <2>1, <3>1
    <3>3. MadeBy(transfers, UserOf(s)) = {} /\ MadeTo(transfers, UserOf(s)) = {}
      BY <3>1 DEF MadeBy, MadeTo, Overtakes
    <3>4. wallet[UserOf(s)] \in Int BY <1>2 DEF MoneyInv, Purses
    <3> QED BY <2>1, <3>2, <3>3, <3>4, NothingMade
  <2>2. CASE q # s
    <3>1. q \in room.players /\ room'.chips[q] = room.chips[q] BY <2>2
    <3> QED BY <1>6, <3>1 DEF MoneyInv, Agree
  <2> QED BY <2>1, <2>2
<1> QED BY <1>3, <1>4, <1>5, <1>7, <1>8 DEF MoneyInv

LEMMA JoinsMoney == ASSUME MoneyInv, Inv', Joins PROVE MoneyInv'
<1>1. ASSUME NEW u \in User, AskToJoin(u) PROVE MoneyInv'
  <2> DEFINE s == <<u, opened[u] + 1>>
  <2>1. /\ opened[u] < MaxSessions /\ opened' = [opened EXCEPT ![u] = @ + 1]
        /\ joining' = joining \cup {s} /\ read' = [read EXCEPT ![s] = wallet[u]]
        /\ UNCHANGED <<room, grace, leaving, openings, wallet, transfers, overtaken>>
        /\ (events' = events \/ events' = events + 1)
    BY <1>1 DEF AskToJoin, Happens, money
  <2>2. opened[u] \in Nat /\ opened' \in [User -> Nat] BY <2>1 DEF MoneyInv, Ids
  <2>3. s \in Session /\ UserOf(s) = u /\ s[2] = opened[u] + 1
    BY <2>1, <2>2, LobbyAssumption DEF Session, UserOf
  <2>4. s \notin room.players
    <3>1. s \in Opened => s[2] <= opened[u] BY <2>3 DEF Opened
    <3>2. s \notin Opened BY <2>2, <2>3, <3>1
    <3> QED BY <3>2 DEF MoneyInv, Ids
  <2>5. s \in Opened' BY <2>1, <2>2, <2>3 DEF Opened, MoneyInv, Ids
  <2> HIDE DEF s
  <2>6. Opened \subseteq Opened'
    <3> SUFFICES ASSUME NEW q \in Session, q[2] <= opened[UserOf(q)]
                 PROVE  q[2] <= opened'[UserOf(q)]
      BY DEF Opened
    <3>1. UserOf(q) \in User /\ q[2] \in Nat BY LobbyAssumption DEF Session, UserOf
    <3>2. opened[UserOf(q)] <= opened'[UserOf(q)] /\ opened[UserOf(q)] \in Nat
          /\ opened'[UserOf(q)] \in Nat
      BY <2>1, <2>2, <3>1 DEF MoneyInv, Ids
    <3> QED BY <3>1, <3>2
  <2>7. Ids' BY <2>1, <2>2, <2>4, <2>5, <2>6 DEF MoneyInv, Ids
  <2>8. Sent'
    <3>1. events \in Nat /\ events' \in Nat /\ events <= events' BY <2>1 DEF MoneyInv, Sent
    <3>2. \A t \in transfers : t.id < events' BY <3>1 DEF MoneyInv, Sent, Transfer
    <3> QED BY <2>1, <3>1, <3>2 DEF MoneyInv, Sent
  <2>9. Purses' BY <2>1, <2>3 DEF MoneyInv, Purses
  <2>10. Heard'
    <3>1. ASSUME NEW j \in joining', UserOf(j) \notin overtaken
          PROVE  read'[j] = wallet[UserOf(j)]
      <4>1. CASE j = s BY <2>1, <2>3, <4>1 DEF MoneyInv, Purses
      <4>2. CASE j # s BY <2>1, <3>1, <4>2 DEF MoneyInv, Purses, Heard
      <4> QED BY <4>1, <4>2
    <3> QED BY <2>1, <3>1 DEF MoneyInv, Heard
  <2>11. Agree' BY <2>1 DEF MoneyInv, Agree
  <2>12. Typed(room') BY <2>1 DEF MoneyInv
  <2> QED BY <2>7, <2>8, <2>9, <2>10, <2>11, <2>12 DEF MoneyInv
<1>2. ASSUME NEW s \in joining, TakeOver(s) PROVE MoneyInv'
  <2>1. PICK old \in PlayersOf(UserOf(s)) : room' = CheckStartCountdown(Replace(room, old, s))
    BY <1>2 DEF TakeOver
  <2> DEFINE q == Replace(room, old, s)
  <2>2. old \in room.players /\ UserOf(s) = UserOf(old) BY DEF PlayersOf
  <2>3. s \in Session /\ old \in Session /\ s # old
    BY <2>2 DEF MoneyInv, Ids, Opened
  <2>4. /\ DOMAIN q = Fields /\ q.players = (room.players \ {old}) \cup {s}
        /\ q.chips = [room.chips EXCEPT ![old] = 0,
             ![s] = IF room.phase = "LOBBY" THEN read[s] ELSE room.chips[old]]
        /\ q.phase = room.phase /\ q.countdown = room.countdown /\ q.firstGame = room.firstGame
        /\ \A f \in VoteFields : q[f] = room[f]
    BY <2>2 DEF Replace, MoneyInv, Typed, VoteOK, Fields, VoteFields
  <2> HIDE DEF q
  <2>5. Typed(q)
    <3>1. VoteOK(q) /\ Undecided(q) BY <2>4, SameVote DEF MoneyInv, Typed
    <3> DEFINE has == IF room.phase = "LOBBY" THEN read[s] ELSE room.chips[old]
    <3>2. has \in Int BY <2>3 DEF MoneyInv, Purses, Typed
    <3>3. q.chips \in [Session -> Int]
      <4>1. q.chips = [room.chips EXCEPT ![old] = 0, ![s] = has] BY <2>4
      <4> HIDE DEF has
      <4>2. room.chips \in [Session -> Int] BY DEF MoneyInv, Typed
      <4> DEFINE one == [room.chips EXCEPT ![old] = 0]
      <4>3. one \in [Session -> Int] BY <2>3, <4>2
      <4>4. q.chips = [one EXCEPT ![s] = has] BY <4>1
      <4> HIDE DEF one
      <4> QED BY <2>3, <3>2, <4>3, <4>4
    <3> QED BY <2>4, <3>1, <3>3 DEF MoneyInv, Typed
  <2>6. Typed(room') /\ Keeps(q, room') /\ room'.chips = q.chips
    BY <2>1, <2>5, CheckStartCountdownTyped DEF q
  <2>7. room'.players \subseteq room.players \cup {s} BY <2>4, <2>6 DEF Keeps
  <2>8. ASSUME NEW t \in room'.players, t # s PROVE room'.chips[t] = room.chips[t]
    <3>1. t \in room.players /\ t # old BY <2>4, <2>6, <2>8 DEF Keeps
    <3>2. t \in Session BY <3>1, PlayersAreSessions
    <3> QED BY <2>4, <2>6, <2>8, <3>1, <3>2 DEF MoneyInv, Typed
  <2>9. ASSUME UserOf(s) \notin overtaken, \A t \in transfers : ~Overtakes(UserOf(s), t)
        PROVE  room'.chips[s] = wallet[UserOf(s)]
    <3>1. room'.chips[s] = IF room.phase = "LOBBY" THEN read[s] ELSE room.chips[old]
      BY <2>3, <2>4, <2>6 DEF MoneyInv, Typed
    <3>2. read[s] = wallet[UserOf(s)] BY <2>9 DEF MoneyInv, Heard
    <3>3. room.chips[old] = wallet[UserOf(s)]
      <4>1. MadeBy(transfers, UserOf(s)) = {} /\ MadeTo(transfers, UserOf(s)) = {}
        BY <2>9 DEF MadeBy, MadeTo, Overtakes
      <4>2. Worth({}) = 0 BY SumEmpty DEF Worth
      <4>3. Follows(room.chips[old], UserOf(s), wallet[UserOf(s)], transfers)
        BY <2>2, <2>9 DEF MoneyInv, Agree
      <4>4. wallet[UserOf(s)] \in Int BY <2>3, UserOfSession DEF MoneyInv, Purses
      <4> QED BY <4>1, <4>2, <4>3, <4>4 DEF Follows
    <3> QED BY <3>1, <3>2, <3>3
  <2>10. Joined(s) BY <1>2 DEF TakeOver
  <2> QED BY <2>6, <2>7, <2>8, <2>9, <2>10, JoinedMoney
<1>3. ASSUME NEW s \in joining, FreshJoin(s) PROVE MoneyInv'
  <2> DEFINE waits == room.phase # "LOBBY"
             q == [room EXCEPT !.players = @ \cup {s}, !.connected = @ \cup {s},
                               !.chips[s] = read[s],
                               !.waiting = IF waits THEN @ \cup {s} ELSE @,
                               !.seats = IF waits THEN @ ELSE @ \cup {s}]
  <2>1. room' = CheckStartCountdown(q) /\ Joined(s) BY <1>3 DEF FreshJoin
  <2>2. /\ DOMAIN q = Fields /\ q.players = room.players \cup {s}
        /\ q.chips = [room.chips EXCEPT ![s] = read[s]]
        /\ q.phase = room.phase /\ q.countdown = room.countdown /\ q.firstGame = room.firstGame
        /\ \A f \in VoteFields : q[f] = room[f]
    BY DEF MoneyInv, Typed, VoteOK, Fields, VoteFields
  <2>3. s \in Session BY DEF MoneyInv, Ids, Opened
  <2> HIDE DEF q
  <2>4. Typed(q)
    <3>1. VoteOK(q) /\ Undecided(q) BY <2>2, SameVote DEF MoneyInv, Typed
    <3>2. read[s] \in Int BY <2>3 DEF MoneyInv, Purses
    <3>3. q.chips \in [Session -> Int] BY <2>2, <3>2 DEF MoneyInv, Typed
    <3> QED BY <2>2, <3>1, <3>3 DEF MoneyInv, Typed
  <2>5. Typed(room') /\ Keeps(q, room') /\ room'.chips = q.chips
    BY <2>1, <2>4, CheckStartCountdownTyped
  <2>6. room'.players \subseteq room.players \cup {s} BY <2>2, <2>5 DEF Keeps
  <2>7. ASSUME NEW t \in room'.players, t # s PROVE room'.chips[t] = room.chips[t]
    <3>1. t \in Session BY <2>6, <2>7, PlayersAreSessions
    <3> QED BY <2>2, <2>5, <2>7, <3>1 DEF MoneyInv, Typed
  <2>8. ASSUME UserOf(s) \notin overtaken PROVE room'.chips[s] = wallet[UserOf(s)]
    <3>1. room'.chips[s] = read[s] BY <2>2, <2>3, <2>5 DEF MoneyInv, Typed
    <3> QED BY <2>8, <3>1 DEF MoneyInv, Heard
  <2> QED BY <2>1, <2>5, <2>6, <2>7, <2>8, JoinedMoney
<1>4. ASSUME NEW s \in joining, JoinRefused(s) PROVE MoneyInv'
  <2>1. /\ joining' = joining \ {s} /\ read' = [read EXCEPT ![s] = 0]
        /\ UNCHANGED <<room, grace, leaving, opened, openings, wallet, transfers, events, overtaken>>
    BY <1>4 DEF JoinRefused, money
  <2>2. Ids' BY <2>1 DEF MoneyInv, Ids, Opened
  <2>3. Sent' BY <2>1 DEF MoneyInv, Sent
  <2>4. Purses' BY <2>1 DEF MoneyInv, Purses
  <2>5. ASSUME NEW j \in joining', UserOf(j) \notin overtaken
        PROVE  read'[j] = wallet[UserOf(j)]
    BY <2>1, <2>5 DEF MoneyInv, Purses, Heard
  <2>6. Heard' BY <2>1, <2>5 DEF MoneyInv, Heard
  <2>7. Agree' BY <2>1 DEF MoneyInv, Agree
  <2> QED BY <2>1, <2>2, <2>3, <2>4, <2>6, <2>7 DEF MoneyInv
<1> QED BY <1>1, <1>2, <1>3, <1>4 DEF Joins

(* What a transfer that changes its state does to the sums.                *)
LEMMA MadeFinite ==
    ASSUME MoneyInv, NEW u
    PROVE  /\ IsFiniteSet(MadeBy(transfers, u)) /\ IsFiniteSet(MadeTo(transfers, u))
           /\ \A t \in MadeBy(transfers, u) \cup MadeTo(transfers, u) : t.amount \in Int
           /\ Worth(MadeBy(transfers, u)) \in Int /\ Worth(MadeTo(transfers, u)) \in Int
<1>1. MadeBy(transfers, u) \subseteq transfers /\ MadeTo(transfers, u) \subseteq transfers
  BY DEF MadeBy, MadeTo
<1>2. IsFiniteSet(MadeBy(transfers, u)) /\ IsFiniteSet(MadeTo(transfers, u))
  BY <1>1, FS_Subset DEF MoneyInv, Sent
<1>3. \A t \in transfers : t.amount \in Int BY DEF MoneyInv, Sent, Transfer
<1>4. \A t \in MadeBy(transfers, u) : t.amount \in Int BY <1>1, <1>3
<1>5. \A t \in MadeTo(transfers, u) : t.amount \in Int BY <1>1, <1>3
<1>6. Worth(MadeBy(transfers, u)) \in Int BY <1>2, <1>4, WorthOfOne
<1>7. Worth(MadeTo(transfers, u)) \in Int BY <1>2, <1>5, WorthOfOne
<1> QED BY <1>2, <1>4, <1>5, <1>6, <1>7

(* The transfers that are made are the same.                               *)
LEMMA SameMade ==
    ASSUME MoneyInv, NEW T,
           \A t : t.state = "done" => (t \in T <=> t \in transfers)
    PROVE  \A u : MadeBy(T, u) = MadeBy(transfers, u) /\ MadeTo(T, u) = MadeTo(transfers, u)
BY DEF MadeBy, MadeTo

LEMMA TransfersMoney == ASSUME MoneyInv, Inv', Transfers PROVE MoneyInv'
<1>1. ASSUME NEW s \in room.players, NEW u \in User, NEW amount \in Amounts,
             SendTransfer(s, u, amount)
      PROVE  MoneyInv'
  <2> DEFINE n == [id |-> events, from |-> s, to |-> u, amount |-> amount, state |-> "sent"]
  <2>1. /\ transfers' = transfers \cup {n} /\ events' = events + 1 /\ u # UserOf(s)
        /\ UNCHANGED <<room, joining, read, grace, leaving, opened, openings, wallet, overtaken>>
    BY <1>1 DEF SendTransfer, Happens, connections
  <2>2. /\ n \in Transfer /\ n.id = events /\ n.to = u /\ n.from = s /\ n.state = "sent"
    BY PlayersAreSessions, LobbyAssumption DEF Transfer, MoneyInv, Sent
  <2> HIDE DEF n
  <2>3. Ids' BY <2>1 DEF MoneyInv, Ids, Opened
  <2>4. Sent'
    <3>1. IsFiniteSet(transfers') BY <2>1, FS_AddElement DEF MoneyInv, Sent
    <3>2. events \in Nat /\ \A t \in transfers : t.id \in Nat /\ t.id < events
      BY DEF MoneyInv, Sent, Transfer
    <3>3. \A t \in transfers' : t.id < events' BY <2>1, <2>2, <3>2
    <3>4. \A t, v \in transfers' : t.id = v.id => t = v
      BY <2>1, <2>2, <3>2 DEF MoneyInv, Sent
    <3> QED BY <2>1, <2>2, <3>1, <3>2, <3>3, <3>4 DEF MoneyInv, Sent
  <2>5. Purses' BY <2>1 DEF MoneyInv, Purses
  <2>6. Heard'
    <3>1. \A q \in room.players : UserOf(q) = UserOf(s) => q = s
      BY DEF MoneyInv, Inv, Seated
    <3> QED BY <2>1, <2>2, <3>1 DEF MoneyInv, Heard
  <2>7. Agree'
    <3>1. \A v : MadeBy(transfers', v) = MadeBy(transfers, v)
                 /\ MadeTo(transfers', v) = MadeTo(transfers, v)
      BY <2>1, <2>2 DEF MadeBy, MadeTo
    <3> QED BY <2>1, <3>1 DEF MoneyInv, Agree, Follows
  <2>8. Typed(room') BY <2>1 DEF MoneyInv
  <2> QED BY <2>3, <2>4, <2>5, <2>6, <2>7, <2>8 DEF MoneyInv
<1> DEFINE Alone(t) == \A v \in transfers : v.id = t.id => v = t
<1>2. \A t \in transfers : t \in Transfer /\ Alone(t) /\ t.to # UserOf(t.from)
        /\ t.amount \in Int /\ t.from \in Session /\ UserOf(t.from) \in User /\ t.to \in User
  BY UserOfSession DEF MoneyInv, Sent, Transfer
(* A transfer is replaced by itself in another state.                      *)
<1>3. ASSUME NEW t \in transfers, NEW state \in {"done", "refused"}, Becomes(t, state)
      PROVE  LET n == [t EXCEPT !.state = state]
             IN  /\ n \in Transfer /\ n.state = state /\ n.from = t.from /\ n.to = t.to
                 /\ n.amount = t.amount /\ n.id = t.id
                 /\ transfers' = (transfers \ {t}) \cup {n} /\ IsFiniteSet(transfers')
                 /\ (n \in transfers => n = t)
                 /\ \A v, w \in transfers' : v.id = w.id => v = w
  <2> DEFINE n == [t EXCEPT !.state = state]
  <2>1. n \in Transfer /\ n.state = state /\ n.from = t.from /\ n.to = t.to
        /\ n.amount = t.amount /\ n.id = t.id
    BY <1>2 DEF Transfer
  <2>2. transfers' = (transfers \ {t}) \cup {n} BY <1>3 DEF Becomes
  <2> HIDE DEF n
  <2>3. IsFiniteSet(transfers')
    <3>1. IsFiniteSet(transfers \ {t}) BY OneLess DEF MoneyInv, Sent
    <3> QED BY <2>2, <3>1, FS_AddElement
  <2>4. n \in transfers => n = t BY <1>2, <2>1
  <2>5. \A v, w \in transfers' : v.id = w.id => v = w
    BY <1>2, <2>1, <2>2 DEF MoneyInv, Sent
  <2> QED BY <2>1, <2>2, <2>3, <2>4, <2>5 DEF n
<1>4. ASSUME NEW t \in transfers, TransferCommits(t) PROVE MoneyInv'
  <2> DEFINE from == UserOf(t.from)
             paid == wallet[from] >= t.amount
             n == [t EXCEPT !.state = IF paid THEN "done" ELSE "refused"]
             late == {UserOf(j) : j \in {i \in joining : UserOf(i) \in {from, t.to}}}
  <2>1. /\ t.state = "sent" /\ Becomes(t, IF paid THEN "done" ELSE "refused")
        /\ wallet' = IF paid THEN [wallet EXCEPT ![from] = @ - t.amount, ![t.to] = @ + t.amount]
                     ELSE wallet
        /\ overtaken' = IF paid THEN overtaken \cup late ELSE overtaken
        /\ UNCHANGED <<room, joining, read, grace, leaving, opened, openings, events>>
    BY <1>4 DEF TransferCommits, connections
  <2>2. /\ n \in Transfer /\ n.state = (IF paid THEN "done" ELSE "refused")
        /\ n.from = t.from /\ n.to = t.to /\ n.amount = t.amount /\ n.id = t.id
        /\ transfers' = (transfers \ {t}) \cup {n} /\ IsFiniteSet(transfers')
        /\ (n \in transfers => n = t) /\ \A v, w \in transfers' : v.id = w.id => v = w
    BY ZenonT(60), <1>3, <2>1
  <2>3. n \notin transfers
    <3>1. n.state # "sent" BY <2>2
    <3> QED BY <2>1, <2>2, <3>1
  <2>4. from \in User /\ t.to \in User /\ from # t.to /\ t.amount \in Nat
    BY <1>2 DEF Transfer
  <2> HIDE DEF n
  <2>5. Ids' BY <2>1 DEF MoneyInv, Ids, Opened
  <2>6. Sent'
    <3>1. \A v \in transfers' : v \in Transfer /\ v.id < events' /\ v.to # UserOf(v.from)
      BY <1>2, <2>1, <2>2 DEF MoneyInv, Sent
    <3> QED BY <2>1, <2>2, <3>1 DEF MoneyInv, Sent
  <2>7. Purses'
    <3>1. wallet' \in [User -> Nat]
      <4>1. wallet[from] \in Nat /\ wallet[t.to] \in Nat BY <2>4 DEF MoneyInv, Purses
      <4>2. paid => wallet[from] - t.amount \in Nat BY <2>4, <4>1
      <4>3. wallet[t.to] + t.amount \in Nat BY <2>4, <4>1
      <4> QED BY <2>1, <2>4, <4>1, <4>2, <4>3 DEF MoneyInv, Purses
    <3>2. late \subseteq User BY UserOfSession DEF MoneyInv, Ids, Opened
    <3>3. overtaken' \subseteq User BY <2>1, <3>2 DEF MoneyInv, Purses
    <3> QED BY <2>1, <3>1, <3>3 DEF MoneyInv, Purses
  <2>8. overtaken \subseteq overtaken' BY <2>1
  <2>9. Heard'
    <3>1. ASSUME NEW j \in joining, UserOf(j) \notin overtaken'
          PROVE  read[j] = wallet'[UserOf(j)]
      <4>1. read[j] = wallet[UserOf(j)] BY <2>8, <3>1 DEF MoneyInv, Heard
      <4>2. CASE ~paid BY <2>1, <4>1, <4>2
      <4>3. CASE paid
        <5>1. UserOf(j) \notin {from, t.to} BY <2>1, <3>1, <4>3
        <5>2. UserOf(j) \in User BY UserOfSession DEF MoneyInv, Ids, Opened
        <5> QED BY <2>1, <4>1, <4>3, <5>1, <5>2 DEF MoneyInv, Purses
      <4> QED BY <4>2, <4>3
    <3>2. ASSUME NEW v \in transfers', NEW q \in room.players,
                 UserOf(q) = UserOf(v.from), q # v.from
          PROVE  UserOf(q) \in overtaken'
      BY <2>2, <2>8, <3>2 DEF MoneyInv, Heard
    <3> QED BY <2>1, <3>1, <3>2 DEF Heard
  <2>10. Agree'
    <3> SUFFICES ASSUME NEW q \in room.players, UserOf(q) \notin overtaken'
                 PROVE  Follows(room.chips[q], UserOf(q), wallet'[UserOf(q)], transfers')
      BY <2>1 DEF Agree
    <3> DEFINE u == UserOf(q)
               by == MadeBy(transfers, u)
               to == MadeTo(transfers, u)
    <3>1. room.chips[q] = wallet[u] + Worth(by) - Worth(to)
      BY <2>8 DEF MoneyInv, Agree, Follows
    <3>2. u \in User /\ wallet[u] \in Int
      BY PlayersAreSessions, UserOfSession DEF MoneyInv, Purses
    <3>3. /\ IsFiniteSet(by) /\ IsFiniteSet(to) /\ Worth(by) \in Int /\ Worth(to) \in Int
          /\ \A v \in by : v.amount \in Int
          /\ \A v \in to : v.amount \in Int
      BY MadeFinite
    <3>4. MadeBy(transfers', u) = IF paid /\ u = from THEN by \cup {n} ELSE by
      BY <2>1, <2>2 DEF MadeBy
    <3>5. MadeTo(transfers', u) = IF paid /\ u = t.to THEN to \cup {n} ELSE to
      BY <2>1, <2>2 DEF MadeTo
    <3>6. n \notin by /\ n \notin to /\ n.amount = t.amount /\ t.amount \in Int
      BY <2>2, <2>3, <2>4 DEF MadeBy, MadeTo
    <3>7. wallet'[u] = IF paid /\ u = from THEN wallet[u] - t.amount
                       ELSE IF paid /\ u = t.to THEN wallet[u] + t.amount ELSE wallet[u]
      BY <2>1, <2>4, <3>2 DEF MoneyInv, Purses
    <3>8. Worth(by \cup {n}) = Worth(by) + t.amount BY <3>3, <3>6, WorthOfOne
    <3>9. Worth(to \cup {n}) = Worth(to) + t.amount BY <3>3, <3>6, WorthOfOne
    <3> HIDE DEF by, to, u
    <3>10. room.chips[q] = wallet'[u] + Worth(MadeBy(transfers', u)) - Worth(MadeTo(transfers', u))
      <4> HIDE DEF paid, from
      <4>1. CASE paid /\ u = from
        BY <2>4, <3>1, <3>2, <3>3, <3>4, <3>5, <3>6, <3>7, <3>8, <4>1
      <4>2. CASE paid /\ u = t.to
        BY <2>4, <3>1, <3>2, <3>3, <3>4, <3>5, <3>6, <3>7, <3>9, <4>2
      <4>3. CASE ~(paid /\ u \in {from, t.to})
        BY <3>1, <3>4, <3>5, <3>7, <4>3
      <4> QED BY <4>1, <4>2, <4>3
    <3> QED BY <3>10 DEF Follows, u
  <2>11. Typed(room') BY <2>1 DEF MoneyInv
  <2> QED BY <2>5, <2>6, <2>7, <2>9, <2>10, <2>11 DEF MoneyInv
(* A transfer leaves.                                                      *)
<1>5. ASSUME NEW t \in transfers, transfers' = transfers \ {t}
      PROVE  /\ IsFiniteSet(transfers')
             /\ \A u : /\ MadeBy(transfers', u) = MadeBy(transfers, u) \ {t}
                       /\ MadeTo(transfers', u) = MadeTo(transfers, u) \ {t}
  <2>1. IsFiniteSet(transfers') BY <1>5, OneLess DEF MoneyInv, Sent
  <2> QED BY <1>5, <2>1 DEF MadeBy, MadeTo
<1>6. ASSUME NEW t \in transfers, TransferAnswered(t) PROVE MoneyInv'
  <2> DEFINE done == t.state = "done"
             from == UserOf(t.from)
  <2>1. /\ transfers' = transfers \ {t}
        /\ room' = IF done THEN MoveChips(room, t) ELSE room
        /\ UNCHANGED <<joining, read, grace, leaving, opened, wallet, events, overtaken>>
    BY <1>6 DEF TransferAnswered, connections
  <2>2. \A s \in Session :
          MoveChips(room, t).chips[s] = IF s \notin room.players THEN 0
                                        ELSE IF s = t.from THEN room.chips[s] - t.amount
                                        ELSE IF UserOf(s) = t.to THEN room.chips[s] + t.amount
                                        ELSE room.chips[s]
    BY DEF MoveChips, MoneyInv, Typed, VoteOK, Fields
  <2>3. /\ DOMAIN MoveChips(room, t) = Fields
        /\ DOMAIN MoveChips(room, t).chips = Session
        /\ \A f \in Fields \ {"chips"} : MoveChips(room, t)[f] = room[f]
        /\ \E F : MoveChips(room, t).chips = [s \in Session |-> F[s]]
    <3>1. /\ DOMAIN MoveChips(room, t) = Fields
          /\ \A f \in Fields \ {"chips"} : MoveChips(room, t)[f] = room[f]
      BY DEF MoveChips, MoneyInv, Typed, VoteOK, Fields
    <3>2. MoveChips(room, t).chips
            = [s \in Session |-> IF s \notin room.players THEN 0
                                 ELSE IF s = t.from THEN room.chips[s] - t.amount
                                 ELSE IF UserOf(s) = t.to THEN room.chips[s] + t.amount
                                 ELSE room.chips[s]]
      BY DEF MoveChips, MoneyInv, Typed, VoteOK, Fields
    <3> QED BY <3>1, <3>2
  <2>4. Typed(room') /\ room'.players = room.players
    <3>1. MoveChips(room, t).chips \in [Session -> Int]
      <4>1. \A s \in Session : room.chips[s] \in Int BY DEF MoneyInv, Typed
      <4>2. \A s \in Session : MoveChips(room, t).chips[s] \in Int
        BY <1>2, <2>2, <4>1
      <4> QED BY <2>3, <4>2
    <3>2. \A f \in VoteFields : MoveChips(room, t)[f] = room[f]
      BY <2>3 DEF Fields, VoteFields
    <3>3. VoteOK(MoveChips(room, t)) /\ Undecided(MoveChips(room, t))
      BY <2>3, <3>2, SameVote DEF MoneyInv, Typed
    <3>4. /\ MoveChips(room, t).phase = room.phase /\ MoveChips(room, t).countdown = room.countdown
          /\ MoveChips(room, t).firstGame = room.firstGame
          /\ MoveChips(room, t).players = room.players
      BY <2>3 DEF Fields
    <3>5. Typed(MoveChips(room, t)) BY <3>1, <3>3, <3>4 DEF MoneyInv, Typed
    <3> QED BY <2>1, <3>4, <3>5 DEF MoneyInv
  <2>5. Ids' BY <2>1, <2>4 DEF MoneyInv, Ids, Opened
  <2>6. Sent' BY <1>5, <2>1 DEF MoneyInv, Sent
  <2>7. Purses' BY <2>1 DEF MoneyInv, Purses
  <2>8. Heard' BY <2>1, <2>4 DEF MoneyInv, Heard
  <2>9. Agree'
    <3> SUFFICES ASSUME NEW q \in room.players, UserOf(q) \notin overtaken
                 PROVE  Follows(room'.chips[q], UserOf(q), wallet[UserOf(q)], transfers')
      BY <2>1, <2>4 DEF Agree
    <3> DEFINE u == UserOf(q)
               by == MadeBy(transfers, u)
               to == MadeTo(transfers, u)
    <3>1. room.chips[q] = wallet[u] + Worth(by) - Worth(to) BY DEF MoneyInv, Agree, Follows
    <3>2. q \in Session /\ u \in User /\ wallet[u] \in Int /\ room.chips[q] \in Int
      BY PlayersAreSessions, UserOfSession DEF MoneyInv, Purses, Typed
    <3>3. /\ IsFiniteSet(by) /\ IsFiniteSet(to) /\ Worth(by) \in Int /\ Worth(to) \in Int
          /\ \A v \in by : v.amount \in Int
          /\ \A v \in to : v.amount \in Int
      BY MadeFinite
    <3>4. MadeBy(transfers', u) = by \ {t} /\ MadeTo(transfers', u) = to \ {t}
      BY <1>5, <2>1
    <3>5. t \in by <=> done /\ u = from BY DEF MadeBy
    <3>6. t \in to <=> done /\ u = t.to BY DEF MadeTo
    <3>7. t \in by => Worth(by \ {t}) = Worth(by) - t.amount BY <3>3, WorthOfOne
    <3>8. t \in to => Worth(to \ {t}) = Worth(to) - t.amount BY <3>3, WorthOfOne
    <3>9. (t \notin by => by \ {t} = by) /\ (t \notin to => to \ {t} = to) OBVIOUS
    <3>10. u = from => q = t.from BY DEF MoneyInv, Heard
    <3>11. from # t.to /\ t.amount \in Int BY <1>2
    <3>12. room'.chips[q] = IF ~done THEN room.chips[q]
                            ELSE IF u = from THEN room.chips[q] - t.amount
                            ELSE IF u = t.to THEN room.chips[q] + t.amount
                            ELSE room.chips[q]
      BY <2>1, <2>2, <3>2, <3>10
    <3> HIDE DEF by, to, u, done, from
    <3>13. room'.chips[q] = wallet[u] + Worth(by \ {t}) - Worth(to \ {t})
      <4>1. CASE done /\ u = from
        <5>1. Worth(by \ {t}) = Worth(by) - t.amount /\ to \ {t} = to
          BY <3>5, <3>6, <3>7, <3>9, <3>11, <4>1
        <5>2. room'.chips[q] = room.chips[q] - t.amount BY <3>12, <4>1
        <5>3. \A c, w, b, d, a \in Int : c = w + b - d => c - a = w + (b - a) - d OBVIOUS
        <5>4. room.chips[q] - t.amount = wallet[u] + (Worth(by) - t.amount) - Worth(to)
          BY <3>1, <3>2, <3>3, <3>11, <5>3
        <5> QED BY <5>1, <5>2, <5>4
      <4>2. CASE done /\ u = t.to
        <5>1. Worth(to \ {t}) = Worth(to) - t.amount /\ by \ {t} = by
          BY <3>5, <3>6, <3>8, <3>9, <3>11, <4>2
        <5>2. room'.chips[q] = room.chips[q] + t.amount BY <3>11, <3>12, <4>2
        <5>3. \A c, w, b, d, a \in Int : c = w + b - d => c + a = w + b - (d - a) OBVIOUS
        <5>4. room.chips[q] + t.amount = wallet[u] + Worth(by) - (Worth(to) - t.amount)
          BY <3>1, <3>2, <3>3, <3>11, <5>3
        <5> QED BY <5>1, <5>2, <5>4
      <4>3. CASE ~(done /\ u \in {from, t.to})
        BY <3>1, <3>5, <3>6, <3>9, <3>12, <4>3
      <4> QED BY <4>1, <4>2, <4>3
    <3> QED BY <3>4, <3>13 DEF Follows, u
  <2> QED BY <2>4, <2>5, <2>6, <2>7, <2>8, <2>9 DEF MoneyInv
<1>7. ASSUME NEW t \in transfers, TransferFails(t) PROVE MoneyInv'
  <2>1. /\ transfers' = transfers \ {t}
        /\ overtaken' = IF t.state = "done" THEN overtaken \cup {UserOf(t.from), t.to}
                        ELSE overtaken
        /\ UNCHANGED <<room, joining, read, grace, leaving, opened, wallet, events>>
    BY <1>7 DEF TransferFails, connections
  <2>2. Ids' BY <2>1 DEF MoneyInv, Ids, Opened
  <2>3. Sent' BY <1>5, <2>1 DEF MoneyInv, Sent
  <2>4. Purses' BY <1>2, <2>1 DEF MoneyInv, Purses
  <2>5. Heard' BY <2>1 DEF MoneyInv, Heard
  <2>6. Agree'
    <3> SUFFICES ASSUME NEW q \in room.players, UserOf(q) \notin overtaken'
                 PROVE  Follows(room.chips[q], UserOf(q), wallet[UserOf(q)], transfers')
      BY <2>1 DEF Agree
    <3> DEFINE u == UserOf(q)
    <3>1. Follows(room.chips[q], u, wallet[u], transfers) BY <2>1 DEF MoneyInv, Agree
    <3>2. t \notin MadeBy(transfers, u) /\ t \notin MadeTo(transfers, u)
      BY <2>1 DEF MadeBy, MadeTo
    <3>3. MadeBy(transfers', u) = MadeBy(transfers, u) /\ MadeTo(transfers', u) = MadeTo(transfers, u)
      <4> HIDE DEF u
      <4> QED BY <1>5, <2>1, <3>2
    <3> QED BY <3>1, <3>3 DEF Follows
  <2>7. Typed(room') BY <2>1 DEF MoneyInv
  <2> QED BY <2>2, <2>3, <2>4, <2>5, <2>6, <2>7 DEF MoneyInv
<1> QED BY <1>1, <1>4, <1>6, <1>7 DEF Transfers

LEMMA InitMoney == ASSUME Init PROVE MoneyInv
<1>1. Inv BY InitFine
<1>2. Typed(room)
  <2>1. /\ DOMAIN room = Fields /\ room.phase = "LOBBY" /\ room.chips = [s \in Session |-> 0]
        /\ room.countdown = FALSE /\ room.firstGame = TRUE /\ room.minPique = FirstPique
        /\ room.proposed = 0 /\ room.proposer = NoOne /\ room.ballots = NoBallots
        /\ room.votesFor = 0 /\ room.votesAgainst = 0 /\ room.votersTotal = 0
    BY DEF Init, Fields
  <2>2. Counted(room) BY <2>1, NoBallotsCounted
  <2>3. room.chips \in [Session -> Int] BY <2>1
  <2>4. VoteOK(room) BY <2>1, <2>2, LobbyAssumption DEF VoteOK
  <2> QED BY <2>1, <2>3, <2>4 DEF Typed, Undecided
<1>3. Ids /\ Heard /\ Agree BY DEF Init, Ids, Heard, Agree, Opened
<1>4. Sent BY FS_EmptySet DEF Init, Sent
<1>5. Purses BY LobbyAssumption DEF Init, Purses
<1> QED BY <1>1, <1>2, <1>3, <1>4, <1>5 DEF MoneyInv

LEMMA NextMoney == ASSUME MoneyInv, [Next]_vars PROVE MoneyInv'
<1>1. Inv' BY NextFine DEF MoneyInv
<1>2. CASE Next
  BY <1>1, <1>2, JoinsMoney, MessagesMoney, DeparturesMoney, HandsMoney, TransfersMoney DEF Next
<1>3. CASE UNCHANGED vars
  <2>1. UNCHANGED <<room, joining, read, grace, leaving, opened, wallet, transfers, events, overtaken>>
    BY <1>3 DEF vars, connections, money
  <2>2. Ids' /\ Sent' /\ Purses' BY <2>1 DEF MoneyInv, Ids, Opened, Sent, Purses
  <2>3. Heard' /\ Agree' BY <2>1 DEF MoneyInv, Heard, Agree
  <2> QED BY <1>1, <2>1, <2>2, <2>3 DEF MoneyInv
<1> QED BY <1>2, <1>3

LEMMA MoneyInvHolds == Spec => []MoneyInv
<1>1. Init => MoneyInv BY InitMoney
<1>2. MoneyInv /\ [Next]_vars => MoneyInv' BY NextMoney
<1> QED BY <1>1, <1>2, PTL DEF Spec

-----------------------------------------------------------------------------
(* The theorems.                                                           *)

(* However many users join, take their seats over, drop out and return, a  *)
(* user sits at the table once, and the order of turns has a place for     *)
(* everybody who plays and for nobody else (ConnectionManager.ts).         *)
THEOREM SeatsStayWithPlayers == Spec => []SeatsArePlayers
<1>1. Inv => SeatsArePlayers BY DEF Inv, Seated, SeatsArePlayers
<1> QED BY InvHolds, <1>1, PTL

(* Unless the timers of an opening outlive its hand, a countdown only runs *)
(* with enough players connected and ready (checkStartCountdown).          *)
THEOREM CountdownIsCovered == Spec => []CountdownHasPlayers
<1>1. Inv => CountdownHasPlayers BY DEF Inv, Calm, CountdownHasPlayers
<1> QED BY InvHolds, <1>1, PTL

(* No departure settles a vote in the middle of a hand: the minimum pique  *)
(* stays what it was when the hand was opened (removePlayer).              *)
THEOREM PiqueIsFixed == Spec => PiqueHoldsInHand
<1>1. Inv /\ [Next]_vars => [room.phase # "LOBBY" /\ ~tangled => room'.minPique = room.minPique]_vars
  <2> SUFFICES ASSUME Inv, [Next]_vars, room.phase # "LOBBY", ~tangled
               PROVE  room'.minPique = room.minPique
    OBVIOUS
  <2> QED BY NextFine DEF Inv, Calm, KeepsPique
<1> QED BY InvHolds, <1>1, PTL DEF Spec, PiqueHoldsInHand

(* The types of sessions, seats, votes and money; in particular no count   *)
(* of votes drops below zero when ballots are withdrawn (removePlayer,     *)
(* handleVotePique), and every player has opened his session.              *)
THEOREM LobbyTypeCorrect == Spec => []TypeOK
<1>1. MoneyInv => TypeOK
  <2> SUFFICES ASSUME MoneyInv PROVE TypeOK OBVIOUS
  <2>1. room.players \subseteq {s \in Session : s[2] <= opened[UserOf(s)]} \ joining
    BY DEF MoneyInv, Ids, Opened
  <2>2. room.connected \subseteq room.players /\ room.ready \subseteq room.players
        /\ room.waiting \subseteq room.players
    BY DEF MoneyInv, Inv, Seated
  <2>3. room.votesFor \in Nat /\ room.votesAgainst \in Nat
    BY CountsAreNat DEF MoneyInv, Typed, VoteOK
  <2>4. joining \subseteq Session /\ grace \subseteq Session /\ leaving \subseteq Session
    BY DEF MoneyInv, Ids, Opened
  <2> QED BY <2>1, <2>2, <2>3, <2>4 DEF MoneyInv, Typed, VoteOK, Counted, Ballot, Purses, TypeOK
<1> QED BY MoneyInvHolds, <1>1, PTL

(* An open vote is undecided: its counts are those of the ballots of any   *)
(* number of players, and the vote, the departure or the removal that      *)
(* gives one side the majority closes it (resolvePiqueVoteIfReady, also    *)
(* from removePlayer).                                                     *)
THEOREM OpenVotesAreUndecided == Spec => []OpenVoteIsUndecided
<1>1. MoneyInv => OpenVoteIsUndecided
  <2>1. \A b : Ballots(b) = BallotsIn(room, b) BY DEF Ballots, BallotsIn
  <2> QED BY <2>1 DEF MoneyInv, Typed, VoteOK, Counted, Undecided, OpenVoteIsUndecided
<1> QED BY MoneyInvHolds, <1>1, PTL

(* Unless a join or a lost answer came between, the chips of every player  *)
(* are his wallet, but for the transfers the database has made and the     *)
(* room has not yet heard of, however many are under way at once           *)
(* (handleTransfer, handleConnectionJoin).                                 *)
THEOREM ChipsMatchWallets == Spec => []ChipsFollowWallet
<1>1. MoneyInv => ChipsFollowWallet BY AgreeIsChipsFollowWallet DEF MoneyInv
<1> QED BY MoneyInvHolds, <1>1, PTL
=============================================================================
