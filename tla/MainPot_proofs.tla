--------------------------- MODULE MainPot_proofs ---------------------------
(***************************************************************************)
(* Every step of the main pot keeps the room good: its record keeps its    *)
(* shape, and the chips in RAM and the wallets in the ledger agree on      *)
(* everyone whose operations the ledger did not refuse.  There is one      *)
(* lemma per helper of Table - a good room stays good, unless the helper   *)
(* says otherwise in "skewed" - and a handler is a composition of helpers, *)
(* so that its lemma cites theirs and opens no definition of Table.  Then, *)
(* over the same invariant, that every handler leaves the turn with a      *)
(* player who can move; what a showdown pays: side pots hold what the      *)
(* stakes of their players were matched by, and until the showdown every   *)
(* handler keeps chips and stakes of each seat together; and last that     *)
(* nobody who is out of the hand is paid, whoever's connection is lost.    *)
(***************************************************************************)
EXTENDS MainPot, Sums

Good(r) == RoomOK(r) /\ Match(r) /\ Owned(r)

-----------------------------------------------------------------------------
(* The seats that the code's loops look for exist.                         *)

LEMMA MinInSet == ASSUME NEW C \in SUBSET Seat, C # {} PROVE Min(C) \in C
<1>1. C \in SUBSET Nat BY DEF Seat
<1> QED BY <1>1, MinIsLeast

LEMMA DistancesAreNat ==
    ASSUME NEW x \in Seat \cup {NoSeat}, NEW s \in Seat
    PROVE  StepsFrom(x, s) \in Nat /\ StepsAfter(x, s) \in Nat
BY NAssumption DEF StepsFrom, StepsAfter, Seat, NoSeat

(* The loops over seatOrder find a seat of the set they look for.          *)
LEMMA FirstIsFound ==
    ASSUME NEW x \in Seat \cup {NoSeat}, NEW C \in SUBSET Seat, C # {}
    PROVE  FirstFrom(x, C) \in C /\ FirstAfter(x, C) \in C
<1> DEFINE from  == [s \in C |-> StepsFrom(x, s)]
           after == [s \in C |-> StepsAfter(x, s)]
<1>1. from \in [C -> Nat] /\ after \in [C -> Nat] BY DistancesAreNat
<1> HIDE DEF from, after
<1>2. /\ \E s \in C : \A t \in C : from[s] <= from[t]
      /\ \E s \in C : \A t \in C : after[s] <= after[t]
  BY <1>1, NearestExists
<1> USE DEF from, after
<1> QED BY <1>2 DEF FirstFrom, FirstAfter

(* resolveHandWinners: among one player or more somebody wins.             *)
LEMMA SomebodyWins ==
    ASSUME NEW competitors \in SUBSET Seat, competitors # {},
           NEW eval \in [Seat -> 0..MaxHand], NEW mano
    PROVE  /\ ResolveHandWinners(competitors, eval, mano) # {}
           /\ ResolveHandWinners(competitors, eval, mano) \subseteq competitors
<1> DEFINE Value(p) == WithManoBonus(eval[p], p = mano)
           behind == [p \in competitors |-> 500 - Value(p)]
<1>1. \A p \in competitors : Value(p) \in 0..500 BY DEF WithManoBonus, MaxHand
<1>2. behind \in [competitors -> Nat] BY <1>1
<1>3. PICK p \in competitors : \A q \in competitors : behind[p] <= behind[q]
  <2> HIDE DEF behind
  <2> QED BY <1>2, NearestExists
<1>4. ASSUME NEW q \in competitors PROVE Value(p) >= Value(q)
  <2>1. 500 - Value(p) <= 500 - Value(q) BY <1>3
  <2>2. Value(p) \in Int /\ Value(q) \in Int BY <1>1
  <2> HIDE DEF Value, behind
  <2> QED BY <2>1, <2>2
<1> QED BY <1>4 DEF ResolveHandWinners

-----------------------------------------------------------------------------
(* Timers, turn and deal.                                                  *)

LEMMA ClearTurnTimerGood == ASSUME NEW r, Good(r) PROVE Good(ClearTurnTimer(r))
BY DEF ClearTurnTimer, Good, RoomOK, Match, Owned, Fields, Groups, Maps, Flags, IsSeatMap

LEMMA ClearAutoTimerGood == ASSUME NEW r, Good(r) PROVE Good(ClearAutoTimer(r))
BY DEF ClearAutoTimer, Good, RoomOK, Match, Owned, Fields, Groups, Maps, Flags, IsSeatMap

LEMMA GiveTurnGood == ASSUME NEW r, Good(r), NEW s \in Seat PROVE Good(GiveTurn(r, s))
<1> DEFINE q == GiveTurn(r, s)
<1>1. /\ DOMAIN q = Fields /\ \A f \in Fields \ {"turn", "turnTimer"} : q[f] = r[f]
      /\ q.turn = s /\ q.turnTimer = (s \in r.players \cap r.connected)
  BY DEF GiveTurn, Good, RoomOK, Fields
<1> HIDE DEF q
<1>2. q.turnTimer \in BOOLEAN BY <1>1
<1>3. RoomOK(q)
  <2>1. DOMAIN q = Fields /\ q.turn = s /\ \A f \in Fields \ {"turn", "turnTimer"} : q[f] = r[f]
    BY <1>1
  <2>2. \A b \in Flags : q[b] \in BOOLEAN
    <3>1. \A b \in Flags \ {"turnTimer"} : q[b] = r[b] BY <2>1 DEF Fields, Flags
    <3> QED BY <1>2, <3>1 DEF Good, RoomOK
  <2> QED BY <2>1, <2>2 DEF Good, RoomOK, Fields, Groups, Maps, IsSeatMap
<1>4. Match(q) BY <1>1 DEF Good, Match, Fields
<1>5. Owned(q) BY <1>1, Zenon DEF Owned, Fields
<1> QED BY <1>3, <1>4, <1>5 DEF Good, q

LEMMA TransferManoGood == ASSUME NEW r, Good(r) PROVE Good(TransferMano(r))
<1> DEFINE heirs == SeatOrder(r) \cap Active(r)
<1>1. heirs \in SUBSET Seat BY DEF SeatOrder, Good, RoomOK, Groups
<1>2. CASE r.mano \in SeatOrder(r) /\ heirs # {}
  <2>1. FirstAfter(r.mano, heirs) \in Seat BY <1>1, <1>2, FirstIsFound DEF Good, RoomOK
  <2>2. TransferMano(r) = [r EXCEPT !.mano = FirstAfter(r.mano, heirs)] BY <1>2 DEF TransferMano
  <2> HIDE DEF heirs
  <2> QED BY <2>1, <2>2 DEF Good, RoomOK, Match, Owned, Fields, Groups, Maps, Flags, IsSeatMap
<1>3. CASE ~(r.mano \in SeatOrder(r) /\ heirs # {}) BY <1>3 DEF TransferMano
<1> QED BY <1>2, <1>3

LEMMA NextDealerGood == ASSUME NEW r, Good(r) PROVE Good(NextDealer(r))
<1>1. SeatOrder(r) \in SUBSET Seat BY DEF SeatOrder, Good, RoomOK, Groups
<1>2. CASE r.dealer \in SeatOrder(r)
  <2>1. FirstAfter(r.dealer, SeatOrder(r)) \in Seat BY <1>1, <1>2, FirstIsFound DEF Good, RoomOK
  <2>2. NextDealer(r) = [r EXCEPT !.dealer = FirstAfter(r.dealer, SeatOrder(r))]
    BY <1>2 DEF NextDealer
  <2> QED BY <2>1, <2>2 DEF Good, RoomOK, Match, Owned, Fields, Groups, Maps, Flags, IsSeatMap
<1>3. CASE r.dealer \notin SeatOrder(r) BY <1>3 DEF NextDealer
<1> QED BY <1>2, <1>3

LEMMA AttemptManoRotationGood ==
    ASSUME NEW r, Good(r), NEW s \in Seat
    PROVE  Good(AttemptManoRotation(r, s))
<1>1. Good([r EXCEPT !.rotated = TRUE])
  BY DEF Good, RoomOK, Match, Owned, Fields, Groups, Maps, Flags, IsSeatMap
<1> QED BY <1>1, NextDealerGood DEF AttemptManoRotation

LEMMA FoldAndPassManoGood ==
    ASSUME NEW r, Good(r), NEW s \in Seat
    PROVE  Good(FoldAndPassMano(r, s))
<1>1. Good([r EXCEPT !.folded = @ \cup {s}, !.acted = @ \cup {s}])
  BY DEF Good, RoomOK, Match, Owned, Fields, Groups, Maps, Flags, IsSeatMap
<1> QED BY <1>1, AttemptManoRotationGood, TransferManoGood DEF FoldAndPassMano

LEMMA CollectPlayerCardsGood ==
    ASSUME NEW r, Good(r), NEW s \in Seat
    PROVE  Good(CollectPlayerCards(r, s))
BY DEF CollectPlayerCards, Good, RoomOK, Match, Owned, Fields, Groups, Maps, Flags, IsSeatMap, MaxHand

LEMMA MarkDisconnectedGood ==
    ASSUME NEW r, Good(r) PROVE Good(MarkDisconnectedAsImplicitAllIn(r))
BY DEF MarkDisconnectedAsImplicitAllIn, Good, RoomOK, Match, Owned, Fields, Groups, Maps, Flags, IsSeatMap

-----------------------------------------------------------------------------
(* Money.                                                                  *)

(* Chips and wallet move by the same amount, or the player is skewed.      *)
LEMMA PayPlayerGood ==
    ASSUME NEW r, Good(r), NEW s \in Seat, NEW amount, NEW ref
    PROVE  Good(PayPlayer(r, s, amount, ref))
<1>1. CASE amount = 0 BY <1>1 DEF PayPlayer
<1>2. CASE amount # 0
  <2> DEFINE q == LedgerCredit(r, s, amount, ref)
             p == PayPlayer(r, s, amount, ref)
  <2>1. /\ DOMAIN q = Fields /\ \A f \in Fields \ {"balance", "refs"} : q[f] = r[f]
        /\ q.balance = IF LedgerAccepts(r, s, amount, ref)
                       THEN [r.balance EXCEPT ![s] = @ + amount] ELSE r.balance
    BY DEF LedgerCredit, Good, RoomOK, Fields
  <2> HIDE DEF q
  <2>2. p = [q EXCEPT !.chips[s] = @ + amount,
                      !.skewed = IF LedgerAccepts(r, s, amount, ref) THEN @ ELSE @ \cup {s}]
    BY <1>2 DEF PayPlayer, q
  <2>3. /\ DOMAIN p = Fields /\ \A f \in Fields \ {"chips", "skewed"} : p[f] = q[f]
        /\ p.chips = [q.chips EXCEPT ![s] = @ + amount]
        /\ p.skewed = IF LedgerAccepts(r, s, amount, ref) THEN q.skewed ELSE q.skewed \cup {s}
    BY <2>1, <2>2 DEF Fields
  <2> HIDE DEF p
  <2>4. RoomOK(p)
    BY <2>1, <2>3 DEF Good, RoomOK, Fields, Groups, Maps, Flags, IsSeatMap
  <2>5. Match(p)
    BY <2>1, <2>3 DEF Good, RoomOK, Match, Owned, Fields, Groups, Maps, IsSeatMap
  <2>6. Owned(p) BY <2>1, <2>3 DEF Good, Owned, Fields
  <2> QED BY <2>4, <2>5, <2>6 DEF Good, p
<1> QED BY <1>1, <1>2

(* The same for everyone who is paid together with others.                 *)
LEMMA PayTogetherGood ==
    ASSUME NEW r, Good(r), NEW payout, DOMAIN payout \subseteq Seat, NEW ref
    PROVE  Good(PayTogether(r, payout, ref))
<1> DEFINE paid == {s \in DOMAIN payout : payout[s] # 0}
           accepted == {s \in paid : LedgerAccepts(r, s, payout[s], ref)}
           chips == [s \in Seat |-> IF s \in paid THEN r.chips[s] + payout[s] ELSE r.chips[s]]
           balance == [s \in Seat |-> IF s \in accepted THEN r.balance[s] + payout[s]
                                      ELSE r.balance[s]]
           p == PayTogether(r, payout, ref)
<1>1. /\ DOMAIN p = Fields
      /\ \A f \in Fields \ {"chips", "balance", "refs", "skewed"} : p[f] = r[f]
      /\ p.chips = chips /\ p.balance = balance /\ p.skewed = r.skewed \cup (paid \ accepted)
  BY DEF PayTogether, Good, RoomOK, Fields
<1>2. paid \subseteq Seat /\ accepted \subseteq paid OBVIOUS
<1> HIDE DEF p, paid, accepted
<1>3. \A s \in Seat \ (paid \ accepted) :
        \/ chips[s] = r.chips[s] /\ balance[s] = r.balance[s]
        \/ chips[s] = r.chips[s] + payout[s] /\ balance[s] = r.balance[s] + payout[s]
  BY <1>2
<1>4. RoomOK(p)
  <2>1. \A g \in Groups : p[g] \subseteq Seat BY <1>1, <1>2 DEF Good, RoomOK, Fields, Groups
  <2>2. \A m \in Maps : IsSeatMap(p[m]) BY <1>1 DEF Good, RoomOK, Fields, Maps, IsSeatMap
  <2> QED BY <1>1, <2>1, <2>2 DEF Good, RoomOK, Fields, Flags
<1> HIDE DEF chips, balance
<1>5. Match(p) BY <1>1, <1>3 DEF Good, RoomOK, Match, Fields, Groups
<1>6. Owned(p) BY <1>1 DEF Good, Owned, Fields
<1> QED BY <1>4, <1>5, <1>6 DEF Good, p

LEMMA PromoteWaitingPlayersGood ==
    ASSUME NEW r, Good(r) PROVE Good(PromoteWaitingPlayers(r))
BY DEF PromoteWaitingPlayers, Good, RoomOK, Match, Owned, Fields, Groups, Maps, Flags, IsSeatMap

LEMMA CleanupRoundGood == ASSUME NEW r, Good(r) PROVE Good(CleanupRound(r))
<1> DEFINE quiet == ClearAutoTimer(ClearTurnTimer(r))
           closed == [quiet EXCEPT !.forced = NoSeat, !.pot = 0, !.piquePot = 0, !.mano = NoSeat,
                                   !.phase = "LOBBY"]
<1>1. Good(quiet) BY ClearAutoTimerGood, ClearTurnTimerGood
<1>2. Good(closed)
  <2> HIDE DEF quiet
  <2> QED BY <1>1 DEF Good, RoomOK, Match, Owned, Fields, Groups, Maps, Flags, IsSeatMap, Phases
<1>3. Good(PromoteWaitingPlayers(closed)) /\ Good(NextDealer(PromoteWaitingPlayers(closed)))
  <2> HIDE DEF closed
  <2> QED BY <1>2, PromoteWaitingPlayersGood, NextDealerGood
<1> QED BY <1>3 DEF CleanupRound

LEMMA ScheduleCleanupGood == ASSUME NEW r, Good(r) PROVE Good(ScheduleCleanup(r))
BY DEF ScheduleCleanup, Good, RoomOK, Match, Owned, Fields, Groups, Maps, Flags, IsSeatMap

LEMMA AwardPotGood == ASSUME NEW r, Good(r), NEW w PROVE Good(AwardPot(r, w))
<1>1. r.players \subseteq Seat BY DEF Good, RoomOK, Groups
<1> QED BY <1>1, PayPlayerGood, CleanupRoundGood DEF AwardPot

LEMMA ReturnUncalledGood ==
    ASSUME NEW r, Good(r), NEW s \in Seat, NEW uncalled
    PROVE  Good(ReturnUncalled(r, s, uncalled))
<1> DEFINE paid == PayPlayer(r, s, uncalled, Ref("uncalled"))
<1>1. Good(paid) BY PayPlayerGood
<1> HIDE DEF paid
<1>2. Good([paid EXCEPT !.roundBet[s] = @ - uncalled, !.mainBet[s] = @ - uncalled,
                        !.pot = IF @ >= uncalled THEN @ - uncalled ELSE 0])
  BY <1>1 DEF Good, RoomOK, Match, Owned, Fields, Groups, Maps, Flags, IsSeatMap
<1> USE DEF paid
<1> QED BY <1>2 DEF ReturnUncalled

LEMMA RefundUncalledBetGood == ASSUME NEW r, Good(r) PROVE Good(RefundUncalledBet(r))
<1> DEFINE pool == {s \in r.players : s \in r.connected \/ r.roundBet[s] > 0}
           Second(s) == Max({r.roundBet[t] : t \in pool \ {s}} \cup {0})
           above == {s \in pool \ r.folded : r.roundBet[s] > Second(s)}
           leader == CHOOSE s \in above : TRUE
           uncalled == r.roundBet[leader] - Second(leader)
<1>1. above \subseteq Seat BY DEF Good, RoomOK, Groups
<1>2. RefundUncalledBet(r) = IF above # {} THEN ReturnUncalled(r, leader, uncalled) ELSE r
  BY DEF RefundUncalledBet
<1> HIDE DEF above, uncalled
<1>3. above # {} => leader \in Seat BY <1>1
<1> HIDE DEF leader
<1> QED BY <1>2, <1>3, ReturnUncalledGood

(* The best hand of the candidates exists, and is a seat.                  *)
LEMMA PayPiqueToBestGood ==
    ASSUME NEW r, Good(r), NEW candidates \in SUBSET Seat, candidates # {}
    PROVE  Good(PayPiqueToBest(r, candidates))
<1> DEFINE eval == [s \in Seat |-> Hand(r, s)]
           mano == IF r.mano # NoSeat THEN r.mano ELSE r.dealer
           best == ResolveHandWinners(candidates, eval, mano)
           w == CHOOSE s \in best : \A t \in best : s <= t
<1>1. eval \in [Seat -> 0..MaxHand] BY DEF Good, RoomOK, Hand, NINGUNA, MaxHand
<1>2. best # {} /\ best \subseteq Seat
  <2> HIDE DEF eval, mano
  <2> QED BY <1>1, SomebodyWins
<1>3. w \in Seat
  <2> HIDE DEF best
  <2>1. \E s \in best : \A t \in best : s <= t BY <1>2, LeastExists DEF Seat
  <2> QED BY <2>1, <1>2
<1>4. PayPiqueToBest(r, candidates) =
        IF r.piquePot > 0
        THEN PayPlayer(r, w, r.piquePot - RakeOf(r.piquePot), PotRef(r.piquePot)) ELSE r
  BY DEF PayPiqueToBest
<1> HIDE DEF w
<1> QED BY <1>3, <1>4, PayPlayerGood

(* The refund of a cancelled hand: what the ledger is asked to credit is   *)
(* what RAM adds, unless one of the references was used before.            *)
LEMMA RefundAllActiveBetsGood ==
    ASSUME NEW r, Good(r), ~r.turnTimer
    PROVE  Good(RefundAllActiveBets(r))
<1> DEFINE owed    == {s \in r.players : r.mainBet[s] > 0}
           sharers == IF r.piquePot > 0 THEN r.players \ r.folded ELSE {}
           share   == r.piquePot \div Cardinality(sharers)
           PiqueShare(s) == share + IF \A t \in sharers : s <= t
                                    THEN r.piquePot - share * Cardinality(sharers) ELSE 0
           PiqueGives == {s \in sharers : PiqueShare(s) > 0}
           Amount(s) == (IF s \in owed THEN r.mainBet[s] ELSE 0)
                          + (IF s \in PiqueGives THEN PiqueShare(s) ELSE 0)
           used == {<<s, Ref("cancelled")>> : s \in owed}
                     \cup {<<s, Ref("cancelled-pique")>> : s \in PiqueGives}
           Credited(s) ==
             (IF <<s, Ref("cancelled")>> \in used \ r.refs THEN r.mainBet[s] ELSE 0)
               + (IF <<s, Ref("cancelled-pique")>> \in used \ r.refs THEN PiqueShare(s) ELSE 0)
           late == {s \in Seat : \E u \in used \cap r.refs : u[1] = s}
           amounts == [s \in Seat |-> Amount(s)]
           credits == [s \in Seat |-> Credited(s)]
           refs == r.refs \cup used
           after == [r EXCEPT !.chips   = [s \in Seat |-> r.chips[s] + amounts[s]],
                              !.balance = [s \in Seat |-> r.balance[s] + credits[s]],
                              !.refs    = refs,
                              !.skewed  = @ \cup late,
                              !.pot = 0, !.piquePot = 0, !.turn = NoSeat, !.mano = NoSeat,
                              !.acted = @ \ r.players, !.folded = @ \ r.players,
                              !.mainBet  = [s \in Seat |-> IF s \in r.players THEN 0 ELSE @[s]],
                              !.roundBet = [s \in Seat |-> IF s \in r.players THEN 0 ELSE @[s]],
                              !.phase = "LOBBY"]
<1>1. \A s \in Seat \ late : amounts[s] = credits[s]
  <2> HIDE DEF PiqueShare, owed, PiqueGives
  <2>1. SUFFICES ASSUME NEW s \in Seat, s \notin late PROVE Amount(s) = Credited(s)
    OBVIOUS
  <2>2. Ref("cancelled") # Ref("cancelled-pique") BY DEF Ref
  <2>3. <<s, Ref("cancelled")>> \in used <=> s \in owed BY <2>2
  <2>4. <<s, Ref("cancelled-pique")>> \in used <=> s \in PiqueGives BY <2>2
  <2>5. <<s, Ref("cancelled")>> \notin used \cap r.refs
        /\ <<s, Ref("cancelled-pique")>> \notin used \cap r.refs
    BY <2>1
  <2> QED BY <2>3, <2>4, <2>5
<1>2. late \subseteq Seat OBVIOUS
<1>3. RefundAllActiveBets(r) = PromoteWaitingPlayers(after)
  <2>1. /\ [s \in Seat |-> r.chips[s] + Amount(s)] = [s \in Seat |-> r.chips[s] + amounts[s]]
        /\ [s \in Seat |-> r.balance[s] + Credited(s)] = [s \in Seat |-> r.balance[s] + credits[s]]
    <3> HIDE DEF Amount, Credited
    <3> QED OBVIOUS
  <2> QED BY <2>1, Zenon DEF RefundAllActiveBets
<1> HIDE DEF late, amounts, credits, refs
<1>4. /\ DOMAIN after = Fields
      /\ \A f \in Fields \ {"chips", "balance", "refs", "skewed", "pot", "piquePot", "turn", "mano",
                            "acted", "folded", "mainBet", "roundBet", "phase"} : after[f] = r[f]
      /\ after.phase = "LOBBY" /\ after.turn = NoSeat /\ after.mano = NoSeat
      /\ after.acted = r.acted \ r.players /\ after.folded = r.folded \ r.players
      /\ after.skewed = r.skewed \cup late
      /\ after.chips = [s \in Seat |-> r.chips[s] + amounts[s]]
      /\ after.balance = [s \in Seat |-> r.balance[s] + credits[s]]
      /\ DOMAIN after.mainBet = Seat /\ DOMAIN after.roundBet = Seat
  BY DEF Good, RoomOK, Fields
<1> HIDE DEF after
<1>5. \A g \in Groups : after[g] \subseteq Seat
  BY <1>2, <1>4 DEF Good, RoomOK, Groups, Fields
<1>6. RoomOK(after)
  BY <1>4, <1>5 DEF Good, RoomOK, Maps, Flags, Fields, IsSeatMap, Phases
<1>7. Match(after) BY <1>1, <1>4 DEF Good, RoomOK, Match, Owned, Groups, Fields
<1>8. Owned(after) BY <1>4 DEF Owned, Fields
<1>9. Good(after) BY <1>6, <1>7, <1>8 DEF Good
<1> QED BY <1>3, <1>9, PromoteWaitingPlayersGood

LEMMA EndHandEarlyGood == ASSUME NEW r, Good(r) PROVE Good(EndHandEarlyAfterFoldOut(r))
<1> DEFINE remaining == Active(r)
           solo  == CHOOSE s \in remaining : TRUE
           quiet == ClearTurnTimer(r)
           paid  == IF Cardinality(remaining) = 1 /\ r.pot > 0
                    THEN PayPlayer(quiet, solo, r.pot - RakeOf(r.pot), PotRef(r.pot))
                    ELSE quiet
<1>1. remaining \in SUBSET Seat BY DEF Active, Good, RoomOK, Groups
<1>2. Good(quiet) /\ ~quiet.turnTimer
  BY ClearTurnTimerGood DEF ClearTurnTimer, Good, RoomOK, Fields
<1>3. CASE remaining = {} BY <1>2, <1>3, RefundAllActiveBetsGood DEF EndHandEarlyAfterFoldOut
<1>4. CASE remaining # {}
  <2>1. solo \in Seat BY <1>1, <1>4
  <2> HIDE DEF solo, quiet, remaining
  <2>2. Good(paid) BY <2>1, <1>2, PayPlayerGood
  <2>3. Good(ScheduleCleanup(PayPiqueToBest(paid, remaining)))
    <3> HIDE DEF paid
    <3> QED BY <2>2, <1>1, <1>4, PayPiqueToBestGood, ScheduleCleanupGood
  <2> QED BY <2>3, <1>4 DEF EndHandEarlyAfterFoldOut, remaining, solo, quiet
<1> QED BY <1>3, <1>4

LEMMA ResetRoomStateGood == ASSUME NEW r, Good(r) PROVE Good(ResetRoomState(r))
<1> DEFINE q == ResetRoomState(r)
           owed     == IF r.phase = "LOBBY" THEN {} ELSE {s \in r.players : r.mainBet[s] > 0}
           credited == {s \in owed : <<s, Ref("all-disconnected")>> \notin r.refs}
           refunded == [s \in Seat |-> IF s \in credited THEN r.balance[s] + r.mainBet[s]
                                       ELSE r.balance[s]]
<1>1. credited \subseteq Seat BY DEF Good, RoomOK, Groups
<1>2. /\ DOMAIN q = Fields
      /\ q.players = r.players /\ q.chips = r.chips /\ q.dealer = r.dealer
      /\ q.connected = r.connected /\ q.waiting = r.waiting /\ q.rotated = r.rotated
      /\ q.forced = r.forced /\ q.pending = r.pending /\ q.revealTimer = r.revealTimer
      /\ q.pasoBy = r.pasoBy /\ q.pasoPhase = r.pasoPhase
      /\ q.llevoBy = r.llevoBy /\ q.returnTo = r.returnTo /\ q.cleanups = r.cleanups
      /\ q.turnTimer = FALSE /\ q.autoTimer = FALSE
      /\ q.phase = "LOBBY" /\ q.mano = NoSeat /\ q.turn = NoSeat
  BY ZenonT(60) DEF ResetRoomState, Good, RoomOK, Fields
<1>3. /\ q.folded = r.folded \ r.players /\ q.acted = r.acted \ r.players
      /\ q.allIn = r.allIn \ r.players /\ q.passed = r.passed \ r.players
      /\ q.declined = r.declined \ r.players
      /\ q.yes = r.yes \ r.players /\ q.no = r.no \ r.players
      /\ q.skewed = r.skewed \cup credited /\ q.balance = refunded
      /\ DOMAIN q.roundBet = Seat /\ DOMAIN q.mainBet = Seat
      /\ q.cards = [s \in Seat |-> IF s \in r.players THEN 0 ELSE r.cards[s]]
  BY DEF ResetRoomState, Good, RoomOK, Fields
<1> HIDE DEF q, credited
<1>4. \A g \in Groups : q[g] \subseteq Seat
  BY <1>1, <1>2, <1>3 DEF Good, RoomOK, Groups
<1>5. q.cards \in [Seat -> 0..MaxHand]
  BY <1>3 DEF Good, RoomOK, MaxHand
<1>6. /\ \A m \in Maps : IsSeatMap(q[m])
      /\ \A b \in Flags : q[b] \in BOOLEAN
  BY ZenonT(60), <1>2, <1>3 DEF Good, RoomOK, Maps, Flags, IsSeatMap
<1>7. RoomOK(q)
  BY <1>2, <1>4, <1>5, <1>6 DEF Good, RoomOK, Phases
<1>8. Match(q) BY <1>2, <1>3 DEF Good, RoomOK, Match, Owned, Groups
<1>9. Owned(q) BY <1>2 DEF Owned
<1> QED BY <1>7, <1>8, <1>9 DEF Good, q

(* The room without the player has no owner of the timer until the turn is *)
(* taken from him, so the whole record is looked at at once.               *)
LEMMA RemovePlayerGood ==
    ASSUME NEW r, Good(r), NEW s \in Seat
    PROVE  Good(RemovePlayer(r, s))
<1> DEFINE gone == [r EXCEPT !.players = @ \ {s}]
           order == SeatOrder(gone)
           heir == IF gone.players = {} \/ r.dealer # s THEN r.dealer
                   ELSE IF order # {} THEN Min(order) ELSE Min(gone.players)
           nextMano == IF gone.mano = s /\ gone.players # {} /\ r.phase # "LOBBY"
                       THEN heir ELSE gone.mano
           dealt == [gone EXCEPT !.dealer = heir, !.mano = nextMano]
           idle == IF r.turn = s THEN ClearTurnTimer([dealt EXCEPT !.turn = NoSeat]) ELSE dealt
<1>1. gone.players \in SUBSET Seat /\ order \in SUBSET Seat
  BY DEF Good, RoomOK, Groups, SeatOrder, Fields
<1>2. RemovePlayer(r, s) = IF gone.players = {} THEN ResetRoomState(idle) ELSE idle
  BY DEF RemovePlayer
<1>3. heir \in Seat
  <2> HIDE DEF gone, order
  <2> QED BY <1>1, MinInSet DEF Good, RoomOK
<1>4. nextMano \in Seat \cup {NoSeat}
  <2>1. gone.mano \in Seat \cup {NoSeat} BY DEF Good, RoomOK, Fields
  <2> HIDE DEF gone, heir
  <2> QED BY <2>1, <1>3
<1> HIDE DEF heir, nextMano
<1>5. Good(idle)
  <2>1. CASE r.turn = s
    <3>1. idle = [r EXCEPT !.players = @ \ {s}, !.dealer = heir, !.mano = nextMano,
                           !.turn = NoSeat, !.turnTimer = FALSE]
      BY <2>1 DEF ClearTurnTimer, Good, RoomOK, Fields
    <3> HIDE DEF idle
    <3> QED BY <3>1, <1>3, <1>4
            DEF Good, RoomOK, Match, Owned, Fields, Groups, Maps, Flags, IsSeatMap
  <2>2. CASE r.turn # s
    <3>1. idle = [r EXCEPT !.players = @ \ {s}, !.dealer = heir, !.mano = nextMano]
      BY <2>2 DEF Good, RoomOK, Fields
    <3> HIDE DEF idle
    <3> QED BY <2>2, <3>1, <1>3, <1>4
            DEF Good, RoomOK, Match, Owned, Fields, Groups, Maps, Flags, IsSeatMap
  <2> QED BY <2>1, <2>2
<1> HIDE DEF idle, gone
<1> QED BY <1>2, <1>5, ResetRoomStateGood

-----------------------------------------------------------------------------
(* The handlers: advanceTurnBetting.                                       *)

(* The groups of seats the handlers look into.                             *)
LEMMA GroupsAreSeats ==
    ASSUME NEW r, Good(r)
    PROVE  /\ r.players \subseteq Seat /\ Active(r) \subseteq Seat
           /\ SeatOrder(r) \subseteq Seat /\ r.mano \in Seat \cup {NoSeat}
           /\ r.turn \in Seat \cup {NoSeat}
BY DEF Good, RoomOK, Groups, Active, SeatOrder

(* advanceTurnBetting hands over a good room, whatever it hands it to.     *)
LEMMA NobodyToPlayGood ==
    ASSUME NEW r, Good(r), NEW phase
    PROVE  Good(NobodyToPlay(r, phase).room)
BY EndHandEarlyGood DEF NobodyToPlay, Still, Enter

LEMMA AdvanceTurnBettingGood ==
    ASSUME NEW r, Good(r), NEW from \in Seat \cup {NoSeat}, NEW phase
    PROVE  Good(AdvanceTurnBetting(r, from, phase).room)
<1> DEFINE refunded == RefundUncalledBet(r)
           asked == IF from # NoSeat THEN from ELSE r.turn
           start == IF asked \notin SeatOrder(r) /\ from # NoSeat THEN r.mano ELSE asked
           next  == {s \in SeatOrder(r) : InTurn(r, s)}
           chosen == IF from # NoSeat THEN FirstFrom(start, next) ELSE FirstAfter(start, next)
<1>1. Good(refunded) BY RefundUncalledBetGood
<1>2. next \in SUBSET Seat /\ start \in Seat \cup {NoSeat} BY GroupsAreSeats
<1>3. AdvanceTurnBetting(r, from, phase).room =
        IF Cardinality(Active(r)) <= 1 THEN NobodyToPlay(refunded, phase).room
        ELSE IF start \notin SeatOrder(r) THEN r
        ELSE IF next # {} THEN GiveTurn(r, chosen) ELSE ClearTurnTimer(refunded)
  BY DEF AdvanceTurnBetting, Still, Enter
<1> HIDE DEF refunded, next, start
<1>4. next # {} => chosen \in Seat BY <1>2, FirstIsFound
<1> HIDE DEF chosen
<1> QED BY <1>1, <1>3, <1>4, NobodyToPlayGood, GiveTurnGood, ClearTurnTimerGood

-----------------------------------------------------------------------------
(* The showdown.                                                           *)

(* calculateSidePots gives a pot to competitors only.                      *)
LEMMA SidePotsToCompetitors ==
    ASSUME NEW players, NEW stake, NEW pot, NEW competitors,
           NEW p \in SidePots(players, stake, pot, competitors)
    PROVE  p.eligible \subseteq competitors
BY DEF SidePots, Layer, EligibleFor

(* Whoever is paid at the showdown competes in it: he is a seat.           *)
LEMMA SettleShowdownGood ==
    ASSUME NEW r, Good(r), NEW competitors \in SUBSET Seat
    PROVE  Good(SettleShowdown(r, competitors))
<1> DEFINE shown == [r EXCEPT !.turnTimer = FALSE, !.autoTimer = TRUE, !.pending = TRUE]
           pots == {p \in SidePots(r.players, r.mainBet, r.pot, competitors) : p.eligible # {}}
           payouts == Payouts(r, pots)
<1>1. Good(shown) BY DEF Good, RoomOK, Match, Owned, Fields, Groups, Maps, Flags, IsSeatMap
<1>2. DOMAIN payouts \subseteq Seat
  <2>1. DOMAIN payouts = UNION {PotWinners(r, p) : p \in pots} BY DEF Payouts
  <2>2. \A p \in pots : PotWinners(r, p) \subseteq p.eligible
    BY DEF PotWinners, ResolveHandWinners
  <2>3. \A p \in pots : p.eligible \subseteq competitors BY SidePotsToCompetitors
  <2> QED BY <2>1, <2>2, <2>3
<1>3. SettleShowdown(r, competitors) = PayTogether(shown, payouts, Ref("showdown"))
  BY DEF SettleShowdown
<1> HIDE DEF shown, payouts
<1> QED BY <1>1, <1>2, <1>3, PayTogetherGood

LEMMA ShowdownGood == ASSUME NEW r, Good(r) PROVE Good(Showdown(r))
<1> DEFINE open == [r EXCEPT !.phase = "SHOWDOWN"]
           competitors == (r.players \cap (r.connected \cup r.allIn)) \ r.folded
           w == CHOOSE s \in competitors : TRUE
           closed == [r EXCEPT !.pot = 0, !.piquePot = 0, !.phase = "LOBBY"]
           shown == [open EXCEPT !.turn = w, !.turnTimer = FALSE, !.autoTimer = TRUE]
           asked == [open EXCEPT !.phase = "SHOWDOWN_WAIT", !.turn = w,
                                 !.turnTimer = FALSE, !.autoTimer = TRUE]
           revealed == [open EXCEPT !.autoTimer = TRUE]
<1>1. competitors \in SUBSET Seat BY GroupsAreSeats
<1>2. Good(open) BY DEF Good, RoomOK, Match, Owned, Fields, Groups, Maps, Flags, IsSeatMap, Phases
<1>3. Good(closed) BY DEF Good, RoomOK, Match, Owned, Fields, Groups, Maps, Flags, IsSeatMap, Phases
<1>4. Showdown(r) =
        IF competitors = {} THEN PromoteWaitingPlayers(closed)
        ELSE IF Cardinality(competitors) > 1 THEN SettleShowdown(open, competitors)
        ELSE IF r.forced = w THEN shown
        ELSE IF r.pot > 0 THEN asked
        ELSE IF r.cards[w] # 0 THEN revealed
        ELSE EndHandEarlyAfterFoldOut(open)
  BY DEF Showdown
<1> HIDE DEF open
<1>5. Good(revealed)
  BY <1>2 DEF Good, RoomOK, Match, Owned, Fields, Groups, Maps, Flags, IsSeatMap
<1>6. competitors # {} => w \in Seat BY <1>1
<1> HIDE DEF w
<1>7. competitors # {} => Good(shown) /\ Good(asked)
  BY <1>2, <1>6 DEF Good, RoomOK, Match, Owned, Fields, Groups, Maps, Flags, IsSeatMap, Phases
<1> HIDE DEF competitors, closed, shown, asked, revealed
<1> QED BY <1>1, <1>2, <1>3, <1>4, <1>5, <1>7,
           SettleShowdownGood, PromoteWaitingPlayersGood, EndHandEarlyGood

-----------------------------------------------------------------------------
(* The phases.                                                             *)

LEMMA OpenRoundGood ==
    ASSUME NEW r, Good(r), NEW phase \in BettingPhases
    PROVE  Good(OpenRound(r, phase))
BY DEF OpenRound, Good, RoomOK, Match, Owned, Fields, Groups, Maps, Flags, IsSeatMap, Phases

LEMMA ForgetQuestionGood ==
    ASSUME NEW r, Good(r)
    PROVE  Good([r EXCEPT !.pasoBy = NoSeat, !.pasoPhase = "LOBBY"])
BY DEF Good, RoomOK, Match, Owned, Fields, Groups, Maps, Flags, IsSeatMap

LEMMA EnterGuerraJuegoGood == ASSUME NEW r, Good(r) PROVE Good(EnterGuerraJuego(r).room)
<1> DEFINE opened == OpenRound(ClearTurnTimer(r), "GUERRA_JUEGO")
           ready == [opened EXCEPT !.declined = @ \ r.players]
<1>1. Good(opened)
  <2>1. "GUERRA_JUEGO" \in BettingPhases BY DEF BettingPhases
  <2> QED BY <2>1, ClearTurnTimerGood, OpenRoundGood
<1>2. EnterGuerraJuego(r) = AdvanceTurnBetting(ready, r.mano, "GUERRA_JUEGO")
  BY DEF EnterGuerraJuego
<1> HIDE DEF opened
<1>3. Good(ready) BY <1>1 DEF Good, RoomOK, Match, Owned, Fields, Groups, Maps, Flags, IsSeatMap
<1> HIDE DEF ready
<1> QED BY <1>2, <1>3, GroupsAreSeats, AdvanceTurnBettingGood

LEMMA FoldWithoutJuegoGood ==
    ASSUME NEW r, Good(r), NEW without \in SUBSET Seat
    PROVE  Good(FoldWithoutJuego(r, without))
<1>1. Good([r EXCEPT !.folded = @ \cup without])
  BY DEF Good, RoomOK, Match, Owned, Fields, Groups, Maps, Flags, IsSeatMap
<1> QED BY <1>1, TransferManoGood DEF FoldWithoutJuego

LEMMA CloseDeclarationsGood ==
    ASSUME NEW r, Good(r), NEW declarers \in SUBSET Seat
    PROVE  Good(CloseDeclarations(r, declarers).room)
<1> DEFINE quiet == [r EXCEPT !.turnTimer = FALSE, !.forced = NoSeat]
           with == declarers \cap r.yes
           winner == CHOOSE s \in with : TRUE
           folded == FoldWithoutJuego(quiet, declarers \cap r.no)
           forcing == [folded EXCEPT !.forced = winner]
<1>1. Good(quiet) BY DEF Good, RoomOK, Match, Owned, Fields, Groups, Maps, Flags, IsSeatMap
<1>2. CloseDeclarations(r, declarers).room =
        IF with = {} THEN quiet ELSE IF Cardinality(with) = 1 THEN forcing ELSE folded
  BY DEF CloseDeclarations, Enter
<1>3. with # {} => winner \in Seat OBVIOUS
<1> HIDE DEF quiet, winner
<1>4. Good(folded)
  <2>1. declarers \cap r.no \in SUBSET Seat OBVIOUS
  <2> QED BY <1>1, <2>1, FoldWithoutJuegoGood
<1> HIDE DEF folded
<1>5. with # {} => Good(forcing)
  BY <1>3, <1>4 DEF Good, RoomOK, Match, Owned, Fields, Groups, Maps, Flags, IsSeatMap
<1> HIDE DEF with, forcing
<1> QED BY <1>1, <1>2, <1>4, <1>5

LEMMA AdvanceTurnDeclararGood ==
    ASSUME NEW r, Good(r), NEW from \in Seat \cup {NoSeat}
    PROVE  Good(AdvanceTurnDeclarar(r, from).room)
<1> DEFINE declarers == Active(r) \ r.waiting
           asked == IF from # NoSeat THEN from ELSE r.turn
           start == IF asked \in SeatOrder(r) THEN asked ELSE r.mano
           next  == declarers \ r.acted
           chosen == IF from # NoSeat THEN FirstFrom(start, next) ELSE FirstAfter(start, next)
<1>1. declarers \in SUBSET Seat /\ next \in SUBSET Seat /\ start \in Seat \cup {NoSeat}
  BY GroupsAreSeats
<1>2. AdvanceTurnDeclarar(r, from).room =
        IF Cardinality(declarers) <= 1 \/ start \notin SeatOrder(r) THEN ClearTurnTimer(r)
        ELSE IF next # {} THEN GiveTurn(r, chosen) ELSE CloseDeclarations(r, declarers).room
  BY DEF AdvanceTurnDeclarar, Still, Enter
<1> HIDE DEF declarers, next, start
<1>3. next # {} => chosen \in Seat BY <1>1, FirstIsFound
<1> HIDE DEF chosen
<1> QED BY <1>1, <1>2, <1>3, ClearTurnTimerGood, GiveTurnGood, CloseDeclarationsGood

LEMMA EnterDeclararJuegoGood == ASSUME NEW r, Good(r) PROVE Good(EnterDeclararJuego(r).room)
<1> DEFINE opened == [r EXCEPT !.phase = "DECLARAR_JUEGO", !.acted = @ \ r.players,
                               !.yes = @ \ r.players, !.no = @ \ r.players]
<1>1. Good(opened)
  BY DEF Good, RoomOK, Match, Owned, Fields, Groups, Maps, Flags, IsSeatMap, Phases
<1>2. EnterDeclararJuego(r).room =
        IF Cardinality(Active(r) \ r.waiting) <= 1 \/ r.maxBet > 0
        THEN ClearTurnTimer(r) ELSE AdvanceTurnDeclarar(opened, r.mano).room
  BY DEF EnterDeclararJuego, Enter
<1> HIDE DEF opened
<1> QED BY <1>1, <1>2, GroupsAreSeats, ClearTurnTimerGood, AdvanceTurnDeclararGood

LEMMA EnterCanticosGood == ASSUME NEW r, Good(r) PROVE Good(EnterCanticos(r).room)
<1> DEFINE opened == [OpenRound(r, "CANTICOS") EXCEPT !.pasoBy = NoSeat, !.pasoPhase = "LOBBY"]
<1>1. Good(opened)
  <2>1. "CANTICOS" \in BettingPhases BY DEF BettingPhases
  <2> QED BY <2>1, OpenRoundGood, ForgetQuestionGood
<1>2. EnterCanticos(r).room =
        IF r.maxBet = 0 THEN ClearTurnTimer(r)
        ELSE AdvanceTurnBetting(opened, r.mano, "CANTICOS").room
  BY DEF EnterCanticos, Enter
<1> HIDE DEF opened
<1> QED BY <1>1, <1>2, GroupsAreSeats, ClearTurnTimerGood, AdvanceTurnBettingGood

LEMMA EnterGuerraGood == ASSUME NEW r, Good(r) PROVE Good(EnterGuerra(r).room)
<1> DEFINE opened == [OpenRound(ClearTurnTimer(r), "GUERRA")
                        EXCEPT !.pasoBy = NoSeat, !.pasoPhase = "LOBBY"]
<1>1. Good(opened)
  <2>1. "GUERRA" \in BettingPhases BY DEF BettingPhases
  <2> QED BY <2>1, ClearTurnTimerGood, OpenRoundGood, ForgetQuestionGood
<1>2. EnterGuerra(r) = AdvanceTurnBetting(opened, r.mano, "GUERRA") BY DEF EnterGuerra
<1> HIDE DEF opened
<1> QED BY <1>1, <1>2, GroupsAreSeats, AdvanceTurnBettingGood

(* A handler that hands over a good room leaves one behind, however many   *)
(* phases the hand runs through before it waits for somebody.              *)
LEMMA FinishGood ==
    ASSUME NEW step, Good(step.room)
    PROVE  Good(Finish(step))
<1> DEFINE acted == AfterAction(step)
           guerra == AfterGuerra(acted)
           canticos == AfterCanticos(guerra)
           declared == AfterDeclarar(canticos)
<1>1. Good(acted.room) BY AdvanceTurnBettingGood DEF AfterAction
<1> HIDE DEF acted
<1>2. Good(guerra.room) BY <1>1, EnterCanticosGood DEF AfterGuerra
<1> HIDE DEF guerra
<1>3. Good(canticos.room) BY <1>2, EnterDeclararJuegoGood DEF AfterCanticos
<1> HIDE DEF canticos
<1>4. Good(declared.room) BY <1>3, EnterGuerraJuegoGood DEF AfterDeclarar
<1> HIDE DEF declared
<1>5. Good(AfterBetting(declared)) BY <1>4, ShowdownGood DEF AfterBetting
<1> QED BY <1>5 DEF Finish, declared, canticos, guerra, acted

(* The commonest case.                                                     *)
LEMMA AdvanceGood ==
    ASSUME NEW r, Good(r), NEW phase
    PROVE  Good(Finish(Advance(r, phase)))
<1>1. Good(Advance(r, phase).room) BY DEF Advance
<1> QED BY <1>1, FinishGood

-----------------------------------------------------------------------------
(* The handlers.                                                           *)

LEMMA PassGood ==
    ASSUME NEW r, Good(r), NEW s \in Seat, r.phase \in BettingPhases
    PROVE  Good(Pass(r, s).room)
<1> DEFINE quiet == ClearTurnTimer(r)
           acted == [quiet EXCEPT !.acted = @ \cup {s}]
           declined == [acted EXCEPT !.declined = @ \cup {s}]
           asked == [quiet EXCEPT !.pasoBy = s, !.pasoPhase = r.phase]
           out == FoldAndPassMano(CollectPlayerCards(quiet, s), s)
<1>1. Good(quiet) BY ClearTurnTimerGood
<1>2. Pass(r, s).room \in {acted, declined, asked, out} BY DEF Pass, Advance, Still
<1> HIDE DEF quiet
<1>3. Good(acted) BY <1>1 DEF Good, RoomOK, Match, Owned, Fields, Groups, Maps, Flags, IsSeatMap
<1>4. Good(asked) BY <1>1 DEF Good, RoomOK, Match, Owned, Fields, Groups, Maps, Flags, IsSeatMap
<1>5. Good(out) BY <1>1, CollectPlayerCardsGood, FoldAndPassManoGood
<1> HIDE DEF acted, asked, out
<1>6. Good(declined) BY <1>3 DEF Good, RoomOK, Match, Owned, Fields, Groups, Maps, Flags, IsSeatMap
<1> HIDE DEF declined
<1> QED BY <1>2, <1>3, <1>4, <1>5, <1>6

(* The two copies lose the same amount.                                    *)
LEMMA TakeBetGood ==
    ASSUME NEW r, Good(r), NEW b, b.seat \in Seat, b.kind \in {"voy", "igualar", "resto"}
    PROVE  Good(TakeBet(r, b))
<1> DEFINE s == b.seat
           taken == [r EXCEPT !.chips[s] = @ - b.amount, !.balance[s] = @ - b.amount,
                              !.roundBet[s] = @ + b.amount, !.mainBet[s] = @ + b.amount,
                              !.pot = @ + b.amount, !.acted = @ \cup {s}]
           raised == [taken EXCEPT !.maxBet = taken.roundBet[s]]
           called == [taken EXCEPT !.allIn = IF b.full THEN @ ELSE @ \cup {s}]
           allIn == [taken EXCEPT !.allIn = @ \cup {s}, !.maxBet = Max({@, taken.roundBet[s]})]
<1>1. Good(taken)
  <2>1. /\ DOMAIN taken = Fields
        /\ \A f \in Fields \ {"chips", "balance", "roundBet", "mainBet", "pot", "acted"} :
             taken[f] = r[f]
        /\ taken.chips = [r.chips EXCEPT ![s] = @ - b.amount]
        /\ taken.balance = [r.balance EXCEPT ![s] = @ - b.amount]
        /\ taken.acted = r.acted \cup {s}
        /\ DOMAIN taken.roundBet = Seat /\ DOMAIN taken.mainBet = Seat
    BY DEF Good, RoomOK, Fields, Maps, IsSeatMap
  <2> HIDE DEF taken
  <2>2. RoomOK(taken)
    BY <2>1 DEF Good, RoomOK, Fields, Groups, Maps, Flags, IsSeatMap
  <2>3. Match(taken)
    BY <2>1 DEF Good, RoomOK, Match, Owned, Fields, Groups, Maps, IsSeatMap
  <2>4. Owned(taken) BY <2>1 DEF Good, Owned, Fields
  <2> QED BY <2>2, <2>3, <2>4 DEF Good
<1>2. TakeBet(r, b) \in {MarkDisconnectedAsImplicitAllIn(raised), called,
                         MarkDisconnectedAsImplicitAllIn(allIn)}
  BY DEF TakeBet
<1> HIDE DEF taken
<1>3. Good(raised) /\ Good(called) /\ Good(allIn)
  BY <1>1 DEF Good, RoomOK, Match, Owned, Fields, Groups, Maps, Flags, IsSeatMap
<1> HIDE DEF raised, called, allIn
<1> QED BY <1>2, <1>3, MarkDisconnectedGood

LEMMA CloseRevealGood ==
    ASSUME NEW r, Good(r), r.llevoBy # NoSeat
    PROVE  Good(CloseReveal(r).room)
<1> DEFINE s == r.llevoBy
           quiet == ClearTurnTimer(r)
           closed == [quiet EXCEPT !.llevoBy = NoSeat, !.returnTo = "LOBBY", !.phase = r.returnTo]
           paid == PayPlayer(CollectPlayerCards(closed, s), s, r.piquePot - RakeOf(r.piquePot),
                             PotRef(r.piquePot))
           out == [paid EXCEPT !.piquePot = 0, !.folded = @ \cup {s}]
<1>1. s \in Seat /\ r.returnTo \in BettingPhases BY DEF Good, RoomOK
<1>2. Good(quiet) BY ClearTurnTimerGood
<1>3. CloseReveal(r).room \in {closed, TransferMano(out), out} BY DEF CloseReveal, Advance
<1> HIDE DEF quiet
<1>4. Good(closed)
  BY <1>1, <1>2 DEF Good, RoomOK, Match, Owned, Fields, Groups, Maps, Flags, IsSeatMap, Phases
<1> HIDE DEF closed
<1>5. Good(paid) BY <1>1, <1>4, CollectPlayerCardsGood, PayPlayerGood
<1> HIDE DEF paid
<1>6. Good(out) BY <1>1, <1>5 DEF Good, RoomOK, Match, Owned, Fields, Groups, Maps, Flags, IsSeatMap
<1> HIDE DEF out
<1> QED BY <1>3, <1>4, <1>6, TransferManoGood

LEMMA DeclareGood ==
    ASSUME NEW r, Good(r), NEW s \in Seat
    PROVE  Good(Declare(r, s).room)
<1> DEFINE quiet == ClearTurnTimer(r)
           said == [quiet EXCEPT !.acted = @ \cup {s},
                                 !.yes = IF TieneJuego(Hand(r, s)) THEN @ \cup {s} ELSE @ \ {s},
                                 !.no  = IF TieneJuego(Hand(r, s)) THEN @ \ {s} ELSE @ \cup {s}]
<1>1. Good(quiet) BY ClearTurnTimerGood
<1>2. Declare(r, s) = AdvanceTurnDeclarar(said, NoSeat) BY DEF Declare
<1> HIDE DEF quiet
<1>3. Good(said) BY <1>1 DEF Good, RoomOK, Match, Owned, Fields, Groups, Maps, Flags, IsSeatMap
<1> HIDE DEF said
<1> QED BY <1>2, <1>3, AdvanceTurnDeclararGood

LEMMA OfflineGood ==
    ASSUME NEW r, Good(r), NEW s \in Seat
    PROVE  Good(Offline(r, s))
<1>1. Good([r EXCEPT !.connected = @ \ {s}])
  BY DEF Good, RoomOK, Match, Owned, Fields, Groups, Maps, Flags, IsSeatMap
<1> QED BY <1>1, ResetRoomStateGood DEF Offline

LEMMA HandOverDealGood ==
    ASSUME NEW r, Good(r), NEW s \in Seat
    PROVE  Good(HandOverDeal(r, s))
<1> DEFINE heirs  == SeatOrder(r) \cap r.connected
           others == r.players \cap r.connected
           heir == IF s \in SeatOrder(r) /\ heirs # {} THEN FirstAfter(s, heirs) ELSE Min(others)
<1>1. heirs \in SUBSET Seat /\ others \in SUBSET Seat BY GroupsAreSeats
<1>2. HandOverDeal(r, s) = IF r.dealer # s \/ others = {} THEN r
                           ELSE [r EXCEPT !.rotated = TRUE, !.dealer = heir]
  BY DEF HandOverDeal
<1> HIDE DEF heirs, others
<1>3. others # {} => heir \in Seat BY <1>1, FirstIsFound, MinInSet
<1> HIDE DEF heir
<1>4. others # {} => Good([r EXCEPT !.rotated = TRUE, !.dealer = heir])
  BY <1>3 DEF Good, RoomOK, Match, Owned, Fields, Groups, Maps, Flags, IsSeatMap
<1> QED BY <1>2, <1>4

-----------------------------------------------------------------------------
(* The inductive invariant: the three properties together.  The second and *)
(* the third need the first: a helper may pay a player, or give him the    *)
(* turn, because he is a seat.                                             *)

Inv == TypeOK /\ RamMatchesLedger /\ TimerHasOwner

LEMMA InvIsGood == Inv => Good(room)
BY DEF Inv, TypeOK, RamMatchesLedger, TimerHasOwner, Good

(* Most handlers change nothing but the room.                              *)
LEMMA OnlyTheRoom ==
    ASSUME Inv, Good(room'), UNCHANGED <<bet, links, fates>>
    PROVE  Inv'
BY DEF Inv, TypeOK, RamMatchesLedger, TimerHasOwner, Good

LEMMA InitGood == Init => Inv
<1> SUFFICES ASSUME Init PROVE Inv OBVIOUS
<1>1. PICK d \in Deals : room = Start(d) BY DEF Init
<1>2. IsDeal(d) BY MainPotAssumption
<1>3. RoomOK(room)
  <2>1. DOMAIN d.chips = Seat /\ DOMAIN d.mainBet = Seat BY <1>2 DEF IsDeal
  <2>2. /\ d.mano \in Seat /\ d.dealer \in Seat /\ d.rotated \in BOOLEAN
        /\ d.waiting \subseteq Seat /\ d.folded \subseteq Seat /\ d.allIn \subseteq Seat
        /\ d.cards \in [Seat -> 0..MaxHand]
    BY <1>2 DEF IsDeal
  <2> QED BY <1>1, <2>1, <2>2 DEF Start, RoomOK, Fields, Groups, Maps, Flags, IsSeatMap, Phases,
                                  NoSeat
<1>4. Match(room) /\ Owned(room) BY <1>1 DEF Start, Match, Owned
<1> QED BY <1>3, <1>4, MainPotAssumption DEF Inv, TypeOK, RamMatchesLedger, TimerHasOwner, Init

(* Betting actions.                                                        *)

LEMMA SubmitGood ==
    ASSUME Inv, NEW s \in Seat, MayAct(s), NEW kind \in {"voy", "igualar", "resto"},
           NEW amount, NEW full, Submit(s, kind, amount, full)
    PROVE  Inv'
<1>1. Good(room) /\ room.phase \in BettingPhases BY InvIsGood DEF MayAct
<1>2. Good(ClearTurnTimer(room)) BY <1>1, ClearTurnTimerGood
<1>3. CASE room.chips[s] <= 0 /\ kind # "igualar"
  <2>1. Good(room') BY <1>1, <1>2, <1>3, FoldAndPassManoGood, AdvanceGood DEF Submit
  <2> QED BY <2>1, <1>3, OnlyTheRoom DEF Submit
<1>4. CASE ~(room.chips[s] <= 0 /\ kind # "igualar")
  <2>1. Good(room') BY <1>2, <1>4 DEF Submit
  <2>2. bet'.seat \in Seat /\ bet'.kind \in {"voy", "igualar", "resto"} /\ bet'.phase \in BettingPhases
    BY <1>1, <1>4 DEF Submit
  <2>3. UNCHANGED <<links, fates>> BY <1>4 DEF Submit
  <2> QED BY <2>1, <2>2, <2>3 DEF Inv, TypeOK, RamMatchesLedger, TimerHasOwner, Good
<1> QED BY <1>3, <1>4

LEMMA BettingActionGood ==
    ASSUME Inv, NEW s \in Seat, BettingAction(s)
    PROVE  Inv'
<1>1. Good(room) /\ MayAct(s) /\ room.phase \in BettingPhases
  BY InvIsGood DEF BettingAction, Paso, Voy, VoyTooLow, Igualar, Resto, MayAct
<1>2. CASE Paso(s)
  <2>1. Good(room') BY <1>1, <1>2, PassGood, FinishGood DEF Paso
  <2> QED BY <2>1, <1>2, OnlyTheRoom DEF Paso
<1>3. ASSUME NEW raise \in Raises, Voy(s, raise) PROVE Inv'
  BY <1>1, <1>3, SubmitGood DEF Voy
<1>4. ASSUME NEW raise \in Raises, VoyTooLow(s, raise) PROVE Inv'
  <2>1. Good(room') BY <1>1, <1>4, ClearTurnTimerGood DEF VoyTooLow
  <2> QED BY <2>1, <1>4, OnlyTheRoom DEF VoyTooLow
<1>5. CASE Igualar(s)
  <2> DEFINE call == room.maxBet - room.roundBet[s]
             acted == [ClearTurnTimer(room) EXCEPT !.acted = @ \cup {s}]
  <2>1. CASE call <= 0
    <3>1. Good(acted)
      <4>1. Good(ClearTurnTimer(room)) BY <1>1, ClearTurnTimerGood
      <4> QED BY <4>1 DEF Good, RoomOK, Match, Owned, Fields, Groups, Maps, Flags, IsSeatMap
    <3>2. Good(room')
      <4> HIDE DEF acted
      <4>1. room' = Finish(Advance(acted, room.phase)) BY <1>5, <2>1 DEF Igualar, acted
      <4> QED BY <4>1, <3>1, AdvanceGood
    <3> QED BY <3>2, <1>5, <2>1, OnlyTheRoom DEF Igualar
  <2>2. CASE ~(call <= 0)
    <3>1. Submit(s, "igualar", Min({call, room.chips[s]}), room.chips[s] >= call)
      BY <1>5, <2>2 DEF Igualar
    <3> QED BY <3>1, <1>1, SubmitGood
  <2> QED BY <2>1, <2>2
<1>6. CASE Resto(s) BY <1>1, <1>6, SubmitGood DEF Resto
<1> QED BY <1>2, <1>3, <1>4, <1>5, <1>6 DEF BettingAction

LEMMA LedgerReplyGood == ASSUME Inv, LedgerReply PROVE Inv'
<1>1. Good(room) BY InvIsGood
<1>2. bet # NoBet
  BY DEF LedgerReply, BetAccepted, BetUnfunded, BetFailed
<1>3. bet.seat \in Seat /\ bet.kind \in {"voy", "igualar", "resto"} /\ bet.phase \in BettingPhases
  BY <1>2 DEF Inv, TypeOK
<1>4. Good(room')
  <2>1. CASE BetAccepted
    <3>1. Good(TakeBet(room, bet)) BY <1>1, <1>3, TakeBetGood
    <3> QED BY <3>1, <2>1, AdvanceGood DEF BetAccepted
  <2>2. CASE BetUnfunded BY <1>1, <1>3, <2>2, FoldAndPassManoGood, AdvanceGood DEF BetUnfunded
  <2>3. CASE BetFailed BY <1>1, <2>3 DEF BetFailed
  <2> QED BY <2>1, <2>2, <2>3 DEF LedgerReply
<1>5. bet' = NoBet /\ UNCHANGED <<links, fates>>
  BY DEF LedgerReply, BetAccepted, BetUnfunded, BetFailed
<1> QED BY <1>4, <1>5 DEF Inv, TypeOK, RamMatchesLedger, TimerHasOwner, Good

(* The other messages and the timers change nothing but the room.          *)

LEMMA AnswerGood == ASSUME Inv, NEW s \in Seat, PasoJuegoResponse(s) PROVE Inv'
<1> DEFINE quiet == ClearTurnTimer(room)
           asked == [quiet EXCEPT !.pasoBy = NoSeat, !.pasoPhase = "LOBBY"]
           shown == [asked EXCEPT !.acted = @ \cup {s}, !.passed = @ \cup {s},
                                  !.llevoBy = s, !.returnTo = room.phase,
                                  !.phase = "PIQUE_REVEAL", !.turn = s]
           out == FoldAndPassMano(CollectPlayerCards(asked, s), s)
<1>1. Good(room) BY InvIsGood
<1>2. room.phase \in BettingPhases
  BY <1>1, NAssumption DEF PasoJuegoResponse, MayAnswer, Good, RoomOK, Seat, NoSeat
<1>3. Good(quiet) BY <1>1, ClearTurnTimerGood
<1>4. room' = shown \/ room' = Finish(Advance(out, room.phase))
  BY DEF PasoJuegoResponse
<1>5. Good(asked) /\ ~asked.turnTimer
  <2>1. ~asked.turnTimer BY <1>1 DEF ClearTurnTimer, Good, RoomOK, Fields
  <2> HIDE DEF quiet
  <2> QED BY <1>3, <2>1, ForgetQuestionGood
<1> HIDE DEF quiet, asked
<1>6. Good(shown)
  BY <1>2, <1>5 DEF Good, RoomOK, Match, Owned, Fields, Groups, Maps, Flags, IsSeatMap, Phases
<1>7. Good(out) BY <1>5, CollectPlayerCardsGood, FoldAndPassManoGood
<1> HIDE DEF shown, out
<1>8. Good(room') BY <1>4, <1>6, <1>7, AdvanceGood
<1> QED BY <1>8, OnlyTheRoom DEF PasoJuegoResponse

LEMMA ShowMuckGood ==
    ASSUME Inv, NEW s \in Seat, NEW show \in BOOLEAN, ShowMuck(s, show)
    PROVE  Inv'
<1> DEFINE quiet == ClearAutoTimer(ClearTurnTimer(room))
           opened == [quiet EXCEPT !.phase = "SHOWDOWN"]
<1>1. Good(quiet) BY InvIsGood, ClearTurnTimerGood, ClearAutoTimerGood
<1>2. room' \in {quiet, opened, AwardPot(quiet, s)} BY DEF ShowMuck
<1> HIDE DEF quiet
<1>3. Good(opened)
  BY <1>1 DEF Good, RoomOK, Match, Owned, Fields, Groups, Maps, Flags, IsSeatMap, Phases
<1> HIDE DEF opened
<1>4. Good(room') BY <1>1, <1>2, <1>3, AwardPotGood
<1> QED BY <1>4, OnlyTheRoom DEF ShowMuck

LEMMA DismissShowdownGood == ASSUME Inv, DismissShowdown PROVE Inv'
<1> DEFINE quiet == ClearAutoTimer(ClearTurnTimer(room))
           closed == [quiet EXCEPT !.pending = FALSE]
           first == Min(Active(room))
<1>1. Good(quiet) BY InvIsGood, ClearTurnTimerGood, ClearAutoTimerGood
<1>2. room' \in {CleanupRound(closed), AwardPot(quiet, first), EndHandEarlyAfterFoldOut(quiet)}
  BY DEF DismissShowdown
<1> HIDE DEF quiet, first
<1>3. Good(closed) BY <1>1 DEF Good, RoomOK, Match, Owned, Fields, Groups, Maps, Flags, IsSeatMap
<1> HIDE DEF closed
<1>4. Good(room') BY <1>1, <1>2, <1>3, CleanupRoundGood, AwardPotGood, EndHandEarlyGood
<1> QED BY <1>4, OnlyTheRoom DEF DismissShowdown

LEMMA DismissRevealGood == ASSUME Inv, DismissReveal PROVE Inv'
<1>1. Good(room') BY InvIsGood, CloseRevealGood, FinishGood DEF DismissReveal, MayDismissReveal
<1> QED BY <1>1, OnlyTheRoom DEF DismissReveal

LEMMA StartGuerraGood == ASSUME Inv, StartGuerra PROVE Inv'
<1> DEFINE started == [room EXCEPT !.revealTimer = FALSE]
<1>1. Good(started)
  BY InvIsGood DEF Good, RoomOK, Match, Owned, Fields, Groups, Maps, Flags, IsSeatMap
<1>2. room' = Finish(EnterGuerra(started)) BY DEF StartGuerra
<1> HIDE DEF started
<1>3. Good(room') BY <1>1, <1>2, EnterGuerraGood, FinishGood
<1> QED BY <1>3, OnlyTheRoom DEF StartGuerra

LEMMA TurnTimeoutGood == ASSUME Inv, TurnTimeout PROVE Inv'
<1> DEFINE quiet == ClearTurnTimer(room)
           s == room.turn
<1>1. Good(room) /\ Good(quiet) BY InvIsGood, ClearTurnTimerGood
<1>2. quiet.phase = room.phase /\ quiet.llevoBy = room.llevoBy
  BY <1>1 DEF ClearTurnTimer, Good, RoomOK, Fields
<1>3. \/ room' = Finish(Still(quiet))
      \/ s \in Seat /\ room.phase \in BettingPhases /\ room' = Finish(Pass(quiet, s))
      \/ s \in Seat /\ room' = Finish(Declare(quiet, s))
      \/ room.llevoBy # NoSeat /\ room' = Finish(CloseReveal(quiet))
  <2>1. room.players \subseteq Seat BY <1>1, GroupsAreSeats
  <2>2. /\ BettingPhases \cap {"DECLARAR_JUEGO", "PIQUE_REVEAL"} = {}
        /\ "DECLARAR_JUEGO" # "PIQUE_REVEAL"
    BY DEF BettingPhases
  <2>3. CASE s \notin room.players \cap room.connected BY <2>3 DEF TurnTimeout
  <2>4. CASE s \in room.players \cap room.connected
    <3>1. s \in Seat BY <2>1, <2>4
    <3>2. CASE room.phase \in BettingPhases BY <2>2, <2>4, <3>1, <3>2 DEF TurnTimeout
    <3>3. CASE room.phase = "DECLARAR_JUEGO" BY <2>2, <2>4, <3>1, <3>3 DEF TurnTimeout
    <3>4. CASE room.phase = "PIQUE_REVEAL" /\ room.llevoBy # NoSeat
      BY <2>2, <2>4, <3>4 DEF TurnTimeout
    <3>5. CASE /\ room.phase \notin BettingPhases \cup {"DECLARAR_JUEGO"}
               /\ ~(room.phase = "PIQUE_REVEAL" /\ room.llevoBy # NoSeat)
      BY <2>4, <3>5 DEF TurnTimeout
    <3> QED BY <3>2, <3>3, <3>4, <3>5
  <2> QED BY <2>3, <2>4
<1> HIDE DEF quiet, s
<1>4. Good(Still(quiet).room) BY <1>1 DEF Still
<1>5. Good(room') BY <1>1, <1>2, <1>3, <1>4, FinishGood, PassGood, DeclareGood, CloseRevealGood
<1> QED BY <1>5, OnlyTheRoom DEF TurnTimeout

LEMMA ShowdownTimeoutGood == ASSUME Inv, ShowdownTimeout PROVE Inv'
<1> DEFINE quiet == ClearAutoTimer(room)
           closed == [quiet EXCEPT !.pending = FALSE]
           unforced == [quiet EXCEPT !.forced = NoSeat]
<1>1. Good(quiet) BY InvIsGood, ClearAutoTimerGood
<1>2. room' \in {quiet, CleanupRound(closed), AwardPot(unforced, room.forced),
                 EndHandEarlyAfterFoldOut(quiet)}
  BY DEF ShowdownTimeout
<1> HIDE DEF quiet
<1>3. Good(closed) /\ Good(unforced)
  BY <1>1 DEF Good, RoomOK, Match, Owned, Fields, Groups, Maps, Flags, IsSeatMap
<1> HIDE DEF closed, unforced
<1>4. Good(room') BY <1>1, <1>2, <1>3, CleanupRoundGood, AwardPotGood, EndHandEarlyGood
<1> QED BY <1>4, OnlyTheRoom DEF ShowdownTimeout

LEMMA CleanupTimeoutGood == ASSUME Inv, CleanupTimeout PROVE Inv'
<1> DEFINE ran == [room EXCEPT !.cleanups = @ - 1]
<1>1. Good(ran)
  BY InvIsGood DEF CleanupTimeout, Good, RoomOK, Match, Owned, Fields, Groups, Maps, Flags, IsSeatMap
<1>2. room' = CleanupRound(ran) BY DEF CleanupTimeout
<1> HIDE DEF ran
<1>3. Good(room') BY <1>1, <1>2, CleanupRoundGood
<1> QED BY <1>3, OnlyTheRoom DEF CleanupTimeout

LEMMA ClientMessageGood == ASSUME Inv, NEW s \in Seat, ClientMessage(s) PROVE Inv'
<1>1. CASE BettingAction(s) BY <1>1, BettingActionGood
<1>2. CASE PasoJuegoResponse(s) BY <1>2, AnswerGood
<1>3. CASE DeclararJuego(s)
  <2>1. Good(room') BY <1>3, InvIsGood, DeclareGood, FinishGood DEF DeclararJuego
  <2> QED BY <2>1, <1>3, OnlyTheRoom DEF DeclararJuego
<1>4. ASSUME NEW show \in BOOLEAN, ShowMuck(s, show) PROVE Inv' BY <1>4, ShowMuckGood
<1> QED BY <1>1, <1>2, <1>3, <1>4 DEF ClientMessage

(* A connection that is lost, regained or given up.                        *)
LEMMA ConnectionGood == ASSUME Inv, NEW s \in Seat, Connection(s) PROVE Inv'
<1>1. Good(room) BY InvIsGood
<1>2. Good(TransferMano(room)) BY <1>1, TransferManoGood
<1>3. Good(Offline(room, s)) BY <1>1, OfflineGood
<1>4. Good(room')
  <2>1. CASE Disconnect(s) BY <1>3, <2>1 DEF Disconnect
  <2>2. CASE Reconnect(s)
    <3>1. Good([room EXCEPT !.connected = @ \cup {s}])
      BY <1>1 DEF Good, RoomOK, Match, Owned, Fields, Groups, Maps, Flags, IsSeatMap
    <3> QED BY <3>1, <2>2 DEF Reconnect
  <2>3. CASE GraceExpires(s) BY <1>1, <1>2, <2>3, RemovePlayerGood DEF GraceExpires
  <2>4. CASE Leave(s)
    <3> DEFINE off == Offline(room, s)
    <3>1. Good(IF WasMano(s) THEN TransferMano(off) ELSE off) BY <1>3, TransferManoGood
    <3> QED BY <3>1, <2>4, HandOverDealGood DEF Leave
  <2>5. CASE LeaveDone(s) BY <1>1, <2>5, RemovePlayerGood DEF LeaveDone
  <2>6. CASE Abandon(s) BY <1>1, <2>6, RemovePlayerGood DEF Abandon
  <2> QED BY <2>1, <2>2, <2>3, <2>4, <2>5, <2>6 DEF Connection
<1>5. bet' = bet
  BY DEF Connection, Disconnect, Reconnect, GraceExpires, Leave, LeaveDone, Abandon
<1>6. links' \in [grace : SUBSET Seat, mano : SUBSET Seat, leaving : SUBSET Seat]
  <2>1. links \in [grace : SUBSET Seat, mano : SUBSET Seat, leaving : SUBSET Seat]
    BY DEF Inv, TypeOK
  <2>2. CASE Disconnect(s)
    <3>1. PICK M \in SUBSET Seat : links' = [links EXCEPT !.grace = @ \cup {s}, !.mano = M]
      BY <2>1, <2>2 DEF Disconnect
    <3> QED BY <2>1, <3>1
  <2>3. CASE Reconnect(s) \/ GraceExpires(s) BY <2>1, <2>3 DEF Reconnect, GraceExpires
  <2>4. CASE Leave(s) \/ LeaveDone(s) BY <2>1, <2>4 DEF Leave, LeaveDone
  <2>5. CASE Abandon(s) BY <2>1, <2>5 DEF Abandon
  <2> QED BY <2>2, <2>3, <2>4, <2>5 DEF Connection
<1>7. fates' \in 0..MaxFates
  BY MainPotAssumption DEF Inv, TypeOK, Connection, Disconnect, Reconnect, GraceExpires, Leave,
                           LeaveDone, Abandon, MayLose
<1> QED BY <1>4, <1>5, <1>6, <1>7 DEF Inv, TypeOK, RamMatchesLedger, TimerHasOwner, Good

LEMMA NextGood == Inv /\ [Next]_vars => Inv'
<1> SUFFICES ASSUME Inv, [Next]_vars PROVE Inv' OBVIOUS
<1>1. ASSUME NEW s \in Seat, ClientMessage(s) PROVE Inv' BY <1>1, ClientMessageGood
<1>2. ASSUME NEW s \in Seat, Connection(s) PROVE Inv' BY <1>2, ConnectionGood
<1>3. CASE DismissReveal \/ DismissShowdown BY <1>3, DismissRevealGood, DismissShowdownGood
<1>4. CASE LedgerReply BY <1>4, LedgerReplyGood
<1>5. CASE Timer
  BY <1>5, StartGuerraGood, TurnTimeoutGood, ShowdownTimeoutGood, CleanupTimeoutGood DEF Timer
<1>6. CASE UNCHANGED vars
  BY <1>6 DEF vars, Inv, TypeOK, RamMatchesLedger, TimerHasOwner
<1> QED BY <1>1, <1>2, <1>3, <1>4, <1>5, <1>6 DEF Next

LEMMA InvHolds == Spec => []Inv
<1> QED BY InitGood, NextGood, PTL DEF Spec

-----------------------------------------------------------------------------
(* The room of the code never reaches a state the model has no meaning     *)
(* for: turn, Mano and dealer are seats, a question about juego or a       *)
(* reveal always knows the betting round it came from.                     *)
THEOREM TypeCorrect == Spec => []TypeOK
<1>1. Inv => TypeOK BY DEF Inv
<1> QED BY <1>1, InvHolds, PTL

(* Every payout, refund, award and bet of a hand moves the chips in RAM    *)
(* and the wallet by the same amount, for every table, deal, order of      *)
(* messages, lost connection and answer of the ledger: the two copies      *)
(* agree on everyone whose operations the ledger did not refuse as already *)
(* done.                                                                   *)
THEOREM RamAndLedgerAgree == Spec => []RamMatchesLedger
<1>1. Inv => RamMatchesLedger BY DEF Inv
<1> QED BY <1>1, InvHolds, PTL

(* However the seats change hands, the turn timer never runs for a player  *)
(* who was removed: removePlayer, the refunds and the end of a hand take   *)
(* the turn and the timer away together.                                   *)
THEOREM TimerIsOwned == Spec => []TimerHasOwner
<1>1. Inv => TimerHasOwner BY DEF Inv
<1> QED BY <1>1, InvHolds, PTL

-----------------------------------------------------------------------------
(* Whose turn it is.  Every handler that may move the turn ends in a call  *)
(* that gives it to somebody who can play, leaves the betting rounds, or   *)
(* passes the hand on to the next phase, which does one of the three.      *)

LiveTurn(r) ==
    r.phase \in BettingPhases /\ r.cleanups = 0 =>
      /\ r.turn \in Active(r) \ (r.allIn \cup r.passed \cup r.declined)
      /\ r.turn \in r.acted => r.roundBet[r.turn] < r.maxBet

(* Nothing the turn depends on.                                            *)
TurnFields == {"phase", "turn", "players", "connected", "folded", "acted", "allIn", "passed",
               "declined", "roundBet", "maxBet", "cleanups"}

LEMMA SameTurnIsLive ==
    ASSUME NEW r, NEW q, LiveTurn(r), \A f \in TurnFields : q[f] = r[f]
    PROVE  LiveTurn(q)
<1>1. /\ q.phase = r.phase /\ q.turn = r.turn /\ q.players = r.players
      /\ q.connected = r.connected /\ q.folded = r.folded /\ q.acted = r.acted
      /\ q.allIn = r.allIn /\ q.passed = r.passed /\ q.declined = r.declined
      /\ q.roundBet = r.roundBet /\ q.maxBet = r.maxBet /\ q.cleanups = r.cleanups
  BY DEF TurnFields
<1> QED BY <1>1 DEF LiveTurn, Active

(* What a handler hands over: a live turn, a betting round that goes on or *)
(* the entry of one of the phases.                                         *)
Leads(step, phases) ==
    \/ step.due = "nothing" /\ LiveTurn(step.room)
    \/ step.due = "enter" /\ step.phase \in phases

Continues(step) ==
    \/ step.due = "advance" /\ step.phase \in BettingPhases
    \/ Leads(step, {"CANTICOS", "DECLARAR_JUEGO", "GUERRA_JUEGO", "SHOWDOWN"})

LEMMA EarlyEndPhase ==
    ASSUME NEW r, Good(r)
    PROVE  EndHandEarlyAfterFoldOut(r).phase \in {r.phase, "LOBBY"}
<1> DEFINE quiet == ClearTurnTimer(r)
           solo == CHOOSE s \in Active(r) : TRUE
           paid == IF Cardinality(Active(r)) = 1 /\ r.pot > 0
                   THEN PayPlayer(quiet, solo, r.pot - RakeOf(r.pot), PotRef(r.pot)) ELSE quiet
           piqued == PayPiqueToBest(paid, Active(r))
<1>1. \A q : DOMAIN q = Fields =>
        \A s, amount, ref : /\ PayPlayer(q, s, amount, ref).phase = q.phase
                            /\ DOMAIN PayPlayer(q, s, amount, ref) = Fields
  BY DEF PayPlayer, LedgerCredit, Fields
<1>2. DOMAIN quiet = Fields /\ quiet.phase = r.phase
  BY DEF ClearTurnTimer, Good, RoomOK, Fields
<1> HIDE DEF quiet, solo
<1>3. DOMAIN paid = Fields /\ paid.phase = r.phase BY <1>1, <1>2
<1> HIDE DEF paid
<1>4. DOMAIN piqued = Fields /\ piqued.phase = r.phase BY <1>1, <1>3 DEF PayPiqueToBest
<1> HIDE DEF piqued
<1>5. ScheduleCleanup(piqued).phase = r.phase BY <1>4 DEF ScheduleCleanup, Fields
<1>6. RefundAllActiveBets(quiet).phase = "LOBBY"
  BY <1>2 DEF RefundAllActiveBets, PromoteWaitingPlayers, Fields
<1>7. EndHandEarlyAfterFoldOut(r) =
        IF Active(r) = {} THEN RefundAllActiveBets(quiet) ELSE ScheduleCleanup(piqued)
  BY ZenonT(60) DEF EndHandEarlyAfterFoldOut, quiet, solo, paid, piqued
<1> QED BY <1>5, <1>6, <1>7

LEMMA NobodyIsRefunded ==
    ASSUME NEW r, Good(r), Active(r) = {}
    PROVE  EndHandEarlyAfterFoldOut(r).phase = "LOBBY"
<1> DEFINE quiet == ClearTurnTimer(r)
<1>1. DOMAIN quiet = Fields BY DEF ClearTurnTimer, Good, RoomOK, Fields
<1>2. EndHandEarlyAfterFoldOut(r) = RefundAllActiveBets(quiet) BY DEF EndHandEarlyAfterFoldOut
<1> HIDE DEF quiet
<1> QED BY SMTT(40), <1>1, <1>2 DEF RefundAllActiveBets, PromoteWaitingPlayers, Fields

LEMMA AdvanceLeads ==
    ASSUME NEW r, Good(r), NEW from \in Seat \cup {NoSeat}, NEW phase \in BettingPhases
    PROVE  Leads(AdvanceTurnBetting(r, from, phase), {NextPhase[phase]})
<1> DEFINE refunded == RefundUncalledBet(r)
           asked == IF from # NoSeat THEN from ELSE r.turn
           start == IF asked \notin SeatOrder(r) /\ from # NoSeat THEN r.mano ELSE asked
           next  == {s \in SeatOrder(r) : InTurn(r, s)}
           chosen == IF from # NoSeat THEN FirstFrom(start, next) ELSE FirstAfter(start, next)
<1>1. Good(refunded) BY RefundUncalledBetGood
<1>2. next \in SUBSET Seat /\ start \in Seat \cup {NoSeat} BY GroupsAreSeats
<1>3. AdvanceTurnBetting(r, from, phase) =
        IF Cardinality(Active(r)) <= 1 THEN NobodyToPlay(refunded, phase)
        ELSE IF start \notin SeatOrder(r) THEN Enter(r, NextPhase[phase])
        ELSE IF next # {} THEN Still(GiveTurn(r, chosen))
        ELSE Enter(ClearTurnTimer(refunded), NextPhase[phase])
  BY Zenon DEF AdvanceTurnBetting, refunded, asked, start, next, chosen
<1>4. \A q : Leads(Enter(q, NextPhase[phase]), {NextPhase[phase]}) BY DEF Leads, Enter
<1>5. Leads(NobodyToPlay(refunded, phase), {NextPhase[phase]})
  <2>1. CASE Active(refunded) = {}
    <3>1. EndHandEarlyAfterFoldOut(refunded).phase = "LOBBY" BY <1>1, <2>1, NobodyIsRefunded
    <3>2. LiveTurn(EndHandEarlyAfterFoldOut(refunded)) BY <3>1 DEF LiveTurn, BettingPhases
    <3>3. Leads(Still(EndHandEarlyAfterFoldOut(refunded)), {NextPhase[phase]})
      BY <3>2 DEF Leads, Still
    <3> QED BY <1>4, <3>3 DEF NobodyToPlay
  <2>2. CASE Active(refunded) # {} BY <1>4, <2>2 DEF NobodyToPlay
  <2> QED BY <2>1, <2>2
<1>6. next # {} => Leads(Still(GiveTurn(r, chosen)), {NextPhase[phase]})
  <2> SUFFICES ASSUME next # {} PROVE LiveTurn(GiveTurn(r, chosen)) BY DEF Leads, Still
  <2> HIDE DEF start, refunded
  <2>1. chosen \in next BY <1>2, FirstIsFound
  <2>2. InTurn(r, chosen) BY <2>1
  <2> HIDE DEF chosen, next
  <2>3. DOMAIN r = Fields BY DEF Good, RoomOK
  <2> QED BY <2>2, <2>3 DEF LiveTurn, GiveTurn, InTurn, Active, Fields
<1> HIDE DEF refunded, next, start, chosen
<1> QED BY <1>3, <1>4, <1>5, <1>6

(* The entries of the phases.                                              *)

LEMMA OpenedIsGood ==
    ASSUME NEW r, Good(r), NEW phase \in BettingPhases
    PROVE  /\ Good([OpenRound(r, phase) EXCEPT !.pasoBy = NoSeat, !.pasoPhase = "LOBBY"])
           /\ Good([OpenRound(r, phase) EXCEPT !.declined = @ \ r.players])
<1>1. Good(OpenRound(r, phase)) BY OpenRoundGood
<1> QED BY <1>1 DEF Good, RoomOK, Match, Owned, Fields, Groups, Maps, Flags, IsSeatMap

LEMMA EntriesLead ==
    ASSUME NEW r, Good(r)
    PROVE  /\ Leads(EnterGuerra(r), {"CANTICOS"})
           /\ Leads(EnterCanticos(r), {"DECLARAR_JUEGO"})
           /\ Leads(EnterGuerraJuego(r), {"SHOWDOWN"})
<1>1. /\ "GUERRA" \in BettingPhases /\ NextPhase["GUERRA"] = "CANTICOS"
      /\ "CANTICOS" \in BettingPhases /\ NextPhase["CANTICOS"] = "DECLARAR_JUEGO"
      /\ "GUERRA_JUEGO" \in BettingPhases /\ NextPhase["GUERRA_JUEGO"] = "SHOWDOWN"
  BY DEF BettingPhases, NextPhase
<1>2. Good(ClearTurnTimer(r)) /\ r.mano \in Seat \cup {NoSeat}
  BY ClearTurnTimerGood, GroupsAreSeats
<1>3. Leads(EnterGuerra(r), {"CANTICOS"})
  <2> DEFINE opened == [OpenRound(ClearTurnTimer(r), "GUERRA")
                          EXCEPT !.pasoBy = NoSeat, !.pasoPhase = "LOBBY"]
  <2>1. Good(opened) BY <1>1, <1>2, OpenedIsGood
  <2>2. EnterGuerra(r) = AdvanceTurnBetting(opened, r.mano, "GUERRA") BY DEF EnterGuerra
  <2> HIDE DEF opened
  <2> QED BY <1>1, <1>2, <2>1, <2>2, AdvanceLeads
<1>4. Leads(EnterCanticos(r), {"DECLARAR_JUEGO"})
  <2> DEFINE opened == [OpenRound(r, "CANTICOS") EXCEPT !.pasoBy = NoSeat, !.pasoPhase = "LOBBY"]
  <2>1. Good(opened) BY <1>1, OpenedIsGood
  <2>2. EnterCanticos(r) = IF r.maxBet = 0 THEN Enter(ClearTurnTimer(r), "DECLARAR_JUEGO")
                           ELSE AdvanceTurnBetting(opened, r.mano, "CANTICOS")
    BY DEF EnterCanticos
  <2> HIDE DEF opened
  <2>3. Leads(Enter(ClearTurnTimer(r), "DECLARAR_JUEGO"), {"DECLARAR_JUEGO"}) BY DEF Leads, Enter
  <2> QED BY <1>1, <1>2, <2>1, <2>2, <2>3, AdvanceLeads
<1>5. Leads(EnterGuerraJuego(r), {"SHOWDOWN"})
  <2> DEFINE quiet == ClearTurnTimer(r)
             opened == [OpenRound(quiet, "GUERRA_JUEGO") EXCEPT !.declined = @ \ r.players]
  <2>1. quiet.players = r.players BY DEF ClearTurnTimer, Good, RoomOK, Fields
  <2>2. Good(opened)
    <3> HIDE DEF quiet
    <3>1. OpenRound(quiet, "GUERRA_JUEGO").players = r.players
      <4>1. DOMAIN quiet = Fields BY <1>2 DEF quiet, Good, RoomOK
      <4> QED BY <2>1, <4>1 DEF OpenRound, Fields
    <3>2. opened = [OpenRound(quiet, "GUERRA_JUEGO") EXCEPT !.declined = @ \ quiet.players]
      BY <2>1
    <3>3. Good(quiet) BY <1>2 DEF quiet
    <3> HIDE DEF opened
    <3> QED BY <1>1, <3>2, <3>3, OpenedIsGood
  <2>3. EnterGuerraJuego(r) = AdvanceTurnBetting(opened, r.mano, "GUERRA_JUEGO")
    BY DEF EnterGuerraJuego
  <2> HIDE DEF opened
  <2> QED BY <1>1, <1>2, <2>2, <2>3, AdvanceLeads
<1> QED BY <1>3, <1>4, <1>5

LEMMA DeclararLeads ==
    ASSUME NEW r, Good(r), r.phase = "DECLARAR_JUEGO", NEW from \in Seat \cup {NoSeat}
    PROVE  Leads(AdvanceTurnDeclarar(r, from), {"GUERRA_JUEGO", "SHOWDOWN"})
<1>1. \A s : GiveTurn(r, s).phase = "DECLARAR_JUEGO"
  BY DEF GiveTurn, Good, RoomOK, Fields
<1>2. \A s : LiveTurn(GiveTurn(r, s)) BY <1>1 DEF LiveTurn, BettingPhases
<1>3. \A s : Leads(Still(GiveTurn(r, s)), {"GUERRA_JUEGO", "SHOWDOWN"})
  BY <1>2 DEF Leads, Still
<1>4. \A q : /\ Leads(Enter(q, "SHOWDOWN"), {"GUERRA_JUEGO", "SHOWDOWN"})
             /\ Leads(Enter(q, "GUERRA_JUEGO"), {"GUERRA_JUEGO", "SHOWDOWN"})
  BY DEF Leads, Enter
<1>5. \A d : Leads(CloseDeclarations(r, d), {"GUERRA_JUEGO", "SHOWDOWN"})
  BY <1>4 DEF CloseDeclarations
<1> QED BY <1>3, <1>4, <1>5, Zenon DEF AdvanceTurnDeclarar

LEMMA EnterDeclararLeads ==
    ASSUME NEW r, Good(r)
    PROVE  Leads(EnterDeclararJuego(r), {"GUERRA_JUEGO", "SHOWDOWN"})
<1> DEFINE opened == [r EXCEPT !.phase = "DECLARAR_JUEGO", !.acted = @ \ r.players,
                               !.yes = @ \ r.players, !.no = @ \ r.players]
<1>1. Good(opened)
  BY DEF Good, RoomOK, Match, Owned, Fields, Groups, Maps, Flags, IsSeatMap, Phases
<1>2. opened.phase = "DECLARAR_JUEGO" BY DEF Good, RoomOK, Fields
<1>3. EnterDeclararJuego(r) =
        IF Cardinality(Active(r) \ r.waiting) <= 1 \/ r.maxBet > 0
        THEN Enter(ClearTurnTimer(r), "SHOWDOWN") ELSE AdvanceTurnDeclarar(opened, r.mano)
  BY DEF EnterDeclararJuego
<1> HIDE DEF opened
<1>4. Leads(AdvanceTurnDeclarar(opened, r.mano), {"GUERRA_JUEGO", "SHOWDOWN"})
  BY <1>1, <1>2, GroupsAreSeats, DeclararLeads
<1>5. Leads(Enter(ClearTurnTimer(r), "SHOWDOWN"), {"GUERRA_JUEGO", "SHOWDOWN"})
  BY DEF Leads, Enter
<1> QED BY <1>3, <1>4, <1>5

(* The showdown leaves the betting rounds.                                 *)
LEMMA ShowdownPhase ==
    ASSUME NEW r, Good(r)
    PROVE  Showdown(r).phase \in {"SHOWDOWN", "SHOWDOWN_WAIT", "LOBBY"}
<1> DEFINE open == [r EXCEPT !.phase = "SHOWDOWN"]
           competitors == (r.players \cap (r.connected \cup r.allIn)) \ r.folded
           w == CHOOSE s \in competitors : TRUE
           closed == PromoteWaitingPlayers([r EXCEPT !.pot = 0, !.piquePot = 0, !.phase = "LOBBY"])
           forced == [open EXCEPT !.turn = w, !.turnTimer = FALSE, !.autoTimer = TRUE]
           waits == [open EXCEPT !.phase = "SHOWDOWN_WAIT", !.turn = w,
                                 !.turnTimer = FALSE, !.autoTimer = TRUE]
           shown == [open EXCEPT !.autoTimer = TRUE]
<1>1. DOMAIN r = Fields BY DEF Good, RoomOK
<1>2. DOMAIN open = Fields /\ open.phase = "SHOWDOWN" BY <1>1 DEF Fields
<1>3. Good(open) BY DEF Good, RoomOK, Match, Owned, Fields, Groups, Maps, Flags, IsSeatMap, Phases
<1>4. closed.phase = "LOBBY" BY <1>1 DEF PromoteWaitingPlayers, Fields
<1>5. Showdown(r) =
        IF competitors = {} THEN closed
        ELSE IF Cardinality(competitors) > 1 THEN SettleShowdown(open, competitors)
        ELSE IF r.forced = w THEN forced
        ELSE IF r.pot > 0 THEN waits
        ELSE IF r.cards[w] # 0 THEN shown ELSE EndHandEarlyAfterFoldOut(open)
  BY Zenon DEF Showdown, open, competitors, w, closed, forced, waits, shown
<1> HIDE DEF open, competitors, w, closed
<1>6. forced.phase = "SHOWDOWN" /\ waits.phase = "SHOWDOWN_WAIT" /\ shown.phase = "SHOWDOWN"
  BY <1>2 DEF Fields
<1>7. SettleShowdown(open, competitors).phase = "SHOWDOWN"
  <2> DEFINE quiet == [open EXCEPT !.turnTimer = FALSE, !.autoTimer = TRUE, !.pending = TRUE]
  <2>1. DOMAIN quiet = Fields /\ quiet.phase = "SHOWDOWN" BY <1>2 DEF Fields
  <2>2. \E payout, ref : SettleShowdown(open, competitors) = PayTogether(quiet, payout, ref)
    BY DEF SettleShowdown
  <2> HIDE DEF quiet
  <2>3. \A payout, ref : PayTogether(quiet, payout, ref).phase = "SHOWDOWN"
    BY <2>1 DEF PayTogether, Fields
  <2> QED BY <2>2, <2>3
<1>8. EndHandEarlyAfterFoldOut(open).phase \in {"SHOWDOWN", "LOBBY"} BY <1>2, <1>3, EarlyEndPhase
<1> HIDE DEF forced, waits, shown
<1> QED BY <1>4, <1>5, <1>6, <1>7, <1>8

(* So a handler that continues leaves a live turn behind.                  *)
LEMMA FinishIsLive ==
    ASSUME NEW step, Good(step.room), Continues(step)
    PROVE  LiveTurn(Finish(step))
<1> DEFINE acted == AfterAction(step)
           guerra == AfterGuerra(acted)
           canticos == AfterCanticos(guerra)
           declared == AfterDeclarar(canticos)
<1>1. /\ Good(acted.room)
      /\ Leads(acted, {"CANTICOS", "DECLARAR_JUEGO", "GUERRA_JUEGO", "SHOWDOWN"})
  <2>1. CASE step.due = "advance" /\ step.phase \in BettingPhases
    <3>1. acted = AdvanceTurnBetting(step.room, NoSeat, step.phase) BY <2>1 DEF AfterAction
    <3>2. Good(acted.room) BY <3>1, AdvanceTurnBettingGood
    <3>3. NextPhase[step.phase] \in {"CANTICOS", "DECLARAR_JUEGO", "GUERRA_JUEGO", "SHOWDOWN"}
      BY <2>1 DEF NextPhase, BettingPhases
    <3>4. Leads(acted, {NextPhase[step.phase]}) BY <2>1, <3>1, AdvanceLeads
    <3> QED BY <3>2, <3>3, <3>4 DEF Leads
  <2>2. CASE Leads(step, {"CANTICOS", "DECLARAR_JUEGO", "GUERRA_JUEGO", "SHOWDOWN"})
    <3>1. acted = step BY <2>2 DEF AfterAction, Leads
    <3> QED BY <2>2, <3>1
  <2> QED BY <2>1, <2>2 DEF Continues
<1> HIDE DEF acted
<1>2. Good(guerra.room) /\ Leads(guerra, {"DECLARAR_JUEGO", "GUERRA_JUEGO", "SHOWDOWN"})
  <2>1. CASE IsDue(acted, "CANTICOS")
    <3>1. guerra = EnterCanticos(acted.room) BY <2>1 DEF AfterGuerra
    <3> HIDE DEF guerra
    <3> QED BY <1>1, <3>1, EntriesLead, EnterCanticosGood DEF Leads
  <2>2. CASE ~IsDue(acted, "CANTICOS")
    <3>1. guerra = acted BY <2>2 DEF AfterGuerra
    <3> HIDE DEF guerra
    <3> QED BY <1>1, <2>2, <3>1 DEF Leads, IsDue
  <2> QED BY <2>1, <2>2
<1> HIDE DEF guerra
<1>3. Good(canticos.room) /\ Leads(canticos, {"GUERRA_JUEGO", "SHOWDOWN"})
  <2>1. CASE IsDue(guerra, "DECLARAR_JUEGO")
    <3>1. canticos = EnterDeclararJuego(guerra.room) BY <2>1 DEF AfterCanticos
    <3> HIDE DEF canticos
    <3> QED BY <1>2, <3>1, EnterDeclararLeads, EnterDeclararJuegoGood
  <2>2. CASE ~IsDue(guerra, "DECLARAR_JUEGO")
    <3>1. canticos = guerra BY <2>2 DEF AfterCanticos
    <3> HIDE DEF canticos
    <3> QED BY <1>2, <2>2, <3>1 DEF Leads, IsDue
  <2> QED BY <2>1, <2>2
<1> HIDE DEF canticos
<1>4. Good(declared.room) /\ Leads(declared, {"SHOWDOWN"})
  <2>1. CASE IsDue(canticos, "GUERRA_JUEGO")
    <3>1. declared = EnterGuerraJuego(canticos.room) BY <2>1 DEF AfterDeclarar
    <3> HIDE DEF declared
    <3> QED BY <1>3, <3>1, EntriesLead, EnterGuerraJuegoGood
  <2>2. CASE ~IsDue(canticos, "GUERRA_JUEGO")
    <3>1. declared = canticos BY <2>2 DEF AfterDeclarar
    <3> HIDE DEF declared
    <3> QED BY <1>3, <2>2, <3>1 DEF Leads, IsDue
  <2> QED BY <2>1, <2>2
<1> HIDE DEF declared
<1>5. LiveTurn(AfterBetting(declared))
  <2>1. CASE IsDue(declared, "SHOWDOWN")
    <3>1. AfterBetting(declared) = Showdown(declared.room) BY <2>1 DEF AfterBetting
    <3>2. Showdown(declared.room).phase \in {"SHOWDOWN", "SHOWDOWN_WAIT", "LOBBY"}
      BY <1>4, ShowdownPhase
    <3> QED BY <3>1, <3>2 DEF LiveTurn, BettingPhases
  <2>2. CASE ~IsDue(declared, "SHOWDOWN")
    <3>1. AfterBetting(declared) = declared.room BY <2>2 DEF AfterBetting
    <3> QED BY <1>4, <2>2, <3>1 DEF Leads, IsDue
  <2> QED BY <2>1, <2>2
<1> QED BY <1>5 DEF Finish, declared, canticos, guerra, acted

(* The handlers, as long as nobody's connection is lost.                   *)
TurnInv == Inv /\ LiveTurn(room) /\ links.grace = {} /\ links.leaving = {}

LEMMA ClearedIsLive ==
    ASSUME NEW r, Good(r), LiveTurn(r)
    PROVE  LiveTurn(ClearTurnTimer(r)) /\ LiveTurn(ClearAutoTimer(r))
<1>1. \A f \in TurnFields : ClearTurnTimer(r)[f] = r[f] /\ ClearAutoTimer(r)[f] = r[f]
  BY DEF ClearTurnTimer, ClearAutoTimer, TurnFields, Good, RoomOK, Fields
<1> QED BY <1>1, SameTurnIsLive

LEMMA AdvanceIsLive ==
    ASSUME NEW r, Good(r), NEW phase \in BettingPhases
    PROVE  LiveTurn(Finish(Advance(r, phase)))
<1>1. Good(Advance(r, phase).room) /\ Continues(Advance(r, phase)) BY DEF Advance, Continues
<1> QED BY <1>1, FinishIsLive

(* "paso" moves the turn, or asks about juego and leaves it.               *)
LEMMA PassContinues ==
    ASSUME NEW r, Good(r), LiveTurn(r), NEW s \in Seat, r.phase \in BettingPhases
    PROVE  Good(Pass(r, s).room) /\ Continues(Pass(r, s))
<1> DEFINE quiet == ClearTurnTimer(r)
           asked == [quiet EXCEPT !.pasoBy = s, !.pasoPhase = r.phase]
<1>1. Good(quiet) /\ LiveTurn(quiet) BY ClearTurnTimerGood, ClearedIsLive
<1>2. \/ Pass(r, s) = Still(asked)
      \/ \E q : Pass(r, s) = Advance(q, r.phase)
  <2> HIDE DEF quiet
  <2> QED BY DEF Pass, quiet
<1> HIDE DEF quiet
<1>3. \A f \in TurnFields : asked[f] = quiet[f] BY <1>1 DEF TurnFields, Good, RoomOK, Fields
<1>4. LiveTurn(asked) BY <1>1, <1>3, SameTurnIsLive
<1> HIDE DEF asked
<1>5. Continues(Still(asked)) BY <1>4 DEF Continues, Leads, Still
<1>6. \A q : Continues(Advance(q, r.phase)) BY DEF Continues, Advance
<1> QED BY <1>2, <1>5, <1>6, PassGood

LEMMA CloseRevealContinues ==
    ASSUME NEW r, Good(r), r.llevoBy # NoSeat
    PROVE  Good(CloseReveal(r).room) /\ Continues(CloseReveal(r))
<1>1. r.returnTo \in BettingPhases BY DEF Good, RoomOK
<1>2. CloseReveal(r).due = "advance" /\ CloseReveal(r).phase = r.returnTo
  BY DEF CloseReveal, Advance
<1> QED BY <1>1, <1>2, CloseRevealGood DEF Continues

LEMMA DeclareContinues ==
    ASSUME NEW r, Good(r), r.phase = "DECLARAR_JUEGO", NEW s \in Seat
    PROVE  Good(Declare(r, s).room) /\ Continues(Declare(r, s))
<1> DEFINE quiet == ClearTurnTimer(r)
           yes == IF TieneJuego(Hand(r, s)) THEN quiet.yes \cup {s} ELSE quiet.yes \ {s}
           no == IF TieneJuego(Hand(r, s)) THEN quiet.no \ {s} ELSE quiet.no \cup {s}
           told == [quiet EXCEPT !.acted = @ \cup {s}, !.yes = yes, !.no = no]
<1>1. Good(quiet) BY ClearTurnTimerGood
<1>2. quiet.phase = "DECLARAR_JUEGO" BY DEF ClearTurnTimer, Good, RoomOK, Fields
<1>3. Declare(r, s) = AdvanceTurnDeclarar(told, NoSeat) BY DEF Declare
<1> HIDE DEF quiet
<1>4. yes \subseteq Seat /\ no \subseteq Seat BY <1>1 DEF Good, RoomOK, Groups
<1> HIDE DEF yes, no
<1>5. Good(told) BY <1>1, <1>4 DEF Good, RoomOK, Match, Owned, Fields, Groups, Maps, Flags, IsSeatMap
<1>6. told.phase = "DECLARAR_JUEGO" BY <1>1, <1>2 DEF Good, RoomOK, Fields
<1> HIDE DEF told
<1>7. Leads(Declare(r, s), {"GUERRA_JUEGO", "SHOWDOWN"}) BY <1>3, <1>5, <1>6, DeclararLeads
<1> QED BY <1>7, DeclareGood DEF Continues, Leads

(* A room that left the betting rounds.                                    *)
LEMMA OtherPhaseIsLive == ASSUME NEW r, r.phase \notin BettingPhases PROVE LiveTurn(r)
BY DEF LiveTurn

LEMMA CleanupPhase ==
    ASSUME NEW r, Good(r)
    PROVE  /\ CleanupRound(r).phase = "LOBBY"
           /\ \A w : AwardPot(r, w).phase \in {r.phase, "LOBBY"}
<1>1. \A q : DOMAIN q = Fields => CleanupRound(q).phase = "LOBBY"
  <2> SUFFICES ASSUME NEW q, DOMAIN q = Fields PROVE CleanupRound(q).phase = "LOBBY" OBVIOUS
  <2> DEFINE cleared == PromoteWaitingPlayers(
                          [ClearAutoTimer(ClearTurnTimer(q))
                             EXCEPT !.forced = NoSeat, !.pot = 0, !.piquePot = 0, !.mano = NoSeat,
                                    !.phase = "LOBBY"])
  <2>1. DOMAIN cleared = Fields /\ cleared.phase = "LOBBY"
    BY DEF PromoteWaitingPlayers, ClearAutoTimer, ClearTurnTimer, Fields
  <2>2. CleanupRound(q) = IF q.rotated THEN cleared ELSE NextDealer(cleared)
    BY Zenon DEF CleanupRound, cleared
  <2> HIDE DEF cleared
  <2>3. NextDealer(cleared).phase = "LOBBY" BY <2>1 DEF NextDealer, Fields
  <2> QED BY <2>1, <2>2, <2>3
<1>2. DOMAIN r = Fields BY DEF Good, RoomOK
<1>3. \A s, amount, ref : DOMAIN PayPlayer(r, s, amount, ref) = Fields
  BY <1>2 DEF PayPlayer, LedgerCredit
<1> QED BY <1>1, <1>2, <1>3 DEF AwardPot

LEMMA BettingActionIsLive ==
    ASSUME TurnInv, NEW s \in Seat, BettingAction(s)
    PROVE  LiveTurn(room')
<1>1. Good(room) /\ LiveTurn(room) /\ room.phase \in BettingPhases
  BY InvIsGood DEF TurnInv, BettingAction, Paso, Voy, VoyTooLow, Igualar, Resto, MayAct
<1>2. Good(ClearTurnTimer(room)) /\ LiveTurn(ClearTurnTimer(room))
  BY <1>1, ClearTurnTimerGood, ClearedIsLive
<1>3. ASSUME NEW kind, NEW amount, NEW full, Submit(s, kind, amount, full)
      PROVE  LiveTurn(room')
  <2>1. \/ room' = ClearTurnTimer(room)
        \/ room' = Finish(Advance(FoldAndPassMano(ClearTurnTimer(room), s), room.phase))
    BY <1>3 DEF Submit
  <2>2. Good(FoldAndPassMano(ClearTurnTimer(room), s)) BY <1>2, FoldAndPassManoGood
  <2> QED BY <1>1, <1>2, <2>1, <2>2, AdvanceIsLive
<1>4. CASE Paso(s) BY <1>1, <1>4, PassContinues, FinishIsLive DEF Paso
<1>5. ASSUME NEW raise, Voy(s, raise) \/ VoyTooLow(s, raise) PROVE LiveTurn(room')
  BY <1>2, <1>3, <1>5 DEF Voy, VoyTooLow
<1>6. CASE Igualar(s)
  <2> DEFINE acted == [ClearTurnTimer(room) EXCEPT !.acted = @ \cup {s}]
  <2>1. \/ room' = Finish(Advance(acted, room.phase))
        \/ \E amount, full : Submit(s, "igualar", amount, full)
    BY <1>6 DEF Igualar
  <2>2. Good(acted) BY <1>2 DEF Good, RoomOK, Match, Owned, Fields, Groups, Maps, Flags, IsSeatMap
  <2> HIDE DEF acted
  <2> QED BY <1>1, <1>3, <2>1, <2>2, AdvanceIsLive
<1>7. CASE Resto(s) BY <1>3, <1>7 DEF Resto
<1> QED BY <1>4, <1>5, <1>6, <1>7 DEF BettingAction

LEMMA MessageIsLive ==
    ASSUME TurnInv, NEW s \in Seat, ClientMessage(s)
    PROVE  LiveTurn(room')
<1>1. Good(room) /\ LiveTurn(room) BY InvIsGood DEF TurnInv
<1>2. CASE PasoJuegoResponse(s)
  <2> DEFINE asked == [ClearTurnTimer(room) EXCEPT !.pasoBy = NoSeat, !.pasoPhase = "LOBBY"]
             shown == [asked EXCEPT !.acted = @ \cup {s}, !.passed = @ \cup {s},
                                    !.llevoBy = s, !.returnTo = room.phase,
                                    !.phase = "PIQUE_REVEAL", !.turn = s]
             out == FoldAndPassMano(CollectPlayerCards(asked, s), s)
  <2>1. room.phase \in BettingPhases
    <3>1. room.pasoBy = s /\ room.phase = room.pasoPhase /\ s # NoSeat
      BY <1>2 DEF PasoJuegoResponse, MayAnswer, Seat, NoSeat
    <3> QED BY <1>1, <3>1 DEF Good, RoomOK
  <2>2. Good(asked) BY <1>1, ClearTurnTimerGood, ForgetQuestionGood
  <2>3. room' = shown \/ room' = Finish(Advance(out, room.phase))
    BY <1>2, Zenon DEF PasoJuegoResponse, asked, shown, out
  <2> HIDE DEF asked
  <2>4. Good(out) BY <2>2, CollectPlayerCardsGood, FoldAndPassManoGood
  <2>5. shown.phase = "PIQUE_REVEAL" BY <2>2 DEF Good, RoomOK, Fields
  <2>6. LiveTurn(shown) BY <2>5 DEF LiveTurn, BettingPhases
  <2> HIDE DEF out, shown
  <2> QED BY <2>1, <2>3, <2>4, <2>6, AdvanceIsLive
<1>3. CASE DeclararJuego(s) BY <1>1, <1>3, DeclareContinues, FinishIsLive DEF DeclararJuego, MayDeclare
<1>4. ASSUME NEW show \in BOOLEAN, ShowMuck(s, show) PROVE LiveTurn(room')
  <2> DEFINE quiet == ClearAutoTimer(ClearTurnTimer(room))
  <2>1. Good(quiet) BY <1>1, ClearTurnTimerGood, ClearAutoTimerGood
  <2>2. DOMAIN quiet = Fields /\ quiet.phase = "SHOWDOWN_WAIT"
    BY <1>1, <1>4 DEF ShowMuck, MayShow, ClearAutoTimer, ClearTurnTimer, Good, RoomOK, Fields
  <2>3. room' = quiet \/ room' = [quiet EXCEPT !.phase = "SHOWDOWN"] \/ room' = AwardPot(quiet, s)
    BY <1>4 DEF ShowMuck
  <2> HIDE DEF quiet
  <2>4. [quiet EXCEPT !.phase = "SHOWDOWN"].phase = "SHOWDOWN" BY <2>2 DEF Fields
  <2>5. AwardPot(quiet, s).phase \in {"SHOWDOWN_WAIT", "LOBBY"} BY <2>1, <2>2, CleanupPhase
  <2>6. room'.phase \in {"SHOWDOWN_WAIT", "SHOWDOWN", "LOBBY"} BY <2>2, <2>3, <2>4, <2>5
  <2> QED BY <2>6 DEF LiveTurn, BettingPhases
<1> QED BY <1>2, <1>3, <1>4, BettingActionIsLive DEF ClientMessage

LEMMA ReplyIsLive == ASSUME TurnInv, LedgerReply PROVE LiveTurn(room')
<1>1. Good(room) /\ LiveTurn(room) BY InvIsGood DEF TurnInv
<1>2. bet # NoBet BY DEF LedgerReply, BetAccepted, BetUnfunded, BetFailed
<1>3. bet.seat \in Seat /\ bet.kind \in {"voy", "igualar", "resto"} /\ bet.phase \in BettingPhases
  BY <1>2 DEF TurnInv, Inv, TypeOK
<1>4. CASE BetAccepted BY <1>1, <1>3, <1>4, TakeBetGood, AdvanceIsLive DEF BetAccepted
<1>5. CASE BetUnfunded BY <1>1, <1>3, <1>5, FoldAndPassManoGood, AdvanceIsLive DEF BetUnfunded
<1>6. CASE BetFailed BY <1>1, <1>6 DEF BetFailed
<1> QED BY <1>4, <1>5, <1>6 DEF LedgerReply

LEMMA DismissalIsLive == ASSUME TurnInv, DismissReveal \/ DismissShowdown PROVE LiveTurn(room')
<1>1. Good(room) /\ LiveTurn(room) BY InvIsGood DEF TurnInv
<1>2. CASE DismissReveal
  BY <1>1, <1>2, CloseRevealContinues, FinishIsLive DEF DismissReveal, MayDismissReveal
<1>3. CASE DismissShowdown
  <2> DEFINE quiet == ClearAutoTimer(ClearTurnTimer(room))
             settled == [quiet EXCEPT !.pending = FALSE]
  <2>1. Good(quiet) BY <1>1, ClearTurnTimerGood, ClearAutoTimerGood
  <2>2. quiet.phase = "SHOWDOWN"
    BY <1>1, <1>3 DEF DismissShowdown, MayDismissShowdown, ClearAutoTimer, ClearTurnTimer, Good,
                      RoomOK, Fields
  <2>3. \/ room' = CleanupRound(settled) \/ room' = EndHandEarlyAfterFoldOut(quiet)
        \/ \E w : room' = AwardPot(quiet, w)
    BY <1>3, Zenon DEF DismissShowdown, quiet, settled
  <2> HIDE DEF quiet
  <2>4. Good(settled)
    BY <2>1 DEF Good, RoomOK, Match, Owned, Fields, Groups, Maps, Flags, IsSeatMap
  <2> HIDE DEF settled
  <2>5. room'.phase \in {"SHOWDOWN", "LOBBY"}
    BY <2>1, <2>2, <2>3, <2>4, CleanupPhase, EarlyEndPhase
  <2> QED BY <2>5 DEF LiveTurn, BettingPhases
<1> QED BY <1>2, <1>3

LEMMA TimerIsLive == ASSUME TurnInv, Timer PROVE LiveTurn(room')
<1>1. Good(room) /\ LiveTurn(room) BY InvIsGood DEF TurnInv
<1>2. CASE StartGuerra
  <2> DEFINE started == [room EXCEPT !.revealTimer = FALSE]
  <2>1. Good(started)
    BY <1>1 DEF Good, RoomOK, Match, Owned, Fields, Groups, Maps, Flags, IsSeatMap
  <2>2. room' = Finish(EnterGuerra(started)) BY <1>2 DEF StartGuerra
  <2> HIDE DEF started
  <2>3. Continues(EnterGuerra(started)) BY <2>1, EntriesLead DEF Continues, Leads
  <2> QED BY <2>1, <2>2, <2>3, EnterGuerraGood, FinishIsLive
<1>3. CASE TurnTimeout
  <2> DEFINE quiet == ClearTurnTimer(room)
             s == room.turn
             due == CASE room.phase \in BettingPhases -> Pass(quiet, s)
                      [] room.phase = "DECLARAR_JUEGO" -> Declare(quiet, s)
                      [] room.phase = "PIQUE_REVEAL" /\ room.llevoBy # NoSeat -> CloseReveal(quiet)
                      [] OTHER -> Still(quiet)
  <2>1. Good(quiet) /\ LiveTurn(quiet) BY <1>1, ClearTurnTimerGood, ClearedIsLive
  <2>2. quiet.phase = room.phase /\ quiet.llevoBy = room.llevoBy
    BY <1>1 DEF ClearTurnTimer, Good, RoomOK, Fields
  <2>3. room' = Finish(IF s \notin room.players \cap room.connected THEN Still(quiet) ELSE due)
    BY <1>3, Zenon DEF TurnTimeout, quiet, s, due
  <2> HIDE DEF quiet
  <2>4. Good(Still(quiet).room) /\ Continues(Still(quiet))
    BY <2>1 DEF Still, Continues, Leads
  <2>5. ASSUME s \in room.players PROVE Good(due.room) /\ Continues(due)
    <3>1. s \in Seat BY <1>1, <2>5, GroupsAreSeats
    <3> HIDE DEF s
    <3>2. CASE room.phase \in BettingPhases
      <4>1. due = Pass(quiet, s) BY <3>2 DEF BettingPhases
      <4> HIDE DEF due
      <4> QED BY <2>1, <2>2, <3>1, <3>2, <4>1, PassContinues
    <3>3. CASE room.phase = "DECLARAR_JUEGO"
      <4>1. due = Declare(quiet, s) BY <3>3 DEF BettingPhases
      <4> HIDE DEF due
      <4> QED BY <2>1, <2>2, <3>1, <3>3, <4>1, DeclareContinues
    <3>4. CASE room.phase = "PIQUE_REVEAL" /\ room.llevoBy # NoSeat
      <4>1. due = CloseReveal(quiet) BY <3>4 DEF BettingPhases
      <4> HIDE DEF due
      <4> QED BY <2>1, <2>2, <3>4, <4>1, CloseRevealContinues
    <3>5. CASE /\ room.phase \notin BettingPhases /\ room.phase # "DECLARAR_JUEGO"
               /\ ~(room.phase = "PIQUE_REVEAL" /\ room.llevoBy # NoSeat)
      <4>1. due = Still(quiet) BY <3>5
      <4> HIDE DEF due
      <4> QED BY <2>4, <4>1
    <3> QED BY <3>2, <3>3, <3>4, <3>5
  <2> HIDE DEF due, s
  <2> QED BY <2>3, <2>4, <2>5, FinishIsLive
<1>4. CASE ShowdownTimeout
  <2> DEFINE quiet == ClearAutoTimer(room)
             settled == [quiet EXCEPT !.pending = FALSE]
             unforced == [quiet EXCEPT !.forced = NoSeat]
  <2>1. Good(quiet) /\ LiveTurn(quiet) BY <1>1, ClearAutoTimerGood, ClearedIsLive
  <2>2. quiet.phase = room.phase BY <1>1 DEF ClearAutoTimer, Good, RoomOK, Fields
  <2>3. room' = IF room.phase \notin {"SHOWDOWN", "SHOWDOWN_WAIT"} THEN quiet
                ELSE IF room.pending THEN CleanupRound(settled)
                ELSE IF room.forced # NoSeat THEN AwardPot(unforced, room.forced)
                ELSE EndHandEarlyAfterFoldOut(quiet)
    BY <1>4, Zenon DEF ShowdownTimeout, quiet, settled, unforced
  <2> HIDE DEF quiet
  <2>4. Good(settled) /\ Good(unforced) /\ unforced.phase = room.phase
    <3>1. Good(settled)
      BY <2>1 DEF Good, RoomOK, Match, Owned, Fields, Groups, Maps, Flags, IsSeatMap
    <3>2. Good(unforced)
      BY <2>1 DEF Good, RoomOK, Match, Owned, Fields, Groups, Maps, Flags, IsSeatMap, NoSeat
    <3>3. unforced.phase = room.phase BY <2>1, <2>2 DEF Good, RoomOK, Fields
    <3> QED BY <3>1, <3>2, <3>3
  <2> HIDE DEF settled, unforced
  <2>5. CASE room.phase \notin {"SHOWDOWN", "SHOWDOWN_WAIT"} BY <2>1, <2>3, <2>5
  <2>6. CASE room.phase \in {"SHOWDOWN", "SHOWDOWN_WAIT"}
    <3>1. room'.phase \in {"SHOWDOWN", "SHOWDOWN_WAIT", "LOBBY"}
      BY <2>1, <2>2, <2>3, <2>4, <2>6, CleanupPhase, EarlyEndPhase
    <3> QED BY <3>1 DEF LiveTurn, BettingPhases
  <2> QED BY <2>5, <2>6
<1>5. CASE CleanupTimeout
  <2> DEFINE due == [room EXCEPT !.cleanups = @ - 1]
  <2>1. Good(due)
    <3>1. room.cleanups - 1 \in Nat BY <1>1, <1>5 DEF CleanupTimeout, Good, RoomOK
    <3> QED BY <1>1, <3>1 DEF Good, RoomOK, Match, Owned, Fields, Groups, Maps, Flags, IsSeatMap
  <2>2. room' = CleanupRound(due) BY <1>5 DEF CleanupTimeout
  <2> HIDE DEF due
  <2> QED BY <2>1, <2>2, CleanupPhase DEF LiveTurn, BettingPhases
<1> QED BY <1>2, <1>3, <1>4, <1>5 DEF Timer

LEMMA TurnInvHolds == ASSUME Fates = {} PROVE Spec => []TurnInv
<1>1. Init => TurnInv
  <2> SUFFICES ASSUME Init PROVE TurnInv OBVIOUS
  <2>1. PICK d \in Deals : room = Start(d) BY DEF Init
  <2>2. room.phase = "REVELAR_CARTA" BY <2>1 DEF Start
  <2>3. LiveTurn(room) BY <2>2 DEF LiveTurn, BettingPhases
  <2> QED BY <2>3, InitGood DEF TurnInv, Init
<1>2. TurnInv /\ [Next]_vars => TurnInv'
  <2> SUFFICES ASSUME TurnInv, [Next]_vars PROVE TurnInv' OBVIOUS
  <2>1. Inv' BY NextGood DEF TurnInv
  <2>2. \A s \in Seat : ~Connection(s)
    BY DEF TurnInv, Connection, Disconnect, Reconnect, GraceExpires, Leave, LeaveDone, Abandon,
           MayLose
  <2>3. ASSUME links' = links, LiveTurn(room') PROVE TurnInv'
    <3>1. LiveTurn(room)' BY <2>3
    <3> QED BY <2>1, <2>3, <3>1 DEF TurnInv
  <2>4. ASSUME NEW s \in Seat, ClientMessage(s) PROVE TurnInv'
    <3>1. links' = links
      BY <2>4 DEF ClientMessage, BettingAction, Paso, Voy, VoyTooLow, Igualar, Resto, Submit,
                  PasoJuegoResponse, DeclararJuego, ShowMuck
    <3> QED BY <2>3, <2>4, <3>1, MessageIsLive
  <2>5. CASE DismissReveal \/ DismissShowdown
    BY <2>3, <2>5, DismissalIsLive DEF DismissReveal, DismissShowdown
  <2>6. CASE LedgerReply
    <3>1. links' = links BY <2>6 DEF LedgerReply, BetAccepted, BetUnfunded, BetFailed
    <3> QED BY <2>3, <2>6, <3>1, ReplyIsLive
  <2>7. CASE Timer
    <3>1. links' = links
      BY <2>7 DEF Timer, StartGuerra, TurnTimeout, ShowdownTimeout, CleanupTimeout
    <3> QED BY <2>3, <2>7, <3>1, TimerIsLive
  <2>8. CASE UNCHANGED vars BY <2>1, <2>8 DEF vars, TurnInv
  <2> QED BY <2>2, <2>4, <2>5, <2>6, <2>7, <2>8 DEF Next
<1> QED BY <1>1, <1>2, PTL DEF Spec

(* While nobody's connection is lost, a betting round only ever waits for  *)
(* a player who is in the hand, has chips to play and owes an answer:      *)
(* after a refused bet, a reveal, a question about juego, the entry of     *)
(* every phase (advanceTurnBetting of MesaRoom, from all its callers).     *)
(* With a loss it does not hold: no handler of a disconnection or removal  *)
(* passes the turn on.                                                     *)
THEOREM TurnGoesToWhoCanPlay == ASSUME Fates = {} PROVE Spec => []TurnIsLive
<1>1. TurnInv => TurnIsLive BY DEF TurnInv, LiveTurn, TurnIsLive
<1> QED BY <1>1, TurnInvHolds, PTL

-----------------------------------------------------------------------------
(* Side pots.                                                              *)

LayersOf(players, stake, competitors) ==
    {Layer(players, stake, Below(l, Levels(players, stake)), l, competitors) :
       l \in Levels(players, stake)}

Amounts(pots) == [p \in pots |-> p.amount]
UpTo(pots, c) == {p \in pots : p.level <= c}

(* What the stakes match of a stake of c.                                  *)
Matched(players, stake, c) == SumFunctionOnSet([t \in players |-> Min({c, stake[t]})], players)

LEMMA LevelsAreStakes ==
    ASSUME NEW P, IsFiniteSet(P), NEW stake, \A t \in P : stake[t] \in Nat
    PROVE  /\ IsFiniteSet(Levels(P, stake)) /\ Levels(P, stake) \in SUBSET (Nat \ {0})
           /\ \A t \in P : stake[t] = 0 \/ stake[t] \in Levels(P, stake)
<1> DEFINE D == {t \in P : stake[t] > 0}
           f == [s \in D |-> stake[s]]
           L == Levels(P, stake)
<1>1. L = {stake[s] : s \in D} BY DEF Levels
<1>2. IsFiniteSet(D) BY FS_Subset
<1>3. f \in Surjection(D, L) BY <1>1 DEF Surjection
<1>4. \A s \in D : stake[s] \in Nat \ {0} OBVIOUS
<1> HIDE DEF f, L
<1>5. IsFiniteSet(L) BY <1>2, <1>3, FS_Surjection
<1>6. \A t \in P : stake[t] = 0 \/ stake[t] \in L BY <1>1
<1> QED BY <1>1, <1>4, <1>5, <1>6 DEF L

(* The level below a level is the highest one under it, or 0.              *)
LEMMA BelowIs ==
    ASSUME NEW L \in SUBSET (Nat \ {0}), IsFiniteSet(L), NEW l \in L
    PROVE  /\ Below(l, L) \in {k \in L : k < l} \cup {0}
           /\ \A k \in L : k < l => k <= Below(l, L)
           /\ Below(l, L) \in Nat /\ Below(l, L) < l
<1> DEFINE B == {k \in L : k < l} \cup {0}
<1>0. \A k \in L : k \in Nat /\ k # 0 OBVIOUS
<1>1. B \in SUBSET Int
  <2>1. \A x \in B : x \in Int BY <1>0
  <2> QED BY <2>1
<1>2. IsFiniteSet(B)
  <2>1. IsFiniteSet({k \in L : k < l}) BY FS_Subset
  <2> QED BY <2>1, FS_AddElement
<1>3. Below(l, L) = Max(B) BY DEF Below
<1>4. Max(B) \in B /\ \A x \in B : x <= Max(B) BY <1>1, <1>2, MaxIsGreatest
<1> DEFINE b == Max(B)
<1>5. b \in L \/ b = 0 BY <1>4
<1> HIDE DEF b
<1>6. b \in Nat
  <2>1. 0 \in Nat OBVIOUS
  <2> QED BY <1>0, <1>5, <2>1, Zenon
<1> USE DEF b
<1> QED BY <1>0, <1>3, <1>4, <1>6

(* What the layers up to a level hold is what all stakes hold below it.    *)
LEMMA LayersUpTo ==
    ASSUME NEW P, IsFiniteSet(P), NEW stake, \A t \in P : stake[t] \in Nat, NEW C
    PROVE  /\ IsFiniteSet(LayersOf(P, stake, C))
           /\ \A p \in LayersOf(P, stake, C) :
                /\ p.amount \in Nat /\ p.level \in Levels(P, stake)
                /\ p.eligible = {t \in P : stake[t] >= p.level} \cap C
           /\ \A c \in Levels(P, stake) \cup {0} :
                SumFunctionOnSet(Amounts(LayersOf(P, stake, C)),
                                 UpTo(LayersOf(P, stake, C), c)) = Matched(P, stake, c)
<1> DEFINE L == Levels(P, stake)
           layers == LayersOf(P, stake, C)
           amount == Amounts(layers)
           At(l) == Layer(P, stake, Below(l, L), l, C)
           Lower(c) == UpTo(layers, c)
           Below_(c) == [t \in P |-> Min({c, stake[t]})]
           Right(c) == SumFunctionOnSet(amount, Lower(c)) = SumFunctionOnSet(Below_(c), P)
<1>1. /\ IsFiniteSet(L) /\ L \in SUBSET (Nat \ {0})
      /\ \A t \in P : stake[t] = 0 \/ stake[t] \in L
      /\ \A l \in L : l \in Nat /\ l # 0
  <2>1. /\ IsFiniteSet(L) /\ L \in SUBSET (Nat \ {0})
        /\ \A t \in P : stake[t] = 0 \/ stake[t] \in L
    BY LevelsAreStakes
  <2> HIDE DEF L
  <2> QED BY <2>1
<1>2. layers = {At(l) : l \in L} BY DEF LayersOf
<1>3. ASSUME NEW l \in L
      PROVE  /\ At(l).amount = (l - Below(l, L)) * Cardinality(Reached(P, stake, l))
             /\ At(l).level = l /\ At(l).eligible = {t \in P : stake[t] >= l} \cap C
  BY DEF Layer, EligibleFor, Reached
<1> HIDE DEF L
<1>4. ASSUME NEW l \in L
      PROVE  Below(l, L) \in Nat /\ Below(l, L) < l /\ l \in Nat /\ l - Below(l, L) \in Nat
  BY <1>1, BelowIs
<1>5. ASSUME NEW l \in L
      PROVE  IsFiniteSet(Reached(P, stake, l)) /\ Cardinality(Reached(P, stake, l)) \in Nat
  <2>1. Reached(P, stake, l) \in SUBSET P BY DEF Reached
  <2> QED BY <2>1, FS_Subset, FS_CardinalityType
<1>6. \A l \in L : At(l).amount \in Nat
  <2>1. \A i, j \in Nat : i * j \in Nat OBVIOUS
  <2> QED BY <1>3, <1>4, <1>5, <2>1
<1> HIDE DEF At
<1>7. IsFiniteSet(layers)
  <2> DEFINE f == [l \in L |-> At(l)]
  <2>1. f \in Surjection(L, layers) BY <1>2 DEF Surjection
  <2> HIDE DEF f, layers
  <2> QED BY <1>1, <2>1, FS_Surjection
<1>8. \A p \in layers : p.amount \in Nat /\ p.level \in L
        /\ p.eligible = {t \in P : stake[t] >= p.level} \cap C
  BY <1>2, <1>3, <1>6
<1> HIDE DEF layers
<1>9. \A p \in layers : amount[p] = p.amount /\ amount[p] \in Nat BY <1>8 DEF Amounts
<1> HIDE DEF amount
<1>10. Right(0)
  <2>1. Lower(0) = {}
    <3>1. ASSUME NEW p \in layers PROVE ~(p.level <= 0)
      <4>1. p.level \in L BY <1>8
      <4>2. p.level \in Nat /\ p.level # 0 BY <1>1, <4>1, Zenon
      <4> QED BY <4>2
    <3> QED BY <3>1 DEF UpTo
  <2>2. \A t \in P : Below_(0)[t] = 0
    <3> SUFFICES ASSUME NEW t \in P PROVE Min({0, stake[t]}) = 0 OBVIOUS
    <3>1. stake[t] \in Nat /\ 0 \in Int /\ 0 <= stake[t] OBVIOUS
    <3> QED BY <3>1, MinOfTwo
  <2> HIDE DEF Below_, Lower
  <2>3. SumFunctionOnSet(Below_(0), P) = 0 BY <2>2, SumOfZeros
  <2> QED BY <2>1, <2>3, SumEmpty
<1>11. ASSUME NEW c \in L, Right(Below(c, L)) PROVE Right(c)
  <2> DEFINE b == Below(c, L)
             R == Reached(P, stake, c)
             more == [t \in P |-> IF t \in R THEN c - b ELSE 0]
  <2>1. /\ b \in Nat /\ c \in Nat /\ b < c /\ (\A k \in L : k < c => k <= b)
        /\ c - b \in Int
    BY <1>1, BelowIs
  <2>2. R \in SUBSET P /\ \A t \in P : t \in R <=> stake[t] >= c BY DEF Reached
  <2> HIDE DEF b, R
  <2>3. Lower(c) = Lower(b) \cup {At(c)} /\ At(c) \notin Lower(b) /\ At(c) \in layers
    <3>1. At(c) \in layers /\ At(c).level = c BY <1>2, <1>3 DEF layers
    <3>2. ASSUME NEW p \in layers PROVE p.level <= c <=> p.level <= b \/ p = At(c)
      <4>1. PICK l \in L : p = At(l) BY <1>2 DEF layers
      <4>2. p.level = l /\ l \in Nat BY <1>1, <1>3, <4>1
      <4>3. l < c => l <= b BY <2>1
      <4>4. l = c => p = At(c) BY <4>1
      <4>5. p = At(c) => l = c BY <4>2, <3>1
      <4> QED BY <2>1, <4>2, <4>3, <4>4, <4>5
    <3> QED BY <2>1, <3>1, <3>2 DEF UpTo
  <2>4. SumFunctionOnSet(amount, Lower(c)) = SumFunctionOnSet(amount, Lower(b)) + amount[At(c)]
    <3>1. Lower(b) \subseteq layers /\ IsFiniteSet(Lower(b)) BY <1>7, FS_Subset DEF UpTo
    <3>2. \A p \in Lower(b) \cup {At(c)} : amount[p] \in Int BY <1>9, <2>3, <3>1
    <3> HIDE DEF Lower
    <3> QED BY <2>3, <3>1, <3>2, SumAdd
  <2>5. amount[At(c)] = (c - b) * Cardinality(R) BY <1>3, <1>9, <2>3 DEF b, R
  <2>6. SumFunctionOnSet(more, P) = (c - b) * Cardinality(R)
    <3>1. \A t \in P : more[t] = IF t \in R THEN c - b ELSE 0 OBVIOUS
    <3> HIDE DEF more
    <3> QED BY <2>1, <2>2, <3>1, SumOfConstant
  <2>7. SumFunctionOnSet(Below_(c), P)
          = SumFunctionOnSet(Below_(b), P) + SumFunctionOnSet(more, P)
    <3>1. ASSUME NEW t \in P
          PROVE  /\ Below_(b)[t] \in Int /\ more[t] \in Int
                 /\ Below_(c)[t] = Below_(b)[t] + more[t]
      <4>1. stake[t] \in Int OBVIOUS
      <4>2. Below_(c)[t] = IF c <= stake[t] THEN c ELSE stake[t] BY <2>1, <4>1, MinOfTwo
      <4>3. Below_(b)[t] = IF b <= stake[t] THEN b ELSE stake[t] BY <2>1, <4>1, MinOfTwo
      <4>4. more[t] = IF stake[t] >= c THEN c - b ELSE 0 BY <2>2
      <4>5. stake[t] < c => stake[t] <= b BY <1>1, <2>1
      <4> HIDE DEF Below_, more
      <4> QED BY <2>1, <4>1, <4>2, <4>3, <4>4, <4>5
    <3> HIDE DEF Below_, more
    <3> QED BY <3>1, SumOfSums
  <2> QED BY <1>11, <2>4, <2>5, <2>6, <2>7 DEF b
<1> HIDE DEF Right
<1>12. \A c \in L \cup {0} : Right(c)
  <2> DEFINE W == {c \in L \cup {0} : ~Right(c)}
  <2> SUFFICES ASSUME W # {} PROVE FALSE OBVIOUS
  <2>1. W \in SUBSET Nat
    <3>1. \A c \in W : c \in L \/ c = 0 OBVIOUS
    <3>2. 0 \in Nat /\ \A l \in L : l \in Nat BY <1>1
    <3> QED BY <3>1, <3>2, Zenon
  <2>2. PICK c \in W : \A k \in W : c <= k BY <2>1, LeastExists
  <2>3. c \in L /\ ~Right(c) BY <1>10
  <2>4. Below(c, L) \in L \cup {0} /\ Below(c, L) < c /\ Below(c, L) \in Nat /\ c \in Nat
    BY <1>1, <2>3, BelowIs
  <2>5. Below(c, L) \notin W BY <2>2, <2>4
  <2> QED BY <1>11, <2>3, <2>4, <2>5
<1> QED BY <1>7, <1>8, <1>12 DEF L, Right, Matched, layers, amount

OpenTo(pots, s) == {p \in pots : s \in p.eligible}

(* The side pots of a table: who may win a pot may win those of all lower  *)
(* stakes too, and the pots open to a player hold what the others matched  *)
(* of his stake, and the money nobody at the table staked.                 *)
LEMMA OpenPots ==
    ASSUME NEW P, IsFiniteSet(P), NEW stake \in [P -> Nat], NEW C, C # {}, NEW pot \in Int,
           SumFunctionOnSet(stake, P) <= pot
    PROVE  /\ IsFiniteSet(SidePots(P, stake, pot, C))
           /\ \A p \in SidePots(P, stake, pot, C) : p.amount \in Nat /\ p.eligible \subseteq C
           /\ \A s \in P :
                SumFunctionOnSet(Amounts(SidePots(P, stake, pot, C)),
                                 OpenTo(SidePots(P, stake, pot, C), s))
                  <= Matched(P, stake, stake[s]) + (pot - SumFunctionOnSet(stake, P))
           /\ \A s \in P, t \in P \cap C, p \in SidePots(P, stake, pot, C) :
                s \in p.eligible /\ stake[s] <= stake[t] => t \in p.eligible
<1> DEFINE L == Levels(P, stake)
           layers == LayersOf(P, stake, C)
           amountOf == Amounts(layers)
           total == SumFunctionOnSet(stake, P)
           top == Max(L \cup {0})
           rest == [level |-> top + 1, amount |-> pot - total, eligible |-> C]
           pots == SidePots(P, stake, pot, C)
           amount == Amounts(pots)
           Match_(c) == Matched(P, stake, c)
           Lower(c) == UpTo(layers, c)
<1>1. /\ IsFiniteSet(L) /\ (\A l \in L : l \in Nat /\ l # 0)
      /\ \A t \in P : stake[t] \in Nat /\ (stake[t] = 0 \/ stake[t] \in L)
  <2>1. \A t \in P : stake[t] \in Nat OBVIOUS
  <2>2. IsFiniteSet(L) /\ L \in SUBSET (Nat \ {0}) /\ \A t \in P : stake[t] = 0 \/ stake[t] \in L
    BY <2>1, LevelsAreStakes
  <2> HIDE DEF L
  <2> QED BY <2>1, <2>2
<1>2. /\ IsFiniteSet(layers)
      /\ \A p \in layers : p.amount \in Nat /\ p.level \in L
                             /\ p.eligible = {t \in P : stake[t] >= p.level} \cap C
      /\ \A c \in L \cup {0} : SumFunctionOnSet(amountOf, Lower(c)) = Match_(c)
  <2>1. \A t \in P : stake[t] \in Nat BY <1>1
  <2> QED BY <2>1, LayersUpTo
<1>3. top \in L \cup {0} /\ top \in Nat /\ \A x \in L \cup {0} : x <= top
  <2> DEFINE B == L \cup {0}
  <2> HIDE DEF L
  <2>1. \A x \in B : x \in Nat BY <1>1
  <2>2. IsFiniteSet(B) BY <1>1, FS_AddElement
  <2>3. B \in SUBSET Int /\ B # {} BY <2>1
  <2> HIDE DEF B
  <2>4. Max(B) \in B /\ \A x \in B : x <= Max(B) BY <2>2, <2>3, MaxIsGreatest
  <2>5. Max(B) \in Nat BY <2>1, <2>4
  <2> QED BY <2>4, <2>5 DEF B
<1> HIDE DEF L, top
<1>4. total \in Int /\ \A c : c \in L \cup {0} => Match_(c) \in Int
  <2>1. total \in Int
    <3>1. \A t \in P : stake[t] \in Int OBVIOUS
    <3> QED BY <3>1, SumType
  <2>2. ASSUME NEW c \in L \cup {0} PROVE Match_(c) \in Int
    <3>1. ASSUME NEW t \in P PROVE [x \in P |-> Min({c, stake[x]})][t] \in Int
      <4>1. c \in Int /\ stake[t] \in Int BY <1>1
      <4> QED BY <4>1, MinOfTwo
    <3> QED BY <3>1, SumType DEF Matched
  <2> QED BY <2>1, <2>2
<1>5. Total(layers) = total
  <2>1. Lower(top) = layers
    <3>1. \A p \in layers : p.level <= top BY <1>2, <1>3
    <3> QED BY <3>1 DEF UpTo
  <2>2. Match_(top) = total
    <3>1. ASSUME NEW t \in P
          PROVE  [x \in P |-> Min({top, stake[x]})][t] = stake[t] /\ stake[t] \in Int
      <4>1. stake[t] \in Int /\ stake[t] <= top /\ top \in Int BY <1>1, <1>3
      <4>2. Min({top, stake[t]}) = stake[t] BY <4>1, MinOfTwo
      <4> QED BY <4>1, <4>2
    <3>2. \A t \in P : [x \in P |-> Min({top, stake[x]})][t] = stake[t]
                         /\ [x \in P |-> Min({top, stake[x]})][t] \in Int
      BY <3>1
    <3> QED BY <3>2, SumSame DEF Matched
  <2>3. SumFunctionOnSet(amountOf, Lower(top)) = Match_(top) BY <1>2, <1>3
  <2>4. Total(layers) = SumFunctionOnSet(amountOf, layers) BY DEF Total, Amounts
  <2> HIDE DEF Lower, Match_, amountOf
  <2> QED BY <2>1, <2>2, <2>3, <2>4
<1>6. pots = layers \cup (IF pot > total THEN {rest} ELSE {})
  BY <1>5 DEF SidePots, LayersOf, L, top
<1> HIDE DEF layers, pots, total
<1>7. rest \notin layers
  <2>1. \A p \in layers : p.level <= top /\ p.level \in Nat BY <1>1, <1>2, <1>3
  <2>2. rest.level = top + 1 OBVIOUS
  <2> QED BY <1>3, <2>1, <2>2
<1>8. IsFiniteSet(pots)
  <2> HIDE DEF rest
  <2>1. IsFiniteSet(layers \cup {rest}) BY <1>2, FS_AddElement
  <2>2. layers \cup {} = layers OBVIOUS
  <2> QED BY <1>2, <1>6, <2>1, <2>2
<1>9. \A p \in pots : p.amount \in Nat /\ p.eligible \subseteq C
  <2>1. pot > total => pot - total \in Nat BY <1>4
  <2>2. rest.amount = pot - total /\ rest.eligible = C OBVIOUS
  <2> HIDE DEF rest
  <2>3. \A p \in layers : p.amount \in Nat /\ p.eligible \subseteq C BY <1>2
  <2> QED BY <1>6, <2>1, <2>2, <2>3
<1>10. ASSUME NEW s \in P
       PROVE  SumFunctionOnSet(amount, OpenTo(pots, s))
                <= Match_(stake[s]) + (pot - total)
  <2> DEFINE c == stake[s]
             mine == OpenTo(pots, s)
             lower == Lower(c)
             more == IF pot > total THEN {rest} ELSE {}
             all == lower \cup more
  <2>1. c \in L \cup {0} BY <1>1
  <2>2. mine \subseteq all
    <3>1. \A p \in layers : s \in p.eligible => p.level <= c
      <4>1. \A p \in layers : p.level \in Int BY <1>1, <1>2
      <4>2. c \in Int BY <1>1
      <4> QED BY <1>2, <4>1, <4>2
    <3> QED BY <1>6, <3>1 DEF UpTo, OpenTo
  <2>3. all \subseteq pots /\ lower \subseteq layers /\ IsFiniteSet(all) /\ IsFiniteSet(lower)
    <3>1. all \subseteq pots BY <1>6 DEF UpTo
    <3>2. lower \subseteq layers BY DEF UpTo
    <3> QED BY <1>2, <1>8, <3>1, <3>2, FS_Subset
  <2>4. \A p \in all : amount[p] \in Nat
    <3>1. \A p \in pots : amount[p] = p.amount BY DEF Amounts
    <3> HIDE DEF all, amount
    <3> QED BY <1>9, <2>3, <3>1
  <2>5. SumFunctionOnSet(amount, mine) <= SumFunctionOnSet(amount, all)
    <3> HIDE DEF mine, all, amount
    <3> QED BY <2>2, <2>3, <2>4, SumOfFewer
  <2>6. SumFunctionOnSet(amount, lower) = Match_(c)
    <3>1. \A p \in lower : amount[p] = amountOf[p] /\ amount[p] \in Int
      <4>1. \A p \in lower : p \in layers /\ p \in pots BY <2>3
      <4> HIDE DEF lower, all
      <4>2. \A p \in lower : amount[p] = p.amount /\ amountOf[p] = p.amount
        BY <4>1 DEF Amounts
      <4>3. \A p \in lower : p.amount \in Int BY <1>2, <4>1
      <4> QED BY <4>2, <4>3
    <3>2. SumFunctionOnSet(amount, lower) = SumFunctionOnSet(amountOf, lower)
      <4> HIDE DEF amount, amountOf, lower
      <4> QED BY <2>3, <3>1, SumSame
    <3>3. SumFunctionOnSet(amountOf, Lower(c)) = Match_(c) BY <1>2, <2>1
    <3> QED BY <3>2, <3>3
  <2>7. SumFunctionOnSet(amount, all) = Match_(c) + (pot - total)
    <3>1. CASE pot > total
      <4>1. all = lower \cup {rest} /\ rest \notin lower BY <1>7, <2>3, <3>1
      <4>2. amount[rest] = pot - total
        <5>1. rest \in pots BY <1>6, <3>1
        <5> QED BY <5>1 DEF Amounts
      <4>3. \A p \in lower \cup {rest} : amount[p] \in Int BY <2>4, <4>1
      <4>4. SumFunctionOnSet(amount, lower \cup {rest})
              = SumFunctionOnSet(amount, lower) + amount[rest]
        <5> HIDE DEF amount, lower, rest
        <5> QED BY <2>3, <4>1, <4>3, SumAdd
      <4> QED BY <2>6, <4>1, <4>2, <4>4
    <3>2. CASE ~(pot > total)
      <4>1. all = lower BY <3>2
      <4>2. pot - total = 0 BY <1>4, <3>2 DEF total
      <4>3. Match_(c) + 0 = Match_(c)
        <5> DEFINE m == Match_(c)
        <5>1. m \in Int BY <1>4, <2>1
        <5> HIDE DEF m
        <5>2. m + 0 = m BY <5>1
        <5> QED BY <5>2 DEF m
      <4> QED BY <2>6, <4>1, <4>2, <4>3
    <3> QED BY <3>1, <3>2
  <2> QED BY <2>5, <2>7
<1>11. ASSUME NEW s \in P, NEW t \in P \cap C, NEW p \in pots,
              s \in p.eligible, stake[s] <= stake[t]
       PROVE  t \in p.eligible
  <2>1. CASE p \in layers
    <3>1. p.level \in Int /\ stake[s] \in Int /\ stake[t] \in Int BY <1>1, <1>2, <2>1
    <3>2. stake[s] >= p.level BY <1>2, <1>11, <2>1
    <3>3. stake[t] >= p.level BY <1>11, <3>1, <3>2
    <3> QED BY <1>2, <2>1, <3>3
  <2>2. CASE p = rest BY <2>2
  <2> QED BY <1>6, <2>1, <2>2
<1> QED BY <1>8, <1>9, <1>10, <1>11 DEF pots, total

(* A share is no more than the pot, and only winners have one.             *)
LEMMA ShareIsBounded ==
    ASSUME NEW a \in Nat, NEW W \in SUBSET Seat, W # {}, NEW s \in W
    PROVE  /\ SplitAmount(a - RakeOf(a), W)[s] \in Int
           /\ SplitAmount(a - RakeOf(a), W)[s] <= a
<1> DEFINE n == Cardinality(W)
           b == a - RakeOf(a)
           q == b \div n
           m == b % n
           k == Cardinality({t \in W : t < s})
<1>1. n \in Nat /\ n >= 1
  <2>1. IsFiniteSet(Seat) BY NAssumption, FS_Interval DEF Seat
  <2>2. IsFiniteSet(W) BY <2>1, FS_Subset
  <2> QED BY <2>2, FS_CardinalityType, FS_EmptySet
<1>2. b \in Int /\ b <= a
  <2>1. RakeOf(a) \in Nat
    <3>1. a + 1999 \in Nat OBVIOUS
    <3>2. (a + 1999) \div 2000 \in Nat BY <3>1
    <3> QED BY <3>2 DEF RakeOf
  <2> QED BY <2>1
<1>7. k \in Nat
  <2>1. {t \in W : t < s} \subseteq Seat OBVIOUS
  <2>2. IsFiniteSet({t \in W : t < s})
    <3>1. IsFiniteSet(Seat) BY NAssumption, FS_Interval DEF Seat
    <3> QED BY <2>1, <3>1, FS_Subset
  <2> QED BY <2>2, FS_CardinalityType
<1>3. SplitAmount(b, W)[s] = q + IF k < m THEN 1 ELSE 0 BY DEF SplitAmount
<1> HIDE DEF n, b, k
<1>4. q \in Int /\ m \in Nat /\ m < n /\ b = q * n + m
  BY <1>1, <1>2
<1> HIDE DEF q, m
<1>5. q + (IF k < m THEN 1 ELSE 0) <= a
  <2>1. CASE q >= 0
    <3>1. q * n >= q
      <4>1. n - 1 \in Nat /\ q \in Nat BY <1>1, <1>4, <2>1
      <4>2. \A i, j \in Nat : i * (j + 1) = i * j + i /\ i * j \in Nat OBVIOUS
      <4>3. q * ((n - 1) + 1) = q * (n - 1) + q /\ q * (n - 1) \in Nat BY <4>1, <4>2
      <4>4. (n - 1) + 1 = n BY <1>1
      <4> QED BY <4>1, <4>3, <4>4
    <3>2. q * n \in Int BY <1>1, <1>4
    <3>3. q + m <= b BY <1>4, <3>1, <3>2
    <3> QED BY <1>2, <1>4, <1>7, <3>3
  <2>2. CASE q < 0 BY <1>4, <2>2
  <2> QED BY <1>4, <2>1, <2>2
<1>6. q + (IF k < m THEN 1 ELSE 0) \in Int BY <1>4
<1> QED BY <1>3, <1>5, <1>6 DEF b

-----------------------------------------------------------------------------
(* What the hand has collected.                                            *)

Playing == BettingPhases \cup {"REVELAR_CARTA", "DECLARAR_JUEGO", "PIQUE_REVEAL"}

(* A table that plays: everybody is there, and the main pot holds what     *)
(* everybody staked.                                                       *)
Bank(r) ==
    /\ r.players = Seat /\ r.connected = Seat /\ r.mano \in Seat
    /\ r.piquePot = 0 /\ ~r.pending /\ r.cleanups = 0
    /\ r.chips \in [Seat -> Int] /\ r.roundBet \in [Seat -> Nat] /\ r.mainBet \in [Seat -> Nat]
    /\ \A s \in Seat : r.roundBet[s] <= r.mainBet[s]
    /\ r.pot \in Nat /\ r.maxBet \in Int
    /\ SumFunctionOnSet(r.mainBet, Seat) <= r.pot

Worth(r) == [s \in Seat |-> r.chips[s] + r.mainBet[s]]

(* A table that plays, where nobody has won since every seat was worth w:  *)
(* what a handler of the hand starts from, and works on until it is done.  *)
Plays(r, w) ==
    /\ Good(r) /\ Bank(r) /\ r.pasoBy = NoSeat /\ ~r.revealTimer
    /\ \A s \in Seat : r.chips[s] + r.mainBet[s] = w[s]

WonSince(r, w, s) == (r.chips[s] + r.mainBet[s]) - w[s]

(* A showdown that is settled as WinningsCovered and BeatenWinNothing ask. *)
Fair(r, w) ==
    /\ r.players = Seat /\ r.piquePot = 0 /\ r.mainBet \in [Seat -> Nat] /\ r.pot \in Int
    /\ \A s \in Seat : WonSince(r, w, s) <= Matched(Seat, r.mainBet, r.mainBet[s])
                                             + (r.pot - SumFunctionOnSet(r.mainBet, Seat))
    /\ \A s, t \in Active(r) :
         WonSince(r, w, s) > 0 /\ r.mainBet[s] <= r.mainBet[t] =>
           WithManoBonus(Hand(r, t), t = r.mano) <= WithManoBonus(Hand(r, s), s = r.mano)

LEMMA SeatsAreFinite == IsFiniteSet(Seat) /\ Seat \subseteq Nat
<1>1. IsFiniteSet(Seat) BY NAssumption, FS_Interval DEF Seat
<1> QED BY <1>1 DEF Seat

LEMMA StakesAreNat ==
    ASSUME NEW stake \in [Seat -> Nat]
    PROVE  SumFunctionOnSet(stake, Seat) \in Nat
<1>1. \A s \in Seat : stake[s] \in Nat OBVIOUS
<1> QED BY <1>1, SeatsAreFinite, SumOfNats

LEMMA MatchedIsNat ==
    ASSUME NEW stake \in [Seat -> Nat], NEW s \in Seat
    PROVE  Matched(Seat, stake, stake[s]) \in Nat
<1> DEFINE f == [t \in Seat |-> Min({stake[s], stake[t]})]
<1>1. ASSUME NEW t \in Seat PROVE f[t] \in Nat
  <2>1. stake[s] \in Nat /\ stake[t] \in Nat OBVIOUS
  <2>2. Min({stake[s], stake[t]}) = IF stake[s] <= stake[t] THEN stake[s] ELSE stake[t]
    BY <2>1, MinOfTwo
  <2> QED BY <2>1, <2>2
<1> HIDE DEF f
<1>2. SumFunctionOnSet(f, Seat) \in Nat BY <1>1, SeatsAreFinite, SumOfNats
<1> QED BY <1>2 DEF Matched, f

(* The side pots of the table.                                             *)
LEMMA TablePots ==
    ASSUME NEW stake \in [Seat -> Nat], NEW pot \in Int, SumFunctionOnSet(stake, Seat) <= pot,
           NEW C, C # {}
    PROVE  /\ IsFiniteSet(SidePots(Seat, stake, pot, C))
           /\ \A p \in SidePots(Seat, stake, pot, C) : p.amount \in Nat /\ p.eligible \subseteq C
           /\ \A s \in Seat :
                SumFunctionOnSet(Amounts(SidePots(Seat, stake, pot, C)),
                                 OpenTo(SidePots(Seat, stake, pot, C), s))
                  <= Matched(Seat, stake, stake[s]) + (pot - SumFunctionOnSet(stake, Seat))
           /\ \A s \in Seat, t \in Seat \cap C, p \in SidePots(Seat, stake, pot, C) :
                s \in p.eligible /\ stake[s] <= stake[t] => t \in p.eligible
<1>1. IsFiniteSet(SidePots(Seat, stake, pot, C)) BY SeatsAreFinite, OpenPots
<1>2. \A p \in SidePots(Seat, stake, pot, C) : p.amount \in Nat /\ p.eligible \subseteq C
  BY SeatsAreFinite, OpenPots
<1>3. \A s \in Seat :
        SumFunctionOnSet(Amounts(SidePots(Seat, stake, pot, C)),
                         OpenTo(SidePots(Seat, stake, pot, C), s))
          <= Matched(Seat, stake, stake[s]) + (pot - SumFunctionOnSet(stake, Seat))
  BY SeatsAreFinite, OpenPots
<1>4. \A s \in Seat, t \in Seat \cap C, p \in SidePots(Seat, stake, pot, C) :
        s \in p.eligible /\ stake[s] <= stake[t] => t \in p.eligible
  BY SeatsAreFinite, OpenPots
<1> QED BY <1>1, <1>2, <1>3, <1>4

LEMMA SettleIsFair ==
    ASSUME NEW r, NEW w, Plays(r, w), NEW C, C = Seat \ r.folded, C # {}
    PROVE  Fair(SettleShowdown(r, C), w)
<1> DEFINE pots == SidePots(Seat, r.mainBet, r.pot, C)
           paidPots == {p \in pots : p.eligible # {}}
           winners == UNION {PotWinners(r, p) : p \in paidPots}
           share(s) == [p \in paidPots |-> PotShare(r, p, s)]
           won(s) == SumFunctionOnSet(share(s), paidPots)
           result == SettleShowdown(r, C)
           Value(s) == WithManoBonus(Hand(r, s), s = r.mano)
           total == SumFunctionOnSet(r.mainBet, Seat)
<1>1. /\ DOMAIN r = Fields /\ r.players = Seat /\ r.connected = Seat /\ r.mano \in Seat
      /\ r.piquePot = 0 /\ r.pot \in Int /\ total <= r.pot
      /\ r.cards \in [Seat -> 0..MaxHand] /\ r.chips \in [Seat -> Int]
      /\ r.mainBet \in [Seat -> Nat]
      /\ \A s \in Seat : r.chips[s] + r.mainBet[s] = w[s]
  BY DEF Plays, Bank, Good, RoomOK
<1>2. /\ IsFiniteSet(pots)
      /\ \A p \in pots : p.amount \in Nat /\ p.eligible \subseteq C
      /\ \A s \in Seat : SumFunctionOnSet(Amounts(pots), OpenTo(pots, s))
                           <= Matched(Seat, r.mainBet, r.mainBet[s]) + (r.pot - total)
      /\ \A s \in Seat, t \in Seat \cap C, p \in pots :
           s \in p.eligible /\ r.mainBet[s] <= r.mainBet[t] => t \in p.eligible
  <2>1. /\ r.mainBet \in [Seat -> Nat] /\ r.pot \in Int
        /\ SumFunctionOnSet(r.mainBet, Seat) <= r.pot /\ C # {}
    BY <1>1
  <2> QED BY <2>1, TablePots
<1>3. /\ result.players = Seat /\ result.piquePot = 0 /\ result.mainBet = r.mainBet
      /\ result.pot = r.pot /\ result.mano = r.mano /\ result.cards = r.cards
      /\ result.folded = r.folded /\ result.connected = Seat
  BY <1>1 DEF SettleShowdown, PayTogether, Fields
<1> HIDE DEF pots
<1>4. ASSUME NEW s \in Seat, NEW p \in paidPots
      PROVE  /\ share(s)[p] \in Int
             /\ share(s)[p] <= IF s \in p.eligible THEN p.amount ELSE 0
             /\ share(s)[p] > 0 =>
                  s \in p.eligible /\ \A t \in p.eligible : Value(t) <= Value(s)
  <2> DEFINE W == PotWinners(r, p)
  <2>1. /\ p.eligible \in SUBSET Seat /\ p.eligible # {} /\ p.amount \in Nat BY <1>2
  <2>2. W # {} /\ W \in SUBSET Seat /\ W \subseteq p.eligible
    <3> DEFINE eval == [x \in Seat |-> Hand(r, x)]
    <3>1. eval \in [Seat -> 0..MaxHand] BY <1>1 DEF Hand, NINGUNA, MaxHand
    <3>2. W = ResolveHandWinners(p.eligible, eval, r.mano)
      <4>1. r.mano # NoSeat BY <1>1 DEF Seat, NoSeat
      <4> QED BY <4>1 DEF PotWinners
    <3> HIDE DEF eval, W
    <3> QED BY <2>1, <3>1, <3>2, SomebodyWins
  <2>3. share(s)[p] = PotShare(r, p, s) OBVIOUS
  <2>4. CASE s \in W
    <3>1. share(s)[p] = SplitAmount(p.amount - RakeOf(p.amount), W)[s]
      BY <2>3, <2>4 DEF PotShare
    <3>2. /\ SplitAmount(p.amount - RakeOf(p.amount), W)[s] \in Int
          /\ SplitAmount(p.amount - RakeOf(p.amount), W)[s] <= p.amount
      <4> HIDE DEF W
      <4> QED BY <2>1, <2>2, <2>4, ShareIsBounded
    <3>3. \A t \in p.eligible : Value(t) <= Value(s)
      <4>1. r.mano # NoSeat BY <1>1 DEF Seat, NoSeat
      <4>2. \A t \in p.eligible : Value(s) >= Value(t)
        BY <2>1, <2>2, <2>4, <4>1 DEF PotWinners, ResolveHandWinners
      <4> HIDE DEF Value
      <4> QED BY <4>2
    <3> HIDE DEF share, W, Value
    <3> QED BY <2>2, <2>4, <3>1, <3>2, <3>3
  <2>5. CASE s \notin W
    <3>1. share(s)[p] = 0 BY <2>3, <2>5 DEF PotShare
    <3> HIDE DEF share, Value
    <3> QED BY <2>1, <3>1
  <2> QED BY <2>4, <2>5
<1> HIDE DEF share
<1>5. IsFiniteSet(paidPots) /\ paidPots \subseteq pots
  <2>1. paidPots \subseteq pots OBVIOUS
  <2> HIDE DEF paidPots
  <2> QED BY <1>2, <2>1, FS_Subset
<1>6. \A s \in Seat : won(s) \in Int
  <2> HIDE DEF paidPots
  <2> QED BY <1>4, <1>5, SumType
<1>7. \A s \in Seat : WonSince(result, w, s) = IF s \in winners THEN won(s) ELSE 0
  <2> DEFINE payout == Payouts(r, paidPots)
             paid == {s \in DOMAIN payout : payout[s] # 0}
  <2>1. DOMAIN payout = winners /\ \A s \in winners : payout[s] = won(s)
    <3>1. r.piquePot - RakeOf(r.piquePot) = 0 BY <1>1 DEF RakeOf
    <3>2. DOMAIN payout = winners BY DEF Payouts
    <3>3. winners \subseteq Seat
      <4>1. \A p \in paidPots : PotWinners(r, p) \subseteq p.eligible
        BY DEF PotWinners, ResolveHandWinners
      <4>2. \A p \in paidPots : p.eligible \subseteq Seat BY <1>2, <1>5
      <4> QED BY <4>1, <4>2
    <3>4. ASSUME NEW s \in winners PROVE payout[s] = won(s)
      <4>1. payout[s] = won(s) + (IF s = Min(PotWinners(r, CHOOSE p \in paidPots : \A q \in paidPots : q.level <= p.level))
                                       /\ r.piquePot - RakeOf(r.piquePot) > 0
                                  THEN r.piquePot - RakeOf(r.piquePot) ELSE 0)
        BY DEF Payouts, share
      <4>2. won(s) \in Int BY <1>6, <3>3
      <4> HIDE DEF won, payout
      <4> QED BY <3>1, <4>1, <4>2
    <3> QED BY <3>2, <3>4
  <2>2. \A s \in Seat : result.chips[s] = IF s \in paid THEN r.chips[s] + payout[s] ELSE r.chips[s]
    <3> DEFINE shown == [r EXCEPT !.turnTimer = FALSE, !.autoTimer = TRUE, !.pending = TRUE]
    <3>1. shown.chips = r.chips /\ DOMAIN shown = Fields BY <1>1 DEF Fields
    <3>2. result = PayTogether(shown, payout, Ref("showdown")) BY <1>1 DEF SettleShowdown, pots
    <3> HIDE DEF shown, result, payout
    <3>3. result.chips = [s \in Seat |-> IF s \in paid THEN shown.chips[s] + payout[s] ELSE shown.chips[s]]
      BY <3>1, <3>2 DEF PayTogether, Fields
    <3> QED BY <3>1, <3>3
  <2> HIDE DEF payout, winners, won, result
  <2> SUFFICES ASSUME NEW s \in Seat
               PROVE  WonSince(result, w, s) = IF s \in winners THEN won(s) ELSE 0
    OBVIOUS
  <2>3. r.chips[s] \in Int /\ r.mainBet[s] \in Int /\ won(s) \in Int /\ w[s] = r.chips[s] + r.mainBet[s]
    BY <1>1, <1>6
  <2>4. result.chips[s] = IF s \in winners THEN r.chips[s] + won(s) ELSE r.chips[s]
    BY <2>1, <2>2, <2>3
  <2> QED BY <1>3, <2>3, <2>4 DEF WonSince
<1> HIDE DEF result, winners
<1>8. ASSUME NEW s \in Seat
      PROVE  won(s) <= Matched(Seat, r.mainBet, r.mainBet[s]) + (r.pot - total)
  <2> DEFINE open == [p \in pots |-> IF s \in p.eligible THEN p.amount ELSE 0]
  <2>1. /\ \A p \in pots : open[p] \in Nat /\ open[p] \in Int
        /\ \A p \in pots \ OpenTo(pots, s) : open[p] = 0
        /\ \A p \in OpenTo(pots, s) : open[p] = Amounts(pots)[p] /\ open[p] \in Int
        /\ \A p \in paidPots : open[p] = IF s \in p.eligible THEN p.amount ELSE 0
    BY <1>2, <1>5 DEF Amounts, OpenTo
  <2> HIDE DEF open
  <2>2. won(s) <= SumFunctionOnSet(open, paidPots)
    <3>1. \A p \in paidPots : share(s)[p] \in Int /\ open[p] \in Int /\ share(s)[p] <= open[p]
      BY <1>4, <1>5, <2>1
    <3> HIDE DEF paidPots
    <3> QED BY <1>5, <3>1, SumMonotone
  <2>3. SumFunctionOnSet(open, paidPots) <= SumFunctionOnSet(open, pots)
    <3> HIDE DEF paidPots
    <3> QED BY <1>2, <1>5, <2>1, SumOfFewer
  <2>4. OpenTo(pots, s) \subseteq pots /\ IsFiniteSet(OpenTo(pots, s))
    <3>1. OpenTo(pots, s) \subseteq pots BY DEF OpenTo
    <3> QED BY <1>2, <3>1, FS_Subset
  <2>5. SumFunctionOnSet(open, pots) = SumFunctionOnSet(open, OpenTo(pots, s))
    BY <1>2, <2>1, <2>4, SumOfPart
  <2>6. SumFunctionOnSet(open, OpenTo(pots, s)) = SumFunctionOnSet(Amounts(pots), OpenTo(pots, s))
    BY <2>1, <2>4, SumSame
  <2> DEFINE x == won(s)
             y == SumFunctionOnSet(open, paidPots)
             z == SumFunctionOnSet(open, pots)
             u == Matched(Seat, r.mainBet, r.mainBet[s]) + (r.pot - total)
  <2>7. x \in Int /\ y \in Int /\ z \in Int
    <3>1. \A p \in paidPots : open[p] \in Int BY <1>5, <2>1
    <3> HIDE DEF paidPots
    <3> QED BY <1>2, <1>5, <1>6, <2>1, <3>1, SumType
  <2>8. u \in Int
    <3>1. Matched(Seat, r.mainBet, r.mainBet[s]) \in Nat BY <1>1, MatchedIsNat
    <3>2. total \in Int BY <1>1, StakesAreNat
    <3> HIDE DEF total
    <3> QED BY <1>1, <3>1, <3>2
  <2>9. x <= y /\ y <= z /\ z <= u BY <1>2, <2>2, <2>3, <2>5, <2>6
  <2> HIDE DEF x, y, z, u
  <2>10. x <= u BY <2>7, <2>8, <2>9
  <2> QED BY <2>10 DEF x, u
<1>9. ASSUME NEW s \in Seat
      PROVE  0 <= Matched(Seat, r.mainBet, r.mainBet[s]) + (r.pot - total)
  <2>1. Matched(Seat, r.mainBet, r.mainBet[s]) \in Nat BY <1>1, MatchedIsNat
  <2>2. total \in Int BY <1>1, StakesAreNat
  <2> HIDE DEF total
  <2> QED BY <1>1, <2>1, <2>2
<1>10. \A s \in Seat : WonSince(result, w, s) <= Matched(Seat, result.mainBet, result.mainBet[s])
                             + (result.pot - SumFunctionOnSet(result.mainBet, Seat))
  <2> HIDE DEF won
  <2> QED BY <1>3, <1>7, <1>8, <1>9
<1>11. ASSUME NEW s \in Active(result), NEW t \in Active(result),
              WonSince(result, w, s) > 0, result.mainBet[s] <= result.mainBet[t]
       PROVE  WithManoBonus(Hand(result, t), t = result.mano)
                <= WithManoBonus(Hand(result, s), s = result.mano)
  <2>1. s \in Seat /\ t \in Seat /\ s \in C /\ t \in C BY <1>3 DEF Active
  <2>2. won(s) > 0
    <3> HIDE DEF won
    <3> QED BY <1>7, <1>11, <2>1
  <2>3. PICK p \in paidPots : share(s)[p] > 0
    <3> SUFFICES ASSUME \A p \in paidPots : ~(share(s)[p] > 0) PROVE FALSE OBVIOUS
    <3> DEFINE none == [p \in paidPots |-> 0]
    <3>1. \A p \in paidPots : share(s)[p] \in Int /\ none[p] \in Int /\ share(s)[p] <= none[p]
      BY <1>4, <2>1
    <3>2. \A p \in paidPots : none[p] = 0 OBVIOUS
    <3> HIDE DEF none, paidPots
    <3>3. SumFunctionOnSet(share(s), paidPots) <= SumFunctionOnSet(none, paidPots)
      BY <1>5, <3>1, SumMonotone
    <3>4. SumFunctionOnSet(none, paidPots) = 0 BY <1>5, <3>2, SumOfZeros
    <3>5. won(s) \in Int BY <1>6, <2>1
    <3>6. won(s) <= 0 BY <3>3, <3>4
    <3> HIDE DEF won
    <3> QED BY <2>2, <3>5, <3>6
  <2>4. s \in p.eligible /\ \A x \in p.eligible : Value(x) <= Value(s) BY <1>4, <2>1, <2>3
  <2>5. t \in p.eligible BY <1>2, <1>3, <1>5, <1>11, <2>1, <2>4
  <2>6. Value(t) <= Value(s) BY <2>4, <2>5
  <2> QED BY <1>3, <2>6 DEF Hand
<1> QED BY <1>1, <1>3, <1>10, <1>11 DEF Fair, result

(* Nothing of it is in the turn, the flags or the phase.                   *)
MoneyFields == {"players", "connected", "piquePot", "pending", "cleanups", "chips", "roundBet",
                "mainBet", "pot", "maxBet", "revealTimer", "pasoBy"}

LEMMA SameMoneyPlays ==
    ASSUME NEW r, NEW w, Plays(r, w), NEW q, Good(q),
           \A f \in MoneyFields : q[f] = r[f], q.mano \in Seat
    PROVE  Plays(q, w)
<1>1. /\ q.players = r.players /\ q.connected = r.connected /\ q.piquePot = r.piquePot
      /\ q.pending = r.pending /\ q.cleanups = r.cleanups /\ q.chips = r.chips
      /\ q.roundBet = r.roundBet /\ q.mainBet = r.mainBet /\ q.pot = r.pot
      /\ q.maxBet = r.maxBet /\ q.revealTimer = r.revealTimer /\ q.pasoBy = r.pasoBy
  BY DEF MoneyFields
<1> QED BY <1>1 DEF Plays, Bank

LEMMA PlaysIsGood ==
    ASSUME NEW r, NEW w, Plays(r, w)
    PROVE  Good(r) /\ DOMAIN r = Fields /\ r.mano \in Seat
BY DEF Plays, Bank, Good, RoomOK

LEMMA ClearTurnTimerPlays ==
    ASSUME NEW r, NEW w, Plays(r, w) PROVE Plays(ClearTurnTimer(r), w)
<1>1. Good(ClearTurnTimer(r)) BY PlaysIsGood, ClearTurnTimerGood
<1>2. ClearTurnTimer(r).mano \in Seat /\ \A f \in MoneyFields : ClearTurnTimer(r)[f] = r[f]
  BY PlaysIsGood DEF ClearTurnTimer, MoneyFields, Fields
<1> QED BY <1>1, <1>2, SameMoneyPlays

LEMMA GiveTurnPlays ==
    ASSUME NEW r, NEW w, Plays(r, w), NEW s \in Seat PROVE Plays(GiveTurn(r, s), w)
<1>1. Good(GiveTurn(r, s)) BY PlaysIsGood, GiveTurnGood
<1>2. GiveTurn(r, s).mano \in Seat /\ \A f \in MoneyFields : GiveTurn(r, s)[f] = r[f]
  BY PlaysIsGood DEF GiveTurn, MoneyFields, Fields
<1> QED BY <1>1, <1>2, SameMoneyPlays

LEMMA TransferManoPlays ==
    ASSUME NEW r, NEW w, Plays(r, w) PROVE Plays(TransferMano(r), w)
<1> DEFINE heirs == SeatOrder(r) \cap Active(r)
<1>1. Good(TransferMano(r)) BY PlaysIsGood, TransferManoGood
<1>2. heirs \in SUBSET Seat BY PlaysIsGood, GroupsAreSeats
<1>3. CASE r.mano \in SeatOrder(r) /\ heirs # {}
  <2>1. FirstAfter(r.mano, heirs) \in Seat BY <1>2, <1>3, PlaysIsGood, FirstIsFound
  <2>2. TransferMano(r) = [r EXCEPT !.mano = FirstAfter(r.mano, heirs)] BY <1>3 DEF TransferMano
  <2> HIDE DEF heirs
  <2>3. TransferMano(r).mano \in Seat /\ \A f \in MoneyFields : TransferMano(r)[f] = r[f]
    BY <2>1, <2>2, PlaysIsGood DEF MoneyFields, Fields
  <2> QED BY <1>1, <2>3, SameMoneyPlays
<1>4. CASE ~(r.mano \in SeatOrder(r) /\ heirs # {}) BY <1>4 DEF TransferMano
<1> QED BY <1>3, <1>4

LEMMA FoldAndPassManoPlays ==
    ASSUME NEW r, NEW w, Plays(r, w), NEW s \in Seat PROVE Plays(FoldAndPassMano(r, s), w)
<1> DEFINE folded  == [r EXCEPT !.folded = @ \cup {s}, !.acted = @ \cup {s}]
           rotated == AttemptManoRotation(folded, s)
<1>1. DOMAIN folded = Fields /\ folded.mano \in Seat /\ \A f \in MoneyFields : folded[f] = r[f]
  BY PlaysIsGood DEF MoneyFields, Fields
<1>2. Good(folded)
  <2>1. Good(r) BY PlaysIsGood
  <2> QED BY <2>1 DEF Good, RoomOK, Match, Owned, Fields, Groups, Maps, Flags, IsSeatMap
<1>3. FoldAndPassMano(r, s) = IF s = r.mano THEN TransferMano(rotated) ELSE rotated
  BY Zenon DEF FoldAndPassMano, folded, rotated
<1> HIDE DEF folded
<1>4. rotated.mano \in Seat /\ \A f \in MoneyFields : rotated[f] = r[f]
  BY <1>1 DEF AttemptManoRotation, NextDealer, MoneyFields, Fields
<1>5. Good(rotated) BY <1>2, AttemptManoRotationGood
<1> HIDE DEF rotated
<1>6. Plays(rotated, w) BY <1>4, <1>5, SameMoneyPlays
<1> QED BY <1>3, <1>6, TransferManoPlays

LEMMA CollectPlayerCardsPlays ==
    ASSUME NEW r, NEW w, Plays(r, w), NEW s \in Seat PROVE Plays(CollectPlayerCards(r, s), w)
<1>1. Good(CollectPlayerCards(r, s)) BY PlaysIsGood, CollectPlayerCardsGood
<1>2. /\ CollectPlayerCards(r, s).mano \in Seat
      /\ \A f \in MoneyFields : CollectPlayerCards(r, s)[f] = r[f]
  BY PlaysIsGood DEF CollectPlayerCards, MoneyFields, Fields
<1> QED BY <1>1, <1>2, SameMoneyPlays

LEMMA MarkDisconnectedPlays ==
    ASSUME NEW r, NEW w, Plays(r, w) PROVE Plays(MarkDisconnectedAsImplicitAllIn(r), w)
<1> DEFINE q == MarkDisconnectedAsImplicitAllIn(r)
<1>1. Good(q) BY PlaysIsGood, MarkDisconnectedGood
<1>2. q.mano \in Seat /\ \A f \in MoneyFields : q[f] = r[f]
  BY PlaysIsGood DEF MarkDisconnectedAsImplicitAllIn, MoneyFields, Fields
<1> QED BY <1>1, <1>2, SameMoneyPlays

(* The refund of an uncalled bet takes it back from the stake and the pot. *)
LEMMA ReturnUncalledPlays ==
    ASSUME NEW r, NEW w, Plays(r, w), NEW s \in Seat, NEW u \in Nat, u # 0, u <= r.roundBet[s]
    PROVE  Plays(ReturnUncalled(r, s, u), w)
<1> DEFINE q == ReturnUncalled(r, s, u)
           paid == PayPlayer(r, s, u, Ref("uncalled"))
<1>1. /\ Good(r) /\ DOMAIN r = Fields /\ r.mano \in Seat /\ r.players = Seat /\ r.connected = Seat
      /\ r.piquePot = 0 /\ ~r.pending /\ r.cleanups = 0 /\ ~r.revealTimer /\ r.pasoBy = NoSeat
      /\ r.chips \in [Seat -> Int] /\ r.roundBet \in [Seat -> Nat] /\ r.mainBet \in [Seat -> Nat]
      /\ \A t \in Seat : r.roundBet[t] <= r.mainBet[t]
      /\ \A t \in Seat : r.chips[t] + r.mainBet[t] = w[t]
      /\ r.pot \in Nat /\ r.maxBet \in Int /\ SumFunctionOnSet(r.mainBet, Seat) <= r.pot
  BY PlaysIsGood DEF Plays, Bank
<1>2. Good(q) BY <1>1, ReturnUncalledGood
<1>3. /\ DOMAIN paid = Fields /\ paid.chips = [r.chips EXCEPT ![s] = @ + u]
      /\ \A f \in Fields \ {"chips", "balance", "refs", "skewed"} : paid[f] = r[f]
  BY <1>1 DEF PayPlayer, LedgerCredit, Fields
<1> HIDE DEF paid
<1>4. q = [paid EXCEPT !.roundBet[s] = @ - u, !.mainBet[s] = @ - u,
                       !.pot = IF @ >= u THEN @ - u ELSE 0]
  BY DEF ReturnUncalled, paid
<1>5. /\ q.players = Seat /\ q.connected = Seat /\ q.mano \in Seat /\ q.piquePot = 0
      /\ ~q.pending /\ q.cleanups = 0 /\ ~q.revealTimer /\ q.pasoBy = NoSeat
      /\ q.chips = [r.chips EXCEPT ![s] = @ + u]
      /\ q.roundBet = [r.roundBet EXCEPT ![s] = @ - u]
      /\ q.mainBet = [r.mainBet EXCEPT ![s] = @ - u]
      /\ q.pot = (IF r.pot >= u THEN r.pot - u ELSE 0) /\ q.maxBet \in Int
  BY <1>1, <1>3, <1>4 DEF Fields
<1> HIDE DEF q
<1>6. /\ q.chips \in [Seat -> Int] /\ q.roundBet \in [Seat -> Nat] /\ q.mainBet \in [Seat -> Nat]
      /\ \A t \in Seat : q.roundBet[t] <= q.mainBet[t]
      /\ \A t \in Seat : q.chips[t] + q.mainBet[t] = w[t]
  <2>1. r.roundBet[s] - u \in Nat /\ r.mainBet[s] - u \in Nat BY <1>1
  <2> QED BY <1>1, <1>5, <2>1
<1>7. q.pot \in Nat /\ SumFunctionOnSet(q.mainBet, Seat) <= q.pot
  <2>1. SumFunctionOnSet(q.mainBet, Seat)
          = SumFunctionOnSet(r.mainBet, Seat) + (q.mainBet[s] - r.mainBet[s])
    <3>1. \A t \in Seat : r.mainBet[t] \in Int /\ q.mainBet[t] \in Int BY <1>1, <1>6
    <3>2. \A t \in Seat \ {s} : q.mainBet[t] = r.mainBet[t] BY <1>1, <1>5
    <3> QED BY <3>1, <3>2, SeatsAreFinite, SumChange
  <2>2. q.mainBet[s] = r.mainBet[s] - u /\ r.mainBet[s] \in Nat BY <1>1, <1>5
  <2>3. SumFunctionOnSet(r.mainBet, Seat) \in Nat BY <1>1, StakesAreNat
  <2>4. SumFunctionOnSet(q.mainBet, Seat) \in Nat BY <1>6, StakesAreNat
  <2> QED BY <1>1, <1>5, <2>1, <2>2, <2>3, <2>4
<1> QED BY <1>2, <1>5, <1>6, <1>7 DEF Plays, Bank, q

LEMMA RefundPlays == ASSUME NEW r, NEW w, Plays(r, w) PROVE Plays(RefundUncalledBet(r), w)
<1> DEFINE pool == {s \in r.players : s \in r.connected \/ r.roundBet[s] > 0}
           Others(s) == {r.roundBet[t] : t \in pool \ {s}}
           Second(s) == Max(Others(s) \cup {0})
           above == {s \in pool \ r.folded : r.roundBet[s] > Second(s)}
           leader == CHOOSE s \in above : TRUE
           uncalled == r.roundBet[leader] - Second(leader)
<1>1. r.players = Seat /\ r.roundBet \in [Seat -> Nat] BY DEF Plays, Bank
<1>2. RefundUncalledBet(r) = IF above # {} THEN ReturnUncalled(r, leader, uncalled) ELSE r
  BY DEF RefundUncalledBet
<1>3. above \subseteq pool /\ pool \subseteq Seat BY <1>1
<1>4. ASSUME NEW s \in Seat PROVE Second(s) \in Nat
  <2> DEFINE P == pool \ {s}
             f == [t \in P |-> r.roundBet[t]]
  <2>1. IsFiniteSet(P) BY <1>3, SeatsAreFinite, FS_Subset
  <2>2. f \in Surjection(P, Others(s)) BY DEF Surjection
  <2> HIDE DEF P, f
  <2>3. IsFiniteSet(Others(s)) BY <2>1, <2>2, FS_Surjection
  <2>4. \A x \in Others(s) \cup {0} : x \in Nat
    <3>1. \A x \in Others(s) : x \in Nat BY <1>1, <1>3
    <3>2. 0 \in Nat OBVIOUS
    <3> HIDE DEF Others
    <3> QED BY <3>1, <3>2, Zenon
  <2>5. IsFiniteSet(Others(s) \cup {0}) BY <2>3, FS_AddElement
  <2> HIDE DEF Others
  <2>6. Others(s) \cup {0} \in SUBSET Int /\ Others(s) \cup {0} # {} BY <2>4
  <2>7. Max(Others(s) \cup {0}) \in Others(s) \cup {0} BY <2>5, <2>6, MaxIsGreatest
  <2> QED BY <2>4, <2>7
<1>5. CASE above # {}
  <2>1. leader \in above BY <1>5
  <2>2. leader \in Seat /\ r.roundBet[leader] > Second(leader) BY <1>3, <2>1
  <2> HIDE DEF Second, leader
  <2>3. /\ uncalled \in Nat /\ uncalled # 0 /\ uncalled <= r.roundBet[leader]
    BY <1>1, <1>4, <2>2
  <2> HIDE DEF uncalled, above
  <2> QED BY <1>2, <1>5, <2>2, <2>3, ReturnUncalledPlays
<1>6. CASE above = {} BY <1>2, <1>6
<1> QED BY <1>5, <1>6

(* How a handler leaves the table: it plays on, or it is out of the hand,  *)
(* and was paid fairly if a showdown paid it.                              *)
Settled(r, w) ==
    \/ Plays(r, w)
    \/ r.phase \notin Playing /\ ~r.revealTimer /\ (r.pending => Fair(r, w))

Goes(step, w) == IF step.due = "nothing" THEN Settled(step.room, w) ELSE Plays(step.room, w)

LEMMA PlayGoes ==
    ASSUME NEW r, NEW w, Plays(r, w)
    PROVE  /\ Settled(r, w) /\ Goes(Still(r), w)
           /\ \A phase : Goes(Enter(r, phase), w) /\ Goes(Advance(r, phase), w)
BY DEF Settled, Goes, Still, Enter, Advance

LEMMA EarlyEndKeeps ==
    ASSUME NEW r, Good(r)
    PROVE  /\ EndHandEarlyAfterFoldOut(r).pending = r.pending
           /\ EndHandEarlyAfterFoldOut(r).revealTimer = r.revealTimer
<1> DEFINE quiet == ClearTurnTimer(r)
           solo == CHOOSE s \in Active(r) : TRUE
           paid == IF Cardinality(Active(r)) = 1 /\ r.pot > 0
                   THEN PayPlayer(quiet, solo, r.pot - RakeOf(r.pot), PotRef(r.pot)) ELSE quiet
           piqued == PayPiqueToBest(paid, Active(r))
           Same(q) == DOMAIN q = Fields /\ q.pending = r.pending /\ q.revealTimer = r.revealTimer
<1>1. ASSUME NEW q, Same(q), NEW s, NEW amount, NEW ref PROVE Same(PayPlayer(q, s, amount, ref))
  BY <1>1 DEF PayPlayer, LedgerCredit, Fields
<1>2. Same(quiet) BY DEF ClearTurnTimer, Good, RoomOK, Fields
<1> HIDE DEF quiet, solo, Same
<1>3. Same(paid) BY <1>1, <1>2
<1> HIDE DEF paid
<1>4. Same(piqued) BY <1>1, <1>3 DEF PayPiqueToBest
<1> HIDE DEF piqued
<1>5. Same(ScheduleCleanup(piqued)) BY <1>4 DEF ScheduleCleanup, Fields, Same
<1>6. Same(RefundAllActiveBets(quiet))
  BY <1>2 DEF RefundAllActiveBets, PromoteWaitingPlayers, Fields, Same
<1>7. EndHandEarlyAfterFoldOut(r) =
        IF Active(r) = {} THEN RefundAllActiveBets(quiet) ELSE ScheduleCleanup(piqued)
  BY Zenon DEF EndHandEarlyAfterFoldOut, quiet, solo, paid, piqued
<1> QED BY <1>5, <1>6, <1>7 DEF Same

LEMMA OffPlay ==
    /\ "LOBBY" \notin Playing /\ "SHOWDOWN" \notin Playing /\ "SHOWDOWN_WAIT" \notin Playing
    /\ BettingPhases \subseteq Playing
BY DEF Playing, BettingPhases

LEMMA NobodyToPlayGoes ==
    ASSUME NEW r, NEW w, Plays(r, w), NEW phase
    PROVE  Goes(NobodyToPlay(r, phase), w)
<1> DEFINE early == EndHandEarlyAfterFoldOut(r)
<1>1. Good(r) /\ ~r.pending /\ ~r.revealTimer BY DEF Plays, Bank
<1>2. CASE r.pot = 0 /\ Active(r) = {} /\ r.piquePot = 0
  <2>1. early.phase = "LOBBY" /\ ~early.pending /\ ~early.revealTimer
    BY <1>1, <1>2, NobodyIsRefunded, EarlyEndKeeps
  <2> HIDE DEF early
  <2>2. Settled(early, w) BY <2>1, OffPlay DEF Settled
  <2>3. NobodyToPlay(r, phase) = Still(early) BY <1>2 DEF NobodyToPlay, early
  <2> QED BY <2>2, <2>3 DEF Goes, Still
<1>3. CASE ~(r.pot = 0 /\ Active(r) = {} /\ r.piquePot = 0)
  <2>1. NobodyToPlay(r, phase) = Enter(r, NextPhase[phase]) BY <1>3 DEF NobodyToPlay
  <2> QED BY <2>1, PlayGoes
<1> QED BY <1>2, <1>3

LEMMA AdvanceTurnBettingGoes ==
    ASSUME NEW r, NEW w, Plays(r, w), NEW from \in Seat \cup {NoSeat}, NEW phase
    PROVE  Goes(AdvanceTurnBetting(r, from, phase), w)
<1> DEFINE refunded == RefundUncalledBet(r)
           asked == IF from # NoSeat THEN from ELSE r.turn
           start == IF asked \notin SeatOrder(r) /\ from # NoSeat THEN r.mano ELSE asked
           next  == {s \in SeatOrder(r) : InTurn(r, s)}
           chosen == IF from # NoSeat THEN FirstFrom(start, next) ELSE FirstAfter(start, next)
<1>1. Plays(refunded, w) BY RefundPlays
<1>2. next \in SUBSET Seat /\ start \in Seat \cup {NoSeat} BY PlaysIsGood, GroupsAreSeats
<1>3. AdvanceTurnBetting(r, from, phase) =
        IF Cardinality(Active(r)) <= 1 THEN NobodyToPlay(refunded, phase)
        ELSE IF start \notin SeatOrder(r) THEN Enter(r, NextPhase[phase])
        ELSE IF next # {} THEN Still(GiveTurn(r, chosen))
        ELSE Enter(ClearTurnTimer(refunded), NextPhase[phase])
  BY Zenon DEF AdvanceTurnBetting, refunded, asked, start, next, chosen
<1> HIDE DEF refunded, next, start
<1>4. next # {} => chosen \in Seat BY <1>2, FirstIsFound
<1> HIDE DEF chosen
<1>5. next # {} => Goes(Still(GiveTurn(r, chosen)), w) BY <1>4, GiveTurnPlays, PlayGoes
<1>6. Goes(NobodyToPlay(refunded, phase), w) BY <1>1, NobodyToPlayGoes
<1>7. Goes(Enter(r, NextPhase[phase]), w) BY PlayGoes
<1>8. Goes(Enter(ClearTurnTimer(refunded), NextPhase[phase]), w)
  BY <1>1, ClearTurnTimerPlays, PlayGoes
<1> QED BY <1>3, <1>5, <1>6, <1>7, <1>8

(* The entries of the phases.                                              *)

LEMMA OpenRoundPlays ==
    ASSUME NEW r, NEW w, Plays(r, w), NEW phase \in BettingPhases
    PROVE  /\ Plays([OpenRound(r, phase) EXCEPT !.pasoBy = NoSeat, !.pasoPhase = "LOBBY"], w)
           /\ Plays([OpenRound(r, phase) EXCEPT !.declined = @ \ r.players], w)
<1> DEFINE q == OpenRound(r, phase)
           asked == [q EXCEPT !.pasoBy = NoSeat, !.pasoPhase = "LOBBY"]
           declined == [q EXCEPT !.declined = @ \ r.players]
<1>1. /\ DOMAIN r = Fields /\ r.mano \in Seat /\ r.players = Seat /\ r.connected = Seat
      /\ r.piquePot = 0 /\ ~r.pending /\ r.cleanups = 0 /\ ~r.revealTimer /\ r.pasoBy = NoSeat
      /\ r.chips \in [Seat -> Int] /\ r.roundBet \in [Seat -> Nat] /\ r.mainBet \in [Seat -> Nat]
      /\ \A t \in Seat : r.roundBet[t] <= r.mainBet[t]
      /\ \A t \in Seat : r.chips[t] + r.mainBet[t] = w[t]
      /\ r.pot \in Nat /\ r.maxBet \in Int /\ SumFunctionOnSet(r.mainBet, Seat) <= r.pot
  BY PlaysIsGood DEF Plays, Bank
<1>2. Good(asked) /\ Good(declined) BY PlaysIsGood, OpenedIsGood
<1>3. /\ DOMAIN q = Fields /\ q.roundBet = [s \in Seat |-> 0] /\ q.maxBet = 0
      /\ \A f \in Fields \ {"phase", "maxBet", "acted", "roundBet"} : q[f] = r[f]
  BY <1>1 DEF OpenRound, Fields
<1> HIDE DEF q
<1>4. ASSUME NEW p, Good(p), p.roundBet = [s \in Seat |-> 0], p.maxBet = 0, p.pasoBy = NoSeat,
             \A f \in {"mano", "players", "connected", "piquePot", "pending", "cleanups", "chips",
                       "mainBet", "pot", "revealTimer"} : p[f] = r[f]
      PROVE  Plays(p, w)
  <2>1. /\ p.mano = r.mano /\ p.players = r.players /\ p.connected = r.connected
        /\ p.piquePot = r.piquePot /\ p.pending = r.pending /\ p.cleanups = r.cleanups
        /\ p.chips = r.chips /\ p.mainBet = r.mainBet /\ p.pot = r.pot
        /\ p.revealTimer = r.revealTimer
    BY <1>4
  <2>2. p.roundBet \in [Seat -> Nat] /\ \A t \in Seat : p.roundBet[t] <= p.mainBet[t]
    BY <1>1, <1>4, <2>1
  <2> QED BY <1>1, <1>4, <2>1, <2>2 DEF Plays, Bank
<1>5. /\ asked.roundBet = [s \in Seat |-> 0] /\ asked.maxBet = 0 /\ asked.pasoBy = NoSeat
      /\ \A f \in {"mano", "players", "connected", "piquePot", "pending", "cleanups", "chips",
                   "mainBet", "pot", "revealTimer"} : asked[f] = r[f]
  BY <1>1, <1>3 DEF Fields
<1>6. /\ declined.roundBet = [s \in Seat |-> 0] /\ declined.maxBet = 0 /\ declined.pasoBy = NoSeat
      /\ \A f \in {"mano", "players", "connected", "piquePot", "pending", "cleanups", "chips",
                   "mainBet", "pot", "revealTimer"} : declined[f] = r[f]
  BY <1>1, <1>3 DEF Fields
<1> HIDE DEF asked, declined
<1>7. Plays(asked, w) /\ Plays(declined, w) BY <1>2, <1>4, <1>5, <1>6
<1> QED BY <1>7 DEF asked, declined, q

LEMMA EntriesGo ==
    ASSUME NEW r, NEW w, Plays(r, w)
    PROVE  /\ Goes(EnterGuerra(r), w)
           /\ Goes(EnterCanticos(r), w)
           /\ Goes(EnterGuerraJuego(r), w)
<1>1. {"GUERRA", "CANTICOS", "GUERRA_JUEGO"} \subseteq BettingPhases BY DEF BettingPhases
<1>2. Plays(ClearTurnTimer(r), w) /\ r.mano \in Seat \cup {NoSeat}
  BY PlaysIsGood, ClearTurnTimerPlays
<1>3. Goes(EnterGuerra(r), w)
  <2> DEFINE opened == [OpenRound(ClearTurnTimer(r), "GUERRA")
                          EXCEPT !.pasoBy = NoSeat, !.pasoPhase = "LOBBY"]
  <2>1. Plays(opened, w) BY <1>1, <1>2, OpenRoundPlays
  <2>2. EnterGuerra(r) = AdvanceTurnBetting(opened, r.mano, "GUERRA") BY DEF EnterGuerra
  <2> HIDE DEF opened
  <2> QED BY <1>2, <2>1, <2>2, AdvanceTurnBettingGoes
<1>4. Goes(EnterCanticos(r), w)
  <2> DEFINE opened == [OpenRound(r, "CANTICOS") EXCEPT !.pasoBy = NoSeat, !.pasoPhase = "LOBBY"]
  <2>1. Plays(opened, w) BY <1>1, OpenRoundPlays
  <2>2. EnterCanticos(r) = IF r.maxBet = 0 THEN Enter(ClearTurnTimer(r), "DECLARAR_JUEGO")
                           ELSE AdvanceTurnBetting(opened, r.mano, "CANTICOS")
    BY DEF EnterCanticos
  <2> HIDE DEF opened
  <2>3. Goes(Enter(ClearTurnTimer(r), "DECLARAR_JUEGO"), w) BY <1>2, PlayGoes
  <2> QED BY <1>2, <2>1, <2>2, <2>3, AdvanceTurnBettingGoes
<1>5. Goes(EnterGuerraJuego(r), w)
  <2> DEFINE quiet == ClearTurnTimer(r)
             opened == [OpenRound(quiet, "GUERRA_JUEGO") EXCEPT !.declined = @ \ r.players]
             other == [OpenRound(quiet, "GUERRA_JUEGO") EXCEPT !.declined = @ \ quiet.players]
  <2>1. quiet.players = r.players BY PlaysIsGood DEF ClearTurnTimer, Fields
  <2>2. DOMAIN OpenRound(quiet, "GUERRA_JUEGO") = Fields
    BY PlaysIsGood DEF OpenRound, ClearTurnTimer
  <2> HIDE DEF quiet
  <2>3. OpenRound(quiet, "GUERRA_JUEGO").players = r.players
    <3>1. DOMAIN quiet = Fields BY PlaysIsGood DEF ClearTurnTimer, quiet
    <3> QED BY <2>1, <3>1 DEF OpenRound, Fields
  <2>4. opened = other BY <2>1
  <2>5. Plays(other, w)
    <3>1. Plays(quiet, w) BY <1>2 DEF quiet
    <3> HIDE DEF other
    <3>2. Plays([OpenRound(quiet, "GUERRA_JUEGO") EXCEPT !.declined = @ \ quiet.players], w)
      BY <1>1, <3>1, OpenRoundPlays
    <3> QED BY <3>2 DEF other
  <2>6. EnterGuerraJuego(r) = AdvanceTurnBetting(opened, r.mano, "GUERRA_JUEGO")
    BY DEF EnterGuerraJuego, quiet
  <2> HIDE DEF opened, other
  <2> QED BY <1>2, <2>4, <2>5, <2>6, AdvanceTurnBettingGoes
<1> QED BY <1>3, <1>4, <1>5

LEMMA CloseDeclarationsGoes ==
    ASSUME NEW r, NEW w, Plays(r, w), NEW declarers \in SUBSET Seat
    PROVE  Goes(CloseDeclarations(r, declarers), w)
<1> DEFINE quiet == [r EXCEPT !.turnTimer = FALSE, !.forced = NoSeat]
           with == declarers \cap r.yes
           without == declarers \cap r.no
           winner == CHOOSE s \in with : TRUE
           out == [quiet EXCEPT !.folded = @ \cup without]
           folded == FoldWithoutJuego(quiet, without)
           forcing == [folded EXCEPT !.forced = winner]
<1>1. Plays(quiet, w)
  <2>1. quiet.mano \in Seat /\ \A f \in MoneyFields : quiet[f] = r[f]
    BY PlaysIsGood DEF MoneyFields, Fields
  <2>2. Good(quiet)
    BY PlaysIsGood DEF Good, RoomOK, Match, Owned, Fields, Groups, Maps, Flags, IsSeatMap
  <2> HIDE DEF quiet
  <2> QED BY <2>1, <2>2, SameMoneyPlays
<1>2. \/ CloseDeclarations(r, declarers) = Enter(quiet, "SHOWDOWN")
      \/ with # {} /\ CloseDeclarations(r, declarers) = Enter(forcing, "SHOWDOWN")
      \/ CloseDeclarations(r, declarers) = Enter(folded, "GUERRA_JUEGO")
  <2> HIDE DEF quiet, folded
  <2>1. CloseDeclarations(r, declarers) =
          IF with = {} THEN Enter(quiet, "SHOWDOWN")
          ELSE IF Cardinality(with) = 1 THEN Enter(forcing, "SHOWDOWN")
          ELSE Enter(folded, "GUERRA_JUEGO")
    BY Zenon DEF CloseDeclarations, quiet, folded
  <2> QED BY <2>1
<1> HIDE DEF quiet
<1>3. Plays(out, w)
  <2>1. out.mano \in Seat /\ \A f \in MoneyFields : out[f] = quiet[f]
    BY <1>1, PlaysIsGood DEF MoneyFields, Fields
  <2>2. Good(out)
    <3>1. Good(quiet) /\ without \subseteq Seat BY <1>1, PlaysIsGood
    <3> HIDE DEF without
    <3> QED BY <3>1 DEF Good, RoomOK, Match, Owned, Fields, Groups, Maps, Flags, IsSeatMap
  <2> HIDE DEF out
  <2> QED BY <1>1, <2>1, <2>2, SameMoneyPlays
<1>4. Plays(folded, w)
  <2>1. folded = IF quiet.mano \in without THEN TransferMano(out) ELSE out
    BY Zenon DEF FoldWithoutJuego, folded, out
  <2> HIDE DEF out, folded
  <2> QED BY <1>3, <2>1, TransferManoPlays
<1> HIDE DEF folded
<1>5. with # {} => Plays(forcing, w)
  <2> SUFFICES ASSUME with # {} PROVE Plays(forcing, w) OBVIOUS
  <2>1. winner \in Seat OBVIOUS
  <2> HIDE DEF winner
  <2>2. forcing.mano \in Seat /\ \A f \in MoneyFields : forcing[f] = folded[f]
    BY <1>4, PlaysIsGood DEF MoneyFields, Fields
  <2>3. Good(forcing)
    BY <1>4, <2>1, PlaysIsGood
       DEF Good, RoomOK, Match, Owned, Fields, Groups, Maps, Flags, IsSeatMap
  <2> HIDE DEF forcing
  <2> QED BY <1>4, <2>2, <2>3, SameMoneyPlays
<1> HIDE DEF with, forcing
<1> QED BY <1>1, <1>2, <1>4, <1>5, PlayGoes

LEMMA AdvanceTurnDeclararGoes ==
    ASSUME NEW r, NEW w, Plays(r, w), NEW from \in Seat \cup {NoSeat}
    PROVE  Goes(AdvanceTurnDeclarar(r, from), w)
<1> DEFINE declarers == Active(r) \ r.waiting
           asked == IF from # NoSeat THEN from ELSE r.turn
           start == IF asked \in SeatOrder(r) THEN asked ELSE r.mano
           next  == declarers \ r.acted
           chosen == IF from # NoSeat THEN FirstFrom(start, next) ELSE FirstAfter(start, next)
<1>1. declarers \in SUBSET Seat /\ next \in SUBSET Seat /\ start \in Seat \cup {NoSeat}
  BY PlaysIsGood, GroupsAreSeats
<1>2. AdvanceTurnDeclarar(r, from) =
        IF Cardinality(declarers) <= 1 \/ start \notin SeatOrder(r)
        THEN Enter(ClearTurnTimer(r), "SHOWDOWN")
        ELSE IF next # {} THEN Still(GiveTurn(r, chosen)) ELSE CloseDeclarations(r, declarers)
  BY Zenon DEF AdvanceTurnDeclarar, declarers, asked, start, next, chosen
<1> HIDE DEF declarers, next, start
<1>3. next # {} => chosen \in Seat BY <1>1, FirstIsFound
<1> HIDE DEF chosen
<1>4. next # {} => Goes(Still(GiveTurn(r, chosen)), w) BY <1>3, GiveTurnPlays, PlayGoes
<1>5. Goes(Enter(ClearTurnTimer(r), "SHOWDOWN"), w) BY ClearTurnTimerPlays, PlayGoes
<1> QED BY <1>1, <1>2, <1>4, <1>5, CloseDeclarationsGoes

LEMMA EnterDeclararJuegoGoes ==
    ASSUME NEW r, NEW w, Plays(r, w) PROVE Goes(EnterDeclararJuego(r), w)
<1> DEFINE opened == [r EXCEPT !.phase = "DECLARAR_JUEGO", !.acted = @ \ r.players,
                               !.yes = @ \ r.players, !.no = @ \ r.players]
<1>1. Plays(opened, w)
  <2>1. opened.mano \in Seat /\ \A f \in MoneyFields : opened[f] = r[f]
    BY PlaysIsGood DEF MoneyFields, Fields
  <2>2. Good(opened)
    BY PlaysIsGood DEF Good, RoomOK, Match, Owned, Fields, Groups, Maps, Flags, IsSeatMap, Phases
  <2> HIDE DEF opened
  <2> QED BY <2>1, <2>2, SameMoneyPlays
<1>2. EnterDeclararJuego(r) =
        IF Cardinality(Active(r) \ r.waiting) <= 1 \/ r.maxBet > 0
        THEN Enter(ClearTurnTimer(r), "SHOWDOWN") ELSE AdvanceTurnDeclarar(opened, r.mano)
  BY Zenon DEF EnterDeclararJuego, opened
<1> HIDE DEF opened
<1>3. r.mano \in Seat \cup {NoSeat} BY PlaysIsGood
<1>4. Goes(Enter(ClearTurnTimer(r), "SHOWDOWN"), w) BY ClearTurnTimerPlays, PlayGoes
<1> QED BY <1>1, <1>2, <1>3, <1>4, AdvanceTurnDeclararGoes

(* The showdown pays fairly, or leaves the pot to the only player left.    *)
LEMMA ShowdownSettles ==
    ASSUME NEW r, NEW w, Plays(r, w) PROVE Settled(Showdown(r), w)
<1> DEFINE open == [r EXCEPT !.phase = "SHOWDOWN"]
           competitors == (r.players \cap (r.connected \cup r.allIn)) \ r.folded
           best == CHOOSE s \in competitors : TRUE
           over == PromoteWaitingPlayers([r EXCEPT !.pot = 0, !.piquePot = 0, !.phase = "LOBBY"])
           sole == [open EXCEPT !.turn = best, !.turnTimer = FALSE, !.autoTimer = TRUE]
           waits == [open EXCEPT !.phase = "SHOWDOWN_WAIT", !.turn = best,
                                 !.turnTimer = FALSE, !.autoTimer = TRUE]
           shown == [open EXCEPT !.autoTimer = TRUE]
           Over(q) == q.phase \in {"LOBBY", "SHOWDOWN", "SHOWDOWN_WAIT"} /\ ~q.pending /\ ~q.revealTimer
<1>1. DOMAIN r = Fields /\ ~r.pending /\ ~r.revealTimer /\ r.players = Seat /\ r.connected = Seat
  BY PlaysIsGood DEF Plays, Bank
<1>2. \/ Showdown(r) \in {over, sole, waits, shown}
      \/ Showdown(r) = EndHandEarlyAfterFoldOut(open)
      \/ competitors # {} /\ Showdown(r) = SettleShowdown(open, competitors)
  <2>1. Showdown(r) =
          IF competitors = {} THEN over
          ELSE IF Cardinality(competitors) > 1 THEN SettleShowdown(open, competitors)
          ELSE IF r.forced = best THEN sole
          ELSE IF r.pot > 0 THEN waits
          ELSE IF r.cards[best] # 0 THEN shown
          ELSE EndHandEarlyAfterFoldOut(open)
    BY Zenon DEF Showdown, open, competitors, best, over, sole, waits, shown
  <2> HIDE DEF open, competitors, best, over, sole, waits, shown
  <2> QED BY <2>1
<1>3. Over(over) /\ Over(sole) /\ Over(waits) /\ Over(shown)
  BY <1>1 DEF PromoteWaitingPlayers, Fields
<1>4. \A q : Over(q) => Settled(q, w) BY OffPlay DEF Settled
<1>5. Plays(open, w) /\ open.phase = "SHOWDOWN" /\ open.folded = r.folded
  <2>1. /\ open.mano \in Seat /\ open.phase = "SHOWDOWN" /\ open.folded = r.folded
        /\ \A f \in MoneyFields : open[f] = r[f]
    BY PlaysIsGood DEF MoneyFields, Fields
  <2>2. Good(open)
    BY PlaysIsGood DEF Good, RoomOK, Match, Owned, Fields, Groups, Maps, Flags, IsSeatMap, Phases
  <2> HIDE DEF open
  <2> QED BY <2>1, <2>2, SameMoneyPlays
<1>6. competitors = Seat \ open.folded BY <1>1, <1>5
<1> HIDE DEF open, competitors, over, sole, waits, shown
<1>7. Over(EndHandEarlyAfterFoldOut(open))
  <2>1. Good(open) /\ ~open.pending /\ ~open.revealTimer BY <1>5 DEF Plays, Bank
  <2>2. EndHandEarlyAfterFoldOut(open).phase \in {"SHOWDOWN", "LOBBY"}
    BY <1>5, <2>1, EarlyEndPhase
  <2> QED BY <2>1, <2>2, EarlyEndKeeps
<1>8. ASSUME competitors # {} PROVE Settled(SettleShowdown(open, competitors), w)
  <2> DEFINE q == SettleShowdown(open, competitors)
  <2>1. Fair(q, w) BY <1>5, <1>6, <1>8, SettleIsFair
  <2>2. q.phase = "SHOWDOWN" /\ ~q.revealTimer
    <3>1. DOMAIN open = Fields /\ ~open.revealTimer BY <1>5, PlaysIsGood DEF Plays
    <3> QED BY <1>5, <3>1 DEF SettleShowdown, PayTogether, Fields
  <2> HIDE DEF q
  <2>3. Settled(q, w) BY <2>1, <2>2, OffPlay DEF Settled
  <2> QED BY <2>3 DEF q
<1> HIDE DEF Over
<1>9. Settled(over, w) /\ Settled(sole, w) /\ Settled(waits, w) /\ Settled(shown, w)
      /\ Settled(EndHandEarlyAfterFoldOut(open), w)
  BY <1>3, <1>4, <1>7
<1> QED BY <1>2, <1>8, <1>9

(* However many phases a handler runs through, it leaves the table settled.*)
LEMMA FinishSettles ==
    ASSUME NEW step, NEW w, Goes(step, w)
    PROVE  Settled(Finish(step), w)
<1> DEFINE acted == AfterAction(step)
           guerra == AfterGuerra(acted)
           canticos == AfterCanticos(guerra)
           declared == AfterDeclarar(canticos)
<1>1. Goes(acted, w)
  <2>1. NoSeat \in Seat \cup {NoSeat} OBVIOUS
  <2>2. step.due = "advance" => Goes(AdvanceTurnBetting(step.room, NoSeat, step.phase), w)
    BY <2>1, AdvanceTurnBettingGoes DEF Goes
  <2> QED BY <2>2 DEF AfterAction
<1> HIDE DEF acted
<1>2. \A st, phase : Goes(st, w) /\ IsDue(st, phase) => Plays(st.room, w) BY DEF Goes, IsDue
<1>3. Goes(guerra, w) BY <1>1, <1>2, EntriesGo DEF AfterGuerra
<1> HIDE DEF guerra
<1>4. Goes(canticos, w) BY <1>2, <1>3, EnterDeclararJuegoGoes DEF AfterCanticos
<1> HIDE DEF canticos
<1>5. Goes(declared, w) BY <1>2, <1>4, EntriesGo DEF AfterDeclarar
<1> HIDE DEF declared
<1>6. Settled(AfterBetting(declared), w)
  <2>1. Settled(declared.room, w) BY <1>5 DEF Goes, Settled
  <2> QED BY <1>2, <1>5, <2>1, ShowdownSettles DEF AfterBetting
<1> QED BY <1>6 DEF Finish, declared, canticos, guerra, acted

(* The handlers.                                                           *)

LEMMA PassGoes ==
    ASSUME NEW r, NEW w, Plays(r, w), NEW s \in Seat, r.phase \in BettingPhases
    PROVE  \/ Goes(Pass(r, s), w)
           \/ Pass(r, s) = Still([ClearTurnTimer(r) EXCEPT !.pasoBy = s, !.pasoPhase = r.phase])
<1> DEFINE quiet == ClearTurnTimer(r)
           acted == [quiet EXCEPT !.acted = @ \cup {s}]
           declined == [acted EXCEPT !.declined = @ \cup {s}]
           asked == [quiet EXCEPT !.pasoBy = s, !.pasoPhase = r.phase]
           out == FoldAndPassMano(CollectPlayerCards(quiet, s), s)
<1>1. Plays(quiet, w) BY ClearTurnTimerPlays
<1>2. \/ Pass(r, s) = Still(asked)
      \/ \E q \in {acted, declined, out} : Pass(r, s) = Advance(q, r.phase)
  <2>1. Pass(r, s) =
          IF r.maxBet = 0 \/ r.roundBet[s] >= r.maxBet THEN Advance(acted, r.phase)
          ELSE IF r.phase = "GUERRA_JUEGO" THEN Advance(declined, r.phase)
          ELSE IF TieneJuego(Hand(r, s)) THEN Still(asked) ELSE Advance(out, r.phase)
    BY Zenon DEF Pass, quiet, acted, declined, asked, out
  <2> HIDE DEF quiet, acted, declined, asked, out
  <2> QED BY <2>1
<1> HIDE DEF quiet
<1>3. Plays(acted, w)
  <2>1. acted.mano \in Seat /\ \A f \in MoneyFields : acted[f] = quiet[f]
    BY <1>1, PlaysIsGood DEF MoneyFields, Fields
  <2>2. Good(acted)
    BY <1>1, PlaysIsGood DEF Good, RoomOK, Match, Owned, Fields, Groups, Maps, Flags, IsSeatMap
  <2> HIDE DEF acted
  <2> QED BY <1>1, <2>1, <2>2, SameMoneyPlays
<1> HIDE DEF acted
<1>4. Plays(declined, w)
  <2>1. declined.mano \in Seat /\ \A f \in MoneyFields : declined[f] = acted[f]
    BY <1>3, PlaysIsGood DEF MoneyFields, Fields
  <2>2. Good(declined)
    BY <1>3, PlaysIsGood DEF Good, RoomOK, Match, Owned, Fields, Groups, Maps, Flags, IsSeatMap
  <2> HIDE DEF declined
  <2> QED BY <1>3, <2>1, <2>2, SameMoneyPlays
<1>5. Plays(out, w) BY <1>1, CollectPlayerCardsPlays, FoldAndPassManoPlays
<1> HIDE DEF declined, asked, out
<1>6. \A q \in {acted, declined, out} : Goes(Advance(q, r.phase), w)
  BY <1>3, <1>4, <1>5, PlayGoes
<1> QED BY <1>2, <1>6 DEF asked, quiet

(* A bet moves chips into the stake and the pot.                           *)
LEMMA TakeBetPlays ==
    ASSUME NEW r, NEW w, Plays(r, w), NEW b, b.seat \in Seat,
           b.kind \in {"voy", "igualar", "resto"}, b.amount \in Nat
    PROVE  Plays(TakeBet(r, b), w)
<1> DEFINE s == b.seat
           a == b.amount
           taken == [r EXCEPT !.chips[s] = @ - b.amount, !.balance[s] = @ - b.amount,
                              !.roundBet[s] = @ + b.amount, !.mainBet[s] = @ + b.amount,
                              !.pot = @ + b.amount, !.acted = @ \cup {s}]
           raised == [taken EXCEPT !.maxBet = taken.roundBet[s]]
           called == [taken EXCEPT !.allIn = IF b.full THEN @ ELSE @ \cup {s}]
           allIn == [taken EXCEPT !.allIn = @ \cup {s}, !.maxBet = Max({@, taken.roundBet[s]})]
<1>1. /\ Good(r) /\ DOMAIN r = Fields /\ r.mano \in Seat /\ r.players = Seat /\ r.connected = Seat
      /\ r.piquePot = 0 /\ ~r.pending /\ r.cleanups = 0 /\ ~r.revealTimer /\ r.pasoBy = NoSeat
      /\ r.chips \in [Seat -> Int] /\ r.roundBet \in [Seat -> Nat] /\ r.mainBet \in [Seat -> Nat]
      /\ \A t \in Seat : r.roundBet[t] <= r.mainBet[t]
      /\ \A t \in Seat : r.chips[t] + r.mainBet[t] = w[t]
      /\ r.pot \in Nat /\ r.maxBet \in Int /\ SumFunctionOnSet(r.mainBet, Seat) <= r.pot
  BY PlaysIsGood DEF Plays, Bank
<1>2. /\ DOMAIN taken = Fields
      /\ \A f \in Fields \ {"chips", "balance", "roundBet", "mainBet", "pot", "acted"} :
           taken[f] = r[f]
      /\ taken.chips = [r.chips EXCEPT ![s] = @ - a]
      /\ taken.balance = [r.balance EXCEPT ![s] = @ - a]
      /\ taken.roundBet = [r.roundBet EXCEPT ![s] = @ + a]
      /\ taken.mainBet = [r.mainBet EXCEPT ![s] = @ + a]
      /\ taken.pot = r.pot + a /\ taken.acted = r.acted \cup {s}
  BY <1>1 DEF Fields
<1>3. TakeBet(r, b) \in {MarkDisconnectedAsImplicitAllIn(raised), called,
                         MarkDisconnectedAsImplicitAllIn(allIn)}
  BY DEF TakeBet
<1> HIDE DEF taken
<1>4. Good(taken)
  <2>1. RoomOK(taken)
    <3>1. RoomOK(r) BY <1>1 DEF Good
    <3>2. DOMAIN taken.roundBet = Seat /\ DOMAIN taken.mainBet = Seat
      BY <1>1, <1>2
    <3> QED BY <1>2, <3>1, <3>2 DEF RoomOK, Fields, Groups, Maps, Flags, IsSeatMap
  <2>2. Match(taken)
    BY <1>1, <1>2 DEF Good, RoomOK, Match, Fields, Maps, IsSeatMap
  <2>3. Owned(taken) BY <1>1, <1>2 DEF Good, Owned, Fields
  <2> QED BY <2>1, <2>2, <2>3 DEF Good
<1>5. /\ taken.chips \in [Seat -> Int] /\ taken.roundBet \in [Seat -> Nat]
      /\ taken.mainBet \in [Seat -> Nat] /\ \A t \in Seat : taken.roundBet[t] <= taken.mainBet[t]
      /\ \A t \in Seat : taken.chips[t] + taken.mainBet[t] = w[t]
  <2>1. /\ r.chips[s] - a \in Int /\ r.roundBet[s] + a \in Nat /\ r.mainBet[s] + a \in Nat
    BY <1>1
  <2> QED BY <1>1, <1>2, <2>1
<1>6. taken.pot \in Nat /\ SumFunctionOnSet(taken.mainBet, Seat) <= taken.pot
  <2>1. SumFunctionOnSet(taken.mainBet, Seat)
          = SumFunctionOnSet(r.mainBet, Seat) + (taken.mainBet[s] - r.mainBet[s])
    <3>1. \A t \in Seat : r.mainBet[t] \in Int /\ taken.mainBet[t] \in Int BY <1>1, <1>5
    <3>2. \A t \in Seat \ {s} : taken.mainBet[t] = r.mainBet[t] BY <1>1, <1>2
    <3> QED BY <3>1, <3>2, SeatsAreFinite, SumChange
  <2>2. taken.mainBet[s] = r.mainBet[s] + a /\ r.mainBet[s] \in Nat BY <1>1, <1>2
  <2>3. SumFunctionOnSet(r.mainBet, Seat) \in Nat BY <1>1, StakesAreNat
  <2> QED BY <1>1, <1>2, <2>1, <2>2, <2>3
<1>7. Plays(taken, w)
  <2>1. /\ taken.players = Seat /\ taken.connected = Seat /\ taken.mano \in Seat
        /\ taken.piquePot = 0 /\ ~taken.pending /\ taken.cleanups = 0
        /\ taken.maxBet \in Int /\ taken.pasoBy = NoSeat /\ ~taken.revealTimer
    BY <1>1, <1>2 DEF Fields
  <2> QED BY <1>4, <1>5, <1>6, <2>1 DEF Plays, Bank
<1>8. ASSUME NEW m \in Int, NEW all \in SUBSET Seat
      PROVE  Plays([taken EXCEPT !.allIn = all, !.maxBet = m], w)
  <2> DEFINE q == [taken EXCEPT !.allIn = all, !.maxBet = m]
  <2>1. q.mano \in Seat /\ q.maxBet = m /\ \A f \in MoneyFields \ {"maxBet"} : q[f] = taken[f]
    BY <1>2, <1>7, PlaysIsGood DEF MoneyFields, Fields
  <2>2. Good(q)
    BY <1>4 DEF Good, RoomOK, Match, Owned, Fields, Groups, Maps, Flags, IsSeatMap
  <2> HIDE DEF q
  <2>3. /\ q.players = taken.players /\ q.connected = taken.connected
        /\ q.piquePot = taken.piquePot /\ q.pending = taken.pending
        /\ q.cleanups = taken.cleanups /\ q.chips = taken.chips
        /\ q.roundBet = taken.roundBet /\ q.mainBet = taken.mainBet /\ q.pot = taken.pot
        /\ q.revealTimer = taken.revealTimer /\ q.pasoBy = taken.pasoBy
    BY <2>1 DEF MoneyFields
  <2>4. Plays(q, w) BY <1>7, <2>1, <2>2, <2>3 DEF Plays, Bank
  <2> QED BY <2>4 DEF q
<1>9. Plays(raised, w) /\ Plays(called, w) /\ Plays(allIn, w)
  <2>1. /\ DOMAIN taken = Fields /\ taken.allIn \in SUBSET Seat
        /\ taken.roundBet[s] \in Int /\ taken.maxBet \in Int
    <3>1. taken.allIn \in SUBSET Seat BY <1>4 DEF Good, RoomOK, Groups
    <3>2. taken.maxBet \in Int BY <1>7 DEF Plays, Bank
    <3>3. taken.roundBet[s] \in Int BY <1>5
    <3> QED BY <1>2, <3>1, <3>2, <3>3
  <2>2. Max({taken.maxBet, taken.roundBet[s]}) \in Int
    <3> DEFINE m == taken.maxBet
               x == taken.roundBet[s]
    <3>1. m \in Int /\ x \in Int BY <2>1
    <3> HIDE DEF m, x
    <3>2. \E k \in {m, x} : \A y \in {m, x} : k >= y BY <3>1
    <3>3. Max({m, x}) \in {m, x} BY <3>2 DEF Max
    <3>4. Max({m, x}) \in Int BY <3>1, <3>3
    <3> QED BY <3>4 DEF m, x
  <2>3. raised = [taken EXCEPT !.allIn = taken.allIn, !.maxBet = taken.roundBet[s]]
    BY <2>1 DEF Fields
  <2>4. called = [taken EXCEPT !.allIn = IF b.full THEN taken.allIn ELSE taken.allIn \cup {s},
                               !.maxBet = taken.maxBet]
    BY <2>1 DEF Fields
  <2>5. allIn = [taken EXCEPT !.allIn = taken.allIn \cup {s},
                              !.maxBet = Max({taken.maxBet, taken.roundBet[s]})]
    BY <2>1 DEF Fields
  <2>6. taken.allIn \cup {s} \in SUBSET Seat
        /\ (IF b.full THEN taken.allIn ELSE taken.allIn \cup {s}) \in SUBSET Seat
    BY <2>1
  <2> HIDE DEF raised, called, allIn
  <2>7. Plays(raised, w) BY <1>8, <2>1, <2>3
  <2>8. Plays(called, w) BY <1>8, <2>1, <2>4, <2>6
  <2>9. Plays(allIn, w) BY <1>8, <2>2, <2>5, <2>6
  <2> QED BY <2>7, <2>8, <2>9
<1> HIDE DEF raised, called, allIn
<1> QED BY <1>3, <1>9, MarkDisconnectedPlays

(* There is no pique left to pay: it was merged into the main pot before.  *)
LEMMA CloseRevealGoes ==
    ASSUME NEW r, NEW w, Plays(r, w), r.llevoBy # NoSeat
    PROVE  Goes(CloseReveal(r), w)
<1> DEFINE s == r.llevoBy
           quiet == ClearTurnTimer(r)
           closed == [quiet EXCEPT !.llevoBy = NoSeat, !.returnTo = "LOBBY", !.phase = r.returnTo]
           collected == CollectPlayerCards(closed, s)
           paid == PayPlayer(collected, s, r.piquePot - RakeOf(r.piquePot), PotRef(r.piquePot))
           out == [paid EXCEPT !.piquePot = 0, !.folded = @ \cup {s}]
<1>1. s \in Seat /\ r.returnTo \in BettingPhases /\ r.piquePot = 0
  BY PlaysIsGood DEF Plays, Bank, Good, RoomOK
<1>2. Plays(quiet, w) BY ClearTurnTimerPlays
<1>3. \E q \in {closed, TransferMano(out), out} : CloseReveal(r) = Advance(q, r.returnTo)
  <2> HIDE DEF quiet
  <2>1. CloseReveal(r) = Advance(IF s \notin r.players THEN closed
                                 ELSE IF s = r.mano THEN TransferMano(out) ELSE out, r.returnTo)
    BY Zenon DEF CloseReveal, s, quiet, closed, collected, paid, out
  <2> HIDE DEF closed, out
  <2> QED BY <2>1
<1> HIDE DEF quiet, s
<1>4. Plays(closed, w)
  <2>1. closed.mano \in Seat /\ \A f \in MoneyFields : closed[f] = quiet[f]
    BY <1>2, PlaysIsGood DEF MoneyFields, Fields
  <2>2. Good(closed)
    BY <1>1, <1>2, PlaysIsGood
       DEF Good, RoomOK, Match, Owned, Fields, Groups, Maps, Flags, IsSeatMap, Phases
  <2> HIDE DEF closed
  <2> QED BY <1>2, <2>1, <2>2, SameMoneyPlays
<1> HIDE DEF closed
<1>5. Plays(collected, w) BY <1>1, <1>4, CollectPlayerCardsPlays
<1>6. paid = collected
  <2>1. r.piquePot - RakeOf(r.piquePot) = 0 BY <1>1 DEF RakeOf
  <2> HIDE DEF collected
  <2> QED BY <2>1 DEF PayPlayer
<1> HIDE DEF collected, paid
<1>7. Plays(out, w)
  <2>1. Plays(paid, w) BY <1>5, <1>6
  <2>2. paid.piquePot = 0 BY <2>1 DEF Plays, Bank
  <2>3. out.mano \in Seat /\ \A f \in MoneyFields : out[f] = paid[f]
    BY <2>1, <2>2, PlaysIsGood DEF MoneyFields, Fields
  <2>4. Good(out)
    BY <1>1, <2>1, PlaysIsGood
       DEF Good, RoomOK, Match, Owned, Fields, Groups, Maps, Flags, IsSeatMap
  <2> HIDE DEF out
  <2> QED BY <2>1, <2>3, <2>4, SameMoneyPlays
<1> HIDE DEF out
<1> QED BY <1>3, <1>4, <1>7, TransferManoPlays, PlayGoes

LEMMA DeclareGoes ==
    ASSUME NEW r, NEW w, Plays(r, w), NEW s \in Seat
    PROVE  Goes(Declare(r, s), w)
<1> DEFINE quiet == ClearTurnTimer(r)
           said == [quiet EXCEPT !.acted = @ \cup {s},
                                 !.yes = IF TieneJuego(Hand(r, s)) THEN @ \cup {s} ELSE @ \ {s},
                                 !.no  = IF TieneJuego(Hand(r, s)) THEN @ \ {s} ELSE @ \cup {s}]
<1>1. Plays(quiet, w) BY ClearTurnTimerPlays
<1>2. Declare(r, s) = AdvanceTurnDeclarar(said, NoSeat) BY DEF Declare
<1> HIDE DEF quiet
<1>3. Plays(said, w)
  <2>1. said.mano \in Seat /\ \A f \in MoneyFields : said[f] = quiet[f]
    BY <1>1, PlaysIsGood DEF MoneyFields, Fields
  <2>2. Good(said)
    BY <1>1, PlaysIsGood DEF Good, RoomOK, Match, Owned, Fields, Groups, Maps, Flags, IsSeatMap
  <2> HIDE DEF said
  <2> QED BY <1>1, <2>1, <2>2, SameMoneyPlays
<1> HIDE DEF said
<1>4. NoSeat \in Seat \cup {NoSeat} OBVIOUS
<1> QED BY <1>2, <1>3, <1>4, AdvanceTurnDeclararGoes

(* While the hand is played the table has its bank; GUERRA waits for its   *)
(* timer with nothing open; a question about juego holds up its player and *)
(* nobody else can move; a bet the ledger has not answered holds up the    *)
(* round it was made in.                                                   *)
MoneyInv ==
    /\ Inv /\ links.grace = {} /\ links.leaving = {}
    /\ room.phase \in Playing => Bank(room)
    /\ room.revealTimer => room.phase = "REVELAR_CARTA" /\ bet = NoBet /\ room.pasoBy = NoSeat
    /\ room.pasoBy # NoSeat /\ room.phase \in Playing =>
         room.phase = room.pasoPhase /\ room.turn = room.pasoBy /\ ~room.turnTimer /\ bet = NoBet
    /\ bet # NoBet => room.phase = bet.phase /\ bet.amount \in Int

FairStep == MoneyInv' /\ (Settles => Fair(room', Worth(room)))

LEMMA WorthOfBank ==
    ASSUME MoneyInv, room.phase \in Playing, room.pasoBy = NoSeat, ~room.revealTimer
    PROVE  Plays(room, Worth(room))
<1>1. Good(room) /\ Bank(room) BY InvIsGood DEF MoneyInv
<1>2. \A s \in Seat : room.chips[s] + room.mainBet[s] = Worth(room)[s] BY DEF Worth
<1> QED BY <1>1, <1>2 DEF Plays

(* A handler that ends settled, with no bet in flight.                     *)
LEMMA SettledStep ==
    ASSUME MoneyInv, Inv', links' = links, bet' = NoBet, Settled(room', Worth(room))
    PROVE  FairStep
<1>1. room'.phase \in Playing => Bank(room') /\ room'.pasoBy = NoSeat
  BY DEF Settled, Plays
<1>2. ~room'.revealTimer BY DEF Settled, Plays
<1>3. room'.pending => Fair(room', Worth(room)) BY DEF Settled, Plays, Bank
<1>4. MoneyInv' BY <1>1, <1>2 DEF MoneyInv
<1> QED BY <1>3, <1>4 DEF FairStep, Settles

(* A handler that only stops a timer.                                      *)
LEMMA QuietStep ==
    ASSUME MoneyInv, Inv', links' = links, bet' = bet,
           room' \in {ClearTurnTimer(room), ClearAutoTimer(room)}
    PROVE  FairStep
<1>1. DOMAIN room = Fields BY InvIsGood DEF MoneyInv, Good, RoomOK
<1>2. /\ \A f \in Fields \ {"turnTimer", "autoTimer"} : room'[f] = room[f]
      /\ ~room.turnTimer /\ room.turnTimer \in BOOLEAN => ~room'.turnTimer
  BY <1>1 DEF ClearTurnTimer, ClearAutoTimer, Fields
<1>3. /\ room'.phase = room.phase /\ room'.players = room.players
      /\ room'.connected = room.connected /\ room'.mano = room.mano
      /\ room'.piquePot = room.piquePot /\ room'.pending = room.pending
      /\ room'.cleanups = room.cleanups /\ room'.chips = room.chips
      /\ room'.roundBet = room.roundBet /\ room'.mainBet = room.mainBet
      /\ room'.pot = room.pot /\ room'.maxBet = room.maxBet /\ room'.turn = room.turn
      /\ room'.revealTimer = room.revealTimer /\ room'.pasoBy = room.pasoBy
      /\ room'.pasoPhase = room.pasoPhase
  BY <1>2 DEF Fields
<1>4. room.turnTimer \in BOOLEAN BY InvIsGood DEF MoneyInv, Good, RoomOK, Flags
<1>5. Bank(room) => Bank(room)' BY <1>3 DEF Bank
<1>6. MoneyInv' BY <1>2, <1>3, <1>4, <1>5 DEF MoneyInv
<1> QED BY <1>3, <1>6 DEF FairStep, Settles

(* A handler of a hand that is over.                                       *)
LEMMA OverStep ==
    ASSUME MoneyInv, Inv', links' = links, bet' = bet, room.phase \notin Playing,
           room'.phase \notin Playing, room'.revealTimer = room.revealTimer,
           room'.pending => room.pending
    PROVE  FairStep
<1>1. "REVELAR_CARTA" \in Playing BY DEF Playing
<1>2. bet = NoBet
  <2> SUFFICES ASSUME bet # NoBet PROVE FALSE OBVIOUS
  <2>1. room.phase = bet.phase BY DEF MoneyInv
  <2>2. bet.phase \in BettingPhases BY DEF MoneyInv, Inv, TypeOK
  <2> QED BY <2>1, <2>2, OffPlay
<1>3. ~room.revealTimer BY <1>1 DEF MoneyInv
<1>4. MoneyInv' BY <1>2, <1>3 DEF MoneyInv
<1> QED BY <1>4 DEF FairStep, Settles

(* Betting actions.                                                        *)

LEMMA MayActPlays ==
    ASSUME MoneyInv, Hasty = FALSE, NEW s \in Seat, MayAct(s)
    PROVE  Plays(room, Worth(room)) /\ room.phase \in BettingPhases /\ bet = NoBet
<1>1. room.phase \in BettingPhases /\ room.turn = s /\ room.pasoBy # s /\ bet = NoBet
  BY DEF MayAct
<1>2. room.phase \in Playing /\ room.phase # "REVELAR_CARTA"
  BY <1>1, OffPlay DEF BettingPhases
<1>3. ~room.revealTimer BY <1>2 DEF MoneyInv
<1>4. room.pasoBy = NoSeat BY <1>1, <1>2 DEF MoneyInv
<1> QED BY <1>1, <1>2, <1>3, <1>4, WorthOfBank

LEMMA SubmitIsFair ==
    ASSUME MoneyInv, Inv', Hasty = FALSE, NEW s \in Seat, MayAct(s), NEW kind,
           NEW amount \in Int, NEW full, Submit(s, kind, amount, full)
    PROVE  FairStep
<1> DEFINE w == Worth(room)
           quiet == ClearTurnTimer(room)
           out == FoldAndPassMano(quiet, s)
<1>1. Plays(room, w) /\ room.phase \in BettingPhases /\ bet = NoBet BY MayActPlays
<1> HIDE DEF w
<1>2. Plays(quiet, w) BY <1>1, ClearTurnTimerPlays
<1>3. quiet.phase = room.phase BY <1>1, PlaysIsGood DEF ClearTurnTimer, Fields
<1> HIDE DEF quiet
<1>4. CASE room.chips[s] <= 0 /\ kind # "igualar"
  <2>1. room' = Finish(Advance(out, room.phase)) /\ bet' = NoBet /\ links' = links
    BY <1>1, <1>4 DEF Submit, quiet
  <2>2. Plays(out, w) BY <1>2, FoldAndPassManoPlays
  <2> HIDE DEF out
  <2>3. Goes(Advance(out, room.phase), w) BY <2>2, PlayGoes
  <2> QED BY <2>1, <2>3, FinishSettles, SettledStep DEF w
<1>5. CASE ~(room.chips[s] <= 0 /\ kind # "igualar")
  <2>1. /\ room' = quiet /\ links' = links
        /\ bet'.phase = room.phase /\ bet'.amount = amount
    BY <1>5 DEF Submit, quiet
  <2>2. /\ Bank(room') /\ room'.pasoBy = NoSeat /\ ~room'.revealTimer /\ ~room'.pending
    BY <1>2, <2>1 DEF Plays, Bank
  <2>3. Bank(room)' BY <2>2
  <2>4. bet'.phase = room'.phase /\ bet'.amount \in Int BY <1>3, <2>1
  <2>5. MoneyInv' BY <2>1, <2>2, <2>3, <2>4 DEF MoneyInv
  <2> QED BY <2>2, <2>5 DEF FairStep, Settles
<1> QED BY <1>4, <1>5

(* A "paso" that asks about juego leaves the question with its player.     *)
LEMMA AskedStep ==
    ASSUME MoneyInv, Inv', links' = links, bet' = NoBet, NEW w, Plays(room, w),
           NEW s \in Seat, s = room.turn, room.phase \in BettingPhases,
           room' = [ClearTurnTimer(room) EXCEPT !.pasoBy = s, !.pasoPhase = room.phase]
    PROVE  FairStep
<1>1. /\ DOMAIN room = Fields /\ Bank(room) /\ ~room.revealTimer /\ ~room.pending
  BY PlaysIsGood DEF Plays, Bank
<1>2. /\ room'.phase = room.phase /\ room'.players = room.players
      /\ room'.connected = room.connected /\ room'.mano = room.mano
      /\ room'.piquePot = room.piquePot /\ room'.pending = room.pending
      /\ room'.cleanups = room.cleanups /\ room'.chips = room.chips
      /\ room'.roundBet = room.roundBet /\ room'.mainBet = room.mainBet
      /\ room'.pot = room.pot /\ room'.maxBet = room.maxBet /\ room'.turn = room.turn
      /\ room'.revealTimer = room.revealTimer /\ room'.pasoBy = s
      /\ room'.pasoPhase = room.phase /\ ~room'.turnTimer
  BY <1>1 DEF ClearTurnTimer, Fields
<1>3. Bank(room)' BY <1>1, <1>2 DEF Bank
<1>4. MoneyInv' BY <1>1, <1>2, <1>3 DEF MoneyInv
<1> QED BY <1>1, <1>2, <1>4 DEF FairStep, Settles

LEMMA PassIsFair ==
    ASSUME MoneyInv, Inv', links' = links, bet' = NoBet, NEW r, Plays(r, Worth(room)),
           Plays(room, Worth(room)), ClearTurnTimer(r) = ClearTurnTimer(room),
           r.phase = room.phase, NEW s \in Seat, s = room.turn, room.phase \in BettingPhases,
           room' = Finish(Pass(r, s))
    PROVE  FairStep
<1>1. CASE Goes(Pass(r, s), Worth(room)) BY <1>1, FinishSettles, SettledStep
<1>2. CASE Pass(r, s) = Still([ClearTurnTimer(r) EXCEPT !.pasoBy = s, !.pasoPhase = r.phase])
  <2> DEFINE asked == [ClearTurnTimer(room) EXCEPT !.pasoBy = s, !.pasoPhase = room.phase]
  <2>1. Pass(r, s) = Still(asked) BY <1>2
  <2> HIDE DEF asked
  <2>2. Finish(Still(asked)) = asked
    BY DEF Finish, Still, AfterAction, AfterGuerra, AfterCanticos, AfterDeclarar, AfterBetting, IsDue
  <2>3. room' = asked BY <2>1, <2>2
  <2> QED BY <2>3, AskedStep DEF asked
<1> QED BY <1>1, <1>2, PassGoes

LEMMA BettingActionIsFair ==
    ASSUME MoneyInv, Inv', Hasty = FALSE, NEW s \in Seat, BettingAction(s)
    PROVE  FairStep
<1>1. MayAct(s) BY DEF BettingAction, Paso, Voy, VoyTooLow, Igualar, Resto, Submit
<1>2. Plays(room, Worth(room)) /\ room.phase \in BettingPhases /\ bet = NoBet BY <1>1, MayActPlays
<1>3. /\ room.chips[s] \in Int /\ room.maxBet \in Int /\ room.roundBet[s] \in Int
      /\ DOMAIN room = Fields /\ room.turn = s
  BY <1>1, <1>2, PlaysIsGood DEF Plays, Bank, MayAct
<1>4. CASE Paso(s)
  <2>1. room' = Finish(Pass(room, s)) /\ links' = links /\ bet' = NoBet
    BY <1>2, <1>4 DEF Paso
  <2> QED BY <1>2, <1>3, <2>1, PassIsFair
<1>5. ASSUME NEW raise \in Raises, Voy(s, raise) PROVE FairStep
  <2>1. raise \in Int BY MainPotAssumption
  <2>2. Min({raise, room.chips[s]}) \in Int BY <1>3, <2>1, MinOfTwo
  <2>3. Submit(s, "voy", Min({raise, room.chips[s]}), TRUE) BY <1>5 DEF Voy
  <2> QED BY <1>1, <2>2, <2>3, SubmitIsFair
<1>6. ASSUME NEW raise \in Raises, VoyTooLow(s, raise) PROVE FairStep
  <2>1. room' = ClearTurnTimer(room) /\ bet' = bet /\ links' = links BY <1>6 DEF VoyTooLow
  <2> QED BY <2>1, QuietStep
<1>7. CASE Igualar(s)
  <2> DEFINE call == room.maxBet - room.roundBet[s]
  <2>1. CASE call <= 0
    <3> DEFINE quiet == ClearTurnTimer(room)
               acted == [quiet EXCEPT !.acted = @ \cup {s}]
    <3>1. room' = Finish(Advance(acted, room.phase)) /\ bet' = NoBet /\ links' = links
      BY <1>2, <1>7, <2>1 DEF Igualar
    <3>2. Plays(quiet, Worth(room)) BY <1>2, ClearTurnTimerPlays
    <3> HIDE DEF quiet
    <3>3. acted.mano \in Seat /\ \A f \in MoneyFields : acted[f] = quiet[f]
      BY <3>2, PlaysIsGood DEF MoneyFields, Fields
    <3>4. Good(acted)
      BY <3>2, PlaysIsGood DEF Good, RoomOK, Match, Owned, Fields, Groups, Maps, Flags, IsSeatMap
    <3> HIDE DEF acted
    <3>5. Plays(acted, Worth(room)) BY <3>2, <3>3, <3>4, SameMoneyPlays
    <3> QED BY <3>1, <3>5, PlayGoes, FinishSettles, SettledStep
  <2>2. CASE ~(call <= 0)
    <3>1. call \in Int BY <1>3
    <3>2. Submit(s, "igualar", Min({call, room.chips[s]}), room.chips[s] >= call)
      BY <1>7, <2>2 DEF Igualar
    <3> HIDE DEF call
    <3>3. Min({call, room.chips[s]}) \in Int BY <1>3, <3>1, MinOfTwo
    <3> QED BY <1>1, <3>2, <3>3, SubmitIsFair
  <2> QED BY <2>1, <2>2
<1>8. CASE Resto(s)
  <2>1. Submit(s, "resto", room.chips[s], TRUE) BY <1>8 DEF Resto
  <2> QED BY <1>1, <1>3, <2>1, SubmitIsFair
<1> QED BY <1>4, <1>5, <1>6, <1>7, <1>8 DEF BettingAction

(* The answers of the ledger.                                              *)
LEMMA ReplyIsFair == ASSUME MoneyInv, Inv', LedgerReply PROVE FairStep
<1> DEFINE w == Worth(room)
<1>1. bet # NoBet /\ links' = links /\ bet' = NoBet
  BY DEF LedgerReply, BetAccepted, BetUnfunded, BetFailed
<1>2. /\ bet.seat \in Seat /\ bet.kind \in {"voy", "igualar", "resto"}
      /\ bet.phase \in BettingPhases /\ bet.amount \in Int /\ room.phase = bet.phase
  BY <1>1 DEF MoneyInv, Inv, TypeOK
<1>3. Plays(room, w)
  <2>1. room.phase \in Playing BY <1>2, OffPlay
  <2>2. room.pasoBy = NoSeat /\ ~room.revealTimer BY <1>1, <2>1 DEF MoneyInv
  <2> QED BY <2>1, <2>2, WorthOfBank
<1> HIDE DEF w
<1>4. CASE BetAccepted
  <2>1. bet.amount \in Nat /\ room' = Finish(Advance(TakeBet(room, bet), bet.phase))
    BY <1>2, <1>4 DEF BetAccepted
  <2>2. Plays(TakeBet(room, bet), w) BY <1>2, <1>3, <2>1, TakeBetPlays
  <2>3. Goes(Advance(TakeBet(room, bet), bet.phase), w) BY <2>2, PlayGoes
  <2> QED BY <1>1, <2>1, <2>3, FinishSettles, SettledStep DEF w
<1>5. CASE BetUnfunded
  <2>1. room' = Finish(Advance(FoldAndPassMano(room, bet.seat), bet.phase))
    BY <1>5 DEF BetUnfunded
  <2>2. Plays(FoldAndPassMano(room, bet.seat), w) BY <1>2, <1>3, FoldAndPassManoPlays
  <2>3. Goes(Advance(FoldAndPassMano(room, bet.seat), bet.phase), w) BY <2>2, PlayGoes
  <2> QED BY <1>1, <2>1, <2>3, FinishSettles, SettledStep DEF w
<1>6. CASE BetFailed
  <2>1. room' = room BY <1>6 DEF BetFailed
  <2>2. Settled(room', w) BY <1>3, <2>1 DEF Settled
  <2> QED BY <1>1, <2>2, SettledStep DEF w
<1> QED BY <1>4, <1>5, <1>6 DEF LedgerReply

LEMMA CleanupKeeps ==
    ASSUME NEW r, Good(r)
    PROVE  /\ CleanupRound(r).pending = r.pending /\ CleanupRound(r).revealTimer = r.revealTimer
           /\ \A w : /\ AwardPot(r, w).pending = r.pending
                     /\ AwardPot(r, w).revealTimer = r.revealTimer
<1> DEFINE Same(q) == DOMAIN q = Fields /\ q.pending = r.pending /\ q.revealTimer = r.revealTimer
<1>1. ASSUME NEW q, Same(q) PROVE Same(CleanupRound(q))
  <2> DEFINE cleared == PromoteWaitingPlayers(
                          [ClearAutoTimer(ClearTurnTimer(q))
                             EXCEPT !.forced = NoSeat, !.pot = 0, !.piquePot = 0, !.mano = NoSeat,
                                    !.phase = "LOBBY"])
  <2>1. Same(cleared) BY <1>1 DEF PromoteWaitingPlayers, ClearAutoTimer, ClearTurnTimer, Fields
  <2>2. CleanupRound(q) = IF q.rotated THEN cleared ELSE NextDealer(cleared)
    BY Zenon DEF CleanupRound, cleared
  <2> HIDE DEF cleared
  <2>3. Same(NextDealer(cleared)) BY <2>1 DEF NextDealer, Fields
  <2> HIDE DEF Same
  <2> QED BY <2>1, <2>2, <2>3
<1>2. \A s, amount, ref : Same(PayPlayer(r, s, amount, ref))
  BY DEF PayPlayer, LedgerCredit, Good, RoomOK, Fields
<1>3. Same(r) BY DEF Good, RoomOK
<1> HIDE DEF Same
<1>4. Same(CleanupRound(r)) /\ \A w : Same(AwardPot(r, w)) BY <1>1, <1>2, <1>3 DEF AwardPot
<1> QED BY <1>4 DEF Same

(* The messages of the clients.                                            *)

LEMMA AnswerIsFair ==
    ASSUME MoneyInv, Inv', NEW s \in Seat, PasoJuegoResponse(s) PROVE FairStep
<1> DEFINE w == Worth(room)
           quiet == ClearTurnTimer(room)
           asked == [quiet EXCEPT !.pasoBy = NoSeat, !.pasoPhase = "LOBBY"]
           shown == [asked EXCEPT !.acted = @ \cup {s}, !.passed = @ \cup {s},
                                  !.llevoBy = s, !.returnTo = room.phase,
                                  !.phase = "PIQUE_REVEAL", !.turn = s]
           out == FoldAndPassMano(CollectPlayerCards(asked, s), s)
<1>1. Good(room) /\ DOMAIN room = Fields BY InvIsGood DEF MoneyInv, Good, RoomOK
<1>2. room.phase \in BettingPhases /\ room.pasoBy # NoSeat
  BY <1>1, NAssumption DEF PasoJuegoResponse, MayAnswer, Good, RoomOK, Seat, NoSeat
<1>3. bet = NoBet /\ Bank(room) /\ ~room.revealTimer
  BY <1>2, OffPlay DEF MoneyInv
<1>4. (room' = shown \/ room' = Finish(Advance(out, room.phase))) /\ bet' = NoBet /\ links' = links
  BY <1>3 DEF PasoJuegoResponse
<1>5. Plays(asked, w)
  <2>1. Good(quiet) BY <1>1, ClearTurnTimerGood
  <2>2. /\ DOMAIN asked = Fields /\ asked.pasoBy = NoSeat
        /\ asked.players = room.players /\ asked.connected = room.connected
        /\ asked.mano = room.mano /\ asked.piquePot = room.piquePot
        /\ asked.pending = room.pending /\ asked.cleanups = room.cleanups
        /\ asked.chips = room.chips /\ asked.roundBet = room.roundBet
        /\ asked.mainBet = room.mainBet /\ asked.pot = room.pot
        /\ asked.maxBet = room.maxBet /\ asked.revealTimer = room.revealTimer
    BY <1>1 DEF ClearTurnTimer, Fields
  <2> HIDE DEF quiet
  <2>3. Good(asked) BY <2>1, ForgetQuestionGood
  <2> HIDE DEF asked
  <2>4. Bank(asked) BY <1>3, <2>2 DEF Bank
  <2>5. \A t \in Seat : asked.chips[t] + asked.mainBet[t] = w[t] BY <2>2 DEF Worth
  <2> QED BY <1>3, <2>2, <2>3, <2>4, <2>5 DEF Plays
<1> HIDE DEF asked, w
<1>6. Plays(shown, w)
  <2>1. shown.mano \in Seat /\ \A f \in MoneyFields : shown[f] = asked[f]
    BY <1>5, PlaysIsGood DEF MoneyFields, Fields
  <2>2. Owned(shown)
    <3>1. ~asked.turnTimer BY <1>1 DEF asked, ClearTurnTimer, Fields
    <3> QED BY <1>5, <3>1, PlaysIsGood DEF Owned, Fields
  <2>3. RoomOK(shown) /\ Match(shown)
    BY <1>2, <1>5, PlaysIsGood
       DEF Good, RoomOK, Match, Owned, Fields, Groups, Maps, Flags, IsSeatMap, Phases
  <2> HIDE DEF shown
  <2> QED BY <1>5, <2>1, <2>2, <2>3, SameMoneyPlays DEF Good
<1>7. Plays(out, w) BY <1>5, CollectPlayerCardsPlays, FoldAndPassManoPlays
<1> HIDE DEF shown, out
<1>8. Settled(room', w) BY <1>4, <1>6, <1>7, PlayGoes, FinishSettles
<1> QED BY <1>4, <1>8, SettledStep DEF w

(* A phase without bets, in which nothing else is open.                    *)
LEMMA QuietPhasePlays ==
    ASSUME MoneyInv, room.phase \in {"DECLARAR_JUEGO", "PIQUE_REVEAL"}
    PROVE  Plays(room, Worth(room)) /\ bet = NoBet
<1>1. room.phase \in Playing /\ room.phase # "REVELAR_CARTA" /\ room.phase \notin BettingPhases
  BY DEF Playing, BettingPhases
<1>2. bet = NoBet
  <2> SUFFICES ASSUME bet # NoBet PROVE FALSE OBVIOUS
  <2> QED BY <1>1 DEF MoneyInv, Inv, TypeOK
<1>3. room.pasoBy = NoSeat
  <2> SUFFICES ASSUME room.pasoBy # NoSeat PROVE FALSE OBVIOUS
  <2>1. room.phase = room.pasoPhase BY <1>1 DEF MoneyInv
  <2>2. room.pasoPhase \in BettingPhases BY InvIsGood DEF MoneyInv, Good, RoomOK
  <2> QED BY <1>1, <2>1, <2>2
<1>4. ~room.revealTimer BY <1>1 DEF MoneyInv
<1> QED BY <1>1, <1>2, <1>3, <1>4, WorthOfBank

LEMMA DeclareIsFair ==
    ASSUME MoneyInv, Inv', NEW s \in Seat, DeclararJuego(s) PROVE FairStep
<1>1. /\ room.phase = "DECLARAR_JUEGO" /\ room' = Finish(Declare(room, s))
      /\ bet' = bet /\ links' = links
  BY DEF DeclararJuego, MayDeclare
<1>2. Plays(room, Worth(room)) /\ bet' = NoBet BY <1>1, QuietPhasePlays
<1> QED BY <1>1, <1>2, DeclareGoes, FinishSettles, SettledStep

LEMMA RevealIsFair == ASSUME MoneyInv, Inv', DismissReveal PROVE FairStep
<1>1. /\ room.phase = "PIQUE_REVEAL" /\ room.llevoBy # NoSeat
      /\ room' = Finish(CloseReveal(room)) /\ bet' = bet /\ links' = links
  BY DEF DismissReveal, MayDismissReveal
<1>2. Plays(room, Worth(room)) /\ bet' = NoBet BY <1>1, QuietPhasePlays
<1> QED BY <1>1, <1>2, CloseRevealGoes, FinishSettles, SettledStep

(* The hand is over, and its pot goes to one player or was paid already.   *)

LEMMA ShowMuckIsFair ==
    ASSUME MoneyInv, Inv', NEW s \in Seat, NEW show \in BOOLEAN, ShowMuck(s, show)
    PROVE  FairStep
<1> DEFINE quiet == ClearAutoTimer(ClearTurnTimer(room))
           opened == [quiet EXCEPT !.phase = "SHOWDOWN"]
<1>1. Good(room) /\ Good(quiet) /\ room.phase = "SHOWDOWN_WAIT"
  BY InvIsGood, ClearTurnTimerGood, ClearAutoTimerGood DEF MoneyInv, ShowMuck, MayShow
<1>2. room' \in {quiet, opened, AwardPot(quiet, s)} /\ bet' = bet /\ links' = links
  BY DEF ShowMuck
<1>3. quiet.phase = room.phase /\ quiet.pending = room.pending /\ quiet.revealTimer = room.revealTimer
  BY <1>1 DEF ClearAutoTimer, ClearTurnTimer, Good, RoomOK, Fields
<1> HIDE DEF quiet
<1>4. opened.phase = "SHOWDOWN" /\ opened.pending = quiet.pending
      /\ opened.revealTimer = quiet.revealTimer
  BY <1>1 DEF Good, RoomOK, Fields
<1> HIDE DEF opened
<1>5. /\ AwardPot(quiet, s).phase \in {quiet.phase, "LOBBY"}
      /\ AwardPot(quiet, s).pending = quiet.pending
      /\ AwardPot(quiet, s).revealTimer = quiet.revealTimer
  BY <1>1, CleanupPhase, CleanupKeeps
<1>6. /\ room'.phase \in {"SHOWDOWN", "SHOWDOWN_WAIT", "LOBBY"}
      /\ room'.pending = room.pending /\ room'.revealTimer = room.revealTimer
  BY <1>1, <1>2, <1>3, <1>4, <1>5
<1> QED BY <1>1, <1>2, <1>6, OffPlay, OverStep

(* What ends a showdown: the cleanup of one that was paid, an award, or an *)
(* early end.                                                              *)
LEMMA EndingIsFair ==
    ASSUME MoneyInv, Inv', bet' = bet, links' = links, NEW quiet, Good(quiet),
           room.phase \in {"SHOWDOWN", "SHOWDOWN_WAIT"}, quiet.phase = room.phase,
           quiet.pending => room.pending, quiet.revealTimer = room.revealTimer,
           \/ room' = CleanupRound(quiet)
           \/ \E w : room' = AwardPot(quiet, w)
           \/ room' = EndHandEarlyAfterFoldOut(quiet)
    PROVE  FairStep
<1>1. /\ room'.phase \in {quiet.phase, "LOBBY"} /\ room'.pending = quiet.pending
      /\ room'.revealTimer = quiet.revealTimer
  BY CleanupPhase, CleanupKeeps, EarlyEndPhase, EarlyEndKeeps
<1> QED BY <1>1, OffPlay, OverStep

LEMMA DismissShowdownIsFair == ASSUME MoneyInv, Inv', DismissShowdown PROVE FairStep
<1> DEFINE quiet == ClearAutoTimer(ClearTurnTimer(room))
           closed == [quiet EXCEPT !.pending = FALSE]
           first == Min(Active(room))
<1>1. Good(room) /\ Good(quiet) /\ room.phase = "SHOWDOWN"
  BY InvIsGood, ClearTurnTimerGood, ClearAutoTimerGood DEF MoneyInv, DismissShowdown, MayDismissShowdown
<1>2. /\ room' \in {CleanupRound(closed), AwardPot(quiet, first), EndHandEarlyAfterFoldOut(quiet)}
      /\ bet' = bet /\ links' = links
  BY DEF DismissShowdown
<1>3. quiet.phase = room.phase /\ quiet.pending = room.pending /\ quiet.revealTimer = room.revealTimer
  BY <1>1 DEF ClearAutoTimer, ClearTurnTimer, Good, RoomOK, Fields
<1> HIDE DEF quiet, first
<1>4. Good(closed) BY <1>1 DEF Good, RoomOK, Match, Owned, Fields, Groups, Maps, Flags, IsSeatMap
<1>5. closed.phase = quiet.phase /\ ~closed.pending /\ closed.revealTimer = quiet.revealTimer
  BY <1>1 DEF Good, RoomOK, Fields
<1> HIDE DEF closed
<1>6. CASE room' = CleanupRound(closed) BY <1>1, <1>2, <1>3, <1>4, <1>5, <1>6, EndingIsFair
<1>7. CASE room' # CleanupRound(closed) BY <1>1, <1>2, <1>3, <1>7, EndingIsFair
<1> QED BY <1>6, <1>7

(* The timers.                                                             *)

LEMMA StartGuerraIsFair == ASSUME MoneyInv, Inv', StartGuerra PROVE FairStep
<1> DEFINE w == Worth(room)
           started == [room EXCEPT !.revealTimer = FALSE]
<1>1. /\ Good(room) /\ DOMAIN room = Fields /\ Bank(room) /\ bet = NoBet /\ room.pasoBy = NoSeat
  BY InvIsGood DEF MoneyInv, StartGuerra, Playing, Good, RoomOK
<1>2. room' = Finish(EnterGuerra(started)) /\ bet' = NoBet /\ links' = links
  BY <1>1 DEF StartGuerra
<1>3. Plays(started, w)
  <2>1. Good(started)
    BY <1>1 DEF Good, RoomOK, Match, Owned, Fields, Groups, Maps, Flags, IsSeatMap
  <2>2. /\ started.pasoBy = NoSeat /\ ~started.revealTimer
        /\ started.players = room.players /\ started.connected = room.connected
        /\ started.mano = room.mano /\ started.piquePot = room.piquePot
        /\ started.pending = room.pending /\ started.cleanups = room.cleanups
        /\ started.chips = room.chips /\ started.roundBet = room.roundBet
        /\ started.mainBet = room.mainBet /\ started.pot = room.pot
        /\ started.maxBet = room.maxBet
    BY <1>1 DEF Fields
  <2> HIDE DEF started
  <2>3. Bank(started) BY <1>1, <2>2 DEF Bank
  <2>4. \A t \in Seat : started.chips[t] + started.mainBet[t] = w[t] BY <2>2 DEF Worth
  <2> QED BY <2>1, <2>2, <2>3, <2>4 DEF Plays
<1> HIDE DEF started, w
<1> QED BY <1>2, <1>3, EntriesGo, FinishSettles, SettledStep DEF w

LEMMA TurnTimeoutIsFair == ASSUME MoneyInv, Inv', TurnTimeout PROVE FairStep
<1> DEFINE w == Worth(room)
           quiet == ClearTurnTimer(room)
           s == room.turn
<1>1. /\ Good(room) /\ Good(quiet) /\ bet = NoBet /\ bet' = NoBet /\ links' = links
      /\ room.turnTimer /\ DOMAIN room = Fields
  BY InvIsGood, ClearTurnTimerGood DEF MoneyInv, TurnTimeout, Good, RoomOK
<1>2. quiet.phase = room.phase /\ quiet.llevoBy = room.llevoBy /\ ClearTurnTimer(quiet) = quiet
  BY <1>1 DEF ClearTurnTimer, Fields
<1>3. \/ room' = Finish(Still(quiet))
      \/ s \in Seat /\ room.phase \in BettingPhases /\ room' = Finish(Pass(quiet, s))
      \/ s \in Seat /\ room.phase = "DECLARAR_JUEGO" /\ room' = Finish(Declare(quiet, s))
      \/ room.phase = "PIQUE_REVEAL" /\ room.llevoBy # NoSeat /\ room' = Finish(CloseReveal(quiet))
  <2>1. room.players \subseteq Seat BY <1>1, GroupsAreSeats
  <2>2. /\ BettingPhases \cap {"DECLARAR_JUEGO", "PIQUE_REVEAL"} = {}
        /\ "DECLARAR_JUEGO" # "PIQUE_REVEAL"
    BY DEF BettingPhases
  <2> HIDE DEF quiet
  <2>3. CASE s \notin room.players \cap room.connected BY <2>3 DEF TurnTimeout, quiet
  <2>4. CASE s \in room.players \cap room.connected
    <3>1. s \in Seat BY <2>1, <2>4
    <3>2. CASE room.phase \in BettingPhases BY <2>2, <2>4, <3>1, <3>2 DEF TurnTimeout, quiet
    <3>3. CASE room.phase = "DECLARAR_JUEGO" BY <2>2, <2>4, <3>1, <3>3 DEF TurnTimeout, quiet
    <3>4. CASE room.phase = "PIQUE_REVEAL" /\ room.llevoBy # NoSeat
      BY <2>2, <2>4, <3>4 DEF TurnTimeout, quiet
    <3>5. CASE /\ room.phase \notin BettingPhases \cup {"DECLARAR_JUEGO"}
               /\ ~(room.phase = "PIQUE_REVEAL" /\ room.llevoBy # NoSeat)
      BY <2>4, <3>5 DEF TurnTimeout, quiet
    <3> QED BY <3>2, <3>3, <3>4, <3>5
  <2> QED BY <2>3, <2>4
<1>4. CASE room' = Finish(Still(quiet))
  <2>1. room' = quiet
    BY <1>4 DEF Finish, Still, AfterAction, AfterGuerra, AfterCanticos, AfterDeclarar,
                AfterBetting, IsDue
  <2> QED BY <1>1, <2>1, QuietStep
<1>5. ASSUME room.phase \in BettingPhases, s \in Seat, room' = Finish(Pass(quiet, s)) PROVE FairStep
  <2>1. room.phase \in Playing /\ room.phase # "REVELAR_CARTA"
    BY <1>5, OffPlay DEF BettingPhases
  <2>2. room.pasoBy = NoSeat /\ ~room.revealTimer BY <1>1, <2>1 DEF MoneyInv
  <2>3. Plays(room, w) BY <2>1, <2>2, WorthOfBank
  <2> HIDE DEF w
  <2>4. Plays(quiet, w) BY <2>3, ClearTurnTimerPlays
  <2>5. ClearTurnTimer(quiet) = ClearTurnTimer(room) BY <1>2
  <2> HIDE DEF quiet
  <2> QED BY <1>1, <1>2, <1>5, <2>3, <2>4, <2>5, PassIsFair DEF w
<1>6. ASSUME room.phase = "DECLARAR_JUEGO", s \in Seat, room' = Finish(Declare(quiet, s))
      PROVE  FairStep
  <2>1. Plays(quiet, w) BY <1>6, QuietPhasePlays, ClearTurnTimerPlays
  <2> HIDE DEF quiet, w, s
  <2> QED BY <1>1, <1>6, <2>1, DeclareGoes, FinishSettles, SettledStep DEF w
<1>7. ASSUME room.phase = "PIQUE_REVEAL", room.llevoBy # NoSeat, room' = Finish(CloseReveal(quiet))
      PROVE  FairStep
  <2>1. Plays(quiet, w) BY <1>7, QuietPhasePlays, ClearTurnTimerPlays
  <2> HIDE DEF quiet, w
  <2> QED BY <1>1, <1>2, <1>7, <2>1, CloseRevealGoes, FinishSettles, SettledStep DEF w
<1> QED BY <1>3, <1>4, <1>5, <1>6, <1>7

LEMMA ShowdownTimeoutIsFair == ASSUME MoneyInv, Inv', ShowdownTimeout PROVE FairStep
<1> DEFINE quiet == ClearAutoTimer(room)
           closed == [quiet EXCEPT !.pending = FALSE]
           unforced == [quiet EXCEPT !.forced = NoSeat]
<1>1. Good(room) /\ Good(quiet) /\ bet' = bet /\ links' = links
  BY InvIsGood, ClearAutoTimerGood DEF MoneyInv, ShowdownTimeout
<1>2. quiet.phase = room.phase /\ quiet.pending = room.pending /\ quiet.revealTimer = room.revealTimer
  BY <1>1 DEF ClearAutoTimer, Good, RoomOK, Fields
<1>3. room' = IF room.phase \notin {"SHOWDOWN", "SHOWDOWN_WAIT"} THEN quiet
              ELSE IF room.pending THEN CleanupRound(closed)
              ELSE IF room.forced # NoSeat THEN AwardPot(unforced, room.forced)
              ELSE EndHandEarlyAfterFoldOut(quiet)
  BY Zenon DEF ShowdownTimeout, quiet, closed, unforced
<1>4. CASE room.phase \notin {"SHOWDOWN", "SHOWDOWN_WAIT"} BY <1>1, <1>3, <1>4, QuietStep
<1> HIDE DEF quiet
<1>5. /\ Good(closed) /\ Good(unforced)
      /\ closed.phase = quiet.phase /\ ~closed.pending /\ closed.revealTimer = quiet.revealTimer
      /\ unforced.phase = quiet.phase /\ unforced.pending = quiet.pending
      /\ unforced.revealTimer = quiet.revealTimer
  <2>1. Good(closed) BY <1>1 DEF Good, RoomOK, Match, Owned, Fields, Groups, Maps, Flags, IsSeatMap
  <2>2. Good(unforced)
    BY <1>1 DEF Good, RoomOK, Match, Owned, Fields, Groups, Maps, Flags, IsSeatMap
  <2>3. DOMAIN quiet = Fields BY <1>1 DEF Good, RoomOK
  <2> QED BY <2>1, <2>2, <2>3 DEF Fields
<1> HIDE DEF closed, unforced
<1>6. ASSUME room.phase \in {"SHOWDOWN", "SHOWDOWN_WAIT"} PROVE FairStep
  <2>1. CASE room' = CleanupRound(closed) BY <1>1, <1>2, <1>5, <1>6, <2>1, EndingIsFair
  <2>2. CASE \E x : room' = AwardPot(unforced, x) BY <1>1, <1>2, <1>5, <1>6, <2>2, EndingIsFair
  <2>3. CASE room' = EndHandEarlyAfterFoldOut(quiet) BY <1>1, <1>2, <1>6, <2>3, EndingIsFair
  <2> QED BY <1>3, <1>6, <2>1, <2>2, <2>3
<1> QED BY <1>4, <1>6

LEMMA CleanupTimeoutIsFair == ASSUME MoneyInv, Inv', CleanupTimeout PROVE FairStep
<1> DEFINE ran == [room EXCEPT !.cleanups = @ - 1]
<1>1. Good(room) /\ DOMAIN room = Fields /\ room.cleanups > 0 BY InvIsGood DEF MoneyInv, CleanupTimeout, Good, RoomOK
<1>2. room' = CleanupRound(ran) /\ bet' = bet /\ links' = links BY DEF CleanupTimeout
<1>3. Good(ran)
  BY <1>1 DEF Good, RoomOK, Match, Owned, Fields, Groups, Maps, Flags, IsSeatMap
<1>4. ran.pending = room.pending /\ ran.revealTimer = room.revealTimer BY <1>1 DEF Fields
<1> HIDE DEF ran
<1>5. /\ room'.phase = "LOBBY" /\ room'.pending = room.pending
      /\ room'.revealTimer = room.revealTimer
  BY <1>2, <1>3, <1>4, CleanupPhase, CleanupKeeps
<1>6. room.phase \notin Playing BY <1>1 DEF MoneyInv, Bank
<1> QED BY <1>2, <1>5, <1>6, OffPlay, OverStep

LEMMA MoneyInit == Init => MoneyInv
<1> SUFFICES ASSUME Init PROVE MoneyInv OBVIOUS
<1>1. PICK d \in Deals : room = Start(d) BY DEF Init
<1>2. IsDeal(d) BY MainPotAssumption
<1>3. Inv BY InitGood
<1>4. /\ room.phase = "REVELAR_CARTA" /\ room.pasoBy = NoSeat /\ room.players = Seat
      /\ room.connected = Seat /\ room.mano = d.mano /\ room.piquePot = 0 /\ ~room.pending
      /\ room.cleanups = 0 /\ room.chips = d.chips /\ room.roundBet = [s \in Seat |-> 0]
      /\ room.mainBet = d.mainBet /\ room.maxBet = 0
      /\ room.pot = d.merged + SumFunctionOnSet(d.mainBet, Seat)
  BY <1>1 DEF Start
<1>5. Bank(room)
  <2>1. /\ d.mano \in Seat /\ d.chips \in [Seat -> Int] /\ d.mainBet \in [Seat -> Nat]
        /\ d.merged \in Nat
    BY <1>2 DEF IsDeal
  <2>2. SumFunctionOnSet(d.mainBet, Seat) \in Nat BY <2>1, StakesAreNat
  <2>3. room.pot \in Nat /\ SumFunctionOnSet(room.mainBet, Seat) <= room.pot
    BY <1>4, <2>1, <2>2
  <2>4. /\ room.chips \in [Seat -> Int] /\ room.roundBet \in [Seat -> Nat]
        /\ \A s \in Seat : room.roundBet[s] <= room.mainBet[s]
    BY <1>4, <2>1
  <2> QED BY <1>4, <2>1, <2>3, <2>4 DEF Bank
<1> QED BY <1>3, <1>4, <1>5 DEF MoneyInv, Init

LEMMA MoneyStep ==
    ASSUME Fates = {}, Hasty = FALSE, MoneyInv, [Next]_vars
    PROVE  FairStep
<1>1. Inv' BY NextGood DEF MoneyInv
<1>2. \A s \in Seat : ~Connection(s)
  BY DEF MoneyInv, Connection, Disconnect, Reconnect, GraceExpires, Leave, LeaveDone, Abandon,
         MayLose
<1>3. ASSUME NEW s \in Seat, ClientMessage(s) PROVE FairStep
  BY <1>1, <1>3, BettingActionIsFair, AnswerIsFair, DeclareIsFair, ShowMuckIsFair
     DEF ClientMessage
<1>4. CASE DismissReveal \/ DismissShowdown BY <1>1, <1>4, RevealIsFair, DismissShowdownIsFair
<1>5. CASE LedgerReply BY <1>1, <1>5, ReplyIsFair
<1>6. CASE Timer
  BY <1>1, <1>6, StartGuerraIsFair, TurnTimeoutIsFair, ShowdownTimeoutIsFair,
     CleanupTimeoutIsFair DEF Timer
<1>7. CASE UNCHANGED vars
  <2>1. room' = room /\ bet' = bet /\ links' = links BY <1>7 DEF vars
  <2>2. MoneyInv' BY <1>1, <2>1 DEF MoneyInv
  <2> QED BY <2>1, <2>2 DEF FairStep, Settles
<1> QED BY <1>2, <1>3, <1>4, <1>5, <1>6, <1>7 DEF Next

(* What Fair says of a room, the properties say of the step to it.         *)
LEMMA FairIsFair ==
    ASSUME Fair(room', Worth(room))
    PROVE  WinningsCovered /\ BeatenWinNothing
<1>1. /\ room'.players = Seat /\ room'.piquePot = 0
      /\ room'.mainBet \in [Seat -> Nat] /\ room'.pot \in Int
      /\ \A s \in Seat : WonSince(room', Worth(room), s)
           <= Matched(Seat, room'.mainBet, room'.mainBet[s])
                + (room'.pot - SumFunctionOnSet(room'.mainBet, Seat))
      /\ \A s, t \in Active(room') :
           WonSince(room', Worth(room), s) > 0 /\ room'.mainBet[s] <= room'.mainBet[t] =>
             WithManoBonus(Hand(room', t), t = room'.mano)
               <= WithManoBonus(Hand(room', s), s = room'.mano)
  BY DEF Fair
<1>2. \A s \in Seat : Won(s) = WonSince(room', Worth(room), s) BY DEF Won, WonSince, Worth
<1>3. WinningsCovered
  <2> DEFINE stakes == room'.mainBet
             total == SumFunctionOnSet(stakes, Seat)
  <2> SUFFICES ASSUME NEW s \in Seat
               PROVE  Won(s) <= Matched(Seat, stakes, stakes[s]) + (room'.pot - total)
                                  + room'.piquePot
    BY <1>1 DEF WinningsCovered, Matched
  <2>1. Matched(Seat, stakes, stakes[s]) \in Nat BY <1>1, MatchedIsNat
  <2>2. total \in Nat BY <1>1, StakesAreNat
  <2>3. Won(s) <= Matched(Seat, stakes, stakes[s]) + (room'.pot - total) BY <1>1, <1>2
  <2> HIDE DEF total, stakes
  <2> QED BY <1>1, <2>1, <2>2, <2>3
<1>4. BeatenWinNothing
  <2>1. Active(room') \subseteq Seat BY <1>1 DEF Active
  <2> QED BY <1>1, <1>2, <2>1 DEF BeatenWinNothing
<1> QED BY <1>3, <1>4

(* However many all-ins, folds, refunds and reveals have cut the pot into  *)
(* side pots, the showdown that settles them (calculateSidePots and        *)
(* persistShowdownResults, reached from every handler that can end the     *)
(* hand) lets a player win from each stake at most as much as he staked    *)
(* himself, and nothing against a better hand that staked as much.  It is  *)
(* proved while nobody's connection is lost and nobody bets while his      *)
(* "paso" awaits the answer about juego.                                   *)
THEOREM ShowdownsAreFair ==
    ASSUME Fates = {}, Hasty = FALSE
    PROVE  Spec => ShowdownIsFair
<1>1. Init => MoneyInv BY MoneyInit
<1>2. MoneyInv /\ [Next]_vars => FairStep BY MoneyStep
<1>3. FairStep => MoneyInv' /\ [Settles => WinningsCovered /\ BeatenWinNothing]_vars
  BY FairIsFair DEF FairStep
<1> QED BY <1>1, <1>2, <1>3, PTL DEF Spec, ShowdownIsFair

-----------------------------------------------------------------------------
(* Who is paid when players go.  Timers, removals, refunds and the end of  *)
(* a hand let the room fade: nobody is folded, no question is asked, and   *)
(* whoever gains is not out of the hand.                                   *)

Counts(r) ==
    /\ r.chips \in [Seat -> Int] /\ r.roundBet \in [Seat -> Int] /\ r.mainBet \in [Seat -> Int]
    /\ r.pot \in Int /\ r.piquePot \in Int /\ r.maxBet \in Int

Fades(r, q) ==
    /\ Good(q) /\ Counts(q)
    /\ q.yes \subseteq r.yes /\ q.no \subseteq r.no /\ q.folded \subseteq r.folded
    /\ q.forced \in {r.forced, NoSeat} /\ q.pasoBy = r.pasoBy /\ q.pasoPhase = r.pasoPhase
    /\ q.revealTimer = r.revealTimer /\ q.turn \in {r.turn, NoSeat}
    /\ (q.turnTimer => r.turnTimer)
    /\ \/ q.phase \in {r.phase, "LOBBY"}
       \/ (r.phase = "SHOWDOWN_WAIT" /\ q.phase = "SHOWDOWN")
    /\ \A s \in Seat :
         q.chips[s] + q.mainBet[s] > r.chips[s] + r.mainBet[s] => s \notin q.folded

Fading == {"chips", "roundBet", "mainBet", "pot", "piquePot", "maxBet"}
Unfolded == {"yes", "no", "folded", "forced", "pasoBy", "pasoPhase", "revealTimer", "phase", "turn"}

LEMMA FadesSame ==
    ASSUME NEW r, Counts(r), NEW q, Good(q), q.turnTimer => r.turnTimer,
           \A f \in Fading \cup Unfolded : q[f] = r[f]
    PROVE  Fades(r, q)
<1>1. /\ q.chips = r.chips /\ q.roundBet = r.roundBet /\ q.mainBet = r.mainBet /\ q.pot = r.pot
      /\ q.piquePot = r.piquePot /\ q.maxBet = r.maxBet
  BY DEF Fading
<1>2. /\ q.yes = r.yes /\ q.no = r.no /\ q.folded = r.folded /\ q.forced = r.forced
      /\ q.pasoBy = r.pasoBy /\ q.pasoPhase = r.pasoPhase /\ q.revealTimer = r.revealTimer
      /\ q.phase = r.phase /\ q.turn = r.turn
  BY DEF Unfolded
<1> QED BY <1>1, <1>2 DEF Fades, Counts

LEMMA FadesTwice ==
    ASSUME NEW r, Counts(r), NEW p, Fades(r, p), NEW q, Fades(p, q) PROVE Fades(r, q)
<1>1. ASSUME NEW s \in Seat, q.chips[s] + q.mainBet[s] > r.chips[s] + r.mainBet[s]
      PROVE  s \notin q.folded
  <2>1. /\ r.chips[s] \in Int /\ r.mainBet[s] \in Int /\ p.chips[s] \in Int
        /\ p.mainBet[s] \in Int /\ q.chips[s] \in Int /\ q.mainBet[s] \in Int
    BY DEF Fades, Counts
  <2>2. \/ q.chips[s] + q.mainBet[s] > p.chips[s] + p.mainBet[s]
        \/ p.chips[s] + p.mainBet[s] > r.chips[s] + r.mainBet[s]
    BY <1>1, <2>1
  <2> QED BY <2>2 DEF Fades
<1> QED BY <1>1 DEF Fades

LEMMA FadesFields == ASSUME NEW r, NEW q, Fades(r, q)
                     PROVE Good(q) /\ Counts(q) /\ DOMAIN q = Fields
BY DEF Fades, Good, RoomOK

(* A player who is in the hand is paid.                                    *)
LEMMA PayPlayerFades ==
    ASSUME NEW r, Good(r), Counts(r), NEW s \in Seat, s \notin r.folded, NEW amount \in Int, NEW ref
    PROVE  Fades(r, PayPlayer(r, s, amount, ref))
<1> DEFINE q == PayPlayer(r, s, amount, ref)
<1>1. Good(q) BY PayPlayerGood
<1>2. DOMAIN r = Fields /\ r.chips \in [Seat -> Int] BY DEF Good, RoomOK, Counts
<1>3. /\ \A f \in Fields \ {"chips", "balance", "refs", "skewed"} : q[f] = r[f]
      /\ q.chips = r.chips \/ q.chips = [r.chips EXCEPT ![s] = @ + amount]
  BY <1>2 DEF PayPlayer, LedgerCredit, Fields
<1> HIDE DEF q
<1>4. q.chips \in [Seat -> Int] /\ \A t \in Seat \ {s} : q.chips[t] = r.chips[t]
  <2>1. r.chips[s] + amount \in Int BY <1>2
  <2> QED BY <1>2, <1>3, <2>1
<1>5. /\ q.yes = r.yes /\ q.no = r.no /\ q.folded = r.folded /\ q.forced = r.forced
      /\ q.pasoBy = r.pasoBy /\ q.pasoPhase = r.pasoPhase /\ q.revealTimer = r.revealTimer
      /\ q.phase = r.phase /\ q.turn = r.turn /\ q.turnTimer = r.turnTimer
      /\ q.roundBet = r.roundBet /\ q.mainBet = r.mainBet /\ q.pot = r.pot
      /\ q.piquePot = r.piquePot /\ q.maxBet = r.maxBet
  BY <1>3 DEF Fields
<1>6. Counts(q) BY <1>4, <1>5 DEF Counts
<1>7. \A t \in Seat : q.chips[t] + q.mainBet[t] > r.chips[t] + r.mainBet[t] => t \notin q.folded
  <2> SUFFICES ASSUME NEW t \in Seat, t \in r.folded
               PROVE  ~(q.chips[t] + q.mainBet[t] > r.chips[t] + r.mainBet[t])
    BY <1>5
  <2>1. q.chips[t] = r.chips[t] /\ q.mainBet[t] = r.mainBet[t] BY <1>4, <1>5
  <2>2. r.chips[t] \in Int /\ r.mainBet[t] \in Int BY DEF Counts
  <2> QED BY <2>1, <2>2
<1> QED BY <1>1, <1>5, <1>6, <1>7 DEF Fades, q

LEMMA QuietFades ==
    ASSUME NEW r, Good(r), Counts(r)
    PROVE  /\ Fades(r, r) /\ Fades(r, ClearTurnTimer(r)) /\ Fades(r, ClearAutoTimer(r))
           /\ Fades(r, TransferMano(r)) /\ Fades(r, NextDealer(r)) /\ Fades(r, ScheduleCleanup(r))
           /\ Fades(r, PromoteWaitingPlayers(r))
<1>1. DOMAIN r = Fields BY DEF Good, RoomOK
<1>2. Fades(r, r) BY FadesSame
<1>3. Fades(r, ClearTurnTimer(r))
  <2>1. Good(ClearTurnTimer(r)) BY ClearTurnTimerGood
  <2>2. ~ClearTurnTimer(r).turnTimer /\ \A f \in Fading \cup Unfolded : ClearTurnTimer(r)[f] = r[f]
    BY <1>1 DEF ClearTurnTimer, Fading, Unfolded, Fields
  <2> QED BY <2>1, <2>2, FadesSame
<1>4. Fades(r, ClearAutoTimer(r))
  <2>1. Good(ClearAutoTimer(r)) BY ClearAutoTimerGood
  <2>2. /\ ClearAutoTimer(r).turnTimer = r.turnTimer
        /\ \A f \in Fading \cup Unfolded : ClearAutoTimer(r)[f] = r[f]
    BY <1>1 DEF ClearAutoTimer, Fading, Unfolded, Fields
  <2> QED BY <2>1, <2>2, FadesSame
<1>5. Fades(r, TransferMano(r))
  <2>1. Good(TransferMano(r)) BY TransferManoGood
  <2>2. /\ TransferMano(r).turnTimer = r.turnTimer
        /\ \A f \in Fading \cup Unfolded : TransferMano(r)[f] = r[f]
    BY <1>1 DEF TransferMano, Fading, Unfolded, Fields
  <2> QED BY <2>1, <2>2, FadesSame
<1>6. Fades(r, NextDealer(r))
  <2>1. Good(NextDealer(r)) BY NextDealerGood
  <2>2. /\ NextDealer(r).turnTimer = r.turnTimer
        /\ \A f \in Fading \cup Unfolded : NextDealer(r)[f] = r[f]
    BY <1>1 DEF NextDealer, Fading, Unfolded, Fields
  <2> QED BY <2>1, <2>2, FadesSame
<1>7. Fades(r, ScheduleCleanup(r))
  <2>1. Good(ScheduleCleanup(r)) BY ScheduleCleanupGood
  <2>2. /\ ScheduleCleanup(r).turnTimer = r.turnTimer
        /\ \A f \in Fading \cup Unfolded : ScheduleCleanup(r)[f] = r[f]
    BY <1>1 DEF ScheduleCleanup, Fading, Unfolded, Fields
  <2> QED BY <2>1, <2>2, FadesSame
<1>8. Fades(r, PromoteWaitingPlayers(r))
  <2>1. Good(PromoteWaitingPlayers(r)) BY PromoteWaitingPlayersGood
  <2>2. /\ PromoteWaitingPlayers(r).turnTimer = r.turnTimer
        /\ \A f \in Fading \cup Unfolded : PromoteWaitingPlayers(r)[f] = r[f]
    BY <1>1 DEF PromoteWaitingPlayers, Fading, Unfolded, Fields
  <2> QED BY <2>1, <2>2, FadesSame
<1> QED BY <1>2, <1>3, <1>4, <1>5, <1>6, <1>7, <1>8

LEMMA CleanupRoundFades ==
    ASSUME NEW r, Good(r), Counts(r)
    PROVE  Fades(r, CleanupRound(r)) /\ CleanupRound(r).phase = "LOBBY"
<1> DEFINE quiet == ClearAutoTimer(ClearTurnTimer(r))
           closed == [quiet EXCEPT !.forced = NoSeat, !.pot = 0, !.piquePot = 0, !.mano = NoSeat,
                                   !.phase = "LOBBY"]
           cleared == PromoteWaitingPlayers(closed)
<1>1. Fades(r, quiet) BY QuietFades, FadesFields, FadesTwice
<1>2. CleanupRound(r) = IF r.rotated THEN cleared ELSE NextDealer(cleared)
  BY Zenon DEF CleanupRound, cleared, closed, quiet
<1> HIDE DEF quiet
<1>3. Fades(quiet, closed)
  <2>1. Good(quiet) /\ Counts(quiet) /\ DOMAIN quiet = Fields BY <1>1, FadesFields
  <2>2. Good(closed)
    BY <2>1 DEF Good, RoomOK, Match, Owned, Fields, Groups, Maps, Flags, IsSeatMap, Phases
  <2>3. /\ closed.forced = NoSeat /\ closed.pot = 0 /\ closed.piquePot = 0
        /\ closed.phase = "LOBBY" /\ closed.turnTimer = quiet.turnTimer
        /\ closed.chips = quiet.chips /\ closed.roundBet = quiet.roundBet
        /\ closed.mainBet = quiet.mainBet /\ closed.maxBet = quiet.maxBet
        /\ \A f \in Unfolded \ {"forced", "phase"} : closed[f] = quiet[f]
    BY <2>1 DEF Unfolded, Fields
  <2> HIDE DEF closed
  <2>4. Counts(closed) BY <2>1, <2>3 DEF Counts
  <2>5. \A s \in Seat : ~(closed.chips[s] + closed.mainBet[s] > quiet.chips[s] + quiet.mainBet[s])
    BY <2>1, <2>3 DEF Counts
  <2> QED BY <2>2, <2>3, <2>4, <2>5 DEF Fades, Unfolded
<1>4. Fades(r, closed) BY <1>1, <1>3, FadesTwice
<1> HIDE DEF closed
<1>5. Fades(r, cleared) BY <1>4, QuietFades, FadesFields, FadesTwice
<1> HIDE DEF cleared
<1>6. Fades(r, NextDealer(cleared)) BY <1>5, QuietFades, FadesFields, FadesTwice
<1> QED BY <1>2, <1>5, <1>6, CleanupPhase

LEMMA RakeIsInt == ASSUME NEW a \in Int PROVE RakeOf(a) \in Int
<1>1. a + 1999 \in Int OBVIOUS
<1>2. (a + 1999) \div 2000 \in Int BY <1>1
<1> QED BY <1>2 DEF RakeOf

(* The winner of the whole pot.                                            *)
LEMMA AwardPotFades ==
    ASSUME NEW r, Good(r), Counts(r), NEW w, w \notin r.folded
    PROVE  Fades(r, AwardPot(r, w))
<1> DEFINE amount == (r.pot - RakeOf(r.pot)) + (r.piquePot - RakeOf(r.piquePot))
           paid == PayPlayer(r, w, amount, Ref("showdown-single"))
<1>1. amount \in Int
  <2>1. r.pot \in Int /\ r.piquePot \in Int BY DEF Counts
  <2>2. RakeOf(r.pot) \in Int /\ RakeOf(r.piquePot) \in Int BY <2>1, RakeIsInt
  <2> QED BY <2>1, <2>2
<1>2. AwardPot(r, w) = IF w \in r.players THEN CleanupRound(paid) ELSE r BY DEF AwardPot
<1>3. r.players \subseteq Seat BY GroupsAreSeats
<1> HIDE DEF amount
<1>4. w \in r.players => Fades(r, paid) BY <1>1, <1>3, PayPlayerFades
<1> HIDE DEF paid
<1>5. w \in r.players => Fades(r, CleanupRound(paid))
  BY <1>4, FadesFields, CleanupRoundFades, FadesTwice
<1> QED BY <1>2, <1>5, QuietFades

LEMMA PayPiqueToBestFades ==
    ASSUME NEW r, Good(r), Counts(r), NEW candidates \in SUBSET Seat, candidates # {},
           candidates \cap r.folded = {}
    PROVE  Fades(r, PayPiqueToBest(r, candidates))
<1> DEFINE eval == [s \in Seat |-> Hand(r, s)]
           mano == IF r.mano # NoSeat THEN r.mano ELSE r.dealer
           best == ResolveHandWinners(candidates, eval, mano)
           w == CHOOSE s \in best : \A t \in best : s <= t
           amount == r.piquePot - RakeOf(r.piquePot)
<1>1. eval \in [Seat -> 0..MaxHand] BY DEF Good, RoomOK, Hand, NINGUNA, MaxHand
<1>2. best # {} /\ best \subseteq candidates
  <2> HIDE DEF eval, mano
  <2> QED BY <1>1, SomebodyWins
<1>3. w \in candidates
  <2> HIDE DEF best
  <2>1. \E s \in best : \A t \in best : s <= t BY <1>2, LeastExists DEF Seat
  <2> QED BY <2>1, <1>2
<1>4. PayPiqueToBest(r, candidates) =
        IF r.piquePot > 0 THEN PayPlayer(r, w, amount, PotRef(r.piquePot)) ELSE r
  BY DEF PayPiqueToBest
<1> HIDE DEF w
<1>5. amount \in Int
  <2>1. r.piquePot \in Int BY DEF Counts
  <2>2. RakeOf(r.piquePot) \in Int BY <2>1, RakeIsInt
  <2> QED BY <2>1, <2>2
<1> HIDE DEF amount
<1>6. w \in Seat /\ w \notin r.folded BY <1>3
<1>7. Fades(r, PayPlayer(r, w, amount, PotRef(r.piquePot))) BY <1>5, <1>6, PayPlayerFades
<1> QED BY <1>4, <1>7, QuietFades

(* A cancelled hand: everybody who is paid is dealt in again.              *)
LEMMA RefundAllFades ==
    ASSUME NEW r, Good(r), Counts(r), ~r.turnTimer
    PROVE  Fades(r, RefundAllActiveBets(r)) /\ RefundAllActiveBets(r).phase = "LOBBY"
<1> DEFINE owed    == {s \in r.players : r.mainBet[s] > 0}
           sharers == IF r.piquePot > 0 THEN r.players \ r.folded ELSE {}
           share   == r.piquePot \div Cardinality(sharers)
           PiqueShare(s) == share + IF \A t \in sharers : s <= t
                                    THEN r.piquePot - share * Cardinality(sharers) ELSE 0
           PiqueGives == {s \in sharers : PiqueShare(s) > 0}
           Amount(s) == (IF s \in owed THEN r.mainBet[s] ELSE 0)
                          + (IF s \in PiqueGives THEN PiqueShare(s) ELSE 0)
           amounts == [s \in Seat |-> Amount(s)]
           q == RefundAllActiveBets(r)
<1>1. Good(q) BY RefundAllActiveBetsGood
<1>2. DOMAIN r = Fields /\ r.players \subseteq Seat /\ r.turn \in Seat \cup {NoSeat}
  BY DEF Good, RoomOK, Groups
<1>3. ASSUME NEW s \in sharers PROVE PiqueShare(s) \in Int
  <2>1. IsFiniteSet(sharers) /\ sharers # {} /\ r.piquePot \in Int
    <3>1. sharers \subseteq Seat BY <1>2
    <3> QED BY <3>1, SeatsAreFinite, FS_Subset DEF Counts
  <2> DEFINE n == Cardinality(sharers)
  <2>2. n \in Nat \ {0} BY <2>1, FS_CardinalityType, FS_EmptySet
  <2> HIDE DEF n, sharers
  <2>3. r.piquePot \div n \in Int BY <2>1, <2>2
  <2> DEFINE d == r.piquePot \div n
  <2> HIDE DEF d
  <2>4. d \in Int BY <2>3 DEF d
  <2>5. \A i, j \in Int : i * j \in Int OBVIOUS
  <2>6. d * n \in Int BY <2>2, <2>4, <2>5
  <2>7. \A b \in BOOLEAN : d + (IF b THEN r.piquePot - d * n ELSE 0) \in Int
    BY <2>1, <2>4, <2>6
  <2>8. PiqueShare(s) = d + (IF (\A t \in sharers : s <= t) THEN r.piquePot - d * n ELSE 0)
    BY DEF d, n
  <2> QED BY <2>7, <2>8
<1>4. ASSUME NEW s \in Seat
      PROVE  Amount(s) \in Int /\ (s \notin r.players => Amount(s) = 0)
  <2>1. s \in PiqueGives => s \in sharers OBVIOUS
  <2>2. s \in sharers => s \in r.players OBVIOUS
  <2>3. s \in owed => s \in r.players OBVIOUS
  <2>4. r.mainBet[s] \in Int BY DEF Counts
  <2> HIDE DEF PiqueShare, PiqueGives, sharers, owed
  <2>5. s \in PiqueGives => PiqueShare(s) \in Int BY <1>3, <2>1
  <2> QED BY <2>1, <2>2, <2>3, <2>4, <2>5
<1>5. /\ DOMAIN q = Fields /\ q.phase = "LOBBY" /\ q.turn = NoSeat
      /\ \A f \in Fields \ {"chips", "balance", "refs", "skewed", "pot", "piquePot", "turn", "mano",
                            "acted", "folded", "mainBet", "roundBet", "phase", "waiting"} :
           q[f] = r[f]
      /\ q.folded = r.folded \ r.players /\ q.pot = 0 /\ q.piquePot = 0
      /\ q.chips = [s \in Seat |-> r.chips[s] + Amount(s)]
      /\ q.mainBet = [s \in Seat |-> IF s \in r.players THEN 0 ELSE r.mainBet[s]]
      /\ q.roundBet = [s \in Seat |-> IF s \in r.players THEN 0 ELSE r.roundBet[s]]
  <2> DEFINE chips == [s \in Seat |-> r.chips[s] + Amount(s)]
             used == {<<s, Ref("cancelled")>> : s \in owed}
                       \cup {<<s, Ref("cancelled-pique")>> : s \in PiqueGives}
             Credited(s) ==
               (IF <<s, Ref("cancelled")>> \in used \ r.refs THEN r.mainBet[s] ELSE 0)
                 + (IF <<s, Ref("cancelled-pique")>> \in used \ r.refs THEN PiqueShare(s) ELSE 0)
             balance == [s \in Seat |-> r.balance[s] + Credited(s)]
             late == {s \in Seat : \E u \in used \cap r.refs : u[1] = s}
             after == [r EXCEPT !.chips   = chips,
                                !.balance = balance,
                                !.refs    = @ \cup used,
                                !.skewed  = @ \cup late,
                                !.pot = 0, !.piquePot = 0, !.turn = NoSeat, !.mano = NoSeat,
                                !.acted = @ \ r.players, !.folded = @ \ r.players,
                                !.mainBet  = [s \in Seat |-> IF s \in r.players THEN 0 ELSE @[s]],
                                !.roundBet = [s \in Seat |-> IF s \in r.players THEN 0 ELSE @[s]],
                                !.phase = "LOBBY"]
  <2>1. q = PromoteWaitingPlayers(after) BY Zenon DEF RefundAllActiveBets
  <2> HIDE DEF chips, used, balance, late, Amount
  <2>2. /\ DOMAIN after = Fields /\ after.phase = "LOBBY" /\ after.turn = NoSeat
        /\ \A f \in Fields \ {"chips", "balance", "refs", "skewed", "pot", "piquePot", "turn", "mano",
                              "acted", "folded", "mainBet", "roundBet", "phase"} : after[f] = r[f]
        /\ after.folded = r.folded \ r.players /\ after.pot = 0 /\ after.piquePot = 0
        /\ after.chips = chips
        /\ after.mainBet = [s \in Seat |-> IF s \in r.players THEN 0 ELSE r.mainBet[s]]
        /\ after.roundBet = [s \in Seat |-> IF s \in r.players THEN 0 ELSE r.roundBet[s]]
    BY <1>2 DEF Fields
  <2> HIDE DEF after, q
  <2>3. /\ DOMAIN q = Fields /\ \A f \in Fields \ {"waiting"} : q[f] = after[f]
    BY <2>1, <2>2 DEF PromoteWaitingPlayers, Fields
  <2> QED BY <2>2, <2>3 DEF chips, Fields
<1> HIDE DEF q, Amount
<1>6. Counts(q)
  <2>1. q.chips \in [Seat -> Int]
    <3>1. \A s \in Seat : r.chips[s] + Amount(s) \in Int BY <1>4 DEF Counts
    <3> QED BY <1>5, <3>1
  <2>2. q.mainBet \in [Seat -> Int] /\ q.roundBet \in [Seat -> Int] BY <1>5 DEF Counts
  <2>3. q.maxBet = r.maxBet BY <1>5 DEF Fields
  <2> QED BY <1>5, <2>1, <2>2, <2>3 DEF Counts
<1>7. ASSUME NEW s \in Seat, s \in q.folded
      PROVE  ~(q.chips[s] + q.mainBet[s] > r.chips[s] + r.mainBet[s])
  <2>1. s \notin r.players BY <1>5, <1>7
  <2>2. r.chips[s] \in Int /\ r.mainBet[s] \in Int BY DEF Counts
  <2>3. q.chips[s] = r.chips[s] + 0 /\ q.mainBet[s] = r.mainBet[s] BY <1>4, <1>5, <2>1
  <2> QED BY <2>2, <2>3
<1>8. /\ q.yes = r.yes /\ q.no = r.no /\ q.forced = r.forced /\ q.pasoBy = r.pasoBy
      /\ q.pasoPhase = r.pasoPhase /\ q.revealTimer = r.revealTimer /\ q.turnTimer = r.turnTimer
  BY <1>5 DEF Fields
<1> QED BY <1>1, <1>5, <1>6, <1>7, <1>8 DEF Fades, q

LEMMA EndHandEarlyFades ==
    ASSUME NEW r, Good(r), Counts(r) PROVE Fades(r, EndHandEarlyAfterFoldOut(r))
<1> DEFINE remaining == Active(r)
           solo  == CHOOSE s \in remaining : TRUE
           quiet == ClearTurnTimer(r)
           amount == r.pot - RakeOf(r.pot)
           paid  == IF Cardinality(remaining) = 1 /\ r.pot > 0
                    THEN PayPlayer(quiet, solo, amount, PotRef(r.pot)) ELSE quiet
           piqued == PayPiqueToBest(paid, remaining)
<1>1. remaining \in SUBSET Seat /\ remaining \cap r.folded = {}
  BY GroupsAreSeats DEF Active
<1>2. Fades(r, quiet) /\ ~quiet.turnTimer /\ quiet.folded = r.folded
  BY QuietFades DEF ClearTurnTimer, Good, RoomOK, Fields
<1>3. EndHandEarlyAfterFoldOut(r) =
        IF remaining = {} THEN RefundAllActiveBets(quiet) ELSE ScheduleCleanup(piqued)
  BY Zenon DEF EndHandEarlyAfterFoldOut, remaining, solo, quiet, amount, paid, piqued
<1>4. amount \in Int
  <2>1. r.pot \in Int BY DEF Counts
  <2>2. RakeOf(r.pot) \in Int BY <2>1, RakeIsInt
  <2> QED BY <2>1, <2>2
<1>5. remaining # {} => solo \in remaining OBVIOUS
<1> HIDE DEF solo, quiet, remaining, amount
<1>6. Fades(r, RefundAllActiveBets(quiet)) BY <1>2, FadesFields, RefundAllFades, FadesTwice
<1>7. ASSUME remaining # {} PROVE Fades(r, ScheduleCleanup(piqued))
  <2>1. solo \in Seat /\ solo \notin quiet.folded BY <1>1, <1>2, <1>5, <1>7
  <2>2. Fades(quiet, PayPlayer(quiet, solo, amount, PotRef(r.pot)))
    BY <1>2, <1>4, <2>1, FadesFields, PayPlayerFades
  <2>3. Fades(quiet, paid) BY <1>2, <2>2, FadesFields, QuietFades
  <2>4. paid.folded \subseteq quiet.folded BY <2>3 DEF Fades
  <2> HIDE DEF paid
  <2>5. Fades(r, paid) BY <1>2, <2>3, FadesTwice
  <2>6. Fades(paid, piqued)
    <3>1. remaining \cap paid.folded = {} BY <1>1, <1>2, <2>4
    <3> QED BY <1>1, <1>7, <2>5, <3>1, FadesFields, PayPiqueToBestFades
  <2> HIDE DEF piqued
  <2>7. Fades(r, piqued) BY <2>5, <2>6, FadesTwice
  <2> QED BY <2>7, FadesFields, QuietFades, FadesTwice
<1> QED BY <1>3, <1>6, <1>7

(* Removals.                                                               *)

LEMMA ResetRoomStateFades ==
    ASSUME NEW r, Good(r), Counts(r) PROVE Fades(r, ResetRoomState(r))
<1> DEFINE q == ResetRoomState(r)
<1>1. Good(q) BY ResetRoomStateGood
<1>2. DOMAIN r = Fields BY DEF Good, RoomOK
<1>3. /\ q.chips = r.chips /\ q.maxBet = r.maxBet /\ q.pot = 0 /\ q.piquePot = 0
      /\ q.forced = r.forced /\ q.revealTimer = r.revealTimer
      /\ q.pasoBy = r.pasoBy /\ q.pasoPhase = r.pasoPhase
      /\ q.turnTimer = FALSE /\ q.phase = "LOBBY" /\ q.turn = NoSeat
      /\ q.folded = r.folded \ r.players /\ q.yes = r.yes \ r.players /\ q.no = r.no \ r.players
      /\ q.roundBet = [s \in Seat |-> IF s \in r.players THEN 0 ELSE r.roundBet[s]]
      /\ q.mainBet = [s \in Seat |-> IF s \in r.players THEN 0 ELSE r.mainBet[s]]
  BY <1>2 DEF ResetRoomState, Fields
<1> HIDE DEF q
<1>4. Counts(q)
  <2>1. q.mainBet \in [Seat -> Int] /\ q.roundBet \in [Seat -> Int] BY <1>3 DEF Counts
  <2> QED BY <1>3, <2>1 DEF Counts
<1>5. ASSUME NEW s \in Seat, s \in q.folded
      PROVE  ~(q.chips[s] + q.mainBet[s] > r.chips[s] + r.mainBet[s])
  <2>1. s \notin r.players BY <1>3, <1>5
  <2>2. q.chips[s] = r.chips[s] /\ q.mainBet[s] = r.mainBet[s] BY <1>3, <2>1
  <2>3. r.chips[s] \in Int /\ r.mainBet[s] \in Int BY DEF Counts
  <2> QED BY <2>2, <2>3
<1> QED BY <1>1, <1>3, <1>4, <1>5 DEF Fades, q

LEMMA RemovePlayerFades ==
    ASSUME NEW r, Good(r), Counts(r), NEW s \in Seat PROVE Fades(r, RemovePlayer(r, s))
<1> DEFINE gone == [r EXCEPT !.players = @ \ {s}]
           order == SeatOrder(gone)
           heir == IF gone.players = {} \/ r.dealer # s THEN r.dealer
                   ELSE IF order # {} THEN Min(order) ELSE Min(gone.players)
           dealt == [gone EXCEPT !.dealer = heir,
                                 !.mano = IF @ = s /\ gone.players # {} /\ r.phase # "LOBBY"
                                          THEN heir ELSE @]
           idle == IF r.turn = s THEN ClearTurnTimer([dealt EXCEPT !.turn = NoSeat]) ELSE dealt
           q == RemovePlayer(r, s)
           Kept(p) ==
             /\ p.chips = r.chips /\ p.mainBet = r.mainBet /\ p.roundBet = r.roundBet
             /\ p.maxBet = r.maxBet /\ p.pot \in {r.pot, 0} /\ p.piquePot \in {r.piquePot, 0}
             /\ p.folded = r.folded /\ p.yes = r.yes /\ p.no = r.no /\ p.forced = r.forced
             /\ p.pasoBy = r.pasoBy /\ p.pasoPhase = r.pasoPhase
             /\ p.revealTimer = r.revealTimer /\ (p.turnTimer => r.turnTimer)
             /\ p.phase \in {r.phase, "LOBBY"} /\ p.turn \in {r.turn, NoSeat}
<1>1. Good(q) BY RemovePlayerGood
<1>2. DOMAIN r = Fields BY DEF Good, RoomOK
<1>3. q = IF gone.players = {} THEN ResetRoomState(idle) ELSE idle BY Zenon DEF RemovePlayer
<1>4. /\ DOMAIN idle = Fields
      /\ \A f \in Fields \ {"players", "dealer", "mano", "turn", "turnTimer"} : idle[f] = r[f]
      /\ idle.turn \in {r.turn, NoSeat} /\ (idle.turnTimer => r.turnTimer)
      /\ idle.players = gone.players
  <2> HIDE DEF heir
  <2>1. /\ DOMAIN dealt = Fields /\ dealt.players = gone.players
        /\ \A f \in Fields \ {"players", "dealer", "mano"} : dealt[f] = r[f]
    BY <1>2 DEF Fields
  <2> HIDE DEF dealt, gone
  <2> QED BY <2>1 DEF ClearTurnTimer, Fields
<1> HIDE DEF idle, q
<1>5. Kept(idle) BY <1>4 DEF Fields
<1>6. Kept(ResetRoomState(idle)) \/ gone.players # {}
  <2> SUFFICES ASSUME gone.players = {} PROVE Kept(ResetRoomState(idle)) OBVIOUS
  <2> DEFINE p == ResetRoomState(idle)
  <2>1. idle.players = {} BY <1>4
  <2>2. /\ p.chips = idle.chips /\ p.maxBet = idle.maxBet /\ p.pot = 0 /\ p.piquePot = 0
        /\ p.forced = idle.forced /\ p.revealTimer = idle.revealTimer
        /\ p.pasoBy = idle.pasoBy /\ p.pasoPhase = idle.pasoPhase
        /\ p.turnTimer = FALSE /\ p.phase = "LOBBY" /\ p.turn = NoSeat
        /\ p.folded = idle.folded /\ p.yes = idle.yes /\ p.no = idle.no
        /\ p.roundBet = [t \in Seat |-> idle.roundBet[t]]
        /\ p.mainBet = [t \in Seat |-> idle.mainBet[t]]
    BY <1>4, <2>1 DEF ResetRoomState, Fields
  <2>3. p.roundBet = idle.roundBet /\ p.mainBet = idle.mainBet
    <3>1. idle.roundBet \in [Seat -> Int] /\ idle.mainBet \in [Seat -> Int] BY <1>5 DEF Counts
    <3> HIDE DEF p
    <3> QED BY <2>2, <3>1
  <2> HIDE DEF p
  <2>4. Kept(p) BY <1>5, <2>2, <2>3
  <2> QED BY <2>4 DEF p
<1>7. Kept(q) BY <1>3, <1>5, <1>6
<1>8. Counts(q) BY <1>7 DEF Counts
<1>9. \A t \in Seat : ~(q.chips[t] + q.mainBet[t] > r.chips[t] + r.mainBet[t])
  BY <1>7 DEF Counts
<1> QED BY <1>1, <1>7, <1>8, <1>9 DEF Fades, q

LEMMA OfflineFades ==
    ASSUME NEW r, Good(r), Counts(r), NEW s \in Seat PROVE Fades(r, Offline(r, s))
<1> DEFINE off == [r EXCEPT !.connected = @ \ {s}]
<1>1. Good(off)
  BY DEF Good, RoomOK, Match, Owned, Fields, Groups, Maps, Flags, IsSeatMap
<1>2. off.turnTimer = r.turnTimer /\ \A f \in Fading \cup Unfolded : off[f] = r[f]
  BY DEF Good, RoomOK, Fading, Unfolded, Fields
<1>3. Offline(r, s) = IF off.players \cap off.connected = {} THEN ResetRoomState(off) ELSE off
  BY Zenon DEF Offline
<1> HIDE DEF off
<1>4. Fades(r, off) BY <1>1, <1>2, FadesSame
<1>5. Fades(r, ResetRoomState(off)) BY <1>4, FadesFields, ResetRoomStateFades, FadesTwice
<1> QED BY <1>3, <1>4, <1>5

LEMMA HandOverDealFades ==
    ASSUME NEW r, Good(r), Counts(r), NEW s \in Seat PROVE Fades(r, HandOverDeal(r, s))
<1> DEFINE q == HandOverDeal(r, s)
<1>1. Good(q) BY HandOverDealGood
<1>2. q.turnTimer = r.turnTimer /\ \A f \in Fading \cup Unfolded : q[f] = r[f]
  BY DEF HandOverDeal, Good, RoomOK, Fading, Unfolded, Fields
<1> HIDE DEF q
<1>3. Fades(r, q) BY <1>1, <1>2, FadesSame
<1> QED BY <1>3 DEF q

-----------------------------------------------------------------------------
(* A handler of the hand works on a room where nobody has won since every  *)
(* seat was worth w, and where f is forced to show his hand; it leaves a   *)
(* room that rests: whoever gained is in the hand.                         *)

Works(r, w, f) ==
    /\ Good(r) /\ Counts(r)
    /\ r.yes \cap r.no = {} /\ r.pasoBy = NoSeat /\ ~r.revealTimer /\ r.forced = f
    /\ \A s \in Seat : r.chips[s] + r.mainBet[s] = w[s]

Ends == {"SHOWDOWN", "SHOWDOWN_WAIT", "LOBBY"}

Rests(r, w) ==
    /\ Good(r) /\ Counts(r)
    /\ r.yes \cap r.no = {} /\ r.pasoBy = NoSeat /\ ~r.revealTimer
    /\ r.phase = "SHOWDOWN_WAIT" => r.turn \notin r.folded
    /\ r.forced # NoSeat =>
         r.phase \in Ends /\ (r.phase # "LOBBY" => r.forced \notin r.folded)
    /\ \A s \in Seat : r.chips[s] + r.mainBet[s] > w[s] => s \notin r.folded

(* What a handler hands over.                                              *)
Runs(step, w) ==
    IF step.due = "nothing" THEN Rests(step.room, w)
    ELSE \/ Works(step.room, w, NoSeat)
         \/ /\ IsDue(step, "SHOWDOWN")
            /\ \E f \in Seat \ step.room.folded : Works(step.room, w, f)

WorkFields == {"chips", "roundBet", "mainBet", "pot", "piquePot", "maxBet", "yes", "no",
               "pasoBy", "revealTimer", "forced"}

LEMMA SameWorks ==
    ASSUME NEW r, NEW w, NEW f, Works(r, w, f), NEW q, Good(q), \A x \in WorkFields : q[x] = r[x]
    PROVE  Works(q, w, f)
<1>1. /\ q.chips = r.chips /\ q.roundBet = r.roundBet /\ q.mainBet = r.mainBet
      /\ q.pot = r.pot /\ q.piquePot = r.piquePot /\ q.maxBet = r.maxBet
      /\ q.yes = r.yes /\ q.no = r.no /\ q.pasoBy = r.pasoBy
      /\ q.revealTimer = r.revealTimer /\ q.forced = r.forced
  BY DEF WorkFields
<1> QED BY <1>1 DEF Works, Counts

LEMMA WorksIsGood ==
    ASSUME NEW r, NEW w, NEW f, Works(r, w, f) PROVE Good(r) /\ Counts(r) /\ DOMAIN r = Fields
BY DEF Works, Good, RoomOK

(* A room that still works may as well stop.                               *)
LEMMA WorksRest ==
    ASSUME NEW r, NEW w, Works(r, w, NoSeat), r.phase = "SHOWDOWN_WAIT" => r.turn \notin r.folded
    PROVE  Rests(r, w)
<1>1. \A s \in Seat : r.chips[s] \in Int /\ r.mainBet[s] \in Int BY DEF Works, Counts
<1> QED BY <1>1 DEF Works, Rests

(* So may one that has faded since.                                        *)
LEMMA FadedRests ==
    ASSUME NEW r, NEW w, NEW f, Works(r, w, f), NEW q, Fades(r, q),
           r.phase = "SHOWDOWN_WAIT" => r.turn \notin r.folded,
           f # NoSeat => r.phase \in Ends /\ f \notin r.folded
    PROVE  Rests(q, w)
<1>1. NoSeat \notin q.folded BY DEF Fades, Good, RoomOK, Groups, Seat, NoSeat
<1>2. q.phase = "SHOWDOWN_WAIT" => q.turn \notin q.folded
  BY <1>1 DEF Fades
<1>3. q.forced # NoSeat => q.phase \in Ends /\ q.forced \notin q.folded
  BY DEF Fades, Works, Ends
<1>4. \A s \in Seat : q.chips[s] + q.mainBet[s] > w[s] => s \notin q.folded
  BY DEF Fades, Works
<1> QED BY <1>2, <1>3, <1>4 DEF Fades, Works, Rests

LEMMA WorksRuns ==
    ASSUME NEW r, NEW w, Works(r, w, NoSeat), NEW phase
    PROVE  Runs(Enter(r, phase), w) /\ Runs(Advance(r, phase), w)
BY DEF Runs, Enter, Advance

(* The helpers.                                                            *)

LEMMA QuietWorks ==
    ASSUME NEW r, NEW w, NEW f, Works(r, w, f)
    PROVE  Works(ClearTurnTimer(r), w, f) /\ Works(TransferMano(r), w, f)
<1>1. Good(ClearTurnTimer(r)) /\ \A x \in WorkFields : ClearTurnTimer(r)[x] = r[x]
  BY WorksIsGood, ClearTurnTimerGood DEF ClearTurnTimer, WorkFields, Fields
<1>2. Good(TransferMano(r)) /\ \A x \in WorkFields : TransferMano(r)[x] = r[x]
  BY ZenonT(60), WorksIsGood, TransferManoGood DEF TransferMano, WorkFields, Fields
<1> QED BY <1>1, <1>2, SameWorks

(* The player who is asked next is in the hand.                            *)
LEMMA GiveTurnRests ==
    ASSUME NEW r, NEW w, Works(r, w, NoSeat), NEW s \in Active(r)
    PROVE  Runs(Still(GiveTurn(r, s)), w)
<1> DEFINE q == GiveTurn(r, s)
<1>1. s \in Seat BY WorksIsGood, GroupsAreSeats
<1>2. Good(q) BY <1>1, WorksIsGood, GiveTurnGood
<1>3. q.turn = s /\ q.folded = r.folded /\ \A x \in WorkFields : q[x] = r[x]
  BY WorksIsGood DEF GiveTurn, WorkFields, Fields
<1> HIDE DEF q
<1>4. Works(q, w, NoSeat) BY <1>2, <1>3, SameWorks
<1>5. Rests(q, w) BY <1>3, <1>4, WorksRest DEF Active
<1> QED BY <1>5 DEF Runs, Still, q

LEMMA CollectPlayerCardsWorks ==
    ASSUME NEW r, NEW w, NEW f, Works(r, w, f), NEW s \in Seat
    PROVE  Works(CollectPlayerCards(r, s), w, f)
<1>1. /\ Good(CollectPlayerCards(r, s))
      /\ \A x \in WorkFields : CollectPlayerCards(r, s)[x] = r[x]
  BY WorksIsGood, CollectPlayerCardsGood DEF CollectPlayerCards, WorkFields, Fields
<1> QED BY <1>1, SameWorks

LEMMA MarkDisconnectedWorks ==
    ASSUME NEW r, NEW w, NEW f, Works(r, w, f)
    PROVE  Works(MarkDisconnectedAsImplicitAllIn(r), w, f)
<1> DEFINE q == MarkDisconnectedAsImplicitAllIn(r)
<1>1. Good(q) BY WorksIsGood, MarkDisconnectedGood
<1>2. \A x \in WorkFields : q[x] = r[x]
  BY WorksIsGood DEF MarkDisconnectedAsImplicitAllIn, WorkFields, Fields
<1> QED BY <1>1, <1>2, SameWorks

LEMMA FoldAndPassManoWorks ==
    ASSUME NEW r, NEW w, NEW f, Works(r, w, f), NEW s \in Seat
    PROVE  Works(FoldAndPassMano(r, s), w, f)
<1> DEFINE folded  == [r EXCEPT !.folded = @ \cup {s}, !.acted = @ \cup {s}]
           rotated == AttemptManoRotation(folded, s)
<1>1. DOMAIN folded = Fields /\ \A x \in WorkFields : folded[x] = r[x]
  BY WorksIsGood DEF WorkFields, Fields
<1>2. Good(folded)
  <2>1. Good(r) BY WorksIsGood
  <2> QED BY <2>1 DEF Good, RoomOK, Match, Owned, Fields, Groups, Maps, Flags, IsSeatMap
<1>3. FoldAndPassMano(r, s) = IF s = r.mano THEN TransferMano(rotated) ELSE rotated
  BY Zenon DEF FoldAndPassMano, folded, rotated
<1> HIDE DEF folded
<1>4. \A x \in WorkFields : rotated[x] = r[x]
  BY <1>1 DEF AttemptManoRotation, NextDealer, WorkFields, Fields
<1>5. Good(rotated) BY <1>2, AttemptManoRotationGood
<1> HIDE DEF rotated
<1>6. Works(rotated, w, f) BY <1>4, <1>5, SameWorks
<1> QED BY <1>3, <1>6, QuietWorks

LEMMA ReturnUncalledWorks ==
    ASSUME NEW r, NEW w, NEW f, Works(r, w, f), NEW s \in Seat, NEW u \in Int, u # 0
    PROVE  Works(ReturnUncalled(r, s, u), w, f)
<1> DEFINE q == ReturnUncalled(r, s, u)
           paid == PayPlayer(r, s, u, Ref("uncalled"))
<1>1. /\ Good(r) /\ DOMAIN r = Fields
      /\ r.chips \in [Seat -> Int] /\ r.roundBet \in [Seat -> Int] /\ r.mainBet \in [Seat -> Int]
      /\ r.pot \in Int /\ r.piquePot \in Int /\ r.maxBet \in Int
      /\ \A t \in Seat : r.chips[t] + r.mainBet[t] = w[t]
  BY WorksIsGood DEF Works, Counts
<1>2. Good(q) BY <1>1, ReturnUncalledGood
<1>3. /\ DOMAIN paid = Fields /\ paid.chips = [r.chips EXCEPT ![s] = @ + u]
      /\ \A x \in Fields \ {"chips", "balance", "refs", "skewed"} : paid[x] = r[x]
  BY <1>1 DEF PayPlayer, LedgerCredit, Fields
<1> HIDE DEF paid
<1>4. q = [paid EXCEPT !.roundBet[s] = @ - u, !.mainBet[s] = @ - u,
                       !.pot = IF @ >= u THEN @ - u ELSE 0]
  BY DEF ReturnUncalled, paid
<1>5. /\ q.chips = [r.chips EXCEPT ![s] = @ + u]
      /\ q.roundBet = [r.roundBet EXCEPT ![s] = @ - u]
      /\ q.mainBet = [r.mainBet EXCEPT ![s] = @ - u]
      /\ q.pot = (IF r.pot >= u THEN r.pot - u ELSE 0)
      /\ \A x \in {"piquePot", "maxBet", "yes", "no", "pasoBy", "revealTimer", "forced"} :
           q[x] = r[x]
  BY <1>1, <1>3, <1>4 DEF Fields
<1> HIDE DEF q
<1>6. /\ q.chips \in [Seat -> Int] /\ q.roundBet \in [Seat -> Int] /\ q.mainBet \in [Seat -> Int]
      /\ q.pot \in Int
      /\ \A t \in Seat : q.chips[t] + q.mainBet[t] = w[t]
  <2>1. /\ r.roundBet[s] - u \in Int /\ r.mainBet[s] - u \in Int /\ r.chips[s] + u \in Int
    BY <1>1
  <2> QED BY <1>1, <1>5, <2>1
<1>7. /\ q.piquePot = r.piquePot /\ q.maxBet = r.maxBet /\ q.yes = r.yes /\ q.no = r.no
      /\ q.pasoBy = r.pasoBy /\ q.revealTimer = r.revealTimer /\ q.forced = r.forced
  BY <1>5
<1> QED BY <1>2, <1>6, <1>7 DEF Works, Counts, q

LEMMA RefundWorks ==
    ASSUME NEW r, NEW w, NEW f, Works(r, w, f) PROVE Works(RefundUncalledBet(r), w, f)
<1> DEFINE pool == {s \in r.players : s \in r.connected \/ r.roundBet[s] > 0}
           Others(s) == {r.roundBet[t] : t \in pool \ {s}}
           Second(s) == Max(Others(s) \cup {0})
           above == {s \in pool \ r.folded : r.roundBet[s] > Second(s)}
           leader == CHOOSE s \in above : TRUE
           uncalled == r.roundBet[leader] - Second(leader)
<1>1. r.players \subseteq Seat /\ r.roundBet \in [Seat -> Int]
  BY WorksIsGood, GroupsAreSeats DEF Counts
<1>2. RefundUncalledBet(r) = IF above # {} THEN ReturnUncalled(r, leader, uncalled) ELSE r
  BY DEF RefundUncalledBet
<1>3. above \subseteq pool /\ pool \subseteq Seat BY <1>1
<1>4. ASSUME NEW s \in Seat PROVE Second(s) \in Int
  <2> DEFINE P == pool \ {s}
             g == [t \in P |-> r.roundBet[t]]
  <2>1. IsFiniteSet(P) BY <1>3, SeatsAreFinite, FS_Subset
  <2>2. g \in Surjection(P, Others(s)) BY DEF Surjection
  <2> HIDE DEF P, g
  <2>3. IsFiniteSet(Others(s)) BY <2>1, <2>2, FS_Surjection
  <2>4. \A x \in Others(s) \cup {0} : x \in Int
    <3>1. \A x \in Others(s) : x \in Int BY <1>1, <1>3
    <3>2. 0 \in Int OBVIOUS
    <3> HIDE DEF Others
    <3> QED BY <3>1, <3>2, Zenon
  <2>5. IsFiniteSet(Others(s) \cup {0}) BY <2>3, FS_AddElement
  <2> HIDE DEF Others
  <2>6. Others(s) \cup {0} \in SUBSET Int /\ Others(s) \cup {0} # {} BY <2>4
  <2>7. Max(Others(s) \cup {0}) \in Others(s) \cup {0} BY <2>5, <2>6, MaxIsGreatest
  <2> QED BY <2>4, <2>7
<1>5. CASE above # {}
  <2>1. leader \in above BY <1>5
  <2>2. leader \in Seat /\ r.roundBet[leader] > Second(leader) BY <1>3, <2>1
  <2> HIDE DEF Second, leader
  <2>3. uncalled \in Int /\ uncalled # 0 BY <1>1, <1>4, <2>2
  <2> HIDE DEF uncalled, above
  <2> QED BY <1>2, <1>5, <2>2, <2>3, ReturnUncalledWorks
<1>6. CASE above = {} BY <1>2, <1>6
<1> QED BY <1>5, <1>6

(* A bet moves chips into the stake and the pot.                           *)
LEMMA TakeBetWorks ==
    ASSUME NEW r, NEW w, NEW f, Works(r, w, f), NEW b, b.seat \in Seat,
           b.kind \in {"voy", "igualar", "resto"}, b.amount \in Int
    PROVE  Works(TakeBet(r, b), w, f)
<1> DEFINE s == b.seat
           a == b.amount
           taken == [r EXCEPT !.chips[s] = @ - b.amount, !.balance[s] = @ - b.amount,
                              !.roundBet[s] = @ + b.amount, !.mainBet[s] = @ + b.amount,
                              !.pot = @ + b.amount, !.acted = @ \cup {s}]
           raised == [taken EXCEPT !.maxBet = taken.roundBet[s]]
           called == [taken EXCEPT !.allIn = IF b.full THEN @ ELSE @ \cup {s}]
           allIn == [taken EXCEPT !.allIn = @ \cup {s}, !.maxBet = Max({@, taken.roundBet[s]})]
<1>1. /\ Good(r) /\ DOMAIN r = Fields
      /\ r.chips \in [Seat -> Int] /\ r.roundBet \in [Seat -> Int] /\ r.mainBet \in [Seat -> Int]
      /\ r.pot \in Int /\ r.piquePot \in Int /\ r.maxBet \in Int
      /\ \A t \in Seat : r.chips[t] + r.mainBet[t] = w[t]
  BY WorksIsGood DEF Works, Counts
<1>2. /\ DOMAIN taken = Fields
      /\ \A x \in Fields \ {"chips", "balance", "roundBet", "mainBet", "pot", "acted"} :
           taken[x] = r[x]
      /\ taken.chips = [r.chips EXCEPT ![s] = @ - a]
      /\ taken.balance = [r.balance EXCEPT ![s] = @ - a]
      /\ taken.roundBet = [r.roundBet EXCEPT ![s] = @ + a]
      /\ taken.mainBet = [r.mainBet EXCEPT ![s] = @ + a]
      /\ taken.pot = r.pot + a /\ taken.acted = r.acted \cup {s}
  BY <1>1 DEF Fields
<1>3. TakeBet(r, b) \in {MarkDisconnectedAsImplicitAllIn(raised), called,
                         MarkDisconnectedAsImplicitAllIn(allIn)}
  BY DEF TakeBet
<1> HIDE DEF taken
<1>4. Good(taken)
  <2>1. RoomOK(taken)
    <3>1. RoomOK(r) BY <1>1 DEF Good
    <3>2. DOMAIN taken.roundBet = Seat /\ DOMAIN taken.mainBet = Seat
      BY <1>1, <1>2
    <3> QED BY <1>2, <3>1, <3>2 DEF RoomOK, Fields, Groups, Maps, Flags, IsSeatMap
  <2>2. Match(taken)
    BY <1>1, <1>2 DEF Good, RoomOK, Match, Fields, Maps, IsSeatMap
  <2>3. Owned(taken) BY <1>1, <1>2 DEF Good, Owned, Fields
  <2> QED BY <2>1, <2>2, <2>3 DEF Good
<1>5. /\ taken.chips \in [Seat -> Int] /\ taken.roundBet \in [Seat -> Int]
      /\ taken.mainBet \in [Seat -> Int] /\ taken.pot \in Int
      /\ \A t \in Seat : taken.chips[t] + taken.mainBet[t] = w[t]
  <2>1. /\ r.chips[s] - a \in Int /\ r.roundBet[s] + a \in Int /\ r.mainBet[s] + a \in Int
    BY <1>1
  <2> QED BY <1>1, <1>2, <2>1
<1>6. Works(taken, w, f)
  <2>1. /\ taken.piquePot = r.piquePot /\ taken.maxBet = r.maxBet /\ taken.yes = r.yes
        /\ taken.no = r.no /\ taken.pasoBy = r.pasoBy /\ taken.revealTimer = r.revealTimer
        /\ taken.forced = r.forced
    BY <1>2 DEF Fields
  <2> QED BY <1>1, <1>4, <1>5, <2>1 DEF Works, Counts
<1>7. ASSUME NEW m \in Int, NEW all \in SUBSET Seat
      PROVE  Works([taken EXCEPT !.allIn = all, !.maxBet = m], w, f)
  <2> DEFINE q == [taken EXCEPT !.allIn = all, !.maxBet = m]
  <2>1. q.maxBet = m /\ \A x \in WorkFields \ {"maxBet"} : q[x] = taken[x]
    BY <1>2 DEF WorkFields, Fields
  <2>2. Good(q)
    BY <1>4 DEF Good, RoomOK, Match, Owned, Fields, Groups, Maps, Flags, IsSeatMap
  <2> HIDE DEF q
  <2>3. /\ q.chips = taken.chips /\ q.roundBet = taken.roundBet /\ q.mainBet = taken.mainBet
        /\ q.pot = taken.pot /\ q.piquePot = taken.piquePot /\ q.yes = taken.yes
        /\ q.no = taken.no /\ q.pasoBy = taken.pasoBy /\ q.revealTimer = taken.revealTimer
        /\ q.forced = taken.forced
    BY <2>1 DEF WorkFields
  <2>4. Works(q, w, f) BY <1>6, <2>1, <2>2, <2>3 DEF Works, Counts
  <2> QED BY <2>4 DEF q
<1>8. Works(raised, w, f) /\ Works(called, w, f) /\ Works(allIn, w, f)
  <2>1. /\ DOMAIN taken = Fields /\ taken.allIn \in SUBSET Seat
        /\ taken.roundBet[s] \in Int /\ taken.maxBet \in Int
    <3>1. taken.allIn \in SUBSET Seat BY <1>4 DEF Good, RoomOK, Groups
    <3>2. taken.maxBet \in Int BY <1>6 DEF Works, Counts
    <3>3. taken.roundBet[s] \in Int BY <1>5
    <3> QED BY <1>2, <3>1, <3>2, <3>3
  <2>2. Max({taken.maxBet, taken.roundBet[s]}) \in Int
    <3> DEFINE m == taken.maxBet
               x == taken.roundBet[s]
    <3>1. m \in Int /\ x \in Int BY <2>1
    <3> HIDE DEF m, x
    <3>2. \E k \in {m, x} : \A y \in {m, x} : k >= y BY <3>1
    <3>3. Max({m, x}) \in {m, x} BY <3>2 DEF Max
    <3>4. Max({m, x}) \in Int BY <3>1, <3>3
    <3> QED BY <3>4 DEF m, x
  <2>3. raised = [taken EXCEPT !.allIn = taken.allIn, !.maxBet = taken.roundBet[s]]
    BY <2>1 DEF Fields
  <2>4. called = [taken EXCEPT !.allIn = IF b.full THEN taken.allIn ELSE taken.allIn \cup {s},
                               !.maxBet = taken.maxBet]
    BY <2>1 DEF Fields
  <2>5. allIn = [taken EXCEPT !.allIn = taken.allIn \cup {s},
                              !.maxBet = Max({taken.maxBet, taken.roundBet[s]})]
    BY <2>1 DEF Fields
  <2>6. taken.allIn \cup {s} \in SUBSET Seat
        /\ (IF b.full THEN taken.allIn ELSE taken.allIn \cup {s}) \in SUBSET Seat
    BY <2>1
  <2> HIDE DEF raised, called, allIn
  <2>7. Works(raised, w, f) BY <1>7, <2>1, <2>3
  <2>8. Works(called, w, f) BY <1>7, <2>1, <2>4, <2>6
  <2>9. Works(allIn, w, f) BY <1>7, <2>2, <2>5, <2>6
  <2> QED BY <2>7, <2>8, <2>9
<1> HIDE DEF raised, called, allIn
<1> QED BY <1>3, <1>8, MarkDisconnectedWorks

(* The handlers hand on a room that works, or leave one that rests.        *)

LEMMA NobodyToPlayRuns ==
    ASSUME NEW r, NEW w, Works(r, w, NoSeat), NEW phase
    PROVE  Runs(NobodyToPlay(r, phase), w)
<1> DEFINE early == EndHandEarlyAfterFoldOut(r)
           quiet == ClearTurnTimer(r)
           refunded == RefundAllActiveBets(quiet)
<1>1. CASE r.pot = 0 /\ Active(r) = {} /\ r.piquePot = 0
  <2>1. NobodyToPlay(r, phase) = Still(early) BY <1>1 DEF NobodyToPlay
  <2>2. early = refunded BY <1>1 DEF EndHandEarlyAfterFoldOut
  <2>3. Works(quiet, w, NoSeat) /\ ~quiet.turnTimer
    BY QuietWorks, WorksIsGood DEF ClearTurnTimer, Fields
  <2> HIDE DEF quiet
  <2>4. Fades(quiet, refunded) /\ refunded.phase = "LOBBY"
    BY <2>3, WorksIsGood, RefundAllFades
  <2> HIDE DEF refunded, early
  <2>5. \A s \in Seat : refunded.chips[s] + refunded.mainBet[s] > w[s] => s \notin refunded.folded
    BY <2>3, <2>4 DEF Fades, Works
  <2>6. Rests(refunded, w) BY <2>3, <2>4, <2>5 DEF Fades, Works, Rests
  <2> QED BY <2>1, <2>2, <2>6 DEF Runs, Still
<1>2. CASE ~(r.pot = 0 /\ Active(r) = {} /\ r.piquePot = 0)
  <2>1. NobodyToPlay(r, phase) = Enter(r, NextPhase[phase]) BY <1>2 DEF NobodyToPlay
  <2> QED BY <2>1, WorksRuns
<1> QED BY <1>1, <1>2

LEMMA AdvanceTurnBettingRuns ==
    ASSUME NEW r, NEW w, Works(r, w, NoSeat), NEW from \in Seat \cup {NoSeat}, NEW phase
    PROVE  Runs(AdvanceTurnBetting(r, from, phase), w)
<1> DEFINE refunded == RefundUncalledBet(r)
           asked == IF from # NoSeat THEN from ELSE r.turn
           start == IF asked \notin SeatOrder(r) /\ from # NoSeat THEN r.mano ELSE asked
           next  == {s \in SeatOrder(r) : InTurn(r, s)}
           chosen == IF from # NoSeat THEN FirstFrom(start, next) ELSE FirstAfter(start, next)
<1>1. Works(refunded, w, NoSeat) BY RefundWorks
<1>2. next \in SUBSET Seat /\ start \in Seat \cup {NoSeat} BY WorksIsGood, GroupsAreSeats
<1>3. next \subseteq Active(r) BY DEF InTurn
<1>4. AdvanceTurnBetting(r, from, phase) =
        IF Cardinality(Active(r)) <= 1 THEN NobodyToPlay(refunded, phase)
        ELSE IF start \notin SeatOrder(r) THEN Enter(r, NextPhase[phase])
        ELSE IF next # {} THEN Still(GiveTurn(r, chosen))
        ELSE Enter(ClearTurnTimer(refunded), NextPhase[phase])
  BY Zenon DEF AdvanceTurnBetting, refunded, asked, start, next, chosen
<1> HIDE DEF refunded, next, start
<1>5. next # {} => chosen \in next BY <1>2, FirstIsFound
<1> HIDE DEF chosen
<1>6. next # {} => Runs(Still(GiveTurn(r, chosen)), w) BY <1>3, <1>5, GiveTurnRests
<1>7. Runs(NobodyToPlay(refunded, phase), w) BY <1>1, NobodyToPlayRuns
<1>8. Runs(Enter(r, NextPhase[phase]), w) BY WorksRuns
<1>9. Runs(Enter(ClearTurnTimer(refunded), NextPhase[phase]), w) BY <1>1, QuietWorks, WorksRuns
<1> QED BY <1>4, <1>6, <1>7, <1>8, <1>9

LEMMA OpenRoundWorks ==
    ASSUME NEW r, NEW w, Works(r, w, NoSeat), NEW phase \in BettingPhases
    PROVE  /\ Works([OpenRound(r, phase) EXCEPT !.pasoBy = NoSeat, !.pasoPhase = "LOBBY"],
                    w, NoSeat)
           /\ Works([OpenRound(r, phase) EXCEPT !.declined = @ \ r.players], w, NoSeat)
<1> DEFINE q == OpenRound(r, phase)
           asked == [q EXCEPT !.pasoBy = NoSeat, !.pasoPhase = "LOBBY"]
           declined == [q EXCEPT !.declined = @ \ r.players]
           Kept == {"chips", "mainBet", "pot", "piquePot", "yes", "no", "pasoBy", "revealTimer",
                    "forced"}
<1>1. Good(asked) /\ Good(declined) BY WorksIsGood, OpenedIsGood
<1>2. DOMAIN r = Fields /\ Counts(r) /\ r.pasoBy = NoSeat BY WorksIsGood DEF Works
<1>3. /\ DOMAIN q = Fields /\ q.maxBet = 0
      /\ q.roundBet = [s \in Seat |-> IF s \in r.players THEN 0 ELSE r.roundBet[s]]
      /\ \A x \in Fields \ {"phase", "maxBet", "acted", "roundBet"} : q[x] = r[x]
  BY <1>2 DEF OpenRound, Fields
<1> HIDE DEF q
<1>4. q.roundBet \in [Seat -> Int] BY <1>2, <1>3 DEF Counts
<1>5. ASSUME NEW p, Good(p), p.roundBet = q.roundBet, p.maxBet = 0, \A x \in Kept : p[x] = r[x]
      PROVE  Works(p, w, NoSeat)
  <2>1. /\ p.chips = r.chips /\ p.mainBet = r.mainBet /\ p.pot = r.pot
        /\ p.piquePot = r.piquePot /\ p.yes = r.yes /\ p.no = r.no /\ p.pasoBy = r.pasoBy
        /\ p.revealTimer = r.revealTimer /\ p.forced = r.forced
    BY <1>5
  <2> QED BY <1>2, <1>4, <1>5, <2>1 DEF Works, Counts
<1>6. asked.roundBet = q.roundBet /\ asked.maxBet = 0 /\ \A x \in Kept : asked[x] = r[x]
  BY <1>2, <1>3 DEF Fields
<1>7. declined.roundBet = q.roundBet /\ declined.maxBet = 0 /\ \A x \in Kept : declined[x] = r[x]
  BY <1>2, <1>3 DEF Fields
<1> HIDE DEF asked, declined, Kept
<1>8. Works(asked, w, NoSeat) /\ Works(declined, w, NoSeat) BY <1>1, <1>5, <1>6, <1>7
<1> QED BY <1>8 DEF asked, declined, q

LEMMA EntriesRun ==
    ASSUME NEW r, NEW w, Works(r, w, NoSeat)
    PROVE  /\ Runs(EnterGuerra(r), w)
           /\ Runs(EnterCanticos(r), w)
           /\ Runs(EnterGuerraJuego(r), w)
<1>1. {"GUERRA", "CANTICOS", "GUERRA_JUEGO"} \subseteq BettingPhases BY DEF BettingPhases
<1>2. Works(ClearTurnTimer(r), w, NoSeat) /\ r.mano \in Seat \cup {NoSeat}
  BY WorksIsGood, GroupsAreSeats, QuietWorks
<1>3. Runs(EnterGuerra(r), w)
  <2> DEFINE opened == [OpenRound(ClearTurnTimer(r), "GUERRA")
                          EXCEPT !.pasoBy = NoSeat, !.pasoPhase = "LOBBY"]
  <2>1. Works(opened, w, NoSeat) BY <1>1, <1>2, OpenRoundWorks
  <2>2. EnterGuerra(r) = AdvanceTurnBetting(opened, r.mano, "GUERRA") BY DEF EnterGuerra
  <2> HIDE DEF opened
  <2> QED BY <1>2, <2>1, <2>2, AdvanceTurnBettingRuns
<1>4. Runs(EnterCanticos(r), w)
  <2> DEFINE opened == [OpenRound(r, "CANTICOS") EXCEPT !.pasoBy = NoSeat, !.pasoPhase = "LOBBY"]
  <2>1. Works(opened, w, NoSeat) BY <1>1, OpenRoundWorks
  <2>2. EnterCanticos(r) = IF r.maxBet = 0 THEN Enter(ClearTurnTimer(r), "DECLARAR_JUEGO")
                           ELSE AdvanceTurnBetting(opened, r.mano, "CANTICOS")
    BY DEF EnterCanticos
  <2> HIDE DEF opened
  <2>3. Runs(Enter(ClearTurnTimer(r), "DECLARAR_JUEGO"), w) BY <1>2, WorksRuns
  <2> QED BY <1>2, <2>1, <2>2, <2>3, AdvanceTurnBettingRuns
<1>5. Runs(EnterGuerraJuego(r), w)
  <2> DEFINE quiet == ClearTurnTimer(r)
             opened == [OpenRound(quiet, "GUERRA_JUEGO") EXCEPT !.declined = @ \ r.players]
             other == [OpenRound(quiet, "GUERRA_JUEGO") EXCEPT !.declined = @ \ quiet.players]
  <2>1. quiet.players = r.players BY WorksIsGood DEF ClearTurnTimer, Fields
  <2>2. Works(quiet, w, NoSeat) BY <1>2
  <2> HIDE DEF quiet
  <2>3. opened = other BY <2>1
  <2>4. Works(other, w, NoSeat) BY <1>1, <2>2, OpenRoundWorks
  <2>5. EnterGuerraJuego(r) = AdvanceTurnBetting(opened, r.mano, "GUERRA_JUEGO")
    BY DEF EnterGuerraJuego, quiet
  <2> HIDE DEF opened, other
  <2> QED BY <1>2, <2>3, <2>4, <2>5, AdvanceTurnBettingRuns
<1> QED BY <1>3, <1>4, <1>5

(* The only player who declared juego did not decline it, so that he is    *)
(* not among those who are folded for it.                                  *)
LEMMA CloseDeclarationsRuns ==
    ASSUME NEW r, NEW w, Works(r, w, NoSeat), NEW declarers \in SUBSET Active(r)
    PROVE  Runs(CloseDeclarations(r, declarers), w)
<1> DEFINE quiet == [r EXCEPT !.turnTimer = FALSE, !.forced = NoSeat]
           with == declarers \cap r.yes
           without == declarers \cap r.no
           winner == CHOOSE s \in with : TRUE
           out == [quiet EXCEPT !.folded = @ \cup without]
           folded == FoldWithoutJuego(quiet, without)
           forcing == [folded EXCEPT !.forced = winner]
<1>1. declarers \subseteq Seat /\ declarers \cap r.folded = {} /\ r.yes \cap r.no = {}
  BY WorksIsGood, GroupsAreSeats DEF Works, Active
<1>2. Works(quiet, w, NoSeat) /\ quiet.folded = r.folded
  <2>1. \A x \in WorkFields : quiet[x] = r[x]
    BY ZenonT(60), WorksIsGood DEF Works, WorkFields, Fields
  <2>2. Good(quiet)
    BY WorksIsGood DEF Good, RoomOK, Match, Owned, Fields, Groups, Maps, Flags, IsSeatMap
  <2>3. quiet.folded = r.folded BY WorksIsGood DEF Fields
  <2> HIDE DEF quiet
  <2> QED BY <2>1, <2>2, <2>3, SameWorks
<1>3. \/ CloseDeclarations(r, declarers) = Enter(quiet, "SHOWDOWN")
      \/ with # {} /\ CloseDeclarations(r, declarers) = Enter(forcing, "SHOWDOWN")
      \/ CloseDeclarations(r, declarers) = Enter(folded, "GUERRA_JUEGO")
  <2> HIDE DEF quiet, folded
  <2>1. CloseDeclarations(r, declarers) =
          IF with = {} THEN Enter(quiet, "SHOWDOWN")
          ELSE IF Cardinality(with) = 1 THEN Enter(forcing, "SHOWDOWN")
          ELSE Enter(folded, "GUERRA_JUEGO")
    BY Zenon DEF CloseDeclarations, quiet, folded
  <2> QED BY <2>1
<1> HIDE DEF quiet
<1>4. Works(out, w, NoSeat) /\ out.folded = r.folded \cup without
  <2>1. out.folded = r.folded \cup without /\ \A x \in WorkFields : out[x] = quiet[x]
    BY <1>2, WorksIsGood DEF WorkFields, Fields
  <2>2. Good(out)
    <3>1. Good(quiet) /\ without \subseteq Seat BY <1>1, <1>2, WorksIsGood
    <3> HIDE DEF without
    <3> QED BY <3>1 DEF Good, RoomOK, Match, Owned, Fields, Groups, Maps, Flags, IsSeatMap
  <2> HIDE DEF out
  <2> QED BY <1>2, <2>1, <2>2, SameWorks
<1>5. Works(folded, w, NoSeat) /\ folded.folded = r.folded \cup without
  <2>1. folded = IF quiet.mano \in without THEN TransferMano(out) ELSE out
    BY Zenon DEF FoldWithoutJuego, folded, out
  <2> HIDE DEF out, folded
  <2>2. TransferMano(out).folded = out.folded
    BY <1>4, WorksIsGood DEF TransferMano, Fields
  <2> QED BY <1>4, <2>1, <2>2, QuietWorks
<1> HIDE DEF folded
<1>6. with # {} => winner \in Seat \ forcing.folded /\ Works(forcing, w, winner)
  <2> SUFFICES ASSUME with # {} PROVE winner \in Seat \ forcing.folded /\ Works(forcing, w, winner)
    OBVIOUS
  <2>1. winner \in with OBVIOUS
  <2>2. winner \in Seat /\ winner \notin r.folded \cup without BY <1>1, <2>1
  <2> HIDE DEF winner
  <2>3. /\ forcing.forced = winner /\ forcing.folded = folded.folded
        /\ \A x \in WorkFields \ {"forced"} : forcing[x] = folded[x]
    BY <1>5, WorksIsGood DEF WorkFields, Fields
  <2>4. Good(forcing)
    BY <1>5, <2>2, WorksIsGood
       DEF Good, RoomOK, Match, Owned, Fields, Groups, Maps, Flags, IsSeatMap
  <2> HIDE DEF forcing
  <2>5. /\ forcing.chips = folded.chips /\ forcing.roundBet = folded.roundBet
        /\ forcing.mainBet = folded.mainBet /\ forcing.pot = folded.pot
        /\ forcing.piquePot = folded.piquePot /\ forcing.maxBet = folded.maxBet
        /\ forcing.yes = folded.yes /\ forcing.no = folded.no /\ forcing.pasoBy = folded.pasoBy
        /\ forcing.revealTimer = folded.revealTimer
    BY <2>3 DEF WorkFields
  <2>6. Works(forcing, w, winner) BY <1>5, <2>3, <2>4, <2>5 DEF Works, Counts
  <2> QED BY <1>5, <2>2, <2>3, <2>6
<1> HIDE DEF with, forcing, winner
<1>7. with # {} => Runs(Enter(forcing, "SHOWDOWN"), w)
  BY <1>6 DEF Runs, Enter, IsDue
<1> QED BY <1>2, <1>3, <1>5, <1>7, WorksRuns

LEMMA AdvanceTurnDeclararRuns ==
    ASSUME NEW r, NEW w, Works(r, w, NoSeat), NEW from \in Seat \cup {NoSeat}
    PROVE  Runs(AdvanceTurnDeclarar(r, from), w)
<1> DEFINE declarers == Active(r) \ r.waiting
           asked == IF from # NoSeat THEN from ELSE r.turn
           start == IF asked \in SeatOrder(r) THEN asked ELSE r.mano
           next  == declarers \ r.acted
           chosen == IF from # NoSeat THEN FirstFrom(start, next) ELSE FirstAfter(start, next)
<1>1. /\ declarers \in SUBSET Active(r) /\ next \in SUBSET Seat /\ next \subseteq Active(r)
      /\ start \in Seat \cup {NoSeat}
  BY WorksIsGood, GroupsAreSeats
<1>2. AdvanceTurnDeclarar(r, from) =
        IF Cardinality(declarers) <= 1 \/ start \notin SeatOrder(r)
        THEN Enter(ClearTurnTimer(r), "SHOWDOWN")
        ELSE IF next # {} THEN Still(GiveTurn(r, chosen)) ELSE CloseDeclarations(r, declarers)
  BY Zenon DEF AdvanceTurnDeclarar, declarers, asked, start, next, chosen
<1> HIDE DEF declarers, next, start
<1>3. next # {} => chosen \in next BY <1>1, FirstIsFound
<1> HIDE DEF chosen
<1>4. next # {} => Runs(Still(GiveTurn(r, chosen)), w) BY <1>1, <1>3, GiveTurnRests
<1>5. Runs(Enter(ClearTurnTimer(r), "SHOWDOWN"), w) BY QuietWorks, WorksRuns
<1> QED BY <1>1, <1>2, <1>4, <1>5, CloseDeclarationsRuns

LEMMA EnterDeclararJuegoRuns ==
    ASSUME NEW r, NEW w, Works(r, w, NoSeat) PROVE Runs(EnterDeclararJuego(r), w)
<1> DEFINE opened == [r EXCEPT !.phase = "DECLARAR_JUEGO", !.acted = @ \ r.players,
                               !.yes = @ \ r.players, !.no = @ \ r.players]
<1>1. Works(opened, w, NoSeat)
  <2>1. /\ opened.yes = r.yes \ r.players /\ opened.no = r.no \ r.players
        /\ \A x \in WorkFields \ {"yes", "no"} : opened[x] = r[x]
    BY ZenonT(60), WorksIsGood DEF WorkFields, Fields
  <2>2. Good(opened)
    BY WorksIsGood DEF Good, RoomOK, Match, Owned, Fields, Groups, Maps, Flags, IsSeatMap, Phases
  <2> HIDE DEF opened
  <2>3. /\ opened.chips = r.chips /\ opened.roundBet = r.roundBet
        /\ opened.mainBet = r.mainBet /\ opened.pot = r.pot /\ opened.piquePot = r.piquePot
        /\ opened.maxBet = r.maxBet /\ opened.pasoBy = r.pasoBy
        /\ opened.revealTimer = r.revealTimer /\ opened.forced = r.forced
    BY <2>1 DEF WorkFields
  <2>4. opened.yes \cap opened.no = {} BY <2>1 DEF Works
  <2> QED BY <2>2, <2>3, <2>4 DEF Works, Counts
<1>2. EnterDeclararJuego(r) =
        IF Cardinality(Active(r) \ r.waiting) <= 1 \/ r.maxBet > 0
        THEN Enter(ClearTurnTimer(r), "SHOWDOWN") ELSE AdvanceTurnDeclarar(opened, r.mano)
  BY Zenon DEF EnterDeclararJuego, opened
<1> HIDE DEF opened
<1>3. r.mano \in Seat \cup {NoSeat} BY WorksIsGood, GroupsAreSeats
<1>4. Runs(Enter(ClearTurnTimer(r), "SHOWDOWN"), w) BY QuietWorks, WorksRuns
<1> QED BY <1>1, <1>2, <1>3, <1>4, AdvanceTurnDeclararRuns

(* The payouts of a showdown: amounts, and only to those who compete.      *)

LEMMA LevelsAreAmounts ==
    ASSUME NEW P, IsFiniteSet(P), NEW stake, \A t \in P : stake[t] \in Int
    PROVE  /\ IsFiniteSet(Levels(P, stake)) /\ Levels(P, stake) \in SUBSET Int
           /\ \A l \in Levels(P, stake) : Below(l, Levels(P, stake)) \in Int
<1> DEFINE D == {t \in P : stake[t] > 0}
           g == [s \in D |-> stake[s]]
           L == Levels(P, stake)
<1>1. L = {stake[s] : s \in D} BY DEF Levels
<1>2. IsFiniteSet(D) BY FS_Subset
<1>3. g \in Surjection(D, L) BY <1>1 DEF Surjection
<1>4. L \in SUBSET Int BY <1>1
<1> HIDE DEF g, L
<1>5. IsFiniteSet(L) BY <1>2, <1>3, FS_Surjection
<1>6. ASSUME NEW l \in L PROVE Below(l, L) \in Int
  <2> DEFINE B == {k \in L : k < l} \cup {0}
  <2>1. IsFiniteSet({k \in L : k < l}) BY <1>5, FS_Subset
  <2>2. IsFiniteSet(B) BY <2>1, FS_AddElement
  <2>3. B \in SUBSET Int
    <3>1. \A k \in L : k \in Int BY <1>4
    <3>2. 0 \in Int OBVIOUS
    <3>3. \A x \in B : x \in Int BY <3>1, <3>2, Zenon
    <3> QED BY <3>3
  <2>4. B # {} OBVIOUS
  <2>5. Below(l, L) = Max(B) BY DEF Below
  <2> HIDE DEF B
  <2>6. Max(B) \in B BY <2>2, <2>3, <2>4, MaxIsGreatest
  <2> QED BY <2>3, <2>5, <2>6
<1> QED BY <1>4, <1>5, <1>6 DEF L

LEMMA PotsHoldAmounts ==
    ASSUME NEW P, IsFiniteSet(P), NEW stake, \A t \in P : stake[t] \in Int, NEW pot \in Int, NEW C
    PROVE  /\ IsFiniteSet(SidePots(P, stake, pot, C))
           /\ \A p \in SidePots(P, stake, pot, C) : p.amount \in Int /\ p.eligible \subseteq C
<1> DEFINE L == Levels(P, stake)
           At(l) == Layer(P, stake, Below(l, L), l, C)
           layers == {At(l) : l \in L}
           rest == [level |-> Max(L \cup {0}) + 1, amount |-> pot - Total(layers), eligible |-> C]
<1>1. IsFiniteSet(L) /\ L \in SUBSET Int /\ \A l \in L : Below(l, L) \in Int
  BY LevelsAreAmounts
<1>2. SidePots(P, stake, pot, C) =
        layers \cup (IF pot > Total(layers) /\ C # {} THEN {rest} ELSE {})
  BY DEF SidePots
<1> HIDE DEF L
<1>3. ASSUME NEW l \in L PROVE At(l).amount \in Int /\ At(l).eligible \subseteq C
  <2> DEFINE n == Cardinality(Reached(P, stake, l))
  <2>1. n \in Nat
    <3>1. Reached(P, stake, l) \in SUBSET P BY DEF Reached
    <3> QED BY <3>1, FS_Subset, FS_CardinalityType
  <2>2. At(l).amount = (l - Below(l, L)) * n /\ At(l).eligible \subseteq C
    BY DEF Layer, EligibleFor
  <2> HIDE DEF n, At
  <2>3. l \in Int /\ Below(l, L) \in Int BY <1>1
  <2>4. l - Below(l, L) \in Int BY <2>3
  <2>5. \A i, j \in Int : i * j \in Int OBVIOUS
  <2> QED BY <2>1, <2>2, <2>4, <2>5
<1>4. IsFiniteSet(layers)
  <2> DEFINE g == [l \in L |-> At(l)]
  <2>1. g \in Surjection(L, layers) BY DEF Surjection
  <2> HIDE DEF g, layers
  <2> QED BY <1>1, <2>1, FS_Surjection
<1>5. \A p \in layers : p.amount \in Int /\ p.eligible \subseteq C BY <1>3
<1> HIDE DEF layers
<1>6. Total(layers) \in Int
  <2> DEFINE amount == [p \in layers |-> p.amount]
  <2>1. \A p \in layers : amount[p] \in Int BY <1>5
  <2> HIDE DEF amount
  <2>2. SumFunctionOnSet(amount, layers) \in Int BY <1>4, <2>1, SumType
  <2> QED BY <2>2 DEF Total, amount
<1>7. rest.amount \in Int /\ rest.eligible = C BY <1>6
<1> HIDE DEF rest
<1>8. IsFiniteSet(layers \cup {rest}) BY <1>4, FS_AddElement
<1> QED BY <1>2, <1>4, <1>5, <1>7, <1>8

LEMMA ShareIsAmount ==
    ASSUME NEW a \in Int, NEW W \in SUBSET Seat, W # {}, NEW s \in W
    PROVE  SplitAmount(a, W)[s] \in Int
<1>1. IsFiniteSet(W) BY SeatsAreFinite, FS_Subset
<1> DEFINE n == Cardinality(W)
<1>2. n \in Nat \ {0} BY <1>1, FS_CardinalityType, FS_EmptySet
<1>3. a \div n \in Int BY <1>2
<1> HIDE DEF n
<1>4. \A b \in BOOLEAN : a \div n + (IF b THEN 1 ELSE 0) \in Int BY <1>3
<1>5. SplitAmount(a, W)[s] =
        a \div n + (IF Cardinality({q \in W : q < s}) < a % n THEN 1 ELSE 0)
  BY DEF SplitAmount, n
<1> QED BY <1>4, <1>5

(* The showdown pays competitors, who are in the hand.                    *)
LEMMA PayoutsToCompetitors ==
    ASSUME NEW r, Good(r), Counts(r), NEW C \in SUBSET Seat
    PROVE  LET pots == {p \in SidePots(r.players, r.mainBet, r.pot, C) : p.eligible # {}}
           IN  /\ DOMAIN Payouts(r, pots) \subseteq C
               /\ \A s \in DOMAIN Payouts(r, pots) : Payouts(r, pots)[s] \in Int
<1> DEFINE all == SidePots(r.players, r.mainBet, r.pot, C)
           pots == {p \in all : p.eligible # {}}
           winners == UNION {PotWinners(r, p) : p \in pots}
           share(s) == [p \in pots |-> PotShare(r, p, s)]
           last  == CHOOSE p \in pots : \A q \in pots : q.level <= p.level
           first == Min(PotWinners(r, last))
           pique == r.piquePot - RakeOf(r.piquePot)
           payout == Payouts(r, pots)
<1>1. IsFiniteSet(all) /\ \A p \in all : p.amount \in Int /\ p.eligible \subseteq C
  <2>1. r.players \subseteq Seat BY GroupsAreSeats
  <2>2. IsFiniteSet(r.players) BY <2>1, SeatsAreFinite, FS_Subset
  <2>3. r.pot \in Int /\ \A t \in r.players : r.mainBet[t] \in Int BY <2>1 DEF Counts
  <2> QED BY <2>2, <2>3, PotsHoldAmounts
<1> HIDE DEF all
<1>2. IsFiniteSet(pots) /\ \A p \in pots : p.amount \in Int /\ p.eligible \subseteq C /\ p.eligible # {}
  <2>1. pots \subseteq all OBVIOUS
  <2>2. IsFiniteSet(pots) BY <1>1, <2>1, FS_Subset
  <2> QED BY <1>1, <2>2
<1>3. pique \in Int
  <2>1. r.piquePot \in Int BY DEF Counts
  <2>2. RakeOf(r.piquePot) \in Int BY <2>1, RakeIsInt
  <2> QED BY <2>1, <2>2
<1>4. /\ DOMAIN payout = winners
      /\ \A s \in winners : payout[s] = SumFunctionOnSet(share(s), pots)
                                          + (IF s = first /\ pique > 0 THEN pique ELSE 0)
  BY DEF Payouts
<1> HIDE DEF pots, pique, first, payout
<1>5. ASSUME NEW p \in pots
      PROVE  PotWinners(r, p) # {} /\ PotWinners(r, p) \subseteq p.eligible
  <2> DEFINE eval == [s \in Seat |-> Hand(r, s)]
             mano == IF r.mano # NoSeat THEN r.mano ELSE r.dealer
  <2>1. eval \in [Seat -> 0..MaxHand] BY DEF Good, RoomOK, Hand, NINGUNA, MaxHand
  <2>2. PotWinners(r, p) = ResolveHandWinners(p.eligible, eval, mano) BY DEF PotWinners
  <2>3. p.eligible \in SUBSET Seat /\ p.eligible # {} BY <1>2
  <2> HIDE DEF eval, mano
  <2> QED BY <2>1, <2>2, <2>3, SomebodyWins
<1>6. ASSUME NEW p \in pots, NEW s PROVE PotShare(r, p, s) \in Int
  <2> DEFINE W == PotWinners(r, p)
             a == p.amount - RakeOf(p.amount)
  <2>1. a \in Int
    <3>1. p.amount \in Int BY <1>2
    <3>2. RakeOf(p.amount) \in Int BY <3>1, RakeIsInt
    <3> QED BY <3>1, <3>2
  <2>2. W \in SUBSET Seat /\ W # {} BY <1>2, <1>5
  <2>3. PotShare(r, p, s) = IF s \in W THEN SplitAmount(a, W)[s] ELSE 0 BY DEF PotShare
  <2> HIDE DEF a, W
  <2>4. s \in W => SplitAmount(a, W)[s] \in Int BY <2>1, <2>2, ShareIsAmount
  <2> QED BY <2>3, <2>4
<1>7. winners \subseteq C BY <1>2, <1>5
<1>8. ASSUME NEW s \in winners PROVE payout[s] \in Int
  <2>1. \A p \in pots : share(s)[p] \in Int BY <1>6
  <2> HIDE DEF share
  <2>2. SumFunctionOnSet(share(s), pots) \in Int BY <1>2, <2>1, SumType
  <2>3. payout[s] = SumFunctionOnSet(share(s), pots)
                      + (IF s = first /\ pique > 0 THEN pique ELSE 0)
    BY <1>4
  <2> QED BY <1>3, <2>2, <2>3
<1> QED BY <1>4, <1>7, <1>8 DEF payout, pots, all

LEMMA SettleRests ==
    ASSUME NEW r, NEW w, NEW f, Works(r, w, f), r.phase = "SHOWDOWN",
           f # NoSeat => f \notin r.folded,
           NEW C \in SUBSET Seat, C \cap r.folded = {}
    PROVE  Rests(SettleShowdown(r, C), w)
<1> DEFINE q == SettleShowdown(r, C)
           pots == {p \in SidePots(r.players, r.mainBet, r.pot, C) : p.eligible # {}}
           payout == Payouts(r, pots)
           paid == {s \in DOMAIN payout : payout[s] # 0}
<1>1. Good(q) BY WorksIsGood, SettleShowdownGood
<1>2. DOMAIN payout \subseteq C /\ \A s \in DOMAIN payout : payout[s] \in Int
  BY WorksIsGood, PayoutsToCompetitors
<1> HIDE DEF pots
<1>3. /\ q.chips = [s \in Seat |-> IF s \in paid THEN r.chips[s] + payout[s] ELSE r.chips[s]]
      /\ q.roundBet = r.roundBet /\ q.mainBet = r.mainBet /\ q.pot = r.pot
      /\ q.piquePot = r.piquePot /\ q.maxBet = r.maxBet /\ q.yes = r.yes /\ q.no = r.no
      /\ q.pasoBy = r.pasoBy /\ q.revealTimer = r.revealTimer /\ q.forced = r.forced
      /\ q.phase = r.phase /\ q.folded = r.folded
  <2> HIDE DEF payout
  <2>1. q = PayTogether([r EXCEPT !.turnTimer = FALSE, !.autoTimer = TRUE, !.pending = TRUE],
                        payout, Ref("showdown"))
    BY DEF SettleShowdown, payout, pots
  <2> HIDE DEF q
  <2> QED BY ZenonT(60), <2>1, WorksIsGood DEF PayTogether, Fields
<1> HIDE DEF q, payout
<1>4. Counts(r) /\ \A s \in Seat : r.chips[s] + r.mainBet[s] = w[s] BY DEF Works
<1>5. ASSUME NEW s \in Seat
      PROVE  q.chips[s] \in Int /\ (s \in r.folded => q.chips[s] = r.chips[s])
  <2>1. r.chips[s] \in Int BY <1>4 DEF Counts
  <2>2. s \in paid => payout[s] \in Int /\ s \notin r.folded BY <1>2
  <2>3. q.chips[s] = IF s \in paid THEN r.chips[s] + payout[s] ELSE r.chips[s] BY <1>3
  <2> HIDE DEF paid
  <2> QED BY <2>1, <2>2, <2>3
<1>6. Counts(q)
  <2>1. q.chips \in [Seat -> Int] BY <1>3, <1>5
  <2> QED BY <1>3, <1>4, <2>1 DEF Counts
<1>7. ASSUME NEW s \in Seat, s \in q.folded PROVE ~(q.chips[s] + q.mainBet[s] > w[s])
  <2>1. q.chips[s] = r.chips[s] /\ q.mainBet[s] = r.mainBet[s] BY <1>3, <1>5, <1>7
  <2>2. r.chips[s] \in Int /\ r.mainBet[s] \in Int BY <1>4 DEF Counts
  <2> QED BY <1>4, <2>1, <2>2
<1>8. q.forced # NoSeat => q.phase \in Ends /\ q.forced \notin q.folded
  BY <1>3 DEF Works, Ends
<1> QED BY <1>1, <1>3, <1>6, <1>7, <1>8 DEF Works, Rests, q

LEMMA ShowdownRests ==
    ASSUME NEW r, NEW w, NEW f \in (Seat \ r.folded) \cup {NoSeat}, Works(r, w, f)
    PROVE  Rests(Showdown(r), w)
<1> DEFINE open == [r EXCEPT !.phase = "SHOWDOWN"]
           competitors == (r.players \cap (r.connected \cup r.allIn)) \ r.folded
           best == CHOOSE s \in competitors : TRUE
           over == PromoteWaitingPlayers([r EXCEPT !.pot = 0, !.piquePot = 0, !.phase = "LOBBY"])
           sole == [open EXCEPT !.turn = best, !.turnTimer = FALSE, !.autoTimer = TRUE]
           waits == [open EXCEPT !.phase = "SHOWDOWN_WAIT", !.turn = best,
                                 !.turnTimer = FALSE, !.autoTimer = TRUE]
           shown == [open EXCEPT !.autoTimer = TRUE]
           Shown(q) ==
             /\ \A x \in WorkFields \ {"pot", "piquePot"} : q[x] = r[x]
             /\ q.pot \in Int /\ q.piquePot \in Int
             /\ \/ q.phase = "LOBBY"
                \/ (q.phase \in Ends /\ q.folded = r.folded)
             /\ q.phase = "SHOWDOWN_WAIT" => q.turn \notin q.folded
<1>1. /\ DOMAIN r = Fields /\ Good(r) /\ r.pot \in Int /\ r.piquePot \in Int
      /\ competitors \in SUBSET Seat /\ NoSeat \notin r.folded
  BY SMTT(40), WorksIsGood DEF Good, RoomOK, Groups, Counts, Seat, NoSeat
<1>2. \/ Showdown(r) = over
      \/ competitors # {} /\ Showdown(r) \in {sole, waits, shown}
      \/ Showdown(r) = EndHandEarlyAfterFoldOut(open)
      \/ Showdown(r) = SettleShowdown(open, competitors)
  <2>1. Showdown(r) =
          IF competitors = {} THEN over
          ELSE IF Cardinality(competitors) > 1 THEN SettleShowdown(open, competitors)
          ELSE IF r.forced = best THEN sole
          ELSE IF r.pot > 0 THEN waits
          ELSE IF r.cards[best] # 0 THEN shown
          ELSE EndHandEarlyAfterFoldOut(open)
    BY Zenon DEF Showdown, open, competitors, best, over, sole, waits, shown
  <2> HIDE DEF open, competitors, best, over, sole, waits, shown
  <2> QED BY <2>1
<1>3. Good(Showdown(r)) BY <1>1, ShowdownGood
<1>4. competitors # {} => best \in Seat /\ best \notin r.folded BY <1>1
<1>5. /\ Shown(over)
      /\ competitors # {} => Shown(sole) /\ Shown(waits) /\ Shown(shown)
  <2> HIDE DEF best
  <2>1. Shown(over)
    <3> DEFINE closed == [r EXCEPT !.pot = 0, !.piquePot = 0, !.phase = "LOBBY"]
    <3>1. /\ DOMAIN closed = Fields /\ closed.phase = "LOBBY"
          /\ closed.pot = 0 /\ closed.piquePot = 0
          /\ \A x \in WorkFields \ {"pot", "piquePot"} : closed[x] = r[x]
      BY <1>1 DEF WorkFields, Fields
    <3> HIDE DEF closed
    <3>2. /\ \A x \in Fields \ {"waiting"} : over[x] = closed[x]
      BY <3>1 DEF PromoteWaitingPlayers, Fields, closed
    <3> HIDE DEF over
    <3>3. /\ over.phase = "LOBBY" /\ over.pot = 0 /\ over.piquePot = 0
          /\ \A x \in WorkFields \ {"pot", "piquePot"} : over[x] = r[x]
      BY <3>1, <3>2 DEF WorkFields, Fields
    <3> QED BY <3>3
  <2>2. Shown(sole) BY ZenonT(60), <1>1 DEF WorkFields, Fields, Ends
  <2>3. competitors # {} => Shown(waits) BY ZenonT(60), <1>1, <1>4 DEF WorkFields, Fields, Ends
  <2>4. Shown(shown) BY <1>1 DEF WorkFields, Fields, Ends
  <2> QED BY <2>1, <2>2, <2>3, <2>4
<1>6. ASSUME NEW q, Shown(q), Good(q) PROVE Rests(q, w)
  <2>1. /\ q.chips = r.chips /\ q.roundBet = r.roundBet /\ q.mainBet = r.mainBet
        /\ q.maxBet = r.maxBet /\ q.yes = r.yes /\ q.no = r.no /\ q.pasoBy = r.pasoBy
        /\ q.revealTimer = r.revealTimer /\ q.forced = r.forced
    BY <1>6 DEF WorkFields
  <2>2. Counts(q) BY <1>6, <2>1 DEF Works, Counts
  <2>3. \A s \in Seat : ~(q.chips[s] + q.mainBet[s] > w[s]) BY <2>1 DEF Works, Counts
  <2>4. q.forced # NoSeat => q.phase \in Ends /\ (q.phase # "LOBBY" => q.forced \notin q.folded)
    BY <1>6, <2>1 DEF Works, Ends
  <2>5. q.yes \cap q.no = {} /\ q.pasoBy = NoSeat /\ ~q.revealTimer BY <2>1 DEF Works
  <2> QED BY <1>6, <2>2, <2>3, <2>4, <2>5 DEF Rests
<1>7. /\ Works(open, w, f) /\ open.phase = "SHOWDOWN" /\ open.folded = r.folded
      /\ f # NoSeat => f \notin open.folded
  <2>1. /\ open.phase = "SHOWDOWN" /\ open.folded = r.folded
        /\ \A x \in WorkFields : open[x] = r[x]
    BY <1>1 DEF WorkFields, Fields
  <2>2. Good(open)
    BY <1>1 DEF Good, RoomOK, Match, Owned, Fields, Groups, Maps, Flags, IsSeatMap, Phases
  <2> HIDE DEF open
  <2> QED BY <2>1, <2>2, SameWorks
<1>8. competitors \cap open.folded = {} BY <1>7
<1> HIDE DEF open, competitors, best, over, sole, waits, shown, Shown
<1>9. Rests(EndHandEarlyAfterFoldOut(open), w)
  <2>1. Fades(open, EndHandEarlyAfterFoldOut(open)) BY <1>7, WorksIsGood, EndHandEarlyFades
  <2>2. open.phase \in Ends BY <1>7 DEF Ends
  <2> QED BY <1>7, <2>1, <2>2, FadedRests
<1>10. Rests(SettleShowdown(open, competitors), w) BY <1>1, <1>7, <1>8, SettleRests
<1>11. competitors # {} /\ Showdown(r) \in {sole, waits, shown} => Shown(Showdown(r)) BY <1>5
<1> QED BY <1>2, <1>3, <1>5, <1>6, <1>9, <1>10, <1>11

(* However many phases a handler runs through, the room rests at the end.  *)
Hands(step, phases) ==
    \/ step.due = "nothing"
    \/ step.due = "enter" /\ step.phase \in phases

Hops(step) ==
    \/ step.due = "advance" /\ step.phase \in BettingPhases
    \/ Hands(step, {"CANTICOS", "DECLARAR_JUEGO", "GUERRA_JUEGO", "SHOWDOWN"})

LEMMA LeadsHand == ASSUME NEW step, NEW phases, Leads(step, phases) PROVE Hands(step, phases)
BY DEF Leads, Hands

LEMMA FinishRests ==
    ASSUME NEW step, NEW w, Runs(step, w), Hops(step) PROVE Rests(Finish(step), w)
<1> DEFINE acted == AfterAction(step)
           guerra == AfterGuerra(acted)
           canticos == AfterCanticos(guerra)
           declared == AfterDeclarar(canticos)
<1>1. \A st, phase : Runs(st, w) /\ IsDue(st, phase) /\ phase # "SHOWDOWN" =>
        Works(st.room, w, NoSeat) /\ Good(st.room)
  BY DEF Runs, IsDue, Works
<1>2. /\ Runs(acted, w)
      /\ Hands(acted, {"CANTICOS", "DECLARAR_JUEGO", "GUERRA_JUEGO", "SHOWDOWN"})
  <2>1. CASE step.due = "advance" /\ step.phase \in BettingPhases
    <3>1. Works(step.room, w, NoSeat) /\ Good(step.room) BY <2>1 DEF Runs, IsDue, Works
    <3>2. acted = AdvanceTurnBetting(step.room, NoSeat, step.phase) BY <2>1 DEF AfterAction
    <3> HIDE DEF acted
    <3>3. Runs(acted, w) BY <2>1, <3>1, <3>2, AdvanceTurnBettingRuns
    <3>4. NextPhase[step.phase] \in {"CANTICOS", "DECLARAR_JUEGO", "GUERRA_JUEGO", "SHOWDOWN"}
      BY <2>1 DEF NextPhase, BettingPhases
    <3>5. Leads(acted, {NextPhase[step.phase]}) BY <2>1, <3>1, <3>2, AdvanceLeads
    <3> QED BY <3>3, <3>4, <3>5 DEF Leads, Hands
  <2>2. CASE Hands(step, {"CANTICOS", "DECLARAR_JUEGO", "GUERRA_JUEGO", "SHOWDOWN"})
    <3>1. acted = step BY <2>2 DEF AfterAction, Hands
    <3> HIDE DEF acted
    <3> QED BY <2>2, <3>1
  <2> QED BY <2>1, <2>2 DEF Hops
<1> HIDE DEF acted
<1>3. Runs(guerra, w) /\ Hands(guerra, {"DECLARAR_JUEGO", "GUERRA_JUEGO", "SHOWDOWN"})
  <2>1. CASE IsDue(acted, "CANTICOS")
    <3>1. guerra = EnterCanticos(acted.room) BY <2>1 DEF AfterGuerra
    <3>2. Works(acted.room, w, NoSeat) /\ Good(acted.room) BY <1>1, <1>2, <2>1
    <3> HIDE DEF guerra
    <3>3. Hands(guerra, {"DECLARAR_JUEGO"}) BY <3>1, <3>2, EntriesLead, LeadsHand
    <3> QED BY <3>1, <3>2, <3>3, EntriesRun DEF Hands
  <2>2. CASE ~IsDue(acted, "CANTICOS")
    <3>1. guerra = acted BY <2>2 DEF AfterGuerra
    <3> HIDE DEF guerra
    <3> QED BY <1>2, <2>2, <3>1 DEF Hands, IsDue
  <2> QED BY <2>1, <2>2
<1> HIDE DEF guerra
<1>4. Runs(canticos, w) /\ Hands(canticos, {"GUERRA_JUEGO", "SHOWDOWN"})
  <2>1. CASE IsDue(guerra, "DECLARAR_JUEGO")
    <3>1. canticos = EnterDeclararJuego(guerra.room) BY <2>1 DEF AfterCanticos
    <3>2. Works(guerra.room, w, NoSeat) /\ Good(guerra.room) BY <1>1, <1>3, <2>1
    <3> HIDE DEF canticos
    <3> QED BY <3>1, <3>2, EnterDeclararLeads, LeadsHand, EnterDeclararJuegoRuns
  <2>2. CASE ~IsDue(guerra, "DECLARAR_JUEGO")
    <3>1. canticos = guerra BY <2>2 DEF AfterCanticos
    <3> HIDE DEF canticos
    <3> QED BY <1>3, <2>2, <3>1 DEF Hands, IsDue
  <2> QED BY <2>1, <2>2
<1> HIDE DEF canticos
<1>5. Runs(declared, w) /\ Hands(declared, {"SHOWDOWN"})
  <2>1. CASE IsDue(canticos, "GUERRA_JUEGO")
    <3>1. declared = EnterGuerraJuego(canticos.room) BY <2>1 DEF AfterDeclarar
    <3>2. Works(canticos.room, w, NoSeat) /\ Good(canticos.room) BY <1>1, <1>4, <2>1
    <3> HIDE DEF declared
    <3> QED BY <3>1, <3>2, EntriesLead, LeadsHand, EntriesRun
  <2>2. CASE ~IsDue(canticos, "GUERRA_JUEGO")
    <3>1. declared = canticos BY <2>2 DEF AfterDeclarar
    <3> HIDE DEF declared
    <3> QED BY <1>4, <2>2, <3>1 DEF Hands, IsDue
  <2> QED BY <2>1, <2>2
<1> HIDE DEF declared
<1>6. CASE IsDue(declared, "SHOWDOWN")
  <2>1. declared.due # "nothing" BY <1>6 DEF IsDue
  <2>2. \E f \in (Seat \ declared.room.folded) \cup {NoSeat} : Works(declared.room, w, f)
    BY <1>5, <2>1 DEF Runs
  <2>3. Rests(Showdown(declared.room), w) BY <2>2, ShowdownRests
  <2> QED BY <1>6, <2>3 DEF AfterBetting, Finish, declared, canticos, guerra, acted
<1>7. CASE ~IsDue(declared, "SHOWDOWN")
  <2>1. Finish(step) = declared.room
    BY <1>7 DEF AfterBetting, Finish, declared, canticos, guerra, acted
  <2>2. declared.due = "nothing" BY <1>5, <1>7 DEF Hands, IsDue
  <2> QED BY <1>5, <2>1, <2>2 DEF Runs
<1> QED BY <1>6, <1>7

(* The handlers.                                                           *)

LEMMA PassRuns ==
    ASSUME NEW r, NEW w, Works(r, w, NoSeat), NEW s \in Seat
    PROVE  \/ Runs(Pass(r, s), w)
           \/ Pass(r, s) = Still([ClearTurnTimer(r) EXCEPT !.pasoBy = s, !.pasoPhase = r.phase])
<1> DEFINE quiet == ClearTurnTimer(r)
           acted == [quiet EXCEPT !.acted = @ \cup {s}]
           declined == [acted EXCEPT !.declined = @ \cup {s}]
           asked == [quiet EXCEPT !.pasoBy = s, !.pasoPhase = r.phase]
           out == FoldAndPassMano(CollectPlayerCards(quiet, s), s)
<1>1. Works(quiet, w, NoSeat) BY QuietWorks
<1>2. \/ Pass(r, s) = Still(asked)
      \/ \E q \in {acted, declined, out} : Pass(r, s) = Advance(q, r.phase)
  <2>1. Pass(r, s) =
          IF r.maxBet = 0 \/ r.roundBet[s] >= r.maxBet THEN Advance(acted, r.phase)
          ELSE IF r.phase = "GUERRA_JUEGO" THEN Advance(declined, r.phase)
          ELSE IF TieneJuego(Hand(r, s)) THEN Still(asked) ELSE Advance(out, r.phase)
    BY Zenon DEF Pass, quiet, acted, declined, asked, out
  <2> HIDE DEF quiet, acted, declined, asked, out
  <2> QED BY <2>1
<1> HIDE DEF quiet
<1>3. Works(acted, w, NoSeat)
  <2>1. \A x \in WorkFields : acted[x] = quiet[x] BY <1>1, WorksIsGood DEF WorkFields, Fields
  <2>2. Good(acted)
    BY <1>1, WorksIsGood DEF Good, RoomOK, Match, Owned, Fields, Groups, Maps, Flags, IsSeatMap
  <2> HIDE DEF acted
  <2> QED BY <1>1, <2>1, <2>2, SameWorks
<1> HIDE DEF acted
<1>4. Works(declined, w, NoSeat)
  <2>1. \A x \in WorkFields : declined[x] = acted[x] BY <1>3, WorksIsGood DEF WorkFields, Fields
  <2>2. Good(declined)
    BY <1>3, WorksIsGood DEF Good, RoomOK, Match, Owned, Fields, Groups, Maps, Flags, IsSeatMap
  <2> HIDE DEF declined
  <2> QED BY <1>3, <2>1, <2>2, SameWorks
<1>5. Works(out, w, NoSeat) BY <1>1, CollectPlayerCardsWorks, FoldAndPassManoWorks
<1> HIDE DEF declined, asked, out
<1>6. \A q \in {acted, declined, out} : Runs(Advance(q, r.phase), w)
  BY <1>3, <1>4, <1>5, WorksRuns
<1> QED BY <1>2, <1>6 DEF asked, quiet

LEMMA PassHops ==
    ASSUME NEW r, NEW s, r.phase \in BettingPhases PROVE Hops(Pass(r, s))
<1>1. \A q : Hops(Advance(q, r.phase)) /\ Hops(Still(q)) BY DEF Hops, Hands, Advance, Still
<1>2. \E q : Pass(r, s) = Still(q) \/ Pass(r, s) = Advance(q, r.phase) BY DEF Pass
<1> QED BY <1>1, <1>2

(* The player who shows his juego is paid the pique as he leaves the hand: *)
(* only he is worth more afterwards.                                       *)
LEMMA CloseRevealRuns ==
    ASSUME NEW r, NEW w, Works(r, w, NoSeat), r.llevoBy # NoSeat
    PROVE  \E v : /\ Runs(CloseReveal(r), v)
                  /\ \A t \in Seat \ {r.llevoBy} : v[t] = w[t]
<1> DEFINE s == r.llevoBy
           amount == r.piquePot - RakeOf(r.piquePot)
           quiet == ClearTurnTimer(r)
           closed == [quiet EXCEPT !.llevoBy = NoSeat, !.returnTo = "LOBBY", !.phase = r.returnTo]
           collected == CollectPlayerCards(closed, s)
           paid == PayPlayer(collected, s, amount, PotRef(r.piquePot))
           out == [paid EXCEPT !.piquePot = 0, !.folded = @ \cup {s}]
           v == [t \in Seat |-> paid.chips[t] + paid.mainBet[t]]
<1>1. s \in Seat /\ r.returnTo \in BettingPhases /\ amount \in Int
  BY WorksIsGood, RakeIsInt DEF Good, RoomOK, Counts
<1>2. Works(quiet, w, NoSeat) BY QuietWorks
<1>3. CloseReveal(r) = Advance(IF s \notin r.players THEN closed
                               ELSE IF s = r.mano THEN TransferMano(out) ELSE out, r.returnTo)
  BY Zenon DEF CloseReveal, s, amount, quiet, closed, collected, paid, out
<1> HIDE DEF quiet, s, amount
<1>4. Works(closed, w, NoSeat)
  <2>1. \A x \in WorkFields : closed[x] = quiet[x]
    BY ZenonT(60), <1>2, WorksIsGood DEF WorkFields, Fields
  <2>2. Good(closed)
    BY <1>1, <1>2, WorksIsGood
       DEF Good, RoomOK, Match, Owned, Fields, Groups, Maps, Flags, IsSeatMap, Phases
  <2> HIDE DEF closed
  <2> QED BY <1>2, <2>1, <2>2, SameWorks
<1> HIDE DEF closed
<1>5. Works(collected, w, NoSeat) /\ Good(collected) /\ Counts(collected) /\ DOMAIN collected = Fields
  BY <1>1, <1>4, CollectPlayerCardsWorks, WorksIsGood
<1> HIDE DEF collected
<1>6. /\ Good(paid) /\ DOMAIN paid = Fields
      /\ paid.chips = collected.chips \/ paid.chips = [collected.chips EXCEPT ![s] = @ + amount]
      /\ \A x \in Fields \ {"chips", "balance", "refs", "skewed"} : paid[x] = collected[x]
  <2>1. Good(paid) BY <1>1, <1>5, PayPlayerGood
  <2> QED BY <1>5, <2>1 DEF PayPlayer, LedgerCredit, Fields
<1> HIDE DEF paid
<1>7. /\ paid.roundBet = collected.roundBet /\ paid.mainBet = collected.mainBet
      /\ paid.pot = collected.pot /\ paid.maxBet = collected.maxBet
      /\ paid.piquePot = collected.piquePot /\ paid.yes = collected.yes /\ paid.no = collected.no
      /\ paid.pasoBy = collected.pasoBy /\ paid.revealTimer = collected.revealTimer
      /\ paid.forced = collected.forced
  BY <1>6 DEF Fields
<1>8. /\ collected.chips \in [Seat -> Int] /\ collected.roundBet \in [Seat -> Int]
      /\ collected.mainBet \in [Seat -> Int] /\ collected.pot \in Int
      /\ collected.piquePot \in Int /\ collected.maxBet \in Int
      /\ \A t \in Seat : collected.chips[t] + collected.mainBet[t] = w[t]
      /\ collected.yes \cap collected.no = {} /\ collected.pasoBy = NoSeat
      /\ ~collected.revealTimer /\ collected.forced = NoSeat
  BY <1>5 DEF Works, Counts
<1>9. paid.chips \in [Seat -> Int] /\ \A t \in Seat \ {s} : paid.chips[t] = collected.chips[t]
  <2>1. collected.chips[s] + amount \in Int BY <1>1, <1>8
  <2> QED BY <1>6, <1>8, <2>1
<1>10. Works(out, v, NoSeat)
  <2>1. /\ out.chips = paid.chips /\ out.roundBet = paid.roundBet /\ out.mainBet = paid.mainBet
        /\ out.pot = paid.pot /\ out.piquePot = 0 /\ out.maxBet = paid.maxBet
        /\ out.yes = paid.yes /\ out.no = paid.no /\ out.pasoBy = paid.pasoBy
        /\ out.revealTimer = paid.revealTimer /\ out.forced = paid.forced
    BY <1>6 DEF Fields
  <2>2. Good(out)
    BY <1>1, <1>6 DEF Good, RoomOK, Match, Owned, Fields, Groups, Maps, Flags, IsSeatMap
  <2> HIDE DEF out
  <2>3. Counts(out) BY <1>7, <1>8, <1>9, <2>1 DEF Counts
  <2> QED BY <1>7, <1>8, <2>1, <2>2, <2>3 DEF Works
<1>11. \A t \in Seat \ {s} : v[t] = w[t] BY <1>7, <1>8, <1>9
<1> HIDE DEF out, v
<1>12. Runs(Advance(out, r.returnTo), v) /\ Runs(Advance(TransferMano(out), r.returnTo), v)
  BY <1>10, QuietWorks, WorksRuns
<1>13. Runs(Advance(closed, r.returnTo), w) BY <1>4, WorksRuns
<1> QED BY <1>3, <1>11, <1>12, <1>13 DEF s

LEMMA CloseRevealHops ==
    ASSUME NEW r, Good(r), r.llevoBy # NoSeat PROVE Hops(CloseReveal(r))
BY CloseRevealContinues DEF Continues, Hops, Hands, Leads

LEMMA DeclareRuns ==
    ASSUME NEW r, NEW w, Works(r, w, NoSeat), NEW s \in Seat
    PROVE  Runs(Declare(r, s), w)
<1> DEFINE quiet == ClearTurnTimer(r)
           yes == IF TieneJuego(Hand(r, s)) THEN quiet.yes \cup {s} ELSE quiet.yes \ {s}
           no == IF TieneJuego(Hand(r, s)) THEN quiet.no \ {s} ELSE quiet.no \cup {s}
           said == [quiet EXCEPT !.acted = @ \cup {s}, !.yes = yes, !.no = no]
<1>1. Works(quiet, w, NoSeat) BY QuietWorks
<1>2. Declare(r, s) = AdvanceTurnDeclarar(said, NoSeat) BY DEF Declare
<1> HIDE DEF quiet
<1>3. yes \subseteq Seat /\ no \subseteq Seat /\ yes \cap no = {}
  <2>1. quiet.yes \subseteq Seat /\ quiet.no \subseteq Seat /\ quiet.yes \cap quiet.no = {}
    BY <1>1 DEF Works, Good, RoomOK, Groups
  <2> QED BY <2>1
<1> HIDE DEF yes, no
<1>4. Works(said, w, NoSeat)
  <2>1. Good(said)
    BY <1>1, <1>3, WorksIsGood DEF Good, RoomOK, Match, Owned, Fields, Groups, Maps, Flags, IsSeatMap
  <2>2. /\ said.chips = quiet.chips /\ said.roundBet = quiet.roundBet
        /\ said.mainBet = quiet.mainBet /\ said.pot = quiet.pot
        /\ said.piquePot = quiet.piquePot /\ said.maxBet = quiet.maxBet
        /\ said.yes = yes /\ said.no = no /\ said.pasoBy = quiet.pasoBy
        /\ said.revealTimer = quiet.revealTimer /\ said.forced = quiet.forced
    BY <1>1, WorksIsGood DEF Fields
  <2> HIDE DEF said
  <2> QED BY <1>1, <1>3, <2>1, <2>2 DEF Works, Counts
<1> HIDE DEF said
<1>5. NoSeat \in Seat \cup {NoSeat} OBVIOUS
<1> QED BY <1>2, <1>4, <1>5, AdvanceTurnDeclararRuns

LEMMA DeclareHops ==
    ASSUME NEW r, Good(r), r.phase = "DECLARAR_JUEGO", NEW s \in Seat PROVE Hops(Declare(r, s))
BY DeclareContinues DEF Continues, Hops, Hands, Leads

-----------------------------------------------------------------------------
(* What the hand leaves open between two steps: GUERRA waits for its timer *)
(* with nothing else open; nobody has declared both juego and no juego;    *)
(* the last competitor of a showdown is in the hand; a question about      *)
(* juego holds up its player; a bet the ledger has not answered and a      *)
(* juego that must be shown are alone.                                     *)
Orderly ==
    /\ room.revealTimer => room.phase \in {"REVELAR_CARTA", "LOBBY"}
    /\ room.yes \cap room.no = {}
    /\ room.phase = "SHOWDOWN_WAIT" => room.turn \notin room.folded
    /\ room.pasoBy # NoSeat =>
         /\ bet = NoBet /\ ~room.revealTimer
         /\ room.phase # "LOBBY" =>
              /\ room.phase = room.pasoPhase
              /\ room.turn \in {room.pasoBy, NoSeat} /\ ~room.turnTimer
    /\ bet # NoBet => room.phase \in {bet.phase, "LOBBY"} /\ ~room.revealTimer
    /\ room.forced # NoSeat =>
         /\ bet = NoBet /\ ~room.revealTimer /\ room.pasoBy = NoSeat /\ room.phase \in Ends
         /\ room.phase # "LOBBY" => room.forced \notin room.folded

WinInv == Inv /\ Counts(room) /\ bet.amount \in Int /\ Orderly

NobodyElseWins == \A s \in Seat : Won(s) > 0 => s \notin room'.folded \/ s = room.llevoBy

WinStep == WinInv' /\ NobodyElseWins

LEMMA WinInvIsGood == ASSUME WinInv PROVE Good(room) /\ Counts(room) /\ DOMAIN room = Fields
BY InvIsGood DEF WinInv, Good, RoomOK

LEMMA PhasesApart ==
    /\ BettingPhases \cap Ends = {} /\ "REVELAR_CARTA" \notin BettingPhases \cup Ends
    /\ "LOBBY" \in Ends /\ "SHOWDOWN" \in Ends /\ "SHOWDOWN_WAIT" \in Ends
    /\ "DECLARAR_JUEGO" \notin BettingPhases \cup Ends
    /\ "PIQUE_REVEAL" \notin BettingPhases \cup Ends
BY DEF BettingPhases, Ends

(* A handler of the hand that leaves the room at rest.                     *)
LEMMA RestedStep ==
    ASSUME WinInv, Inv', bet' = NoBet, NEW w, Rests(room', w),
           \A s \in Seat : s # room.llevoBy => w[s] = room.chips[s] + room.mainBet[s]
    PROVE  WinStep
<1>1. Counts(room)' BY DEF Rests
<1>2. bet'.amount \in Int BY DEF NoBet
<1>3. Orderly' BY DEF Orderly, Rests
<1>4. NobodyElseWins
  <2> SUFFICES ASSUME NEW s \in Seat, Won(s) > 0, s # room.llevoBy PROVE s \notin room'.folded
    BY DEF NobodyElseWins
  <2>1. /\ room'.chips[s] \in Int /\ room'.mainBet[s] \in Int
        /\ room.chips[s] \in Int /\ room.mainBet[s] \in Int
    BY <1>1 DEF WinInv, Counts
  <2>2. room'.chips[s] + room'.mainBet[s] > w[s] BY <2>1 DEF Won
  <2> QED BY <2>2 DEF Rests
<1> QED BY <1>1, <1>2, <1>3, <1>4 DEF WinStep, WinInv

(* A handler that lets something go, or pays somebody in the hand.         *)
LEMMA FadedStep ==
    ASSUME WinInv, Inv', bet' = bet, Fades(room, room') PROVE WinStep
<1>1. Counts(room)' BY DEF Fades
<1>2. bet'.amount \in Int BY DEF WinInv
<1>3. NoSeat \notin room'.folded /\ NoSeat \notin room.folded
  <2>1. Good(room) /\ Good(room') BY WinInvIsGood DEF Fades
  <2>2. "folded" \in Groups BY DEF Groups
  <2>3. room.folded \subseteq Seat /\ room'.folded \subseteq Seat
    BY <2>1, <2>2 DEF Good, RoomOK
  <2> QED BY <2>3 DEF Seat, NoSeat
<1>4. bet # NoBet => bet.phase \in BettingPhases BY DEF WinInv, Inv, TypeOK
<1>5. room.pasoBy # NoSeat => room.pasoPhase \in BettingPhases BY WinInvIsGood DEF Good, RoomOK
<1>6. Orderly'
  <2>1. room'.revealTimer => room'.phase \in {"REVELAR_CARTA", "LOBBY"}
    BY DEF Fades, WinInv, Orderly
  <2>2. room'.yes \cap room'.no = {} BY DEF Fades, WinInv, Orderly
  <2>3. room'.phase = "SHOWDOWN_WAIT" => room'.turn \notin room'.folded
    BY <1>3 DEF Fades, WinInv, Orderly
  <2>4. room'.pasoBy # NoSeat =>
          /\ bet' = NoBet /\ ~room'.revealTimer
          /\ room'.phase # "LOBBY" =>
               /\ room'.phase = room'.pasoPhase
               /\ room'.turn \in {room'.pasoBy, NoSeat} /\ ~room'.turnTimer
    BY <1>5, PhasesApart DEF Fades, WinInv, Orderly
  <2>5. bet' # NoBet => room'.phase \in {bet'.phase, "LOBBY"} /\ ~room'.revealTimer
    BY <1>4, PhasesApart DEF Fades, WinInv, Orderly
  <2>6. room'.forced # NoSeat =>
          /\ bet' = NoBet /\ ~room'.revealTimer /\ room'.pasoBy = NoSeat /\ room'.phase \in Ends
          /\ room'.phase # "LOBBY" => room'.forced \notin room'.folded
    BY PhasesApart DEF Fades, WinInv, Orderly
  <2> QED BY <2>1, <2>2, <2>3, <2>4, <2>5, <2>6 DEF Orderly
<1>7. NobodyElseWins
  <2> SUFFICES ASSUME NEW s \in Seat, Won(s) > 0 PROVE s \notin room'.folded
    BY DEF NobodyElseWins
  <2>1. /\ room'.chips[s] \in Int /\ room'.mainBet[s] \in Int
        /\ room.chips[s] \in Int /\ room.mainBet[s] \in Int
    BY <1>1 DEF WinInv, Counts
  <2>2. room'.chips[s] + room'.mainBet[s] > room.chips[s] + room.mainBet[s] BY <2>1 DEF Won
  <2> QED BY <2>2 DEF Fades
<1> QED BY <1>1, <1>2, <1>6, <1>7 DEF WinStep, WinInv

(* Lost connections.                                                       *)
LEMMA ConnectionWin ==
    ASSUME WinInv, Inv', NEW s \in Seat, Connection(s) PROVE WinStep
<1>1. Good(room) /\ Counts(room) /\ DOMAIN room = Fields BY WinInvIsGood
<1>2. bet' = bet
  BY DEF Connection, Disconnect, Reconnect, GraceExpires, Leave, LeaveDone, Abandon
<1>3. Fades(room, TransferMano(room)) BY <1>1, QuietFades
<1>4. Fades(room, Offline(room, s)) BY <1>1, OfflineFades
<1>5. Fades(room, RemovePlayer(room, s)) BY <1>1, RemovePlayerFades
<1>6. Fades(room, room')
  <2>1. CASE Disconnect(s) BY <1>4, <2>1 DEF Disconnect
  <2>2. CASE Reconnect(s)
    <3>1. room' = [room EXCEPT !.connected = @ \cup {s}] BY <2>2 DEF Reconnect
    <3>2. Good([room EXCEPT !.connected = @ \cup {s}])
      BY <1>1 DEF Good, RoomOK, Match, Owned, Fields, Groups, Maps, Flags, IsSeatMap
    <3>3. /\ room'.turnTimer = room.turnTimer
          /\ \A f \in Fading \cup Unfolded : room'[f] = room[f]
      BY <1>1, <3>1 DEF Fading, Unfolded, Fields
    <3> QED BY <1>1, <3>1, <3>2, <3>3, FadesSame
  <2>3. CASE GraceExpires(s)
    <3>1. room' \in {RemovePlayer(TransferMano(room), s), RemovePlayer(room, s)}
      BY <2>3 DEF GraceExpires
    <3>2. Fades(room, RemovePlayer(TransferMano(room), s))
      BY <1>1, <1>3, FadesFields, RemovePlayerFades, FadesTwice
    <3> QED BY <1>5, <3>1, <3>2
  <2>4. CASE Leave(s)
    <3> DEFINE off == Offline(room, s)
               led == TransferMano(off)
    <3>1. room' \in {HandOverDeal(off, s), HandOverDeal(led, s)} BY <2>4 DEF Leave
    <3> HIDE DEF off
    <3>2. Fades(room, off) BY <1>4 DEF off
    <3>3. Fades(room, led) BY <1>1, <3>2, FadesFields, QuietFades, FadesTwice
    <3> HIDE DEF led
    <3>4. Fades(room, HandOverDeal(off, s)) BY <1>1, <3>2, FadesFields, HandOverDealFades, FadesTwice
    <3>5. Fades(room, HandOverDeal(led, s)) BY <1>1, <3>3, FadesFields, HandOverDealFades, FadesTwice
    <3> QED BY <3>1, <3>4, <3>5
  <2>5. CASE LeaveDone(s) BY <1>5, <2>5 DEF LeaveDone
  <2>6. CASE Abandon(s) BY <1>5, <2>6 DEF Abandon
  <2> QED BY <2>1, <2>2, <2>3, <2>4, <2>5, <2>6 DEF Connection
<1> QED BY <1>2, <1>6, FadedStep

(* The end of the hand.                                                    *)

LEMMA QuietRoomFades ==
    ASSUME NEW r, Good(r), Counts(r)
    PROVE  Fades(r, ClearAutoTimer(ClearTurnTimer(r)))
BY QuietFades, FadesFields, FadesTwice

(* A room that is closed after its pots were paid, or is closed once more. *)
LEMMA FlagFades ==
    ASSUME NEW r, Good(r), Counts(r)
    PROVE  /\ Fades(r, [r EXCEPT !.pending = FALSE])
           /\ Fades(r, [r EXCEPT !.forced = NoSeat])
           /\ r.cleanups > 0 => Fades(r, [r EXCEPT !.cleanups = @ - 1])
           /\ r.phase = "SHOWDOWN_WAIT" => Fades(r, [r EXCEPT !.phase = "SHOWDOWN"])
<1>1. DOMAIN r = Fields BY DEF Good, RoomOK
<1>2. Fades(r, [r EXCEPT !.pending = FALSE])
  <2> DEFINE q == [r EXCEPT !.pending = FALSE]
  <2>1. Good(q) BY DEF Good, RoomOK, Match, Owned, Fields, Groups, Maps, Flags, IsSeatMap
  <2>2. q.turnTimer = r.turnTimer /\ \A f \in Fading \cup Unfolded : q[f] = r[f]
    BY <1>1 DEF Fading, Unfolded, Fields
  <2> HIDE DEF q
  <2>3. Fades(r, q) BY <2>1, <2>2, FadesSame
  <2> QED BY <2>3 DEF q
<1>3. Fades(r, [r EXCEPT !.forced = NoSeat])
  <2> DEFINE q == [r EXCEPT !.forced = NoSeat]
  <2>1. Good(q) BY DEF Good, RoomOK, Match, Owned, Fields, Groups, Maps, Flags, IsSeatMap
  <2>2. q.forced = NoSeat /\ \A f \in Fields \ {"forced"} : q[f] = r[f] BY <1>1 DEF Fields
  <2> HIDE DEF q
  <2>3. /\ q.chips = r.chips /\ q.roundBet = r.roundBet /\ q.mainBet = r.mainBet
        /\ q.pot = r.pot /\ q.piquePot = r.piquePot /\ q.maxBet = r.maxBet
        /\ q.yes = r.yes /\ q.no = r.no /\ q.folded = r.folded
        /\ q.pasoBy = r.pasoBy /\ q.pasoPhase = r.pasoPhase /\ q.revealTimer = r.revealTimer
        /\ q.phase = r.phase /\ q.turn = r.turn /\ q.turnTimer = r.turnTimer
    BY <2>2 DEF Fields
  <2>4. \A s \in Seat : r.chips[s] \in Int /\ r.mainBet[s] \in Int BY DEF Counts
  <2>5. Fades(r, q) BY <2>1, <2>2, <2>3, <2>4 DEF Fades, Counts
  <2> QED BY <2>5 DEF q
<1>4. ASSUME r.cleanups > 0 PROVE Fades(r, [r EXCEPT !.cleanups = @ - 1])
  <2> DEFINE q == [r EXCEPT !.cleanups = @ - 1]
  <2>1. Good(q) BY <1>4 DEF Good, RoomOK, Match, Owned, Fields, Groups, Maps, Flags, IsSeatMap
  <2>2. q.turnTimer = r.turnTimer /\ \A f \in Fading \cup Unfolded : q[f] = r[f]
    BY <1>1 DEF Fading, Unfolded, Fields
  <2> HIDE DEF q
  <2>3. Fades(r, q) BY <2>1, <2>2, FadesSame
  <2> QED BY <2>3 DEF q
<1>5. ASSUME r.phase = "SHOWDOWN_WAIT" PROVE Fades(r, [r EXCEPT !.phase = "SHOWDOWN"])
  <2> DEFINE q == [r EXCEPT !.phase = "SHOWDOWN"]
  <2>1. Good(q) BY DEF Good, RoomOK, Match, Owned, Fields, Groups, Maps, Flags, IsSeatMap, Phases
  <2>2. q.phase = "SHOWDOWN" /\ \A f \in Fields \ {"phase"} : q[f] = r[f] BY <1>1 DEF Fields
  <2> HIDE DEF q
  <2>3. /\ q.chips = r.chips /\ q.roundBet = r.roundBet /\ q.mainBet = r.mainBet
        /\ q.pot = r.pot /\ q.piquePot = r.piquePot /\ q.maxBet = r.maxBet
        /\ q.yes = r.yes /\ q.no = r.no /\ q.folded = r.folded /\ q.forced = r.forced
        /\ q.pasoBy = r.pasoBy /\ q.pasoPhase = r.pasoPhase /\ q.revealTimer = r.revealTimer
        /\ q.turn = r.turn /\ q.turnTimer = r.turnTimer
    BY <2>2 DEF Fields
  <2>4. \A s \in Seat : r.chips[s] \in Int /\ r.mainBet[s] \in Int BY DEF Counts
  <2>5. Fades(r, q) BY <1>5, <2>1, <2>2, <2>3, <2>4 DEF Fades, Counts
  <2> QED BY <2>5 DEF q
<1> QED BY <1>2, <1>3, <1>4, <1>5

LEMMA ShowMuckWin ==
    ASSUME WinInv, Inv', NEW s \in Seat, NEW show \in BOOLEAN, ShowMuck(s, show) PROVE WinStep
<1> DEFINE quiet == ClearAutoTimer(ClearTurnTimer(room))
           opened == [quiet EXCEPT !.phase = "SHOWDOWN"]
<1>1. Good(room) /\ Counts(room) /\ DOMAIN room = Fields /\ room.phase = "SHOWDOWN_WAIT"
  BY WinInvIsGood DEF ShowMuck, MayShow
<1>2. /\ room' \in {quiet, opened} \/ (s = room.turn /\ room' = AwardPot(quiet, s))
      /\ bet' = bet
  BY DEF ShowMuck
<1>3. room.turn \notin room.folded BY <1>1 DEF WinInv, Orderly
<1>4. Fades(room, quiet) /\ quiet.phase = "SHOWDOWN_WAIT" /\ quiet.folded = room.folded
  BY <1>1, QuietRoomFades DEF ClearAutoTimer, ClearTurnTimer, Fields
<1> HIDE DEF quiet
<1>5. Good(quiet) /\ Counts(quiet) BY <1>4, FadesFields
<1>6. Fades(room, opened) BY <1>1, <1>4, <1>5, FlagFades, FadesTwice
<1> HIDE DEF opened
<1>7. s = room.turn => Fades(room, AwardPot(quiet, s))
  BY <1>1, <1>3, <1>4, <1>5, AwardPotFades, FadesTwice
<1>8. Fades(room, room') BY <1>2, <1>4, <1>6, <1>7
<1> QED BY <1>2, <1>8, FadedStep

LEMMA DismissShowdownWin == ASSUME WinInv, Inv', DismissShowdown PROVE WinStep
<1> DEFINE quiet == ClearAutoTimer(ClearTurnTimer(room))
           closed == [quiet EXCEPT !.pending = FALSE]
           first == Min(Active(room))
<1>1. Good(room) /\ Counts(room) /\ DOMAIN room = Fields BY WinInvIsGood
<1>2. /\ \/ room' = CleanupRound(closed) \/ room' = EndHandEarlyAfterFoldOut(quiet)
         \/ Active(room) # {} /\ room' = AwardPot(quiet, first)
      /\ bet' = bet
  BY DEF DismissShowdown
<1>3. Active(room) # {} => first \notin room.folded
  <2>1. Active(room) \subseteq Seat BY <1>1, GroupsAreSeats
  <2>2. Active(room) # {} => first \in Active(room) BY <2>1, MinInSet
  <2> QED BY <2>2 DEF Active
<1>4. Fades(room, quiet) /\ quiet.folded = room.folded
  BY <1>1, QuietRoomFades DEF ClearAutoTimer, ClearTurnTimer, Fields
<1> HIDE DEF quiet, first
<1>5. Good(quiet) /\ Counts(quiet) BY <1>4, FadesFields
<1>6. Fades(room, closed) BY <1>1, <1>4, <1>5, FlagFades, FadesTwice
<1> HIDE DEF closed
<1>7. Fades(room, CleanupRound(closed)) BY <1>1, <1>6, FadesFields, CleanupRoundFades, FadesTwice
<1>8. Fades(room, EndHandEarlyAfterFoldOut(quiet)) BY <1>1, <1>4, <1>5, EndHandEarlyFades, FadesTwice
<1>9. Active(room) # {} => Fades(room, AwardPot(quiet, first))
  BY <1>1, <1>3, <1>4, <1>5, AwardPotFades, FadesTwice
<1>10. Fades(room, room') BY <1>2, <1>7, <1>8, <1>9
<1> QED BY <1>2, <1>10, FadedStep

LEMMA ShowdownTimeoutWin == ASSUME WinInv, Inv', ShowdownTimeout PROVE WinStep
<1> DEFINE quiet == ClearAutoTimer(room)
           closed == [quiet EXCEPT !.pending = FALSE]
           unforced == [quiet EXCEPT !.forced = NoSeat]
<1>1. Good(room) /\ Counts(room) /\ DOMAIN room = Fields /\ bet' = bet
  BY WinInvIsGood DEF ShowdownTimeout
<1>2. room' = IF room.phase \notin {"SHOWDOWN", "SHOWDOWN_WAIT"} THEN quiet
              ELSE IF room.pending THEN CleanupRound(closed)
              ELSE IF room.forced # NoSeat THEN AwardPot(unforced, room.forced)
              ELSE EndHandEarlyAfterFoldOut(quiet)
  BY Zenon DEF ShowdownTimeout, quiet, closed, unforced
<1>3. room.phase \in {"SHOWDOWN", "SHOWDOWN_WAIT"} /\ room.forced # NoSeat =>
        room.forced \notin room.folded
  BY DEF WinInv, Orderly
<1>4. Fades(room, quiet) /\ quiet.folded = room.folded
  BY <1>1, QuietFades DEF ClearAutoTimer, Fields
<1> HIDE DEF quiet
<1>5. Good(quiet) /\ Counts(quiet) /\ DOMAIN quiet = Fields BY <1>4, FadesFields
<1>6. Fades(room, closed) BY <1>1, <1>4, <1>5, FlagFades, FadesTwice
<1>7. Fades(room, unforced) /\ unforced.folded = room.folded
  <2>1. unforced.folded = quiet.folded BY <1>5 DEF Fields
  <2> QED BY <1>1, <1>4, <1>5, <2>1, FlagFades, FadesTwice
<1> HIDE DEF closed, unforced
<1>8. Fades(room, CleanupRound(closed)) BY <1>1, <1>6, FadesFields, CleanupRoundFades, FadesTwice
<1>9. Fades(room, EndHandEarlyAfterFoldOut(quiet)) BY <1>1, <1>4, <1>5, EndHandEarlyFades, FadesTwice
<1>10. room.phase \in {"SHOWDOWN", "SHOWDOWN_WAIT"} /\ room.forced # NoSeat =>
         Fades(room, AwardPot(unforced, room.forced))
  BY <1>1, <1>3, <1>7, FadesFields, AwardPotFades, FadesTwice
<1>11. Fades(room, room') BY <1>2, <1>4, <1>8, <1>9, <1>10
<1> QED BY <1>1, <1>11, FadedStep

LEMMA CleanupTimeoutWin == ASSUME WinInv, Inv', CleanupTimeout PROVE WinStep
<1> DEFINE ran == [room EXCEPT !.cleanups = @ - 1]
<1>1. Good(room) /\ Counts(room) /\ room.cleanups > 0 /\ bet' = bet
  BY WinInvIsGood DEF CleanupTimeout
<1>2. room' = CleanupRound(ran) BY DEF CleanupTimeout
<1>3. Fades(room, ran) BY <1>1, FlagFades
<1> HIDE DEF ran
<1>4. Fades(room, room') BY <1>1, <1>2, <1>3, FadesFields, CleanupRoundFades, FadesTwice
<1> QED BY <1>1, <1>4, FadedStep

(* Nothing is open: a handler may work on the room.                        *)
LEMMA OpenRoomWorks ==
    ASSUME WinInv, room.pasoBy = NoSeat, ~room.revealTimer, room.forced = NoSeat
    PROVE  Works(room, Worth(room), NoSeat)
<1>1. Good(room) /\ Counts(room) BY WinInvIsGood
<1>2. room.yes \cap room.no = {} BY DEF WinInv, Orderly
<1>3. \A s \in Seat : room.chips[s] + room.mainBet[s] = Worth(room)[s] BY DEF Worth
<1> QED BY <1>1, <1>2, <1>3 DEF Works

(* A handler that ran to its end.                                          *)
LEMMA FinishedStep ==
    ASSUME WinInv, Inv', bet' = NoBet, NEW step, NEW w, Runs(step, w), Hops(step),
           room' = Finish(step), \A s \in Seat : s # room.llevoBy => w[s] = Worth(room)[s]
    PROVE  WinStep
<1>1. Rests(room', w) BY FinishRests
<1>2. \A s \in Seat : Worth(room)[s] = room.chips[s] + room.mainBet[s] BY DEF Worth
<1>3. \A s \in Seat : s # room.llevoBy => w[s] = room.chips[s] + room.mainBet[s] BY <1>2
<1> QED BY <1>1, <1>3, RestedStep

LEMMA AdvancedStep ==
    ASSUME WinInv, Inv', bet' = NoBet, NEW r, Works(r, Worth(room), NoSeat),
           NEW phase \in BettingPhases, room' = Finish(Advance(r, phase))
    PROVE  WinStep
<1>1. Runs(Advance(r, phase), Worth(room)) BY WorksRuns
<1>2. Hops(Advance(r, phase)) BY DEF Hops, Advance
<1> QED BY <1>1, <1>2, FinishedStep

(* A phase in which no bet or question is open.                            *)
LEMMA QuietPhaseWorks ==
    ASSUME WinInv, room.phase \in {"DECLARAR_JUEGO", "PIQUE_REVEAL"}
    PROVE  Works(room, Worth(room), NoSeat) /\ bet = NoBet
<1>1. room.phase \notin BettingPhases \cup Ends \cup {"REVELAR_CARTA"} /\ room.phase # "LOBBY"
  BY PhasesApart
<1>2. bet = NoBet
  <2> SUFFICES ASSUME bet # NoBet PROVE FALSE OBVIOUS
  <2>1. bet.phase \in BettingPhases BY DEF WinInv, Inv, TypeOK
  <2>2. room.phase \in {bet.phase, "LOBBY"} BY DEF WinInv, Orderly
  <2> QED BY <1>1, <2>1, <2>2
<1>3. room.pasoBy = NoSeat
  <2> SUFFICES ASSUME room.pasoBy # NoSeat PROVE FALSE OBVIOUS
  <2>1. room.pasoPhase \in BettingPhases BY WinInvIsGood DEF Good, RoomOK
  <2>2. room.phase = room.pasoPhase BY <1>1 DEF WinInv, Orderly
  <2> QED BY <1>1, <2>1, <2>2
<1>4. ~room.revealTimer /\ room.forced = NoSeat BY <1>1 DEF WinInv, Orderly
<1> QED BY <1>2, <1>3, <1>4, OpenRoomWorks

(* Betting actions.                                                        *)

LEMMA MayActWorks ==
    ASSUME WinInv, Hasty = FALSE, NEW s \in Seat, MayAct(s)
    PROVE  /\ Works(room, Worth(room), NoSeat) /\ room.phase \in BettingPhases /\ bet = NoBet
           /\ room.turn = s
<1>1. room.phase \in BettingPhases /\ room.turn = s /\ room.pasoBy # s /\ bet = NoBet
  BY DEF MayAct
<1>2. room.phase \notin Ends \cup {"REVELAR_CARTA", "LOBBY"} BY <1>1, PhasesApart
<1>3. s # NoSeat BY DEF Seat, NoSeat
<1>4. room.pasoBy = NoSeat BY <1>1, <1>2, <1>3 DEF WinInv, Orderly
<1>5. ~room.revealTimer /\ room.forced = NoSeat BY <1>2 DEF WinInv, Orderly
<1> QED BY <1>1, <1>4, <1>5, OpenRoomWorks

(* A handler that only stops the turn timer.                               *)
LEMMA StoppedStep ==
    ASSUME WinInv, Inv', bet' = bet, room' = ClearTurnTimer(room) PROVE WinStep
<1>1. Fades(room, room') BY WinInvIsGood, QuietFades
<1> QED BY <1>1, FadedStep

LEMMA SubmitWin ==
    ASSUME WinInv, Inv', Hasty = FALSE, NEW s \in Seat, MayAct(s), NEW kind,
           NEW amount \in Int, NEW full, Submit(s, kind, amount, full)
    PROVE  WinStep
<1> DEFINE w == Worth(room)
           quiet == ClearTurnTimer(room)
           out == FoldAndPassMano(quiet, s)
<1>1. Works(room, w, NoSeat) /\ room.phase \in BettingPhases /\ bet = NoBet BY MayActWorks
<1> HIDE DEF w
<1>2. Works(quiet, w, NoSeat) BY <1>1, QuietWorks
<1>3. quiet.phase = room.phase BY <1>1, WorksIsGood DEF ClearTurnTimer, Fields
<1> HIDE DEF quiet
<1>4. CASE room.chips[s] <= 0 /\ kind # "igualar"
  <2>1. room' = Finish(Advance(out, room.phase)) /\ bet' = NoBet BY <1>1, <1>4 DEF Submit, quiet
  <2>2. Works(out, w, NoSeat) BY <1>2, FoldAndPassManoWorks
  <2> HIDE DEF out
  <2> QED BY <1>1, <2>1, <2>2, AdvancedStep DEF w
<1>5. CASE ~(room.chips[s] <= 0 /\ kind # "igualar")
  <2>1. room' = quiet /\ bet'.phase = room.phase /\ bet'.amount = amount
    BY <1>5 DEF Submit, quiet
  <2>2. Rests(room', w)
    <3>1. quiet.phase # "SHOWDOWN_WAIT" BY <1>1, <1>3, PhasesApart
    <3> QED BY <1>2, <2>1, <3>1, WorksRest
  <2>3. Counts(room)' BY <2>2 DEF Rests
  <2>4. Orderly'
    <3>1. room'.forced = NoSeat BY <1>2, <2>1 DEF Works
    <3>2. room'.phase = bet'.phase BY <1>3, <2>1
    <3> QED BY <2>2, <3>1, <3>2 DEF Orderly, Rests
  <2>5. NobodyElseWins
    <3> SUFFICES ASSUME NEW t \in Seat, Won(t) > 0 PROVE FALSE BY DEF NobodyElseWins
    <3>1. room'.chips[t] + room'.mainBet[t] = room.chips[t] + room.mainBet[t]
      BY <1>1, <1>2, <2>1 DEF Works
    <3>2. /\ room'.chips[t] \in Int /\ room'.mainBet[t] \in Int
          /\ room.chips[t] \in Int /\ room.mainBet[t] \in Int
      BY <2>3 DEF WinInv, Counts
    <3> QED BY <3>1, <3>2 DEF Won
  <2> QED BY <2>1, <2>3, <2>4, <2>5 DEF WinStep, WinInv
<1> QED BY <1>4, <1>5

(* A "paso" that asks about juego leaves the question with its player.     *)
LEMMA AskedWin ==
    ASSUME WinInv, Inv', bet' = NoBet, Works(room, Worth(room), NoSeat), NEW s \in Seat,
           s = room.turn, room.phase \in BettingPhases,
           room' = [ClearTurnTimer(room) EXCEPT !.pasoBy = s, !.pasoPhase = room.phase]
    PROVE  WinStep
<1>1. DOMAIN room = Fields /\ Counts(room) BY WorksIsGood
<1>2. /\ room.yes \cap room.no = {} /\ ~room.revealTimer /\ room.forced = NoSeat
      /\ room.phase \notin Ends
  BY PhasesApart DEF Works
<1>3. /\ room'.chips = room.chips /\ room'.roundBet = room.roundBet
      /\ room'.mainBet = room.mainBet /\ room'.pot = room.pot
      /\ room'.piquePot = room.piquePot /\ room'.maxBet = room.maxBet
      /\ room'.yes = room.yes /\ room'.no = room.no /\ room'.forced = room.forced
      /\ room'.revealTimer = room.revealTimer /\ room'.pasoBy = s
      /\ room'.phase = room.phase /\ room'.turn = room.turn
      /\ room'.pasoPhase = room.phase /\ ~room'.turnTimer
  BY <1>1 DEF ClearTurnTimer, Fields
<1>4. Counts(room)' BY <1>1, <1>3 DEF Counts
<1>5. bet'.amount \in Int BY DEF NoBet
<1>6. Orderly' BY <1>2, <1>3, PhasesApart DEF Orderly
<1>7. NobodyElseWins
  <2> SUFFICES ASSUME NEW t \in Seat, Won(t) > 0 PROVE FALSE BY DEF NobodyElseWins
  <2>1. room.chips[t] \in Int /\ room.mainBet[t] \in Int BY <1>1 DEF Counts
  <2> QED BY <1>3, <2>1 DEF Won
<1> QED BY <1>4, <1>5, <1>6, <1>7 DEF WinStep, WinInv

LEMMA PassWin ==
    ASSUME WinInv, Inv', bet' = NoBet, NEW r, Works(r, Worth(room), NoSeat),
           Works(room, Worth(room), NoSeat), ClearTurnTimer(r) = ClearTurnTimer(room),
           r.phase = room.phase, NEW s \in Seat, s = room.turn, room.phase \in BettingPhases,
           room' = Finish(Pass(r, s))
    PROVE  WinStep
<1>1. CASE Runs(Pass(r, s), Worth(room)) BY <1>1, PassHops, FinishedStep
<1>2. CASE Pass(r, s) = Still([ClearTurnTimer(r) EXCEPT !.pasoBy = s, !.pasoPhase = r.phase])
  <2> DEFINE asked == [ClearTurnTimer(room) EXCEPT !.pasoBy = s, !.pasoPhase = room.phase]
  <2>1. Pass(r, s) = Still(asked) BY <1>2
  <2> HIDE DEF asked
  <2>2. Finish(Still(asked)) = asked
    BY DEF Finish, Still, AfterAction, AfterGuerra, AfterCanticos, AfterDeclarar, AfterBetting, IsDue
  <2>3. room' = asked BY <2>1, <2>2
  <2> QED BY <2>3, AskedWin DEF asked
<1> QED BY <1>1, <1>2, PassRuns

LEMMA BettingActionWin ==
    ASSUME WinInv, Inv', Hasty = FALSE, NEW s \in Seat, BettingAction(s)
    PROVE  WinStep
<1>1. MayAct(s) BY DEF BettingAction, Paso, Voy, VoyTooLow, Igualar, Resto, Submit
<1>2. /\ Works(room, Worth(room), NoSeat) /\ room.phase \in BettingPhases /\ bet = NoBet
      /\ room.turn = s
  BY <1>1, MayActWorks
<1>3. /\ room.chips[s] \in Int /\ room.maxBet \in Int /\ room.roundBet[s] \in Int
      /\ DOMAIN room = Fields
  BY WinInvIsGood DEF Counts
<1>4. CASE Paso(s)
  <2>1. room' = Finish(Pass(room, s)) /\ bet' = NoBet BY <1>2, <1>4 DEF Paso
  <2> QED BY <1>2, <2>1, PassWin
<1>5. ASSUME NEW raise \in Raises, Voy(s, raise) PROVE WinStep
  <2>1. raise \in Int BY MainPotAssumption
  <2>2. Min({raise, room.chips[s]}) \in Int BY <1>3, <2>1, MinOfTwo
  <2>3. Submit(s, "voy", Min({raise, room.chips[s]}), TRUE) BY <1>5 DEF Voy
  <2> QED BY <1>1, <2>2, <2>3, SubmitWin
<1>6. ASSUME NEW raise \in Raises, VoyTooLow(s, raise) PROVE WinStep
  <2>1. room' = ClearTurnTimer(room) /\ bet' = bet BY <1>6 DEF VoyTooLow
  <2> QED BY <2>1, StoppedStep
<1>7. CASE Igualar(s)
  <2> DEFINE call == room.maxBet - room.roundBet[s]
  <2>1. CASE call <= 0
    <3> DEFINE quiet == ClearTurnTimer(room)
               acted == [quiet EXCEPT !.acted = @ \cup {s}]
    <3>1. room' = Finish(Advance(acted, room.phase)) /\ bet' = NoBet
      BY <1>2, <1>7, <2>1 DEF Igualar
    <3>2. Works(quiet, Worth(room), NoSeat) BY <1>2, QuietWorks
    <3> HIDE DEF quiet
    <3>3. \A x \in WorkFields : acted[x] = quiet[x] BY <3>2, WorksIsGood DEF WorkFields, Fields
    <3>4. Good(acted)
      BY <3>2, WorksIsGood DEF Good, RoomOK, Match, Owned, Fields, Groups, Maps, Flags, IsSeatMap
    <3> HIDE DEF acted
    <3>5. Works(acted, Worth(room), NoSeat) BY <3>2, <3>3, <3>4, SameWorks
    <3> QED BY <1>2, <3>1, <3>5, AdvancedStep
  <2>2. CASE ~(call <= 0)
    <3>1. call \in Int BY <1>3
    <3>2. Submit(s, "igualar", Min({call, room.chips[s]}), room.chips[s] >= call)
      BY <1>7, <2>2 DEF Igualar
    <3> HIDE DEF call
    <3>3. Min({call, room.chips[s]}) \in Int BY <1>3, <3>1, MinOfTwo
    <3> QED BY <1>1, <3>2, <3>3, SubmitWin
  <2> QED BY <2>1, <2>2
<1>8. CASE Resto(s)
  <2>1. Submit(s, "resto", room.chips[s], TRUE) BY <1>8 DEF Resto
  <2> QED BY <1>1, <1>3, <2>1, SubmitWin
<1> QED BY <1>4, <1>5, <1>6, <1>7, <1>8 DEF BettingAction

(* The answers of the ledger: the round may be over by then.               *)
LEMMA ReplyWin == ASSUME WinInv, Inv', LedgerReply PROVE WinStep
<1> DEFINE w == Worth(room)
<1>1. bet # NoBet /\ bet' = NoBet BY DEF LedgerReply, BetAccepted, BetUnfunded, BetFailed
<1>2. /\ bet.seat \in Seat /\ bet.kind \in {"voy", "igualar", "resto"}
      /\ bet.phase \in BettingPhases /\ bet.amount \in Int
      /\ room.phase \in {bet.phase, "LOBBY"}
  BY <1>1 DEF WinInv, Inv, TypeOK, Orderly
<1>3. Works(room, w, NoSeat)
  <2>1. room.pasoBy = NoSeat /\ ~room.revealTimer /\ room.forced = NoSeat
    BY <1>1 DEF WinInv, Orderly
  <2> QED BY <2>1, OpenRoomWorks
<1> HIDE DEF w
<1>4. CASE BetAccepted
  <2>1. room' = Finish(Advance(TakeBet(room, bet), bet.phase)) BY <1>4 DEF BetAccepted
  <2>2. Works(TakeBet(room, bet), w, NoSeat) BY <1>2, <1>3, TakeBetWorks
  <2> QED BY <1>1, <1>2, <2>1, <2>2, AdvancedStep DEF w
<1>5. CASE BetUnfunded
  <2>1. room' = Finish(Advance(FoldAndPassMano(room, bet.seat), bet.phase))
    BY <1>5 DEF BetUnfunded
  <2>2. Works(FoldAndPassMano(room, bet.seat), w, NoSeat) BY <1>2, <1>3, FoldAndPassManoWorks
  <2> QED BY <1>1, <1>2, <2>1, <2>2, AdvancedStep DEF w
<1>6. CASE BetFailed
  <2>1. room' = room BY <1>6 DEF BetFailed
  <2>2. Rests(room', w)
    <3>1. room.phase # "SHOWDOWN_WAIT" BY <1>2, PhasesApart
    <3> QED BY <1>3, <2>1, <3>1, WorksRest
  <2>3. \A s \in Seat : s # room.llevoBy => w[s] = room.chips[s] + room.mainBet[s]
    BY DEF w, Worth
  <2> QED BY <1>1, <2>2, <2>3, RestedStep
<1> QED BY <1>4, <1>5, <1>6 DEF LedgerReply

(* The messages of the clients.                                            *)

LEMMA AnswerWin ==
    ASSUME WinInv, Inv', NEW s \in Seat, PasoJuegoResponse(s) PROVE WinStep
<1> DEFINE w == Worth(room)
           quiet == ClearTurnTimer(room)
           asked == [quiet EXCEPT !.pasoBy = NoSeat, !.pasoPhase = "LOBBY"]
           shown == [asked EXCEPT !.acted = @ \cup {s}, !.passed = @ \cup {s},
                                  !.llevoBy = s, !.returnTo = room.phase,
                                  !.phase = "PIQUE_REVEAL", !.turn = s]
           out == FoldAndPassMano(CollectPlayerCards(asked, s), s)
<1>1. Good(room) /\ Counts(room) /\ DOMAIN room = Fields BY WinInvIsGood
<1>2. room.phase \in BettingPhases /\ room.pasoBy # NoSeat
  BY <1>1, NAssumption DEF PasoJuegoResponse, MayAnswer, Good, RoomOK, Seat, NoSeat
<1>3. /\ bet = NoBet /\ ~room.revealTimer /\ room.forced = NoSeat /\ room.yes \cap room.no = {}
  BY <1>2, PhasesApart DEF WinInv, Orderly
<1>4. (room' = shown \/ room' = Finish(Advance(out, room.phase))) /\ bet' = NoBet
  BY <1>3 DEF PasoJuegoResponse
<1>5. Works(asked, w, NoSeat) /\ ~asked.turnTimer
  <2>1. Good(quiet) BY <1>1, ClearTurnTimerGood
  <2>2. /\ asked.pasoBy = NoSeat /\ asked.chips = room.chips /\ asked.roundBet = room.roundBet
        /\ asked.mainBet = room.mainBet /\ asked.pot = room.pot
        /\ asked.piquePot = room.piquePot /\ asked.maxBet = room.maxBet
        /\ asked.yes = room.yes /\ asked.no = room.no /\ asked.forced = room.forced
        /\ asked.revealTimer = room.revealTimer /\ ~asked.turnTimer
    BY <1>1 DEF ClearTurnTimer, Fields
  <2> HIDE DEF quiet
  <2>3. Good(asked) BY <2>1, ForgetQuestionGood
  <2> HIDE DEF asked
  <2>4. Counts(asked) BY <1>1, <2>2 DEF Counts
  <2>5. \A t \in Seat : asked.chips[t] + asked.mainBet[t] = w[t] BY <2>2 DEF Worth
  <2> QED BY <1>3, <2>2, <2>3, <2>4, <2>5 DEF Works
<1> HIDE DEF asked, w
<1>6. CASE room' = shown
  <2>1. shown.phase = "PIQUE_REVEAL" /\ \A x \in WorkFields : shown[x] = asked[x]
    BY <1>5, WorksIsGood DEF WorkFields, Fields
  <2>2. Owned(shown) BY <1>5, WorksIsGood DEF Owned, Fields
  <2>3. RoomOK(shown) /\ Match(shown)
    BY <1>2, <1>5, WorksIsGood
       DEF Good, RoomOK, Match, Owned, Fields, Groups, Maps, Flags, IsSeatMap, Phases
  <2> HIDE DEF shown
  <2>4. Works(shown, w, NoSeat) BY <1>5, <2>1, <2>2, <2>3, SameWorks DEF Good
  <2>5. Rests(room', w) BY <1>6, <2>1, <2>4, WorksRest
  <2>6. \A t \in Seat : t # room.llevoBy => w[t] = room.chips[t] + room.mainBet[t]
    BY DEF w, Worth
  <2> QED BY <1>4, <2>5, <2>6, RestedStep
<1>7. CASE room' = Finish(Advance(out, room.phase))
  <2>1. Works(out, w, NoSeat) BY <1>5, CollectPlayerCardsWorks, FoldAndPassManoWorks
  <2> HIDE DEF out
  <2> QED BY <1>2, <1>4, <1>7, <2>1, AdvancedStep DEF w
<1> QED BY <1>4, <1>6, <1>7

LEMMA DeclaredWin ==
    ASSUME WinInv, Inv', bet' = NoBet, NEW r, Works(r, Worth(room), NoSeat), Good(r),
           r.phase = "DECLARAR_JUEGO", NEW s \in Seat, room' = Finish(Declare(r, s))
    PROVE  WinStep
<1>1. Runs(Declare(r, s), Worth(room)) BY DeclareRuns
<1>2. Hops(Declare(r, s)) BY DeclareHops
<1> QED BY <1>1, <1>2, FinishedStep

LEMMA RevealedWin ==
    ASSUME WinInv, Inv', bet' = NoBet, NEW r, Works(r, Worth(room), NoSeat), Good(r),
           r.llevoBy = room.llevoBy, r.llevoBy # NoSeat, room' = Finish(CloseReveal(r))
    PROVE  WinStep
<1>1. PICK v : /\ Runs(CloseReveal(r), v)
               /\ \A t \in Seat \ {r.llevoBy} : v[t] = Worth(room)[t]
  BY CloseRevealRuns
<1>2. Hops(CloseReveal(r)) BY CloseRevealHops
<1>3. \A t \in Seat : t # room.llevoBy => v[t] = Worth(room)[t] BY <1>1
<1> QED BY <1>1, <1>2, <1>3, FinishedStep

LEMMA DeclareWin == ASSUME WinInv, Inv', NEW s \in Seat, DeclararJuego(s) PROVE WinStep
<1>1. room.phase = "DECLARAR_JUEGO" /\ room' = Finish(Declare(room, s)) /\ bet' = bet
  BY DEF DeclararJuego, MayDeclare
<1>2. Works(room, Worth(room), NoSeat) /\ bet' = NoBet BY <1>1, QuietPhaseWorks
<1> QED BY <1>1, <1>2, WinInvIsGood, DeclaredWin

LEMMA RevealWin == ASSUME WinInv, Inv', DismissReveal PROVE WinStep
<1>1. /\ room.phase = "PIQUE_REVEAL" /\ room.llevoBy # NoSeat
      /\ room' = Finish(CloseReveal(room)) /\ bet' = bet
  BY DEF DismissReveal, MayDismissReveal
<1>2. Works(room, Worth(room), NoSeat) /\ bet' = NoBet BY <1>1, QuietPhaseWorks
<1> QED BY <1>1, <1>2, WinInvIsGood, RevealedWin

(* The timers.                                                             *)

LEMMA StartGuerraWin == ASSUME WinInv, Inv', StartGuerra PROVE WinStep
<1> DEFINE w == Worth(room)
           started == [room EXCEPT !.revealTimer = FALSE]
<1>1. /\ Good(room) /\ Counts(room) /\ DOMAIN room = Fields /\ room.revealTimer
      /\ room' = Finish(EnterGuerra(started)) /\ bet' = bet
  BY WinInvIsGood DEF StartGuerra
<1>2. bet = NoBet /\ room.pasoBy = NoSeat /\ room.forced = NoSeat /\ room.yes \cap room.no = {}
  BY <1>1 DEF WinInv, Orderly
<1>3. Works(started, w, NoSeat)
  <2>1. Good(started)
    BY <1>1 DEF Good, RoomOK, Match, Owned, Fields, Groups, Maps, Flags, IsSeatMap
  <2>2. /\ started.pasoBy = NoSeat /\ ~started.revealTimer /\ started.forced = NoSeat
        /\ started.yes = room.yes /\ started.no = room.no
        /\ started.piquePot = room.piquePot /\ started.chips = room.chips
        /\ started.roundBet = room.roundBet /\ started.mainBet = room.mainBet
        /\ started.pot = room.pot /\ started.maxBet = room.maxBet
    BY <1>1, <1>2 DEF Fields
  <2> HIDE DEF started
  <2>3. Counts(started) BY <1>1, <2>2 DEF Counts
  <2>4. \A t \in Seat : started.chips[t] + started.mainBet[t] = w[t] BY <2>2 DEF Worth
  <2> QED BY <1>2, <2>1, <2>2, <2>3, <2>4 DEF Works
<1> HIDE DEF started, w
<1>4. Good(started) BY <1>3, WorksIsGood
<1>5. Runs(EnterGuerra(started), w) BY <1>3, EntriesRun
<1>6. Hops(EnterGuerra(started))
  <2>1. Hands(EnterGuerra(started), {"CANTICOS"}) BY <1>4, EntriesLead, LeadsHand
  <2> QED BY <2>1 DEF Hops, Hands
<1> QED BY <1>1, <1>2, <1>5, <1>6, FinishedStep DEF w

LEMMA TurnTimeoutWin == ASSUME WinInv, Inv', TurnTimeout PROVE WinStep
<1> DEFINE w == Worth(room)
           quiet == ClearTurnTimer(room)
           s == room.turn
<1>1. /\ Good(room) /\ Good(quiet) /\ bet = NoBet /\ bet' = NoBet
      /\ room.turnTimer /\ DOMAIN room = Fields
  BY WinInvIsGood, ClearTurnTimerGood DEF TurnTimeout
<1>2. quiet.phase = room.phase /\ quiet.llevoBy = room.llevoBy /\ ClearTurnTimer(quiet) = quiet
  BY <1>1 DEF ClearTurnTimer, Fields
<1>3. \/ room' = Finish(Still(quiet))
      \/ s \in Seat /\ room.phase \in BettingPhases /\ room' = Finish(Pass(quiet, s))
      \/ s \in Seat /\ room.phase = "DECLARAR_JUEGO" /\ room' = Finish(Declare(quiet, s))
      \/ room.phase = "PIQUE_REVEAL" /\ room.llevoBy # NoSeat /\ room' = Finish(CloseReveal(quiet))
  <2>1. room.players \subseteq Seat BY <1>1, GroupsAreSeats
  <2>2. /\ BettingPhases \cap {"DECLARAR_JUEGO", "PIQUE_REVEAL"} = {}
        /\ "DECLARAR_JUEGO" # "PIQUE_REVEAL"
    BY DEF BettingPhases
  <2> HIDE DEF quiet
  <2>3. CASE s \notin room.players \cap room.connected BY <2>3 DEF TurnTimeout, quiet
  <2>4. CASE s \in room.players \cap room.connected
    <3>1. s \in Seat BY <2>1, <2>4
    <3>2. CASE room.phase \in BettingPhases BY <2>2, <2>4, <3>1, <3>2 DEF TurnTimeout, quiet
    <3>3. CASE room.phase = "DECLARAR_JUEGO" BY <2>2, <2>4, <3>1, <3>3 DEF TurnTimeout, quiet
    <3>4. CASE room.phase = "PIQUE_REVEAL" /\ room.llevoBy # NoSeat
      BY <2>2, <2>4, <3>4 DEF TurnTimeout, quiet
    <3>5. CASE /\ room.phase \notin BettingPhases \cup {"DECLARAR_JUEGO"}
               /\ ~(room.phase = "PIQUE_REVEAL" /\ room.llevoBy # NoSeat)
      BY <2>4, <3>5 DEF TurnTimeout, quiet
    <3> QED BY <3>2, <3>3, <3>4, <3>5
  <2> QED BY <2>3, <2>4
<1>4. CASE room' = Finish(Still(quiet))
  <2>1. room' = quiet
    BY <1>4 DEF Finish, Still, AfterAction, AfterGuerra, AfterCanticos, AfterDeclarar,
                AfterBetting, IsDue
  <2> QED BY <1>1, <2>1, StoppedStep
<1>5. ASSUME room.phase \in BettingPhases, s \in Seat, room' = Finish(Pass(quiet, s)) PROVE WinStep
  <2>1. room.phase \notin Ends \cup {"REVELAR_CARTA", "LOBBY"} BY <1>5, PhasesApart
  <2>2. room.pasoBy = NoSeat /\ ~room.revealTimer /\ room.forced = NoSeat
    BY <1>1, <2>1 DEF WinInv, Orderly
  <2>3. Works(room, w, NoSeat) BY <2>2, OpenRoomWorks
  <2> HIDE DEF w
  <2>4. Works(quiet, w, NoSeat) BY <2>3, QuietWorks
  <2>5. ClearTurnTimer(quiet) = ClearTurnTimer(room) BY <1>2
  <2> HIDE DEF quiet
  <2> QED BY <1>1, <1>2, <1>5, <2>3, <2>4, <2>5, PassWin DEF w
<1>6. ASSUME room.phase = "DECLARAR_JUEGO", s \in Seat, room' = Finish(Declare(quiet, s))
      PROVE  WinStep
  <2>1. Works(quiet, w, NoSeat) BY <1>6, QuietPhaseWorks, QuietWorks
  <2> HIDE DEF quiet, w, s
  <2> QED BY <1>1, <1>2, <1>6, <2>1, DeclaredWin DEF w
<1>7. ASSUME room.phase = "PIQUE_REVEAL", room.llevoBy # NoSeat, room' = Finish(CloseReveal(quiet))
      PROVE  WinStep
  <2>1. Works(quiet, w, NoSeat) BY <1>7, QuietPhaseWorks, QuietWorks
  <2> HIDE DEF quiet, w
  <2> QED BY <1>1, <1>2, <1>7, <2>1, RevealedWin DEF w
<1> QED BY <1>3, <1>4, <1>5, <1>6, <1>7

LEMMA WinInit == Init => WinInv
<1> SUFFICES ASSUME Init PROVE WinInv OBVIOUS
<1>1. PICK d \in Deals : room = Start(d) BY DEF Init
<1>2. IsDeal(d) BY MainPotAssumption
<1>3. Inv /\ bet = NoBet BY InitGood DEF Init
<1>4. /\ room.phase = "REVELAR_CARTA" /\ room.pasoBy = NoSeat /\ room.forced = NoSeat
      /\ room.yes = {} /\ room.no = {} /\ room.revealTimer
      /\ room.chips = d.chips /\ room.roundBet = [s \in Seat |-> 0]
      /\ room.mainBet = d.mainBet /\ room.maxBet = 0 /\ room.piquePot = 0
      /\ room.pot = d.merged + SumFunctionOnSet(d.mainBet, Seat)
  BY <1>1 DEF Start
<1>5. Counts(room)
  <2>1. /\ d.chips \in [Seat -> Int] /\ d.mainBet \in [Seat -> Nat] /\ d.merged \in Nat
    BY <1>2 DEF IsDeal
  <2>2. SumFunctionOnSet(d.mainBet, Seat) \in Nat BY <2>1, StakesAreNat
  <2>3. d.mainBet \in [Seat -> Int] BY <2>1
  <2> QED BY <1>4, <2>1, <2>2, <2>3 DEF Counts
<1>6. bet.amount \in Int BY <1>3 DEF NoBet
<1>7. Orderly BY <1>3, <1>4 DEF Orderly
<1> QED BY <1>3, <1>5, <1>6, <1>7 DEF WinInv

LEMMA WinNext ==
    ASSUME Hasty = FALSE, WinInv, [Next]_vars
    PROVE  WinStep
<1>1. Inv' BY NextGood DEF WinInv
<1>2. ASSUME NEW s \in Seat, ClientMessage(s) PROVE WinStep
  BY <1>1, <1>2, BettingActionWin, AnswerWin, DeclareWin, ShowMuckWin DEF ClientMessage
<1>3. ASSUME NEW s \in Seat, Connection(s) PROVE WinStep BY <1>1, <1>3, ConnectionWin
<1>4. CASE DismissReveal \/ DismissShowdown BY <1>1, <1>4, RevealWin, DismissShowdownWin
<1>5. CASE LedgerReply BY <1>1, <1>5, ReplyWin
<1>6. CASE Timer
  BY <1>1, <1>6, StartGuerraWin, TurnTimeoutWin, ShowdownTimeoutWin, CleanupTimeoutWin DEF Timer
<1>7. CASE UNCHANGED vars
  <2>1. room' = room /\ bet' = bet BY <1>7 DEF vars
  <2>2. Fades(room, room') BY <2>1, WinInvIsGood, QuietFades
  <2> QED BY <1>1, <2>1, <2>2, FadedStep
<1> QED BY <1>2, <1>3, <1>4, <1>5, <1>6, <1>7 DEF Next

(* Whichever way a hand ends - the showdown, an award, a refund of an      *)
(* uncalled bet or of every bet, an early end after folds, a table that    *)
(* everybody left - and whoever's connection is lost, in whatever order    *)
(* the messages, the timers and the ledger's answers come: nobody who is   *)
(* out of the hand is paid from it, except the player whose juego was      *)
(* shown, who takes the pique as he leaves.  It is proved for clients that *)
(* do not bet while their "paso" awaits the answer about juego.            *)
THEOREM NobodyOutIsPaid == ASSUME Hasty = FALSE PROVE Spec => OnlyPlayersWin
<1>1. Init => WinInv BY WinInit
<1>2. WinInv /\ [Next]_vars => WinStep BY WinNext
<1>3. WinStep => WinInv' /\ [\A s \in Seat : Won(s) > 0 =>
                               s \notin room'.folded \/ s = room.llevoBy]_vars
  BY DEF WinStep, NobodyElseWins
<1> QED BY <1>1, <1>2, <1>3, PTL DEF Spec, OnlyPlayersWin
=============================================================================
