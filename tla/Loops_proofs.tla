---------------------------- MODULE Loops_proofs ----------------------------
(***************************************************************************)
(* The loops of a showdown compute the closed forms that the rooms use:    *)
(* resolveHandWinners and splitAmount of ShowdownOfOnePot, for every deck  *)
(* and every number of holders, and calculateSidePots of PotManager, for   *)
(* every table and all stakes.                                             *)
(***************************************************************************)
EXTENDS ShowdownOfOnePot, Sums, Sequences

-----------------------------------------------------------------------------
(* What a hand is worth.                                                   *)

PointsOf(cards) == [c \in cards |-> CardPoints[c[1]]]

LEMMA CardPointsAreSmall ==
    \A c \in (1..7) \X Suit : CardPoints[c[1]] \in 0..21
<1> SUFFICES ASSUME NEW c \in (1..7) \X Suit PROVE CardPoints[c[1]] \in 0..21
  OBVIOUS
<1>1. c[1] \in {1, 2, 3, 4, 5, 6, 7} OBVIOUS
<1> QED BY <1>1 DEF CardPoints

(* No card has more than 21 points.                                        *)
LEMMA PointsAreFew ==
    ASSUME NEW cards \in SUBSET ((1..7) \X Suit), IsFiniteSet(cards)
    PROVE  /\ Points(cards) \in Nat /\ Cardinality(cards) \in Nat
           /\ Points(cards) <= 21 * Cardinality(cards)
<1> DEFINE D == {T \in SUBSET cards : /\ Points(T) \in Nat /\ Cardinality(T) \in Nat
                                      /\ Points(T) <= 21 * Cardinality(T)}
<1>1. {} \in D
  <2>1. Points({}) = 0 BY SumEmpty DEF Points
  <2> QED BY <2>1, FS_EmptySet
<1>2. ASSUME NEW T \in D, NEW c \in cards \ T PROVE T \cup {c} \in D
  <2> DEFINE p == CardPoints[c[1]]
  <2>1. IsFiniteSet(T) BY FS_Subset
  <2>2. /\ Cardinality(T \cup {c}) = Cardinality(T) + 1
    BY <2>1, FS_AddElement
  <2>3. p \in 0..21 BY CardPointsAreSmall
  <2>4. Points(T \cup {c}) = Points(T) + p
    <3> DEFINE f == PointsOf(T \cup {c})
               g == PointsOf(T)
    <3>1. /\ \A x \in T \cup {c} : f[x] \in Int
          /\ \A x \in T : g[x] = f[x] /\ g[x] \in Int
          /\ f[c] = p
      BY CardPointsAreSmall DEF PointsOf
    <3> HIDE DEF f, g
    <3>2. SumFunctionOnSet(f, T \cup {c}) = SumFunctionOnSet(f, T) + f[c]
      BY <2>1, <3>1, SumAdd
    <3>3. SumFunctionOnSet(g, T) = SumFunctionOnSet(f, T) BY <2>1, <3>1, SumSame
    <3> QED BY <3>1, <3>2, <3>3 DEF f, g, PointsOf, Points
  <2> HIDE DEF p
  <2> QED BY <2>2, <2>3, <2>4
<1> HIDE DEF D
<1>3. cards \in D BY <1>1, <1>2, SetInduction DEF D
<1> QED BY <1>3 DEF D

LEMMA SuitPointsAreFew ==
    ASSUME NEW cards \in SUBSET ((1..7) \X Suit), IsFiniteSet(cards), Cardinality(cards) <= 4
    PROVE  /\ Points(cards) \in 0..84 /\ SuitPoints(cards) \in 0..84
<1>1. ASSUME NEW part \in SUBSET cards PROVE Points(part) \in 0..84
  <2>1. /\ IsFiniteSet(part) /\ Cardinality(part) <= Cardinality(cards) BY FS_Subset
  <2>2. /\ Cardinality(part) \in Nat /\ Points(part) \in Nat
        /\ Points(part) <= 21 * Cardinality(part) /\ Cardinality(cards) \in Nat
    BY <2>1, PointsAreFew
  <2> QED BY <2>1, <2>2
<1> DEFINE S == {Points(OfSuit(cards, s)) : s \in Suit} \cup {0}
<1>2. S \subseteq 0..84
  <2>1. \A s \in Suit : OfSuit(cards, s) \in SUBSET cards BY DEF OfSuit
  <2>2. \A s \in Suit : Points(OfSuit(cards, s)) \in 0..84 BY <1>1, <2>1
  <2>3. 0 \in 0..84 OBVIOUS
  <2> QED BY <2>2, <2>3
<1>3. IsFiniteSet(S)
  <2>1. 0 \in Int /\ 84 \in Int OBVIOUS
  <2>2. IsFiniteSet(0..84) BY <2>1, FS_Interval
  <2> QED BY <1>2, <2>2, FS_Subset
<1> HIDE DEF S
<1>4. 0 \in S BY DEF S
<1>5. Max(S) \in S
  <2>1. S \in SUBSET Int BY <1>2
  <2> QED BY <1>3, <1>4, <2>1, MaxIsGreatest
<1>6. SuitPoints(cards) = Max(S) BY DEF SuitPoints, S
<1> QED BY <1>1, <1>2, <1>5, <1>6

(* An evaluation is a type and points, and the points and the bonus of La  *)
(* Mano do not reach the next type.                                        *)
LEMMA EvaluationIs ==
    ASSUME NEW cards \in SUBSET ((1..7) \X Suit), IsFiniteSet(cards), Cardinality(cards) <= 4
    PROVE  \E type \in 1..4, points \in 0..84 : EvaluateHand(cards) = 100 * type + points
<1>1. Points(cards) \in 0..84 /\ SuitPoints(cards) \in 0..84 BY SuitPointsAreFew
<1> HIDE DEF Points, SuitPoints
<1>2. \/ EvaluateHand(cards) = 100 + SuitPoints(cards)
      \/ EvaluateHand(cards) = 400 + SuitPoints(cards)
      \/ EvaluateHand(cards) = 300 + SuitPoints(cards)
      \/ EvaluateHand(cards) = 200 + Points(cards)
  BY DEF EvaluateHand, NINGUNA, PRIMERA, CHIVO, SEGUNDA
<1>3. /\ 100 = 100 * 1 /\ 200 = 100 * 2 /\ 300 = 100 * 3 /\ 400 = 100 * 4
      /\ 1 \in 1..4 /\ 2 \in 1..4 /\ 3 \in 1..4 /\ 4 \in 1..4
  OBVIOUS
<1> QED BY <1>1, <1>2, <1>3

-----------------------------------------------------------------------------
(* splitAmount.                                                            *)

LEMMA Division ==
    ASSUME NEW a \in Nat, NEW n \in Nat \ {0}
    PROVE  a \div n \in Nat /\ a % n \in Nat /\ a % n < n /\ a = (a \div n) * n + (a % n)
OBVIOUS

(* The shares of an amount add up to it: the winners before one in seat    *)
(* order have so many shares, and so many of the remaining cents.          *)
LEMMA SharesAddUp ==
    ASSUME NEW W \in SUBSET Nat, IsFiniteSet(W), W # {}, NEW a \in Nat
    PROVE  SumFunctionOnSet(SplitAmount(a, W), W) = a
<1> DEFINE n == Cardinality(W)
           q == a \div n
           m == a % n
           f == SplitAmount(a, W)
           Before(p) == {w \in W : w < p}
           Sum(k) == IF k <= m THEN q * k + k ELSE q * k + m
           Prefix(T) == \A x \in T, y \in W : y < x => y \in T
           Good(T) == SumFunctionOnSet(f, T) = Sum(Cardinality(T))
           D == {T \in SUBSET W : Prefix(T) /\ ~Good(T)}
<1>1. n \in Nat \ {0} BY FS_CardinalityType, FS_EmptySet
<1>2. q \in Nat /\ m \in Nat /\ m < n /\ a = q * n + m BY <1>1, Division
<1>3. f = [p \in W |-> q + IF Cardinality(Before(p)) < m THEN 1 ELSE 0] BY DEF SplitAmount
<1> HIDE DEF n, q, m, f
<1>4. \A p \in W : f[p] \in Int BY <1>2, <1>3
<1>5. D = {}
  <2> SUFFICES ASSUME D # {} PROVE FALSE OBVIOUS
  <2> HIDE DEF D
  <2>1. PICK A \in D : \A B \in D : Cardinality(A) <= Cardinality(B)
    BY SmallestExists DEF D
  <2>2. A \in SUBSET W /\ Prefix(A) /\ ~Good(A) BY DEF D
  <2>3. IsFiniteSet(A) BY <2>2, FS_Subset
  <2>4. A # {}
    <3>1. Cardinality({}) = 0 BY FS_EmptySet
    <3>2. Sum(0) = 0 BY <1>2
    <3>3. SumFunctionOnSet(f, {}) = 0 BY SumEmpty
    <3> QED BY <2>2, <3>1, <3>2, <3>3
  <2> DEFINE x == Max(A)
             B == A \ {x}
  <2>5. x \in A /\ \A y \in A : y <= x
    <3>1. A \in SUBSET Int BY <2>2
    <3> QED BY <2>3, <2>4, <3>1, MaxIsGreatest
  <2> HIDE DEF x
  <2>6. /\ Cardinality(A) \in Nat /\ Cardinality(B) \in Nat
        /\ Cardinality(B) = Cardinality(A) - 1
    BY <2>3, <2>5, OneLess
  <2>7. Before(x) = B
    <3>1. \A y \in B : y \in W /\ y < x
      <4>1. \A y \in B : y \in Nat /\ x \in Nat /\ y # x /\ y <= x BY <2>2, <2>5
      <4> QED BY <2>2, <4>1
    <3>2. \A y \in Before(x) : y \in B
      <4>1. \A y \in Before(x) : y \in A /\ y \in Nat /\ x \in Nat /\ y < x BY <2>2, <2>5
      <4> QED BY <4>1
    <3> QED BY <3>1, <3>2
  <2>8. Prefix(B)
    <3> SUFFICES ASSUME NEW y \in B, NEW z \in W, z < y PROVE z \in B OBVIOUS
    <3>1. z \in A BY <2>2
    <3>2. y \in Nat /\ z \in Nat /\ x \in Nat /\ y <= x BY <2>2, <2>5
    <3> QED BY <3>1, <3>2
  <2>9. B \notin D
    <3>1. ~(Cardinality(A) <= Cardinality(B)) BY <2>6
    <3> QED BY <2>1, <3>1
  <2>10. SumFunctionOnSet(f, B) = Sum(Cardinality(B))
    <3>1. B \in SUBSET W BY <2>2
    <3> QED BY <2>8, <2>9, <3>1 DEF D
  <2>11. SumFunctionOnSet(f, A) = f[x] + SumFunctionOnSet(f, B)
    <3>1. \A y \in A : f[y] \in Int BY <1>4, <2>2
    <3> QED BY <2>3, <2>5, <3>1, SumRemove
  <2>12. f[x] = q + IF Cardinality(B) < m THEN 1 ELSE 0
    BY <1>3, <2>2, <2>5, <2>7
  <2> DEFINE k == Cardinality(B)
  <2>13. k \in Nat /\ Cardinality(A) = k + 1 BY <2>6
  <2>14. SumFunctionOnSet(f, A) = (q + IF k < m THEN 1 ELSE 0) + Sum(k)
    BY <2>10, <2>11, <2>12
  <2> HIDE DEF k, B
  <2>15. (q + IF k < m THEN 1 ELSE 0) + Sum(k) = Sum(k + 1)
    <3>1. q * (k + 1) = q * k + q /\ q * k \in Nat BY <1>2, <2>13
    <3> QED BY <1>2, <2>13, <3>1
  <2> QED BY <2>2, <2>13, <2>14, <2>15
<1>6. Good(W)
  <2>1. Prefix(W) OBVIOUS
  <2> QED BY <1>5, <2>1
<1>7. Sum(n) = a BY <1>1, <1>2
<1> QED BY <1>6, <1>7 DEF n, f

-----------------------------------------------------------------------------
(* ShowdownOfOnePot.                                                       *)

Dealt ==
    /\ hands \in [Holders -> SUBSET Deck]
    /\ \A s \in Holders : IsFiniteSet(hands[s]) /\ Cardinality(hands[s]) = 4
    /\ amount \in Amounts

Strength(s) == WithManoBonus(Value(s), s = mano)

(* The best hand is that of somebody compared, and nobody compared is      *)
(* stronger.                                                               *)
Compared ==
    /\ todo \subseteq Holders
    /\ \E b \in Holders \ todo :
         best = Evaluation(b) /\ \A s \in Holders \ todo : Strength(s) <= Strength(b)

Chosen ==
    winners # {} =>
      /\ todo = {}
      /\ winners = ResolveHandWinners(Holders, [s \in Holders |-> Value(s)], mano)

(* Who is paid comes before who is not, and has the share of his place.    *)
Shared ==
    /\ unpaid \subseteq winners
    /\ \A p \in winners \ unpaid, q \in unpaid : p < q
    /\ index = Cardinality(winners \ unpaid)
    /\ paid = [s \in Holders |-> IF s \in winners \ unpaid
                                 THEN SplitAmount(Payout, winners)[s] ELSE 0]

LoopInv == Dealt /\ Compared /\ Chosen /\ Shared

(* compareHands, on a type and points, is the difference of two strengths. *)
LEMMA CompareIsStrength ==
    ASSUME Dealt, NEW s \in Holders, NEW t \in Holders
    PROVE  /\ Strength(s) \in Int /\ Strength(t) \in Int
           /\ CompareHands(Evaluation(s), Evaluation(t)) > 0 <=> Strength(s) > Strength(t)
           /\ CompareHands(Evaluation(s), Evaluation(t)) = 0 <=> Strength(s) = Strength(t)
<1>1. \A u \in Holders : \E type \in 1..4, points \in 0..84 : Value(u) = 100 * type + points
  <2> SUFFICES ASSUME NEW u \in Holders
               PROVE  \E type \in 1..4, points \in 0..84 : Value(u) = 100 * type + points
    OBVIOUS
  <2>1. hands[u] \in SUBSET ((1..7) \X Suit) BY ShowdownAssumption DEF Dealt
  <2>2. IsFiniteSet(hands[u]) /\ Cardinality(hands[u]) <= 4 BY DEF Dealt
  <2> QED BY <2>1, <2>2, EvaluationIs DEF Value
<1>2. PICK x \in 1..4, p \in 0..84 : Value(s) = 100 * x + p BY <1>1
<1>3. PICK y \in 1..4, q \in 0..84 : Value(t) = 100 * y + q BY <1>1
<1>4. /\ Value(s) \div 100 = x /\ Value(s) % 100 = p
      /\ Value(t) \div 100 = y /\ Value(t) % 100 = q
  BY <1>2, <1>3
<1> DEFINE i == IF s = mano THEN 1 ELSE 0
           j == IF t = mano THEN 1 ELSE 0
<1>5. /\ Evaluation(s) = [type |-> x, points |-> p + i]
      /\ Evaluation(t) = [type |-> y, points |-> q + j]
  BY <1>4 DEF Evaluation, Value
<1>6. Strength(s) = 100 * x + p + i /\ Strength(t) = 100 * y + q + j
  BY <1>2, <1>3 DEF Strength, WithManoBonus
<1>7. i \in 0..1 /\ j \in 0..1 OBVIOUS
<1> HIDE DEF i, j
<1>8. CompareHands(Evaluation(s), Evaluation(t)) = IF x # y THEN x - y ELSE (p + i) - (q + j)
  BY <1>5 DEF CompareHands
<1> QED BY <1>6, <1>7, <1>8

LEMMA PayoutIsPositive == ASSUME Dealt PROVE Payout \in Nat /\ Payout >= 2
BY ShowdownAssumption DEF Dealt, Payout, RakeOf

LEMMA MinOfHolders ==
    ASSUME NEW S \in SUBSET Holders, S # {}
    PROVE  Min(S) \in S /\ \A x \in S : Min(S) <= x
<1>1. S \in SUBSET Nat BY ShowdownAssumption
<1> QED BY <1>1, MinIsLeast

LEMMA LoopInit == Init => LoopInv
<1> SUFFICES ASSUME Init PROVE LoopInv OBVIOUS
<1>1. Dealt
  <2>1. PICK owner \in [Deck -> Holders] :
          /\ \A s \in Holders : Cardinality({c \in Deck : owner[c] = s}) = 4
          /\ hands = [s \in Holders |-> {c \in Deck : owner[c] = s}]
    BY DEF Init
  <2>2. IsFiniteSet(Deck)
    <3>1. IsFiniteSet(1..7)
      <4>1. 1 \in Int /\ 7 \in Int OBVIOUS
      <4> QED BY <4>1, FS_Interval
    <3>2. IsFiniteSet(Suit)
      <4>1. Suit = ((({} \cup {"Oros"}) \cup {"Copas"}) \cup {"Espadas"}) \cup {"Bastos"}
        BY DEF Suit
      <4>2. IsFiniteSet({} \cup {"Oros"}) BY FS_EmptySet, FS_AddElement
      <4>3. IsFiniteSet(({} \cup {"Oros"}) \cup {"Copas"}) BY <4>2, FS_AddElement
      <4>4. IsFiniteSet((({} \cup {"Oros"}) \cup {"Copas"}) \cup {"Espadas"}) BY <4>3, FS_AddElement
      <4> QED BY <4>1, <4>4, FS_AddElement
    <3>3. IsFiniteSet((1..7) \X Suit) BY <3>1, <3>2, FS_Product
    <3> QED BY <3>3, FS_Subset, ShowdownAssumption
  <2>3. \A s \in Holders : IsFiniteSet({c \in Deck : owner[c] = s}) BY <2>2, FS_Subset
  <2> QED BY <2>1, <2>3 DEF Init, Dealt
<1> DEFINE first == Min(Holders)
<1>2. first \in Holders BY MinOfHolders, ShowdownAssumption
<1>3. todo = Holders \ {first} /\ best = Evaluation(first) BY DEF Init
<1> HIDE DEF first
<1>4. Compared
  <2>1. Holders \ todo = {first} BY <1>2, <1>3
  <2>2. Strength(first) <= Strength(first)
    <3>1. Strength(first) \in Int BY <1>1, <1>2, CompareIsStrength
    <3> QED BY <3>1
  <2> QED BY <1>2, <1>3, <2>1, <2>2 DEF Compared
<1>5. Chosen BY DEF Init, Chosen
<1>6. Shared
  <2>1. winners = {} /\ unpaid = {} /\ index = 0 /\ paid = [s \in Holders |-> 0] BY DEF Init
  <2>2. Cardinality(winners \ unpaid) = 0
    <3>1. winners \ unpaid = {} BY <2>1
    <3> QED BY <3>1, FS_EmptySet
  <2> QED BY <2>1, <2>2 DEF Shared
<1> QED BY <1>1, <1>4, <1>5, <1>6 DEF LoopInv

LEMMA SameDeal ==
    ASSUME LoopInv, UNCHANGED <<hands, mano, amount>>
    PROVE  Dealt' /\ Payout' = Payout /\ (\A s \in Holders : Strength(s)' = Strength(s))
           /\ (\A s \in Holders : Evaluation(s)' = Evaluation(s) /\ Value(s)' = Value(s))
BY DEF LoopInv, Dealt, Payout, Strength, Value, Evaluation

LEMMA CompareNextKeeps == ASSUME LoopInv, CompareNext PROVE LoopInv'
<1> USE DEF CompareNext
<1>1. Dealt' /\ Payout' = Payout /\ (\A s \in Holders : Strength(s)' = Strength(s))
      /\ (\A s \in Holders : Evaluation(s)' = Evaluation(s) /\ Value(s)' = Value(s))
  BY SameDeal
<1> DEFINE c == Min(todo)
<1>2. c \in todo /\ todo \subseteq Holders BY MinOfHolders DEF LoopInv, Compared
<1>3. PICK b \in Holders \ todo :
        best = Evaluation(b) /\ \A s \in Holders \ todo : Strength(s) <= Strength(b)
  BY DEF LoopInv, Compared
<1>4. todo' = todo \ {c} /\ UNCHANGED <<winners, unpaid, index, paid>>
      /\ best' = IF CompareHands(Evaluation(c), best) > 0 THEN Evaluation(c) ELSE best
  OBVIOUS
<1> HIDE DEF CompareNext, c
<1>5. \A s \in Holders : Strength(s) \in Int BY CompareIsStrength DEF LoopInv
<1>6. c \in Holders /\ Holders \ todo' = (Holders \ todo) \cup {c} BY <1>2, <1>4
<1>7. CompareHands(Evaluation(c), best) > 0 <=> Strength(c) > Strength(b)
  BY <1>3, <1>6, CompareIsStrength DEF LoopInv
<1>8. Compared'
  <2>1. CASE Strength(c) > Strength(b)
    <3>1. best' = Evaluation(c) BY <1>4, <1>7, <2>1
    <3>2. \A s \in Holders \ todo' : Strength(s) <= Strength(c)
      <4> SUFFICES ASSUME NEW s \in Holders \ todo' PROVE Strength(s) <= Strength(c) OBVIOUS
      <4>1. Strength(s) \in Int /\ Strength(c) \in Int /\ Strength(b) \in Int BY <1>3, <1>5, <1>6
      <4>2. s = c \/ Strength(s) <= Strength(b) BY <1>3, <1>6
      <4> QED BY <2>1, <4>1, <4>2
    <3> QED BY <1>1, <1>2, <1>4, <1>6, <3>1, <3>2 DEF Compared
  <2>2. CASE ~(Strength(c) > Strength(b))
    <3>1. best' = Evaluation(b) BY <1>3, <1>4, <1>7, <2>2
    <3>2. \A s \in Holders \ todo' : Strength(s) <= Strength(b)
      <4> SUFFICES ASSUME NEW s \in Holders \ todo' PROVE Strength(s) <= Strength(b) OBVIOUS
      <4>1. Strength(s) \in Int /\ Strength(c) \in Int /\ Strength(b) \in Int BY <1>3, <1>5, <1>6
      <4>2. s = c \/ Strength(s) <= Strength(b) BY <1>3, <1>6
      <4> QED BY <2>2, <4>1, <4>2
    <3>3. b \in Holders \ todo' BY <1>3, <1>6
    <3> QED BY <1>1, <1>2, <1>4, <3>1, <3>2, <3>3 DEF Compared
  <2> QED BY <2>1, <2>2
<1>9. Chosen'
  <2>1. winners = {} BY <1>2 DEF LoopInv, Chosen
  <2> QED BY <1>4, <2>1 DEF Chosen
<1>10. Shared' BY <1>1, <1>4 DEF LoopInv, Shared
<1> QED BY <1>1, <1>8, <1>9, <1>10 DEF LoopInv

(* With nobody left to compare, the filter finds those whom nobody beats.  *)
LEMMA FilterWinnersKeeps == ASSUME LoopInv, FilterWinners PROVE LoopInv'
<1>1. /\ todo = {} /\ winners = {}
      /\ winners' = {s \in Holders : CompareHands(Evaluation(s), best) = 0}
      /\ unpaid' = winners' /\ UNCHANGED <<hands, mano, amount, todo, best, index, paid>>
  BY DEF FilterWinners
<1>2. Dealt' /\ Payout' = Payout /\ (\A s \in Holders : Strength(s)' = Strength(s))
      /\ (\A s \in Holders : Evaluation(s)' = Evaluation(s) /\ Value(s)' = Value(s))
  BY <1>1, SameDeal
<1>3. Compared' BY <1>1, <1>2 DEF LoopInv, Compared
<1>4. PICK b \in Holders :
        best = Evaluation(b) /\ \A s \in Holders : Strength(s) <= Strength(b)
  BY <1>1 DEF LoopInv, Compared
<1>5. \A s \in Holders : Strength(s) \in Int BY CompareIsStrength DEF LoopInv
<1>6. \A s \in Holders : CompareHands(Evaluation(s), best) = 0 <=> Strength(s) = Strength(b)
  BY <1>4, CompareIsStrength DEF LoopInv
<1>7. winners' = ResolveHandWinners(Holders, [s \in Holders |-> Value(s)], mano)
  <2>1. ResolveHandWinners(Holders, [s \in Holders |-> Value(s)], mano)
          = {s \in Holders : \A t \in Holders : Strength(s) >= Strength(t)}
    BY DEF ResolveHandWinners, Strength
  <2>2. \A s \in Holders : Strength(s) = Strength(b)
                             <=> \A t \in Holders : Strength(s) >= Strength(t)
    <3> SUFFICES ASSUME NEW s \in Holders
                 PROVE  Strength(s) = Strength(b)
                          <=> \A t \in Holders : Strength(s) >= Strength(t)
      OBVIOUS
    <3>1. Strength(s) \in Int /\ Strength(b) \in Int BY <1>5
    <3>2. \A t \in Holders : Strength(t) \in Int /\ Strength(t) <= Strength(b) BY <1>4, <1>5
    <3> QED BY <3>1, <3>2
  <2> QED BY <1>1, <1>6, <2>1, <2>2
<1>8. Chosen'
  <2>1. [s \in Holders |-> Value(s)]' = [s \in Holders |-> Value(s)] BY <1>2
  <2> QED BY <1>1, <1>7, <2>1 DEF Chosen
<1>9. Shared'
  <2>1. winners \ unpaid = {} /\ winners' \ unpaid' = {} BY <1>1
  <2> QED BY <1>1, <2>1 DEF LoopInv, Shared
<1> QED BY <1>2, <1>3, <1>8, <1>9 DEF LoopInv

(* The winner whose turn it is comes after the "index" winners before him. *)
LEMMA PayNextKeeps == ASSUME LoopInv, PayNext PROVE LoopInv'
<1> DEFINE c == Min(unpaid)
           n == Cardinality(winners)
           share == Payout \div n + IF index < Payout % n THEN 1 ELSE 0
<1>1. /\ unpaid # {} /\ paid' = [paid EXCEPT ![c] = share]
      /\ unpaid' = unpaid \ {c} /\ index' = index + 1
      /\ UNCHANGED <<hands, mano, amount, todo, best, winners>>
  BY DEF PayNext
<1>2. Dealt' /\ Payout' = Payout /\ (\A s \in Holders : Strength(s)' = Strength(s))
      /\ (\A s \in Holders : Evaluation(s)' = Evaluation(s) /\ Value(s)' = Value(s))
  BY <1>1, SameDeal
<1>3. Compared' BY <1>1, <1>2 DEF LoopInv, Compared
<1>4. Chosen'
  <2>1. [s \in Holders |-> Value(s)]' = [s \in Holders |-> Value(s)] BY <1>2
  <2> QED BY <1>1, <2>1 DEF LoopInv, Chosen
<1>5. Shared'
  <2>1. /\ unpaid \subseteq winners /\ \A p \in winners \ unpaid, q \in unpaid : p < q
        /\ index = Cardinality(winners \ unpaid)
        /\ paid = [s \in Holders |-> IF s \in winners \ unpaid
                                     THEN SplitAmount(Payout, winners)[s] ELSE 0]
    BY DEF LoopInv, Shared
  <2>2. winners \in SUBSET Holders
    <3>1. winners = {} \/ winners \subseteq Holders
      BY DEF LoopInv, Chosen, ResolveHandWinners
    <3> QED BY <3>1
  <2>3. c \in unpaid /\ \A x \in unpaid : c <= x
    <3>1. unpaid \in SUBSET Holders BY <2>1, <2>2
    <3> QED BY <1>1, <3>1, MinOfHolders
  <2> HIDE DEF c
  <2>4. {q \in winners : q < c} = winners \ unpaid
    <3>1. \A q \in winners : q \in Nat /\ c \in Nat BY <2>1, <2>2, <2>3, ShowdownAssumption
    <3>2. \A q \in winners \ unpaid : q < c BY <2>1, <2>3
    <3>3. \A q \in unpaid : ~(q < c) BY <2>1, <2>3, <3>1
    <3> QED BY <2>1, <3>2, <3>3
  <2>5. share = SplitAmount(Payout, winners)[c] BY <2>1, <2>3, <2>4 DEF SplitAmount
  <2> HIDE DEF share
  <2>6. winners \ unpaid' = (winners \ unpaid) \cup {c} /\ c \notin winners \ unpaid
    BY <1>1, <2>1, <2>3
  <2>7. index' = Cardinality(winners' \ unpaid')
    <3>1. IsFiniteSet(winners \ unpaid)
      <4>1. winners \ unpaid \in SUBSET Holders BY <2>2
      <4> QED BY <4>1, FS_Subset, ShowdownAssumption
    <3> QED BY <1>1, <2>1, <2>6, <3>1, FS_AddElement
  <2>8. paid' = [s \in Holders |-> IF s \in winners \ unpaid'
                                   THEN SplitAmount(Payout, winners)[s] ELSE 0]
    BY <1>1, <2>1, <2>5, <2>6
  <2>9. \A p \in winners \ unpaid', q \in unpaid' : p < q
    <3> SUFFICES ASSUME NEW p \in winners \ unpaid', NEW q \in unpaid' PROVE p < q OBVIOUS
    <3>1. q \in unpaid /\ q # c /\ c <= q /\ q \in Nat /\ c \in Nat
      BY <1>1, <2>1, <2>2, <2>3, ShowdownAssumption
    <3>2. p \in winners \ unpaid \/ p = c BY <2>6
    <3> QED BY <2>1, <3>1, <3>2
  <2> QED BY <1>1, <1>2, <2>1, <2>7, <2>8, <2>9 DEF Shared
<1> QED BY <1>2, <1>3, <1>4, <1>5 DEF LoopInv

LEMMA LoopInvHolds == Spec => []LoopInv
<1>1. LoopInv /\ [Next]_vars => LoopInv'
  <2> SUFFICES ASSUME LoopInv, [Next]_vars PROVE LoopInv' OBVIOUS
  <2>1. CASE CompareNext BY <2>1, CompareNextKeeps
  <2>2. CASE FilterWinners BY <2>2, FilterWinnersKeeps
  <2>3. CASE PayNext BY <2>3, PayNextKeeps
  <2>4. CASE UNCHANGED vars
    <3>1. Dealt' /\ Payout' = Payout /\ (\A s \in Holders : Strength(s)' = Strength(s))
          /\ (\A s \in Holders : Evaluation(s)' = Evaluation(s) /\ Value(s)' = Value(s))
      BY <2>4, SameDeal DEF vars
    <3>2. Compared' BY <2>4, <3>1 DEF LoopInv, Compared, vars
    <3>3. Chosen'
      <4>1. [s \in Holders |-> Value(s)]' = [s \in Holders |-> Value(s)] BY <3>1
      <4> QED BY <2>4, <4>1 DEF LoopInv, Chosen, vars
    <3>4. Shared' BY <2>4, <3>1 DEF LoopInv, Shared, vars
    <3> QED BY <3>1, <3>2, <3>3, <3>4 DEF LoopInv
  <2> QED BY <2>1, <2>2, <2>3, <2>4 DEF Next
<1> QED BY <1>1, LoopInit, PTL DEF Spec

(* The loops pay what the closed form of the rooms pays, for every deal.   *)
THEOREM LoopPaysClosedForm == Spec => []PaysClosedForm
<1>1. LoopInv => PaysClosedForm
  <2> SUFFICES ASSUME LoopInv, Paid PROVE PaysClosedForm BY DEF PaysClosedForm
  <2> DEFINE chosen == ResolveHandWinners(Holders, [s \in Holders |-> Value(s)], mano)
             shares == SplitAmount(Payout, winners)
  <2>1. winners # {} /\ unpaid = {} /\ winners = chosen BY DEF Paid, LoopInv, Chosen
  <2>2. winners \in SUBSET Holders BY <2>1 DEF ResolveHandWinners
  <2>3. paid = [s \in Holders |-> IF s \in winners THEN shares[s] ELSE 0]
    BY <2>1 DEF LoopInv, Shared
  <2>4. Payout \in Nat BY PayoutIsPositive DEF LoopInv
  <2>5. winners \in SUBSET Nat /\ IsFiniteSet(winners)
    BY <2>2, ShowdownAssumption, FS_Subset
  <2>6. SumFunctionOnSet(shares, winners) = Payout BY <2>1, <2>4, <2>5, SharesAddUp
  <2>7. \A s \in winners : shares[s] \in Int
    <3>1. Cardinality(winners) \in Nat \ {0} BY <2>1, <2>5, FS_CardinalityType, FS_EmptySet
    <3>2. Payout \div Cardinality(winners) \in Nat BY <2>4, <3>1, Division
    <3> QED BY <3>2 DEF SplitAmount
  <2> HIDE DEF shares, chosen
  <2>8. SumFunctionOnSet(paid, Holders) = SumFunctionOnSet(paid, winners)
    <3>1. (\A s \in Holders : paid[s] \in Int) /\ \A s \in Holders \ winners : paid[s] = 0
      BY <2>3, <2>7
    <3> QED BY <2>2, <3>1, SumOfPart, ShowdownAssumption
  <2>9. SumFunctionOnSet(shares, winners) = SumFunctionOnSet(paid, winners)
    <3>1. \A s \in winners : shares[s] = paid[s] /\ shares[s] \in Int BY <2>2, <2>3, <2>7
    <3> QED BY <2>5, <3>1, SumSame
  <2> USE DEF shares, chosen
  <2> QED BY <2>1, <2>3, <2>6, <2>8, <2>9 DEF PaysClosedForm
<1> QED BY <1>1, LoopInvHolds, PTL

(* Two who share get less than the whole.                                  *)
LEMMA ShareIsLess ==
    ASSUME NEW a \in Nat, a >= 2, NEW n \in Nat, n >= 2, NEW k \in Nat
    PROVE  (a \div n) + (IF k < a % n THEN 1 ELSE 0) < a
<1> DEFINE q == a \div n
           m == a % n
<1>1. q \in Nat /\ m \in Nat /\ m < n /\ a = q * n + m BY Division
<1> HIDE DEF q, m
<1>2. q * n >= q * 2
  <2>1. \A i, j \in Nat : i * (j + 2) = i * 2 + i * j /\ i * j \in Nat OBVIOUS
  <2>2. n - 2 \in Nat /\ n = (n - 2) + 2 OBVIOUS
  <2>3. q * ((n - 2) + 2) = q * 2 + q * (n - 2) /\ q * (n - 2) \in Nat BY <1>1, <2>1, <2>2
  <2> QED BY <1>1, <2>2, <2>3
<1>3. q * n \in Nat BY <1>1
<1>4. q + (IF k < m THEN 1 ELSE 0) < a
  <2>1. CASE q = 0 BY <1>1, <2>1
  <2>2. CASE q > 0 BY <1>1, <1>2, <1>3, <2>2
  <2> QED BY <1>1, <2>1, <2>2
<1> QED BY <1>4 DEF q, m

(* La Mano decides ties and nothing more, for every deal.                  *)
THEOREM ManoOnlyDecidesTies == Spec => []ManoDecidesTies
<1>1. LoopInv => ManoDecidesTies
  <2> SUFFICES ASSUME LoopInv, Paid, mano \in Holders PROVE ManoDecidesTies
    BY DEF ManoDecidesTies
  <2> DEFINE values == {Value(s) : s \in Holders}
             top == Max(values)
  <2>1. \A s \in Holders : Value(s) \in Int
    <3>1. ASSUME NEW s \in Holders PROVE Value(s) \in Int
      <4>1. hands[s] \in SUBSET ((1..7) \X Suit) BY ShowdownAssumption DEF LoopInv, Dealt
      <4>2. IsFiniteSet(hands[s]) /\ Cardinality(hands[s]) <= 4 BY DEF LoopInv, Dealt
      <4> QED BY <4>1, <4>2, EvaluationIs DEF Value
    <3> QED BY <3>1
  <2>2. (\E s \in Holders : Value(s) = top) /\ \A s \in Holders : Value(s) <= top
    <3>1. IsFiniteSet(values)
      <4> DEFINE f == [s \in Holders |-> Value(s)]
      <4>1. f \in Surjection(Holders, values) BY DEF Surjection
      <4> HIDE DEF f, values
      <4> QED BY <4>1, FS_Surjection, ShowdownAssumption
    <3>2. values \in SUBSET Int /\ values # {} BY <2>1, ShowdownAssumption
    <3> HIDE DEF values
    <3>3. Max(values) \in values /\ \A x \in values : x <= Max(values)
      BY <3>1, <3>2, MaxIsGreatest
    <3> QED BY <3>3 DEF values
  <2> HIDE DEF top, values
  <2>3. top \in Int BY <2>1, <2>2
  <2>4. \A s \in Holders : Strength(s) = IF s = mano THEN Value(s) + 1 ELSE Value(s)
    BY DEF Strength, WithManoBonus
  <2>5. /\ winners # {} /\ unpaid = {}
        /\ winners = {s \in Holders : \A t \in Holders : Strength(s) >= Strength(t)}
    <3>1. winners = ResolveHandWinners(Holders, [s \in Holders |-> Value(s)], mano)
      BY DEF Paid, LoopInv, Chosen
    <3> QED BY <3>1 DEF Paid, ResolveHandWinners, Strength
  <2>6. \A s \in Holders : paid[s] = IF s \in winners THEN SplitAmount(Payout, winners)[s] ELSE 0
    BY <2>5 DEF LoopInv, Shared
  <2>7. Payout \in Nat /\ Payout >= 2 BY PayoutIsPositive DEF LoopInv
  <2>8. IsFiniteSet(winners) BY <2>5, ShowdownAssumption, FS_Subset
  <2>9. PICK t \in Holders : Value(t) = top BY <2>2
  <2>10. CASE Value(mano) = top
    <3>1. winners = {mano}
      <4>1. Strength(mano) = top + 1 BY <2>4, <2>10
      <4>2. \A s \in Holders \ {mano} : Strength(s) \in Int /\ Strength(s) <= top
        BY <2>1, <2>2, <2>4
      <4>3. mano \in winners BY <2>3, <2>5, <4>1, <4>2
      <4>4. \A s \in winners : Strength(s) >= top + 1 BY <2>5, <4>1
      <4>5. \A s \in winners : s = mano BY <2>3, <2>5, <4>2, <4>4
      <4> QED BY <4>3, <4>5
    <3>2. Cardinality(winners) = 1 BY <3>1, FS_Singleton
    <3>3. SplitAmount(Payout, winners)[mano] = Payout
      <4>1. Payout \div 1 = Payout /\ Payout % 1 = 0 BY <2>7
      <4>2. {q \in winners : q < mano} = {}
        <5>1. mano \in Nat BY ShowdownAssumption
        <5> QED BY <3>1, <5>1
      <4>3. Cardinality({q \in winners : q < mano}) = 0 BY <4>2, FS_EmptySet
      <4> QED BY <2>7, <3>1, <3>2, <4>1, <4>3 DEF SplitAmount
    <3>4. paid[mano] = Payout BY <2>6, <3>1, <3>3
    <3> QED BY <2>10, <3>4 DEF ManoDecidesTies, top, values
  <2>11. CASE Value(mano) = top - 1
    <3>1. t # mano /\ Strength(t) = top /\ Strength(mano) = top
      BY <2>3, <2>4, <2>9, <2>11
    <3>2. \A s \in Holders \ {mano} : Strength(s) = Value(s) BY <2>4
    <3>3. mano \in winners /\ t \in winners BY <2>1, <2>2, <2>3, <2>5, <3>1, <3>2
    <3>4. \A s \in winners : s = mano \/ Value(s) = top
      <4> SUFFICES ASSUME NEW s \in winners, s # mano PROVE Value(s) = top OBVIOUS
      <4>1. Value(s) >= top BY <2>5, <3>1, <3>2
      <4>2. Value(s) \in Int /\ Value(s) <= top BY <2>1, <2>2, <2>5
      <4> QED BY <2>3, <4>1, <4>2
    <3>5. Cardinality(winners) \in Nat /\ Cardinality(winners) >= 2
      <4>1. {mano, t} \in SUBSET winners BY <3>3
      <4>2. Cardinality({mano, t}) = 2
        <5>1. {mano, t} = {mano} \cup {t} /\ t \notin {mano} BY <3>1
        <5>2. IsFiniteSet({mano}) /\ Cardinality({mano}) = 1 BY FS_Singleton
        <5>3. Cardinality({mano} \cup {t}) = Cardinality({mano}) + 1
          BY <5>1, <5>2, FS_AddElement
        <5> QED BY <5>1, <5>2, <5>3
      <4> QED BY <2>8, <4>1, <4>2, FS_Subset, FS_CardinalityType
    <3>6. paid[mano] < Payout
      <4> DEFINE k == Cardinality({q \in winners : q < mano})
      <4>1. k \in Nat BY <2>8, FS_Subset, FS_CardinalityType
      <4>2. paid[mano] = (Payout \div Cardinality(winners))
                           + (IF k < Payout % Cardinality(winners) THEN 1 ELSE 0)
        BY <2>6, <3>3 DEF SplitAmount
      <4> HIDE DEF k
      <4> QED BY <2>7, <3>5, <4>1, <4>2, ShareIsLess
    <3>7. \A s \in Holders : paid[s] > 0 => s = mano \/ Value(s) = top BY <2>6, <3>4
    <3> QED BY <2>11, <3>6, <3>7 DEF ManoDecidesTies, top, values
  <2>12. CASE Value(mano) < top - 1
    <3>1. t # mano /\ Strength(t) = top /\ Strength(mano) = Value(mano) + 1
      BY <2>1, <2>3, <2>4, <2>9, <2>12
    <3>2. mano \notin winners
      <4>1. ~(Strength(mano) >= Strength(t)) BY <2>1, <2>3, <2>12, <3>1
      <4> QED BY <2>5, <4>1
    <3> QED BY <2>6, <2>12, <3>2 DEF ManoDecidesTies, top, values
  <2>13. Value(mano) = top \/ Value(mano) = top - 1 \/ Value(mano) < top - 1
    BY <2>1, <2>2, <2>3
  <2> QED BY <2>10, <2>11, <2>12, <2>13
<1> QED BY <1>1, LoopInvHolds, PTL

-----------------------------------------------------------------------------
(* calculateSidePots.                                                      *)

CONSTANTS Players, Stakes, Extra
VARIABLES stake, competitors, pot, levels, prevLevel, pots, returned

SidePotLoop == INSTANCE PotManager

(* A finite table, and amounts that are natural numbers.                   *)
TableAmounts == IsFiniteSet(Players) /\ Stakes \subseteq Nat /\ Extra \subseteq Nat

All == SidePotLoop!Levels(Players, stake)
LayerAt(l) ==
    SidePotLoop!Layer(Players, stake, SidePotLoop!Below(l, All), l, competitors)
LayersAt(S) == {LayerAt(l) : l \in S}
Pot == [level : Int, amount : Int, eligible : SUBSET Players]

(* The levels visited are the lowest ones, and their pots are pushed.      *)
SidePotInv ==
    /\ stake \in [Players -> Nat] /\ pot \in Int /\ competitors \in SUBSET Players
    /\ levels \in SUBSET All
    /\ \A l \in levels, m \in All \ levels : m < l
    /\ prevLevel = Max((All \ levels) \cup {0})
    /\ pots \in Seq(Pot)
    /\ ~returned => SidePotLoop!Range(pots) = LayersAt(All \ levels)
    /\ returned => levels = {} /\ SidePotLoop!ReturnsSidePots

LEMMA SameMaxMin == \A S : SidePotLoop!Max(S) = Max(S) /\ SidePotLoop!Min(S) = Min(S)
BY DEF SidePotLoop!Max, SidePotLoop!Min, Max, Min

LEMMA SameSum == \A f, S : SidePotLoop!SumFunctionOnSet(f, S) = SumFunctionOnSet(f, S)
BY DEF SidePotLoop!SumFunctionOnSet, SumFunctionOnSet, SidePotLoop!FoldFunctionOnSet,
       FoldFunctionOnSet, SidePotLoop!MapThenFoldSet, MapThenFoldSet

LEMMA SameCardinality == \A S : SidePotLoop!Cardinality(S) = Cardinality(S)
BY DEF SidePotLoop!Cardinality, Cardinality

LEMMA MaxIs ==
    ASSUME NEW S \in SUBSET Int, NEW m \in S, \A x \in S : x <= m
    PROVE  Max(S) = m
<1>1. \A k \in S : (\A x \in S : k >= x) => k = m
  <2> SUFFICES ASSUME NEW k \in S, \A x \in S : k >= x PROVE k = m OBVIOUS
  <2>1. k >= m /\ k <= m /\ k \in Int /\ m \in Int OBVIOUS
  <2> QED BY <2>1
<1>2. \A x \in S : m >= x OBVIOUS
<1> QED BY <1>1, <1>2 DEF Max

LEMMA RangeAppend ==
    ASSUME NEW T, NEW s \in Seq(T), NEW e \in T
    PROVE  SidePotLoop!Range(Append(s, e)) = SidePotLoop!Range(s) \cup {e}
<1> DEFINE a == Append(s, e)
<1>1. /\ Len(s) \in Nat /\ DOMAIN s = 1..Len(s) /\ DOMAIN a = 1..(Len(s) + 1)
      /\ a[Len(s) + 1] = e /\ \A i \in 1..Len(s) : a[i] = s[i]
  OBVIOUS
<1> HIDE DEF a
<1>2. 1..(Len(s) + 1) = (1..Len(s)) \cup {Len(s) + 1} BY <1>1
<1>3. {a[i] : i \in DOMAIN a} = {s[i] : i \in DOMAIN s} \cup {e} BY <1>1, <1>2
<1> QED BY <1>3 DEF a, SidePotLoop!Range

(* There are finitely many levels, all of them stakes.                     *)
LEMMA LevelsAre ==
    ASSUME TableAmounts, stake \in [Players -> Nat]
    PROVE  /\ IsFiniteSet(All) /\ All \in SUBSET (Nat \ {0})
           /\ \A l \in All : \E s \in Players : stake[s] = l
<1> DEFINE D == {t \in Players : stake[t] > 0}
           f == [s \in D |-> stake[s]]
<1>1. All = {stake[s] : s \in D} BY DEF All, SidePotLoop!Levels
<1>2. IsFiniteSet(D) BY FS_Subset DEF TableAmounts
<1>3. f \in Surjection(D, All) BY <1>1 DEF Surjection
<1>4. \A s \in D : stake[s] \in Nat \ {0} OBVIOUS
<1> HIDE DEF f
<1>5. IsFiniteSet(All) BY <1>2, <1>3, FS_Surjection
<1> QED BY <1>1, <1>4, <1>5

(* A layer of chips is not empty.                                          *)
LEMMA LayersArePots ==
    ASSUME TableAmounts, stake \in [Players -> Nat], competitors \in SUBSET Players,
           NEW l \in All, NEW prev \in Nat, prev < l
    PROVE  LET layer == SidePotLoop!Layer(Players, stake, prev, l, competitors)
           IN  layer \in Pot /\ layer.amount > 0
<1> DEFINE R == SidePotLoop!Reached(Players, stake, l)
           layer == SidePotLoop!Layer(Players, stake, prev, l, competitors)
<1>1. l \in Nat /\ \E s \in Players : stake[s] = l BY LevelsAre
<1>2. R \in SUBSET Players /\ R # {} BY <1>1 DEF SidePotLoop!Reached
<1>3. IsFiniteSet(R) BY <1>2, FS_Subset DEF TableAmounts
<1>4. Cardinality(R) \in Nat \ {0} BY <1>2, <1>3, FS_CardinalityType, FS_EmptySet
<1>5. /\ layer.level = l /\ layer.amount = (l - prev) * Cardinality(R)
      /\ layer = [level |-> layer.level, amount |-> layer.amount, eligible |-> layer.eligible]
      /\ layer.eligible \in SUBSET Players
  BY SameCardinality DEF SidePotLoop!Layer, SidePotLoop!EligibleFor
<1> HIDE DEF R, layer
<1>6. l - prev \in Nat \ {0} BY <1>1
<1>7. (l - prev) * Cardinality(R) \in Nat \ {0}
  <2>1. \A i, j \in Nat \ {0} : i * j \in Nat \ {0} OBVIOUS
  <2> QED BY <1>4, <1>6, <2>1
<1>8. layer \in Pot /\ layer.amount > 0 BY <1>1, <1>5, <1>7 DEF Pot
<1> QED BY <1>8 DEF layer

LEMMA SidePotInit == TableAmounts /\ SidePotLoop!Init => SidePotInv
<1> SUFFICES ASSUME TableAmounts, SidePotLoop!Init PROVE SidePotInv OBVIOUS
<1>1. /\ stake \in [Players -> Nat] /\ competitors \in SUBSET Players
      /\ levels = All /\ prevLevel = 0 /\ pots = <<>> /\ ~returned
  BY DEF SidePotLoop!Init, All, TableAmounts
<1>2. pot \in Int
  <2>1. PICK extra \in Extra : pot = SumFunctionOnSet(stake, Players) + extra
    BY SameSum DEF SidePotLoop!Init
  <2>2. \A s \in Players : stake[s] \in Int BY <1>1
  <2>3. SumFunctionOnSet(stake, Players) \in Int BY <2>2, SumType DEF TableAmounts
  <2> QED BY <2>1, <2>3 DEF TableAmounts
<1>3. Max({0}) = 0 BY MaxIs
<1>4. (All \ levels) \cup {0} = {0} BY <1>1
<1>5. SidePotLoop!Range(<<>>) = {} BY DEF SidePotLoop!Range
<1>6. LayersAt(All \ levels) = {} BY <1>1 DEF LayersAt
<1>7. pots \in Seq(Pot) BY <1>1
<1> QED BY <1>1, <1>2, <1>3, <1>4, <1>5, <1>6, <1>7 DEF SidePotInv

LEMMA NextLevelKeeps ==
    ASSUME TableAmounts, SidePotInv, SidePotLoop!NextLevel PROVE SidePotInv'
<1> DEFINE visited == All \ levels
           l0 == Min(levels)
           layer == SidePotLoop!Layer(Players, stake, prevLevel, l0, competitors)
<1>1. /\ stake \in [Players -> Nat] /\ levels \in SUBSET All /\ competitors \in SUBSET Players
      /\ All \in SUBSET (Nat \ {0}) /\ IsFiniteSet(All)
  BY LevelsAre DEF SidePotInv
<1>2. /\ levels # {} /\ levels' = levels \ {l0} /\ prevLevel' = l0
      /\ pots' = IF layer.amount > 0 THEN Append(pots, layer) ELSE pots
      /\ UNCHANGED <<stake, competitors, pot, returned>>
  BY SameMaxMin DEF SidePotLoop!NextLevel, SidePotLoop!Visit
<1>3. All' = All BY <1>2 DEF All
<1>4. l0 \in levels /\ \A l \in levels : l0 <= l
  <2>1. levels \in SUBSET Nat BY <1>1
  <2> QED BY <1>2, <2>1, MinIsLeast
<1> HIDE DEF l0
<1>5. \A m \in visited : m < l0 BY <1>4 DEF SidePotInv
<1>6. {l \in All : l < l0} = visited
  <2>1. \A l \in levels : ~(l < l0) BY <1>1, <1>4
  <2> QED BY <1>1, <1>5, <2>1
<1>7. SidePotLoop!Below(l0, All) = prevLevel
  BY <1>6, SameMaxMin DEF SidePotInv, SidePotLoop!Below
<1>8. prevLevel \in Nat /\ prevLevel < l0
  <2>1. visited \cup {0} \in SUBSET Int BY <1>1
  <2>2. IsFiniteSet(visited \cup {0})
    <3>1. IsFiniteSet(visited) BY <1>1, FS_Subset
    <3> QED BY <3>1, FS_AddElement
  <2>3. prevLevel \in visited \cup {0} BY <2>1, <2>2, MaxIsGreatest DEF SidePotInv
  <2>4. l0 \in Nat \ {0} BY <1>1, <1>4
  <2> QED BY <1>1, <1>5, <2>3, <2>4
<1>9. layer = LayerAt(l0) BY <1>7 DEF LayerAt
<1>10. layer \in Pot /\ layer.amount > 0 BY <1>1, <1>4, <1>8, LayersArePots
<1>11. All' \ levels' = visited \cup {l0} BY <1>1, <1>2, <1>3, <1>4
<1> HIDE DEF layer
<1>12. ~returned /\ pots' \in Seq(Pot) /\ SidePotLoop!Range(pots)' = LayersAt(All \ levels)'
  <2>1. ~returned BY <1>2 DEF SidePotInv
  <2>2. pots' = Append(pots, layer) BY <1>2, <1>10
  <2>3. pots \in Seq(Pot) BY DEF SidePotInv
  <2>4. SidePotLoop!Range(pots)' = SidePotLoop!Range(pots) \cup {layer}
    <3>1. SidePotLoop!Range(Append(pots, layer)) = SidePotLoop!Range(pots) \cup {layer}
      BY <1>10, <2>3, RangeAppend
    <3> QED BY <2>2, <3>1 DEF SidePotLoop!Range
  <2>5. SidePotLoop!Range(pots) = {LayerAt(l) : l \in visited}
    BY <2>1 DEF SidePotInv, LayersAt
  <2>6. \A l : LayerAt(l)' = LayerAt(l)
    BY <1>2, <1>3 DEF LayerAt, SidePotLoop!Layer, SidePotLoop!Below, SidePotLoop!Reached,
                      SidePotLoop!EligibleFor
  <2>7. LayersAt(All \ levels)' = {LayerAt(l) : l \in visited \cup {l0}}
    BY <1>11, <2>6 DEF LayersAt
  <2> QED BY <1>9, <1>10, <2>1, <2>2, <2>3, <2>4, <2>5, <2>7
<1>13. prevLevel' = Max((All' \ levels') \cup {0})
  <2> DEFINE S == (visited \cup {l0}) \cup {0}
  <2>1. l0 \in Nat /\ S \in SUBSET Int /\ l0 \in S BY <1>1, <1>4
  <2>2. \A x \in S : x <= l0
    <3>1. \A x \in visited : x \in Nat /\ x < l0 BY <1>1, <1>5
    <3> QED BY <2>1, <3>1
  <2> HIDE DEF S
  <2>3. Max(S) = l0 BY <2>1, <2>2, MaxIs
  <2>4. (All' \ levels') \cup {0} = S BY <1>11 DEF S
  <2> QED BY <1>2, <2>3, <2>4
<1>14. \A l \in levels', m \in All' \ levels' : m < l
  <2> SUFFICES ASSUME NEW l \in levels', NEW m \in visited \cup {l0} PROVE m < l BY <1>11
  <2>1. l \in levels /\ l # l0 /\ l \in Nat /\ l0 \in Nat BY <1>1, <1>2, <1>4
  <2>2. l0 < l BY <1>4, <2>1
  <2>3. CASE m = l0 BY <2>2, <2>3
  <2>4. CASE m \in visited BY <2>1, <2>4 DEF SidePotInv
  <2> QED BY <2>3, <2>4
<1>15. /\ stake' \in [Players -> Nat] /\ pot' \in Int /\ competitors' \in SUBSET Players
       /\ levels' \in SUBSET All' /\ ~returned'
  BY <1>2, <1>3, <1>12 DEF SidePotInv
<1> QED BY <1>12, <1>13, <1>14, <1>15 DEF SidePotInv

LEMMA AddRestKeeps ==
    ASSUME TableAmounts, SidePotInv, SidePotLoop!AddRest PROVE SidePotInv'
<1> DEFINE layers == LayersAt(All)
           total == SidePotLoop!Total(layers)
           highest == Max(All \cup {0})
           rest == [level |-> highest + 1, amount |-> pot - total, eligible |-> competitors]
<1>1. /\ stake \in [Players -> Nat] /\ competitors \in SUBSET Players /\ pot \in Int
      /\ pots \in Seq(Pot)
      /\ All \in SUBSET (Nat \ {0}) /\ IsFiniteSet(All)
  BY LevelsAre DEF SidePotInv
<1>2. levels = {} /\ ~returned /\ levels' = {} /\ returned'
      /\ UNCHANGED <<stake, competitors, pot, prevLevel>>
  BY DEF SidePotLoop!AddRest
<1>3. SidePotLoop!Range(pots) = layers /\ prevLevel = highest
  <2>1. All \ levels = All BY <1>2
  <2> QED BY <1>2, <2>1 DEF SidePotInv
<1>4. All' = All BY <1>2 DEF All
<1>5. highest \in Int /\ total \in Int
  <2>1. highest \in Int
    <3>1. All \cup {0} \in SUBSET Int BY <1>1
    <3>2. IsFiniteSet(All \cup {0}) BY <1>1, FS_AddElement
    <3>3. highest \in All \cup {0} BY <3>1, <3>2, MaxIsGreatest
    <3> QED BY <3>1, <3>3
  <2>2. IsFiniteSet(layers)
    <3> DEFINE f == [l \in All |-> LayerAt(l)]
    <3>1. f \in Surjection(All, layers) BY DEF Surjection, LayersAt
    <3> HIDE DEF f, layers
    <3> QED BY <1>1, <3>1, FS_Surjection
  <2>3. layers \in SUBSET Pot
    <3>1. layers = {pots[i] : i \in DOMAIN pots} BY <1>3 DEF SidePotLoop!Range
    <3>2. \A i \in DOMAIN pots : pots[i] \in Pot BY <1>1
    <3> HIDE DEF layers
    <3> QED BY <3>1, <3>2
  <2> DEFINE amounts == [p \in layers |-> p.amount]
  <2> HIDE DEF layers
  <2>4. \A p \in layers : amounts[p] \in Int BY <2>3 DEF Pot
  <2>5. SumFunctionOnSet(amounts, layers) \in Int BY <2>2, <2>4, SumType
  <2>6. total = SumFunctionOnSet(amounts, layers) BY SameSum DEF SidePotLoop!Total
  <2> QED BY <2>1, <2>5, <2>6
<1> HIDE DEF layers, total, highest
<1>6. pots' = IF pot > total /\ competitors # {} THEN Append(pots, rest) ELSE pots
  <2>1. pots' = IF pot - total > 0 /\ competitors # {} THEN Append(pots, rest) ELSE pots
    BY <1>3 DEF SidePotLoop!AddRest, total
  <2>2. pot > total <=> pot - total > 0 BY <1>1, <1>5
  <2> QED BY <2>1, <2>2
<1>7. rest \in Pot BY <1>1, <1>5 DEF Pot
<1>8. SidePotLoop!SidePots(Players, stake, pot, competitors)
        = layers \cup IF pot > total /\ competitors # {} THEN {rest} ELSE {}
  BY SameMaxMin DEF SidePotLoop!SidePots, layers, LayersAt, LayerAt, All, total, highest
<1> HIDE DEF rest
<1>9. SidePotLoop!Range(Append(pots, rest)) = layers \cup {rest}
  BY <1>1, <1>3, <1>7, RangeAppend
<1>10. SidePotLoop!Range(pots') = SidePotLoop!SidePots(Players, stake, pot, competitors)
  BY <1>3, <1>6, <1>8, <1>9
<1>11. pots' \in Seq(Pot) BY <1>1, <1>6, <1>7
<1>12. SidePotLoop!ReturnsSidePots'
  BY <1>2, <1>10 DEF SidePotLoop!ReturnsSidePots, SidePotLoop!SidePots, SidePotLoop!Range
<1>13. prevLevel' = Max((All' \ levels') \cup {0})
  BY <1>2, <1>3, <1>4 DEF highest
<1> QED BY <1>1, <1>2, <1>4, <1>11, <1>12, <1>13 DEF SidePotInv

(* calculateSidePots and the pot its caller adds are the closed form that  *)
(* the rooms of MainPot and FourCards use, for every table and all stakes: *)
(* one pot per level, in the order of the levels, and the unexplained rest *)
(* for everybody still in the hand.                                        *)
THEOREM SidePotsAreComputed ==
    ASSUME TableAmounts PROVE SidePotLoop!Spec => []SidePotLoop!ReturnsSidePots
<1>1. SidePotLoop!Init => SidePotInv BY SidePotInit
<1>2. SidePotInv /\ [SidePotLoop!Next]_(SidePotLoop!vars) => SidePotInv'
  <2> SUFFICES ASSUME SidePotInv, [SidePotLoop!Next]_(SidePotLoop!vars) PROVE SidePotInv'
    OBVIOUS
  <2>1. CASE SidePotLoop!NextLevel BY <2>1, NextLevelKeeps
  <2>2. CASE SidePotLoop!AddRest BY <2>2, AddRestKeeps
  <2>3. CASE UNCHANGED SidePotLoop!vars
    <3>1. UNCHANGED <<stake, competitors, pot, levels, prevLevel, pots, returned>>
      BY <2>3 DEF SidePotLoop!vars
    <3>2. All' = All BY <3>1 DEF All
    <3>3. \A l : LayerAt(l)' = LayerAt(l) BY <3>1, <3>2 DEF LayerAt
    <3>4. LayersAt(All \ levels)' = LayersAt(All \ levels) BY <3>1, <3>2, <3>3 DEF LayersAt
    <3>5. SidePotLoop!ReturnsSidePots' = SidePotLoop!ReturnsSidePots
      BY <3>1 DEF SidePotLoop!ReturnsSidePots
    <3>6. SidePotLoop!Range(pots)' = SidePotLoop!Range(pots) BY <3>1
    <3> HIDE DEF LayersAt, LayerAt, All
    <3> QED BY <3>1, <3>2, <3>4, <3>5, <3>6 DEF SidePotInv
  <2> QED BY <2>1, <2>2, <2>3 DEF SidePotLoop!Next
<1>3. SidePotInv => SidePotLoop!ReturnsSidePots
  BY DEF SidePotInv, SidePotLoop!ReturnsSidePots
<1> QED BY <1>1, <1>2, <1>3, PTL DEF SidePotLoop!Spec
=============================================================================
