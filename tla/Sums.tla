-------------------------------- MODULE Sums --------------------------------
(***************************************************************************)
(* Sums over a finite set.  The amounts of a table are functions on seats, *)
(* and what the table holds is SumFunctionOnSet(amounts, seats) of module  *)
(* Functions: a recursive function over the subsets of its argument that   *)
(* removes a chosen element at every step.  The lemmas say that there is   *)
(* such a function, and from it everything the modules need: a sum does    *)
(* not depend on the order, changes with one summand by what that changes, *)
(* adds up with another sum and is not lowered by raising its summands.    *)
(*                                                                         *)
(* Induction is over SETS of subsets ("all those with the property"), and  *)
(* rests on the least element of a set of natural numbers.                 *)
(***************************************************************************)
EXTENDS FiniteSets, Integers, FiniteSetsExt, Functions, TLAPS, WellFoundedInduction,
        FiniteSetTheorems

-----------------------------------------------------------------------------
(* Induction.                                                              *)

(* Every non-empty set of natural numbers has a least element.             *)
LEMMA LeastExists ==
    ASSUME NEW T \in SUBSET Nat, T # {}
    PROVE  \E m \in T : \A n \in T : m <= n
<1> DEFINE R == OpToRel(<, Nat)
<1>1. IsWellFoundedOn(R, Nat) BY NatLessThanWellFounded
<1>2. \A y, z \in Nat : y < z => <<y, z>> \in R BY Zenon DEF OpToRel
<1> HIDE DEF R
<1>3. PICK m \in T : \A y \in Nat : <<y, m>> \in R => ~(y \in T) BY <1>1, WFMin
<1>4. ASSUME NEW n \in T PROVE m <= n
  <2>1. n \in Nat /\ m \in Nat OBVIOUS
  <2>2. ~(n < m) BY <2>1, <1>2, <1>3
  <2> QED BY <2>1, <2>2
<1> QED BY <1>4

LEMMA MinIsLeast ==
    ASSUME NEW S \in SUBSET Nat, S # {}
    PROVE  Min(S) \in S /\ \A x \in S : Min(S) <= x
<1>1. \E m \in S : \A x \in S : m <= x BY LeastExists
<1> QED BY <1>1 DEF Min

(* Of some places one is the nearest.                                      *)
LEMMA NearestExists ==
    ASSUME NEW C, C # {}, NEW d \in [C -> Nat]
    PROVE  \E s \in C : \A t \in C : d[s] <= d[t]
<1> DEFINE T == {d[s] : s \in C}
<1>1. T \in SUBSET Nat /\ T # {} OBVIOUS
<1> HIDE DEF T
<1>2. PICK m \in T : \A n \in T : m <= n BY <1>1, LeastExists
<1> QED BY <1>2 DEF T

(* Among some subsets of a finite set one has the fewest elements.         *)
LEMMA SmallestExists ==
    ASSUME NEW S, IsFiniteSet(S), NEW D \in SUBSET (SUBSET S), D # {}
    PROVE  \E A \in D : \A B \in D : Cardinality(A) <= Cardinality(B)
<1> DEFINE T == {Cardinality(A) : A \in D}
<1>1. T \in SUBSET Nat /\ T # {}
  <2>1. \A A \in D : Cardinality(A) \in Nat BY FS_Subset, FS_CardinalityType
  <2> QED BY <2>1
<1> HIDE DEF T
<1>2. PICK m \in T : \A n \in T : m <= n BY <1>1, LeastExists
<1> USE DEF T
<1> QED BY <1>2

(* An element less is one less.                                            *)
LEMMA OneLess ==
    ASSUME NEW S, IsFiniteSet(S), NEW x \in S
    PROVE  /\ IsFiniteSet(S \ {x})
           /\ Cardinality(S) \in Nat /\ Cardinality(S \ {x}) \in Nat
           /\ Cardinality(S \ {x}) = Cardinality(S) - 1
           /\ Cardinality(S \ {x}) < Cardinality(S)
<1>1. /\ IsFiniteSet(S \ {x}) /\ Cardinality(S \ {x}) = Cardinality(S) - 1
  BY FS_RemoveElement
<1>2. Cardinality(S) \in Nat /\ Cardinality(S \ {x}) \in Nat BY <1>1, FS_CardinalityType
<1> QED BY <1>1, <1>2

(* What holds of the empty set, and of a set with one element more than    *)
(* one it holds of, holds of every finite set.                             *)
LEMMA SetInduction ==
    ASSUME NEW S, IsFiniteSet(S), NEW D \in SUBSET (SUBSET S), {} \in D,
           \A T \in D : \A x \in S \ T : T \cup {x} \in D
    PROVE  S \in D
<1> SUFFICES ASSUME S \notin D PROVE FALSE OBVIOUS
<1> DEFINE E == (SUBSET S) \ D
<1>1. PICK A \in E : \A B \in E : Cardinality(A) <= Cardinality(B)
  <2>1. E \in SUBSET (SUBSET S) /\ E # {} OBVIOUS
  <2> HIDE DEF E
  <2> QED BY <2>1, SmallestExists
<1>2. PICK x \in A : TRUE OBVIOUS
<1>3. IsFiniteSet(A) BY FS_Subset
<1>4. /\ Cardinality(A) \in Nat /\ Cardinality(A \ {x}) \in Nat
      /\ Cardinality(A \ {x}) < Cardinality(A)
  BY <1>3, OneLess
<1>5. A \ {x} \notin E
  <2>1. A \ {x} \in E => Cardinality(A) <= Cardinality(A \ {x}) BY <1>1
  <2> QED BY <2>1, <1>4
<1>6. A \ {x} \in D BY <1>5
<1>7. x \in S \ (A \ {x}) /\ (A \ {x}) \cup {x} = A OBVIOUS
<1>8. A \in D BY <1>6, <1>7
<1> QED BY <1>8

(* A finite set of integers has a greatest element.                        *)
LEMMA MaxIsGreatest ==
    ASSUME NEW S \in SUBSET Int, IsFiniteSet(S), S # {}
    PROVE  Max(S) \in S /\ \A x \in S : x <= Max(S)
<1> DEFINE D == {T \in SUBSET S : T = {} \/ \E m \in T : \A x \in T : x <= m}
<1>1. {} \in D OBVIOUS
<1>2. ASSUME NEW T \in D, NEW y \in S \ T PROVE T \cup {y} \in D
  <2>1. CASE T = {} BY <2>1
  <2>2. CASE \E m \in T : \A x \in T : x <= m
    <3>1. PICK m \in T : \A x \in T : x <= m BY <2>2
    <3>2. y <= m \/ m <= y OBVIOUS
    <3>3. CASE y <= m BY <3>1, <3>3
    <3>4. CASE m <= y
      <4>1. \A x \in T \cup {y} : x <= y BY <3>1, <3>4
      <4> QED BY <4>1
    <3> QED BY <3>2, <3>3, <3>4
  <2> QED BY <2>1, <2>2
<1> HIDE DEF D
<1>3. S \in D BY <1>1, <1>2, SetInduction DEF D
<1>4. \E m \in S : \A x \in S : m >= x BY <1>3 DEF D
<1> QED BY <1>4 DEF Max

-----------------------------------------------------------------------------
(* The recursive function of a sum.                                        *)

Some(s) == CHOOSE x \in s : TRUE

Adds(g, f, K) == g = [s \in K |-> IF s = {} THEN 0 ELSE f[Some(s)] + g[s \ {Some(s)}]]

LEMMA SomeIsIn == \A s : s # {} => Some(s) \in s
BY DEF Some

(* There is one over the subsets of every finite set ...                   *)
LEMMA SumExists ==
    ASSUME NEW f, NEW S, IsFiniteSet(S)
    PROVE  \E g : Adds(g, f, SUBSET S)
<1> DEFINE K(n) == {s \in SUBSET S : Cardinality(s) <= n}
           T == {n \in Nat : ~ \E g : Adds(g, f, K(n))}
<1>1. \A s \in SUBSET S : IsFiniteSet(s) /\ Cardinality(s) \in Nat
  BY FS_Subset, FS_CardinalityType
<1>2. T = {}
  <2> SUFFICES ASSUME T # {} PROVE FALSE OBVIOUS
  <2>1. PICK m \in T : \A n \in T : m <= n
    <3> HIDE DEF T
    <3>1. T \in SUBSET Nat BY DEF T
    <3> QED BY <3>1, LeastExists
  <2>2. m # 0
    <3> DEFINE g == [s \in {{}} |-> 0]
    <3>1. K(0) = {{}}
      <4>1. ASSUME NEW s \in K(0) PROVE s = {}
        <5>1. IsFiniteSet(s) /\ Cardinality(s) = 0 BY <1>1
        <5> QED BY <5>1, FS_EmptySet
      <4>2. {} \in K(0) BY FS_EmptySet
      <4> QED BY <4>1, <4>2
    <3>2. Adds(g, f, {{}}) BY DEF Adds
    <3> QED BY <3>1, <3>2
  <2>3. m - 1 \in Nat /\ m - 1 \notin T
    <3>1. m \in Nat OBVIOUS
    <3>2. m - 1 \in Nat /\ ~(m <= m - 1) BY <3>1, <2>2
    <3> HIDE DEF T
    <3> QED BY <3>2, <2>1
  <2>4. PICK g : Adds(g, f, K(m - 1)) BY <2>3
  <2> DEFINE h == [s \in K(m) |-> IF s = {} THEN 0 ELSE f[Some(s)] + g[s \ {Some(s)}]]
  <2>5. ASSUME NEW s \in K(m - 1) PROVE h[s] = g[s]
    <3>1. s \in K(m)
      <4>1. Cardinality(s) \in Nat /\ Cardinality(s) <= m - 1 /\ m \in Nat BY <1>1
      <4> QED BY <4>1
    <3> QED BY <3>1, <2>4 DEF Adds
  <2>6. ASSUME NEW s \in K(m), s # {} PROVE s \ {Some(s)} \in K(m - 1)
    <3>1. IsFiniteSet(s) /\ Some(s) \in s BY <1>1, <2>6, SomeIsIn
    <3>2. Cardinality(s \ {Some(s)}) = Cardinality(s) - 1 /\ Cardinality(s) \in Nat
      BY <3>1, OneLess
    <3> QED BY <3>2, <2>3
  <2>7. Adds(h, f, K(m)) BY <2>5, <2>6 DEF Adds
  <2> QED BY <2>7
<1>3. Cardinality(S) \in Nat BY FS_CardinalityType
<1>4. K(Cardinality(S)) = SUBSET S
  <2>1. \A s \in SUBSET S : Cardinality(s) <= Cardinality(S) BY FS_Subset
  <2> QED BY <2>1
<1> QED BY <1>2, <1>3, <1>4

(* ... and over the subsets of a smaller set it has the same values.       *)
LEMMA SumUnique ==
    ASSUME NEW f, NEW S, NEW T, NEW g, NEW h
    PROVE  IsFiniteSet(S) /\ T \in SUBSET S /\ Adds(g, f, SUBSET S) /\ Adds(h, f, SUBSET T)
             => g[T] = h[T]
<1> SUFFICES ASSUME IsFiniteSet(S), T \in SUBSET S,
                    Adds(g, f, SUBSET S), Adds(h, f, SUBSET T)
             PROVE  g[T] = h[T]
  OBVIOUS
<1> SUFFICES ASSUME {s \in SUBSET T : g[s] # h[s]} # {} PROVE FALSE OBVIOUS
<1> DEFINE D == {s \in SUBSET T : g[s] # h[s]}
<1>1. PICK A \in D : \A B \in D : Cardinality(A) <= Cardinality(B)
  <2>1. D \in SUBSET (SUBSET S) OBVIOUS
  <2> HIDE DEF D
  <2> QED BY <2>1, SmallestExists DEF D
<1>2. A # {} BY DEF Adds
<1>3. IsFiniteSet(A) /\ Some(A) \in A BY <1>2, FS_Subset, SomeIsIn
<1>4. Cardinality(A) \in Nat /\ Cardinality(A \ {Some(A)}) \in Nat
      /\ Cardinality(A \ {Some(A)}) < Cardinality(A)
  BY <1>3, OneLess
<1>5. A \ {Some(A)} \notin D
  <2>1. A \ {Some(A)} \in D => Cardinality(A) <= Cardinality(A \ {Some(A)}) BY <1>1
  <2> QED BY <2>1, <1>4
<1>6. A \ {Some(A)} \in SUBSET T /\ A \in SUBSET T /\ A \in SUBSET S
      /\ A \ {Some(A)} \in SUBSET S
  OBVIOUS
<1>7. g[A \ {Some(A)}] = h[A \ {Some(A)}] BY <1>5, <1>6
<1>8. g[A] = f[Some(A)] + g[A \ {Some(A)}] /\ h[A] = f[Some(A)] + h[A \ {Some(A)}]
  BY <1>2, <1>6 DEF Adds
<1> QED BY <1>7, <1>8

(* The sum of the community modules is the value of such a function.       *)
LEMMA SumIsValue ==
    ASSUME NEW f, NEW S, IsFiniteSet(S), NEW g, Adds(g, f, SUBSET S)
    PROVE  \A T \in SUBSET S : SumFunctionOnSet(f, T) = g[T]
<1> SUFFICES ASSUME NEW T \in SUBSET S PROVE SumFunctionOnSet(f, T) = g[T] OBVIOUS
<1> DEFINE h == CHOOSE it : Adds(it, f, SUBSET T)
<1>1. SumFunctionOnSet(f, T) = h[T]
  BY DEF SumFunctionOnSet, FoldFunctionOnSet, MapThenFoldSet, Adds, Some
<1>2. Adds(h, f, SUBSET T)
  <2>1. IsFiniteSet(T) BY FS_Subset
  <2> QED BY <2>1, SumExists
<1> HIDE DEF h
<1>3. g[T] = h[T] BY <1>2, SumUnique
<1> QED BY <1>1, <1>3

-----------------------------------------------------------------------------
(* What a sum is.                                                          *)

LEMMA SumEmpty == ASSUME NEW f PROVE SumFunctionOnSet(f, {}) = 0
<1>1. IsFiniteSet({}) BY FS_EmptySet
<1>2. PICK g : Adds(g, f, SUBSET {}) BY <1>1, SumExists
<1>3. \A T \in SUBSET {} : SumFunctionOnSet(f, T) = g[T] BY ZenonT(60), <1>1, <1>2, SumIsValue
<1> QED BY <1>2, <1>3 DEF Adds

(* One step of the recursion.                                              *)
LEMMA SumStep ==
    ASSUME NEW f, NEW S, IsFiniteSet(S), S # {}
    PROVE  SumFunctionOnSet(f, S) = f[Some(S)] + SumFunctionOnSet(f, S \ {Some(S)})
<1>1. PICK g : Adds(g, f, SUBSET S) BY SumExists
<1>2. g[S] = f[Some(S)] + g[S \ {Some(S)}] BY <1>1 DEF Adds
<1>3. SumFunctionOnSet(f, S) = g[S] /\ SumFunctionOnSet(f, S \ {Some(S)}) = g[S \ {Some(S)}]
  BY <1>1, SumIsValue
<1> QED BY <1>2, <1>3

LEMMA SumType ==
    ASSUME NEW f, NEW S, IsFiniteSet(S), \A x \in S : f[x] \in Int
    PROVE  SumFunctionOnSet(f, S) \in Int
<1> DEFINE D == {A \in SUBSET S : SumFunctionOnSet(f, A) \notin Int}
<1>1. SUFFICES ASSUME D # {} PROVE FALSE OBVIOUS
<1> HIDE DEF D
<1>2. PICK A \in D : \A B \in D : Cardinality(A) <= Cardinality(B)
  BY <1>1, SmallestExists DEF D
<1>3. /\ A \in SUBSET S /\ IsFiniteSet(A) /\ SumFunctionOnSet(f, A) \notin Int
      /\ \A x \in A : A \ {x} \in SUBSET S
  BY FS_Subset DEF D
<1>4. A # {} BY <1>3, SumEmpty
<1>5. Some(A) \in A BY <1>4, SomeIsIn
<1>6. /\ Cardinality(A) \in Nat /\ Cardinality(A \ {Some(A)}) \in Nat
      /\ Cardinality(A \ {Some(A)}) < Cardinality(A)
  BY <1>3, <1>5, OneLess
<1>7. A \ {Some(A)} \notin D
  <2>1. A \ {Some(A)} \in D => Cardinality(A) <= Cardinality(A \ {Some(A)}) BY <1>2
  <2> QED BY <2>1, <1>6
<1>8. SumFunctionOnSet(f, A \ {Some(A)}) \in Int BY <1>3, <1>5, <1>7 DEF D
<1>9. SumFunctionOnSet(f, A) = f[Some(A)] + SumFunctionOnSet(f, A \ {Some(A)})
  BY <1>3, <1>4, SumStep
<1>10. f[Some(A)] \in Int BY <1>3, <1>5
<1> QED BY <1>3, <1>8, <1>9, <1>10

(* The order does not matter: any element can be taken out.                *)
LEMMA SumRemove ==
    ASSUME NEW f, NEW S, IsFiniteSet(S), \A x \in S : f[x] \in Int, NEW a \in S
    PROVE  SumFunctionOnSet(f, S) = f[a] + SumFunctionOnSet(f, S \ {a})
<1> DEFINE Right(A) == \A x \in A : SumFunctionOnSet(f, A) = f[x] + SumFunctionOnSet(f, A \ {x})
           D == {A \in SUBSET S : ~Right(A)}
<1>1. SUFFICES ASSUME D # {} PROVE FALSE OBVIOUS
<1> HIDE DEF D
<1>2. PICK A \in D : \A B \in D : Cardinality(A) <= Cardinality(B)
  BY <1>1, SmallestExists DEF D
<1>3. A \in SUBSET S /\ IsFiniteSet(A) /\ ~Right(A) BY FS_Subset DEF D
<1>4. ASSUME NEW x \in A PROVE Right(A \ {x})
  <2>1. /\ Cardinality(A) \in Nat /\ Cardinality(A \ {x}) \in Nat
        /\ Cardinality(A \ {x}) < Cardinality(A)
    BY <1>3, OneLess
  <2>2. A \ {x} \in D => Cardinality(A) <= Cardinality(A \ {x}) BY <1>2
  <2>3. A \ {x} \notin D BY <2>1, <2>2
  <2>4. A \ {x} \in SUBSET S BY <1>3
  <2> QED BY <2>3, <2>4 DEF D
<1>5. A # {} BY <1>3
<1> DEFINE c == Some(A)
<1>6. c \in A BY <1>5, SomeIsIn
<1>7. SumFunctionOnSet(f, A) = f[c] + SumFunctionOnSet(f, A \ {c}) BY <1>3, <1>5, SumStep
<1> HIDE DEF c
<1>8. ASSUME NEW x \in A
      PROVE  SumFunctionOnSet(f, A) = f[x] + SumFunctionOnSet(f, A \ {x})
  <2>1. CASE x = c BY <2>1, <1>7
  <2>2. CASE x # c
    <3> DEFINE rest == SumFunctionOnSet(f, A \ {c, x})
    <3>1. (A \ {c}) \ {x} = A \ {c, x} /\ (A \ {x}) \ {c} = A \ {c, x} OBVIOUS
    <3>2. x \in A \ {c} /\ c \in A \ {x} BY <1>6, <2>2
    <3>3. Right(A \ {c}) /\ Right(A \ {x}) BY <1>4, <1>6
    <3>4. SumFunctionOnSet(f, A \ {c}) = f[x] + rest BY <3>1, <3>2, <3>3
    <3>5. SumFunctionOnSet(f, A \ {x}) = f[c] + rest BY <3>1, <3>2, <3>3
    <3>6. f[x] \in Int /\ f[c] \in Int BY <1>3, <1>6
    <3>7. rest \in Int
      <4>1. A \ {c, x} \in SUBSET S BY <1>3
      <4>2. IsFiniteSet(A \ {c, x}) BY <4>1, FS_Subset
      <4> QED BY <4>1, <4>2, SumType
    <3> HIDE DEF rest
    <3> QED BY <1>7, <3>4, <3>5, <3>6, <3>7
  <2> QED BY <2>1, <2>2
<1> QED BY <1>8, <1>3

(* An element more adds its summand.                                       *)
LEMMA SumAdd ==
    ASSUME NEW f, NEW S, IsFiniteSet(S), NEW a, a \notin S, \A x \in S \cup {a} : f[x] \in Int
    PROVE  SumFunctionOnSet(f, S \cup {a}) = SumFunctionOnSet(f, S) + f[a]
<1>1. IsFiniteSet(S \cup {a}) BY FS_AddElement
<1>2. (S \cup {a}) \ {a} = S OBVIOUS
<1>3. SumFunctionOnSet(f, S \cup {a}) = f[a] + SumFunctionOnSet(f, S)
  BY <1>1, <1>2, SumRemove
<1>4. f[a] \in Int /\ SumFunctionOnSet(f, S) \in Int BY SumType
<1> QED BY <1>3, <1>4

-----------------------------------------------------------------------------
(* Sums that are related because their summands are.                       *)

(* Only the summands of the set count.                                     *)
LEMMA SumSame ==
    ASSUME NEW f, NEW g, NEW S, IsFiniteSet(S),
           \A x \in S : f[x] = g[x] /\ f[x] \in Int
    PROVE  SumFunctionOnSet(f, S) = SumFunctionOnSet(g, S)
<1> DEFINE D == {T \in SUBSET S : SumFunctionOnSet(f, T) = SumFunctionOnSet(g, T)}
<1>1. {} \in D BY SumEmpty
<1>2. ASSUME NEW T \in D, NEW x \in S \ T PROVE T \cup {x} \in D
  <2>1. IsFiniteSet(T) BY FS_Subset
  <2>2. SumFunctionOnSet(f, T \cup {x}) = SumFunctionOnSet(f, T) + f[x] BY <2>1, SumAdd
  <2>3. SumFunctionOnSet(g, T \cup {x}) = SumFunctionOnSet(g, T) + g[x] BY <2>1, SumAdd
  <2> QED BY <2>2, <2>3
<1> HIDE DEF D
<1>3. S \in D BY <1>1, <1>2, SetInduction DEF D
<1> QED BY <1>3 DEF D

(* Sums add up.                                                            *)
LEMMA SumOfSums ==
    ASSUME NEW f, NEW g, NEW h, NEW S, IsFiniteSet(S),
           \A x \in S : f[x] \in Int /\ g[x] \in Int /\ h[x] = f[x] + g[x]
    PROVE  SumFunctionOnSet(h, S) = SumFunctionOnSet(f, S) + SumFunctionOnSet(g, S)
<1> DEFINE D == {T \in SUBSET S :
                   SumFunctionOnSet(h, T) = SumFunctionOnSet(f, T) + SumFunctionOnSet(g, T)}
<1>1. {} \in D BY SumEmpty
<1>2. ASSUME NEW T \in D, NEW x \in S \ T PROVE T \cup {x} \in D
  <2>1. IsFiniteSet(T) BY FS_Subset
  <2>2. \A y \in T \cup {x} : f[y] \in Int /\ g[y] \in Int /\ h[y] \in Int OBVIOUS
  <2>3. /\ SumFunctionOnSet(f, T \cup {x}) = SumFunctionOnSet(f, T) + f[x]
        /\ SumFunctionOnSet(g, T \cup {x}) = SumFunctionOnSet(g, T) + g[x]
        /\ SumFunctionOnSet(h, T \cup {x}) = SumFunctionOnSet(h, T) + h[x]
    BY <2>1, <2>2, SumAdd
  <2>4. /\ SumFunctionOnSet(f, T) \in Int /\ SumFunctionOnSet(g, T) \in Int
        /\ f[x] \in Int /\ g[x] \in Int /\ h[x] = f[x] + g[x]
    BY <2>1, <2>2, SumType
  <2> QED BY <2>3, <2>4
<1> HIDE DEF D
<1>3. S \in D BY <1>1, <1>2, SetInduction DEF D
<1> QED BY <1>3 DEF D

(* Raising summands does not lower the sum.                                *)
LEMMA SumMonotone ==
    ASSUME NEW f, NEW g, NEW S, IsFiniteSet(S),
           \A x \in S : f[x] \in Int /\ g[x] \in Int /\ f[x] <= g[x]
    PROVE  SumFunctionOnSet(f, S) <= SumFunctionOnSet(g, S)
<1> DEFINE D == {T \in SUBSET S : SumFunctionOnSet(f, T) <= SumFunctionOnSet(g, T)}
<1>1. {} \in D BY SumEmpty
<1>2. ASSUME NEW T \in D, NEW x \in S \ T PROVE T \cup {x} \in D
  <2>1. IsFiniteSet(T) BY FS_Subset
  <2>2. /\ SumFunctionOnSet(f, T \cup {x}) = SumFunctionOnSet(f, T) + f[x]
        /\ SumFunctionOnSet(g, T \cup {x}) = SumFunctionOnSet(g, T) + g[x]
    BY <2>1, SumAdd
  <2>3. /\ SumFunctionOnSet(f, T) \in Int /\ SumFunctionOnSet(g, T) \in Int
        /\ f[x] \in Int /\ g[x] \in Int /\ f[x] <= g[x]
    BY <2>1, SumType
  <2> QED BY <2>2, <2>3
<1> HIDE DEF D
<1>3. S \in D BY <1>1, <1>2, SetInduction DEF D
<1> QED BY <1>3 DEF D

(* Summands that are 0 do not count.                                       *)
LEMMA SumOfPart ==
    ASSUME NEW f, NEW S, IsFiniteSet(S), NEW P \in SUBSET S,
           \A x \in S : f[x] \in Int, \A x \in S \ P : f[x] = 0
    PROVE  SumFunctionOnSet(f, S) = SumFunctionOnSet(f, P)
<1> DEFINE D == {T \in SUBSET S : SumFunctionOnSet(f, T) = SumFunctionOnSet(f, T \cap P)}
<1>1. {} \in D
  <2>1. {} \cap P = {} OBVIOUS
  <2> QED BY <2>1
<1>2. ASSUME NEW T \in D, NEW x \in S \ T PROVE T \cup {x} \in D
  <2>1. IsFiniteSet(T) /\ IsFiniteSet(T \cap P) BY FS_Subset
  <2>2. SumFunctionOnSet(f, T \cup {x}) = SumFunctionOnSet(f, T) + f[x] BY <2>1, SumAdd
  <2>3. SumFunctionOnSet(f, T) \in Int BY <2>1, SumType
  <2>4. CASE x \in P
    <3>1. (T \cup {x}) \cap P = (T \cap P) \cup {x} /\ x \notin T \cap P BY <2>4
    <3>2. SumFunctionOnSet(f, (T \cap P) \cup {x}) = SumFunctionOnSet(f, T \cap P) + f[x]
      BY <2>1, <3>1, SumAdd
    <3> QED BY <2>2, <3>1, <3>2
  <2>5. CASE x \notin P
    <3>1. (T \cup {x}) \cap P = T \cap P /\ f[x] = 0 BY <2>5
    <3>2. SumFunctionOnSet(f, T \cup {x}) = SumFunctionOnSet(f, T) BY <2>2, <2>3, <3>1
    <3> QED BY <3>1, <3>2
  <2> QED BY <2>4, <2>5
<1> HIDE DEF D
<1>3. S \in D BY <1>1, <1>2, SetInduction DEF D
<1>4. S \cap P = P OBVIOUS
<1> QED BY <1>3, <1>4 DEF D

LEMMA SumOfZeros ==
    ASSUME NEW f, NEW S, IsFiniteSet(S), \A x \in S : f[x] = 0
    PROVE  SumFunctionOnSet(f, S) = 0
<1>1. SumFunctionOnSet(f, S) = SumFunctionOnSet(f, {}) BY SumOfPart
<1> QED BY <1>1, SumEmpty

(* A sum of natural numbers is one, and no summand is more.                *)
LEMMA SumOfNats ==
    ASSUME NEW f, NEW S, IsFiniteSet(S), \A x \in S : f[x] \in Nat
    PROVE  /\ SumFunctionOnSet(f, S) \in Nat
           /\ \A x \in S : f[x] <= SumFunctionOnSet(f, S)
<1>1. \A T \in SUBSET S : SumFunctionOnSet(f, T) \in Nat
  <2> SUFFICES ASSUME NEW T \in SUBSET S PROVE SumFunctionOnSet(f, T) \in Nat OBVIOUS
  <2> DEFINE z == [x \in S |-> 0]
  <2>1. IsFiniteSet(T) BY FS_Subset
  <2>2. SumFunctionOnSet(z, T) = 0 BY <2>1, SumOfZeros
  <2>3. \A x \in T : z[x] \in Int /\ f[x] \in Int /\ z[x] <= f[x] OBVIOUS
  <2>4. SumFunctionOnSet(z, T) <= SumFunctionOnSet(f, T)
    <3> HIDE DEF z
    <3> QED BY <2>1, <2>3, SumMonotone
  <2>5. SumFunctionOnSet(f, T) \in Int BY <2>1, SumType
  <2> QED BY <2>2, <2>4, <2>5
<1>2. ASSUME NEW x \in S PROVE f[x] <= SumFunctionOnSet(f, S)
  <2>1. SumFunctionOnSet(f, S) = f[x] + SumFunctionOnSet(f, S \ {x}) BY SumRemove
  <2>2. SumFunctionOnSet(f, S \ {x}) \in Nat /\ f[x] \in Nat BY <1>1
  <2> QED BY <2>1, <2>2
<1> QED BY <1>1, <1>2

(* One summand changes.                                                    *)
LEMMA SumChange ==
    ASSUME NEW f, NEW g, NEW S, IsFiniteSet(S), NEW a \in S,
           \A x \in S : f[x] \in Int /\ g[x] \in Int,
           \A x \in S \ {a} : g[x] = f[x]
    PROVE  SumFunctionOnSet(g, S) = SumFunctionOnSet(f, S) + (g[a] - f[a])
<1>1. IsFiniteSet(S \ {a}) BY OneLess
<1>2. /\ SumFunctionOnSet(f, S) = f[a] + SumFunctionOnSet(f, S \ {a})
      /\ SumFunctionOnSet(g, S) = g[a] + SumFunctionOnSet(g, S \ {a})
  BY SumRemove
<1>3. SumFunctionOnSet(f, S \ {a}) = SumFunctionOnSet(g, S \ {a}) BY <1>1, SumSame
<1>4. SumFunctionOnSet(f, S \ {a}) \in Int BY <1>1, SumType
<1> QED BY <1>2, <1>3, <1>4

(* A constant on a part, and nothing beside it.                            *)
LEMMA SumOfConstant ==
    ASSUME NEW S, IsFiniteSet(S), NEW P \in SUBSET S, NEW k \in Int, NEW f,
           \A x \in S : f[x] = IF x \in P THEN k ELSE 0
    PROVE  SumFunctionOnSet(f, S) = k * Cardinality(P)
<1> DEFINE D == {T \in SUBSET P : SumFunctionOnSet(f, T) = k * Cardinality(T)}
<1>1. IsFiniteSet(P) BY FS_Subset
<1>2. {} \in D
  <2>1. SumFunctionOnSet(f, {}) = 0 /\ Cardinality({}) = 0 BY SumEmpty, FS_EmptySet
  <2> QED BY <2>1
<1>3. ASSUME NEW T \in D, NEW x \in P \ T PROVE T \cup {x} \in D
  <2>1. IsFiniteSet(T) BY <1>1, FS_Subset
  <2>2. Cardinality(T) \in Nat /\ Cardinality(T \cup {x}) = Cardinality(T) + 1
    BY <2>1, FS_CardinalityType, FS_AddElement
  <2>3. \A y \in T \cup {x} : f[y] \in Int OBVIOUS
  <2>4. SumFunctionOnSet(f, T \cup {x}) = SumFunctionOnSet(f, T) + f[x]
    BY <2>1, <2>3, SumAdd
  <2>5. f[x] = k OBVIOUS
  <2>6. \A n \in Nat : k * n + k = k * (n + 1) OBVIOUS
  <2> QED BY <2>2, <2>4, <2>5, <2>6
<1> HIDE DEF D
<1>4. P \in D BY <1>1, <1>2, <1>3, SetInduction DEF D
<1>5. SumFunctionOnSet(f, S) = SumFunctionOnSet(f, P)
  <2>1. \A x \in S : f[x] \in Int OBVIOUS
  <2>2. \A x \in S \ P : f[x] = 0 OBVIOUS
  <2> QED BY <2>1, <2>2, SumOfPart
<1> QED BY <1>4, <1>5 DEF D

(* Part of some natural numbers adds up to no more than all of them.       *)
LEMMA SumOfFewer ==
    ASSUME NEW S, IsFiniteSet(S), NEW P \in SUBSET S, NEW f, \A x \in S : f[x] \in Nat
    PROVE  SumFunctionOnSet(f, P) <= SumFunctionOnSet(f, S)
<1> DEFINE g == [x \in S |-> IF x \in P THEN f[x] ELSE 0]
<1>1. (\A x \in S : g[x] \in Int /\ f[x] \in Int /\ g[x] <= f[x])
  /\ (\A x \in S \ P : g[x] = 0) /\ (\A x \in P : g[x] = f[x] /\ g[x] \in Int)
  OBVIOUS
<1> HIDE DEF g
<1>2. SumFunctionOnSet(g, S) <= SumFunctionOnSet(f, S) BY <1>1, SumMonotone
<1>3. SumFunctionOnSet(g, S) = SumFunctionOnSet(g, P) BY <1>1, SumOfPart
<1>4. SumFunctionOnSet(g, P) = SumFunctionOnSet(f, P) BY <1>1, FS_Subset, SumSame
<1> QED BY <1>2, <1>3, <1>4

LEMMA MinOfTwo ==
    ASSUME NEW a \in Int, NEW b \in Int
    PROVE  /\ Min({a, b}) = IF a <= b THEN a ELSE b
           /\ Min({a, b}) \in Int
<1>1. \E m \in {a, b} : \A x \in {a, b} : m <= x OBVIOUS
<1> QED BY <1>1 DEF Min
=============================================================================
