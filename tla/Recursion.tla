----------------------------- MODULE Recursion ------------------------------
(***************************************************************************)
(* Induction for the proofs about recursive functions.  The induction      *)
(* theorems of the library are about operators; these are about sets of    *)
(* natural numbers, so that every prover can use them.                     *)
(***************************************************************************)
EXTENDS WellFoundedInduction, TLAPS

\* Some natural numbers have a least one among them.
LEMMA LeastNumber ==
  ASSUME NEW T \in SUBSET Nat, T # {}
  PROVE  \E x \in T : \A y \in T : x <= y
<1> DEFINE Less == OpToRel(<, Nat)
<1>1. \A x, y \in Nat : y < x => <<y, x>> \in Less
  BY Zenon DEF OpToRel
<1>2. IsWellFoundedOn(Less, Nat)
  BY NatLessThanWellFounded, Zenon
<1> HIDE DEF Less
<1>3. PICK x \in T : \A y \in T : ~ (<<y, x>> \in Less)
  BY <1>2, WFMin
<1>4. ASSUME NEW y \in T
      PROVE  ~ (y < x)
  BY <1>1, <1>3, Zenon
<1>5. \A y \in T : x <= y
  BY <1>4
<1> QED BY <1>5

\* Numbers that include 0 and with a number the next are all there are.
LEMMA Induction ==
  ASSUME NEW S \in SUBSET Nat, 0 \in S, \A n \in S : n + 1 \in S
  PROVE  \A n \in Nat : n \in S
<1> SUFFICES ASSUME Nat \ S # {} PROVE FALSE
  OBVIOUS
<1>1. PICK x \in Nat \ S : \A y \in Nat \ S : x <= y
  <2> DEFINE T == Nat \ S
  <2>1. T \in SUBSET Nat /\ T # {}
    OBVIOUS
  <2> HIDE DEF T
  <2>2. \E x \in T : \A y \in T : x <= y
    BY <2>1, LeastNumber
  <2> QED BY <2>2 DEF T
<1>2. x # 0 /\ x - 1 \in Nat
  OBVIOUS
<1>3. x - 1 \in S
  BY <1>1, <1>2
<1>4. x - 1 + 1 = x
  OBVIOUS
<1> QED BY <1>3, <1>4, <1>1

\* The same, up to N.
LEMMA BoundedInduction ==
  ASSUME NEW N \in Nat, NEW S, 0 \in S, \A n \in 0 .. N - 1 : n \in S => n + 1 \in S
  PROVE  \A n \in 0 .. N : n \in S
<1> DEFINE T == {n \in Nat : n <= N => n \in S}
<1>1. 0 \in T
  OBVIOUS
<1>2. ASSUME NEW n \in T
      PROVE  n + 1 \in T
  OBVIOUS
<1>3. T \in SUBSET Nat
  OBVIOUS
<1> HIDE DEF T
<1>4. \A n \in Nat : n \in T
  BY <1>1, <1>2, <1>3, Induction
<1> QED BY <1>4 DEF T

\* The values that F takes on when it is repeated, from a on.
Maps(F, S) == F \in [S -> S]
Iterates(g, F, a, N, S) ==
  g \in [0 .. N -> S] /\ g[0] = a /\ \A h \in 1 .. N : g[h] = F[g[h - 1]]

\* A function that turns values of S into values of S can be repeated N times.
LEMMA Repeated ==
  ASSUME NEW S, NEW F, Maps(F, S), NEW a \in S, NEW N \in Nat
  PROVE  \E g : Iterates(g, F, a, N, S)
<1> USE DEF Maps, Iterates
<1> DEFINE Run(g, n) == g[0] = a /\ \A h \in 1 .. n : g[h] = F[g[h - 1]]
           T == {n \in Nat : \E g \in [0 .. n -> S] : Run(g, n)}
<1>1. 0 \in T
  <2> DEFINE g == [h \in 0 .. 0 |-> a]
  <2>1. g \in [0 .. 0 -> S] /\ Run(g, 0)
    OBVIOUS
  <2> QED BY <2>1
<1>2. ASSUME NEW n \in T
      PROVE  n + 1 \in T
  <2>1. PICK g \in [0 .. n -> S] : Run(g, n)
    OBVIOUS
  <2> DEFINE k == [h \in 0 .. n + 1 |-> IF h = n + 1 THEN F[g[n]] ELSE g[h]]
  <2>2. n \in Nat /\ g[n] \in S
    OBVIOUS
  <2>3. k \in [0 .. n + 1 -> S]
    BY <2>2
  <2>4. k[0] = a
    BY <2>1, <2>2
  <2>5. ASSUME NEW h \in 1 .. n + 1
        PROVE  k[h] = F[k[h - 1]]
    <3>1. CASE h = n + 1
      BY <3>1, <2>2
    <3>2. CASE h # n + 1
      <4>1. h \in 1 .. n /\ h - 1 \in 0 .. n /\ h - 1 # n + 1
        BY <3>2, <2>2
      <4>2. k[h] = g[h] /\ k[h - 1] = g[h - 1]
        BY <4>1, <2>2
      <4> QED BY <4>1, <4>2, <2>1
    <3> QED BY <3>1, <3>2
  <2> HIDE DEF k
  <2>6. Run(k, n + 1)
    BY <2>4, <2>5
  <2> QED BY <2>2, <2>3, <2>6
<1>3. T \in SUBSET Nat
  OBVIOUS
<1> HIDE DEF T
<1>4. N \in T
  BY <1>1, <1>2, <1>3, Induction
<1> QED BY <1>4 DEF T
=============================================================================
