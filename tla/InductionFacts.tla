--------------------------- MODULE InductionFacts ---------------------------
(***************************************************************************)
(* Induction over the natural numbers, stated of sets rather than of       *)
(* predicates so that every prover can use it, and the existence of        *)
(* functions defined by recursion on a number.                             *)
(***************************************************************************)
EXTENDS Integers, TLAPS

LOCAL INSTANCE WellFoundedInduction

\* Every non-empty set of natural numbers has a least member.
LEMMA LeastNatural ==
  ASSUME NEW T, T \subseteq Nat, T # {}
  PROVE  \E n \in T : \A m \in T : n <= m
<1> DEFINE R == {ss \in Nat \X Nat : ss[1] < ss[2]}
<1>0. IsWellFoundedOn(R, Nat)
  BY NatLessThanWellFounded DEF OpToRel
<1>1. \E x \in T : \A y \in T : ~ (<<y, x>> \in R)
  <2> HIDE DEF R
  <2> QED  BY <1>0, WFMin
<1>2. ASSUME NEW x \in T, NEW y \in T, ~ (<<y, x>> \in R) PROVE x <= y
  BY <1>2
<1> QED  BY <1>1, <1>2

\* Induction, stated of a set of numbers.
LEMMA NatSetInduction ==
  ASSUME NEW T, T \subseteq Nat, 0 \in T, \A n \in T : n + 1 \in T
  PROVE  T = Nat
<1> DEFINE U == Nat \ T
<1>1. SUFFICES ASSUME U # {} PROVE FALSE
  OBVIOUS
<1>2. PICK n \in U : \A m \in U : n <= m
  BY <1>1, LeastNatural
<1>3. n # 0 /\ n \in Nat
  OBVIOUS
<1>4. n-1 \in Nat /\ n - 1 \in T
  BY <1>2, <1>3
<1>5. (n-1)+1 \in T
  BY <1>4
<1> QED  BY <1>5, <1>2, <1>3

\* r is the sequence of states that starts in s0 and goes from each to the next.
IsIteration(r, S, s0, next) ==
  r \in [Nat -> S] /\ r[0] = s0 /\ \A n \in Nat : r[n+1] = next[n][r[n]]

\* A sequence of states is determined by its first and by a function from each to the next.
LEMMA IterationExists ==
  ASSUME NEW S, NEW s0 \in S, NEW next, next \in [Nat -> [S -> S]]
  PROVE  \E r : IsIteration(r, S, s0, next)
<1> DEFINE P(n, g) == g \in [0..n -> S] /\ g[0] = s0 /\ \A m \in 0..(n-1) : g[m+1] = next[m][g[m]]
           T == {n \in Nat : \E g \in [0..n -> S] : P(n, g)}
<1>1. 0 \in T
  <2>1. P(0, [i \in 0..0 |-> s0])
    OBVIOUS
  <2> QED  BY <2>1
<1>2. ASSUME NEW n \in T PROVE n + 1 \in T
  <2>1. n \in Nat /\ n + 1 \in Nat
    OBVIOUS
  <2>2. PICK g \in [0..n -> S] : P(n, g)
    OBVIOUS
  <2> DEFINE h == [i \in 0..(n+1) |-> IF i = n+1 THEN next[n][g[n]] ELSE g[i]]
  <2>3. next[n][g[n]] \in S
    BY <2>1, <2>2
  <2>4. h \in [0..(n+1) -> S]
    BY <2>3, <2>2, <2>1
  <2>5. h[0] = s0
    BY <2>1, <2>2
  <2>6. ASSUME NEW m \in 0..n PROVE h[m+1] = next[m][h[m]]
    <3>1. CASE m = n
      BY <3>1, <2>1
    <3>2. CASE m # n
      <4>1. m \in 0..(n-1) /\ m+1 \in 0..n /\ m+1 \in 0..(n+1) /\ m \in 0..(n+1) /\ m # n+1 /\ m+1 # n+1
        BY <3>2, <2>1
      <4>2. h[m+1] = g[m+1] /\ h[m] = g[m]
        BY <4>1
      <4> QED  BY <4>1, <4>2, <2>2
    <3> QED  BY <3>1, <3>2
  <2>7. (n + 1) - 1 = n
    BY <2>1
  <2> HIDE DEF h
  <2>8. P(n+1, h)
    BY <2>4, <2>5, <2>6, <2>7
  <2> QED  BY <2>1, <2>8, <2>4
<1>3. T = Nat
  <2>1. T \subseteq Nat
    OBVIOUS
  <2> HIDE DEF T
  <2> QED  BY <1>1, <1>2, <2>1, NatSetInduction
<1>4. ASSUME NEW n \in Nat, NEW g, NEW h, P(n, g), P(n, h) PROVE g = h
  <2> DEFINE U == {m \in Nat : m <= n => g[m] = h[m]}
  <2>1. 0 \in U
    BY <1>4
  <2>2. ASSUME NEW m \in U PROVE m+1 \in U
    <3>1. CASE m+1 <= n
      <4>1. m \in 0..(n-1) /\ m <= n
        BY <3>1
      <4> QED  BY <4>1, <1>4
    <3>2. CASE ~(m+1 <= n)
      BY <3>2
    <3> QED  BY <3>1, <3>2
  <2>3. U = Nat
    <3>1. U \subseteq Nat
      OBVIOUS
    <3> HIDE DEF U
    <3> QED  BY <2>1, <2>2, <3>1, NatSetInduction
  <2>4. \A m \in 0..n : g[m] = h[m]
    BY <2>3
  <2> QED  BY <2>4, <1>4
<1> DEFINE G(n) == CHOOSE g \in [0..n -> S] : P(n, g)
<1>5. ASSUME NEW n \in Nat PROVE P(n, G(n))
  <2>1. \E g \in [0..n -> S] : P(n, g)
    BY <1>3
  <2> HIDE DEF P
  <2> QED  BY <2>1
<1> DEFINE r == [n \in Nat |-> G(n)[n]]
<1>6. ASSUME NEW n \in Nat PROVE G(n+1)[n] = G(n)[n] /\ G(n+1)[n+1] = next[n][G(n+1)[n]]
  <2> DEFINE k == G(n+1)
             c == [i \in 0..n |-> k[i]]
  <2>0. n+1 \in Nat
    OBVIOUS
  <2> HIDE DEF G, P
  <2>1. P(n+1, k)
    BY <1>5, <2>0
  <2> HIDE DEF k
  <2> USE DEF P
  <2>2. (n+1)-1 = n /\ n \in 0..n /\ 0..n \subseteq 0..(n+1) /\ 0 \in 0..n
        /\ (\A m \in 0..(n-1) : m \in 0..n /\ m+1 \in 0..n)
    OBVIOUS
  <2>3. P(n, c)
    BY <2>1, <2>2
  <2>4. c = G(n)
    BY <2>3, <1>4, <1>5
  <2> QED  BY <2>1, <2>2, <2>4 DEF k
<1> HIDE DEF G
<1>7. \A n \in Nat : G(n)[n] \in S
  BY <1>5
<1>8. G(0)[0] = s0
  BY <1>5
<1>9. r \in [Nat -> S]
  BY <1>7
<1>10. r[0] = s0
  BY <1>8
<1>11. ASSUME NEW n \in Nat PROVE r[n+1] = next[n][r[n]]
  BY <1>6
<1> HIDE DEF r
<1> QED  BY <1>9, <1>10, <1>11 DEF IsIteration
=============================================================================
