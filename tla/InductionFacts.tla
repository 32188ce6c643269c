-------------------------- MODULE InductionFacts ---------------------------
(***************************************************************************)
(* Induction and recursion over the naturals, stated with sets and         *)
(* functions in place of predicates and operators, so that the provers can *)
(* use them: a proof by induction gives the set of the numbers that have   *)
(* the property, a recursive definition gives its step as a function.      *)
(***************************************************************************)
EXTENDS Integers, WellFoundedInduction, TLAPS

\* A set of naturals that is not empty has a least element.
LEMMA LeastElement ==
    ASSUME NEW T, T \subseteq Nat, T # {}
    PROVE  \E x \in T : \A y \in T : x <= y
<1>1. IsWellFoundedOn(OpToRel(<, Nat), Nat)
  BY NatLessThanWellFounded
<1>2. PICK x \in T : \A y \in T : ~ (<<y, x>> \in OpToRel(<, Nat))
  BY <1>1, WFMin
<1>3. ASSUME NEW y \in T PROVE x <= y
  <2>1. x \in Nat /\ y \in Nat
    OBVIOUS
  <2>2. ~ (y < x)
    BY <1>2, <2>1 DEF OpToRel
  <2> QED BY <2>1, <2>2
<1> QED BY <1>3

\* A set with 0 and with the successor of each of its numbers has all of them.
LEMMA SetInduction ==
    ASSUME NEW S, 0 \in S, \A n \in Nat : n \in S => n + 1 \in S
    PROVE  Nat \subseteq S
<1> SUFFICES ASSUME Nat \ S # {} PROVE FALSE
  OBVIOUS
<1>1. PICK x \in Nat \ S : \A y \in Nat \ S : x <= y
  BY LeastElement
<1>2. x # 0 /\ x - 1 \in Nat
  BY <1>1
<1>3. x - 1 \in S
  BY <1>1, <1>2
<1> QED BY <1>1, <1>2, <1>3

\* The first steps of a recursion: f begins with b and goes on by F.
IsRun(f, S, b, F, n) ==
    /\ f \in [0..n -> S]
    /\ f[0] = b
    /\ \A k \in 1..n : f[k] = F[k][f[k - 1]]

\* A recursion that stays within a set can be carried on to any length.
LEMMA RunExists ==
    ASSUME NEW S, NEW b \in S, NEW N \in Nat, NEW F \in [1..N -> [S -> S]]
    PROVE  \E f : IsRun(f, S, b, F, N)
<1> DEFINE T == {n \in Nat : n <= N => \E f : IsRun(f, S, b, F, n)}
<1>1. 0 \in T
  <2> DEFINE f == [k \in 0..0 |-> b]
  <2>1. IsRun(f, S, b, F, 0)
    BY DEF IsRun
  <2> QED BY <2>1
<1>2. ASSUME NEW n \in Nat, n \in T
      PROVE  n + 1 \in T
  <2> SUFFICES ASSUME n + 1 <= N
               PROVE  \E f : IsRun(f, S, b, F, n + 1)
    OBVIOUS
  <2>1. PICK g : IsRun(g, S, b, F, n)
    BY <1>2
  <2> DEFINE f == [k \in 0..n + 1 |-> IF k = n + 1 THEN F[n + 1][g[n]] ELSE g[k]]
  <2>2. F[n + 1] \in [S -> S] /\ g[n] \in S
    BY <2>1 DEF IsRun
  <2>3. F[n + 1][g[n]] \in S
    BY <2>2
  <2>4. f \in [0..n + 1 -> S]
    BY <2>1, <2>3 DEF IsRun
  <2>5. f[0] = b
    BY <2>1 DEF IsRun
  <2>6. ASSUME NEW k \in 1..n + 1
        PROVE  f[k] = F[k][f[k - 1]]
    <3>1. k - 1 \in 0..n /\ f[k - 1] = g[k - 1]
      OBVIOUS
    <3>2. CASE k = n + 1
      BY <3>1, <3>2
    <3>3. CASE k # n + 1
      BY <2>1, <3>1, <3>3 DEF IsRun
    <3> QED BY <3>2, <3>3
  <2>7. IsRun(f, S, b, F, n + 1)
    BY <2>4, <2>5, <2>6 DEF IsRun
  <2> QED BY <2>7
<1> HIDE DEF T
<1>3. N \in T
  BY <1>1, <1>2, SetInduction
<1> QED BY <1>3 DEF T
=============================================================================
