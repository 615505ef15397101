----------------------------- MODULE Induction -----------------------------
(***************************************************************************)
(* Induction over naturals for predicates given as sets: the induction     *)
(* theorems of the library take the predicate as an operator, which none   *)
(* of the provers can instantiate, but that the naturals are well-founded  *)
(* is a fact about sets.  Facts_proofs uses it for what the model computes *)
(* along a path or a sequence.                                             *)
(***************************************************************************)
EXTENDS Integers, FiniteSets, FiniteSetsExt, Sequences, WellFoundedInduction, FiniteSetTheorems, TLAPS

\* Of naturals one is the least.
LEMMA LeastNatural ==
    ASSUME NEW T \in SUBSET Nat, T # {}
    PROVE  \E n \in T : \A m \in T : n <= m
<1> DEFINE R == {ss \in Nat \X Nat : ss[1] < ss[2]}
<1>1. IsWellFoundedOn(R, Nat)
  BY NatLessThanWellFounded DEF OpToRel
<1>2. \E x \in T : \A y \in T : <<y, x>> \notin R
  <2> HIDE DEF R
  <2> QED
    BY <1>1, WFMin
<1>3. PICK x \in T : \A y \in T : <<y, x>> \notin R
  BY <1>2
<1>4. ASSUME NEW m \in T PROVE x <= m
  <2>1. <<m, x>> \in Nat \X Nat /\ m \in Nat /\ x \in Nat
    OBVIOUS
  <2>2. ~ (m < x)
    BY <1>3, <2>1
  <2> QED
    BY <2>1, <2>2
<1> QED
  BY <1>4

\* What holds at 0 and is handed on below n holds up to n.
LEMMA InductionUpTo ==
    ASSUME NEW n \in Nat, NEW T, 0 \in T, \A m \in 0 .. n - 1 : m \in T => m + 1 \in T
    PROVE  0 .. n \subseteq T
<1> DEFINE missing == {m \in 0 .. n : m \notin T}
<1> SUFFICES ASSUME missing # {} PROVE FALSE
  OBVIOUS
<1>1. missing \in SUBSET Nat
  OBVIOUS
<1>2. PICK m \in missing : \A k \in missing : m <= k
  <2> HIDE DEF missing
  <2> QED
    BY <1>1, LeastNatural
<1>3. m \in 1 .. n
  BY <1>2
<1>4. m - 1 \in 0 .. n - 1 /\ m - 1 \in T
  BY <1>2, <1>3
<1> QED
  BY <1>2, <1>3, <1>4

\* Of finitely many numbers one is the greatest.
LEMMA MaxIsGreatest ==
    ASSUME NEW n \in Nat, NEW S \in SUBSET (0 .. n), S # {}
    PROVE  Max(S) \in S /\ \A m \in S : m <= Max(S)
<1> DEFINE T == {k \in 0 .. n : n - k \in S}
<1>1. T \in SUBSET Nat
  OBVIOUS
<1>2. T # {}
  <2>1. PICK m \in S : TRUE
    OBVIOUS
  <2>2. n - m \in 0 .. n /\ n - (n - m) = m
    OBVIOUS
  <2> QED
    BY <2>2
<1>3. PICK t \in T : \A u \in T : t <= u
  <2> HIDE DEF T
  <2> QED
    BY <1>1, <1>2, LeastNatural
<1>4. ASSUME NEW m \in S PROVE n - t >= m
  <2>1. n - m \in 0 .. n /\ n - (n - m) = m /\ t \in 0 .. n
    OBVIOUS
  <2>2. t <= n - m
    BY <1>3, <2>1
  <2> QED
    BY <2>1, <2>2
<1>5. \E y \in S : \A m \in S : y >= m
  BY <1>3, <1>4
<1> QED
  BY <1>5 DEF Max
=============================================================================
