----------------------------- MODULE Induction -----------------------------
(***************************************************************************)
(* Least numbers, and what that gives: induction, and recursion.  The      *)
(* library states both with an operator as a parameter; here they are      *)
(* about sets and functions, which the provers can instantiate.            *)
(***************************************************************************)
EXTENDS Naturals, NaturalsInduction, WellFoundedInduction, TLAPS

\* A set of natural numbers has a least element.
LEMMA Least ==
  ASSUME NEW T \in SUBSET Nat, T # {}
  PROVE  \E m \in T : \A k \in T : m <= k
<1> DEFINE R == {ss \in Nat \X Nat : ss[1] < ss[2]}
<1>1. IsWellFoundedOn(R, Nat)
  BY NatLessThanWellFounded, Zenon DEF OpToRel
<1> HIDE DEF R
<1>2. PICK m \in T : \A k \in T : ~ (<<k, m>> \in R)
  BY <1>1, WFMin
<1>3. \A k \in T : k < m => <<k, m>> \in R
  BY DEF R
<1>4. \A k \in T : ~ (k < m)
  BY <1>2, <1>3, Zenon
<1> QED BY <1>4

\* What holds of 0, and of each number up to n if it does of the one before.
LEMMA Induct ==
  ASSUME NEW n \in Nat, NEW T, 0 \in T, \A k \in 1 .. n : k - 1 \in T => k \in T
  PROVE  \A k \in 0 .. n : k \in T
<1> SUFFICES ASSUME NEW k \in 0 .. n, k \notin T PROVE FALSE
  OBVIOUS
<1> DEFINE Out == {j \in 0 .. n : j \notin T}
<1>0. Out \in SUBSET Nat /\ Out # {}
  OBVIOUS
<1>1. PICK m \in Out : \A j \in Out : m <= j
  BY <1>0, Least, Zenon
<1>2. m \in 1 .. n /\ m \notin T
  OBVIOUS
<1>3. m - 1 \in 0 .. n /\ m - 1 \notin Out
  BY <1>1, <1>2
<1> QED BY <1>2, <1>3

\* What is in a set at first, and stays in it at each step, ends in it.
LEMMA Stays ==
  ASSUME NEW n \in Nat, NEW S, NEW f, f[0] \in S, \A k \in 1 .. n : f[k - 1] \in S => f[k] \in S
  PROVE  f[n] \in S
<1> DEFINE T == {k \in 0 .. n : f[k] \in S}
<1>1. 0 \in T /\ \A k \in 1 .. n : k - 1 \in T => k \in T
  OBVIOUS
<1>2. n \in 0 .. n /\ \A k \in T : f[k] \in S
  OBVIOUS
<1> HIDE DEF T
<1>3. \A k \in 0 .. n : k \in T
  BY <1>1, Induct, Zenon
<1> QED BY <1>2, <1>3

\* step[k] makes the value k of the value before.
Iterates(f, n, base, step) == f[0] = base /\ \A k \in 1 .. n : f[k] = step[k][f[k - 1]]
Closed(S, n, step) == \A k \in 1 .. n : \A s \in S : step[k][s] \in S

\* There is a function that is defined by such steps.
LEMMA Recursion ==
  ASSUME NEW S, NEW base \in S, NEW n \in Nat, NEW step, Closed(S, n, step)
  PROVE  \E f \in [0 .. n -> S] : Iterates(f, n, base, step)
<1> USE DEF Iterates, Closed
<1> DEFINE Reaches(f, m) == Iterates(f, m, base, step)
           T == {m \in 0 .. n : \E f \in [0 .. m -> S] : Reaches(f, m)}
<1>1. 0 \in T
  <2> DEFINE g == [k \in 0 .. 0 |-> base]
  <2>1. g \in [0 .. 0 -> S] /\ g[0] = base
    OBVIOUS
  <2> HIDE DEF g
  <2>2. Reaches(g, 0)
    BY <2>1
  <2> QED BY <2>1, <2>2
<1>2. ASSUME NEW m \in 1 .. n, m - 1 \in T PROVE m \in T
  <2>1. PICK f \in [0 .. (m - 1) -> S] : Reaches(f, m - 1)
    BY <1>2
  <2> DEFINE g == [k \in 0 .. m |-> IF k = m THEN step[m][f[m - 1]] ELSE f[k]]
  <2>2. g \in [0 .. m -> S]
    BY <2>1
  <2>3. g[0] = base /\ \A k \in 1 .. m : g[k] = step[k][g[k - 1]]
    BY <2>1
  <2> HIDE DEF g
  <2> QED BY <2>2, <2>3
<1> HIDE DEF T
<1>3. n \in T
  BY <1>1, <1>2, Induct
<1> QED BY <1>3 DEF T
=============================================================================
