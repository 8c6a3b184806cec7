----------------------------- MODULE NumberFacts -----------------------------
(***************************************************************************)
(* Facts about numbers that the proofs of several modules need.  Induction *)
(* is stated with a set, not a predicate, so that the provers can use it:  *)
(* to prove P(n) for every n, take the set of the n with P(n).  Recursion  *)
(* says that a function defined by steps, each from the one before,        *)
(* exists: without it nothing is known of a recursive definition but its   *)
(* name.                                                                   *)
(***************************************************************************)
EXTENDS Integers, TLAPS, WellFoundedInduction

\* A number written with a quotient and a remainder has no other.
LEMMA DivMod ==
  ASSUME NEW B \in Nat \ {0}, NEW q \in Nat, NEW r \in 0..(B - 1)
  PROVE  (q * B + r) \div B = q /\ (q * B + r) % B = r
<1>1. PICK d \in Int, e \in 0..(B - 1) : d = (q * B + r) \div B /\ e = (q * B + r) % B /\ q * B + r = B * d + e
  BY SMTT(30)
<1> QED
  BY <1>1, SMTT(30)

\* Every number has a quotient and a remainder.
LEMMA DivModNat ==
  ASSUME NEW B \in Nat \ {0}, NEW n \in Nat
  PROVE  /\ n \div B \in Nat /\ n % B \in 0..(B - 1)
         /\ (n \div B) * B + (n % B) = n
BY SMTT(30)

\* A set of numbers has a least one.
LEMMA LeastNumber ==
  ASSUME NEW T, T \subseteq Nat, T # {}
  PROVE  \E x \in T : \A y \in T : x <= y
<1> DEFINE R == {ss \in Nat \X Nat : ss[1] < ss[2]}
<1>1. IsWellFoundedOn(R, Nat)
  <2>1. ASSUME NEW f \in [Nat -> Nat], \A n \in Nat : <<f[n + 1], f[n]>> \in R
        PROVE  FALSE
    <3>1. \A n \in Nat : <<f[n + 1], f[n]>> \in OpToRel(<, Nat)
      BY <2>1, Zenon DEF OpToRel
    <3> QED
      BY <3>1, NatLessThanWellFounded DEF IsWellFoundedOn
  <2> QED
    BY <2>1 DEF IsWellFoundedOn
<1>2. PICK x \in T : \A y \in T : ~(<<y, x>> \in R)
  BY <1>1, WFMin
<1>3. ASSUME NEW y \in T PROVE x <= y
  <2>1. x \in Nat /\ y \in Nat
    OBVIOUS
  <2>2. ~(y < x)
    BY <1>2, <2>1
  <2> QED
    BY <2>1, <2>2
<1> QED
  BY <1>3

\* Induction: the least number that is not in the set would be 0 or a successor.
LEMMA Induction ==
  ASSUME NEW T, 0 \in T, \A n \in Nat : n \in T => n + 1 \in T
  PROVE  Nat \subseteq T
<1> DEFINE U == {n \in Nat : n \notin T}
<1>1. SUFFICES ASSUME U # {} PROVE FALSE
  OBVIOUS
<1>2. PICK x \in U : \A y \in U : x <= y
  BY <1>1, LeastNumber
<1>3. x \in Nat /\ x # 0 /\ x - 1 \in Nat /\ x - 1 \notin U
  BY <1>2
<1>4. (x - 1) + 1 = x
  BY <1>3
<1> QED
  BY <1>2, <1>3, <1>4

\* A function on 0..n that starts with start and goes from a value to the next by
\* step exists.
Stepping(step, S, n)           == step \in [S \X (1..n) -> S]
Recursive(g, n, S, start, step) ==
  /\ g \in [0..n -> S] /\ g[0] = start
  /\ \A k \in 1..n : g[k] = step[<<g[k - 1], k>>]

\* A function defined by recursion on 0..n exists when its steps stay in S.
LEMMA Recursion ==
  ASSUME NEW n \in Nat, NEW S, NEW start \in S, NEW step, Stepping(step, S, n)
  PROVE  \E g : Recursive(g, n, S, start, step)
<1> USE DEF Stepping, Recursive
<1> DEFINE Starts(g, m) == /\ g \in [0..m -> S] /\ g[0] = start
                           /\ \A k \in 1..m : g[k] = step[<<g[k - 1], k>>]
           T == {m \in Nat : m <= n => \E g : Starts(g, m)}
<1>1. 0 \in T
  <2>1. Starts([k \in 0..0 |-> start], 0)
    OBVIOUS
  <2> QED
    BY <2>1
<1>2. ASSUME NEW m \in Nat, m \in T PROVE m + 1 \in T
  <2>1. SUFFICES ASSUME m + 1 <= n PROVE \E g : Starts(g, m + 1)
    OBVIOUS
  <2>2. PICK g : Starts(g, m)
    BY <1>2, <2>1
  <2> DEFINE h == [k \in 0..(m + 1) |-> IF k = m + 1 THEN step[<<g[m], m + 1>>] ELSE g[k]]
  <2>3. g[m] \in S /\ m + 1 \in 1..n
    BY <2>1, <2>2
  <2>4. step[<<g[m], m + 1>>] \in S
    BY <2>3
  <2>5. h \in [0..(m + 1) -> S]
    BY <2>2, <2>4
  <2>6. h[0] = start
    BY <2>2
  <2>7. ASSUME NEW k \in 1..(m + 1) PROVE h[k] = step[<<h[k - 1], k>>]
    <3>1. CASE k = m + 1
      <4>1. k - 1 = m /\ m \in 0..(m + 1) /\ m # m + 1
        BY <3>1
      <4>2. h[m] = g[m]
        BY <4>1
      <4>3. h[k] = step[<<g[m], m + 1>>]
        BY <3>1
      <4> QED
        BY <3>1, <4>1, <4>2, <4>3
    <3>2. CASE k # m + 1
      <4>1. k \in 1..m /\ k - 1 \in 0..m
        BY <3>2
      <4> QED
        BY <2>2, <4>1
    <3> QED
      BY <3>1, <3>2
  <2>8. Starts(h, m + 1)
    BY <2>5, <2>6, <2>7
  <2> QED
    BY <2>8
<1>3. n \in T
  BY <1>1, <1>2, Induction
<1> QED
  BY <1>3
=============================================================================
