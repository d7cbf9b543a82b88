------------------------------ MODULE SumLemmas ------------------------------
(***************************************************************************)
(* Induction over the natural numbers, drawn from the well-founded order   *)
(* of the library, and what follows for a sum that is defined by recursion *)
(* over the positions of a list, as score totals are.                      *)
(***************************************************************************)
EXTENDS Integers, WellFoundedInduction, TLAPS

(* Every non-empty set of natural numbers has a least element. *)
LEMMA LeastNatural ==
    ASSUME NEW T, T \subseteq Nat, T # {}
    PROVE  \E m \in T : \A k \in T : m <= k
<1>. DEFINE R == {ss \in Nat \X Nat : ss[1] < ss[2]}
<1>1. IsWellFoundedOn(R, Nat)
  BY NatLessThanWellFounded DEF OpToRel
<1>2. PICK x \in T : \A y \in T : ~(<<y, x>> \in R)
  BY <1>1, WFMin
<1>3. ASSUME NEW y \in T, y < x PROVE FALSE
  <2>1. <<y, x>> \in Nat \X Nat
    OBVIOUS
  <2>2. <<y, x>> \in R
    BY <1>3, <2>1
  <2>. QED  BY <1>2, <2>2
<1>. QED  BY <1>3

(* A set that holds 0, and with n also n + 1, holds every natural number. *)
LEMMA InductionOnSet ==
    ASSUME NEW S, S \subseteq Nat, 0 \in S, \A n \in S : n + 1 \in S
    PROVE  S = Nat
<1>. SUFFICES ASSUME Nat \ S # {} PROVE FALSE
  OBVIOUS
<1>1. PICK m \in Nat \ S : \A k \in Nat \ S : m <= k
  <2>. DEFINE T == Nat \ S
  <2>1. T \subseteq Nat /\ T # {}
    OBVIOUS
  <2>. HIDE DEF T
  <2>2. \E m \in T : \A k \in T : m <= k
    BY <2>1, LeastNatural
  <2>. QED  BY <2>2 DEF T
<1>2. m - 1 \in S
  BY <1>1
<1>. QED  BY <1>1, <1>2

-----------------------------------------------------------------------------
(* f[n] is the sum of the first n of the N numbers of g. *)
IsSum(f, g, N) == f = [n \in 0 .. N |-> IF n = 0 THEN 0 ELSE f[n - 1] + g[n]]

(* Two such sums agree as far as what they add does, and they are natural numbers. *)
LEMMA SumsAgree ==
    ASSUME NEW M \in Nat, NEW N \in Nat, M <= N, NEW e, NEW f, NEW g, NEW h,
           IsSum(e, g, M), IsSum(f, h, N), \A n \in 1 .. M : g[n] = h[n] /\ g[n] \in Nat
    PROVE  \A n \in 0 .. M : e[n] = f[n] /\ e[n] \in Nat
<1>. DEFINE S == {n \in Nat : n <= M => e[n] = f[n] /\ e[n] \in Nat}
<1>1. \A n \in 0 .. M : /\ e[n] = IF n = 0 THEN 0 ELSE e[n - 1] + g[n]
                        /\ f[n] = IF n = 0 THEN 0 ELSE f[n - 1] + h[n]
  BY DEF IsSum
<1>2. 0 \in S
  BY <1>1
<1>3. ASSUME NEW n \in S PROVE n + 1 \in S
  <2>1. CASE n + 1 <= M
    <3>1. e[n] = f[n] /\ e[n] \in Nat /\ n + 1 \in 1 .. M
      BY <2>1
    <3>2. e[n + 1] = e[n] + g[n + 1] /\ f[n + 1] = f[n] + h[n + 1]
      BY <1>1, <3>1
    <3>. QED  BY <3>1, <3>2
  <2>2. CASE ~(n + 1 <= M)
    BY <2>2
  <2>. QED  BY <2>1, <2>2
<1>4. S = Nat
  <2>1. S \subseteq Nat
    OBVIOUS
  <2>. HIDE DEF S
  <2>. QED  BY <1>2, <1>3, <2>1, InductionOnSet
<1>. QED  BY <1>4

(* There is such a sum of every list of natural numbers. *)
LEMMA SumExists ==
    ASSUME NEW N \in Nat, NEW g, \A n \in 1 .. N : g[n] \in Nat
    PROVE  \E f : IsSum(f, g, N)
<1>. DEFINE S == {m \in Nat : m <= N => \E f : IsSum(f, g, m)}
<1>1. 0 \in S
  <2>. DEFINE f == [n \in 0 .. 0 |-> 0]
  <2>1. f = [n \in 0 .. 0 |-> IF n = 0 THEN 0 ELSE f[n - 1] + g[n]]
    OBVIOUS
  <2>. QED  BY <2>1 DEF IsSum
<1>2. ASSUME NEW m \in S PROVE m + 1 \in S
  <2>1. CASE m + 1 <= N
    <3>1. PICK f : IsSum(f, g, m)
      BY <2>1
    <3>. DEFINE e == [n \in 0 .. m + 1 |-> IF n = m + 1 THEN f[m] + g[m + 1] ELSE f[n]]
    <3>2. \A n \in 0 .. m : e[n] = f[n]
      OBVIOUS
    <3>3. \A n \in 0 .. m : f[n] = IF n = 0 THEN 0 ELSE f[n - 1] + g[n]
      BY <3>1 DEF IsSum
    <3>4. \A n \in 0 .. m + 1 : e[n] = IF n = 0 THEN 0 ELSE e[n - 1] + g[n]
      BY <3>2, <3>3
    <3>. HIDE DEF e
    <3>5. e = [n \in 0 .. m + 1 |-> IF n = 0 THEN 0 ELSE e[n - 1] + g[n]]
      <4>1. e = [n \in 0 .. m + 1 |-> e[n]]
        BY DEF e
      <4>. QED  BY <3>4, <4>1
    <3>. QED  BY <3>5 DEF IsSum
  <2>2. CASE ~(m + 1 <= N)
    BY <2>2
  <2>. QED  BY <2>1, <2>2
<1>3. S = Nat
  <2>1. S \subseteq Nat
    OBVIOUS
  <2>. HIDE DEF S
  <2>. QED  BY <1>1, <1>2, <2>1, InductionOnSet
<1>. QED  BY <1>3
=============================================================================
