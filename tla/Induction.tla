----------------------------- MODULE Induction -----------------------------
(***************************************************************************)
(* Induction on the naturals, as facts about sets and functions: a set of  *)
(* naturals has a least one, a set that holds 0 and the successors of its  *)
(* members holds all of them, and a recursion defines a function.  The     *)
(* proofs of the other modules rest on these three.                        *)
(***************************************************************************)
EXTENDS Naturals, WellFoundedInduction, TLAPS

\* A set of naturals has a least member.
LEMMA LeastNatural ==
  ASSUME NEW I, I \subseteq Nat, I # {} PROVE \E i \in I : \A j \in I : i <= j
<1> DEFINE R == OpToRel(<, Nat)
<1>1. IsWellFoundedOn(R, Nat)
  BY NatLessThanWellFounded
<1>2. \A i, j \in Nat : j < i => <<j, i>> \in R
  BY Zenon DEF OpToRel
<1> HIDE DEF R
<1>3. PICK i \in I : \A j \in I : ~(<<j, i>> \in R)
  BY <1>1, WFMin
<1>4. \A j \in I : ~(j < i)
  BY <1>2, <1>3
<1> QED BY <1>4

\* A set that holds 0 and every successor holds every natural.
LEMMA Inductive ==
  ASSUME NEW T, 0 \in T, \A n \in Nat : n \in T => n + 1 \in T PROVE Nat \subseteq T
<1> SUFFICES ASSUME Nat \ T # {} PROVE FALSE
  OBVIOUS
<1>1. PICK i \in Nat \ T : \A j \in Nat \ T : i <= j
  BY LeastNatural
<1>2. i # 0 /\ i - 1 \in Nat
  BY <1>1
<1>3. i - 1 \in T
  BY <1>1, <1>2
<1> QED BY <1>1, <1>2, <1>3

\* f is defined by its first value and its step; g likewise, over the places of a list.
Recurses(f, x, F) == f = [n \in Nat |-> IF n = 0 THEN x ELSE F[n][f[n - 1]]]
RecursesTo(g, l, x, F) == g = [i \in 1 .. l |-> IF i = 1 THEN x ELSE F[i][g[i - 1]]]

\* A function on the naturals may be defined by its first value and its step.
LEMMA Recursion ==
  ASSUME NEW S, NEW x \in S, NEW F \in [Nat -> [S -> S]]
  PROVE  \E f \in [Nat -> S] : Recurses(f, x, F)
<1> DEFINE Begins(n) == {g \in [0 .. n -> S] : g[0] = x /\ \A i \in 1 .. n : g[i] = F[i][g[i - 1]]}
           T == {n \in Nat : Begins(n) # {}}
<1>1. 0 \in T
  <2>1. [i \in 0 .. 0 |-> x] \in Begins(0)
    OBVIOUS
  <2> QED BY <2>1
<1>2. ASSUME NEW n \in Nat, n \in T PROVE n + 1 \in T
  <2>1. PICK g \in [0 .. n -> S] : g[0] = x /\ \A i \in 1 .. n : g[i] = F[i][g[i - 1]]
    BY <1>2
  <2> DEFINE h == [i \in 0 .. n + 1 |-> IF i <= n THEN g[i] ELSE F[n + 1][g[n]]]
  <2>2. g[n] \in S /\ n + 1 \in Nat /\ F[n + 1][g[n]] \in S
    BY <2>1
  <2>3. h \in [0 .. n + 1 -> S]
    BY <2>1, <2>2
  <2>4. h[0] = x
    BY <2>1
  <2>5. ASSUME NEW i \in 1 .. n + 1 PROVE h[i] = F[i][h[i - 1]]
    <3>1. CASE i <= n
      BY <2>1, <3>1
    <3>2. CASE i = n + 1
      BY <2>1, <3>2
    <3> QED BY <3>1, <3>2
  <2>6. h \in Begins(n + 1)
    <3> HIDE DEF h
    <3> QED BY <2>3, <2>4, <2>5
  <2> HIDE DEF h, Begins
  <2> QED BY <2>6
<1>3. \A n \in Nat : Begins(n) # {}
  <2>1. Nat \subseteq T
    <3> HIDE DEF T
    <3> QED BY <1>1, <1>2, Inductive
  <2> QED BY <2>1
<1> DEFINE first == [n \in Nat |-> CHOOSE g : g \in Begins(n)]
<1>4. \A n \in Nat : first[n] \in Begins(n)
  BY <1>3
<1>5. ASSUME NEW n \in Nat, NEW g \in Begins(n), NEW h \in Begins(n + 1) PROVE \A i \in 0 .. n : g[i] = h[i]
  <2> DEFINE U == {i \in Nat : i <= n => g[i] = h[i]}
  <2>1. 0 \in U
    OBVIOUS
  <2>2. ASSUME NEW i \in Nat, i \in U PROVE i + 1 \in U
    <3> SUFFICES ASSUME i + 1 <= n PROVE g[i + 1] = h[i + 1]
      OBVIOUS
    <3>1. i + 1 \in 1 .. n /\ i + 1 \in 1 .. n + 1 /\ g[i] = h[i] /\ (i + 1) - 1 = i
      BY <2>2
    <3> QED BY <3>1
  <2>3. Nat \subseteq U
    <3> HIDE DEF U
    <3> QED BY <2>1, <2>2, Inductive
  <2> QED BY <2>3
<1> DEFINE f == [n \in Nat |-> first[n][n]]
<1>6. f \in [Nat -> S]
  <2> SUFFICES ASSUME NEW n \in Nat PROVE first[n][n] \in S
    OBVIOUS
  <2>1. first[n] \in [0 .. n -> S] /\ n \in 0 .. n
    <3> HIDE DEF first
    <3> QED BY <1>4
  <2> HIDE DEF first
  <2> QED BY <2>1
<1>7. f[0] = x
  BY <1>4
<1>8. ASSUME NEW n \in Nat PROVE f[n + 1] = F[n + 1][f[n]]
  <2>1. first[n] \in Begins(n) /\ first[n + 1] \in Begins(n + 1)
    <3> HIDE DEF first, Begins
    <3> QED BY <1>4
  <2>2. first[n][n] = first[n + 1][n]
    <3> HIDE DEF first, Begins
    <3> QED BY <1>5, <2>1
  <2>3. first[n + 1][n + 1] = F[n + 1][first[n + 1][n]]
    <3>1. n + 1 \in 1 .. n + 1 /\ (n + 1) - 1 = n
      OBVIOUS
    <3> HIDE DEF first
    <3> QED BY <2>1, <3>1
  <2> HIDE DEF first, Begins
  <2> QED BY <2>2, <2>3
<1> HIDE DEF f
<1>9. \A n \in Nat : f[n] = IF n = 0 THEN x ELSE F[n][f[n - 1]]
  <2> TAKE n \in Nat
  <2>1. CASE n = 0
    BY <1>7, <2>1
  <2>2. CASE n # 0
    <3>1. n - 1 \in Nat /\ (n - 1) + 1 = n
      BY <2>2
    <3>2. f[(n - 1) + 1] = F[(n - 1) + 1][f[n - 1]]
      BY <1>8, <3>1
    <3> QED BY <2>2, <3>1, <3>2
  <2> QED BY <2>1, <2>2
<1>10. f = [n \in Nat |-> IF n = 0 THEN x ELSE F[n][f[n - 1]]]
  BY <1>6, <1>9
<1> QED BY <1>6, <1>10 DEF Recurses

\* A recursion over the places of a list has a solution.
LEMMA ListRecursion ==
  ASSUME NEW S, NEW l \in Nat \ {0}, NEW x \in S, NEW H \in [Nat -> [S -> S]]
  PROVE  \E g \in [1 .. l -> S] : RecursesTo(g, l, x, H)
<1> DEFINE F == [i \in Nat |-> H[i + 1]]
           body(g) == [i \in 1 .. l |-> IF i = 1 THEN x ELSE H[i][g[i - 1]]]
<1>1. F \in [Nat -> [S -> S]]
  OBVIOUS
<1>2. PICK f \in [Nat -> S] : f = [n \in Nat |-> IF n = 0 THEN x ELSE F[n][f[n - 1]]]
  <2> HIDE DEF F, body
  <2>1. x \in S
    OBVIOUS
  <2>2. \E f \in [Nat -> S] : Recurses(f, x, F)
    BY ONLY <1>1, <2>1, Recursion
  <2> QED BY <2>2 DEF Recurses
<1> DEFINE g == [i \in 1 .. l |-> f[i - 1]]
<1>3. g = body(g)
  <2> SUFFICES ASSUME NEW i \in 1 .. l PROVE g[i] = IF i = 1 THEN x ELSE H[i][g[i - 1]]
    OBVIOUS
  <2>1. i - 1 \in Nat /\ g[i] = f[i - 1]
    OBVIOUS
  <2>2. CASE i = 1
    BY <1>2, <2>1, <2>2
  <2>3. CASE i # 1
    <3>1. i - 1 # 0 /\ i - 1 \in 1 .. l /\ (i - 1) - 1 \in Nat /\ (i - 1) + 1 = i
      BY <2>3
    <3>2. f[i - 1] = F[i - 1][f[(i - 1) - 1]]
      <4> HIDE DEF F
      <4> QED BY <1>2, <2>1, <3>1
    <3>3. F[i - 1] = H[i] /\ g[i - 1] = f[(i - 1) - 1]
      BY <2>1, <3>1
    <3> QED BY <2>1, <2>3, <3>2, <3>3
  <2> QED BY <2>2, <2>3
<1>4. g \in [1 .. l -> S]
  <2>1. \A i \in 1 .. l : i - 1 \in Nat
    OBVIOUS
  <2> QED BY <2>1
<1> HIDE DEF g
<1> QED BY <1>3, <1>4 DEF RecursesTo
=============================================================================
