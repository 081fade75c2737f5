--------------------------- MODULE Induction_proof ---------------------------
(***************************************************************************)
(* Induction over the naturals, about sets instead of predicates, and what *)
(* it gives: a recursive function over 0 .. N exists, and is the only one. *)
(***************************************************************************)
EXTENDS Integers, WellFoundedInduction, TLAPS

\* A set of naturals that has a member has a least one.
LEMMA LeastMember ==
    ASSUME NEW T \in SUBSET Nat, T # {}
    PROVE  \E x \in T : \A y \in T : x <= y
<1>1. \E x \in T : \A y \in T : ~ (<< y, x >> \in OpToRel(<, Nat))
  BY NatLessThanWellFounded, WFMin
<1>2. PICK x \in T : \A y \in T : ~ (<< y, x >> \in OpToRel(<, Nat))
  BY <1>1
<1>3. ASSUME NEW y \in T PROVE x <= y
  <2>1. CASE y < x
    <3>1. << y, x >> \in OpToRel(<, Nat)
      BY <2>1 DEF OpToRel
    <3> QED
      BY <1>2, <3>1
  <2>2. CASE ~(y < x)
    BY <2>2
  <2> QED
    BY <2>1, <2>2
<1> QED
  BY <1>3

\* A set that has 0 and the successor of each of its members up to N has all of
\* 0 .. N.
LEMMA SetInduction ==
    ASSUME NEW N \in Nat, NEW T, 0 \in T,
           \A n \in 0 .. N - 1 : n \in T => n + 1 \in T
    PROVE  0 .. N \subseteq T
<1> DEFINE Missing == (0 .. N) \ T
<1> SUFFICES ASSUME Missing # {} PROVE FALSE
  OBVIOUS
<1>1. Missing \in SUBSET Nat
  OBVIOUS
<1>2. PICK x \in Missing : \A y \in Missing : x <= y
  BY <1>1, LeastMember
<1>3. x # 0 /\ x - 1 \in 0 .. N - 1 /\ x - 1 \notin Missing
  BY <1>2
<1>4. (x - 1) + 1 \in T
  BY <1>3
<1> QED
  BY <1>2, <1>4

\* G takes a position of 1 .. N and the value before it to the value there.
IsStep(G, N, V) == G \in [(1 .. N) \X V -> V]

Iterates(f, N, V, v0, G) ==
    /\ f \in [0 .. N -> V]
    /\ f[0] = v0
    /\ \A n \in 1 .. N : f[n] = G[<< n, f[n - 1] >>]

\* There is a function that goes from v0 by the step G.
LEMMA IterationExists ==
    ASSUME NEW N \in Nat, NEW V, NEW v0 \in V, NEW G, IsStep(G, N, V)
    PROVE  \E f : Iterates(f, N, V, v0, G)
<1> DEFINE T == { m \in 0 .. N : \E f : Iterates(f, m, V, v0, G) }
<1>1. 0 \in T
  <2>1. [n \in 0 .. 0 |-> v0] \in [0 .. 0 -> V]
    OBVIOUS
  <2>2. Iterates([n \in 0 .. 0 |-> v0], 0, V, v0, G)
    BY <2>1 DEF Iterates
  <2> QED
    BY <2>2
<1>2. ASSUME NEW m \in 0 .. N - 1, m \in T PROVE m + 1 \in T
  <2>1. PICK f : Iterates(f, m, V, v0, G)
    BY <1>2
  <2> DEFINE g == [n \in 0 .. m + 1 |-> IF n <= m THEN f[n] ELSE G[<< m + 1, f[m] >>]]
  <2>2. g \in [0 .. m + 1 -> V]
    <3>1. m + 1 \in 1 .. N /\ f[m] \in V
      BY <2>1 DEF Iterates
    <3>2. G[<< m + 1, f[m] >>] \in V
      BY <3>1 DEF IsStep
    <3>3. \A n \in 0 .. m : f[n] \in V
      BY <2>1 DEF Iterates
    <3> QED
      BY <3>2, <3>3
  <2>3. /\ \A n \in 0 .. m : g[n] = f[n]
        /\ g[m + 1] = G[<< m + 1, f[m] >>]
    OBVIOUS
  <2> HIDE DEF g
  <2>4. g[0] = v0
    BY <2>1, <2>3 DEF Iterates
  <2>5. ASSUME NEW n \in 1 .. m + 1 PROVE g[n] = G[<< n, g[n - 1] >>]
    <3>1. CASE n = m + 1
      <4>1. n - 1 = m /\ m \in 0 .. m
        BY <3>1
      <4> QED
        BY <3>1, <4>1, <2>3
    <3>2. CASE n # m + 1
      <4>1. n \in 1 .. m /\ n \in 0 .. m /\ n - 1 \in 0 .. m
        BY <3>2
      <4>2. g[n] = f[n] /\ g[n - 1] = f[n - 1]
        BY <2>3, <4>1
      <4> QED
        BY <2>1, <4>1, <4>2 DEF Iterates
    <3> QED
      BY <3>1, <3>2
  <2>6. Iterates(g, m + 1, V, v0, G)
    BY <2>2, <2>4, <2>5 DEF Iterates
  <2> QED
    BY <2>6
<1>3. 0 .. N \subseteq T
  <2> HIDE DEF T
  <2> QED
    BY <1>1, <1>2, SetInduction
<1>4. N \in T
  BY <1>3
<1> QED
  BY <1>4
=============================================================================
