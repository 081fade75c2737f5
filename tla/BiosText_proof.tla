--------------------------- MODULE BiosText_proof ---------------------------
(***************************************************************************)
(* Proofs about BiosText, for every size of the buffer, width of the word, *)
(* set of numbers, format and string: a number's digits, the buffer that   *)
(* loses nothing, and what a string of digits means.                       *)
(***************************************************************************)
EXTENDS BiosText, SequenceTheorems, Induction_proof

-----------------------------------------------------------------------------
(* Folds over sequences *)

\* The maximum of a set of numbers, a CHOOSE, is one of them and none is above it.
LEMMA MaxOf ==
    ASSUME NEW n \in Nat, NEW s \in SUBSET (1 .. n), s # {}
    PROVE  Max(s) \in s /\ \A y \in s : y <= Max(s)
<1> DEFINE T == { n - y : y \in s }
<1>1. T \in SUBSET Nat /\ T # {}
  <2>1. \A y \in s : y \in 1 .. n /\ n - y \in Nat
    OBVIOUS
  <2> QED
    BY <2>1
<1>2. PICK x \in T : \A y \in T : x <= y
  BY <1>1, LeastMember
<1>3. PICK m \in s : x = n - m
  OBVIOUS
<1>4. ASSUME NEW y \in s PROVE m >= y
  <2>1. x <= n - y
    BY <1>2
  <2>2. m \in 1 .. n /\ y \in 1 .. n
    OBVIOUS
  <2> QED
    BY <1>3, <2>1, <2>2
<1>5. \E z \in s : \A y \in s : z >= y
  BY <1>4
<1>6. Max(s) \in s /\ \A y \in s : Max(s) >= y
  BY <1>5 DEF Max
<1>7. \A y \in s : y \in 1 .. n
  OBVIOUS
<1> QED
  BY <1>6, <1>7

\* The last position of a set that has it.
LEMMA MaxIs ==
    ASSUME NEW n \in Nat, NEW s \in SUBSET (1 .. n), NEW k \in s, \A y \in s : y <= k
    PROVE  Max(s) = k
<1>1. Max(s) \in s /\ k <= Max(s)
  BY MaxOf
<1>2. Max(s) <= k /\ Max(s) \in 1 .. n /\ k \in 1 .. n
  BY <1>1
<1> QED
  BY <1>1, <1>2

\* it folds what G does at the members of a set, the last one outermost.
Folds(it, n, V, v0, G) ==
    /\ it[{}] = v0
    /\ \A s \in SUBSET (1 .. n) :
          s # {} /\ it[s \ {Max(s)}] \in V => it[s] = G[<< Max(s), it[s \ {Max(s)}] >>]

\* There is a function on the sets of places that folds G over them, so that the
\* library's fold, a recursive one, is it.
LEMMA FoldExists ==
    ASSUME NEW n \in Nat, NEW V, NEW v0 \in V, NEW G, IsStep(G, n, V)
    PROVE  \E it \in [SUBSET (1 .. n) -> V] : Folds(it, n, V, v0, G)
<1> DEFINE D == SUBSET (1 .. n)
           W == [D -> V]
           K(a, F) == [s \in D |-> IF a \in s THEN G[<< a, F[s \ {a}] >>] ELSE F[s]]
           H == [a \in (1 .. n) \X W |-> K(a[1], a[2])]
           F0 == [s \in D |-> v0]
<1>1. F0 \in W /\ F0[{}] = v0
  OBVIOUS
<1>2. ASSUME NEW a \in 1 .. n, NEW F \in W PROVE K(a, F) \in W
  <2>1. ASSUME NEW s \in D PROVE (IF a \in s THEN G[<< a, F[s \ {a}] >>] ELSE F[s]) \in V
    <3>1. s \ {a} \in D
      OBVIOUS
    <3>2. F[s \ {a}] \in V /\ F[s] \in V
      BY <3>1
    <3> QED
      BY <3>2 DEF IsStep
  <2> QED
    BY <2>1
<1>3. \A a \in 1 .. n, F \in W, s \in D :
         K(a, F)[s] = IF a \in s THEN G[<< a, F[s \ {a}] >>] ELSE F[s]
  OBVIOUS
<1> HIDE DEF K
<1>4. IsStep(H, n, W)
  BY <1>2 DEF IsStep
<1>5. \A a \in 1 .. n, F \in W : H[<< a, F >>] = K(a, F)
  OBVIOUS
<1> HIDE DEF H, F0, W
<1>6. PICK h : Iterates(h, n, W, F0, H)
  BY <1>1, <1>4, IterationExists
<1>7. /\ \A k \in 0 .. n : h[k] \in W
      /\ h[0] = F0
      /\ \A k \in 1 .. n : h[k] = K(k, h[k - 1])
  <2>1. h \in [0 .. n -> W] /\ h[0] = F0 /\ \A k \in 1 .. n : h[k] = H[<< k, h[k - 1] >>]
    BY <1>6 DEF Iterates
  <2>2. ASSUME NEW k \in 1 .. n PROVE h[k] = K(k, h[k - 1])
    <3>1. k - 1 \in 0 .. n
      OBVIOUS
    <3>2. h[k - 1] \in W
      BY <2>1, <3>1
    <3> QED
      BY <1>5, <2>1, <3>2
  <2> QED
    BY <2>1, <2>2
<1> DEFINE Q(k) == /\ h[k][{}] = v0
                   /\ \A s \in SUBSET (1 .. k) :
                         s # {} => h[k][s] = G[<< Max(s), h[k][s \ {Max(s)}] >>]
           T == { k \in 0 .. n : Q(k) }
<1>8. 0 \in T
  <2>1. 1 .. 0 = {}
    OBVIOUS
  <2>2. \A s \in SUBSET (1 .. 0) : s = {}
    BY <2>1
  <2>3. Q(0)
    BY <1>1, <1>7, <2>2
  <2> QED
    BY <2>3
<1>9. ASSUME NEW k \in 0 .. n - 1, k \in T PROVE k + 1 \in T
  <2>1. /\ k + 1 \in 1 .. n /\ (k + 1) - 1 = k /\ k \in 0 .. n /\ k + 1 \in 0 .. n
        /\ 1 .. k \subseteq 1 .. n /\ 1 .. k + 1 \subseteq 1 .. n /\ k \in Nat /\ k + 1 \in Nat
    OBVIOUS
  <2>2. PICK F \in W : F = h[k]
    BY <1>7, <2>1
  <2>3. PICK F1 \in W : F1 = h[k + 1] /\ F1 = K(k + 1, F)
    BY <1>7, <2>1, <2>2
  <2>4. /\ F[{}] = v0
        /\ \A s \in SUBSET (1 .. k) : s # {} => F[s] = G[<< Max(s), F[s \ {Max(s)}] >>]
    BY <1>9, <2>2
  <2>5. \A s \in D : F1[s] = IF k + 1 \in s THEN G[<< k + 1, F[s \ {k + 1}] >>] ELSE F[s]
    <3> HIDE DEF D, Q, T
    <3>1. PICK a \in 1 .. n : a = k + 1
      BY <2>1
    <3>2. \A s \in D : K(a, F)[s] = IF a \in s THEN G[<< a, F[s \ {a}] >>] ELSE F[s]
      BY <1>3
    <3>3. F1 = K(a, F)
      BY <2>3, <3>1
    <3> QED
      BY <3>1, <3>2, <3>3
  <2>6. F1[{}] = v0
    <3>1. {} \in D /\ k + 1 \notin {}
      OBVIOUS
    <3> QED
      BY <2>4, <2>5, <3>1
  <2>7. ASSUME NEW s \in SUBSET (1 .. k + 1), s # {}
        PROVE  F1[s] = G[<< Max(s), F1[s \ {Max(s)}] >>]
    <3>1. s \in D
      BY <2>1
    <3>2. CASE k + 1 \in s
      <4>1. \A y \in s : y <= k + 1
        BY <2>1
      <4>2. Max(s) = k + 1
        BY <2>1, <3>2, <4>1, MaxIs
      <4>3. s \ {k + 1} \in D /\ k + 1 \notin s \ {k + 1}
        BY <3>1
      <4>4. F1[s \ {k + 1}] = F[s \ {k + 1}] /\ F1[s] = G[<< k + 1, F[s \ {k + 1}] >>]
        BY <2>5, <3>1, <3>2, <4>3
      <4> QED
        BY <4>2, <4>4
    <3>3. CASE k + 1 \notin s
      <4>1. s \in SUBSET (1 .. k)
        <5>1. \A y \in s : y \in 1 .. k
          BY <2>1, <3>3
        <5> QED
          BY <5>1
      <4>2. s \ {Max(s)} \in D /\ k + 1 \notin s \ {Max(s)}
        BY <3>1, <3>3
      <4>3. F1[s] = F[s] /\ F1[s \ {Max(s)}] = F[s \ {Max(s)}]
        BY <2>5, <3>1, <3>3, <4>2
      <4> QED
        BY <2>4, <2>7, <4>1, <4>3
    <3> QED
      BY <3>2, <3>3
  <2>8. Q(k + 1)
    BY <2>3, <2>6, <2>7
  <2> QED
    BY <2>1, <2>8
<1>10. 0 .. n \subseteq T
  <2> HIDE DEF T
  <2> QED
    BY <1>8, <1>9, SetInduction
<1>11. n \in T
  <2>1. n \in 0 .. n
    OBVIOUS
  <2> HIDE DEF T
  <2> QED
    BY <1>10, <2>1
<1>12. Folds(h[n], n, V, v0, G)
  BY <1>11 DEF Folds
<1>13. h[n] \in [SUBSET (1 .. n) -> V]
  <2>1. n \in 0 .. n
    OBVIOUS
  <2> QED
    BY <1>7, <2>1 DEF W
<1> QED
  BY <1>12, <1>13

\* The fold over the first k positions is the k-th iterate.
LEMMA FoldValue ==
    ASSUME NEW n \in Nat, NEW V, NEW v0 \in V, NEW G, NEW it, Folds(it, n, V, v0, G),
           NEW h, h[0] = v0, \A k \in 0 .. n : h[k] \in V,
           \A k \in 1 .. n : h[k] = G[<< k, h[k - 1] >>]
    PROVE  it[1 .. n] = h[n]
<1> DEFINE T == { k \in 0 .. n : it[1 .. k] = h[k] }
<1>1. 0 \in T
  <2>1. 1 .. 0 = {} /\ 0 \in 0 .. n
    OBVIOUS
  <2> QED
    BY <2>1 DEF Folds
<1>2. ASSUME NEW k \in 0 .. n - 1, k \in T PROVE k + 1 \in T
  <2>1. /\ k + 1 \in 1 .. n /\ (k + 1) - 1 = k /\ k \in 0 .. n /\ k + 1 \in 0 .. n
        /\ 1 .. k + 1 \in SUBSET (1 .. n) /\ k + 1 \in 1 .. k + 1
        /\ \A y \in 1 .. k + 1 : y <= k + 1
    OBVIOUS
  <2>2. Max(1 .. k + 1) = k + 1
    <3>1. PICK s, l : s = 1 .. k + 1 /\ l = k + 1
      OBVIOUS
    <3>2. s \in SUBSET (1 .. n) /\ l \in s /\ \A y \in s : y <= l
      BY <2>1, <3>1
    <3>3. Max(s) = l
      BY <3>2, MaxIs
    <3> QED
      BY <3>1, <3>3
  <2>3. (1 .. k + 1) \ {k + 1} = 1 .. k
    BY <2>1
  <2>4. it[1 .. k] = h[k] /\ h[k] \in V
    BY <1>2, <2>1
  <2>5. it[1 .. k + 1] = G[<< k + 1, h[k] >>]
    <3>1. PICK s : s = 1 .. k + 1
      OBVIOUS
    <3>2. s \in SUBSET (1 .. n) /\ s # {} /\ Max(s) = k + 1 /\ s \ {Max(s)} = 1 .. k
      BY <2>1, <2>2, <2>3, <3>1
    <3> QED
      BY <2>4, <3>1, <3>2 DEF Folds
  <2>6. h[k + 1] = G[<< k + 1, h[k] >>]
    BY <2>1
  <2> QED
    BY <2>1, <2>5, <2>6
<1>3. 0 .. n \subseteq T
  <2> HIDE DEF T
  <2> QED
    BY <1>1, <1>2, SetInduction
<1>4. n \in T
  <2>1. n \in 0 .. n
    OBVIOUS
  <2> HIDE DEF T
  <2> QED
    BY <1>3, <2>1
<1> QED
  BY <1>4

-----------------------------------------------------------------------------
(* Powers, and the digits of a number *)

\* Power is a fold that multiplies by b at every position.
LEMMA PowerIs ==
    ASSUME NEW b \in Nat, NEW k \in Nat, NEW h, h[0] = 1, \A i \in 0 .. k : h[i] \in Nat,
           \A i \in 1 .. k : h[i] = h[i - 1] * b
    PROVE  Power(b, k) = h[k]
<1> DEFINE sq == [i \in 1 .. k |-> i]
           E(f, s) == IF s = {} THEN 1 ELSE f[s \ {Max(s)}] * b
           F(f) == [s \in SUBSET DOMAIN sq |-> E(f, s)]
           it == CHOOSE f : f = F(f)
           G == [a \in (1 .. k) \X Nat |-> a[2] * b]
<1>1. Power(b, k) = it[DOMAIN sq]
  BY DEF Power, FoldLeft, MapThenFoldSet
<1>2. DOMAIN sq = 1 .. k
  OBVIOUS
<1>3. IsStep(G, k, Nat) /\ \A a \in 1 .. k, p \in Nat : G[<< a, p >>] = p * b
  <2>1. \A p \in Nat : p * b \in Nat
    OBVIOUS
  <2> QED
    BY <2>1 DEF IsStep
<1>4. 1 \in Nat
  OBVIOUS
<1> HIDE DEF G, sq
<1>5. PICK f \in [SUBSET (1 .. k) -> Nat] : Folds(f, k, Nat, 1, G)
  BY <1>3, <1>4, FoldExists
<1>6. ASSUME NEW s \in SUBSET (1 .. k), s # {}
      PROVE  Max(s) \in 1 .. k /\ s \ {Max(s)} \in SUBSET (1 .. k)
  BY <1>6, MaxOf
<1>7. f = F(f)
  <2>1. ASSUME NEW s \in SUBSET (1 .. k) PROVE f[s] = E(f, s)
    <3>1. CASE s = {}
      BY <1>5, <3>1 DEF Folds
    <3>2. CASE s # {}
      <4>1. f[s \ {Max(s)}] \in Nat
        BY <1>6, <3>2
      <4>2. f[s] = G[<< Max(s), f[s \ {Max(s)}] >>]
        BY <1>5, <3>2, <4>1 DEF Folds
      <4> QED
        BY <1>3, <1>6, <3>2, <4>1, <4>2
    <3> QED
      BY <3>1, <3>2
  <2>2. f = [s \in SUBSET (1 .. k) |-> f[s]]
    OBVIOUS
  <2> HIDE DEF E
  <2> QED
    BY <1>2, <2>1, <2>2
<1>8. it = F(it)
  BY <1>7
<1> HIDE DEF it
<1>9. \A s \in SUBSET (1 .. k) : it[s] = E(it, s)
  <2> HIDE DEF E
  <2>1. \A s \in SUBSET (1 .. k) : F(it)[s] = E(it, s)
    BY <1>2
  <2> QED
    BY <1>8, <2>1
<1>10. Folds(it, k, Nat, 1, G)
  <2>1. it[{}] = 1
    <3>1. {} \in SUBSET (1 .. k)
      OBVIOUS
    <3> QED
      BY <1>9, <3>1
  <2>2. ASSUME NEW s \in SUBSET (1 .. k), s # {}, it[s \ {Max(s)}] \in Nat
        PROVE  it[s] = G[<< Max(s), it[s \ {Max(s)}] >>]
    <3>1. it[s] = it[s \ {Max(s)}] * b
      BY <1>9, <2>2
    <3> QED
      BY <1>3, <1>6, <2>2, <3>1
  <2> QED
    BY <2>1, <2>2 DEF Folds
<1>11. \A i \in 1 .. k : h[i] = G[<< i, h[i - 1] >>]
  <2>1. \A i \in 1 .. k : i - 1 \in 0 .. k /\ h[i - 1] \in Nat
    OBVIOUS
  <2> QED
    BY <1>3, <2>1
<1>12. it[1 .. k] = h[k]
  <2>1. PICK V, v : V = Nat /\ v = 1
    OBVIOUS
  <2>2. v \in V /\ Folds(it, k, V, v, G) /\ h[0] = v /\ \A i \in 0 .. k : h[i] \in V
    BY <1>10, <2>1
  <2> QED
    BY <1>11, <2>2, FoldValue
<1> QED
  BY <1>1, <1>2, <1>12

\* Powers, a fold, go by the recurrence.
LEMMA PowerSteps ==
    ASSUME NEW b \in Nat, NEW k \in Nat
    PROVE  /\ Power(b, 0) = 1
           /\ Power(b, k) \in Nat /\ Power(b, k + 1) = Power(b, k) * b
<1> DEFINE G == [a \in (1 .. k + 1) \X Nat |-> a[2] * b]
<1>1. IsStep(G, k + 1, Nat) /\ \A a \in 1 .. k + 1, p \in Nat : G[<< a, p >>] = p * b
  <2>1. \A p \in Nat : p * b \in Nat
    OBVIOUS
  <2> QED
    BY <2>1 DEF IsStep
<1>2. 1 \in Nat /\ k + 1 \in Nat
  OBVIOUS
<1> HIDE DEF G
<1>3. PICK h : Iterates(h, k + 1, Nat, 1, G)
  BY <1>1, <1>2, IterationExists
<1>4. h[0] = 1 /\ \A i \in 0 .. k + 1 : h[i] \in Nat
  BY <1>3 DEF Iterates
<1>5. \A i \in 1 .. k + 1 : h[i] = h[i - 1] * b
  <2>1. \A i \in 1 .. k + 1 : i - 1 \in 0 .. k + 1
    OBVIOUS
  <2> QED
    BY <1>1, <1>3, <1>4, <2>1 DEF Iterates
<1>6. ASSUME NEW j \in 0 .. k + 1 PROVE Power(b, j) = h[j]
  <2>1. j \in Nat /\ 0 .. j \subseteq 0 .. k + 1 /\ 1 .. j \subseteq 1 .. k + 1
    OBVIOUS
  <2>2. \A i \in 0 .. j : h[i] \in Nat
    BY <1>4, <2>1
  <2>3. \A i \in 1 .. j : h[i] = h[i - 1] * b
    BY <1>5, <2>1
  <2> QED
    BY <1>4, <2>1, <2>2, <2>3, PowerIs
<1>7. 0 \in 0 .. k + 1 /\ k \in 0 .. k + 1 /\ k + 1 \in 0 .. k + 1 /\ k + 1 \in 1 .. k + 1
      /\ (k + 1) - 1 = k
  OBVIOUS
<1> QED
  BY <1>4, <1>5, <1>6, <1>7

Bases == {8, 10, 16}

LEMMA Division ==
    ASSUME NEW n \in Nat, NEW p \in Nat \ {0}
    PROVE  n \div p \in Nat /\ n % p \in 0 .. p - 1 /\ n = p * (n \div p) + (n % p)
<1>1. n \div p \in Int /\ n \div p >= 0
  <2>1. n \div p \in Int
    OBVIOUS
  <2>2. n \div p >= 0
    OBVIOUS
  <2> QED
    BY <2>1, <2>2
<1>2. n % p \in 0 .. p - 1
  OBVIOUS
<1>3. n = p * (n \div p) + (n % p)
  OBVIOUS
<1> QED
  BY <1>1, <1>2, <1>3

LEMMA DivisionParts ==
    ASSUME NEW n \in Nat, NEW p \in Nat \ {0}
    PROVE  \E q \in Nat, r \in Nat : /\ q = n \div p /\ r = n % p
                                     /\ r < p /\ n = p * q + r
<1>1. n \div p \in Nat /\ n % p \in Nat /\ n % p < p /\ n = p * (n \div p) + (n % p)
  <2>1. PICK x, y : x = n \div p /\ y = n % p
    OBVIOUS
  <2>2. x \in Nat /\ y \in 0 .. p - 1 /\ n = p * x + y
    BY <2>1, Division
  <2> QED
    BY <2>1, <2>2
<1>2. PICK x, y : x = n \div p /\ y = n % p
  OBVIOUS
<1>3. x \in Nat /\ y \in Nat /\ y < p /\ n = p * x + y
  BY <1>1, <1>2
<1> QED
  BY <1>2, <1>3

LEMMA DivisionIs ==
    ASSUME NEW n \in Nat, NEW p \in Nat \ {0}, NEW s \in Nat, NEW t \in Nat, t < p,
           n = p * s + t
    PROVE  n \div p = s /\ n % p = t
<1>1. PICK x \in Nat, y \in Nat : x = n \div p /\ y = n % p /\ y < p /\ n = p * x + y
  BY DivisionParts
<1>2. ~(x < s)
  <2> SUFFICES ASSUME x < s PROVE FALSE
    OBVIOUS
  <2>1. PICK d \in Nat : s = x + 1 + d
    <3>1. s - (x + 1) \in Nat /\ s = x + 1 + (s - (x + 1))
      OBVIOUS
    <3> QED
      BY <3>1
  <2>2. p * s = p * x + p + p * d /\ p * d \in Nat /\ p * x \in Nat
    BY <2>1
  <2> QED
    BY <1>1, <2>2
<1>3. ~(s < x)
  <2> SUFFICES ASSUME s < x PROVE FALSE
    OBVIOUS
  <2>1. PICK d \in Nat : x = s + 1 + d
    <3>1. x - (s + 1) \in Nat /\ x = s + 1 + (x - (s + 1))
      OBVIOUS
    <3> QED
      BY <3>1
  <2>2. p * x = p * s + p + p * d /\ p * d \in Nat /\ p * s \in Nat
    BY <2>1
  <2> QED
    BY <1>1, <2>2
<1>4. x = s
  BY <1>2, <1>3
<1>5. p * x = p * s /\ p * s \in Nat
  BY <1>4
<1> QED
  BY <1>1, <1>4, <1>5

\* The digits behind the last one are the digits of the quotient.
LEMMA DivisionTwice ==
    ASSUME NEW b \in Bases, NEW p \in Nat \ {0}, NEW n \in Nat
    PROVE  n \div (p * b) = (n \div b) \div p
<1>1. b \in Nat \ {0}
  BY DEF Bases
<1>2. PICK q \in Nat, r \in Nat : q = n \div b /\ r < b /\ n = b * q + r
  BY <1>1, DivisionParts
<1>3. PICK s \in Nat, t \in Nat : s = q \div p /\ t < p /\ q = p * s + t
  BY DivisionParts
<1>4. PICK m \in Nat : m = p * s
  OBVIOUS
<1>5. p * b \in Nat \ {0} /\ (p * b) * s = b * m
  BY <1>4 DEF Bases
<1>6. n = b * m + (b * t + r) /\ b * t + r \in Nat /\ b * t + r < p * b
  <2>1. q = m + t /\ n = b * q + r /\ t < p /\ r < b
    BY <1>2, <1>3, <1>4
  <2>2. CASE b = 8
    BY <2>1, <2>2
  <2>3. CASE b = 10
    BY <2>1, <2>3
  <2>4. CASE b = 16
    BY <2>1, <2>4
  <2> QED
    BY <2>2, <2>3, <2>4 DEF Bases
<1>7. n \div (p * b) = s
  <2>1. PICK z \in Nat \ {0}, w \in Nat : z = p * b /\ w = b * t + r
    BY <1>5, <1>6
  <2>2. n = z * s + w /\ w < z
    BY <1>5, <1>6, <2>1
  <2> QED
    BY <2>1, <2>2, DivisionIs
<1> QED
  BY <1>2, <1>3, <1>7

\* Every number is below some power, and powers never fall.
LEMMA PowerGrows ==
    ASSUME NEW b \in Bases, NEW k \in Nat
    PROVE  /\ Power(b, k) \in Nat \ {0} /\ k < Power(b, k)
           /\ \A j \in 0 .. k : Power(b, j) <= Power(b, k)
<1>1. /\ b \in Nat /\ Power(b, 0) = 1
      /\ \A j \in Nat : Power(b, j) \in Nat /\ Power(b, j + 1) = Power(b, j) * b
  <2>1. b \in Nat
    BY DEF Bases
  <2>2. ASSUME NEW j \in Nat
        PROVE  Power(b, 0) = 1 /\ Power(b, j) \in Nat /\ Power(b, j + 1) = Power(b, j) * b
    BY <2>1, PowerSteps
  <2> QED
    BY <2>1, <2>2
<1> DEFINE T == { i \in 0 .. k : /\ Power(b, i) \in Nat \ {0} /\ i < Power(b, i)
                                 /\ \A j \in 0 .. i : Power(b, j) <= Power(b, i) }
<1>2. 0 \in T
  <2>1. \A j \in 0 .. 0 : j = 0
    OBVIOUS
  <2> QED
    BY <1>1, <2>1
<1>3. ASSUME NEW i \in 0 .. k - 1, i \in T PROVE i + 1 \in T
  <2>1. PICK p \in Nat \ {0} : p = Power(b, i) /\ i < p
    BY <1>3
  <2>2. Power(b, i + 1) = p * b
    BY <1>1, <2>1
  <2>3. p * b \in Nat \ {0} /\ p <= p * b /\ i + 1 < p * b
    BY <2>1 DEF Bases
  <2>4. ASSUME NEW j \in 0 .. i + 1 PROVE Power(b, j) <= p * b
    <3>1. CASE j = i + 1
      BY <2>2, <2>3, <3>1
    <3>2. CASE j # i + 1
      <4>1. j \in 0 .. i /\ j \in Nat
        BY <3>2
      <4>2. Power(b, j) <= p /\ Power(b, j) \in Nat
        BY <1>1, <1>3, <2>1, <4>1
      <4> QED
        BY <2>3, <4>2
    <3> QED
      BY <3>1, <3>2
  <2>5. i + 1 \in 0 .. k
    OBVIOUS
  <2> QED
    BY <2>2, <2>3, <2>4, <2>5
<1>4. 0 .. k \subseteq T
  <2> HIDE DEF T
  <2> QED
    BY <1>2, <1>3, SetInduction
<1>5. k \in T
  <2>1. k \in 0 .. k
    OBVIOUS
  <2> HIDE DEF T
  <2> QED
    BY <1>4, <2>1
<1> QED
  BY <1>5

\* k is the number of digits of n, 0 for 0.
HasPlaces(n, b, k) ==
    /\ k \in Nat /\ n < Power(b, k)
    /\ \A j \in Nat : j < k => Power(b, j) <= n

\* Every number has a number of places in every base, and only one.
LEMMA PlacesExist ==
    ASSUME NEW b \in Bases, NEW n \in Nat
    PROVE  \E k \in Nat : HasPlaces(n, b, k)
<1> DEFINE T == { k \in Nat : n < Power(b, k) }
<1>1. T \in SUBSET Nat /\ n \in T
  BY PowerGrows
<1>2. PICK k \in T : \A j \in T : k <= j
  <2> HIDE DEF T
  <2>1. T # {}
    BY <1>1
  <2> QED
    BY <1>1, <2>1, LeastMember
<1>3. ASSUME NEW j \in Nat, j < k PROVE Power(b, j) <= n
  <2>1. j \notin T /\ Power(b, j) \in Nat
    BY <1>2, <1>3, PowerGrows
  <2> QED
    BY <2>1
<1> QED
  BY <1>2, <1>3 DEF HasPlaces

LEMMA PlacesOnce ==
    ASSUME NEW b \in Bases, NEW n \in Nat, NEW k, NEW l, HasPlaces(n, b, k), HasPlaces(n, b, l)
    PROVE  k = l
<1>1. k \in Nat /\ l \in Nat
  BY DEF HasPlaces
<1>2. Power(b, k) \in Nat /\ Power(b, l) \in Nat
  BY <1>1, PowerGrows
<1>3. ~(k < l) /\ ~(l < k)
  BY <1>1, <1>2 DEF HasPlaces
<1> QED
  BY <1>1, <1>3

\* One place more than the quotient.
LEMMA PlacesStep ==
    ASSUME NEW b \in Bases, NEW n \in Nat \ {0}, NEW k, HasPlaces(n \div b, b, k)
    PROVE  HasPlaces(n, b, k + 1)
<1>1. b \in Nat \ {0} /\ k \in Nat
  BY DEF Bases, HasPlaces
<1>2. PICK q \in Nat, r \in Nat : q = n \div b /\ r < b /\ n = b * q + r
  BY <1>1, DivisionParts
<1>3. PICK p \in Nat : p = Power(b, k) /\ Power(b, k + 1) = p * b /\ q < p
  BY <1>1, <1>2, PowerSteps DEF HasPlaces
<1>4. n < p * b
  BY <1>2, <1>3 DEF Bases
<1>5. ASSUME NEW j \in Nat, j < k + 1 PROVE Power(b, j) <= n
  <2>1. CASE j = 0
    BY <1>1, <2>1, PowerSteps
  <2>2. CASE j # 0
    <3>1. PICK i \in Nat : j = i + 1 /\ i < k
      <4>1. j - 1 \in Nat /\ j = (j - 1) + 1 /\ j - 1 < k
        BY <1>1, <1>5, <2>2
      <4> QED
        BY <4>1
    <3>2. Power(b, i) \in Nat /\ Power(b, i) <= q /\ Power(b, j) = Power(b, i) * b
      BY <1>1, <1>2, <3>1, PowerSteps DEF HasPlaces
    <3>3. PICK x \in Nat : x = Power(b, i)
      BY <3>2
    <3>4. x * b <= n
      BY <1>2, <3>2, <3>3 DEF Bases
    <3> QED
      BY <3>2, <3>3, <3>4
  <2> QED
    BY <2>1, <2>2
<1> QED
  BY <1>1, <1>3, <1>4, <1>5 DEF HasPlaces

-----------------------------------------------------------------------------
(* The loop of conv *)

LEMMA PowerOfZero ==
    ASSUME NEW b \in Bases
    PROVE  b \in Nat \ {0} /\ Power(b, 0) = 1
<1>1. b \in Nat /\ b # 0 /\ 0 \in Nat
  BY DEF Bases
<1> QED
  BY <1>1, PowerSteps

Places(n, b) == CHOOSE k \in Nat : HasPlaces(n, b, k)
DigitAt(n, b, j) == Digits[((n \div Power(b, j)) % b) + 1]

\* What the loop has found: the digits of n, last one first.
LowFirst(n, b) == [i \in 1 .. Places(n, b) |-> DigitAt(n, b, i - 1)]

LEMMA PlacesIs ==
    ASSUME NEW b \in Bases, NEW n \in Nat
    PROVE  /\ Places(n, b) \in Nat /\ HasPlaces(n, b, Places(n, b))
           /\ \A k : HasPlaces(n, b, k) => k = Places(n, b)
<1>1. Places(n, b) \in Nat /\ HasPlaces(n, b, Places(n, b))
  BY PlacesExist DEF Places
<1> QED
  BY <1>1, PlacesOnce

LEMMA PlacesOfZero ==
    ASSUME NEW b \in Bases
    PROVE  Places(0, b) = 0 /\ LowFirst(0, b) = << >>
<1>1. Power(b, 0) = 1
  BY PowerOfZero
<1>2. HasPlaces(0, b, 0)
  BY <1>1 DEF HasPlaces
<1>3. Places(0, b) = 0
  BY <1>2, PlacesIs
<1> QED
  BY <1>3 DEF LowFirst

\* conv's recurrence holds of the digits in closed form: the last one, then those of the
\* quotient, which is smaller.
LEMMA LowFirstStep ==
    ASSUME NEW b \in Bases, NEW n \in Nat \ {0}
    PROVE  /\ n \div b \in Nat /\ n \div b < n
           /\ Places(n, b) = Places(n \div b, b) + 1
           /\ LowFirst(n, b) = << Digits[(n % b) + 1] >> \o LowFirst(n \div b, b)
<1>1. b \in Nat \ {0} /\ n \in Nat
  BY DEF Bases
<1>2. PICK q \in Nat, r \in Nat : q = n \div b /\ r = n % b /\ r < b /\ n = b * q + r
  BY <1>1, DivisionParts
<1>3. q < n
  BY <1>2 DEF Bases
<1>4. PICK k \in Nat : k = Places(q, b) /\ HasPlaces(q, b, k)
  BY PlacesIs
<1>5. Places(n, b) = k + 1
  <2>1. HasPlaces(n, b, k + 1)
    BY <1>2, <1>4, PlacesStep
  <2> QED
    BY <1>1, <2>1, PlacesIs
<1>6. LowFirst(n, b) = [i \in 1 .. k + 1 |-> DigitAt(n, b, i - 1)]
  BY <1>5 DEF LowFirst
<1>7. LowFirst(q, b) = [i \in 1 .. k |-> DigitAt(q, b, i - 1)]
  BY <1>4 DEF LowFirst
<1>8. DigitAt(n, b, 0) = Digits[(n % b) + 1]
  <2>1. Power(b, 0) = 1
    BY <1>1, PowerSteps
  <2>2. n \div 1 = n
    BY <1>1
  <2> QED
    BY <2>1, <2>2 DEF DigitAt
<1>9. ASSUME NEW i \in 1 .. k PROVE DigitAt(n, b, (i + 1) - 1) = DigitAt(q, b, i - 1)
  <2>1. PICK j \in Nat : j = i - 1 /\ (i + 1) - 1 = j + 1
    <3>1. i - 1 \in Nat /\ (i + 1) - 1 = (i - 1) + 1
      OBVIOUS
    <3> QED
      BY <3>1
  <2>2. PICK p \in Nat \ {0} : p = Power(b, j)
    BY PowerGrows
  <2>3. Power(b, j + 1) = p * b
    BY <1>1, <2>2, PowerSteps
  <2>4. n \div (p * b) = q \div p
    BY <1>1, <1>2, DivisionTwice
  <2> QED
    BY <2>1, <2>2, <2>3, <2>4 DEF DigitAt
<1>10. << Digits[(n % b) + 1] >> \o LowFirst(q, b)
       = [i \in 1 .. k + 1 |-> IF i = 1 THEN Digits[(n % b) + 1] ELSE DigitAt(q, b, (i - 1) - 1)]
  <2> DEFINE s == LowFirst(q, b)
  <2>1. PICK c : c = Digits[(n % b) + 1]
    OBVIOUS
  <2>2. s = [i \in 1 .. k |-> DigitAt(q, b, i - 1)]
    BY <1>7
  <2>3. Len(s) = k /\ s \in Seq({ DigitAt(q, b, i - 1) : i \in 1 .. k })
    <3> DEFINE V == { DigitAt(q, b, i - 1) : i \in 1 .. k }
    <3>1. s \in [1 .. k -> V]
      BY <2>2
    <3> HIDE DEF s, V
    <3>2. s \in Seq(V) /\ Len(s) = k
      BY <3>1
    <3> QED
      BY <3>2 DEF V
  <2> HIDE DEF s
  <2>4. << c >> \o s = [i \in 1 .. 1 + k |-> IF i <= 1 THEN c ELSE s[i - 1]]
    BY <2>3
  <2>5. ASSUME NEW i \in 1 .. k + 1, i # 1 PROVE s[i - 1] = DigitAt(q, b, (i - 1) - 1)
    <3>1. i - 1 \in 1 .. k
      BY <2>5
    <3> QED
      BY <2>2, <3>1
  <2>6. 1 .. 1 + k = 1 .. k + 1 /\ \A i \in 1 .. k + 1 : i <= 1 <=> i = 1
    OBVIOUS
  <2> DEFINE t == [i \in 1 .. k + 1 |-> IF i = 1 THEN c ELSE DigitAt(q, b, (i - 1) - 1)]
  <2>7. << c >> \o s = t
    BY <2>4, <2>5, <2>6
  <2> QED
    BY <2>1, <2>7 DEF s
<1>11. ASSUME NEW i \in 1 .. k + 1
       PROVE  DigitAt(n, b, i - 1)
              = IF i = 1 THEN Digits[(n % b) + 1] ELSE DigitAt(q, b, (i - 1) - 1)
  <2>1. CASE i = 1
    <3>1. i - 1 = 0
      BY <2>1
    <3> QED
      BY <1>8, <2>1, <3>1
  <2>2. CASE i # 1
    <3>1. i - 1 \in 1 .. k /\ ((i - 1) + 1) - 1 = i - 1
      BY <2>2
    <3> QED
      BY <1>9, <2>2, <3>1
  <2> QED
    BY <2>1, <2>2
<1>12. LowFirst(n, b) = << Digits[(n % b) + 1] >> \o LowFirst(q, b)
  BY <1>6, <1>10, <1>11
<1> QED
  BY <1>2, <1>3, <1>4, <1>5, <1>12

\* conv: the digits, first one first.
LEMMA ConvIs ==
    ASSUME NEW b \in Bases, NEW n \in Nat
    PROVE  Conv(n, b) = Reverse(LowFirst(n, b))
<1> DEFINE E(f, m) == IF m = 0 THEN << >>
                      ELSE << Digits[(m % b) + 1] >> \o f[m \div b]
           F(f) == [m \in 0 .. n |-> E(f, m)]
           it == CHOOSE f : f = F(f)
           g == [m \in 0 .. n |-> LowFirst(m, b)]
<1>1. Conv(n, b) = Reverse(it[n])
  BY DEF Conv, MostFirst
<1>2. ASSUME NEW m \in 0 .. n, m # 0 PROVE m \div b \in 0 .. n /\ m \div b < m
  <2>1. m \in Nat \ {0}
    BY <1>2
  <2>2. m \div b \in Nat /\ m \div b < m
    BY <2>1, LowFirstStep
  <2> QED
    BY <2>1, <2>2
<1>3. ASSUME NEW m \in 0 .. n PROVE E(g, m) = LowFirst(m, b)
  <2>1. CASE m = 0
    BY <2>1, PlacesOfZero
  <2>2. CASE m # 0
    <3>1. g[m \div b] = LowFirst(m \div b, b)
      BY <1>2, <2>2
    <3>2. m \in Nat \ {0}
      BY <2>2
    <3>3. LowFirst(m, b) = << Digits[(m % b) + 1] >> \o LowFirst(m \div b, b)
      BY <3>2, LowFirstStep
    <3> QED
      BY <2>2, <3>1, <3>3
  <2> QED
    BY <2>1, <2>2
<1>4. g = F(g)
  <2> HIDE DEF E
  <2> QED
    BY <1>3
<1>5. it = F(it)
  BY <1>4
<1> HIDE DEF it
<1>6. ASSUME NEW m \in 0 .. n PROVE it[m] = E(it, m)
  <2> HIDE DEF E
  <2>1. F(it)[m] = E(it, m)
    OBVIOUS
  <2> QED
    BY <1>5, <2>1
<1>7. it[n] = LowFirst(n, b)
  <2> DEFINE T == { m \in 0 .. n : it[m] # LowFirst(m, b) }
  <2>1. T = {}
    <3> SUFFICES ASSUME T # {} PROVE FALSE
      OBVIOUS
    <3>1. T \in SUBSET Nat
      OBVIOUS
    <3>2. PICK x \in T : \A y \in T : x <= y
      BY <3>1, LeastMember
    <3>3. CASE x = 0
      BY <1>6, <3>2, <3>3, PlacesOfZero
    <3>4. CASE x # 0
      <4>1. x \in 0 .. n /\ x \div b \in 0 .. n /\ x \div b < x /\ x \in Nat \ {0}
        BY <1>2, <3>2, <3>4
      <4>2. x \div b \notin T
        BY <3>2, <4>1
      <4>3. it[x \div b] = LowFirst(x \div b, b)
        BY <4>1, <4>2
      <4>4. it[x] = << Digits[(x % b) + 1] >> \o it[x \div b]
        BY <1>6, <3>4, <4>1
      <4>5. LowFirst(x, b) = << Digits[(x % b) + 1] >> \o LowFirst(x \div b, b)
        BY <4>1, LowFirstStep
      <4> QED
        BY <3>2, <4>3, <4>4, <4>5
    <3> QED
      BY <3>3, <3>4
  <2>2. n \in 0 .. n
    OBVIOUS
  <2> QED
    BY <2>1, <2>2
<1> QED
  BY <1>1, <1>7

\* What conv returns, digit by digit.
LEMMA ConvInPlaces ==
    ASSUME NEW b \in Bases, NEW n \in Nat
    PROVE  Conv(n, b) = [i \in 1 .. Places(n, b) |-> DigitAt(n, b, Places(n, b) - i)]
<1>1. PICK k \in Nat : k = Places(n, b)
  BY PlacesIs
<1>2. LowFirst(n, b) = [i \in 1 .. k |-> DigitAt(n, b, i - 1)]
  BY <1>1 DEF LowFirst
<1>3. PICK s : s = LowFirst(n, b)
  OBVIOUS
<1>4. Len(s) = k /\ \A i \in 1 .. k : s[i] = DigitAt(n, b, i - 1)
  BY <1>2, <1>3
<1>5. Reverse(s) = [i \in 1 .. k |-> s[(k - i) + 1]]
  BY <1>4 DEF Reverse
<1>6. ASSUME NEW i \in 1 .. k PROVE s[(k - i) + 1] = DigitAt(n, b, k - i)
  <2>1. (k - i) + 1 \in 1 .. k /\ ((k - i) + 1) - 1 = k - i
    OBVIOUS
  <2> QED
    BY <1>4, <2>1
<1>7. Reverse(s) = [i \in 1 .. k |-> DigitAt(n, b, k - i)]
  BY <1>5, <1>6
<1> QED
  BY <1>1, <1>3, <1>7, ConvIs

\* printnbr_base prints a number of the word in its digits, as many as there are
\* places and one for 0 (conv:72, printnbr_base:86).
LEMMA NumberIsNumeral ==
    ASSUME NEW b \in Bases, NEW n \in Nat, n < Power(b, MaxPlaces)
    PROVE  Number(n, b) = Numeral(n, b)
<1> DEFINE T == { j \in 1 .. MaxPlaces : n < Power(b, j) }
<1>1. MaxPlaces \in Nat /\ Power(b, 0) = 1 /\ b \in Nat
  BY TextAssumption, PowerOfZero
<1>2. \A j \in Nat : Power(b, j) \in Nat /\ j < Power(b, j)
  BY PowerGrows
<1>3. CASE n = 0
  <2>1. MaxPlaces # 0
    BY <1>1, TextAssumption, PlacesAreEnough DEF Bases
  <2>2. 1 \in T /\ \A j \in T : 1 <= j
    BY <1>1, <1>2, <1>3, <2>1
  <2>3. Min(T) = 1
    <3> HIDE DEF T
    <3>1. \A x \in T : (\A y \in T : x <= y) => x = 1
      <4>1. \A x \in T : x \in Nat
        BY DEF T
      <4> QED
        BY <2>2, <4>1
    <3> QED
      BY <2>2, <3>1 DEF Min
  <2>4. Numeral(n, b) = [i \in 1 .. 1 |-> Digits[((n \div Power(b, 1 - i)) % b) + 1]]
    <3> DEFINE N(k) == [i \in 1 .. k |-> Digits[((n \div Power(b, k - i)) % b) + 1]]
    <3>1. Numeral(n, b) = N(Min(T))
      BY DEF Numeral
    <3> HIDE DEF T
    <3> QED
      BY <2>3, <3>1
  <2>5. Digits[((n \div Power(b, 1 - 1)) % b) + 1] = "0"
    <3>1. Power(b, 1 - 1) = 1
      BY <1>1
    <3>2. n \div 1 = 0 /\ 0 % b = 0
      BY <1>1, <1>3 DEF Bases
    <3> QED
      BY <3>1, <3>2 DEF Digits
  <2> QED
    BY <1>3, <2>4, <2>5 DEF Number
<1>4. CASE n # 0
  <2>1. PICK k \in Nat : k = Places(n, b) /\ HasPlaces(n, b, k)
    BY PlacesIs
  <2>2. k # 0
    BY <1>1, <1>4, <2>1 DEF HasPlaces
  <2>3. k <= MaxPlaces
    <3>1. ~(MaxPlaces < k)
      BY <1>1, <1>2, <2>1 DEF HasPlaces
    <3> QED
      BY <1>1, <3>1
  <2>4. k \in T
    BY <2>1, <2>2, <2>3 DEF HasPlaces
  <2>5. ASSUME NEW j \in T PROVE k <= j
    <3>1. j \in Nat /\ n < Power(b, j)
      OBVIOUS
    <3>2. ~(j < k)
      BY <1>2, <2>1, <3>1 DEF HasPlaces
    <3> QED
      BY <3>1, <3>2
  <2>6. Min(T) = k
    <3>1. \A x \in T : x \in Nat
      OBVIOUS
    <3> HIDE DEF T
    <3>2. \A x \in T : (\A y \in T : x <= y) => x = k
      BY <2>4, <2>5, <3>1
    <3> QED
      BY <2>4, <2>5, <3>2 DEF Min
  <2>7. Numeral(n, b) = [i \in 1 .. k |-> DigitAt(n, b, k - i)]
    <3> DEFINE N(l) == [i \in 1 .. l |-> Digits[((n \div Power(b, l - i)) % b) + 1]]
    <3>1. Numeral(n, b) = N(Min(T))
      BY DEF Numeral
    <3> HIDE DEF T
    <3>2. Numeral(n, b) = N(k)
      BY <2>6, <3>1
    <3> QED
      BY <3>2 DEF DigitAt
  <2> QED
    BY <1>4, <2>1, <2>7, ConvInPlaces DEF Number
<1> QED
  BY <1>3, <1>4

-----------------------------------------------------------------------------
(* Newlines *)

One(c) == IF c = Newline THEN << "\r", Newline >> ELSE << c >>

\* A set that has what uart_write sends of its members.
Closed(C) == Newline \in C /\ "\r" \in C

LEMMA OneIn ==
    ASSUME NEW C, Closed(C), NEW c \in C
    PROVE  One(c) \in Seq(C)
BY DEF One, Closed

\* uart_write sends one character after the other.
LEMMA CrlfIs ==
    ASSUME NEW C, Closed(C), NEW s \in Seq(C), NEW h, h[0] = << >>,
           \A i \in 0 .. Len(s) : h[i] \in Seq(C),
           \A i \in 1 .. Len(s) : h[i] = h[i - 1] \o One(s[i])
    PROVE  Crlf(s) = h[Len(s)]
<1>1. PICK n \in Nat : n = Len(s)
  OBVIOUS
<1> DEFINE sq == [i \in 1 .. n |-> One(s[i])]
           E(f, i) == IF i = 1 THEN sq[i] ELSE f[i - 1] \o sq[i]
           F(f) == [i \in 1 .. n |-> E(f, i)]
           it == CHOOSE f : f = F(f)
<1>2. Crlf(s) = FlattenSeq(sq)
  BY <1>1 DEF Crlf, One
<1>3. Len(sq) = n /\ \A i \in 1 .. n : sq[i] = One(s[i])
  OBVIOUS
<1>4. CASE n = 0
  <2>1. sq = << >>
    BY <1>4
  <2>2. FlattenSeq(sq) = sq
    BY <1>3, <1>4 DEF FlattenSeq
  <2> QED
    BY <1>1, <1>2, <1>4, <2>1, <2>2
<1>5. CASE n # 0
  <2> HIDE DEF sq
  <2>1. FlattenSeq(sq) = it[n]
    BY <1>3, <1>5 DEF FlattenSeq
  <2> DEFINE g == [i \in 1 .. n |-> h[i]]
  <2>2. ASSUME NEW i \in 1 .. n PROVE h[i] = E(g, i)
    <3>1. h[i] = h[i - 1] \o sq[i]
      BY <1>1, <1>3
    <3>2. CASE i = 1
      <4>1. h[i - 1] = << >> /\ sq[i] \in Seq(C)
        <5>1. i - 1 = 0 /\ s[i] \in C
          BY <1>1, <3>2
        <5> QED
          BY <1>3, <5>1, OneIn
      <4> QED
        BY <3>1, <3>2, <4>1
    <3>3. CASE i # 1
      <4>1. i - 1 \in 1 .. n
        BY <3>3
      <4>2. g[i - 1] = h[i - 1]
        BY <4>1
      <4> QED
        BY <3>1, <3>3, <4>2
    <3> QED
      BY <3>2, <3>3
  <2>3. g = F(g)
    <3> HIDE DEF E
    <3> QED
      BY <2>2
  <2>4. it = F(it)
    BY <2>3
  <2> HIDE DEF it
  <2>5. ASSUME NEW i \in 1 .. n PROVE it[i] = E(it, i)
    <3> HIDE DEF E
    <3>1. F(it)[i] = E(it, i)
      OBVIOUS
    <3> QED
      BY <2>4, <3>1
  <2> DEFINE T == { i \in 0 .. n : i = 0 \/ it[i] = h[i] }
  <2>6. 0 \in T
    OBVIOUS
  <2>7. ASSUME NEW i \in 0 .. n - 1, i \in T PROVE i + 1 \in T
    <3>1. i + 1 \in 1 .. n /\ (i + 1) - 1 = i /\ i + 1 \in 0 .. n
      OBVIOUS
    <3>2. h[i + 1] = E(g, i + 1)
      BY <2>2, <3>1
    <3>3. CASE i = 0
      <4>1. it[i + 1] = sq[i + 1] /\ h[i + 1] = sq[i + 1]
        BY <2>5, <3>1, <3>2, <3>3
      <4> QED
        BY <3>1, <4>1
    <3>4. CASE i # 0
      <4>1. g[i] = h[i] /\ it[i] = h[i] /\ i + 1 # 1
        BY <2>7, <3>4
      <4>2. it[i + 1] = it[i] \o sq[i + 1] /\ h[i + 1] = g[i] \o sq[i + 1]
        BY <2>5, <3>1, <3>2, <4>1
      <4> QED
        BY <3>1, <4>1, <4>2
    <3> QED
      BY <3>3, <3>4
  <2>8. 0 .. n \subseteq T
    <3> HIDE DEF T
    <3> QED
      BY <2>6, <2>7, SetInduction
  <2>9. it[n] = h[n]
    <3>1. n \in 0 .. n
      OBVIOUS
    <3> QED
      BY <1>5, <2>8, <3>1
  <2> QED
    BY <1>1, <1>2, <2>1, <2>9
<1> QED
  BY <1>4, <1>5

\* h is Crlf of the prefixes of s.
LEMMA CrlfRuns ==
    ASSUME NEW C, Closed(C), NEW s \in Seq(C)
    PROVE  \E h : /\ h[0] = << >> /\ h[Len(s)] = Crlf(s)
                  /\ \A i \in 0 .. Len(s) : h[i] \in Seq(C)
                  /\ \A i \in 1 .. Len(s) : h[i] = h[i - 1] \o One(s[i])
<1>1. PICK n \in Nat : n = Len(s)
  OBVIOUS
<1> DEFINE V == Seq(C)
           G == [a \in (1 .. n) \X V |-> a[2] \o One(s[a[1]])]
<1>2. \A i \in 1 .. n, p \in V : G[<< i, p >>] = p \o One(s[i])
  OBVIOUS
<1>3. IsStep(G, n, V)
  <2>1. ASSUME NEW i \in 1 .. n, NEW p \in V PROVE p \o One(s[i]) \in V
    <3>1. s[i] \in C
      BY <1>1
    <3>2. One(s[i]) \in Seq(C)
      BY <3>1, OneIn
    <3> QED
      BY <3>2
  <2>2. \A a \in (1 .. n) \X V : a[1] \in 1 .. n /\ a[2] \in V
    OBVIOUS
  <2> HIDE DEF V
  <2> QED
    BY <2>1, <2>2 DEF IsStep
<1>4. << >> \in V
  OBVIOUS
<1> HIDE DEF G, V
<1>5. PICK h : Iterates(h, n, V, << >>, G)
  BY <1>3, <1>4, IterationExists
<1>6. h[0] = << >> /\ \A i \in 0 .. n : h[i] \in V
  BY <1>5 DEF Iterates
<1>7. \A i \in 1 .. n : h[i] = h[i - 1] \o One(s[i])
  <2>1. \A i \in 1 .. n : i - 1 \in 0 .. n
    OBVIOUS
  <2> QED
    BY <1>2, <1>5, <1>6, <2>1 DEF Iterates
<1>8. Crlf(s) = h[Len(s)]
  BY <1>1, <1>6, <1>7, CrlfIs DEF V
<1> QED
  BY <1>1, <1>6, <1>7, <1>8 DEF V

LEMMA CrlfOfNone == Crlf(<< >>) = << >>
<1> DEFINE C == {Newline, "\r"}
<1>1. Closed(C) /\ << >> \in Seq(C) /\ Len(<< >>) = 0
  BY DEF Closed
<1>2. PICK s : s = << >>
  OBVIOUS
<1> HIDE DEF C
<1>3. s \in Seq(C) /\ Len(s) = 0
  BY <1>1, <1>2
<1>4. PICK h : h[0] = << >> /\ h[Len(s)] = Crlf(s)
  BY <1>1, <1>3, CrlfRuns
<1> QED
  BY <1>2, <1>3, <1>4

\* One more character, one more piece of what uart_write sends.
LEMMA CrlfSteps ==
    ASSUME NEW C, Closed(C), NEW s \in Seq(C), NEW c \in C
    PROVE  /\ Crlf(s) \in Seq(C) /\ Crlf(Append(s, c)) = Crlf(s) \o One(c)
<1>1. PICK t \in Seq(C), n \in Nat : t = Append(s, c) /\ n = Len(s)
  <2>1. Append(s, c) \in Seq(C) /\ Len(s) \in Nat
    OBVIOUS
  <2> QED
    BY <2>1
<1>2. Len(t) = n + 1 /\ t[n + 1] = c /\ \A i \in 1 .. n : t[i] = s[i]
  BY <1>1
<1>3. PICK h : /\ h[0] = << >> /\ h[Len(t)] = Crlf(t)
               /\ \A i \in 0 .. Len(t) : h[i] \in Seq(C)
               /\ \A i \in 1 .. Len(t) : h[i] = h[i - 1] \o One(t[i])
  BY CrlfRuns
<1>4. /\ \A i \in 0 .. n : h[i] \in Seq(C)
      /\ \A i \in 1 .. n : h[i] = h[i - 1] \o One(s[i])
  <2>1. 0 .. n \subseteq 0 .. n + 1 /\ 1 .. n \subseteq 1 .. n + 1
    OBVIOUS
  <2> QED
    BY <1>2, <1>3, <2>1
<1>5. Crlf(s) = h[n]
  BY <1>1, <1>3, <1>4, CrlfIs
<1>6. n + 1 \in 1 .. n + 1 /\ (n + 1) - 1 = n /\ n \in 0 .. n
  OBVIOUS
<1>7. Crlf(t) = h[n] \o One(c)
  BY <1>2, <1>3, <1>6
<1>8. h[n] \in Seq(C)
  BY <1>4, <1>6
<1> QED
  BY <1>1, <1>5, <1>7, <1>8

-----------------------------------------------------------------------------
(* The buffer *)

\* What the port has been given, and will be when the buffer is written out.
Sent(f) == f.out \o Crlf(f.buff)

\* The file between two characters: there is room for one.
Files(C) == { f \in [buff : Seq(C), out : Seq(C)] : Len(f.buff) < BufSize }

\* putc loses nothing and leaves room (putc:60, fflush:45).
LEMMA PutcSends ==
    ASSUME NEW C, Closed(C), NEW f \in Files(C), NEW c \in C
    PROVE  Putc(f, c) \in Files(C) /\ Sent(Putc(f, c)) = Sent(f) \o One(c)
<1>1. BufSize \in Nat \ {0}
  BY TextAssumption
<1>2. PICK b \in Seq(C), o \in Seq(C) : f = [buff |-> b, out |-> o] /\ Len(b) < BufSize
  BY DEF Files
<1>3. PICK t \in Seq(C) : t = Append(b, c) /\ Len(t) = Len(b) + 1
  <2>1. Append(b, c) \in Seq(C) /\ Len(Append(b, c)) = Len(b) + 1
    OBVIOUS
  <2> QED
    BY <2>1
<1>4. [f EXCEPT !.buff = Append(@, c)] = [buff |-> t, out |-> o]
  <2>1. [[buff |-> b, out |-> o] EXCEPT !.buff = t] = [buff |-> t, out |-> o]
    OBVIOUS
  <2>2. f.buff = b
    BY <1>2
  <2>3. [f EXCEPT !.buff = Append(@, c)] = [f EXCEPT !.buff = Append(b, c)]
    BY <2>2
  <2> QED
    BY <1>2, <1>3, <2>1, <2>3
<1>5. PICK x \in Seq(C), y \in Seq(C), z \in Seq(C) : x = Crlf(b) /\ y = One(c) /\ z = Crlf(t)
  BY CrlfSteps, OneIn
<1>6. z = x \o y
  BY <1>3, <1>5, CrlfSteps
<1>7. o \o z = (o \o x) \o y
  BY <1>6
<1>8. Sent(f) = o \o x
  BY <1>2, <1>5 DEF Sent
<1>9. CASE Len(t) = BufSize
  <2>1. Putc(f, c) = [buff |-> << >>, out |-> o \o z]
    BY <1>4, <1>5, <1>9 DEF Putc, Full, Fflush
  <2>2. PICK w \in Seq(C), e \in Seq(C) : w = o \o z /\ e = << >> /\ Len(e) = 0
    <3>1. o \o z \in Seq(C) /\ << >> \in Seq(C) /\ Len(<< >>) = 0
      OBVIOUS
    <3> QED
      BY <3>1
  <2>3. w \o << >> = w
    OBVIOUS
  <2>4. PICK g : g = Putc(f, c)
    OBVIOUS
  <2>5. g = [buff |-> e, out |-> w]
    BY <2>1, <2>2, <2>4
  <2>6. g \in Files(C)
    BY <1>1, <2>2, <2>5 DEF Files
  <2>7. Sent(g) = w
    <3>1. g.out = w /\ g.buff = << >>
      BY <2>2, <2>5
    <3> QED
      BY <2>3, <3>1, CrlfOfNone DEF Sent
  <2> QED
    BY <1>5, <1>7, <1>8, <2>2, <2>4, <2>6, <2>7
<1>10. CASE Len(t) # BufSize
  <2>1. Putc(f, c) = [buff |-> t, out |-> o]
    BY <1>4, <1>10 DEF Putc, Full
  <2>2. Sent(Putc(f, c)) = o \o z
    BY <1>5, <2>1 DEF Sent
  <2>3. Len(b) \in Nat
    OBVIOUS
  <2>4. Len(t) < BufSize
    BY <1>1, <1>2, <1>3, <1>10, <2>3
  <2> QED
    BY <1>5, <1>7, <1>8, <2>1, <2>2, <2>4 DEF Files
<1> QED
  BY <1>9, <1>10

\* So the characters of s are sent after what was there.
LEMMA PutsSends ==
    ASSUME NEW C, Closed(C), NEW s \in Seq(C), NEW f0 \in Files(C)
    PROVE  /\ FoldLeft(Putc, f0, s) \in Files(C)
           /\ Sent(FoldLeft(Putc, f0, s)) = Sent(f0) \o Crlf(s)
<1>1. PICK n \in Nat : n = Len(s) /\ DOMAIN s = 1 .. n
  OBVIOUS
<1> DEFINE V == Files(C)
           E(f, S) == IF S = {} THEN f0 ELSE Putc(f[S \ {Max(S)}], s[Max(S)])
           F(f) == [S \in SUBSET DOMAIN s |-> E(f, S)]
           it == CHOOSE f : f = F(f)
           G == [a \in (1 .. n) \X V |-> Putc(a[2], s[a[1]])]
<1>2. FoldLeft(Putc, f0, s) = it[DOMAIN s]
  BY DEF FoldLeft, MapThenFoldSet
<1>3. \A i \in 1 .. n : s[i] \in C
  BY <1>1
<1>4. \A i \in 1 .. n, p \in V : G[<< i, p >>] = Putc(p, s[i])
  OBVIOUS
<1>5. IsStep(G, n, V)
  <2>1. \A a \in (1 .. n) \X V : a[1] \in 1 .. n /\ a[2] \in V
    OBVIOUS
  <2>2. \A a \in (1 .. n) \X V : Putc(a[2], s[a[1]]) \in V
    BY <1>3, <2>1, PutcSends
  <2> HIDE DEF V
  <2> QED
    BY <2>2 DEF IsStep
<1>6. f0 \in V
  OBVIOUS
<1> HIDE DEF G, V
<1>7. PICK f \in [SUBSET (1 .. n) -> V] : Folds(f, n, V, f0, G)
  BY <1>5, <1>6, FoldExists
<1>8. ASSUME NEW S \in SUBSET (1 .. n), S # {}
      PROVE  Max(S) \in 1 .. n /\ S \ {Max(S)} \in SUBSET (1 .. n)
  BY <1>8, MaxOf
<1>9. f = F(f)
  <2>1. ASSUME NEW S \in SUBSET (1 .. n) PROVE f[S] = E(f, S)
    <3>1. CASE S = {}
      BY <1>7, <3>1 DEF Folds
    <3>2. CASE S # {}
      <4>1. f[S \ {Max(S)}] \in V
        BY <1>8, <3>2
      <4>2. f[S] = G[<< Max(S), f[S \ {Max(S)}] >>]
        BY <1>7, <3>2, <4>1 DEF Folds
      <4> QED
        BY <1>4, <1>8, <3>2, <4>1, <4>2
    <3> QED
      BY <3>1, <3>2
  <2>2. f = [S \in SUBSET (1 .. n) |-> f[S]]
    OBVIOUS
  <2> HIDE DEF E
  <2> QED
    BY <1>1, <2>1, <2>2
<1>10. it = F(it)
  BY <1>9
<1> HIDE DEF it
<1>11. \A S \in SUBSET (1 .. n) : it[S] = E(it, S)
  <2> HIDE DEF E
  <2>1. \A S \in SUBSET (1 .. n) : F(it)[S] = E(it, S)
    BY <1>1
  <2> QED
    BY <1>10, <2>1
<1>12. Folds(it, n, V, f0, G)
  <2>1. it[{}] = f0
    <3>1. {} \in SUBSET (1 .. n)
      OBVIOUS
    <3> QED
      BY <1>11, <3>1
  <2>2. ASSUME NEW S \in SUBSET (1 .. n), S # {}, it[S \ {Max(S)}] \in V
        PROVE  it[S] = G[<< Max(S), it[S \ {Max(S)}] >>]
    <3>1. it[S] = Putc(it[S \ {Max(S)}], s[Max(S)])
      BY <1>11, <2>2
    <3> QED
      BY <1>4, <1>8, <2>2, <3>1
  <2> QED
    BY <2>1, <2>2 DEF Folds
<1>13. PICK h : Iterates(h, n, V, f0, G)
  BY <1>5, <1>6, IterationExists
<1>14. h[0] = f0 /\ \A i \in 0 .. n : h[i] \in V
  BY <1>13 DEF Iterates
<1>15. \A i \in 1 .. n : i - 1 \in 0 .. n /\ h[i] = G[<< i, h[i - 1] >>]
  <2>1. \A i \in 1 .. n : i - 1 \in 0 .. n
    OBVIOUS
  <2> QED
    BY <1>13, <2>1 DEF Iterates
<1>16. it[1 .. n] = h[n]
  BY <1>6, <1>12, <1>14, <1>15, FoldValue
<1>17. \A i \in 1 .. n : h[i] = Putc(h[i - 1], s[i])
  BY <1>4, <1>14, <1>15
<1>18. PICK r : /\ r[0] = << >> /\ r[n] = Crlf(s)
                /\ \A i \in 0 .. n : r[i] \in Seq(C)
                /\ \A i \in 1 .. n : r[i] = r[i - 1] \o One(s[i])
  <2>1. \E r : /\ r[0] = << >> /\ r[Len(s)] = Crlf(s)
               /\ \A i \in 0 .. Len(s) : r[i] \in Seq(C)
               /\ \A i \in 1 .. Len(s) : r[i] = r[i - 1] \o One(s[i])
    BY CrlfRuns
  <2> QED
    BY <1>1, <2>1
<1>19. PICK o \in Seq(C) : o = Sent(f0)
  <2>1. PICK b \in Seq(C), u \in Seq(C) : f0 = [buff |-> b, out |-> u]
    BY DEF Files
  <2>2. Sent(f0) = u \o Crlf(b)
    BY <2>1 DEF Sent
  <2>3. PICK x \in Seq(C) : x = Crlf(b)
    <3>1. Newline \in C
      BY DEF Closed
    <3> QED
      BY <3>1, CrlfSteps
  <2>4. u \o x \in Seq(C)
    OBVIOUS
  <2> QED
    BY <2>2, <2>3, <2>4
<1> DEFINE T == { i \in 0 .. n : Sent(h[i]) = o \o r[i] }
<1>20. 0 \in T
  <2>1. o \o << >> = o
    OBVIOUS
  <2> QED
    BY <1>14, <1>18, <1>19, <2>1
<1>21. ASSUME NEW i \in 0 .. n - 1, i \in T PROVE i + 1 \in T
  <2>1. i + 1 \in 1 .. n /\ (i + 1) - 1 = i /\ i \in 0 .. n /\ i + 1 \in 0 .. n
    OBVIOUS
  <2>2. PICK x \in Seq(C), y \in Seq(C) : x = r[i] /\ y = One(s[i + 1])
    BY <1>3, <1>18, <2>1, OneIn
  <2>3. h[i + 1] = Putc(h[i], s[i + 1]) /\ h[i] \in V
    BY <1>14, <1>17, <2>1
  <2>4. Sent(h[i + 1]) = (o \o x) \o y
    <3>1. Sent(h[i + 1]) = Sent(h[i]) \o y
      BY <1>3, <2>1, <2>2, <2>3, PutcSends DEF V
    <3> QED
      BY <1>21, <2>2, <3>1
  <2>5. r[i + 1] = x \o y
    BY <1>18, <2>1, <2>2
  <2>6. (o \o x) \o y = o \o (x \o y)
    OBVIOUS
  <2> QED
    BY <2>1, <2>4, <2>5, <2>6
<1>22. 0 .. n \subseteq T
  <2> HIDE DEF T
  <2> QED
    BY <1>20, <1>21, SetInduction
<1>23. n \in T /\ n \in 0 .. n
  <2>1. n \in 0 .. n
    OBVIOUS
  <2> HIDE DEF T
  <2> QED
    BY <1>22, <2>1
<1> QED
  BY <1>1, <1>2, <1>14, <1>16, <1>18, <1>19, <1>23 DEF V

-----------------------------------------------------------------------------
(* The conversions *)

\* What is printed.
Chars == { Digits[i] : i \in 1 .. 16 } \cup {"A", Newline, "\r", "-", "x", "%", "q"}

\* The characters printf can be asked for are closed under what uart_write adds.
LEMMA CharsAre ==
    /\ Closed(Chars) /\ {"0", "a", "b", "c", "A", "-", "x", "%", "q", Newline} \subseteq Chars
    /\ \A i \in 1 .. 16 : Digits[i] \in Chars
<1>1. \A i \in 1 .. 16 : Digits[i] \in Chars
  BY DEF Chars
<1>2. Digits[1] = "0" /\ Digits[11] = "a" /\ Digits[12] = "b" /\ Digits[13] = "c"
  BY DEF Digits
<1>3. {"0", "a", "b", "c"} \subseteq Chars
  <2>1. Digits[1] \in Chars /\ Digits[11] \in Chars /\ Digits[12] \in Chars /\ Digits[13] \in Chars
    BY <1>1
  <2> QED
    BY <1>2, <2>1
<1>4. Closed(Chars) /\ {"A", "-", "x", "%", "q", Newline} \subseteq Chars
  BY DEF Closed, Chars
<1> QED
  BY <1>1, <1>3, <1>4

LEMMA DigitIn ==
    ASSUME NEW b \in Bases, NEW n \in Nat, NEW j \in Nat
    PROVE  DigitAt(n, b, j) \in Chars
<1>1. PICK p \in Nat \ {0} : p = Power(b, j)
  BY PowerGrows
<1>2. PICK q \in Nat : q = n \div p
  BY DivisionParts
<1>3. b \in Nat \ {0}
  BY DEF Bases
<1>4. PICK r \in Nat : r = q % b /\ r < b
  BY <1>3, DivisionParts
<1>5. r + 1 \in 1 .. 16
  BY <1>4 DEF Bases
<1> QED
  BY <1>1, <1>2, <1>4, <1>5, CharsAre DEF DigitAt

LEMMA NumberIn ==
    ASSUME NEW b \in Bases, NEW n \in Nat
    PROVE  Number(n, b) \in Seq(Chars)
<1>1. PICK k \in Nat : k = Places(n, b)
  BY PlacesIs
<1>2. Conv(n, b) = [i \in 1 .. k |-> DigitAt(n, b, k - i)]
  BY <1>1, ConvInPlaces
<1>3. \A i \in 1 .. k : DigitAt(n, b, k - i) \in Chars
  <2>1. \A i \in 1 .. k : k - i \in Nat
    OBVIOUS
  <2> QED
    BY <2>1, DigitIn
<1>4. Conv(n, b) \in [1 .. k -> Chars]
  BY <1>2, <1>3
<1>5. Conv(n, b) \in Seq(Chars)
  BY <1>4
<1>6. << "0" >> \in Seq(Chars)
  <2>1. "0" \in Chars
    BY CharsAre
  <2> QED
    BY <2>1
<1> QED
  BY <1>5, <1>6 DEF Number

\* A word is less than any base has digits for.
LEMMA WordFits ==
    ASSUME NEW v \in 0 .. Modulus - 1, NEW b \in Bases
    PROVE  v \in Nat /\ v < Power(b, MaxPlaces) /\ Number(v, b) = Numeral(v, b)
<1>1. Modulus \in Nat /\ MaxPlaces \in Nat /\ Modulus <= Power(b, MaxPlaces)
  BY TextAssumption, PlacesAreEnough DEF Bases
<1>2. Power(b, MaxPlaces) \in Nat
  BY <1>1, PowerGrows
<1>3. v \in Nat /\ v < Power(b, MaxPlaces)
  BY <1>1, <1>2
<1> QED
  BY <1>3, NumberIsNumeral

\* The word as the opposite of a number.
LEMMA NegatedWord ==
    ASSUME NEW m \in Nat, NEW v \in 1 .. m - 1
    PROVE  (-v) % m = m - v
<1>1. PICK n \in Int : n = -v /\ n < 0 /\ -m < n
  <2>1. -v \in Int /\ -v < 0 /\ -m < -v
    OBVIOUS
  <2> QED
    BY <2>1
<1>2. m > 0
  OBVIOUS
<1>3. n = m * (n \div m) + (n % m)
  BY <1>2
<1>4. n % m \in 0 .. m - 1
  BY <1>2
<1>5. n \div m \in Int
  BY <1>2
<1>6. PICK q \in Int, r \in Nat : q = n \div m /\ r = n % m /\ r < m /\ n = m * q + r
  <2>1. n % m \in Nat /\ n % m < m
    BY <1>4
  <2> QED
    BY <1>3, <1>5, <2>1
<1>7. ~(q >= 0)
  <2> SUFFICES ASSUME q >= 0 PROVE FALSE
    OBVIOUS
  <2>1. m * q >= 0
    OBVIOUS
  <2> QED
    BY <1>1, <1>6, <2>1
<1>8. ~(q < -1)
  <2> SUFFICES ASSUME q < -1 PROVE FALSE
    OBVIOUS
  <2>1. PICK d \in Nat : q = -2 - d
    <3>1. -2 - q \in Nat /\ q = -2 - (-2 - q)
      OBVIOUS
    <3> QED
      BY <3>1
  <2>2. m * q = -(m + m) - m * d /\ m * d \in Nat
    BY <2>1
  <2> QED
    BY <1>1, <1>6, <2>2
<1>9. q = -1
  BY <1>7, <1>8
<1>10. n = -m + r
  BY <1>6, <1>9
<1> QED
  BY <1>1, <1>6, <1>10

\* print_int prints the word as a signed number.
LEMMA SignedIs ==
    ASSUME NEW v \in 0 .. Modulus - 1
    PROVE  /\ Signed(v) = IF 2 * v >= Modulus THEN << "-" >> \o Numeral(Modulus - v, 10)
                          ELSE Numeral(v, 10)
           /\ Signed(v) \in Seq(Chars)
<1>1. Modulus \in Nat /\ Modulus % 2 = 0 /\ Modulus >= 256
  BY TextAssumption
<1>2. 10 \in Bases
  BY DEF Bases
<1>3. v < Modulus \div 2 <=> ~(2 * v >= Modulus)
  BY <1>1
<1>4. CASE v < Modulus \div 2
  <2>1. Signed(v) = Number(v, 10)
    BY <1>4 DEF Signed
  <2>2. v \in Nat /\ Number(v, 10) = Numeral(v, 10)
    BY <1>2, WordFits
  <2> QED
    BY <1>2, <1>3, <1>4, <2>1, <2>2, NumberIn
<1>5. CASE ~(v < Modulus \div 2)
  <2>1. v \in 1 .. Modulus - 1
    BY <1>1, <1>3, <1>5
  <2>2. (-v) % Modulus = Modulus - v
    BY <1>1, <2>1, NegatedWord
  <2>3. PICK w \in 0 .. Modulus - 1 : w = Modulus - v
    <3>1. Modulus - v \in 0 .. Modulus - 1
      BY <1>1, <2>1
    <3> QED
      BY <3>1
  <2>4. Signed(v) = << "-" >> \o Number(w, 10)
    BY <1>5, <2>2, <2>3 DEF Signed
  <2>5. w \in Nat /\ Number(w, 10) = Numeral(w, 10)
    BY <1>2, WordFits
  <2>6. Number(w, 10) \in Seq(Chars) /\ << "-" >> \in Seq(Chars)
    <3>1. "-" \in Chars
      BY CharsAre
    <3> QED
      BY <1>2, <2>5, <3>1, NumberIn
  <2> QED
    BY <1>3, <1>5, <2>3, <2>4, <2>5, <2>6
<1> QED
  BY <1>4, <1>5

\* Every conversion prints its argument in C's digits.
LEMMA FormattedIsAsked ==
    ASSUME NEW ch \in Conversions, NEW v \in 0 .. Modulus - 1
    PROVE  Formatted(ch, v) = Asked(ch, v) /\ Formatted(ch, v) \in Seq(Chars)
<1>1. v \in Nat /\ {8, 10, 16} = Bases
  BY TextAssumption DEF Bases
<1>2. /\ \A b \in {8, 10, 16} : Number(v, b) = Numeral(v, b) /\ Number(v, b) \in Seq(Chars)
  BY <1>1, WordFits, NumberIn
<1>3. CASE ch = "d"
  <2>1. Formatted(ch, v) = Signed(v)
    BY <1>3 DEF Formatted
  <2>2. Asked(ch, v) = IF 2 * v >= Modulus THEN << "-" >> \o Numeral(Modulus - v, 10)
                       ELSE Numeral(v, 10)
    BY <1>3 DEF Asked
  <2> QED
    BY <2>1, <2>2, SignedIs
<1>4. CASE ch = "u"
  <2>1. Formatted(ch, v) = Number(v, 10) /\ Asked(ch, v) = Numeral(v, 10)
    BY <1>4 DEF Formatted, Asked
  <2> QED
    BY <1>2, <2>1
<1>5. CASE ch = "o"
  <2>1. Formatted(ch, v) = Number(v, 8) /\ Asked(ch, v) = Numeral(v, 8)
    BY <1>5 DEF Formatted, Asked
  <2> QED
    BY <1>2, <2>1
<1>6. CASE ch = "x"
  <2>1. Formatted(ch, v) = Number(v, 16) /\ Asked(ch, v) = Numeral(v, 16)
    BY <1>6 DEF Formatted, Asked
  <2> QED
    BY <1>2, <2>1
<1>7. CASE ch = "p"
  <2>1. /\ Formatted(ch, v) = << "0", "x" >> \o Number(v, 16)
        /\ Asked(ch, v) = << "0", "x" >> \o Numeral(v, 16)
    BY <1>7 DEF Formatted, Asked
  <2>2. << "0", "x" >> \in Seq(Chars)
    <3>1. "0" \in Chars /\ "x" \in Chars
      BY CharsAre
    <3> QED
      BY <3>1
  <2>3. PICK s \in Seq(Chars), t \in Seq(Chars) :
           s = << "0", "x" >> /\ t = Number(v, 16) /\ t = Numeral(v, 16)
    BY <1>2, <2>2
  <2>4. s \o t \in Seq(Chars)
    OBVIOUS
  <2> QED
    BY <2>1, <2>3, <2>4
<1>8. CASE ch \in {"s", "c", "%", "q"}
  <2>1. Asked(ch, v) = Formatted(ch, v)
    BY <1>8 DEF Asked
  <2>2. CASE ch = "s"
    <3>1. Formatted(ch, v) = SubSeq(<< "a", Newline, "b", "c" >>, 1, v % 5)
      BY <2>2 DEF Formatted, StringAt
    <3>2. v % 5 \in 0 .. 4
      BY <1>1
    <3>3. "a" \in Chars /\ "b" \in Chars /\ "c" \in Chars /\ Newline \in Chars
      BY CharsAre
    <3>4. PICK t \in Seq(Chars) : t = << "a", Newline, "b", "c" >> /\ Len(t) = 4
      <4>1. << "a", Newline, "b", "c" >> \in Seq(Chars)
        BY <3>3
      <4> QED
        BY <4>1
    <3>5. PICK k \in 0 .. 4 : k = v % 5
      BY <3>2
    <3>6. SubSeq(t, 1, k) \in Seq(Chars)
      BY <3>4
    <3> QED
      BY <2>1, <3>1, <3>4, <3>5, <3>6
  <2>3. CASE ch = "c"
    <3>1. Formatted(ch, v) = << CharAt(v) >>
      BY <2>3 DEF Formatted
    <3>2. CharAt(v) \in Chars
      <4>1. "c" \in Chars /\ Newline \in Chars
        BY CharsAre
      <4> QED
        BY <4>1 DEF CharAt
    <3>3. << CharAt(v) >> \in Seq(Chars)
      BY <3>2
    <3> QED
      BY <2>1, <3>1, <3>3
  <2>4. CASE ch = "%"
    <3>1. Formatted(ch, v) = << "%" >> /\ "%" \in Chars
      BY <2>4, CharsAre DEF Formatted
    <3>2. << "%" >> \in Seq(Chars)
      BY <3>1
    <3> QED
      BY <2>1, <3>1, <3>2
  <2>5. CASE ch = "q"
    <3>1. Formatted(ch, v) = << "%", ch >> /\ "%" \in Chars /\ ch \in Chars
      BY <2>5, CharsAre DEF Formatted
    <3>2. << "%", ch >> \in Seq(Chars)
      BY <3>1
    <3> QED
      BY <2>1, <3>1, <3>2
  <2> QED
    BY <1>8, <2>2, <2>3, <2>4, <2>5
<1> QED
  BY <1>3, <1>4, <1>5, <1>6, <1>7, <1>8 DEF Conversions

-----------------------------------------------------------------------------
(* printf *)

PrintShape ==
    /\ args \in [1 .. MaxItems -> Numbers]
    /\ asked \in [items : Nat, convs : Nat, astray : BOOLEAN]
    /\ taken \in Nat /\ taken <= asked.items /\ asked.convs <= asked.items
    /\ buff \in Seq(Chars) /\ out \in Seq(Chars) /\ want \in Seq(Chars)
    /\ Len(buff) < BufSize

\* While every conversion had its own argument, what was sent and what is still in
\* the buffer is what was asked for; and the buffer of a finished call is empty.
PrintInv ==
    /\ PrintShape
    /\ ~asked.astray => out \o Crlf(buff) = want
    /\ job = "printed" => buff = << >>

LEMMA PrintInvInit == TextInit => PrintInv
<1> SUFFICES ASSUME TextInit PROVE PrintInv
  OBVIOUS
<1>1. BufSize \in Nat \ {0} /\ MaxItems \in Nat /\ Numbers # {}
  BY TextAssumption
<1>2. args \in [1 .. MaxItems -> Numbers]
  BY <1>1 DEF TextInit
<1>3. << >> \in Seq(Chars) /\ Len(<< >>) = 0
  OBVIOUS
<1>4. PrintShape
  BY <1>1, <1>2, <1>3 DEF TextInit, PrintShape
<1>5. << >> \o Crlf(<< >>) = << >>
  BY CrlfOfNone
<1> QED
  BY <1>4, <1>5 DEF TextInit, PrintInv

\* A step that prints s: what is out and what is in the buffer grow by it.
LEMMA PutsIs ==
    ASSUME NEW s \in Seq(Chars), PrintShape, Puts(s)
    PROVE  /\ buff' \in Seq(Chars) /\ out' \in Seq(Chars) /\ Len(buff') < BufSize
           /\ out' \o Crlf(buff') = (out \o Crlf(buff)) \o Crlf(s)
<1>1. PICK f0 : f0 = [buff |-> buff, out |-> out]
  OBVIOUS
<1>2. f0 \in Files(Chars) /\ Sent(f0) = out \o Crlf(buff)
  BY <1>1 DEF PrintShape, Files, Sent
<1>3. PICK f : f = FoldLeft(Putc, f0, s)
  OBVIOUS
<1>4. buff' = f.buff /\ out' = f.out
  BY <1>1, <1>3 DEF Puts
<1>5. f \in Files(Chars) /\ Sent(f) = Sent(f0) \o Crlf(s)
  BY <1>2, <1>3, CharsAre, PutsSends
<1> QED
  BY <1>2, <1>4, <1>5 DEF Files, Sent

LEMMA CrlfIn ==
    ASSUME NEW s \in Seq(Chars)
    PROVE  Crlf(s) \in Seq(Chars)
<1>1. Closed(Chars) /\ Newline \in Chars
  BY CharsAre DEF Closed
<1> QED
  BY <1>1, CrlfSteps

\* Every step keeps PrintInv; a conversion that took another's argument is astray.
LEMMA PrintInvStep == PrintInv /\ [TextNext]_textVars => PrintInv'
<1> SUFFICES ASSUME PrintInv, [TextNext]_textVars PROVE PrintInv'
  OBVIOUS
<1>1. PrintShape
  BY DEF PrintInv
<1>2. CASE UNCHANGED << job, printVars >>
  BY <1>2 DEF PrintInv, PrintShape, printVars
<1>3. ASSUME NEW c \in {"A", Newline}, Plain(c) PROVE PrintInv'
  <2>1. << c >> \in Seq(Chars)
    <3>1. c \in Chars
      BY CharsAre
    <3> QED
      BY <3>1
  <2>2. Puts(<< c >>) /\ want' = want \o Crlf(<< c >>) /\ UNCHANGED << job, args, taken >>
        /\ asked' = [asked EXCEPT !.items = @ + 1] /\ job = "printf"
    BY <1>3 DEF Plain, Printing
  <2>3. PICK s \in Seq(Chars) : s = << c >>
    BY <2>1
  <2>4. /\ buff' \in Seq(Chars) /\ out' \in Seq(Chars) /\ Len(buff') < BufSize
        /\ out' \o Crlf(buff') = (out \o Crlf(buff)) \o Crlf(s)
    BY <1>1, <2>2, <2>3, PutsIs
  <2>5. PICK x \in Seq(Chars) : x = Crlf(s)
    BY CrlfIn
  <2>6. want' = want \o x /\ want' \in Seq(Chars)
    BY <1>1, <2>2, <2>3, <2>5 DEF PrintShape
  <2>7. PICK i \in Nat, k \in Nat, a \in BOOLEAN : asked = [items |-> i, convs |-> k, astray |-> a]
    BY <1>1 DEF PrintShape
  <2>8. asked' = [items |-> i + 1, convs |-> k, astray |-> a]
    BY <2>2, <2>7
  <2>9. PrintShape'
    <3>1. taken \in Nat /\ taken <= i /\ k <= i
      BY <1>1, <2>7 DEF PrintShape
    <3>2. taken' \in Nat /\ taken' <= i + 1 /\ k <= i + 1
      BY <2>2, <3>1
    <3>3. asked' \in [items : Nat, convs : Nat, astray : BOOLEAN]
      BY <2>8
    <3>4. taken' <= asked'.items /\ asked'.convs <= asked'.items
      BY <2>8, <3>2
    <3>5. args' \in [1 .. MaxItems -> Numbers]
      BY <1>1, <2>2 DEF PrintShape
    <3> QED
      BY <2>4, <2>6, <3>2, <3>3, <3>4, <3>5 DEF PrintShape
  <2>10. ~asked'.astray => out' \o Crlf(buff') = want'
    <3>1. asked'.astray = asked.astray
      BY <2>7, <2>8
    <3> QED
      BY <2>4, <2>5, <2>6, <3>1 DEF PrintInv
  <2> QED
    BY <2>2, <2>9, <2>10 DEF PrintInv
<1>4. ASSUME NEW ch \in Conversions, Special(ch) PROVE PrintInv'
  <2>1. PICK i \in Nat, k \in Nat, a \in BOOLEAN : asked = [items |-> i, convs |-> k, astray |-> a]
    BY <1>1 DEF PrintShape
  <2>2. /\ job = "printf" /\ i < MaxItems
        /\ Puts(Formatted(ch, args[taken + 1])) /\ taken' = taken + 1
        /\ want' = want \o Crlf(Asked(ch, args[k + 1]))
        /\ asked' = [items |-> i + 1, convs |-> IF ch = "%" THEN k ELSE k + 1,
                     astray |-> a \/ (ch # "%" /\ taken # k)]
        /\ UNCHANGED << job, args >>
    BY <1>4, <2>1 DEF Special, Printing
  <2>3. taken \in Nat /\ taken <= i /\ k <= i /\ MaxItems \in Nat
    BY <1>1, <2>1, TextAssumption DEF PrintShape
  <2>4. taken + 1 \in 1 .. MaxItems /\ k + 1 \in 1 .. MaxItems
    BY <2>2, <2>3
  <2>5. PICK v \in 0 .. Modulus - 1, w \in 0 .. Modulus - 1 :
           v = args[taken + 1] /\ w = args[k + 1]
    <3>1. args[taken + 1] \in Numbers /\ args[k + 1] \in Numbers
      BY <1>1, <2>4 DEF PrintShape
    <3> QED
      BY <3>1, TextAssumption
  <2>6. PICK s \in Seq(Chars) : s = Formatted(ch, v)
    BY FormattedIsAsked
  <2>7. PICK t \in Seq(Chars) : t = Asked(ch, w)
    BY FormattedIsAsked
  <2>8. /\ buff' \in Seq(Chars) /\ out' \in Seq(Chars) /\ Len(buff') < BufSize
        /\ out' \o Crlf(buff') = (out \o Crlf(buff)) \o Crlf(s)
    BY <1>1, <2>2, <2>5, <2>6, PutsIs
  <2>9. PICK x \in Seq(Chars) : x = Crlf(t)
    BY CrlfIn
  <2>10. want' = want \o x /\ want' \in Seq(Chars)
    BY <1>1, <2>2, <2>5, <2>7, <2>9 DEF PrintShape
  <2>11. PrintShape'
    <3>1. taken' \in Nat /\ taken' <= i + 1
      BY <2>2, <2>3
    <3>2. PICK j \in Nat : j = (IF ch = "%" THEN k ELSE k + 1) /\ j <= i + 1
      BY <2>3
    <3>3. PICK b \in BOOLEAN : b = (a \/ (ch # "%" /\ taken # k))
      OBVIOUS
    <3>4. asked' = [items |-> i + 1, convs |-> j, astray |-> b]
      BY <2>2, <3>2, <3>3
    <3> QED
      BY <1>1, <2>2, <2>8, <2>10, <3>1, <3>2, <3>4 DEF PrintShape
  <2>12. ASSUME ~asked'.astray PROVE out' \o Crlf(buff') = want'
    <3>1. ~a /\ (ch = "%" \/ taken = k)
      BY <2>2, <2>12
    <3>2. s = t
      <4>1. CASE ch = "%"
        BY <2>6, <2>7, <4>1 DEF Asked, Formatted
      <4>2. CASE taken = k
        BY <2>5, <2>6, <2>7, <4>2, FormattedIsAsked
      <4> QED
        BY <3>1, <4>1, <4>2
    <3>3. out \o Crlf(buff) = want
      BY <2>1, <3>1 DEF PrintInv
    <3> QED
      BY <2>8, <2>9, <2>10, <3>2, <3>3
  <2> QED
    BY <2>2, <2>11, <2>12 DEF PrintInv
<1>5. CASE Close
  <2>1. PICK b \in Seq(Chars), o \in Seq(Chars) : b = buff /\ o = out
    BY <1>1 DEF PrintShape
  <2>2. PICK x \in Seq(Chars) : x = Crlf(b)
    BY CrlfIn
  <2>3. buff' = << >> /\ out' = o \o x /\ UNCHANGED << args, taken, want, asked >>
    BY <1>5, <2>1, <2>2 DEF Close, Fflush
  <2>4. PICK y \in Seq(Chars) : y = o \o x
    <3>1. o \o x \in Seq(Chars)
      OBVIOUS
    <3> QED
      BY <3>1
  <2>5. y \o << >> = y
    OBVIOUS
  <2>6. << >> \in Seq(Chars) /\ Len(<< >>) < BufSize
    <3>1. BufSize \in Nat \ {0} /\ Len(<< >>) = 0
      BY TextAssumption
    <3> QED
      BY <3>1
  <2>7. PrintShape'
    BY <1>1, <2>3, <2>4, <2>6 DEF PrintShape
  <2>8. out' \o Crlf(buff') = out \o Crlf(buff)
    BY <2>1, <2>2, <2>3, <2>4, <2>5, CrlfOfNone
  <2> QED
    BY <2>3, <2>7, <2>8 DEF PrintInv
<1>6. ASSUME NEW c \in Characters, Read(c) PROVE PrintInv'
  BY <1>2, <1>6 DEF Read
<1>7. CASE UNCHANGED textVars
  BY <1>2, <1>7 DEF textVars
<1>8. CASE ReadEnd
  BY <1>1, <1>8 DEF ReadEnd, PrintInv, PrintShape, printVars
<1> QED
  BY <1>3, <1>4, <1>5, <1>6, <1>7, <1>8 DEF TextNext

LEMMA PrintInvMeans == PrintInv => PrintedAsAsked
<1> SUFFICES ASSUME PrintInv PROVE PrintedAsAsked
  OBVIOUS
<1>1. Len(buff) < BufSize /\ out \in Seq(Chars)
  BY DEF PrintInv, PrintShape
<1>2. ASSUME ~asked.astray, job = "printed" PROVE out = want
  <2>1. out \o Crlf(buff) = want /\ buff = << >>
    BY <1>2 DEF PrintInv
  <2>2. PICK o \in Seq(Chars) : o = out
    BY <1>1
  <2>3. o \o << >> = o
    OBVIOUS
  <2> QED
    BY <2>1, <2>2, <2>3, CrlfOfNone
<1> QED
  BY <1>1, <1>2 DEF PrintInv, PrintedAsAsked

\* What printf writes is what C's printf writes, newlines made CR LF, at every buffer
\* size, word and format, until a conversion behind a %% (printf.c:45-214).
THEOREM OutputIsAsAsked == TextSpec => []PrintedAsAsked
<1>1. TextInit => PrintInv
  BY PrintInvInit
<1>2. PrintInv /\ [TextNext]_textVars => PrintInv'
  BY PrintInvStep
<1>3. PrintInv => PrintedAsAsked
  BY PrintInvMeans
<1> QED
  BY <1>1, <1>2, <1>3, PTL DEF TextSpec

-----------------------------------------------------------------------------
(* The value of a string of digits *)

LEMMA DigitsAre ==
    /\ Digits[1] = "0" /\ Digits[2] = "1" /\ Digits[3] = "2" /\ Digits[4] = "3"
    /\ Digits[5] = "4" /\ Digits[6] = "5" /\ Digits[7] = "6" /\ Digits[8] = "7"
    /\ Digits[9] = "8" /\ Digits[10] = "9" /\ Digits[11] = "a" /\ Digits[12] = "b"
    /\ Digits[13] = "c" /\ Digits[14] = "d" /\ Digits[15] = "e" /\ Digits[16] = "f"
BY DEF Digits

LEMMA DigitsDiffer ==
    ASSUME NEW i \in 1 .. 16, NEW j \in 1 .. 16, Digits[i] = Digits[j]
    PROVE  i = j
<1>1. i \in 1 .. 8 \/ i \in 9 .. 16
  OBVIOUS
<1>2. j \in 1 .. 8 \/ j \in 9 .. 16
  OBVIOUS
<1>3. CASE i \in 1 .. 8 /\ j \in 1 .. 8
  BY <1>3, DigitsAre
<1>4. CASE i \in 1 .. 8 /\ j \in 9 .. 16
  BY <1>4, DigitsAre
<1>5. CASE i \in 9 .. 16 /\ j \in 1 .. 8
  BY <1>5, DigitsAre
<1>6. CASE i \in 9 .. 16 /\ j \in 9 .. 16
  BY <1>6, DigitsAre
<1> QED
  BY <1>1, <1>2, <1>3, <1>4, <1>5, <1>6

\* DigitOf, a CHOOSE, finds the digit, since no two digits are the same.
LEMMA DigitOfIs ==
    /\ \A c : DigitOf(c) \in Nat
    /\ \A d \in 0 .. 15 : DigitOf(Digits[d + 1]) = d
<1>1. ASSUME NEW c PROVE DigitOf(c) \in Nat
  <2>1. CASE \E d \in 1 .. 16 : Digits[d] = c
    <3>1. PICK e \in 1 .. 16 : e = CHOOSE d \in 1 .. 16 : Digits[d] = c
      BY <2>1
    <3>2. DigitOf(c) = e - 1
      BY <2>1, <3>1 DEF DigitOf
    <3> QED
      BY <3>2
  <2>2. CASE ~ \E d \in 1 .. 16 : Digits[d] = c
    BY <2>2 DEF DigitOf, NotDigit
  <2> QED
    BY <2>1, <2>2
<1>2. ASSUME NEW d \in 0 .. 15 PROVE DigitOf(Digits[d + 1]) = d
  <2>1. PICK i \in 1 .. 16 : i = d + 1
    <3>1. d + 1 \in 1 .. 16
      OBVIOUS
    <3> QED
      BY <3>1
  <2> DEFINE c == Digits[i]
  <2>2. PICK e \in 1 .. 16 : e = CHOOSE x \in 1 .. 16 : Digits[x] = c
    BY <2>1
  <2>3. Digits[e] = c
    BY <2>1, <2>2
  <2>4. e = i
    BY <2>1, <2>3, DigitsDiffer
  <2>5. DigitOf(c) = e - 1
    BY <2>1, <2>2 DEF DigitOf
  <2> QED
    BY <2>1, <2>4, <2>5
<1> QED
  BY <1>1, <1>2

\* h adds the digits of s up, each at its place.
Adds(h, s, b, k) ==
    /\ h[0] = 0
    /\ \A i \in 0 .. k : h[i] \in Nat
    /\ \A i \in 1 .. k : h[i] = h[i - 1] + DigitOf(s[i]) * Power(b, k - i)

LEMMA PlaceIn ==
    ASSUME NEW b \in Nat, NEW c, NEW j \in Nat, NEW p \in Nat
    PROVE  p + DigitOf(c) * Power(b, j) \in Nat
<1>1. PICK x \in Nat : x = DigitOf(c)
  BY DigitOfIs
<1>2. PICK y \in Nat : y = Power(b, j)
  BY PowerSteps
<1>3. x * y \in Nat
  OBVIOUS
<1>4. p + x * y \in Nat
  BY <1>3
<1> QED
  BY <1>1, <1>2, <1>4

\* Value is a fold that adds a digit at every position.
LEMMA ValueIs ==
    ASSUME NEW b \in Nat, NEW s, NEW k \in Nat, Len(s) = k,
           NEW h, Adds(h, s, b, k)
    PROVE  Value(s, b) = h[k]
<1>0. /\ h[0] = 0
      /\ \A i \in 0 .. k : h[i] \in Nat
      /\ \A i \in 1 .. k : h[i] = h[i - 1] + DigitOf(s[i]) * Power(b, k - i)
  BY DEF Adds
<1> DEFINE sq == [i \in 1 .. k |-> i]
           E(f, S) == IF S = {} THEN 0
                      ELSE f[S \ {Max(S)}] + DigitOf(s[sq[Max(S)]]) * Power(b, k - sq[Max(S)])
           F(f) == [S \in SUBSET DOMAIN sq |-> E(f, S)]
           it == CHOOSE f : f = F(f)
           G == [a \in (1 .. k) \X Nat |-> a[2] + DigitOf(s[a[1]]) * Power(b, k - a[1])]
<1>1. Value(s, b) = it[DOMAIN sq]
  BY DEF Value, FoldLeft, MapThenFoldSet
<1>2. DOMAIN sq = 1 .. k /\ \A i \in 1 .. k : sq[i] = i
  OBVIOUS
<1>3. \A i \in 1 .. k, p \in Nat : G[<< i, p >>] = p + DigitOf(s[i]) * Power(b, k - i)
  OBVIOUS
<1>4. IsStep(G, k, Nat)
  <2>1. ASSUME NEW i \in 1 .. k, NEW p \in Nat
        PROVE  p + DigitOf(s[i]) * Power(b, k - i) \in Nat
    <3>1. k - i \in Nat
      OBVIOUS
    <3> QED
      BY <3>1, PlaceIn
  <2>2. \A a \in (1 .. k) \X Nat : a[1] \in 1 .. k /\ a[2] \in Nat
    OBVIOUS
  <2> QED
    BY <2>1, <2>2 DEF IsStep
<1>5. 0 \in Nat
  OBVIOUS
<1> HIDE DEF G, sq
<1>6. PICK f \in [SUBSET (1 .. k) -> Nat] : Folds(f, k, Nat, 0, G)
  BY <1>4, <1>5, FoldExists
<1>7. ASSUME NEW S \in SUBSET (1 .. k), S # {}
      PROVE  Max(S) \in 1 .. k /\ S \ {Max(S)} \in SUBSET (1 .. k) /\ sq[Max(S)] = Max(S)
  BY <1>2, <1>7, MaxOf
<1>8. f = F(f)
  <2>1. ASSUME NEW S \in SUBSET (1 .. k) PROVE f[S] = E(f, S)
    <3>1. CASE S = {}
      BY <1>6, <3>1 DEF Folds
    <3>2. CASE S # {}
      <4>1. PICK m \in 1 .. k : m = Max(S) /\ sq[m] = m /\ f[S \ {m}] \in Nat
        BY <1>7, <3>2
      <4>2. f[S] = G[<< m, f[S \ {m}] >>]
        BY <1>6, <3>2, <4>1 DEF Folds
      <4>3. f[S] = f[S \ {m}] + DigitOf(s[m]) * Power(b, k - m)
        BY <1>3, <4>1, <4>2
      <4> QED
        BY <3>2, <4>1, <4>3
    <3> QED
      BY <3>1, <3>2
  <2>2. f = [S \in SUBSET (1 .. k) |-> f[S]]
    OBVIOUS
  <2> HIDE DEF E
  <2> QED
    BY <1>2, <2>1, <2>2
<1>9. it = F(it)
  BY <1>8
<1> HIDE DEF it
<1>10. \A S \in SUBSET (1 .. k) : it[S] = E(it, S)
  <2> HIDE DEF E
  <2>1. \A S \in SUBSET (1 .. k) : F(it)[S] = E(it, S)
    BY <1>2
  <2> QED
    BY <1>9, <2>1
<1>11. Folds(it, k, Nat, 0, G)
  <2>1. it[{}] = 0
    <3>1. {} \in SUBSET (1 .. k)
      OBVIOUS
    <3> QED
      BY <1>10, <3>1
  <2>2. ASSUME NEW S \in SUBSET (1 .. k), S # {}, it[S \ {Max(S)}] \in Nat
        PROVE  it[S] = G[<< Max(S), it[S \ {Max(S)}] >>]
    <3>1. PICK m \in 1 .. k : m = Max(S) /\ sq[m] = m /\ it[S \ {m}] \in Nat
      BY <1>7, <2>2
    <3>2. it[S] = it[S \ {m}] + DigitOf(s[m]) * Power(b, k - m)
      BY <1>10, <2>2, <3>1
    <3> QED
      BY <1>3, <3>1, <3>2
  <2> QED
    BY <2>1, <2>2 DEF Folds
<1>12. \A i \in 1 .. k : h[i] = G[<< i, h[i - 1] >>]
  <2>1. \A i \in 1 .. k : i - 1 \in 0 .. k
    OBVIOUS
  <2> QED
    BY <1>0, <1>3, <2>1
<1>13. it[1 .. k] = h[k]
  <2>1. PICK V, v : V = Nat /\ v = 0
    OBVIOUS
  <2>2. v \in V /\ Folds(it, k, V, v, G) /\ h[0] = v /\ \A i \in 0 .. k : h[i] \in V
    BY <1>0, <1>11, <2>1
  <2> QED
    BY <1>12, <2>2, FoldValue
<1> QED
  BY <1>1, <1>2, <1>13

\* h is the value of the prefixes, each digit at its place in s.
LEMMA ValueRuns ==
    ASSUME NEW b \in Nat, NEW s, NEW k \in Nat, Len(s) = k
    PROVE  \E h : h[k] = Value(s, b) /\ Adds(h, s, b, k)
<1> DEFINE G == [a \in (1 .. k) \X Nat |-> a[2] + DigitOf(s[a[1]]) * Power(b, k - a[1])]
<1>1. \A i \in 1 .. k, p \in Nat : G[<< i, p >>] = p + DigitOf(s[i]) * Power(b, k - i)
  OBVIOUS
<1>2. IsStep(G, k, Nat)
  <2>1. ASSUME NEW i \in 1 .. k, NEW p \in Nat
        PROVE  p + DigitOf(s[i]) * Power(b, k - i) \in Nat
    <3>1. k - i \in Nat
      OBVIOUS
    <3> QED
      BY <3>1, PlaceIn
  <2>2. \A a \in (1 .. k) \X Nat : a[1] \in 1 .. k /\ a[2] \in Nat
    OBVIOUS
  <2> QED
    BY <2>1, <2>2 DEF IsStep
<1>3. 0 \in Nat
  OBVIOUS
<1> HIDE DEF G
<1>4. PICK h : Iterates(h, k, Nat, 0, G)
  BY <1>2, <1>3, IterationExists
<1>5. h[0] = 0 /\ \A i \in 0 .. k : h[i] \in Nat
  BY <1>4 DEF Iterates
<1>6. \A i \in 1 .. k : h[i] = h[i - 1] + DigitOf(s[i]) * Power(b, k - i)
  <2>1. \A i \in 1 .. k : i - 1 \in 0 .. k
    OBVIOUS
  <2> QED
    BY <1>1, <1>4, <1>5, <2>1 DEF Iterates
<1>7. Adds(h, s, b, k)
  BY <1>5, <1>6 DEF Adds
<1>8. Value(s, b) = h[k]
  BY <1>7, ValueIs
<1> QED
  BY <1>7, <1>8

\* One more digit.
LEMMA ValueSteps ==
    ASSUME NEW C, NEW b \in Nat, NEW s \in Seq(C), NEW c \in C
    PROVE  /\ Value(s, b) \in Nat
           /\ Value(Append(s, c), b) = b * Value(s, b) + DigitOf(c)
<1>1. PICK n \in Nat, t \in Seq(C) : /\ t = Append(s, c) /\ Len(s) = n /\ Len(t) = n + 1
                                   /\ t[n + 1] = c /\ \A i \in 1 .. n : t[i] = s[i]
  <2>1. PICK n \in Nat, t \in Seq(C) : n = Len(s) /\ t = Append(s, c)
    <3>1. Len(s) \in Nat /\ Append(s, c) \in Seq(C)
      OBVIOUS
    <3> QED
      BY <3>1
  <2>2. Len(t) = n + 1 /\ t[n + 1] = c /\ \A i \in 1 .. n : t[i] = s[i]
    BY <2>1
  <2> QED
    BY <2>1, <2>2
<1>2. PICK h : /\ h[0] = 0 /\ h[n] = Value(s, b) /\ \A i \in 0 .. n : h[i] \in Nat
               /\ \A i \in 1 .. n : h[i] = h[i - 1] + DigitOf(s[i]) * Power(b, n - i)
  <2>1. \E h : h[n] = Value(s, b) /\ Adds(h, s, b, n)
    BY <1>1, ValueRuns
  <2> QED
    BY <2>1 DEF Adds
<1>3. PICK g : /\ g[0] = 0 /\ g[n + 1] = Value(t, b) /\ \A i \in 0 .. n + 1 : g[i] \in Nat
               /\ \A i \in 1 .. n + 1 : g[i] = g[i - 1] + DigitOf(t[i]) * Power(b, (n + 1) - i)
  <2>1. n + 1 \in Nat
    OBVIOUS
  <2>2. \E g : g[n + 1] = Value(t, b) /\ Adds(g, t, b, n + 1)
    BY <1>1, <2>1, ValueRuns
  <2> QED
    BY <2>2 DEF Adds
<1> DEFINE T == { i \in 0 .. n : g[i] = b * h[i] }
<1>4. 0 \in T
  BY <1>2, <1>3
<1>5. ASSUME NEW i \in 0 .. n - 1, i \in T PROVE i + 1 \in T
  <2>1. /\ i + 1 \in 1 .. n /\ i + 1 \in 1 .. n + 1 /\ (i + 1) - 1 = i /\ i \in 0 .. n
        /\ i + 1 \in 0 .. n /\ n - (i + 1) \in Nat /\ (n + 1) - (i + 1) = (n - (i + 1)) + 1
    OBVIOUS
  <2>2. PICK d \in Nat, p \in Nat, x \in Nat :
           /\ d = DigitOf(s[i + 1]) /\ p = Power(b, n - (i + 1)) /\ x = h[i]
    BY <1>2, <2>1, DigitOfIs, PowerSteps
  <2>3. Power(b, (n + 1) - (i + 1)) = p * b
    BY <2>1, <2>2, PowerSteps
  <2>4. h[i + 1] = x + d * p
    BY <1>2, <2>1, <2>2
  <2>5. g[i] = b * x
    BY <1>5, <2>2
  <2>6. g[i + 1] = b * x + d * (p * b)
    BY <1>1, <1>3, <2>1, <2>2, <2>3, <2>5
  <2>7. b * x + d * (p * b) = b * (x + d * p)
    OBVIOUS
  <2> QED
    BY <2>1, <2>4, <2>6, <2>7
<1>6. 0 .. n \subseteq T
  <2> HIDE DEF T
  <2> QED
    BY <1>4, <1>5, SetInduction
<1>7. n \in T /\ n \in 0 .. n
  <2>1. n \in 0 .. n
    OBVIOUS
  <2> HIDE DEF T
  <2> QED
    BY <1>6, <2>1
<1>8. g[n + 1] = g[n] + DigitOf(c)
  <2>1. n + 1 \in 1 .. n + 1 /\ (n + 1) - 1 = n /\ (n + 1) - (n + 1) = 0 /\ 0 \in Nat
    OBVIOUS
  <2>2. Power(b, 0) = 1
    BY <2>1, PowerSteps
  <2>3. PICK d \in Nat : d = DigitOf(c)
    BY DigitOfIs
  <2>4. g[n + 1] = g[n] + d * 1
    BY <1>1, <1>3, <2>1, <2>2, <2>3
  <2>5. d * 1 = d
    OBVIOUS
  <2> QED
    BY <2>3, <2>4, <2>5
<1> QED
  BY <1>1, <1>2, <1>3, <1>7, <1>8

LEMMA ValueOfNone ==
    ASSUME NEW b \in Nat
    PROVE  Value(<< >>, b) = 0
<1>1. PICK s : s = << >> /\ Len(s) = 0
  OBVIOUS
<1>2. 0 \in Nat
  OBVIOUS
<1>3. \E h : h[0] = Value(s, b) /\ Adds(h, s, b, 0)
  BY <1>1, <1>2, ValueRuns
<1> QED
  BY <1>1, <1>3 DEF Adds

\* The remainder can be taken at every step.
LEMMA RemainderSteps ==
    ASSUME NEW m \in Nat \ {0}, NEW v \in Nat, NEW b \in Nat, NEW d \in Nat
    PROVE  /\ ((v % m) * b + d) % m = (b * v + d) % m
           /\ (b * v + d) % m \in 0 .. m - 1
<1>1. PICK q \in Nat, r \in Nat : r = v % m /\ v = m * q + r
  BY DivisionParts
<1>2. PICK y \in Nat : y = r * b + d
  OBVIOUS
<1>3. PICK p \in Nat, t \in Nat : p = y \div m /\ t = y % m /\ t < m /\ y = m * p + t
  BY DivisionParts
<1>4. PICK z \in Nat : z = b * v + d
  OBVIOUS
<1>5. z = m * (b * q + p) + t
  <2>1. z = b * (m * q + r) + d
    BY <1>1, <1>4
  <2>2. z = m * (b * q) + y
    BY <1>2, <2>1
  <2> QED
    BY <1>3, <2>2
<1>6. z % m = t
  <2>1. PICK x \in Nat : x = b * q + p
    OBVIOUS
  <2>2. z = m * x + t
    BY <1>5, <2>1
  <2> QED
    BY <1>3, <2>2, DivisionIs
<1>7. t \in 0 .. m - 1
  BY <1>3
<1> QED
  BY <1>1, <1>2, <1>3, <1>4, <1>6, <1>7

-----------------------------------------------------------------------------
(* atoi *)

AtBases == {2, 8, 10, 16}
BodyOf(s, b) == IF b \in {2, 16} THEN SubSeq(s, 3, Len(s)) ELSE s

\* Behind the prefix, a character more of the string is one more of its digits.
LEMMA BodyGrows ==
    ASSUME NEW C, NEW s \in Seq(C), NEW c \in C, NEW b \in AtBases, b \in {2, 16} => Len(s) >= 2
    PROVE  BodyOf(s, b) \in Seq(C) /\ BodyOf(Append(s, c), b) = Append(BodyOf(s, b), c)
<1>1. PICK n \in Nat, t \in Seq(C) : n = Len(s) /\ t = Append(s, c)
  <2>1. Len(s) \in Nat /\ Append(s, c) \in Seq(C)
    OBVIOUS
  <2> QED
    BY <2>1
<1>2. Len(t) = n + 1 /\ t[n + 1] = c /\ \A i \in 1 .. n : t[i] = s[i]
  BY <1>1
<1>3. CASE b \in {2, 16}
  <2>1. PICK k \in Nat : n = k + 2
    <3>1. n - 2 \in Nat /\ n = (n - 2) + 2
      BY <1>1, <1>3
    <3> QED
      BY <3>1
  <2>2. SubSeq(s, 3, n) \in Seq(C) /\ SubSeq(t, 3, n + 1) \in Seq(C)
    <3>1. \A i \in 3 .. n : i \in 1 .. n
      OBVIOUS
    <3>2. \A i \in 3 .. n + 1 : i \in 1 .. n + 1
      OBVIOUS
    <3>3. \A i \in 1 .. n : s[i] \in C
      BY <1>1
    <3>4. \A i \in 1 .. n + 1 : t[i] \in C
      BY <1>2
    <3>5. SubSeq(s, 3, n) \in Seq(C)
      BY <1>1, <3>1, <3>3
    <3>6. SubSeq(t, 3, n + 1) \in Seq(C)
      BY <1>2, <3>2, <3>4
    <3> QED
      BY <3>5, <3>6
  <2>3. PICK x \in Seq(C), y \in Seq(C) : x = SubSeq(s, 3, n) /\ y = SubSeq(t, 3, n + 1)
    BY <2>2
  <2>4. Len(x) = k /\ \A i \in 1 .. k : x[i] = s[i + 2]
    BY <1>1, <2>1, <2>3
  <2>5. Len(y) = k + 1 /\ \A i \in 1 .. k + 1 : y[i] = t[i + 2]
    BY <1>2, <2>1, <2>3
  <2>6. PICK z \in Seq(C) : z = Append(x, c) /\ Len(z) = k + 1
    <3>1. Append(x, c) \in Seq(C) /\ Len(Append(x, c)) = k + 1
      BY <2>4
    <3> QED
      BY <3>1
  <2>7. \A i \in 1 .. k + 1 : z[i] = IF i = k + 1 THEN c ELSE x[i]
    BY <2>4, <2>6
  <2>8. ASSUME NEW i \in 1 .. k + 1 PROVE y[i] = z[i]
    <3>1. CASE i = k + 1
      <4>1. i + 2 = n + 1
        BY <2>1, <3>1
      <4> QED
        BY <1>2, <2>5, <2>7, <3>1, <4>1
    <3>2. CASE i # k + 1
      <4>1. i \in 1 .. k /\ i + 2 \in 1 .. n
        BY <2>1, <3>2
      <4>2. y[i] = t[i + 2] /\ z[i] = x[i] /\ x[i] = s[i + 2]
        BY <2>4, <2>5, <2>7, <3>2, <4>1
      <4>3. t[i + 2] = s[i + 2]
        BY <1>2, <4>1
      <4> QED
        BY <4>2, <4>3
    <3> QED
      BY <3>1, <3>2
  <2>9. y = z
    BY <2>5, <2>6, <2>8
  <2> QED
    BY <1>1, <1>2, <1>3, <2>3, <2>6, <2>9 DEF BodyOf
<1>4. CASE ~(b \in {2, 16})
  BY <1>4 DEF BodyOf
<1> QED
  BY <1>3, <1>4

Below(s, b) == \A i \in 1 .. Len(s) : DigitOf(s[i]) < b

\* A character more, and all but the last are digits of the base, or all are.
LEMMA BelowGrows ==
    ASSUME NEW C, NEW s \in Seq(C), NEW c \in C, NEW b, Below(s, b)
    PROVE  /\ DigitOf(c) < b => Below(Append(s, c), b)
           /\ \A i \in 1 .. Len(Append(s, c)) - 1 : DigitOf(Append(s, c)[i]) < b
<1>1. PICK n \in Nat, t \in Seq(C) :
         /\ n = Len(s) /\ t = Append(s, c)
         /\ Len(t) = n + 1 /\ t[n + 1] = c /\ \A i \in 1 .. n : t[i] = s[i]
  <2>1. PICK n \in Nat, t \in Seq(C) : n = Len(s) /\ t = Append(s, c)
    <3>1. Len(s) \in Nat /\ Append(s, c) \in Seq(C)
      OBVIOUS
    <3> QED
      BY <3>1
  <2>2. Len(t) = n + 1 /\ t[n + 1] = c /\ \A i \in 1 .. n : t[i] = s[i]
    BY <2>1
  <2> QED
    BY <2>1, <2>2
<1>2. \A i \in 1 .. n : DigitOf(t[i]) < b
  BY <1>1 DEF Below
<1>3. (n + 1) - 1 = n /\ \A i \in 1 .. n + 1 : i \in 1 .. n \/ i = n + 1
  OBVIOUS
<1>4. ASSUME DigitOf(c) < b PROVE Below(t, b)
  BY <1>1, <1>2, <1>3, <1>4 DEF Below
<1>5. \A i \in 1 .. Len(t) - 1 : DigitOf(t[i]) < b
  BY <1>1, <1>2, <1>3
<1> QED
  BY <1>1, <1>4, <1>5

\* What v says of the string s that it has read.
ReadOf(v, s) ==
    LET body == BodyOf(s, v.base)
    IN  /\ v \in [at : {"start", "zero", "digits", "error"}, base : AtBases, res : 0 .. Modulus - 1]
        /\ s \in Seq(Characters)
        /\ v.at = "start" => s = << >> /\ v.base = 10
        /\ v.at = "zero" => s = << "0" >> /\ v.base = 8
        /\ v.base \in {2, 16} => Len(s) >= 2
        /\ v.at # "error" => v.res = Value(body, v.base) % Modulus /\ Below(body, v.base)
        /\ v.at = "error" => \E i \in 1 .. Len(body) : DigitOf(body[i]) >= v.base
        /\ \A i \in 1 .. Len(body) - 1 : DigitOf(body[i]) < v.base

LEMMA ReadOfNone == ReadOf(AtoiStart, << >>)
<1>1. Modulus \in Nat \ {0}
  BY TextAssumption
<1>2. AtoiStart = [at |-> "start", base |-> 10, res |-> 0] /\ BodyOf(<< >>, 10) = << >>
  BY DEF AtoiStart, BodyOf
<1>3. 0 % Modulus = 0
  BY <1>1, DivisionIs
<1>4. Value(<< >>, 10) = 0
  BY ValueOfNone
<1>5. Below(<< >>, 10) /\ Len(<< >>) = 0
  BY DEF Below
<1>6. << >> \in Seq(Characters)
  OBVIOUS
<1>7. AtoiStart \in [at : {"start", "zero", "digits", "error"}, base : AtBases,
                     res : 0 .. Modulus - 1]
  BY <1>1, <1>2 DEF AtBases
<1> QED
  BY <1>2, <1>3, <1>4, <1>5, <1>6, <1>7 DEF ReadOf

\* The prefix: a string that says its base, and no digits yet.
LEMMA ReadPrefix ==
    ASSUME NEW v, NEW s, ReadOf(v, s), v.at = "zero", NEW c \in {"x", "b"}
    PROVE  ReadOf(AtoiStep(v, c), Append(s, c))
<1>1. Modulus \in Nat \ {0}
  BY TextAssumption
<1>2. PICK b \in AtBases, r \in 0 .. Modulus - 1 :
         v = [at |-> "zero", base |-> b, res |-> r]
  BY DEF ReadOf
<1>3. s = << "0" >> /\ b = 8 /\ BodyOf(s, b) = s /\ r = Value(s, b) % Modulus
  BY <1>2 DEF ReadOf, BodyOf
<1>4. Value(s, b) = 0
  <2>1. DigitOf("0") = 0
    <3>1. Digits[0 + 1] = "0" /\ 0 \in 0 .. 15
      BY DigitsAre
    <3> QED
      BY <3>1, DigitOfIs
  <2>2. PICK C, z : z \in C /\ z = "0"
    <3>1. "0" \in {"0"}
      OBVIOUS
    <3> QED
      BY <3>1
  <2>3. PICK e \in Seq(C) : e = << >> /\ Append(e, z) = << z >>
    <3>1. << >> \in Seq(C) /\ Append(<< >>, z) = << z >>
      OBVIOUS
    <3> QED
      BY <3>1
  <2>4. 8 \in Nat /\ Value(e, 8) = 0
    BY <2>3, ValueOfNone
  <2>5. Value(Append(e, z), 8) = 8 * Value(e, 8) + DigitOf(z)
    BY <2>2, <2>4, ValueSteps
  <2>6. Value(s, 8) = 8 * 0 + 0
    BY <1>3, <2>1, <2>2, <2>3, <2>4, <2>5
  <2> QED
    BY <1>3, <2>6
<1>5. r = 0
  <2>1. 0 % Modulus = 0
    BY <1>1, DivisionIs
  <2> QED
    BY <1>3, <1>4, <2>1
<1>6. PICK p \in {2, 16} : AtoiStep(v, c) = [at |-> "digits", base |-> p, res |-> 0]
  <2>1. CASE c = "x"
    <3>1. AtoiStep(v, c) = [v EXCEPT !.at = "digits", !.base = 16]
      BY <1>2, <2>1 DEF AtoiStep
    <3>2. PICK x, y : x = "digits" /\ y = 16
      OBVIOUS
    <3>3. [v EXCEPT !.at = x, !.base = y] = [at |-> x, base |-> y, res |-> r]
      <4>1. [v EXCEPT !.at = x, !.base = y] = [[v EXCEPT !.at = x] EXCEPT !.base = y]
        OBVIOUS
      <4>2. [[at |-> "zero", base |-> b, res |-> r] EXCEPT !.at = x] = [at |-> x, base |-> b, res |-> r]
        OBVIOUS
      <4>3. [[at |-> x, base |-> b, res |-> r] EXCEPT !.base = y]
           = [at |-> x, base |-> y, res |-> r]
        OBVIOUS
      <4> QED
        BY <1>2, <4>1, <4>2, <4>3
    <3> QED
      BY <1>5, <3>1, <3>2, <3>3
  <2>2. CASE c = "b"
    <3>1. AtoiStep(v, c) = [v EXCEPT !.at = "digits", !.base = 2]
      BY <1>2, <2>2 DEF AtoiStep
    <3>2. PICK x, y : x = "digits" /\ y = 2
      OBVIOUS
    <3>3. [v EXCEPT !.at = x, !.base = y] = [at |-> x, base |-> y, res |-> r]
      <4>1. [v EXCEPT !.at = x, !.base = y] = [[v EXCEPT !.at = x] EXCEPT !.base = y]
        OBVIOUS
      <4>2. [[at |-> "zero", base |-> b, res |-> r] EXCEPT !.at = x] = [at |-> x, base |-> b, res |-> r]
        OBVIOUS
      <4>3. [[at |-> x, base |-> b, res |-> r] EXCEPT !.base = y]
           = [at |-> x, base |-> y, res |-> r]
        OBVIOUS
      <4> QED
        BY <1>2, <4>1, <4>2, <4>3
    <3> QED
      BY <1>5, <3>1, <3>2, <3>3
  <2> QED
    BY <2>1, <2>2
<1>7. PICK t \in Seq(Characters) : t = Append(s, c) /\ Len(t) = 2
  <2>1. c \in Characters /\ "0" \in Characters
    BY DEF Characters
  <2>2. PICK z \in Characters : z = "0"
    BY <2>1
  <2>3. Append(<< z >>, c) \in Seq(Characters) /\ Len(Append(<< z >>, c)) = 2
    BY <2>1
  <2> QED
    BY <1>3, <2>2, <2>3
<1>8. BodyOf(t, p) = << >>
  <2>1. SubSeq(t, 3, 2) = << >>
    BY <1>7
  <2> QED
    BY <1>7, <2>1 DEF BodyOf
<1>9. PICK w : w = [at |-> "digits", base |-> p, res |-> 0]
  OBVIOUS
<1>10. 0 % Modulus = 0 /\ Value(<< >>, p) = 0 /\ Below(<< >>, p) /\ Len(<< >>) = 0
  <2>1. 0 % Modulus = 0
    BY <1>1, DivisionIs
  <2>2. Value(<< >>, p) = 0
    BY ValueOfNone
  <2>3. Len(<< >>) = 0
    OBVIOUS
  <2> QED
    BY <2>1, <2>2, <2>3 DEF Below
<1>11. w \in [at : {"start", "zero", "digits", "error"}, base : AtBases, res : 0 .. Modulus - 1]
  BY <1>1, <1>9 DEF AtBases
<1>12. ReadOf(w, t)
  BY <1>7, <1>8, <1>9, <1>10, <1>11 DEF ReadOf
<1> QED
  BY <1>6, <1>7, <1>9, <1>12

\* A digit of the base, or not one.
LEMMA ReadDigit ==
    ASSUME NEW v, NEW s, ReadOf(v, s), v.at # "error", NEW c \in Characters,
           NEW w, w.base = v.base,
           \/ /\ DigitOf(c) < v.base
              /\ w = [at |-> w.at, base |-> v.base,
                      res |-> (v.res * v.base + DigitOf(c)) % Modulus]
              /\ w.at = "digits"
           \/ /\ ~(DigitOf(c) < v.base)
              /\ w = [at |-> "error", base |-> v.base, res |-> v.res]
    PROVE  ReadOf(w, Append(s, c))
<1>1. Modulus \in Nat \ {0}
  BY TextAssumption
<1>2. PICK b \in AtBases, r \in 0 .. Modulus - 1 : v.base = b /\ v.res = r
  BY DEF ReadOf
<1>3. PICK d \in Nat : d = DigitOf(c)
  BY DigitOfIs
<1>4. s \in Seq(Characters) /\ (b \in {2, 16} => Len(s) >= 2) /\ b \in Nat
  BY <1>2 DEF ReadOf, AtBases
<1>5. PICK y \in Seq(Characters) : y = BodyOf(s, b)
  BY <1>4, BodyGrows
<1>6. PICK t \in Seq(Characters) : t = Append(s, c) /\ BodyOf(t, b) = Append(y, c)
                                   /\ t[Len(s) + 1] = c /\ Len(t) = Len(s) + 1
  <2>1. Append(s, c) \in Seq(Characters) /\ Append(s, c)[Len(s) + 1] = c
        /\ Len(Append(s, c)) = Len(s) + 1
    BY <1>4
  <2>2. BodyOf(Append(s, c), b) = Append(y, c)
    BY <1>4, <1>5, BodyGrows
  <2> QED
    BY <2>1, <2>2
<1>7. r = Value(y, b) % Modulus /\ Below(y, b)
  BY <1>2, <1>5 DEF ReadOf
<1>8. PICK z : z = Append(y, c)
  OBVIOUS
<1>9. /\ d < b => Below(z, b)
      /\ \A i \in 1 .. Len(z) - 1 : DigitOf(z[i]) < b
  BY <1>3, <1>7, <1>8, BelowGrows
<1>10. b \in {2, 16} => Len(t) >= 2
  <2>1. Len(s) \in Nat
    BY <1>4
  <2> QED
    BY <1>4, <1>6, <2>1
<1>11. CASE d < b
  <2>1. PICK x \in Nat : x = Value(y, b) /\ Value(z, b) = b * x + d
    BY <1>3, <1>4, <1>8, ValueSteps
  <2>2. PICK q \in 0 .. Modulus - 1 : q = (r * b + d) % Modulus /\ q = Value(z, b) % Modulus
    <3>1. ((x % Modulus) * b + d) % Modulus = (b * x + d) % Modulus
      BY <1>1, <1>4, RemainderSteps
    <3>2. (b * x + d) % Modulus \in 0 .. Modulus - 1
      BY <1>1, <1>4, RemainderSteps
    <3>3. PICK q \in 0 .. Modulus - 1 : q = (b * x + d) % Modulus
      BY <3>2
    <3> QED
      BY <1>7, <2>1, <3>1, <3>3
  <2>3. w = [at |-> "digits", base |-> b, res |-> q]
    BY <1>2, <1>3, <1>11, <2>2
  <2>4. w \in [at : {"start", "zero", "digits", "error"}, base : AtBases, res : 0 .. Modulus - 1]
    BY <2>3
  <2>5. w.at = "digits" /\ w.base = b /\ w.res = q
    BY <2>3
  <2>6. Below(z, b)
    BY <1>9, <1>11
  <2>7. ReadOf(w, t)
    BY <1>6, <1>8, <1>9, <1>10, <2>2, <2>4, <2>5, <2>6 DEF ReadOf
  <2> QED
    BY <1>6, <2>7
<1>12. CASE ~(d < b)
  <2>1. w = [at |-> "error", base |-> b, res |-> r]
    BY <1>2, <1>3, <1>12
  <2>2. w \in [at : {"start", "zero", "digits", "error"}, base : AtBases, res : 0 .. Modulus - 1]
    BY <2>1
  <2>3. w.at = "error" /\ w.base = b
    BY <2>1
  <2>4. \E i \in 1 .. Len(z) : DigitOf(z[i]) >= b
    <3>1. Len(y) + 1 \in 1 .. Len(z) /\ z[Len(y) + 1] = c
      BY <1>5, <1>8
    <3>2. d >= b
      BY <1>4, <1>12
    <3> QED
      BY <1>3, <3>1, <3>2
  <2>5. ReadOf(w, t)
    BY <1>6, <1>8, <1>9, <1>10, <2>2, <2>3, <2>4 DEF ReadOf
  <2> QED
    BY <1>6, <2>5
<1> QED
  BY <1>11, <1>12

\* What AtoiStep does behind the prefix.
LEMMA StepIsDigit ==
    ASSUME NEW a \in {"start", "zero", "digits"}, NEW b, NEW r, NEW c,
           ~(a = "start" /\ c = "0"), ~(a = "zero" /\ c \in {"x", "b"})
    PROVE  AtoiStep([at |-> a, base |-> b, res |-> r], c)
           = IF DigitOf(c) < b
             THEN [at |-> "digits", base |-> b, res |-> (r * b + DigitOf(c)) % Modulus]
             ELSE [at |-> "error", base |-> b, res |-> r]
<1>1. PICK v : v = [at |-> a, base |-> b, res |-> r]
  OBVIOUS
<1>2. v.at = a /\ v.base = b /\ v.res = r
  BY <1>1
<1>3. PICK q : q = (r * b + DigitOf(c)) % Modulus
  OBVIOUS
<1>4. AtoiStep(v, c) = IF DigitOf(c) < b THEN [v EXCEPT !.at = "digits", !.res = q]
                       ELSE [v EXCEPT !.at = "error"]
  BY <1>2, <1>3 DEF AtoiStep, DigitOk
<1>5. [v EXCEPT !.at = "digits", !.res = q] = [at |-> "digits", base |-> b, res |-> q]
  <2>1. PICK x, y : x = "digits" /\ y = q
    OBVIOUS
  <2>2. [v EXCEPT !.at = x, !.res = y] = [at |-> x, base |-> b, res |-> y]
    <3>1. [v EXCEPT !.at = x, !.res = y] = [[v EXCEPT !.at = x] EXCEPT !.res = y]
      OBVIOUS
    <3>2. [[at |-> a, base |-> b, res |-> r] EXCEPT !.at = x] = [at |-> x, base |-> b, res |-> r]
      OBVIOUS
    <3>3. [[at |-> x, base |-> b, res |-> r] EXCEPT !.res = y]
         = [at |-> x, base |-> b, res |-> y]
      OBVIOUS
    <3> QED
      BY <1>1, <3>1, <3>2, <3>3
  <2> QED
    BY <2>1, <2>2
<1>6. [v EXCEPT !.at = "error"] = [at |-> "error", base |-> b, res |-> r]
  <2>1. [[at |-> a, base |-> b, res |-> r] EXCEPT !.at = "error"]
        = [at |-> "error", base |-> b, res |-> r]
    OBVIOUS
  <2> QED
    BY <1>1, <2>1
<1> QED
  BY <1>1, <1>3, <1>4, <1>5, <1>6

\* Whatever the next character is, ReadOf says what has been read with it.
LEMMA ReadStep ==
    ASSUME NEW v, NEW s, ReadOf(v, s), v.at # "error", NEW c \in Characters
    PROVE  ReadOf(AtoiStep(v, c), Append(s, c))
<1>1. PICK a \in {"start", "zero", "digits"}, b \in AtBases, r \in 0 .. Modulus - 1 :
         v = [at |-> a, base |-> b, res |-> r]
  BY DEF ReadOf
<1>2. v.at = a /\ v.base = b /\ v.res = r
  BY <1>1
<1>3. CASE a = "start" /\ c = "0"
  <2>1. AtoiStep(v, c) = [at |-> "zero", base |-> 8, res |-> 0]
    BY <1>2, <1>3 DEF AtoiStep
  <2>2. s = << >> /\ Append(s, c) = << "0" >>
    BY <1>2, <1>3 DEF ReadOf
  <2>3. PICK C, z : z \in C /\ z = "0"
    <3>1. "0" \in {"0"}
      OBVIOUS
    <3> QED
      BY <3>1
  <2>4. DigitOf(z) = 0
    <3>1. Digits[0 + 1] = "0" /\ 0 \in 0 .. 15
      BY DigitsAre
    <3> QED
      BY <2>3, <3>1, DigitOfIs
  <2>5. PICK e \in Seq(C) : e = << >> /\ Append(e, z) = << z >>
    <3>1. << >> \in Seq(C) /\ Append(<< >>, z) = << z >>
      OBVIOUS
    <3> QED
      BY <3>1
  <2>6. 8 \in Nat /\ Value(e, 8) = 0 /\ Below(e, 8)
    <3>1. Len(e) = 0
      BY <2>5
    <3> QED
      BY <2>5, <3>1, ValueOfNone DEF Below
  <2>7. Value(Append(e, z), 8) = 0
    <3>1. Value(Append(e, z), 8) = 8 * Value(e, 8) + DigitOf(z)
      BY <2>3, <2>6, ValueSteps
    <3> QED
      BY <2>4, <2>6, <3>1
  <2>8. Below(Append(e, z), 8)
    BY <2>3, <2>4, <2>6, BelowGrows
  <2>9. PICK w, t : /\ w = [at |-> "zero", base |-> 8, res |-> 0] /\ t = << "0" >>
                    /\ Value(t, 8) = 0 /\ Below(t, 8)
    BY <2>3, <2>5, <2>7, <2>8
  <2>10. Len(t) = 1 /\ t \in Seq(Characters) /\ BodyOf(t, 8) = t
    <3>1. "0" \in Characters
      BY DEF Characters
    <3>2. PICK y \in Characters : y = "0"
      BY <3>1
    <3>3. << y >> \in Seq(Characters) /\ Len(<< y >>) = 1
      OBVIOUS
    <3> QED
      BY <2>9, <3>2, <3>3 DEF BodyOf
  <2>11. Modulus \in Nat \ {0}
    BY TextAssumption
  <2>12. 0 % Modulus = 0
    BY <2>11, DivisionIs
  <2>13. w \in [at : {"start", "zero", "digits", "error"}, base : AtBases, res : 0 .. Modulus - 1]
         /\ w.at = "zero" /\ w.base = 8 /\ w.res = 0
    BY <2>9, <2>11 DEF AtBases
  <2>14. \A i \in 1 .. 1 - 1 : FALSE
    OBVIOUS
  <2>15. /\ BodyOf(t, w.base) = t /\ ~(w.base \in {2, 16})
         /\ w.res = Value(t, w.base) % Modulus /\ Below(t, w.base)
         /\ \A i \in 1 .. Len(t) - 1 : DigitOf(t[i]) < w.base
    BY <2>9, <2>10, <2>12, <2>13, <2>14
  <2>16. ReadOf(w, t)
    <3>1. w.at = "zero" => t = << "0" >> /\ w.base = 8
      BY <2>9, <2>13
    <3>2. w.at # "start" /\ w.at # "error"
      BY <2>13
    <3> QED
      BY <2>10, <2>13, <2>15, <3>1, <3>2 DEF ReadOf
  <2> QED
    BY <2>1, <2>2, <2>9, <2>16
<1>4. CASE a = "zero" /\ c \in {"x", "b"}
  BY <1>2, <1>4, ReadPrefix
<1>5. CASE ~(a = "start" /\ c = "0") /\ ~(a = "zero" /\ c \in {"x", "b"})
  <2>1. PICK w : w = AtoiStep(v, c)
    OBVIOUS
  <2>2. w = IF DigitOf(c) < b
            THEN [at |-> "digits", base |-> b, res |-> (r * b + DigitOf(c)) % Modulus]
            ELSE [at |-> "error", base |-> b, res |-> r]
    BY <1>1, <1>5, <2>1, StepIsDigit
  <2>3. w.base = b
    BY <2>2
  <2>4. \/ /\ DigitOf(c) < b
           /\ w = [at |-> w.at, base |-> b, res |-> (r * b + DigitOf(c)) % Modulus]
           /\ w.at = "digits"
        \/ /\ ~(DigitOf(c) < b)
           /\ w = [at |-> "error", base |-> b, res |-> r]
    BY <2>2
  <2> QED
    BY <1>2, <2>1, <2>3, <2>4, ReadDigit
<1> QED
  BY <1>3, <1>4, <1>5

Vals == [at : {"start", "zero", "digits", "error"}, base : AtBases, res : 0 .. Modulus - 1]

\* A character leaves atoi in one of its states.
LEMMA StepStays ==
    ASSUME NEW v \in Vals, NEW c
    PROVE  AtoiStep(v, c) \in Vals
<1>1. PICK a \in {"start", "zero", "digits", "error"}, b \in AtBases, r \in 0 .. Modulus - 1 :
         v = [at |-> a, base |-> b, res |-> r]
  BY DEF Vals
<1>2. Modulus \in Nat \ {0} /\ b \in Nat
  BY TextAssumption DEF AtBases
<1>3. PICK d \in Nat : d = DigitOf(c)
  BY DigitOfIs
<1>4. PICK q \in 0 .. Modulus - 1 : q = (r * b + d) % Modulus
  <2>1. PICK y \in Nat : y = r * b + d
    <3>1. r * b \in Nat
      BY <1>2
    <3>2. r * b + d \in Nat
      BY <3>1
    <3> QED
      BY <3>2
  <2>2. y % Modulus \in 0 .. Modulus - 1
    BY <1>2, Division
  <2> QED
    BY <2>1, <2>2
<1>5. v.at = a /\ v.base = b /\ v.res = r
  BY <1>1
<1>6. \/ AtoiStep(v, c) = [at |-> "zero", base |-> 8, res |-> 0]
      \/ AtoiStep(v, c) = [v EXCEPT !.at = "digits", !.base = 16]
      \/ AtoiStep(v, c) = [v EXCEPT !.at = "digits", !.base = 2]
      \/ AtoiStep(v, c) = [v EXCEPT !.at = "digits", !.res = q]
      \/ AtoiStep(v, c) = [v EXCEPT !.at = "error"]
  BY <1>3, <1>4, <1>5 DEF AtoiStep
<1>7. [at |-> "zero", base |-> 8, res |-> 0] \in Vals
  BY <1>2 DEF Vals, AtBases
<1>8. ASSUME NEW x \in {"start", "zero", "digits", "error"} PROVE [v EXCEPT !.at = x] \in Vals
  BY <1>8 DEF Vals
<1>9. ASSUME NEW u \in Vals, NEW y \in AtBases PROVE [u EXCEPT !.base = y] \in Vals
  BY <1>9 DEF Vals
<1>10. ASSUME NEW u \in Vals, NEW y \in 0 .. Modulus - 1 PROVE [u EXCEPT !.res = y] \in Vals
  BY <1>10 DEF Vals
<1>11. PICK u \in Vals : u = [v EXCEPT !.at = "digits"]
  BY <1>8
<1>12. /\ [v EXCEPT !.at = "digits", !.base = 16] = [u EXCEPT !.base = 16]
       /\ [v EXCEPT !.at = "digits", !.base = 2] = [u EXCEPT !.base = 2]
       /\ [v EXCEPT !.at = "digits", !.res = q] = [u EXCEPT !.res = q]
  BY <1>11
<1>13. [u EXCEPT !.base = 16] \in Vals /\ [u EXCEPT !.base = 2] \in Vals
  <2>1. 16 \in AtBases /\ 2 \in AtBases
    BY DEF AtBases
  <2> QED
    BY <1>9, <2>1
<1>14. [u EXCEPT !.res = q] \in Vals
  BY <1>10
<1>15. [v EXCEPT !.at = "error"] \in Vals
  BY <1>8
<1> QED
  BY <1>6, <1>7, <1>12, <1>13, <1>14, <1>15

\* Behind the prefix a character keeps the base.
LEMMA BaseStays ==
    ASSUME NEW v \in Vals, v.at = "digits", NEW c
    PROVE  AtoiStep(v, c).at \in {"digits", "error"} /\ AtoiStep(v, c).base = v.base
<1>1. PICK b \in AtBases, r \in 0 .. Modulus - 1 : v = [at |-> "digits", base |-> b, res |-> r]
  BY DEF Vals
<1>2. PICK a \in {"start", "zero", "digits"} : a = "digits"
  OBVIOUS
<1>3. AtoiStep([at |-> a, base |-> b, res |-> r], c)
      = IF DigitOf(c) < b
        THEN [at |-> "digits", base |-> b, res |-> (r * b + DigitOf(c)) % Modulus]
        ELSE [at |-> "error", base |-> b, res |-> r]
  BY <1>2, StepIsDigit
<1> QED
  BY <1>1, <1>2, <1>3

\* The index has wrapped: atoi reads the string again, and will not return 0.
Wrapped ==
    /\ index < Len(str) /\ job # "read"
    /\ val.at \in {"digits", "error"}
    /\ \A i \in 1 .. Len(BodyOf(str, val.base)) - 1 : DigitOf(BodyOf(str, val.base)[i]) < val.base

\* Up to there the index is the length of what was read.
AtoiInv ==
    /\ str \in Seq(Characters) /\ Len(str) <= IndexSize
    /\ index \in 0 .. IndexSize - 1
    /\ val \in Vals
    /\ job = "read" => val.at # "error"
    /\ Len(str) < IndexSize => index = Len(str) /\ ReadOf(val, str)
    /\ Len(str) = IndexSize => Wrapped

LEMMA AtoiInvInit == TextInit => AtoiInv
<1> SUFFICES ASSUME TextInit PROVE AtoiInv
  OBVIOUS
<1>1. str = << >> /\ index = 0 /\ val = AtoiStart /\ job # "read"
  BY DEF TextInit
<1>2. ReadOf(val, str)
  BY <1>1, ReadOfNone
<1>3. IndexSize \in Nat /\ IndexSize > 4
  BY TextAssumption
<1>4. << >> \in Seq(Characters) /\ Len(<< >>) = 0
  OBVIOUS
<1> QED
  BY <1>1, <1>2, <1>3, <1>4 DEF AtoiInv, ReadOf, Vals

LEMMA AtoiInvMeans == AtoiInv => AtoiMeans
<1> SUFFICES ASSUME AtoiInv PROVE AtoiMeans
  OBVIOUS
<1>1. Body = BodyOf(str, val.base)
  BY DEF Body, BodyOf
<1>2. PICK k \in Nat : k = Len(str) /\ k <= IndexSize /\ IndexSize \in Nat
  BY TextAssumption DEF AtoiInv
<1>3. CASE k < IndexSize
  <2>1. ReadOf(val, str)
    BY <1>2, <1>3 DEF AtoiInv
  <2>2. job = "read" => val.at # "error"
    BY DEF AtoiInv
  <2> QED
    BY <1>1, <2>1, <2>2 DEF ReadOf, Below, AtoiMeans, Meaning
<1>4. CASE k = IndexSize
  <2>1. Wrapped
    BY <1>2, <1>4 DEF AtoiInv
  <2> QED
    BY <1>1, <1>2, <1>4, <2>1 DEF Wrapped, AtoiMeans
<1> QED
  BY <1>2, <1>3, <1>4

\* A character: one more of the string, the last one the index can count or not, or
\* one that has been read before.
LEMMA ReadKeepsInv ==
    ASSUME AtoiInv, NEW c \in Characters, Read(c)
    PROVE  AtoiInv'
<1>1. PICK k \in Nat, n \in Nat : /\ k = Len(str) /\ k <= n /\ n = IndexSize /\ n > 4
  BY TextAssumption DEF AtoiInv
<1>2. /\ job = "atoi" /\ job' = job /\ val.at # "error" /\ val \in Vals
      /\ val' = AtoiStep(val, c) /\ index' = (index + 1) % n
      /\ str \in Seq(Characters) /\ index \in 0 .. n - 1
  BY <1>1 DEF Read, AtoiInv
<1>3. val' \in Vals
  BY <1>2, StepStays
<1>4. PICK x \in Nat : x = index + 1 /\ x <= n
  BY <1>1, <1>2
<1>5. x % n \in 0 .. n - 1 /\ (x < n => x % n = x) /\ n % n = 0
  <2>1. n \in Nat \ {0} /\ 1 \in Nat /\ 0 \in Nat /\ n = n * 1 + 0 /\ 0 < n /\ x = n * 0 + x
    BY <1>1
  <2>2. x % n \in 0 .. n - 1
    BY <2>1, Division
  <2>3. x < n => x % n = x
    BY <2>1, DivisionIs
  <2>4. n % n = 0
    BY <2>1, DivisionIs
  <2> QED
    BY <2>2, <2>3, <2>4
<1>6. index' \in 0 .. IndexSize - 1
  BY <1>1, <1>2, <1>4, <1>5
<1>7. CASE k < n
  <2>1. index = k /\ ReadOf(val, str)
    BY <1>1, <1>7 DEF AtoiInv
  <2>2. str' = Append(str, c)
    BY <1>1, <2>1 DEF Read
  <2>3. str' \in Seq(Characters) /\ Len(str') = k + 1
    BY <1>1, <1>2, <2>2
  <2>4. ReadOf(val', str')
    BY <1>2, <2>1, <2>2, ReadStep
  <2>5. ASSUME k + 1 = n PROVE Wrapped'
    <3>1. index' = 0
      BY <1>2, <1>4, <1>5, <2>1, <2>5
    <3>2. Len(<< >>) = 0 /\ Len(<< "0" >>) = 1
      OBVIOUS
    <3>3. Len(str') > 4
      BY <1>1, <2>3, <2>5
    <3>4. val'.at # "start"
      <4>1. val'.at = "start" => str' = << >>
        BY <2>4 DEF ReadOf
      <4> QED
        BY <3>2, <3>3, <4>1
    <3>5. val'.at # "zero"
      <4>1. val'.at = "zero" => Len(str') = Len(<< "0" >>)
        BY <2>4 DEF ReadOf
      <4>2. PICK m : m = Len(str')
        OBVIOUS
      <4>3. val'.at = "zero" => m = 1
        BY <3>2, <4>1, <4>2
      <4> QED
        BY <3>3, <4>2, <4>3
    <3>6. val'.at \in {"digits", "error"}
      BY <1>3, <3>4, <3>5 DEF Vals
    <3>7. index' < Len(str') /\ job' # "read"
      BY <1>2, <3>1, <3>3
    <3>8. \A i \in 1 .. Len(BodyOf(str', val'.base)) - 1 :
             DigitOf(BodyOf(str', val'.base)[i]) < val'.base
      BY <2>4 DEF ReadOf
    <3> QED
      BY <3>6, <3>7, <3>8 DEF Wrapped
  <2>6. k + 1 < n => index' = k + 1
    BY <1>2, <1>4, <1>5, <2>1
  <2> QED
    BY <1>1, <1>2, <1>3, <1>6, <1>7, <2>3, <2>4, <2>5, <2>6 DEF AtoiInv
<1>8. CASE k = n
  <2>1. Wrapped
    BY <1>1, <1>8 DEF AtoiInv
  <2>2. str' = str /\ index < k
    BY <1>1, <2>1 DEF Wrapped, Read
  <2>3. val.at = "digits"
    BY <1>2, <2>1 DEF Wrapped
  <2>4. val'.at \in {"digits", "error"} /\ val'.base = val.base
    BY <1>2, <2>3, BaseStays
  <2>5. index' < Len(str') /\ job' # "read"
    <3>1. PICK y \in 0 .. n - 1 : y = index'
      BY <1>1, <1>6
    <3>2. Len(str') = n
      BY <1>1, <1>8, <2>2
    <3>3. y < n
      BY <1>1, <3>1
    <3>4. job' # "read"
      BY <1>2
    <3> QED
      BY <3>1, <3>2, <3>3, <3>4
  <2>6. Wrapped'
    BY <2>1, <2>2, <2>4, <2>5 DEF Wrapped
  <2>7. Len(str') = n /\ str' \in Seq(Characters)
    BY <1>1, <1>2, <1>8, <2>2
  <2>8. job' # "read"
    BY <2>5
  <2> QED
    BY <1>1, <1>3, <1>6, <2>6, <2>7, <2>8 DEF AtoiInv
<1> QED
  BY <1>1, <1>7, <1>8

LEMMA AtoiInvStep == AtoiInv /\ [TextNext]_textVars => AtoiInv'
<1> SUFFICES ASSUME AtoiInv, [TextNext]_textVars PROVE AtoiInv'
  OBVIOUS
<1>1. ASSUME UNCHANGED atoiVars, job' # "read" \/ job' = job PROVE AtoiInv'
  BY <1>1 DEF AtoiInv, Wrapped, atoiVars
<1>2. ASSUME NEW c \in Characters, Read(c) PROVE AtoiInv'
  BY <1>2, ReadKeepsInv
<1>3. CASE ReadEnd
  <2>1. UNCHANGED atoiVars /\ val.at # "error" /\ index = Len(str)
    BY <1>3 DEF ReadEnd
  <2>2. Len(str) # IndexSize
    BY <2>1, TextAssumption DEF AtoiInv
  <2> QED
    BY <2>1, <2>2 DEF AtoiInv, atoiVars
<1>4. ASSUME NEW c \in {"A", Newline}, Plain(c) PROVE AtoiInv'
  BY <1>1, <1>4 DEF Plain
<1>5. ASSUME NEW ch \in Conversions, Special(ch) PROVE AtoiInv'
  BY <1>1, <1>5 DEF Special
<1>6. CASE Close
  BY <1>1, <1>6 DEF Close
<1>7. CASE UNCHANGED textVars
  BY <1>1, <1>7 DEF textVars
<1> QED
  BY <1>2, <1>3, <1>4, <1>5, <1>6, <1>7 DEF TextNext

-----------------------------------------------------------------------------
(* Short sequences, member by member *)

LEMMA MembersOf ==
    ASSUME NEW C, NEW t \in Seq(C), NEW k \in Nat, Len(t) = k
    PROVE  t = [i \in 1 .. k |-> t[i]]
OBVIOUS

LEMMA AppendToOne ==
    ASSUME NEW y, NEW z
    PROVE  Append(<< y >>, z) = << y, z >>
<1>1. PICK C : y \in C /\ z \in C
  <2>1. y \in {y, z} /\ z \in {y, z}
    OBVIOUS
  <2> QED
    BY <2>1
<1>2. << y >> \in Seq(C) /\ Len(<< y >>) = 1 /\ << y >>[1] = y
  BY <1>1
<1>3. PICK s \in Seq(C) : s = << y >> /\ Len(s) = 1 /\ s[1] = y
  BY <1>2
<1>4. /\ Append(s, z) \in Seq(C) /\ Len(Append(s, z)) = 2
      /\ Append(s, z)[1] = y /\ Append(s, z)[2] = z
  BY <1>1, <1>3
<1>5. PICK t \in Seq(C) : t = Append(s, z) /\ Len(t) = 2 /\ t[1] = y /\ t[2] = z
  BY <1>4
<1>6. t = [i \in 1 .. 2 |-> t[i]]
  <2>1. Len(t) = 2 /\ 2 \in Nat
    BY <1>5
  <2> QED
    BY <2>1, MembersOf
<1>7. [i \in 1 .. 2 |-> t[i]] = << y, z >>
  BY <1>5
<1> QED
  BY <1>3, <1>5, <1>6, <1>7

LEMMA AppendToTwo ==
    ASSUME NEW x, NEW y, NEW z
    PROVE  Append(<< x, y >>, z) = << x, y, z >>
<1>1. PICK C : x \in C /\ y \in C /\ z \in C
  <2>1. x \in {x, y, z} /\ y \in {x, y, z} /\ z \in {x, y, z}
    OBVIOUS
  <2> QED
    BY <2>1
<1>2. << x, y >> \in Seq(C) /\ Len(<< x, y >>) = 2 /\ << x, y >>[1] = x /\ << x, y >>[2] = y
  BY <1>1
<1>3. PICK s \in Seq(C) : s = << x, y >> /\ Len(s) = 2 /\ s[1] = x /\ s[2] = y
  BY <1>2
<1>4. /\ Append(s, z) \in Seq(C) /\ Len(Append(s, z)) = 3
      /\ Append(s, z)[1] = x /\ Append(s, z)[2] = y /\ Append(s, z)[3] = z
  BY <1>1, <1>3
<1>5. PICK t \in Seq(C) : t = Append(s, z) /\ Len(t) = 3 /\ t[1] = x /\ t[2] = y /\ t[3] = z
  BY <1>4
<1>6. t = [i \in 1 .. 3 |-> t[i]]
  <2>1. Len(t) = 3 /\ 3 \in Nat
    BY <1>5
  <2> QED
    BY <2>1, MembersOf
<1>7. [i \in 1 .. 3 |-> t[i]] = << x, y, z >>
  BY <1>5
<1> QED
  BY <1>3, <1>5, <1>6, <1>7

LEMMA TwoAndTwo ==
    ASSUME NEW z, NEW w, NEW x, NEW y
    PROVE  << z, w >> \o << x, y >> = << z, w, x, y >>
<1>1. PICK C : z \in C /\ w \in C /\ x \in C /\ y \in C
  <2>1. z \in {z, w, x, y} /\ w \in {z, w, x, y} /\ x \in {z, w, x, y} /\ y \in {z, w, x, y}
    OBVIOUS
  <2> QED
    BY <2>1
<1>2. << x, y >> \in Seq(C) /\ Len(<< x, y >>) = 2 /\ << x, y >>[1] = x /\ << x, y >>[2] = y
  BY <1>1
<1>3. PICK s \in Seq(C) : s = << x, y >> /\ Len(s) = 2 /\ s[1] = x /\ s[2] = y
  BY <1>2
<1>4. << z, w >> \in Seq(C) /\ Len(<< z, w >>) = 2 /\ << z, w >>[1] = z /\ << z, w >>[2] = w
  BY <1>1
<1>5. PICK u \in Seq(C) : u = << z, w >> /\ Len(u) = 2 /\ u[1] = z /\ u[2] = w
  BY <1>4
<1>6. u \o s \in Seq(C) /\ Len(u \o s) = 4
  BY <1>3, <1>5
<1>7. (u \o s)[1] = z /\ (u \o s)[2] = w /\ (u \o s)[3] = x /\ (u \o s)[4] = y
  BY <1>3, <1>5
<1>8. PICK t \in Seq(C) : t = u \o s /\ Len(t) = 4
                          /\ t[1] = z /\ t[2] = w /\ t[3] = x /\ t[4] = y
  BY <1>6, <1>7
<1>9. t = [i \in 1 .. 4 |-> t[i]]
  <2>1. Len(t) = 4 /\ 4 \in Nat
    BY <1>8
  <2> QED
    BY <2>1, MembersOf
<1>10. [i \in 1 .. 4 |-> t[i]] = << z, w, x, y >>
  BY <1>8
<1> QED
  BY <1>3, <1>5, <1>8, <1>9, <1>10

-----------------------------------------------------------------------------
(* A byte printed and read back *)

\* h is what atoi has made of the first characters of s.
Readings(h, s, k) ==
    /\ h[0] = AtoiStart
    /\ \A i \in 0 .. k : h[i] \in Vals
    /\ \A i \in 1 .. k : h[i] = AtoiStep(h[i - 1], s[i])

\* atoi takes one character after the other.
LEMMA AtoiIs ==
    ASSUME NEW s, NEW k \in Nat, DOMAIN s = 1 .. k,
           NEW h, Readings(h, s, k)
    PROVE  Atoi(s) = h[k]
<1>0. /\ h[0] = AtoiStart
      /\ \A i \in 0 .. k : h[i] \in Vals
      /\ \A i \in 1 .. k : h[i] = AtoiStep(h[i - 1], s[i])
  BY DEF Readings
<1> DEFINE E(f, S) == IF S = {} THEN AtoiStart ELSE AtoiStep(f[S \ {Max(S)}], s[Max(S)])
           F(f) == [S \in SUBSET DOMAIN s |-> E(f, S)]
           it == CHOOSE f : f = F(f)
           G == [a \in (1 .. k) \X Vals |-> AtoiStep(a[2], s[a[1]])]
<1>1. Atoi(s) = it[DOMAIN s]
  BY DEF Atoi, FoldLeft, MapThenFoldSet
<1>2. \A i \in 1 .. k, p \in Vals : G[<< i, p >>] = AtoiStep(p, s[i])
  OBVIOUS
<1>3. IsStep(G, k, Vals)
  <2>1. \A a \in (1 .. k) \X Vals : a[1] \in 1 .. k /\ a[2] \in Vals
    OBVIOUS
  <2>2. \A a \in (1 .. k) \X Vals : AtoiStep(a[2], s[a[1]]) \in Vals
    BY <2>1, StepStays
  <2> QED
    BY <2>2 DEF IsStep
<1>4. AtoiStart \in Vals
  <2>1. h[0] \in Vals
    <3>1. 0 \in 0 .. k
      OBVIOUS
    <3> QED
      BY <1>0, <3>1
  <2> QED
    BY <1>0, <2>1
<1> HIDE DEF G
<1>5. PICK f \in [SUBSET (1 .. k) -> Vals] : Folds(f, k, Vals, AtoiStart, G)
  BY <1>3, <1>4, FoldExists
<1>6. ASSUME NEW S \in SUBSET (1 .. k), S # {}
      PROVE  Max(S) \in 1 .. k /\ S \ {Max(S)} \in SUBSET (1 .. k)
  BY <1>6, MaxOf
<1>7. f = F(f)
  <2>1. ASSUME NEW S \in SUBSET (1 .. k) PROVE f[S] = E(f, S)
    <3>1. CASE S = {}
      BY <1>5, <3>1 DEF Folds
    <3>2. CASE S # {}
      <4>1. f[S \ {Max(S)}] \in Vals
        BY <1>6, <3>2
      <4>2. f[S] = G[<< Max(S), f[S \ {Max(S)}] >>]
        BY <1>5, <3>2, <4>1 DEF Folds
      <4> QED
        BY <1>2, <1>6, <3>2, <4>1, <4>2
    <3> QED
      BY <3>1, <3>2
  <2>2. f = [S \in SUBSET (1 .. k) |-> f[S]]
    OBVIOUS
  <2> HIDE DEF E
  <2> QED
    BY <2>1, <2>2
<1>8. it = F(it)
  BY <1>7
<1> HIDE DEF it
<1>9. \A S \in SUBSET (1 .. k) : it[S] = E(it, S)
  <2> HIDE DEF E
  <2>1. \A S \in SUBSET (1 .. k) : F(it)[S] = E(it, S)
    OBVIOUS
  <2> QED
    BY <1>8, <2>1
<1>10. Folds(it, k, Vals, AtoiStart, G)
  <2>1. it[{}] = AtoiStart
    <3>1. {} \in SUBSET (1 .. k)
      OBVIOUS
    <3> QED
      BY <1>9, <3>1
  <2>2. ASSUME NEW S \in SUBSET (1 .. k), S # {}, it[S \ {Max(S)}] \in Vals
        PROVE  it[S] = G[<< Max(S), it[S \ {Max(S)}] >>]
    <3>1. it[S] = AtoiStep(it[S \ {Max(S)}], s[Max(S)])
      BY <1>9, <2>2
    <3> QED
      BY <1>2, <1>6, <2>2, <3>1
  <2> QED
    BY <2>1, <2>2 DEF Folds
<1>11. \A i \in 1 .. k : h[i] = G[<< i, h[i - 1] >>]
  <2>1. \A i \in 1 .. k : i - 1 \in 0 .. k
    OBVIOUS
  <2> QED
    BY <1>0, <1>2, <2>1
<1>12. it[1 .. k] = h[k]
  BY <1>0, <1>4, <1>10, <1>11, FoldValue
<1> QED
  BY <1>1, <1>12

\* The two digits of a byte.
LEMMA HexByteIs ==
    ASSUME NEW d \in 0 .. 15, NEW e \in 0 .. 15
    PROVE  HexByte(16 * d + e) = << Digits[d + 1], Digits[e + 1] >>
<1>1. PICK n \in Nat : n = 16 * d + e /\ n \div 16 = d /\ n % 16 = e
  <2>1. 16 * d + e \in Nat /\ (16 * d + e) \div 16 = d /\ (16 * d + e) % 16 = e
    OBVIOUS
  <2> QED
    BY <2>1
<1>2. 16 \in Bases /\ 16 \in Nat
  BY DEF Bases
<1>3. PICK x, y : x = Digits[d + 1] /\ y = Digits[e + 1]
  OBVIOUS
<1>4. NUL # y /\ (d = 0 => x = "0") /\ (e = 0 => y = "0")
  <2>1. d + 1 \in 1 .. 16 /\ e + 1 \in 1 .. 16
    OBVIOUS
  <2>2. \A i \in 1 .. 16 : Digits[i] # "NUL"
    BY DigitsAre
  <2>3. d = 0 => Digits[d + 1] = "0"
    BY DigitsAre
  <2>4. e = 0 => Digits[e + 1] = "0"
    BY DigitsAre
  <2> QED
    BY <1>3, <2>1, <2>2, <2>3, <2>4 DEF NUL
<1>5. Power(16, 0) = 1 /\ Power(16, 1) = 16
  <2>1. 0 \in Nat /\ 0 + 1 = 1
    OBVIOUS
  <2>2. Power(16, 0) = 1 /\ Power(16, 0 + 1) = Power(16, 0) * 16
    BY <1>2, <2>1, PowerSteps
  <2> QED
    BY <2>1, <2>2
<1>6. DigitAt(n, 16, 0) = y
  <2>1. n \div 1 = n
    OBVIOUS
  <2> QED
    BY <1>1, <1>3, <1>5, <2>1 DEF DigitAt
<1>7. Conv(n, 16) = IF n = 0 THEN << >> ELSE IF d = 0 THEN << y >> ELSE << x, y >>
  <2>1. Conv(n, 16) = [i \in 1 .. Places(n, 16) |-> DigitAt(n, 16, Places(n, 16) - i)]
    BY <1>2, ConvInPlaces
  <2>2. CASE n = 0
    <3>1. Places(n, 16) = 0
      BY <1>2, <2>2, PlacesOfZero
    <3> QED
      BY <2>1, <2>2, <3>1
  <2>3. CASE n # 0 /\ d = 0
    <3>1. Places(n, 16) = 1
      <4>1. n \div 16 = 0 /\ n \in Nat \ {0}
        BY <1>1, <2>3
      <4>2. Places(n, 16) = Places(n \div 16, 16) + 1
        BY <1>2, <4>1, LowFirstStep
      <4>3. Places(0, 16) = 0
        BY <1>2, PlacesOfZero
      <4> QED
        BY <4>1, <4>2, <4>3
    <3>2. Conv(n, 16) = [i \in 1 .. 1 |-> DigitAt(n, 16, 1 - i)]
      BY <2>1, <3>1
    <3>3. DigitAt(n, 16, 1 - 1) = y
      <4>1. 1 - 1 = 0
        OBVIOUS
      <4> QED
        BY <1>6, <4>1
    <3>4. Conv(n, 16) = << y >>
      BY <3>2, <3>3
    <3> QED
      BY <2>3, <3>4
  <2>4. CASE n # 0 /\ d # 0
    <3>1. Places(n, 16) = 2
      <4>1. d \in Nat \ {0} /\ n \in Nat \ {0} /\ d \div 16 = 0
        BY <2>4
      <4>2. Places(n, 16) = Places(d, 16) + 1
        BY <1>1, <1>2, <4>1, LowFirstStep
      <4>3. Places(d, 16) = Places(d \div 16, 16) + 1
        BY <1>2, <4>1, LowFirstStep
      <4>4. Places(0, 16) = 0
        BY <1>2, PlacesOfZero
      <4> QED
        BY <4>1, <4>2, <4>3, <4>4
    <3>2. Conv(n, 16) = [i \in 1 .. 2 |-> DigitAt(n, 16, 2 - i)]
      BY <2>1, <3>1
    <3>3. DigitAt(n, 16, 2 - 1) = x
      <4>1. 2 - 1 = 1
        OBVIOUS
      <4>2. d % 16 = d
        OBVIOUS
      <4> QED
        BY <1>1, <1>3, <1>5, <4>1, <4>2 DEF DigitAt
    <3>4. DigitAt(n, 16, 2 - 2) = y
      <4>1. 2 - 2 = 0
        OBVIOUS
      <4> QED
        BY <1>6, <4>1
    <3>5. Conv(n, 16) = << x, y >>
      BY <3>2, <3>3, <3>4
    <3> QED
      BY <2>4, <3>5
  <2> QED
    BY <2>2, <2>3, <2>4
<1> DEFINE b == << NUL, NUL, NUL >>
           s == IF n = 0 THEN << "0" >> ELSE Append(Conv(n, 16), NUL)
<1>8. Itoa(n, 16, b) = [i \in 1 .. 3 |-> IF i <= Len(s) THEN s[i] ELSE b[i]]
  BY DEF Itoa
<1>9. CASE n = 0
  <2>1. s = << "0" >> /\ d = 0 /\ e = 0
    BY <1>1, <1>9
  <2>2. PICK t : t = Itoa(n, 16, b) /\ t[1] = "0" /\ t[2] = NUL
    <3>1. Len(<< "0" >>) = 1 /\ << "0" >>[1] = "0" /\ b[2] = NUL
      OBVIOUS
    <3> HIDE DEF b, s
    <3> QED
      BY <1>8, <2>1, <3>1
  <2>3. Padded(t) = << "0", "0" >>
    BY <2>2 DEF Padded
  <2> QED
    BY <1>1, <1>3, <1>4, <2>1, <2>2, <2>3 DEF HexByte
<1>10. CASE n # 0 /\ d = 0
  <2>1. s = << y, NUL >>
    <3>1. PICK z : z = NUL
      OBVIOUS
    <3>2. Append(<< y >>, z) = << y, z >>
      BY AppendToOne
    <3>3. s = Append(<< y >>, z)
      BY <1>7, <1>10, <3>1
    <3> QED
      BY <3>1, <3>2, <3>3
  <2>2. PICK t : t = Itoa(n, 16, b) /\ t[1] = y /\ t[2] = NUL
    <3>1. Len(<< y, NUL >>) = 2 /\ << y, NUL >>[1] = y /\ << y, NUL >>[2] = NUL
      OBVIOUS
    <3> HIDE DEF b, s
    <3> QED
      BY <1>8, <2>1, <3>1
  <2>3. Padded(t) = << "0", y >>
    BY <2>2 DEF Padded
  <2> QED
    BY <1>1, <1>3, <1>4, <1>10, <2>2, <2>3 DEF HexByte
<1>11. CASE n # 0 /\ d # 0
  <2>1. s = << x, y, NUL >>
    <3>1. PICK z : z = NUL
      OBVIOUS
    <3>2. Append(<< x, y >>, z) = << x, y, z >>
      BY AppendToTwo
    <3>3. s = Append(<< x, y >>, z)
      BY <1>7, <1>11, <3>1
    <3> QED
      BY <3>1, <3>2, <3>3
  <2>2. PICK t : t = Itoa(n, 16, b) /\ t = << x, y, NUL >>
    <3>1. Len(<< x, y, NUL >>) = 3
      OBVIOUS
    <3>2. Itoa(n, 16, b) = [i \in 1 .. 3 |-> << x, y, NUL >>[i]]
      <4> HIDE DEF b, s
      <4> QED
        BY <1>8, <2>1, <3>1
    <3>3. [i \in 1 .. 3 |-> << x, y, NUL >>[i]] = << x, y, NUL >>
      OBVIOUS
    <3> QED
      BY <3>2, <3>3
  <2>3. t[2] # NUL /\ SubSeq(t, 1, 2) = << x, y >>
    <3>1. t[1] = x /\ t[2] = y
      BY <2>2
    <3>2. SubSeq(t, 1, 2) = [i \in 1 .. 2 |-> t[i]]
      <4>1. PICK C, z : z = NUL /\ C = {x, y, z}
        OBVIOUS
      <4>2. << x, y, z >> \in Seq(C) /\ Len(<< x, y, z >>) = 3
        BY <4>1
      <4>3. PICK u \in Seq(C) : u = t /\ Len(u) = 3
        BY <2>2, <4>1, <4>2
      <4>4. SubSeq(u, 1, 2) = [i \in 1 .. 2 |-> u[i]]
        BY <4>3
      <4> QED
        BY <4>3, <4>4
    <3>3. [i \in 1 .. 2 |-> t[i]] = << x, y >>
      BY <3>1
    <3> QED
      BY <1>4, <3>1, <3>2, <3>3
  <2>4. Padded(t) = << x, y >>
    BY <2>3 DEF Padded
  <2> QED
    BY <1>1, <1>3, <2>2, <2>4 DEF HexByte
<1> QED
  BY <1>9, <1>10, <1>11

\* What memory prints of a byte is two digits, and atoi reads the byte in them.
LEMMA ByteIsReadBack ==
    ASSUME NEW n \in 0 .. 255
    PROVE  Atoi(<< "0", "x" >> \o HexByte(n)).res = n /\ Len(HexByte(n)) = 2
<1>1. PICK d \in 0 .. 15, e \in 0 .. 15 : n = 16 * d + e
  <2>1. n \div 16 \in 0 .. 15 /\ n % 16 \in 0 .. 15 /\ n = 16 * (n \div 16) + (n % 16)
    OBVIOUS
  <2> QED
    BY <2>1
<1>2. PICK x, y : x = Digits[d + 1] /\ y = Digits[e + 1]
  OBVIOUS
<1>3. HexByte(n) = << x, y >>
  BY <1>1, <1>2, HexByteIs
<1>4. DigitOf(x) = d /\ DigitOf(y) = e
  BY <1>2, DigitOfIs
<1>5. PICK z, w : z = "0" /\ w = "x"
  OBVIOUS
<1>6. PICK s : s = << z, w >> \o << x, y >> /\ s = << z, w, x, y >>
  <2>1. << z, w >> \o << x, y >> = << z, w, x, y >>
    BY TwoAndTwo
  <2> QED
    BY <2>1
<1>7. DOMAIN s = 1 .. 4 /\ s[1] = z /\ s[2] = w /\ s[3] = x /\ s[4] = y
  BY <1>6
<1>8. Modulus \in Nat /\ Modulus >= 256
  BY TextAssumption
<1>9. d % Modulus = d /\ n % Modulus = n /\ 0 * 16 + d = d /\ d * 16 + e = n
  <2>1. Modulus \in Nat \ {0} /\ d \in Nat /\ n \in Nat /\ d < Modulus /\ n < Modulus
        /\ d = Modulus * 0 + d /\ n = Modulus * 0 + n /\ 0 \in Nat
    BY <1>8
  <2>2. d % Modulus = d /\ n % Modulus = n
    BY <2>1, DivisionIs
  <2> QED
    BY <1>1, <2>2
<1> DEFINE v1 == [at |-> "zero", base |-> 8, res |-> 0]
           v2 == [at |-> "digits", base |-> 16, res |-> 0]
           v3 == [at |-> "digits", base |-> 16, res |-> d]
           v4 == [at |-> "digits", base |-> 16, res |-> n]
           h == [i \in 0 .. 4 |-> IF i = 0 THEN AtoiStart ELSE IF i = 1 THEN v1
                                  ELSE IF i = 2 THEN v2 ELSE IF i = 3 THEN v3 ELSE v4]
<1>10. AtoiStep(AtoiStart, z) = v1
  BY <1>5 DEF AtoiStep, AtoiStart
<1>11. AtoiStep(v1, w) = v2
  <2>1. PICK v : v = v1
    OBVIOUS
  <2>2. AtoiStep(v, w) = [v EXCEPT !.at = "digits", !.base = 16]
    BY <1>5, <2>1 DEF AtoiStep
  <2>3. PICK f, b : f = "digits" /\ b = 16
    OBVIOUS
  <2>4. [v EXCEPT !.at = f, !.base = b] = [[v EXCEPT !.at = f] EXCEPT !.base = b]
    OBVIOUS
  <2>5. [v EXCEPT !.at = f] = [at |-> f, base |-> 8, res |-> 0]
    BY <2>1
  <2>6. [[at |-> f, base |-> 8, res |-> 0] EXCEPT !.base = b] = [at |-> f, base |-> b, res |-> 0]
    OBVIOUS
  <2> QED
    BY <2>1, <2>2, <2>3, <2>4, <2>5, <2>6
<1>12. AtoiStep(v2, x) = v3 /\ AtoiStep(v3, y) = v4
  <2>1. PICK a \in {"start", "zero", "digits"}, b \in Nat, r \in Nat :
           a = "digits" /\ b = 16 /\ r = 0
    OBVIOUS
  <2>2. DigitOf(x) < b /\ DigitOf(y) < b /\ a # "start" /\ a # "zero"
    BY <1>4, <2>1
  <2>3. AtoiStep([at |-> a, base |-> b, res |-> r], x)
        = [at |-> "digits", base |-> b, res |-> (r * b + DigitOf(x)) % Modulus]
    BY <2>2, StepIsDigit
  <2>4. AtoiStep([at |-> a, base |-> b, res |-> d], y)
        = [at |-> "digits", base |-> b, res |-> (d * b + DigitOf(y)) % Modulus]
    BY <2>2, StepIsDigit
  <2>5. (r * b + DigitOf(x)) % Modulus = d /\ (d * b + DigitOf(y)) % Modulus = n
    BY <1>4, <1>9, <2>1
  <2> QED
    BY <2>1, <2>3, <2>4, <2>5
<1>13. /\ h[0] = AtoiStart /\ h[1] = v1 /\ h[2] = v2 /\ h[3] = v3 /\ h[4] = v4
       /\ 0 .. 4 = {0, 1, 2, 3, 4} /\ 1 .. 4 = {1, 2, 3, 4}
  OBVIOUS
<1>14. \A i \in 0 .. 4 : h[i] \in Vals
  <2>1. AtoiStart \in Vals
    BY <1>8 DEF AtoiStart, Vals, AtBases
  <2>2. v1 \in Vals /\ v2 \in Vals /\ v3 \in Vals /\ v4 \in Vals
    BY <1>8 DEF Vals, AtBases
  <2> HIDE DEF h, v1, v2, v3, v4
  <2> QED
    BY <1>13, <2>1, <2>2
<1> HIDE DEF h, v1, v2, v3
<1>15. \A i \in 1 .. 4 : h[i] = AtoiStep(h[i - 1], s[i])
  <2>1. 1 - 1 = 0 /\ 2 - 1 = 1 /\ 3 - 1 = 2 /\ 4 - 1 = 3
    OBVIOUS
  <2>2. h[1] = AtoiStep(h[1 - 1], s[1]) /\ h[2] = AtoiStep(h[2 - 1], s[2])
    BY <1>7, <1>10, <1>11, <1>13, <2>1
  <2>3. h[3] = AtoiStep(h[3 - 1], s[3]) /\ h[4] = AtoiStep(h[4 - 1], s[4])
    BY <1>7, <1>12, <1>13, <2>1
  <2> QED
    BY <1>13, <2>2, <2>3
<1>16. Atoi(s) = v4
  <2>1. 4 \in Nat
    OBVIOUS
  <2>2. Atoi(s) = h[4]
    <3>1. Readings(h, s, 4)
      BY <1>13, <1>14, <1>15 DEF Readings
    <3> QED
      BY <1>7, <2>1, <3>1, AtoiIs
  <2> QED
    BY <1>13, <2>2
<1>17. << "0", "x" >> \o HexByte(n) = s
  BY <1>3, <1>5, <1>6
<1>18. Len(HexByte(n)) = 2
  BY <1>3
<1>19. v4.res = n
  OBVIOUS
<1> HIDE DEF v4
<1> QED
  BY <1>16, <1>17, <1>18, <1>19

LEMMA AtoiInvReads == AtoiInv => ReadBack
<1> SUFFICES ASSUME AtoiInv PROVE ReadBack
  OBVIOUS
<1>1. PICK r \in Nat : r = val.res
  <2>1. Modulus \in Nat /\ val.res \in 0 .. Modulus - 1
    BY TextAssumption DEF AtoiInv, Vals
  <2> QED
    BY <2>1
<1>2. PICK n \in 0 .. 255 : n = val.res % 256
  <2>1. r % 256 \in 0 .. 255
    OBVIOUS
  <2> QED
    BY <1>1, <2>1
<1> QED
  BY <1>2, ByteIsReadBack DEF ReadBack

\* What atoi returns is the value of the string in the base of its prefix, modulo the
\* word, it refuses a string at the first character that is no digit of its base, and
\* one too long for its index it never returns from; and a byte that the memory command
\* prints is read back as itself (string.c:89-153, command.c:148, 167-174).
THEOREM NumbersAreMeant == TextSpec => []NumbersMean
<1>1. TextInit => AtoiInv
  BY AtoiInvInit
<1>2. AtoiInv /\ [TextNext]_textVars => AtoiInv'
  BY AtoiInvStep
<1>3. AtoiInv => NumbersMean
  BY AtoiInvMeans, AtoiInvReads DEF NumbersMean
<1> QED
  BY <1>1, <1>2, <1>3, PTL DEF TextSpec
=============================================================================
