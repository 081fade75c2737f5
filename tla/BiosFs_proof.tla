---------------------------- MODULE BiosFs_proof ----------------------------
(***************************************************************************)
(* The frame allocator for every number of frames; then who holds which    *)
(* frame and which block is whose in BiosFs, for every number of frames and *)
(* blocks, every size of a page and every archive; then Cpio, for archives *)
(* of any number of files of any size and bytes.                           *)
(***************************************************************************)
EXTENDS BiosFs, Cpio, FiniteSetTheorems, SequenceTheorems, Induction_proof

-----------------------------------------------------------------------------
(* The frame allocator *)

\* The counts, the types, and that no count outgrows what alloc_frame and
\* free_frame add to it once each: an 8-bit count never wraps to 0.
IInv ==
    /\ TypeOK
    /\ CountsTruth
    /\ \A f \in Frames : ref_cnt[f] \in 0 .. 2

\* u8 arithmetic on the values that occur.
LEMMA U8Small ==
    /\ U8(1) = 1 /\ U8(2) = 2
    /\ \A i \in Frames : U8(i + 1) \in Frames
BY FrameAssumption DEF U8, Frames

\* init_frames establishes it.
LEMMA IInvInit == Init => IInv
<1> SUFFICES ASSUME Init PROVE IInv
  OBVIOUS
<1>1. 0 \in Frames /\ 1 \in Frames /\ 2 \in Frames /\ Frames \subseteq Nat
  BY FrameAssumption DEF Frames
<1>2. TypeOK
  BY <1>1, U8Small DEF Init, InitFrames, TypeOK
<1>3. CountsTruth
  BY <1>1 DEF Init, InitFrames, CountsTruth, Reserved
<1> QED
  BY <1>2, <1>3 DEF IInv, Init, InitFrames

\* alloc_frame keeps it: the frame found has no references, so it is neither held
\* nor one of the two frames init_frames took.
LEMMA IInvAlloc ==
    ASSUME IInv, AllocFrame
    PROVE  IInv' /\ Found \in Pool \ held /\ held' = held \cup {Found}
<1>1. /\ 0 \in Frames /\ 1 \in Frames /\ Found \in Frames \ {0}
      /\ ref_cnt[Found] = 0
  BY FrameAssumption DEF AllocFrame, Frames
<1>2. Found \in Pool \ held
  <2>1. Found # 0 /\ Found # 1 /\ Found \notin held
    BY <1>1 DEF IInv, CountsTruth
  <2> QED
    BY <1>1, <2>1, FrameAssumption DEF Frames, Pool
<1>3. ref_cnt' = [ref_cnt EXCEPT ![Found] = 1]
  <2>1. ref_cnt[Found] + 1 = 1
    BY <1>1
  <2>2. U8(ref_cnt[Found] + 1) = 1
    BY <2>1, U8Small
  <2> QED
    BY <2>2 DEF AllocFrame
<1>4. next' = next /\ next[Found] \in Frames /\ first_free_frame' = next[Found]
      /\ held' = held \cup {Found} /\ panicked' = panicked
  BY <1>1 DEF AllocFrame, IInv, TypeOK
<1>5. TypeOK'
  BY <1>1, <1>3, <1>4 DEF IInv, TypeOK
<1>6. CountsTruth'
  <2>1. \A f \in held' : ref_cnt'[f] = 1
    BY <1>1, <1>3, <1>4 DEF IInv, TypeOK, CountsTruth
  <2>2. ref_cnt'[0] # 0 /\ ref_cnt'[1] # 0
    BY <1>1, <1>3 DEF IInv, TypeOK, CountsTruth
  <2> QED
    BY <1>2, <1>4, <2>1, <2>2 DEF IInv, CountsTruth
<1>7. \A f \in Frames : ref_cnt'[f] \in 0 .. 2
  BY <1>1, <1>3 DEF IInv, TypeOK
<1> QED
  BY <1>2, <1>4, <1>5, <1>6, <1>7 DEF IInv

\* free_frame keeps it: a frame that was held goes from one reference to two.
LEMMA IInvFree ==
    ASSUME IInv, NEW f \in held, FreeFrame(f), held' = held \ {f},
           UNCHANGED panicked
    PROVE  IInv'
<1>1. /\ 0 \in Frames /\ 1 \in Frames /\ 2 \in Frames /\ f \in Frames
      /\ ref_cnt[f] = 1
  BY FrameAssumption DEF Frames, IInv, CountsTruth, Pool
<1>2. ref_cnt' = [ref_cnt EXCEPT ![f] = 2]
  <2>1. ref_cnt[f] + 1 = 2
    BY <1>1
  <2>2. U8(ref_cnt[f] + 1) = 2
    BY <2>1, U8Small
  <2> QED
    BY <2>2 DEF FreeFrame
<1>3. TypeOK'
  BY <1>1, <1>2 DEF IInv, TypeOK, FreeFrame
<1>4. CountsTruth'
  <2>1. \A g \in held' : ref_cnt'[g] = 1
    BY <1>2 DEF IInv, TypeOK, CountsTruth
  <2>2. ref_cnt'[0] # 0 /\ ref_cnt'[1] # 0
    BY <1>1, <1>2 DEF IInv, TypeOK, CountsTruth
  <2> QED
    BY <2>1, <2>2 DEF IInv, CountsTruth
<1>5. \A g \in Frames : ref_cnt'[g] \in 0 .. 2
  BY <1>1, <1>2 DEF IInv, TypeOK
<1> QED
  BY <1>3, <1>4, <1>5 DEF IInv

\* Every step keeps it.
LEMMA IInvNext == IInv /\ [Next]_frameVars => IInv'
<1> SUFFICES ASSUME IInv, [Next]_frameVars PROVE IInv'
  OBVIOUS
<1>1. CASE AllocFrame
  BY <1>1, IInvAlloc
<1>2. CASE AllocPanic
  BY <1>2 DEF AllocPanic, IInv, TypeOK, CountsTruth
<1>3. CASE Free
  BY <1>3, IInvFree DEF Free
<1>4. CASE UNCHANGED frameVars
  BY <1>4 DEF frameVars, IInv, TypeOK, CountsTruth
<1> QED
  BY <1>1, <1>2, <1>3, <1>4 DEF Next

\* The variables keep their types, whatever the order of calls.
THEOREM TypeCorrect == Spec => []TypeOK
<1>1. IInv => TypeOK
  BY DEF IInv
<1> QED
  BY <1>1, IInvInit, IInvNext, PTL DEF Spec

\* A frame a caller holds has exactly one reference, and the frames of the page
\* tables stay referenced.
THEOREM CountsTrue == Spec => []CountsTruth
<1>1. IInv => CountsTruth
  BY DEF IInv
<1> QED
  BY <1>1, IInvInit, IInvNext, PTL DEF Spec

\* The allocator implements the pool: no frame is ever handed out twice, though
\* a freed frame is put back on the list.
THEOREM ImplementsPool == Spec => PoolImplemented
<1>1. Init => ThePool!PoolInit
  BY DEF Init, ThePool!PoolInit
<1>2. IInv /\ [Next]_frameVars => [ThePool!Take \/ ThePool!GiveBack]_held
  <2> SUFFICES ASSUME IInv, [Next]_frameVars
               PROVE  ThePool!Take \/ ThePool!GiveBack \/ UNCHANGED held
    OBVIOUS
  <2>1. CASE AllocFrame
    BY <2>1, IInvAlloc DEF ThePool!Take
  <2>2. CASE AllocPanic
    BY <2>2 DEF AllocPanic
  <2>3. CASE Free
    BY <2>3 DEF Free, ThePool!GiveBack
  <2>4. CASE UNCHANGED frameVars
    BY <2>4 DEF frameVars
  <2> QED
    BY <2>1, <2>2, <2>3, <2>4 DEF Next
<1> QED
  BY <1>1, <1>2, IInvInit, IInvNext, PTL DEF Spec, PoolImplemented, ThePool!PoolSpec

-----------------------------------------------------------------------------
(* The list of free frames *)

\* Frames S hold the list: its links stay in S until it ends, and lead to a lower rank
\* each time.  The rank of its head and the frames callers hold never exceed the pool.
Ranked(S, rk) ==
    /\ S \subseteq Pool /\ rk \in [Frames -> Nat] /\ rk[0] = 0
    /\ first_free_frame \in S \cup {0}
    /\ \A i \in S : next[i] \in S \cup {0} /\ rk[next[i]] < rk[i]
    /\ S \cap held = {}
    /\ IsFiniteSet(held)
    /\ rk[first_free_frame] + Cardinality(held) <= NbFrames - 2

ListInv == \E S, rk : Ranked(S, rk)

LEMMA ListInvInit == Init => ListInv
<1> SUFFICES ASSUME Init PROVE ListInv
  OBVIOUS
<1> DEFINE rk == [i \in Frames |-> IF i \in Pool THEN NbFrames - i ELSE 0]
<1>1. NbFrames \in Nat /\ NbFrames > 2
  BY FrameAssumption
<1>2. 0 \in Frames /\ 2 \in Pool /\ Pool \subseteq Frames /\ 0 \notin Pool
  BY <1>1 DEF Frames, Pool
<1>3. rk \in [Frames -> Nat] /\ rk[0] = 0 /\ rk[2] = NbFrames - 2
  BY <1>1, <1>2 DEF Frames, Pool
<1>4. ASSUME NEW i \in Pool PROVE next[i] \in Pool \cup {0} /\ rk[next[i]] < rk[i]
  <2>1. next[i] = U8(i + 1)
    BY <1>2 DEF Init, InitFrames
  <2>2. rk[i] = NbFrames - i /\ i \in Nat /\ 1 < i /\ i < NbFrames
    BY <1>1, <1>2 DEF Pool
  <2>3. CASE i + 1 = NbFrames
    <3>1. U8(i + 1) = 0
      BY <1>1, <2>3 DEF U8
    <3> QED
      BY <1>1, <1>3, <2>1, <2>2, <3>1
  <2>4. CASE i + 1 # NbFrames
    <3>1. U8(i + 1) = i + 1
      BY <1>1, <2>2, <2>4 DEF U8
    <3>2. i + 1 \in Pool
      BY <1>1, <2>2, <2>4 DEF Pool
    <3>3. rk[i + 1] = NbFrames - (i + 1)
      BY <1>2, <3>2
    <3> QED
      BY <1>1, <2>1, <2>2, <3>1, <3>2, <3>3
  <2> QED
    BY <2>3, <2>4
<1>5. held = {} /\ first_free_frame = 2
  BY DEF Init, InitFrames
<1>6. IsFiniteSet(held) /\ Cardinality(held) = 0
  BY <1>5, FS_EmptySet
<1> HIDE DEF rk
<1>7. Ranked(Pool, rk)
  BY <1>1, <1>2, <1>3, <1>4, <1>5, <1>6 DEF Ranked
<1> QED
  BY <1>7 DEF ListInv

\* The loops follow the links: the recursive functions that count their iterations.
LEMMA IterationSteps ==
    ASSUME TypeOK
    PROVE  /\ Iteration[0] = first_free_frame
           /\ \A n \in 1 .. NbFrames :
                 Iteration[n] = IF Iteration[n - 1] = 0 \/ ref_cnt[Iteration[n - 1]] = 0
                                THEN Iteration[n - 1] ELSE next[Iteration[n - 1]]
<1> DEFINE E(v) == IF v = 0 \/ ref_cnt[v] = 0 THEN v ELSE next[v]
           F(f) == [n \in 0 .. NbFrames |-> IF n = 0 THEN first_free_frame ELSE E(f[n - 1])]
           G == [a \in (1 .. NbFrames) \X Frames |-> E(a[2])]
           it == CHOOSE f : f = F(f)
<1>1. Iteration = it
  BY DEF Iteration
<1>2. /\ next \in [Frames -> Frames] /\ first_free_frame \in Frames /\ 0 \in Frames
      /\ NbFrames \in Nat
  BY FrameAssumption DEF TypeOK, Frames
<1>3. \A v \in Frames : E(v) \in Frames
  BY <1>2
<1> HIDE DEF E
<1>4. IsStep(G, NbFrames, Frames)
  BY <1>3 DEF IsStep
<1>5. \A n \in 1 .. NbFrames, v \in Frames : G[<< n, v >>] = E(v)
  OBVIOUS
<1> HIDE DEF G, F
<1>6. PICK h : Iterates(h, NbFrames, Frames, first_free_frame, G)
  BY <1>2, <1>4, IterationExists
<1>7. h = F(h)
  <2>1. ASSUME NEW n \in 1 .. NbFrames PROVE h[n] = E(h[n - 1])
    <3>1. n - 1 \in 0 .. NbFrames
      BY <1>2
    <3>2. h[n - 1] \in Frames
      BY <1>6, <3>1 DEF Iterates
    <3> QED
      BY <1>5, <1>6, <3>2 DEF Iterates
  <2>2. \A n \in 0 .. NbFrames : F(h)[n] = h[n]
    <3>1. SUFFICES ASSUME NEW n \in 0 .. NbFrames PROVE F(h)[n] = h[n]
      OBVIOUS
    <3>2. CASE n = 0
      BY <1>6, <3>2 DEF F, Iterates
    <3>3. CASE n # 0
      <4>1. n \in 1 .. NbFrames
        BY <1>2, <3>3
      <4>2. F(h)[n] = E(h[n - 1])
        BY <3>3 DEF F
      <4> QED
        BY <2>1, <4>1, <4>2
    <3> QED
      BY <3>2, <3>3
  <2>3. /\ DOMAIN h = 0 .. NbFrames /\ h = [n \in DOMAIN h |-> h[n]]
        /\ DOMAIN F(h) = 0 .. NbFrames /\ F(h) = [n \in DOMAIN F(h) |-> F(h)[n]]
    BY <1>6 DEF F, Iterates
  <2> QED
    BY <2>2, <2>3
<1>8. it = F(it)
  BY <1>7
<1>9. it[0] = first_free_frame /\ \A n \in 1 .. NbFrames : it[n] = E(it[n - 1])
  <2> DEFINE r == F(it)
  <2>1. r[0] = first_free_frame /\ \A n \in 1 .. NbFrames : r[n] = E(it[n - 1])
    <3>1. \A f : F(f)[0] = first_free_frame
      BY <1>2 DEF F
    <3>2. \A f : \A n \in 1 .. NbFrames : F(f)[n] = E(f[n - 1])
      BY <1>2 DEF F
    <3> HIDE DEF it
    <3> QED
      BY <3>1, <3>2
  <2>2. it = r
    BY <1>8, Zenon
  <2> HIDE DEF r, it
  <2> QED
    BY <2>1, <2>2
<1> HIDE DEF it
<1> QED
  BY <1>1, <1>9 DEF E

LEMMA LinksSteps ==
    ASSUME TypeOK
    PROVE  /\ Links[0] = first_free_frame
           /\ \A n \in 1 .. NbFrames :
                 Links[n] = IF Links[n - 1] = 0 THEN 0 ELSE next[Links[n - 1]]
<1> DEFINE E(v) == IF v = 0 THEN 0 ELSE next[v]
           F(f) == [n \in 0 .. NbFrames |-> IF n = 0 THEN first_free_frame ELSE E(f[n - 1])]
           G == [a \in (1 .. NbFrames) \X Frames |-> E(a[2])]
           it == CHOOSE f : f = F(f)
<1>1. Links = it
  BY DEF Links
<1>2. /\ next \in [Frames -> Frames] /\ first_free_frame \in Frames /\ 0 \in Frames
      /\ NbFrames \in Nat
  BY FrameAssumption DEF TypeOK, Frames
<1>3. \A v \in Frames : E(v) \in Frames
  BY <1>2
<1> HIDE DEF E
<1>4. IsStep(G, NbFrames, Frames)
  BY <1>3 DEF IsStep
<1>5. \A n \in 1 .. NbFrames, v \in Frames : G[<< n, v >>] = E(v)
  OBVIOUS
<1> HIDE DEF G, F
<1>6. PICK h : Iterates(h, NbFrames, Frames, first_free_frame, G)
  BY <1>2, <1>4, IterationExists
<1>7. h = F(h)
  <2>1. ASSUME NEW n \in 1 .. NbFrames PROVE h[n] = E(h[n - 1])
    <3>1. n - 1 \in 0 .. NbFrames
      BY <1>2
    <3>2. h[n - 1] \in Frames
      BY <1>6, <3>1 DEF Iterates
    <3> QED
      BY <1>5, <1>6, <3>2 DEF Iterates
  <2>2. \A n \in 0 .. NbFrames : F(h)[n] = h[n]
    <3>1. SUFFICES ASSUME NEW n \in 0 .. NbFrames PROVE F(h)[n] = h[n]
      OBVIOUS
    <3>2. CASE n = 0
      BY <1>6, <3>2 DEF F, Iterates
    <3>3. CASE n # 0
      <4>1. n \in 1 .. NbFrames
        BY <1>2, <3>3
      <4>2. F(h)[n] = E(h[n - 1])
        BY <3>3 DEF F
      <4> QED
        BY <2>1, <4>1, <4>2
    <3> QED
      BY <3>2, <3>3
  <2>3. /\ DOMAIN h = 0 .. NbFrames /\ h = [n \in DOMAIN h |-> h[n]]
        /\ DOMAIN F(h) = 0 .. NbFrames /\ F(h) = [n \in DOMAIN F(h) |-> F(h)[n]]
    BY <1>6 DEF F, Iterates
  <2> QED
    BY <2>2, <2>3
<1>8. it = F(it)
  BY <1>7
<1>9. it[0] = first_free_frame /\ \A n \in 1 .. NbFrames : it[n] = E(it[n - 1])
  <2> DEFINE r == F(it)
  <2>1. r[0] = first_free_frame /\ \A n \in 1 .. NbFrames : r[n] = E(it[n - 1])
    <3>1. \A f : F(f)[0] = first_free_frame
      BY <1>2 DEF F
    <3>2. \A f : \A n \in 1 .. NbFrames : F(f)[n] = E(f[n - 1])
      BY <1>2 DEF F
    <3> HIDE DEF it
    <3> QED
      BY <3>1, <3>2
  <2>2. it = r
    BY <1>8, Zenon
  <2> HIDE DEF r, it
  <2> QED
    BY <2>1, <2>2
<1> HIDE DEF it
<1> QED
  BY <1>1, <1>9 DEF E

\* The frame alloc_frame stops at is on the list, or the list has ended.
LEMMA FoundOnList ==
    ASSUME TypeOK, NEW S, NEW rk, Ranked(S, rk)
    PROVE  Found \in S \cup {0} /\ rk[Found] <= rk[first_free_frame]
<1> DEFINE T == { n \in 0 .. NbFrames : /\ Iteration[n] \in S \cup {0}
                                        /\ rk[Iteration[n]] <= rk[first_free_frame] }
<1>1. NbFrames \in Nat
  BY FrameAssumption
<1>2. \A i \in S \cup {0} : i \in Frames /\ rk[i] \in Nat
  BY FrameAssumption DEF Ranked, Pool, Frames
<1>3. first_free_frame \in S \cup {0}
  BY DEF Ranked
<1>4. 0 \in T
  BY <1>1, <1>2, <1>3, IterationSteps
<1>5. ASSUME NEW n \in 0 .. NbFrames - 1, n \in T PROVE n + 1 \in T
  <2> DEFINE v == Iteration[n]
  <2>1. Iteration[n + 1] = IF v = 0 \/ ref_cnt[v] = 0 THEN v ELSE next[v]
    <3>1. n + 1 \in 1 .. NbFrames /\ (n + 1) - 1 = n
      BY <1>1
    <3> QED
      BY <3>1, IterationSteps
  <2>2. v \in S \cup {0} /\ rk[v] <= rk[first_free_frame]
    BY <1>5
  <2> HIDE DEF v
  <2>3. v # 0 => next[v] \in S \cup {0} /\ rk[next[v]] < rk[v]
    BY <2>2 DEF Ranked
  <2>4. Iteration[n + 1] \in S \cup {0} /\ rk[Iteration[n + 1]] <= rk[first_free_frame]
    BY <1>2, <1>3, <2>1, <2>2, <2>3
  <2>5. n + 1 \in 0 .. NbFrames
    BY <1>1
  <2> QED
    BY <2>4, <2>5
<1> HIDE DEF T
<1>6. 0 .. NbFrames \subseteq T
  BY <1>1, <1>4, <1>5, SetInduction
<1>7. NbFrames \in T
  BY <1>1, <1>6
<1> QED
  BY <1>7 DEF T, Found

LEMMA ListInvAlloc ==
    ASSUME IInv, ListInv, AllocFrame
    PROVE  ListInv'
<1>1. PICK S, rk : Ranked(S, rk)
  BY DEF ListInv
<1> DEFINE R == { i \in S : rk[i] < rk[Found] }
<1>2. Found \in S /\ rk[Found] <= rk[first_free_frame]
  BY <1>1, FoundOnList DEF IInv, AllocFrame
<1>3. \A i \in S \cup {0} : i \in Frames /\ rk[i] \in Nat
  BY <1>1, FrameAssumption DEF Ranked, Pool, Frames
<1>4. first_free_frame' = next[Found] /\ held' = held \cup {Found} /\ next' = next
  BY DEF AllocFrame
<1>5. ASSUME NEW i \in S, rk[i] <= rk[Found] PROVE next[i] \in R \cup {0} /\ rk[next[i]] < rk[i]
  <2>1. next[i] \in S \cup {0} /\ rk[next[i]] < rk[i]
    BY <1>1 DEF Ranked
  <2>2. rk[next[i]] < rk[Found]
    BY <1>2, <1>3, <1>5, <2>1
  <2> QED
    BY <2>1, <2>2
<1>6. Found \notin R /\ R \subseteq S
  BY <1>2, <1>3
<1>7. first_free_frame' \in R \cup {0} /\ rk[first_free_frame'] < rk[Found]
  BY <1>2, <1>3, <1>4, <1>5
<1>8. IsFiniteSet(held') /\ Cardinality(held') = Cardinality(held) + 1
      /\ Cardinality(held) \in Nat
  <2>1. IsFiniteSet(held) /\ Found \notin held
    BY <1>1, <1>2 DEF Ranked
  <2> QED
    BY <1>4, <2>1, FS_AddElement, FS_CardinalityType
<1>9. rk[first_free_frame'] + Cardinality(held') <= NbFrames - 2
  <2>1. rk[first_free_frame] + Cardinality(held) <= NbFrames - 2
    BY <1>1 DEF Ranked
  <2>2. rk[first_free_frame'] \in Nat /\ rk[Found] \in Nat /\ rk[first_free_frame] \in Nat
    BY <1>1, <1>2, <1>3, <1>6, <1>7 DEF Ranked
  <2> QED
    BY <1>2, <1>7, <1>8, <2>1, <2>2, FrameAssumption
<1>10. \A i \in R : rk[i] <= rk[Found] /\ i \in S
  BY <1>2, <1>3
<1> HIDE DEF R
<1>12. PICK Q : Q = R
  OBVIOUS
<1>11. Ranked(Q, rk)'
  <2>1. Q \subseteq Pool /\ rk \in [Frames -> Nat] /\ rk[0] = 0
    BY <1>1, <1>6, <1>12 DEF Ranked
  <2>2. Q \cap held' = {}
    BY <1>1, <1>4, <1>6, <1>12 DEF Ranked
  <2>3. \A i \in Q : next'[i] \in Q \cup {0} /\ rk[next'[i]] < rk[i]
    BY <1>4, <1>5, <1>10, <1>12
  <2> QED
    BY <1>7, <1>8, <1>9, <1>12, <2>1, <2>2, <2>3 DEF Ranked
<1> QED
  BY <1>11 DEF ListInv

LEMMA ListInvFree ==
    ASSUME IInv, ListInv, NEW f \in held, FreeFrame(f), held' = held \ {f}
    PROVE  ListInv'
<1>1. PICK S, rk : Ranked(S, rk)
  BY DEF ListInv
<1> DEFINE R == S \cup {f}
           r == [rk EXCEPT ![f] = rk[first_free_frame] + 1]
<1>2. f \in Pool /\ f \in Frames /\ f # 0 /\ f \notin S
  BY <1>1, FrameAssumption DEF IInv, CountsTruth, Ranked, Pool, Frames
<1>3. \A i \in S \cup {0} : i \in Frames /\ rk[i] \in Nat /\ r[i] = rk[i]
  BY <1>1, <1>2, FrameAssumption DEF Ranked, Pool, Frames
<1>4. first_free_frame \in S \cup {0}
  BY <1>1 DEF Ranked
<1>5. r[f] = rk[first_free_frame] + 1 /\ r \in [Frames -> Nat]
  BY <1>1, <1>2, <1>3, <1>4 DEF Ranked
<1>6. next' = [next EXCEPT ![f] = first_free_frame] /\ first_free_frame' = f
  BY DEF FreeFrame
<1>7. ASSUME NEW i \in R PROVE next'[i] \in R \cup {0} /\ r[next'[i]] < r[i]
  <2>1. CASE i = f
    <3>1. next'[i] = first_free_frame
      BY <1>2, <1>6, <2>1 DEF IInv, TypeOK
    <3> QED
      BY <1>3, <1>4, <1>5, <2>1, <3>1
  <2>2. CASE i # f
    <3>1. i \in S /\ next'[i] = next[i]
      BY <1>3, <1>6, <2>2 DEF IInv, TypeOK
    <3>2. next[i] \in S \cup {0} /\ rk[next[i]] < rk[i]
      BY <1>1, <3>1 DEF Ranked
    <3> QED
      BY <1>3, <3>1, <3>2
  <2> QED
    BY <2>1, <2>2
<1>8. IsFiniteSet(held') /\ Cardinality(held') = Cardinality(held) - 1
      /\ Cardinality(held) \in Nat
  <2>1. IsFiniteSet(held)
    BY <1>1 DEF Ranked
  <2> QED
    BY <2>1, FS_RemoveElement, FS_CardinalityType
<1>9. r[first_free_frame'] + Cardinality(held') <= NbFrames - 2
  <2>1. rk[first_free_frame] + Cardinality(held) <= NbFrames - 2
    BY <1>1 DEF Ranked
  <2>2. rk[first_free_frame] \in Nat
    BY <1>3, <1>4
  <2> QED
    BY <1>5, <1>6, <1>8, <2>1, <2>2, FrameAssumption
<1>10. R \subseteq Pool /\ R \cap held' = {} /\ f \in R
  BY <1>1, <1>2 DEF Ranked
<1>11. r[0] = 0
  BY <1>1, <1>3 DEF Ranked
<1> HIDE DEF R, r
<1>12. PICK q : q = r
  OBVIOUS
<1>13. Ranked(R, q)'
  BY <1>5, <1>6, <1>7, <1>8, <1>9, <1>10, <1>11, <1>12 DEF Ranked
<1> QED
  BY <1>13 DEF ListInv

LEMMA ListInvNext == IInv /\ ListInv /\ [Next]_frameVars => ListInv'
<1> SUFFICES ASSUME IInv, ListInv, [Next]_frameVars PROVE ListInv'
  OBVIOUS
<1>1. CASE AllocFrame
  BY <1>1, ListInvAlloc
<1>2. CASE AllocPanic \/ UNCHANGED frameVars
  BY <1>2 DEF AllocPanic, frameVars, ListInv, Ranked
<1>3. CASE Free
  BY <1>3, ListInvFree DEF Free
<1> QED
  BY <1>1, <1>2, <1>3 DEF Next

\* Each link is one rank lower: the list ends before it could come back to a frame.
LEMMA ListInvSound == IInv /\ ListInv => ListSound
<1> SUFFICES ASSUME IInv, ListInv PROVE ListSound
  OBVIOUS
<1>1. PICK S, rk : Ranked(S, rk)
  BY DEF ListInv
<1> DEFINE top == rk[first_free_frame]
           T == { n \in 0 .. NbFrames : /\ Links[n] \in S \cup {0}
                                        /\ Links[n] # 0 => rk[Links[n]] + n <= top }
<1>2. NbFrames \in Nat
  BY FrameAssumption
<1>3. \A i \in S \cup {0} : i \in Frames /\ rk[i] \in Nat
  BY <1>1, FrameAssumption DEF Ranked, Pool, Frames
<1>4. first_free_frame \in S \cup {0} /\ top \in Nat
  BY <1>1, <1>3 DEF Ranked
<1>5. Links[0] = first_free_frame
      /\ \A n \in 1 .. NbFrames :
            Links[n] = IF Links[n - 1] = 0 THEN 0 ELSE next[Links[n - 1]]
  BY LinksSteps DEF IInv
<1> HIDE DEF top
<1>6. 0 \in T
  BY <1>2, <1>3, <1>4, <1>5 DEF top
<1>7. ASSUME NEW n \in 0 .. NbFrames - 1, n \in T PROVE n + 1 \in T
  <2> DEFINE v == Links[n]
  <2>1. Links[n + 1] = IF v = 0 THEN 0 ELSE next[v]
    <3>1. n + 1 \in 1 .. NbFrames /\ (n + 1) - 1 = n
      BY <1>2
    <3> QED
      BY <1>5, <3>1
  <2>2. v \in S \cup {0} /\ (v # 0 => rk[v] + n <= top)
    BY <1>7
  <2> HIDE DEF v
  <2>3. v # 0 => next[v] \in S \cup {0} /\ rk[next[v]] < rk[v]
    BY <1>1, <2>2 DEF Ranked
  <2>4. /\ Links[n + 1] \in S \cup {0}
        /\ Links[n + 1] # 0 => rk[Links[n + 1]] + (n + 1) <= top
    BY <1>3, <1>4, <2>1, <2>2, <2>3
  <2>5. n + 1 \in 0 .. NbFrames
    BY <1>2
  <2> QED
    BY <2>4, <2>5
<1> HIDE DEF T
<1>8. 0 .. NbFrames \subseteq T
  BY <1>2, <1>6, <1>7, SetInduction
<1>9. \A n \in 0 .. NbFrames : Links[n] \in S \cup {0}
                               /\ (Links[n] # 0 => rk[Links[n]] + n <= top)
  BY <1>8 DEF T
<1>10. Links[NbFrames] = 0
  <2>1. top <= NbFrames - 2
    <3>1. Cardinality(held) \in Nat /\ rk[first_free_frame] + Cardinality(held) <= NbFrames - 2
      BY <1>1, FS_CardinalityType DEF Ranked
    <3> QED
      BY <1>2, <1>4, <3>1 DEF top
  <2>2. NbFrames \in 0 .. NbFrames
    BY <1>2
  <2> QED
    BY <1>2, <1>3, <1>4, <1>9, <2>1, <2>2
<1>11. FreeList \subseteq S
  BY <1>9 DEF FreeList
<1>12. S \cap (held \cup {0, 1}) = {}
  BY <1>1 DEF Ranked, Pool
<1> QED
  BY <1>10, <1>11, <1>12 DEF ListSound

\* The list of free frames always ends and holds no frame in use: whatever the order of
\* allocations and frees, the loops of alloc_frame and frame_stats terminate.
THEOREM ListIsSound == Spec => []ListSound
BY IInvInit, IInvNext, ListInvInit, ListInvNext, ListInvSound, PTL DEF Spec

-----------------------------------------------------------------------------
(* The file system in its frames *)

System == {IdtFrame, TableFrame}

\* Links stay within the table: BeginData writes to a block that exists.
LinksOK ==
    /\ bnext \in [Blocks -> Blocks]
    /\ first_free_block \in Blocks
    /\ data \in [Blocks -> Frames \cup {NoFrame}]

\* The receive buffer is a held frame while a transfer runs, and only then.
BuffOwned ==
    /\ System \subseteq held
    /\ stage \in {"header", "data"} => buff \in held \ System
    /\ stage = "shell" => buff = NoFrame
    /\ stage \in {"shell", "header", "data", "panic"}

FsInv == IInv /\ LinksOK /\ BuffOwned /\ FramesOwned

FreshFrame == AllocFrame /\ Found \in Pool \ held /\ held' = held \cup {Found}

LEMMA BlockNumbers == 0 \in Blocks /\ 1 \in Blocks /\ NbBlocks - 1 \in Blocks
BY FsAssumption DEF Blocks

\* init_frames, setup_minimal_idt and init_fs establish it.
LEMMA FsInvInit == FsInit => FsInv
<1> SUFFICES ASSUME FsInit PROVE FsInv
  OBVIOUS
<1>1. /\ 0 \in Frames /\ 1 \in Frames /\ 2 \in Frames /\ 3 \in Frames /\ 4 \in Frames
      /\ 2 \in Pool /\ 3 \in Pool /\ Frames \subseteq Nat
  BY FsAssumption, FrameAssumption DEF Frames, Pool
<1>2. IInv
  <2>1. TypeOK
    BY <1>1, U8Small DEF FsInit, TypeOK, IdtFrame, TableFrame
  <2>2. CountsTruth
    BY <1>1 DEF FsInit, CountsTruth, Reserved, IdtFrame, TableFrame
  <2> QED
    BY <2>1, <2>2 DEF IInv, FsInit
<1>3. LinksOK
  <2>1. \A i \in Blocks : i \notin {Directory, NbBlocks - 1} => i + 1 \in Blocks
    BY FsAssumption DEF Blocks, Directory
  <2> QED
    BY <2>1, BlockNumbers DEF FsInit, LinksOK
<1>4. BuffOwned
  BY DEF FsInit, BuffOwned, System
<1>5. FramesOwned
  BY DEF FsInit, FramesOwned
<1> QED
  BY <1>2, <1>3, <1>4, <1>5 DEF FsInv

\* The allocator's part of a frame being taken.
LEMMA FsAlloc ==
    ASSUME FsInv, AllocFrame
    PROVE  IInv' /\ FreshFrame /\ System \subseteq held'
BY IInvAlloc DEF FsInv, FreshFrame, BuffOwned

\* A frame fresh from the allocator becomes a block's data: it is nobody else's.
LEMMA FsBeginData ==
    ASSUME FsInv, stage \in {"header", "data"}, NEW nb \in Blocks, NEW n,
           BeginData(nb, n), UNCHANGED buff
    PROVE  IInv' /\ BuffOwned' /\ FramesOwned' /\ data' \in [Blocks -> Frames \cup {NoFrame}]
<1>1. IInv' /\ FreshFrame /\ System \subseteq held'
  BY FsAlloc DEF BeginData, TakesFrame
<1>2. Found \in Frames /\ Found # NoFrame
  BY <1>1, FrameAssumption DEF FreshFrame, Pool, Frames, NoFrame
<1>3. data' = [data EXCEPT ![nb] = Found] /\ data \in [Blocks -> Frames \cup {NoFrame}]
  BY DEF BeginData, FsInv, LinksOK
<1>4. BuffOwned'
  BY <1>1 DEF BeginData, FsInv, BuffOwned, FreshFrame
<1>5. FramesOwned'
  <2> SUFFICES ASSUME NEW x \in Blocks, data'[x] # NoFrame
               PROVE  /\ data'[x] \in held' \ {buff', IdtFrame, TableFrame}
                      /\ \A y \in Blocks \ {x} : data'[y] # data'[x]
    BY DEF FramesOwned
  <2>1. /\ buff \in held /\ System \subseteq held
        /\ \A y \in Blocks : data[y] # NoFrame => data[y] \in held
    BY DEF FsInv, BuffOwned, FramesOwned
  <2>2. CASE x = nb
    BY <1>1, <1>2, <1>3, <2>1, <2>2 DEF FreshFrame, System
  <2>3. CASE x # nb
    BY <1>1, <1>2, <1>3, <2>1, <2>3 DEF FreshFrame, FsInv, FramesOwned
  <2> QED
    BY <2>2, <2>3
<1> QED
  BY <1>1, <1>2, <1>3, <1>4, <1>5

\* Label free_buff: the buffer is held by nobody else.
LEMMA FsFreeBuff ==
    ASSUME FsInv, stage \in {"header", "data"}, FreeBuff
    PROVE  FsInv'
<1>1. buff \in held \ System
  BY DEF FsInv, BuffOwned
<1>2. IInv'
  BY <1>1, IInvFree DEF FsInv, FreeBuff
<1>3. LinksOK'
  BY DEF FsInv, LinksOK, FreeBuff
<1>4. BuffOwned'
  BY <1>1 DEF FsInv, BuffOwned, FreeBuff
<1>5. FramesOwned'
  <2>1. NoFrame \notin held
    BY FrameAssumption DEF FsInv, IInv, TypeOK, Frames, NoFrame
  <2> QED
    BY <1>1, <2>1 DEF FsInv, FramesOwned, FreeBuff
<1> QED
  BY <1>2, <1>3, <1>4, <1>5 DEF FsInv

\* Every step of a transfer keeps it.
LEMMA FsInvNext == FsInv /\ [FsNext]_allVars => FsInv'
<1> SUFFICES ASSUME FsInv, [FsNext]_allVars PROVE FsInv'
  OBVIOUS
<1>0. FreeBlock \in Blocks /\ Directory \in Blocks
  BY BlockNumbers DEF FsInv, LinksOK, FreeBlock, Directory
<1>1. CASE RecvStart
  <2>1. IInv' /\ FreshFrame /\ System \subseteq held'
    BY <1>1, FsAlloc DEF RecvStart, TakesFrame
  <2>2. LinksOK'
    BY <1>1 DEF RecvStart, FsInv, LinksOK
  <2>3. BuffOwned'
    BY <1>1, <2>1 DEF RecvStart, FsInv, BuffOwned, FreshFrame, System
  <2>4. FramesOwned'
    BY <1>1, <2>1 DEF RecvStart, FsInv, FramesOwned, FreshFrame, System
  <2> QED
    BY <2>1, <2>2, <2>3, <2>4 DEF FsInv
<1>2. ASSUME NEW n \in FileSizes, RecvHeader(FreeBlock, n) PROVE FsInv'
  <2>1. first_free_block' \in Blocks /\ stage = "header" /\ UNCHANGED buff
    BY <1>2 DEF RecvHeader, BeginLongFile, BeginFile, TakesBlock, FsInv, LinksOK
  <2>2. bnext' \in [Blocks -> Blocks]
    <3>1. bnext \in [Blocks -> Blocks]
      BY DEF FsInv, LinksOK
    <3>2. \/ bnext' = [bnext EXCEPT ![Directory] = FreeBlock]
          \/ bnext' = [bnext EXCEPT ![Directory] = FreeBlock, ![FreeBlock] = 0]
      BY <1>2 DEF RecvHeader, BeginLongFile
    <3> QED
      BY <1>0, <3>1, <3>2, BlockNumbers
  <2>3. CASE BeginData(FreeBlock, n)
    <3>1. IInv' /\ BuffOwned' /\ FramesOwned'
          /\ data' \in [Blocks -> Frames \cup {NoFrame}]
      BY <1>0, <2>1, <2>3, FsBeginData
    <3> QED
      BY <2>1, <2>2, <3>1 DEF FsInv, LinksOK
  <2>4. CASE ~BeginData(FreeBlock, n)
    <3>1. UNCHANGED << frameVars, data, stage >>
      BY <1>2, <2>4 DEF RecvHeader
    <3> QED
      BY <2>1, <2>2, <3>1 DEF FsInv, LinksOK, BuffOwned, FramesOwned, frameVars,
                              IInv, TypeOK, CountsTruth
  <2> QED
    BY <2>3, <2>4
<1>3. CASE RecvNextBlock(FreeBlock)
  <2>1. /\ first_free_block' \in Blocks /\ stage = "data" /\ UNCHANGED buff
        /\ bnext' \in [Blocks -> Blocks]
    BY <1>0, <1>3 DEF RecvNextBlock, BeginBlock, TakesBlock, FsInv, LinksOK
  <2>2. IInv' /\ BuffOwned' /\ FramesOwned'
        /\ data' \in [Blocks -> Frames \cup {NoFrame}]
    BY <1>0, <1>3, <2>1, FsBeginData DEF RecvNextBlock
  <2> QED
    BY <2>1, <2>2 DEF FsInv, LinksOK
<1>4. CASE RecvFileDone
  BY <1>4, BlockNumbers DEF RecvFileDone, FsInv, LinksOK, BuffOwned, FramesOwned,
                            frameVars, IInv, TypeOK, CountsTruth
<1>5. CASE RecvTrailer \/ RecvAbort
  BY <1>5, FsFreeBuff DEF RecvTrailer, RecvAbort
<1>6. CASE OutOfFrames
  <2>1. /\ UNCHANGED << ref_cnt, next, first_free_frame, held, data, buff >>
        /\ panicked' \in BOOLEAN /\ stage' = "panic"
    BY <1>6 DEF OutOfFrames, AllocPanic, BeginLongFile, BeginFile, BeginBlock
  <2>2. bnext' \in [Blocks -> Blocks] /\ first_free_block' \in Blocks
    BY <1>0, <1>6 DEF OutOfFrames, BeginLongFile, BeginFile, BeginBlock, TakesBlock,
                      FsInv, LinksOK
  <2> QED
    BY <2>1, <2>2 DEF FsInv, LinksOK, BuffOwned, FramesOwned, IInv, TypeOK, CountsTruth
<1>7. CASE OutOfBlocks
  BY <1>7 DEF OutOfBlocks, FsInv, LinksOK, BuffOwned, FramesOwned, frameVars,
              IInv, TypeOK, CountsTruth
<1>8. CASE UNCHANGED allVars
  BY <1>8 DEF allVars, fsVars, frameVars, FsInv, LinksOK, BuffOwned, FramesOwned,
              IInv, TypeOK, CountsTruth
<1> QED
  BY <1>1, <1>2, <1>3, <1>4, <1>5, <1>6, <1>7, <1>8 DEF FsNext

\* A block's frame is its own: not the allocator's to give, nor the receive
\* buffer's, the block table's or another block's, wherever a transfer is aborted
\* (fs_recv_cpio, free_buff).
THEOREM FramesAreOwned == FsSpec => []FramesOwned
<1>1. FsInv => FramesOwned
  BY DEF FsInv
<1> QED
  BY <1>1, FsInvInit, FsInvNext, PTL DEF FsSpec

-----------------------------------------------------------------------------
(* The table of blocks *)

\* The first block that was never taken: blocks are taken in the order of their
\* numbers and none is given back, so those before it are files' and the rest free.
Top == IF first_free_block = 0 THEN NbBlocks ELSE first_free_block

\* The link init_fs gave a block.
After(x) == IF x = NbBlocks - 1 THEN 0 ELSE x + 1

\* D are the first blocks of files: the directory lists them from the last to the
\* first, and every block taken is in the file whose first block precedes it.
Listed(D) ==
    /\ D \subseteq 1 .. Top - 1
    /\ Top > 1 => 1 \in D
    /\ \A x \in 1 .. Top - 1 : \E f \in D : f <= x /\ \A g \in D : g <= f \/ g > x
    /\ bnext[Directory] \in D \cup {0}
    /\ \A g \in D :
          /\ g <= bnext[Directory]
          /\ type[g] = TYPE_INODE
          /\ dnext[g] \in D \cup {0} /\ dnext[g] < g
          /\ g = bnext[Directory] \/ \E h \in D : dnext[h] = g

\* Blocks f to e are the file f: they lead one to the next, the last ends the chain,
\* and the blocks after them are another file's or free.  Their sizes add up.
WholeFile(D, f, e) ==
    /\ e < Top /\ bnext[e] = 0
    /\ \A x \in f .. e - 1 : bnext[x] = x + 1
    /\ \A g \in D : g <= f \/ g > e
    /\ e + 1 \in D \cup {Top}
    /\ expected[f] > 0 =>
          /\ \A x \in f .. e - 1 : size[x] = PageUnits
          /\ size[e] = expected[f] - (e - f) * PageUnits

Received(D) ==
    /\ received \subseteq D
    /\ \A f \in received : \E e \in f .. Top - 1 : WholeFile(D, f, e)

\* The file being received: it reaches up to the block taken last.
Receiving(D) ==
    stage = "data" =>
        LET f == bnext[Directory]
        IN  /\ f \in D \ received
            /\ b = Top - 1 /\ bnext[b] = After(b)
            /\ \A x \in f .. b - 1 : bnext[x] = x + 1 /\ size[x] = PageUnits
            /\ left > 0
            /\ size[b] = Smaller(PageUnits, left)
            /\ expected[f] = left + (b - f) * PageUnits

TableType ==
    /\ first_free_block \in Blocks
    /\ type \in [Blocks -> Nat]
    /\ dnext \in [Blocks -> Blocks]
    /\ bnext \in [Blocks -> Blocks]
    /\ size \in [Blocks -> Int]
    /\ expected \in [Blocks -> Nat]
    /\ left \in Nat

Untaken == \A x \in Top .. NbBlocks - 1 : bnext[x] = After(x)

Table(D) == TableType /\ Untaken /\ Listed(D) /\ Received(D) /\ Receiving(D)

TableInv == \E D \in SUBSET Blocks : Table(D)

LEMMA TableInit == FsInit => TableInv
<1> SUFFICES ASSUME FsInit PROVE TableInv
  OBVIOUS
<1>1. NbBlocks \in Nat /\ NbBlocks > 1 /\ PageUnits \in Nat /\ Top = 1
  BY FsAssumption DEF FsInit, Top
<1>2. 0 \in Blocks /\ \A x \in Blocks : x # NbBlocks - 1 => x + 1 \in Blocks
  BY <1>1 DEF Blocks
<1>3. TableType
  BY <1>1, <1>2 DEF FsInit, TableType, Directory, TYPE_DIR, TYPE_FREE, Garbage, Blocks
<1>4. Untaken
  BY <1>1 DEF FsInit, Untaken, After, Blocks, Directory
<1>5. Listed({})
  BY <1>1, <1>2 DEF FsInit, Listed, Directory
<1>6. Received({}) /\ Receiving({})
  BY DEF FsInit, Received, Receiving
<1> QED
  BY <1>3, <1>4, <1>5, <1>6 DEF Table, TableInv

\* Taking a block from the free list moves the top up by one.
LEMMA TakingMovesTop ==
    ASSUME TableType, Untaken, TakesBlock
    PROVE  /\ Top = first_free_block /\ Top \in 1 .. NbBlocks - 1
           /\ Top' = Top + 1
           /\ bnext[Top] = After(Top) /\ After(Top) \in Blocks
<1>1. NbBlocks \in Nat /\ NbBlocks > 1 /\ first_free_block \in 1 .. NbBlocks - 1
  BY FsAssumption DEF TableType, TakesBlock, Blocks
<1>2. Top = first_free_block /\ Top \in 1 .. NbBlocks - 1
  BY <1>1 DEF Top
<1>3. bnext[Top] = After(Top) /\ first_free_block' = After(Top)
  BY <1>2 DEF Untaken, TakesBlock
<1>4. After(Top) = IF Top = NbBlocks - 1 THEN 0 ELSE Top + 1
  BY DEF After
<1> QED
  BY <1>1, <1>2, <1>3, <1>4 DEF Top, Blocks

\* A block is taken and linked, and no frame is left for its data.
LinkedOnly == stage' = "panic" /\ UNCHANGED << size, left >>

\* A new file's header: its block becomes the top one's and heads the directory.
LEMMA TableHeader ==
    ASSUME TableInv, NEW n \in FileSizes,
           RecvHeader(FreeBlock, n) \/ (BeginLongFile(FreeBlock, n) /\ LinkedOnly)
    PROVE  TableInv'
<1>0. PICK nb : nb = first_free_block
  OBVIOUS
<1>f. BeginFile(FreeBlock, n)
  BY DEF RecvHeader, BeginLongFile
<1>1. PICK D \in SUBSET Blocks : Table(D)
  BY DEF TableInv
<1>2. TableType /\ Untaken /\ Listed(D) /\ Received(D)
  BY <1>1 DEF Table
<1>3. /\ Top = nb /\ nb \in 1 .. NbBlocks - 1 /\ Top' = nb + 1
      /\ bnext[nb] = After(nb) /\ After(nb) \in Blocks
  BY <1>0, <1>2, <1>f, TakingMovesTop DEF BeginFile
<1>4. /\ NbBlocks \in Nat /\ PageUnits \in Nat \ {0} /\ n \in Nat
      /\ nb \in Blocks /\ 0 \in Blocks /\ nb # 0
      /\ nb \in Nat /\ 0 < nb /\ nb < NbBlocks
  BY <1>3, FsAssumption DEF Blocks
<1>5. /\ type' = [type EXCEPT ![nb] = TYPE_INODE]
      /\ dnext' = [dnext EXCEPT ![nb] = bnext[0]]
      /\ expected' = [expected EXCEPT ![nb] = n]
  BY <1>0, <1>f DEF BeginFile, FreeBlock, DirectoryNext, Directory
<1>6. /\ bnext' \in [Blocks -> Blocks] /\ bnext'[0] = nb
      /\ \A x \in Blocks \ {0, nb} : bnext'[x] = bnext[x]
      /\ n > 0 => bnext'[nb] = After(nb)
      /\ ~(n > 0) => bnext'[nb] = 0
  <2>1. CASE n > 0
    BY <1>0, <1>2, <1>3, <1>4, <2>1 DEF RecvHeader, BeginLongFile, FreeBlock, Directory, TableType
  <2>2. CASE ~(n > 0)
    BY <1>0, <1>2, <1>3, <1>4, <2>2 DEF RecvHeader, BeginLongFile, FreeBlock, Directory, TableType
  <2> QED
    BY <2>1, <2>2
<1>7. /\ size' \in [Blocks -> Int]
      /\ \A x \in Blocks \ {nb} : size'[x] = size[x]
      /\ left' \in Nat
      /\ n > 0 => received' = received
      /\ n > 0 /\ stage' = "data" =>
            size'[nb] = Smaller(PageUnits, n) /\ left' = n /\ b' = nb
      /\ ~(n > 0) => stage' = "header" /\ received' = received \cup {nb}
  <2>1. CASE n > 0 /\ BeginData(nb, n)
    BY <1>0, <1>2, <1>4, <2>1 DEF RecvHeader, BeginLongFile, BeginData, FreeBlock, TableType, Smaller
  <2>2. CASE n > 0 /\ LinkedOnly
    BY <1>0, <1>2, <1>4, <2>2 DEF RecvHeader, BeginLongFile, LinkedOnly, FreeBlock, TableType
  <2>3. CASE ~(n > 0)
    BY <1>0, <1>2, <1>4, <1>f, <2>3 DEF RecvHeader, BeginLongFile, BeginFile, FreeBlock, TableType
  <2>4. n > 0 => BeginData(nb, n) \/ LinkedOnly
    BY <1>0, <1>4 DEF RecvHeader, FreeBlock
  <2> QED
    BY <2>1, <2>2, <2>3, <2>4
<1>8. TableType'
  <2>1. first_free_block' \in Blocks
    BY <1>0, <1>3, <1>f DEF BeginFile, TakesBlock
  <2>2. TYPE_INODE \in Nat /\ bnext[0] \in Blocks
    BY <1>2, <1>4 DEF TableType, TYPE_INODE
  <2> QED
    BY <1>2, <1>4, <1>5, <1>6, <1>7, <2>1, <2>2 DEF TableType
<1>9. Untaken'
  <2> SUFFICES ASSUME NEW x \in Top' .. NbBlocks - 1 PROVE bnext'[x] = After(x)
    BY DEF Untaken, After
  <2>1. x \in Blocks \ {0, nb} /\ x \in Top .. NbBlocks - 1
    BY <1>3, <1>4 DEF Blocks
  <2> QED
    BY <1>2, <1>6, <2>1 DEF Untaken
<1>e. PICK E : E = D \cup {nb}
  OBVIOUS
<1>10. D \subseteq 1 .. nb - 1 /\ nb \notin D /\ D \subseteq Blocks /\ 0 \notin D
  BY <1>2, <1>3 DEF Listed
<1>11. Listed(E)'
  <2>1. E \subseteq 1 .. Top' - 1 /\ 1 \in E
    BY <1>e, <1>4, <1>2, <1>3, <1>10 DEF Listed
  <2>2. \A x \in 1 .. Top' - 1 : \E f \in E : f <= x /\ \A g \in E : g <= f \/ g > x
    <3> TAKE x \in 1 .. Top' - 1
    <3>1. CASE x = nb
      BY <1>e, <1>4, <1>3, <1>10, <3>1
    <3>2. CASE x # nb
      <4>1. x \in 1 .. Top - 1
        BY <1>e, <1>4, <1>3, <3>2
      <4>2. PICK f \in D : f <= x /\ \A g \in D : g <= f \/ g > x
        BY <1>e, <1>4, <1>2, <4>1 DEF Listed
      <4> QED
        BY <1>e, <1>4, <1>3, <4>1, <4>2
    <3> QED
      BY <1>e, <1>4, <3>1, <3>2
  <2>3. bnext'[Directory] \in E \cup {0}
    BY <1>e, <1>4, <1>6 DEF Directory
  <2>4. ASSUME NEW g \in E
        PROVE /\ g <= bnext'[Directory]
              /\ type'[g] = TYPE_INODE
              /\ dnext'[g] \in E \cup {0} /\ dnext'[g] < g
              /\ g = bnext'[Directory] \/ \E h \in E : dnext'[h] = g
    <3>1. CASE g = nb
      <4>1. bnext[0] \in D \cup {0}
        BY <1>e, <1>4, <1>2 DEF Listed, Directory
      <4>2. dnext'[nb] = bnext[0] /\ type'[nb] = TYPE_INODE
        BY <1>e, <1>4, <1>2, <1>4, <1>5 DEF TableType
      <4>3. bnext[0] < nb
        <5>1. \A y \in D \cup {0} : y < nb
          BY <1>4, <1>10
        <5> QED
          BY <4>1, <5>1
      <4> QED
        BY <1>e, <1>4, <1>3, <1>6, <3>1, <4>1, <4>2, <4>3 DEF Directory
    <3>2. CASE g # nb
      <4>1. g \in D /\ g < nb /\ g \in Blocks
        BY <1>e, <1>4, <1>3, <1>10, <3>2
      <4>2. /\ type[g] = TYPE_INODE
            /\ dnext[g] \in D \cup {0} /\ dnext[g] < g
            /\ g = bnext[0] \/ \E h \in D : dnext[h] = g
        BY <1>e, <1>4, <1>2, <4>1 DEF Listed, Directory
      <4>3. type'[g] = type[g] /\ dnext'[g] = dnext[g]
        BY <1>e, <1>4, <1>2, <1>5, <3>2, <4>1 DEF TableType
      <4>4. \A h \in D : dnext'[h] = dnext[h]
        BY <1>e, <1>4, <1>2, <1>5, <1>10 DEF TableType
      <4>5. dnext'[nb] = bnext[0]
        BY <1>e, <1>4, <1>2, <1>4, <1>5 DEF TableType
      <4>6. g <= bnext'[Directory]
        BY <1>e, <1>4, <1>3, <1>6, <4>1 DEF Directory
      <4>7. \E h \in E : dnext'[h] = g
        BY <1>e, <1>4, <4>2, <4>4, <4>5
      <4> QED
        BY <1>e, <1>4, <4>2, <4>3, <4>6, <4>7
    <3> QED
      BY <1>e, <1>4, <3>1, <3>2
  <2> QED
    BY <1>e, <1>4, <2>1, <2>2, <2>3, <2>4 DEF Listed
<1>12. ASSUME NEW f \in received PROVE \E e \in f .. Top' - 1 : WholeFile(E, f, e)'
  <2>1. PICK e \in f .. Top - 1 : WholeFile(D, f, e)
    BY <1>e, <1>4, <1>2, <1>12 DEF Received
  <2>2. f \in D /\ f \in 1 .. nb - 1 /\ e \in 1 .. nb - 1
    BY <1>e, <1>4, <1>2, <1>3, <1>10, <1>12, <2>1 DEF Received
  <2>3. \A x \in 1 .. nb - 1 : x \in Blocks \ {0, nb} /\ bnext'[x] = bnext[x] /\ size'[x] = size[x]
    <3> TAKE x \in 1 .. nb - 1
    <3>1. x \in Blocks \ {0, nb}
      BY <1>4 DEF Blocks
    <3> QED
      BY <1>6, <1>7, <3>1
  <2>4. expected'[f] = expected[f]
    BY <1>e, <1>4, <1>2, <1>5, <2>2, <2>3 DEF TableType
  <2>5. /\ e < Top' /\ bnext'[e] = 0
        /\ \A x \in f .. e - 1 : bnext'[x] = x + 1
    <3>1. \A x \in f .. e - 1 : x \in 1 .. nb - 1
      BY <1>e, <1>4, <2>2
    <3> QED
      BY <1>e, <1>4, <1>3, <2>1, <2>2, <2>3, <3>1 DEF WholeFile
  <2>6. /\ \A g \in E : g <= f \/ g > e
        /\ e + 1 \in E \cup {Top'}
    BY <1>e, <1>4, <1>3, <2>1, <2>2 DEF WholeFile
  <2>7. expected'[f] > 0 =>
          /\ \A x \in f .. e - 1 : size'[x] = PageUnits
          /\ size'[e] = expected'[f] - (e - f) * PageUnits
    <3>1. \A x \in f .. e - 1 : x \in 1 .. nb - 1
      BY <1>e, <1>4, <2>2
    <3> QED
      BY <1>e, <1>4, <2>1, <2>2, <2>3, <2>4, <3>1 DEF WholeFile
  <2>8. PageUnits' = PageUnits
    OBVIOUS
  <2>9. WholeFile(E, f, e)'
    BY <1>e, <1>4, <2>5, <2>6, <2>7 DEF WholeFile
  <2>10. e \in f .. Top' - 1
    BY <1>e, <1>4, <1>3, <2>2, <2>1
  <2> QED
    BY <1>e, <1>4, <2>9, <2>10
<1>13. Received(E)'
  <2>1. received \subseteq D
    BY <1>e, <1>4, <1>2 DEF Received
  <2>2. CASE n > 0
    BY <1>e, <1>4, <1>7, <1>12, <2>1, <2>2 DEF Received
  <2>3. CASE ~(n > 0)
    <3>1. WholeFile(E, nb, nb)'
      <4>1. n = 0
        BY <1>e, <1>4, <2>3
      <4>2. expected'[nb] = 0
        BY <1>e, <1>4, <1>2, <1>4, <1>5, <4>1 DEF TableType
      <4>3. bnext'[nb] = 0 /\ nb < Top' /\ nb + 1 = Top'
        BY <1>e, <1>4, <1>3, <1>6, <2>3
      <4>4. \A g \in E : g <= nb \/ g > nb
        BY <1>e, <1>4, <1>3, <1>10
      <4>5. \A x \in nb .. nb - 1 : FALSE
        BY <1>e, <1>4, <1>3
      <4> QED
        BY <1>e, <1>4, <4>2, <4>3, <4>4, <4>5 DEF WholeFile
    <3>2. nb \in nb .. Top' - 1
      BY <1>e, <1>4, <1>3
    <3> QED
      BY <1>e, <1>4, <1>7, <1>12, <2>1, <2>3, <3>1, <3>2 DEF Received
  <2> QED
    BY <1>e, <1>4, <2>2, <2>3
<1>14. Receiving(E)'
  <2>1. CASE n > 0 /\ stage' = "data"
    <3>1. nb \notin received /\ nb \in E
      BY <1>e, <1>4, <1>2, <1>10 DEF Received
    <3>2. \A x \in nb .. nb - 1 : FALSE
      BY <1>e, <1>4, <1>3
    <3>3. expected'[nb] = n /\ n = n + (nb - nb) * PageUnits
      BY <1>e, <1>4, <1>2, <1>3, <1>4, <1>5 DEF TableType
    <3>4. b' = Top' - 1
      BY <1>e, <1>4, <1>3, <1>7, <2>1
    <3> QED
      BY <1>e, <1>4, <1>6, <1>7, <2>1, <3>1, <3>2, <3>3, <3>4 DEF Receiving, Directory, After, Smaller
  <2>2. CASE stage' # "data"
    BY <2>2 DEF Receiving
  <2>3. n > 0 \/ stage' # "data"
    BY <1>7
  <2> QED
    BY <2>1, <2>2, <2>3
<1>15. E \in SUBSET Blocks
  BY <1>e, <1>4, <1>4
<1> QED
  <2>1. Table(E)'
    BY <1>e, <1>4, <1>8, <1>9, <1>11, <1>13, <1>14 DEF Table
  <2> QED
    BY <1>e, <1>4, <1>15, <2>1 DEF TableInv

\* The file goes on in the next block, which its last block leads to already.
LEMMA TableNextBlock ==
    ASSUME TableInv, RecvNextBlock(FreeBlock) \/ (BeginBlock(FreeBlock) /\ LinkedOnly)
    PROVE  TableInv'
<1>0. PICK nb : nb = first_free_block
  OBVIOUS
<1>b. BeginBlock(FreeBlock)
  BY DEF RecvNextBlock
<1>1. PICK D \in SUBSET Blocks : Table(D)
  BY DEF TableInv
<1>2. TableType /\ Untaken /\ Listed(D) /\ Received(D) /\ Receiving(D)
  BY <1>1 DEF Table
<1>3. /\ Top = nb /\ nb \in 1 .. NbBlocks - 1 /\ Top' = nb + 1
      /\ bnext[nb] = After(nb) /\ After(nb) \in Blocks
  BY <1>0, <1>2, <1>b, TakingMovesTop DEF BeginBlock
<1>4. /\ NbBlocks \in Nat /\ PageUnits \in Nat \ {0}
      /\ nb \in Blocks /\ 0 \in Blocks /\ nb # 0
      /\ nb \in Nat /\ 0 < nb /\ nb < NbBlocks
  BY <1>3, FsAssumption DEF Blocks
<1>5. PICK f : f = bnext[Directory]
  OBVIOUS
<1>6. /\ f \in D \ received
      /\ b = nb - 1 /\ bnext[b] = After(b)
      /\ \A x \in f .. b - 1 : bnext[x] = x + 1 /\ size[x] = PageUnits
      /\ size[b] = Smaller(PageUnits, left)
      /\ expected[f] = left + (b - f) * PageUnits
      /\ left \in Nat /\ left > PageUnits
  BY <1>2, <1>3, <1>5, <1>b DEF Receiving, BeginBlock, TableType
<1>7. D \subseteq 1 .. nb - 1 /\ nb \notin D /\ f \in 1 .. nb - 1
  BY <1>2, <1>3, <1>6 DEF Listed
<1>8. b \in Blocks /\ b # nb /\ After(b) = nb
  BY <1>4, <1>6, <1>7 DEF Blocks, After
<1>9. bnext' = bnext
  BY <1>0, <1>2, <1>6, <1>8, <1>b DEF BeginBlock, FreeBlock, TableType
<1>10. /\ type' = [type EXCEPT ![nb] = TYPE_DBLK]
       /\ \/ /\ size' = [size EXCEPT ![nb] = Smaller(PageUnits, left - PageUnits)]
             /\ b' = nb /\ left' = left - PageUnits /\ stage' = "data"
          \/ LinkedOnly
       /\ UNCHANGED << dnext, expected, received >>
  BY <1>0, <1>b DEF BeginBlock, RecvNextBlock, FreeBlock, BeginData
<1>11. /\ size' \in [Blocks -> Int]
       /\ \A x \in Blocks \ {nb} : size'[x] = size[x] /\ type'[x] = type[x]
       /\ type' \in [Blocks -> Nat]
       /\ left' \in Nat
       /\ stage' = "data" =>
             /\ size'[nb] = Smaller(PageUnits, left - PageUnits)
             /\ b' = nb /\ left' = left - PageUnits /\ left' > 0
  BY <1>2, <1>4, <1>6, <1>10 DEF TableType, Smaller, TYPE_DBLK, LinkedOnly
<1>12. TableType'
  <2>1. first_free_block' \in Blocks
    BY <1>0, <1>3, <1>b DEF BeginBlock, TakesBlock
  <2> QED
    BY <1>2, <1>9, <1>10, <1>11, <2>1 DEF TableType
<1>13. Untaken'
  <2> SUFFICES ASSUME NEW x \in Top' .. NbBlocks - 1 PROVE bnext'[x] = After(x)
    BY DEF Untaken, After
  <2>1. x \in Top .. NbBlocks - 1
    BY <1>3, <1>4
  <2> QED
    BY <1>2, <1>9, <2>1 DEF Untaken
<1>14. \A x \in 1 .. nb - 1 : x \in Blocks /\ size'[x] = size[x] /\ type'[x] = type[x]
  <2> TAKE x \in 1 .. nb - 1
  <2>1. x \in Blocks \ {nb}
    BY <1>4 DEF Blocks
  <2> QED
    BY <1>11, <2>1
<1>15. Listed(D)'
  <2>1. D \subseteq 1 .. Top' - 1 /\ 1 \in D
    BY <1>2, <1>3, <1>4, <1>6, <1>7 DEF Listed
  <2>2. \A x \in 1 .. Top' - 1 : \E g \in D : g <= x /\ \A h \in D : h <= g \/ h > x
    <3> TAKE x \in 1 .. Top' - 1
    <3>1. CASE x = nb
      <4>1. PICK g \in D : g <= nb - 1 /\ \A h \in D : h <= g \/ h > nb - 1
        <5>1. nb - 1 \in 1 .. Top - 1
          BY <1>3, <1>4, <1>7
        <5> QED
          BY <1>2, <5>1 DEF Listed
      <4>2. \A h \in D : h <= nb - 1 /\ h \in Int
        BY <1>4, <1>7
      <4>3. \A h \in D : h <= g
        BY <1>4, <4>1, <4>2
      <4> QED
        BY <1>4, <3>1, <4>1, <4>2, <4>3
    <3>2. CASE x # nb
      <4>1. x \in 1 .. Top - 1
        BY <1>3, <1>4, <3>2
      <4> QED
        BY <1>2, <4>1 DEF Listed
    <3> QED
      BY <3>1, <3>2
  <2>3. \A g \in D : type'[g] = type[g]
    BY <1>7, <1>14
  <2> QED
    BY <1>2, <1>9, <1>10, <2>1, <2>2, <2>3 DEF Listed
<1>16. Received(D)'
  <2>1. received \subseteq D
    BY <1>2 DEF Received
  <2>2. ASSUME NEW g \in received PROVE \E e \in g .. Top' - 1 : WholeFile(D, g, e)'
    <3>1. PICK e \in g .. Top - 1 : WholeFile(D, g, e)
      BY <1>2, <2>2 DEF Received
    <3>2. g \in D /\ g \in 1 .. nb - 1 /\ e \in 1 .. nb - 1 /\ e \in Int
      BY <1>3, <1>4, <1>7, <2>1, <2>2, <3>1
    <3>3. g < f
      <4>1. g <= f /\ g # f
        BY <1>2, <1>5, <1>6, <2>2, <3>2 DEF Listed
      <4> QED
        BY <1>7, <3>2, <4>1
    <3>4. e < f
      <4>1. f <= g \/ f > e
        BY <1>6, <3>1 DEF WholeFile
      <4> QED
        BY <1>7, <3>2, <3>3, <4>1
    <3>5. e + 1 \in D
      BY <1>3, <1>4, <1>7, <3>1, <3>2, <3>4 DEF WholeFile
    <3>6. \A x \in g .. e : size'[x] = size[x]
      <4> TAKE x \in g .. e
      <4>1. x \in 1 .. nb - 1
        BY <1>4, <3>2
      <4> QED
        BY <1>14, <4>1
    <3>7. e \in g .. e /\ \A x \in g .. e - 1 : x \in g .. e
      BY <3>1, <3>2
    <3>8. e < Top' /\ e \in g .. Top' - 1
      BY <1>3, <1>4, <3>1, <3>2
    <3>9. WholeFile(D, g, e)'
      BY <1>9, <1>10, <3>1, <3>5, <3>6, <3>7, <3>8 DEF WholeFile
    <3> QED
      BY <3>8, <3>9
  <2> QED
    BY <1>10, <2>1, <2>2 DEF Received
<1>17. Receiving(D)'
  <2> SUFFICES ASSUME stage' = "data" PROVE Receiving(D)'
    BY DEF Receiving
  <2>1. nb = Top' - 1 /\ bnext'[nb] = After(nb)
    BY <1>3, <1>4, <1>9
  <2>2. \A x \in f .. nb - 1 : bnext'[x] = x + 1 /\ size'[x] = PageUnits
    <3> TAKE x \in f .. nb - 1
    <3>1. x \in 1 .. nb - 1
      BY <1>4, <1>7
    <3>2. CASE x = b
      BY <1>4, <1>6, <1>8, <1>9, <1>14, <3>1, <3>2 DEF Smaller
    <3>3. CASE x # b
      <4>1. x \in f .. b - 1
        BY <1>4, <1>6, <1>7, <3>3
      <4> QED
        BY <1>6, <1>9, <1>14, <3>1, <4>1
    <3> QED
      BY <3>2, <3>3
  <2>3. expected'[f] = left' + (nb - f) * PageUnits
    <3> DEFINE k == b - f
    <3>1. k \in Int /\ nb - f = k + 1 /\ left \in Int /\ PageUnits \in Int
      BY <1>4, <1>6, <1>7
    <3>2. expected[f] = left + k * PageUnits
      BY <1>6
    <3> HIDE DEF k
    <3>3. (k + 1) * PageUnits = k * PageUnits + PageUnits
      BY <3>1
    <3> QED
      BY <1>10, <1>11, <3>1, <3>2, <3>3
  <2>4. bnext'[Directory] = f /\ f \in D \ received'
    BY <1>5, <1>6, <1>9, <1>10
  <2> QED
    BY <1>10, <1>11, <2>1, <2>2, <2>3, <2>4 DEF Receiving, After, Smaller
<1> QED
  <2>1. Table(D)'
    BY <1>12, <1>13, <1>15, <1>16, <1>17 DEF Table
  <2> QED
    BY <1>1, <2>1 DEF TableInv

\* The file's last block ends its chain: the file is whole, and the others were
\* elsewhere.
LEMMA TableFileDone ==
    ASSUME TableInv, RecvFileDone
    PROVE  TableInv'
<1>1. PICK D \in SUBSET Blocks : Table(D)
  BY DEF TableInv
<1>2. TableType /\ Untaken /\ Listed(D) /\ Received(D) /\ Receiving(D)
  BY <1>1 DEF Table
<1>3. PICK f, nb : f = bnext[Directory] /\ nb = b
  OBVIOUS
<1>4. /\ NbBlocks \in Nat /\ NbBlocks > 1 /\ PageUnits \in Nat \ {0} /\ 0 \in Blocks
  BY FsAssumption DEF Blocks
<1>5. /\ f \in D \ received
      /\ nb = Top - 1 /\ bnext[nb] = After(nb)
      /\ \A x \in f .. nb - 1 : bnext[x] = x + 1 /\ size[x] = PageUnits
      /\ size[nb] = left
      /\ expected[f] = left + (nb - f) * PageUnits
      /\ left \in Nat /\ left <= PageUnits
  BY <1>2, <1>3, <1>4 DEF Receiving, RecvFileDone, TableType, Smaller
<1>6. Top \in Nat /\ Top <= NbBlocks
  BY <1>2, <1>4 DEF Top, TableType, Blocks
<1>7. D \subseteq 1 .. nb /\ f \in 1 .. nb /\ nb \in Blocks /\ nb > 0 /\ nb \in Nat
  BY <1>2, <1>4, <1>5, <1>6 DEF Listed, Blocks
<1>8. /\ bnext' = [bnext EXCEPT ![nb] = 0]
      /\ received' = received \cup {f}
      /\ left' = 0 /\ stage' = "header"
      /\ UNCHANGED << type, dnext, size, first_free_block, expected >>
  BY <1>3 DEF RecvFileDone
<1>9. /\ bnext' \in [Blocks -> Blocks] /\ bnext'[nb] = 0
      /\ \A x \in Blocks \ {nb} : bnext'[x] = bnext[x]
      /\ bnext'[Directory] = bnext[Directory]
  BY <1>2, <1>4, <1>7, <1>8 DEF TableType, Directory
<1>10. Top' = Top
  BY <1>8 DEF Top
<1>11. TableType'
  BY <1>2, <1>8, <1>9 DEF TableType
<1>12. Untaken'
  <2> SUFFICES ASSUME NEW x \in Top' .. NbBlocks - 1 PROVE bnext'[x] = After(x)
    BY DEF Untaken, After
  <2>1. x \in Top .. NbBlocks - 1 /\ x \in Blocks \ {nb}
    BY <1>4, <1>5, <1>6, <1>10 DEF Blocks
  <2> QED
    BY <1>2, <1>9, <2>1 DEF Untaken
<1>13. Listed(D)'
  BY <1>2, <1>8, <1>9, <1>10 DEF Listed
<1>14. received \subseteq D
  BY <1>2 DEF Received
<1>15. ASSUME NEW g \in received PROVE \E e \in g .. Top' - 1 : WholeFile(D, g, e)'
  <2>1. PICK e \in g .. Top - 1 : WholeFile(D, g, e)
    BY <1>2, <1>15 DEF Received
  <2>2. g \in D /\ g \in 1 .. nb /\ e \in 1 .. nb /\ e \in Int
    BY <1>5, <1>6, <1>7, <1>14, <1>15, <2>1
  <2>3. g < f
    <3>1. g <= f /\ g # f
      BY <1>2, <1>3, <1>5, <1>15, <2>2 DEF Listed
    <3> QED
      BY <1>7, <2>2, <3>1
  <2>4. e < f
    <3>1. f <= g \/ f > e
      BY <1>5, <2>1 DEF WholeFile
    <3> QED
      BY <1>7, <2>2, <2>3, <3>1
  <2>5. \A x \in g .. e : bnext'[x] = bnext[x]
    <3> TAKE x \in g .. e
    <3>1. x \in Blocks \ {nb}
      BY <1>4, <1>5, <1>6, <1>7, <2>2, <2>4 DEF Blocks
    <3> QED
      BY <1>9, <3>1
  <2>6. e \in g .. e /\ \A x \in g .. e - 1 : x \in g .. e
    BY <2>1, <2>2
  <2>7. WholeFile(D, g, e)'
    BY <1>8, <1>10, <2>1, <2>5, <2>6 DEF WholeFile
  <2> QED
    BY <1>10, <2>7
<1>16. WholeFile(D, f, nb)' /\ nb \in f .. Top' - 1
  <2>1. nb < Top' /\ nb + 1 = Top' /\ nb \in f .. Top' - 1
    BY <1>5, <1>6, <1>7, <1>10
  <2>2. \A x \in f .. nb - 1 : bnext'[x] = x + 1 /\ size'[x] = PageUnits
    <3> TAKE x \in f .. nb - 1
    <3>1. x \in Blocks \ {nb}
      BY <1>4, <1>5, <1>6, <1>7 DEF Blocks
    <3> QED
      BY <1>5, <1>8, <1>9, <3>1
  <2>3. \A g \in D : g <= f \/ g > nb
    BY <1>2, <1>3 DEF Listed
  <2>4. size'[nb] = expected'[f] - (nb - f) * PageUnits
    <3>1. (nb - f) * PageUnits \in Int
      BY <1>4, <1>7
    <3> QED
      BY <1>5, <1>8, <3>1
  <2> QED
    BY <1>9, <2>1, <2>2, <2>3, <2>4 DEF WholeFile
<1>17. Received(D)'
  BY <1>5, <1>8, <1>14, <1>15, <1>16 DEF Received
<1>18. Receiving(D)'
  BY <1>8 DEF Receiving
<1> QED
  <2>1. Table(D)'
    BY <1>11, <1>12, <1>13, <1>17, <1>18 DEF Table
  <2> QED
    BY <1>1, <2>1 DEF TableInv

\* Every step of a transfer keeps the table.
LEMMA TableNext == TableInv /\ [FsNext]_allVars => TableInv'
<1> SUFFICES ASSUME TableInv, [FsNext]_allVars PROVE TableInv'
  OBVIOUS
<1>1. ASSUME UNCHANGED << type, dnext, bnext, size, first_free_block, expected, received >>,
             left' \in Nat,
             stage' = "data" => stage = "data" /\ UNCHANGED << b, left >>
      PROVE  TableInv'
  <2>1. PICK D \in SUBSET Blocks : Table(D)
    BY DEF TableInv
  <2>2. Top' = Top
    BY <1>1 DEF Top
  <2>3. TableType' /\ Untaken' /\ Listed(D)'
    BY <1>1, <2>1, <2>2 DEF Table, TableType, Untaken, Listed, After
  <2>4. Received(D)'
    BY <1>1, <2>1, <2>2 DEF Table, Received, WholeFile
  <2>5. Receiving(D)'
    BY <1>1, <2>1, <2>2 DEF Table, Receiving, After, Smaller
  <2>6. Table(D)'
    BY <2>3, <2>4, <2>5 DEF Table
  <2> QED
    BY <2>1, <2>6 DEF TableInv
<1>2. left \in Nat
  BY DEF TableInv, Table, TableType
<1>3. CASE RecvStart
  BY <1>1, <1>2, <1>3 DEF RecvStart
<1>4. CASE RecvTrailer \/ RecvAbort
  BY <1>1, <1>4 DEF RecvTrailer, RecvAbort, FreeBuff
<1>5. CASE OutOfFrames
  <2>1. LinkedOnly
    BY <1>5 DEF OutOfFrames, LinkedOnly
  <2>2. CASE UNCHANGED << type, dnext, bnext, first_free_block, expected, received >>
    BY <1>1, <1>2, <2>1, <2>2 DEF LinkedOnly
  <2>3. ASSUME NEW n \in FileSizes, BeginLongFile(FreeBlock, n) PROVE TableInv'
    BY <2>1, <2>3, TableHeader
  <2>4. CASE BeginBlock(FreeBlock)
    BY <2>1, <2>4, TableNextBlock
  <2> QED
    BY <1>5, <2>2, <2>3, <2>4 DEF OutOfFrames
<1>6. CASE OutOfBlocks
  BY <1>1, <1>2, <1>6 DEF OutOfBlocks
<1>7. CASE UNCHANGED allVars
  BY <1>1, <1>2, <1>7 DEF allVars, fsVars
<1>8. ASSUME NEW n \in FileSizes, RecvHeader(FreeBlock, n) PROVE TableInv'
  BY <1>8, TableHeader
<1> QED
  BY <1>3, <1>4, <1>5, <1>6, <1>7, <1>8, TableNextBlock, TableFileDone DEF FsNext

-----------------------------------------------------------------------------
(* Following the links *)

\* Chain's recursive function exists and is computed step by step.
LEMMA ChainSteps ==
    ASSUME NEW link \in [Blocks -> Blocks], NEW i \in Blocks
    PROVE  \E met \in [0 .. NbBlocks -> SUBSET Blocks] :
               /\ Chain(link, i) = met[NbBlocks] \ {0}
               /\ met[0] = {i}
               /\ \A n \in 1 .. NbBlocks :
                     met[n] = met[n - 1] \cup { link[x] : x \in met[n - 1] \ {0} }
<1> DEFINE V == SUBSET Blocks
           E(s) == s \cup { link[x] : x \in s \ {0} }
           F(f) == [n \in 0 .. NbBlocks |-> IF n = 0 THEN {i} ELSE E(f[n - 1])]
           G == [a \in (1 .. NbBlocks) \X V |-> E(a[2])]
           it == CHOOSE f : f = F(f)
<1>1. Chain(link, i) = it[NbBlocks] \ {0}
  BY DEF Chain
<1>2. NbBlocks \in Nat /\ {i} \in V
  BY FsAssumption
<1>3. \A s \in V : E(s) \in V
  OBVIOUS
<1> HIDE DEF E, V
<1>4. IsStep(G, NbBlocks, V)
  BY <1>3 DEF IsStep
<1>5. \A n \in 1 .. NbBlocks, s \in V : G[<< n, s >>] = E(s)
  OBVIOUS
<1> HIDE DEF G, F
<1>6. PICK h : Iterates(h, NbBlocks, V, {i}, G)
  BY <1>2, <1>4, IterationExists
<1>7. ASSUME NEW n \in 1 .. NbBlocks PROVE h[n] = E(h[n - 1])
  <2>1. n - 1 \in 0 .. NbBlocks
    BY <1>2
  <2>2. h[n - 1] \in V
    BY <1>6, <2>1 DEF Iterates
  <2> QED
    BY <1>5, <1>6, <2>2 DEF Iterates
<1>8. h = F(h)
  <2>1. ASSUME NEW n \in 0 .. NbBlocks PROVE F(h)[n] = h[n]
    <3>1. CASE n = 0
      BY <1>6, <3>1 DEF F, Iterates
    <3>2. CASE n # 0
      <4>1. n \in 1 .. NbBlocks
        BY <1>2, <3>2
      <4>2. F(h)[n] = E(h[n - 1])
        BY <3>2 DEF F
      <4> QED
        BY <1>7, <4>1, <4>2
    <3> QED
      BY <3>1, <3>2
  <2>2. h = [n \in 0 .. NbBlocks |-> h[n]] /\ F(h) = [n \in 0 .. NbBlocks |-> F(h)[n]]
    BY <1>6 DEF F, Iterates
  <2> QED
    BY <2>1, <2>2
<1>9. it = F(it)
  <2> HIDE DEF it
  <2>1. it = CHOOSE f : f = F(f)
    BY DEF it
  <2> QED
    BY <1>8, <2>1
<1> HIDE DEF it
<1>10. it[0] = {i}
  <2>1. 0 \in 0 .. NbBlocks
    BY <1>2
  <2>2. F(it)[0] = {i}
    BY <2>1 DEF F
  <2> QED
    BY <1>9, <2>2
<1>11. \A n \in 1 .. NbBlocks : it[n] = E(it[n - 1])
  <2> TAKE n \in 1 .. NbBlocks
  <2>1. n \in 0 .. NbBlocks /\ n # 0
    BY <1>2
  <2>2. F(it)[n] = E(it[n - 1])
    BY <2>1 DEF F
  <2> QED
    BY <1>9, <2>2
<1>12. it = [n \in 0 .. NbBlocks |-> it[n]]
  <2>1. F(it) = [n \in 0 .. NbBlocks |-> F(it)[n]]
    BY DEF F
  <2> QED
    BY <1>9, <2>1
<1>13. \A n \in 0 .. NbBlocks : it[n] \in V
  <2> DEFINE T == { n \in 0 .. NbBlocks : it[n] \in V }
  <2>1. 0 \in T
    BY <1>2, <1>10
  <2>2. ASSUME NEW n \in 0 .. NbBlocks - 1, n \in T PROVE n + 1 \in T
    <3>1. n + 1 \in 1 .. NbBlocks /\ n + 1 \in 0 .. NbBlocks /\ (n + 1) - 1 = n
      BY <1>2
    <3>2. it[n + 1] = E(it[n])
      BY <1>11, <3>1
    <3> QED
      BY <1>3, <2>2, <3>1, <3>2
  <2> HIDE DEF T
  <2>3. 0 .. NbBlocks \subseteq T
    BY <1>2, <2>1, <2>2, SetInduction
  <2> QED
    BY <2>3 DEF T
<1>14. it \in [0 .. NbBlocks -> V]
  BY <1>12, <1>13
<1> QED
  BY <1>1, <1>10, <1>11, <1>14 DEF E, V

\* Links that stay in S lead nowhere else.
LEMMA ChainWithin ==
    ASSUME NEW link \in [Blocks -> Blocks], NEW i \in Blocks, NEW S \in SUBSET Blocks,
           i \in S \cup {0}, \A x \in S : link[x] \in S \cup {0}
    PROVE  Chain(link, i) \subseteq S
<1>1. PICK met \in [0 .. NbBlocks -> SUBSET Blocks] :
               /\ Chain(link, i) = met[NbBlocks] \ {0}
               /\ met[0] = {i}
               /\ \A n \in 1 .. NbBlocks :
                     met[n] = met[n - 1] \cup { link[x] : x \in met[n - 1] \ {0} }
  BY ChainSteps
<1>2. NbBlocks \in Nat
  BY FsAssumption
<1> DEFINE T == { n \in 0 .. NbBlocks : met[n] \subseteq S \cup {0} }
<1>3. 0 \in T
  BY <1>1, <1>2
<1>4. ASSUME NEW n \in 0 .. NbBlocks - 1, n \in T PROVE n + 1 \in T
  <2>1. n + 1 \in 1 .. NbBlocks /\ n + 1 \in 0 .. NbBlocks /\ (n + 1) - 1 = n
    BY <1>2
  <2>2. met[n + 1] = met[n] \cup { link[x] : x \in met[n] \ {0} }
    BY <1>1, <2>1
  <2> QED
    BY <1>4, <2>1, <2>2
<1> HIDE DEF T
<1>5. NbBlocks \in T
  <2>1. 0 .. NbBlocks \subseteq T
    BY <1>2, <1>3, <1>4, SetInduction
  <2> QED
    BY <1>2, <2>1
<1> QED
  BY <1>1, <1>5 DEF T

\* Blocks that are reached from one another, starting at i, are on its chain.
LEMMA ChainReaches ==
    ASSUME NEW link \in [Blocks -> Blocks], NEW i \in Blocks, NEW S, 0 \notin S,
           NEW d \in [S -> 0 .. NbBlocks],
           \A x \in S : x = i \/ \E y \in S : link[y] = x /\ d[y] < d[x]
    PROVE  S \subseteq Chain(link, i)
<1>1. PICK met \in [0 .. NbBlocks -> SUBSET Blocks] :
               /\ Chain(link, i) = met[NbBlocks] \ {0}
               /\ met[0] = {i}
               /\ \A n \in 1 .. NbBlocks :
                     met[n] = met[n - 1] \cup { link[x] : x \in met[n - 1] \ {0} }
  BY ChainSteps
<1>2. NbBlocks \in Nat
  BY FsAssumption
<1>3. \A x \in S : d[x] \in Nat /\ d[x] <= NbBlocks
  BY <1>2
<1> DEFINE T == { n \in 0 .. NbBlocks : i \in met[n] /\ \A x \in S : d[x] <= n => x \in met[n] }
<1>4. 0 \in T
  <2> SUFFICES ASSUME NEW x \in S, d[x] <= 0 PROVE x \in met[0]
    BY <1>1, <1>2
  <2>1. ~ \E y \in S : d[y] < d[x]
    BY <1>3
  <2> QED
    BY <1>1, <2>1
<1>5. ASSUME NEW n \in 0 .. NbBlocks - 1, n \in T PROVE n + 1 \in T
  <2>1. n + 1 \in 1 .. NbBlocks /\ n + 1 \in 0 .. NbBlocks /\ (n + 1) - 1 = n /\ n \in Nat
    BY <1>2
  <2>2. met[n + 1] = met[n] \cup { link[x] : x \in met[n] \ {0} }
    BY <1>1, <2>1
  <2>3. ASSUME NEW x \in S, d[x] <= n + 1 PROVE x \in met[n + 1]
    <3>1. CASE x = i
      BY <1>5, <2>2, <3>1
    <3>2. CASE x # i
      <4>1. PICK y \in S : link[y] = x /\ d[y] < d[x]
        BY <3>2
      <4>2. d[y] <= n
        BY <1>3, <2>1, <2>3, <4>1
      <4>3. y \in met[n] \ {0}
        BY <1>5, <4>2
      <4> QED
        BY <2>2, <4>1, <4>3
    <3> QED
      BY <3>1, <3>2
  <2> QED
    BY <1>5, <2>1, <2>2, <2>3
<1> HIDE DEF T
<1>6. NbBlocks \in T
  <2>1. 0 .. NbBlocks \subseteq T
    BY <1>2, <1>4, <1>5, SetInduction
  <2> QED
    BY <1>2, <2>1
<1> QED
  BY <1>1, <1>3, <1>6 DEF T

\* Blocks in a row, each linked to the next one, are the chain.
LEMMA RowChain ==
    ASSUME NEW link \in [Blocks -> Blocks], NEW f \in Nat, NEW e \in Nat,
           0 < f, f <= e, e < NbBlocks, link[e] = 0,
           \A x \in f .. e - 1 : link[x] = x + 1
    PROVE  Chain(link, f) = f .. e
<1>1. NbBlocks \in Nat /\ f \in Blocks /\ f .. e \in SUBSET Blocks
  BY FsAssumption DEF Blocks
<1>2. Chain(link, f) \subseteq f .. e
  <2>1. \A x \in f .. e : link[x] \in (f .. e) \cup {0}
    <3> TAKE x \in f .. e
    <3>1. CASE x = e
      BY <3>1
    <3>2. CASE x # e
      BY <3>2
    <3> QED
      BY <3>1, <3>2
  <2>2. f \in (f .. e) \cup {0}
    OBVIOUS
  <2> QED
    BY <1>1, <2>1, <2>2, ChainWithin
<1>3. f .. e \subseteq Chain(link, f)
  <2> DEFINE d == [x \in f .. e |-> x - f]
  <2>1. d \in [f .. e -> 0 .. NbBlocks]
    BY <1>1
  <2>2. ASSUME NEW x \in f .. e, x # f
        PROVE  \E y \in f .. e : link[y] = x /\ d[y] < d[x]
    <3>1. x - 1 \in f .. e - 1 /\ x - 1 \in f .. e
      BY <2>2
    <3>2. link[x - 1] = x /\ d[x - 1] < d[x]
      BY <3>1
    <3> QED
      BY <3>1, <3>2
  <2>3. 0 \notin f .. e
    OBVIOUS
  <2> HIDE DEF d
  <2> QED
    BY <1>1, <2>1, <2>2, <2>3, ChainReaches
<1> QED
  BY <1>2, <1>3

\* What the table says of its chains, in numbers.
LEMMA TableChains ==
    ASSUME NEW D \in SUBSET Blocks, Table(D)
    PROVE  /\ D \subseteq 1 .. Top - 1 /\ Top \in 1 .. NbBlocks
           /\ Files = D
           /\ FreeBlocks = Top .. NbBlocks - 1
           /\ \A f \in received :
                 \E e \in f .. Top - 1 :
                    WholeFile(D, f, e) /\ Chain(bnext, f) = f .. e
<1>1. TableType /\ Untaken /\ Listed(D) /\ Received(D)
  BY DEF Table
<1>2. NbBlocks \in Nat /\ NbBlocks > 1 /\ 0 \in Blocks
  BY FsAssumption DEF Blocks
<1>3. Top \in 1 .. NbBlocks /\ first_free_block \in Blocks
      /\ (first_free_block = 0 => Top = NbBlocks)
      /\ (first_free_block # 0 => Top = first_free_block /\ Top < NbBlocks)
  BY <1>1, <1>2 DEF Top, TableType, Blocks
<1>4. D \subseteq 1 .. Top - 1 /\ 0 \notin D
  BY <1>1, <1>3 DEF Listed
<1>5. Files = D
  <2> DEFINE h == bnext[Directory]
  <2>1. h \in D \cup {0} /\ h \in Blocks /\ dnext \in [Blocks -> Blocks]
    BY <1>1, <1>2 DEF Listed, TableType
  <2>2. \A g \in D : /\ g <= h /\ dnext[g] \in D \cup {0} /\ dnext[g] < g
                     /\ g = h \/ \E y \in D : dnext[y] = g
    BY <1>1 DEF Listed
  <2>3. h \in Int /\ \A g \in D : g \in Int /\ 0 < g /\ g < NbBlocks
    BY <1>2, <1>3, <1>4, <2>1 DEF Blocks
  <2> HIDE DEF h
  <2>4. Chain(dnext, h) \subseteq D
    BY <2>1, <2>2, ChainWithin
  <2>5. D \subseteq Chain(dnext, h)
    <3> DEFINE d == [g \in D |-> h - g]
    <3>1. h < NbBlocks
      BY <1>2, <2>1, <2>3
    <3>2. d \in [D -> 0 .. NbBlocks]
      <4>1. \A g \in D : h - g \in 0 .. NbBlocks
        BY <1>2, <2>2, <2>3, <3>1
      <4> QED
        BY <4>1
    <3>3. ASSUME NEW x \in D, x # h
          PROVE  \E y \in D : dnext[y] = x /\ d[y] < d[x]
      <4>1. PICK y \in D : dnext[y] = x
        BY <2>2, <3>3
      <4>2. x < y /\ x \in Int /\ y \in Int
        BY <2>2, <2>3, <4>1
      <4>3. d[y] < d[x]
        BY <2>3, <4>2
      <4> QED
        BY <4>1, <4>3
    <3> HIDE DEF d
    <3> QED
      BY <1>4, <2>1, <3>2, <3>3, ChainReaches
  <2>6. Files = Chain(dnext, h)
    BY DEF Files, h
  <2> QED
    BY <2>4, <2>5, <2>6
<1>6. FreeBlocks = Top .. NbBlocks - 1
  <2>1. bnext \in [Blocks -> Blocks]
    BY <1>1 DEF TableType
  <2>2. CASE first_free_block = 0
    <3>1. PICK S \in SUBSET Blocks : S = {}
      OBVIOUS
    <3>2. FreeBlocks \subseteq {}
      <4>1. first_free_block \in S \cup {0} /\ \A x \in S : bnext[x] \in S \cup {0}
        BY <2>2, <3>1
      <4>2. Chain(bnext, first_free_block) \subseteq S
        BY <1>3, <2>1, <4>1, ChainWithin
      <4> QED
        BY <3>1, <4>2 DEF FreeBlocks
    <3>3. Top .. NbBlocks - 1 = {}
      BY <1>2, <1>3, <2>2
    <3> QED
      BY <3>2, <3>3
  <2>3. CASE first_free_block # 0
    <3>1. Top = first_free_block /\ Top \in Nat /\ 0 < Top /\ Top <= NbBlocks - 1
          /\ NbBlocks - 1 \in Nat /\ NbBlocks - 1 < NbBlocks
      BY <1>2, <1>3, <2>3
    <3>2. bnext[NbBlocks - 1] = 0
      <4>1. NbBlocks - 1 \in Top .. NbBlocks - 1
        BY <3>1
      <4> QED
        BY <1>1, <4>1 DEF Untaken, After
    <3>3. \A x \in Top .. (NbBlocks - 1) - 1 : bnext[x] = x + 1
      <4> TAKE x \in Top .. (NbBlocks - 1) - 1
      <4>1. x \in Top .. NbBlocks - 1 /\ x # NbBlocks - 1
        BY <1>2, <3>1
      <4> QED
        BY <1>1, <4>1 DEF Untaken, After
    <3>4. Chain(bnext, Top) = Top .. NbBlocks - 1
      BY <2>1, <3>1, <3>2, <3>3, RowChain
    <3> QED
      BY <3>1, <3>4 DEF FreeBlocks
  <2> QED
    BY <2>2, <2>3
<1>7. ASSUME NEW f \in received
      PROVE  \E e \in f .. Top - 1 : WholeFile(D, f, e) /\ Chain(bnext, f) = f .. e
  <2>1. PICK e \in f .. Top - 1 : WholeFile(D, f, e)
    BY <1>1, <1>7 DEF Received
  <2>2. f \in D
    BY <1>1, <1>7 DEF Received
  <2>3. f \in Nat /\ e \in Nat /\ 0 < f /\ f <= e /\ e < NbBlocks
    BY <1>2, <1>3, <1>4, <2>1, <2>2
  <2>4. bnext \in [Blocks -> Blocks] /\ bnext[e] = 0 /\ \A x \in f .. e - 1 : bnext[x] = x + 1
    BY <1>1, <2>1 DEF TableType, WholeFile
  <2>5. Chain(bnext, f) = f .. e
    BY <2>3, <2>4, RowChain
  <2> QED
    BY <2>1, <2>5
<1> QED
  BY <1>3, <1>4, <1>5, <1>6, <1>7

LEMMA TableDirectory == TableInv => DirectoryEnds
<1> SUFFICES ASSUME NEW D \in SUBSET Blocks, Table(D) PROVE DirectoryEnds
  BY DEF TableInv
<1>1. D \subseteq 1 .. Top - 1 /\ Top \in 1 .. NbBlocks /\ Files = D
  BY TableChains
<1>2. Listed(D)
  BY DEF Table
<1>3. Ends(dnext, bnext[Directory])
  <2>1. CASE bnext[Directory] = 0
    BY <2>1 DEF Ends
  <2>2. CASE bnext[Directory] # 0
    <3>1. bnext[Directory] \in D
      BY <1>2, <2>2 DEF Listed
    <3>2. Top > 1
      <4>1. \A g \in D : 1 <= Top - 1 /\ Top \in Int
        BY <1>1
      <4> QED
        BY <3>1, <4>1
    <3>3. 1 \in D
      BY <1>2, <3>2 DEF Listed
    <3>4. dnext[1] \in D \cup {0} /\ dnext[1] < 1
      BY <1>2, <3>3 DEF Listed
    <3>5. \A g \in D : g \in Int /\ g >= 1
      BY <1>1
    <3>6. dnext[1] = 0
      BY <3>4, <3>5
    <3>7. 1 \in Chain(dnext, bnext[Directory])
      BY <1>1, <3>3 DEF Files
    <3> QED
      BY <3>6, <3>7 DEF Ends
  <2> QED
    BY <2>1, <2>2
<1> QED
  BY <1>1, <1>2, <1>3 DEF DirectoryEnds, Listed

LEMMA TableFiles == TableInv => FilesSound
<1> SUFFICES ASSUME NEW D \in SUBSET Blocks, Table(D) PROVE FilesSound
  BY DEF TableInv
<1>1. /\ D \subseteq 1 .. Top - 1 /\ Top \in 1 .. NbBlocks
      /\ Files = D
      /\ FreeBlocks = Top .. NbBlocks - 1
      /\ \A f \in received :
            \E e \in f .. Top - 1 : WholeFile(D, f, e) /\ Chain(bnext, f) = f .. e
  BY TableChains
<1>2. NbBlocks \in Nat /\ NbBlocks > 1
  BY FsAssumption
<1>3. Listed(D) /\ received \subseteq D
  BY DEF Table, Received
<1>4. ASSUME NEW f \in received PROVE Ends(bnext, f)
  <2>1. PICK e \in f .. Top - 1 : WholeFile(D, f, e) /\ Chain(bnext, f) = f .. e
    BY <1>1, <1>4
  <2>2. f \in Int
    BY <1>1, <1>2, <1>3, <1>4
  <2>3. e \in Chain(bnext, f) /\ bnext[e] = 0
    BY <1>1, <1>2, <2>1, <2>2 DEF WholeFile
  <2> QED
    BY <2>3 DEF Ends
<1>5. ASSUME NEW f \in received, NEW g \in received, f # g
      PROVE  Chain(bnext, f) \cap Chain(bnext, g) = {}
  <2>1. PICK e \in f .. Top - 1 : WholeFile(D, f, e) /\ Chain(bnext, f) = f .. e
    BY <1>1, <1>5
  <2>2. PICK k \in g .. Top - 1 : WholeFile(D, g, k) /\ Chain(bnext, g) = g .. k
    BY <1>1, <1>5
  <2>3. f \in D /\ g \in D /\ f \in Int /\ g \in Int
    BY <1>1, <1>2, <1>3, <1>5
  <2>4. (g <= f \/ g > e) /\ (f <= g \/ f > k)
    BY <2>1, <2>2, <2>3 DEF WholeFile
  <2>5. Top \in Int
    BY <1>1, <1>2
  <2> QED
    BY <1>5, <2>1, <2>2, <2>3, <2>4, <2>5
<1>6. ASSUME NEW f \in received PROVE Chain(bnext, f) \cap FreeBlocks = {}
  <2>1. PICK e \in f .. Top - 1 : Chain(bnext, f) = f .. e
    BY <1>1, <1>6
  <2>2. f \in Int /\ Top \in Int
    BY <1>1, <1>2, <1>3, <1>6
  <2> QED
    BY <1>1, <1>2, <2>1, <2>2
<1>7. Kept(received)
  BY <1>4, <1>5, <1>6 DEF Kept
<1>8. ASSUME Files = received
      PROVE  (UNION { Chain(bnext, f) : f \in Files }) \cup FreeBlocks = Blocks \ {Directory}
  <2>1. Blocks \ {Directory} = 1 .. NbBlocks - 1
    BY <1>2 DEF Blocks, Directory
  <2>2. ASSUME NEW f \in Files PROVE Chain(bnext, f) \subseteq 1 .. NbBlocks - 1
    <3>1. PICK e \in f .. Top - 1 : Chain(bnext, f) = f .. e
      BY <1>1, <1>8, <2>2
    <3>2. f \in Int /\ f >= 1 /\ Top \in Int /\ Top <= NbBlocks
      BY <1>1, <1>2, <2>2
    <3> QED
      BY <1>2, <3>1, <3>2
  <2>3. FreeBlocks \subseteq 1 .. NbBlocks - 1
    BY <1>1, <1>2
  <2>4. ASSUME NEW x \in 1 .. NbBlocks - 1, x \notin FreeBlocks
        PROVE  \E f \in Files : x \in Chain(bnext, f)
    <3>1. x \in 1 .. Top - 1
      BY <1>1, <1>2, <2>4
    <3>2. PICK f \in D : f <= x /\ \A g \in D : g <= f \/ g > x
      BY <1>3, <3>1 DEF Listed
    <3>3. PICK e \in f .. Top - 1 : WholeFile(D, f, e) /\ Chain(bnext, f) = f .. e
      BY <1>1, <1>8, <3>2
    <3>4. f \in Int /\ Top \in Int /\ e \in Int /\ f <= e
      BY <1>1, <1>2, <3>2, <3>3
    <3>5. e + 1 \in D \cup {Top}
      BY <3>3 DEF WholeFile
    <3>6. x <= e
      <4>1. CASE e + 1 = Top
        BY <3>1, <3>4, <4>1
      <4>2. CASE e + 1 \in D
        <5>1. e + 1 <= f \/ e + 1 > x
          BY <3>2, <4>2
        <5> QED
          BY <3>1, <3>4, <5>1
      <4> QED
        BY <3>5, <4>1, <4>2
    <3>7. x \in f .. e
      BY <3>1, <3>2, <3>4, <3>6
    <3> QED
      BY <1>1, <3>2, <3>3, <3>7
  <2> DEFINE R == 1 .. NbBlocks - 1
  <2>5. PICK U : U = UNION { Chain(bnext, f) : f \in Files }
    OBVIOUS
  <2>6. U \subseteq R
    BY <2>2, <2>5
  <2>7. \A x \in R : x \in FreeBlocks \/ x \in U
    <3> SUFFICES ASSUME NEW x \in R, x \notin FreeBlocks PROVE x \in U
      OBVIOUS
    <3>1. PICK f \in Files : x \in Chain(bnext, f)
      BY <2>4
    <3> QED
      BY <2>5, <3>1
  <2>8. Blocks \ {Directory} = R /\ FreeBlocks \subseteq R
    BY <2>1, <2>3
  <2> HIDE DEF R
  <2>9. U \cup FreeBlocks = R
    BY <2>6, <2>7, <2>8
  <2> QED
    BY <2>5, <2>8, <2>9
<1> QED
  BY <1>7, <1>8 DEF FilesSound

\* ls and cat of the directory end (fs_list_dir, fs_find_file), at any moment of a
\* transfer and after an abort, and what they list are files.
THEOREM DirectoryIsEnded == FsSpec => []DirectoryEnds
BY TableInit, TableNext, TableDirectory, PTL DEF FsSpec

\* A file received to its end keeps its blocks to itself, none of them free, and
\* without an abort every block of the table is a file's or free (fs_recv_cpio,
\* fs_find_free_block).
THEOREM FilesAreSound == FsSpec => []FilesSound
BY TableInit, TableNext, TableFiles, PTL DEF FsSpec

-----------------------------------------------------------------------------
(* Sizes *)

Total(sz, S) == MapThenSumSet(LAMBDA x : sz[x], S)

\* The sum that ls adds up, when all but one of the blocks have the same size.
LEMMA SumOfBlocks ==
    ASSUME NEW S, IsFiniteSet(S), NEW e \in S, NEW sz, NEW p \in Int, NEW r \in Int,
           sz[e] = r, \A x \in S \ {e} : sz[x] = p
    PROVE  Total(sz, S) = Cardinality(S \ {e}) * p + r
<1> DEFINE ch(s) == CHOOSE x \in s : TRUE
           C(s) == Cardinality(s \ {e}) * p + (IF e \in s THEN r ELSE 0)
           E(g, s) == IF s = {} THEN 0 ELSE sz[ch(s)] + g[s \ {ch(s)}]
           F(g) == [s \in SUBSET S |-> E(g, s)]
           it == CHOOSE g : g = F(g)
           h == [s \in SUBSET S |-> C(s)]
<1>1. Total(sz, S) = it[S]
  BY DEF Total, MapThenSumSet, MapThenFoldSet
<1>2. ASSUME NEW s \in SUBSET S
      PROVE  /\ IsFiniteSet(s) /\ IsFiniteSet(s \ {e}) /\ Cardinality(s \ {e}) \in Nat
  <2>1. IsFiniteSet(s) /\ IsFiniteSet(s \ {e})
    BY FS_Subset
  <2> QED
    BY <2>1, FS_CardinalityType
<1>3. ASSUME NEW s \in SUBSET S, s # {}
      PROVE  ch(s) \in s /\ s \ {ch(s)} \in SUBSET S
  <2>1. \E x \in s : TRUE
    BY <1>3
  <2>2. ch(s) \in s
    BY <2>1, Zenon
  <2> QED
    BY <2>2
<1>4. C({}) = 0
  <2>1. {} \ {e} = {} /\ e \notin {}
    OBVIOUS
  <2>2. Cardinality({}) = 0
    BY FS_EmptySet
  <2> QED
    BY <2>1, <2>2
<1> HIDE DEF ch
<1>5. ASSUME NEW s \in SUBSET S, NEW x \in s PROVE C(s) = sz[x] + C(s \ {x})
  <2>1. CASE x = e
    <3>1. (s \ {x}) \ {e} = s \ {e} /\ e \notin s \ {x} /\ e \in s
      BY <2>1
    <3>2. C(s) = Cardinality(s \ {e}) * p + r /\ C(s \ {x}) = Cardinality(s \ {e}) * p + 0
      BY <3>1
    <3>3. PICK k \in Int : k = Cardinality(s \ {e})
      BY <1>2
    <3>4. k * p \in Int
      OBVIOUS
    <3> QED
      BY <2>1, <3>2, <3>3, <3>4
  <2>2. CASE x # e
    <3>1. (s \ {x}) \ {e} = (s \ {e}) \ {x} /\ x \in s \ {e} /\ (e \in s \ {x} <=> e \in s)
      BY <2>2
    <3>2. PICK k \in Int : k = Cardinality((s \ {x}) \ {e})
      <4>1. s \ {x} \in SUBSET S
        OBVIOUS
      <4> QED
        BY <1>2, <4>1
    <3>3. Cardinality(s \ {e}) = k + 1
      <4>1. Cardinality((s \ {e}) \ {x}) = Cardinality(s \ {e}) - 1
        BY <1>2, <3>1, FS_RemoveElement
      <4>2. IsFiniteSet(s \ {e}) /\ Cardinality(s \ {e}) \in Int
        BY <1>2
      <4> QED
        BY <3>1, <3>2, <4>1, <4>2
    <3>4. (k + 1) * p = k * p + p /\ k * p \in Int
      OBVIOUS
    <3>5. sz[x] = p
      BY <2>2
    <3>6. PICK y \in Int : y = IF e \in s THEN r ELSE 0
      OBVIOUS
    <3>7. C(s) = (k + 1) * p + y /\ C(s \ {x}) = k * p + y
      BY <3>1, <3>2, <3>3, <3>6
    <3> QED
      BY <3>4, <3>5, <3>7
  <2> QED
    BY <2>1, <2>2
<1> HIDE DEF C
<1>6. h = F(h)
  <2>1. ASSUME NEW s \in SUBSET S PROVE C(s) = E(h, s)
    <3>1. CASE s = {}
      BY <1>4, <3>1
    <3>2. CASE s # {}
      <4>1. ch(s) \in s /\ s \ {ch(s)} \in SUBSET S
        BY <1>3, <3>2
      <4>2. h[s \ {ch(s)}] = C(s \ {ch(s)})
        BY <4>1
      <4>3. C(s) = sz[ch(s)] + C(s \ {ch(s)})
        BY <1>5, <4>1
      <4> QED
        BY <3>2, <4>2, <4>3
    <3> QED
      BY <3>1, <3>2
  <2> HIDE DEF E
  <2> QED
    BY <2>1
<1> HIDE DEF h
<1>7. it = F(it)
  <2> HIDE DEF it, F
  <2>1. it = CHOOSE g : g = F(g)
    BY DEF it
  <2> QED
    BY <1>6, <2>1
<1> HIDE DEF it
<1>8. ASSUME NEW s \in SUBSET S PROVE it[s] = E(it, s)
  <2> HIDE DEF E
  <2>1. F(it)[s] = E(it, s)
    OBVIOUS
  <2> QED
    BY <1>7, <2>1
<1> HIDE DEF F
<1> DEFINE N == Cardinality(S)
           T == { n \in 0 .. N : \A s \in SUBSET S : Cardinality(s) = n => it[s] = C(s) }
<1>9. N \in Nat
  BY FS_CardinalityType
<1>10. 0 \in T
  <2> SUFFICES ASSUME NEW s \in SUBSET S, Cardinality(s) = 0 PROVE it[s] = C(s)
    BY <1>9
  <2>1. s = {}
    BY <1>2, FS_EmptySet
  <2>2. it[s] = 0
    BY <1>8, <2>1
  <2> QED
    BY <1>4, <2>1, <2>2
<1>11. ASSUME NEW n \in 0 .. N - 1, n \in T PROVE n + 1 \in T
  <2> SUFFICES ASSUME NEW s \in SUBSET S, Cardinality(s) = n + 1 PROVE it[s] = C(s)
    BY <1>9
  <2>1. s # {}
    <3>1. Cardinality({}) = 0
      BY FS_EmptySet
    <3> QED
      BY <3>1
  <2>2. ch(s) \in s /\ s \ {ch(s)} \in SUBSET S
    BY <1>3, <2>1
  <2>3. Cardinality(s \ {ch(s)}) = n
    <3>1. Cardinality(s \ {ch(s)}) = Cardinality(s) - 1
      BY <1>2, <2>2, FS_RemoveElement
    <3> QED
      BY <3>1
  <2>4. it[s \ {ch(s)}] = C(s \ {ch(s)})
    BY <1>11, <2>2, <2>3
  <2>5. it[s] = sz[ch(s)] + it[s \ {ch(s)}]
    BY <1>8, <2>1
  <2>6. C(s) = sz[ch(s)] + C(s \ {ch(s)})
    BY <1>5, <2>2
  <2> QED
    BY <2>4, <2>5, <2>6
<1>12. N \in T
  <2> HIDE DEF T
  <2>1. 0 .. N \subseteq T
    BY <1>9, <1>10, <1>11, SetInduction
  <2> QED
    BY <1>9, <2>1
<1>13. it[S] = C(S)
  BY <1>12
<1> QED
  BY <1>1, <1>13 DEF C

LEMMA TableSizes == TableInv => SizesTold
<1> SUFFICES ASSUME NEW D \in SUBSET Blocks, Table(D),
                    NEW f \in received, expected[f] > 0
             PROVE  FileSize(f) = expected[f]
  BY DEF TableInv, SizesTold
<1>1. /\ D \subseteq 1 .. Top - 1 /\ Top \in 1 .. NbBlocks
      /\ \E e \in f .. Top - 1 : WholeFile(D, f, e) /\ Chain(bnext, f) = f .. e
  BY TableChains
<1>2. PICK e \in f .. Top - 1 : WholeFile(D, f, e) /\ Chain(bnext, f) = f .. e
  BY <1>1
<1>3. f \in D /\ expected \in [Blocks -> Nat]
  BY DEF Table, Received, TableType
<1>4. NbBlocks \in Nat /\ PageUnits \in Nat
  BY FsAssumption
<1>5. f \in Int /\ e \in Int /\ f <= e /\ expected[f] \in Int
  BY <1>1, <1>2, <1>3, <1>4
<1>6. PICK m \in Int : m = e - f
  BY <1>5
<1>7. m * PageUnits \in Int
  BY <1>4, <1>6
<1>8. PICK r \in Int : r = expected[f] - m * PageUnits
  BY <1>5, <1>7
<1>9. /\ size[e] = r
      /\ \A x \in (f .. e) \ {e} : size[x] = PageUnits
  <2>1. \A x \in (f .. e) \ {e} : x \in f .. e - 1
    BY <1>5
  <2> QED
    BY <1>2, <1>6, <1>8, <2>1 DEF WholeFile
<1>10. IsFiniteSet(f .. e) /\ e \in f .. e
  BY <1>5, FS_Interval
<1>11. Cardinality((f .. e) \ {e}) = m
  <2>1. Cardinality(f .. e) = e - f + 1
    BY <1>5, FS_Interval
  <2>2. Cardinality((f .. e) \ {e}) = Cardinality(f .. e) - 1
    BY <1>10, FS_RemoveElement
  <2> QED
    BY <1>5, <1>6, <2>1, <2>2
<1>12. Total(size, f .. e) = m * PageUnits + r
  <2>1. PICK S, p, l, sz : S = f .. e /\ p = PageUnits /\ l = e /\ sz = size
    OBVIOUS
  <2>2. /\ IsFiniteSet(S) /\ l \in S /\ p \in Int
        /\ sz[l] = r /\ \A x \in S \ {l} : sz[x] = p
    BY <1>4, <1>9, <1>10, <2>1
  <2>3. Total(sz, S) = Cardinality(S \ {l}) * p + r
    BY <2>2, SumOfBlocks
  <2> QED
    BY <1>11, <2>1, <2>3
<1>13. FileSize(f) = m * PageUnits + r
  BY <1>2, <1>12 DEF FileSize, Total
<1> QED
  BY <1>5, <1>7, <1>8, <1>13

\* The size ls adds up for a file received to its end is the one the archive gave
\* (fs_get_file_size over the sizes fs_recv_cpio stored), whatever was received or
\* aborted since.
THEOREM SizesAreTold == FsSpec => []SizesTold
BY TableInit, TableNext, TableSizes, PTL DEF FsSpec

-----------------------------------------------------------------------------
(* A transfer, byte by byte: the bytes of an archive *)

\* Where the parts of a row of sequences lie in the whole.
Flat(s, g, B) ==
    /\ B \in [1 .. Len(s) + 1 -> Nat] /\ B[1] = 0
    /\ g \in Seq(Nat) /\ Len(g) = B[Len(s) + 1]
    /\ \A i \in 1 .. Len(s) :
          /\ B[i + 1] = B[i] + Len(s[i]) /\ B[i] + Len(s[i]) <= Len(g)
          /\ \A q \in 1 .. Len(s[i]) : g[B[i] + q] = s[i][q]

\* Where the parts of a concatenation lie in it.
LEMMA Joined ==
    ASSUME NEW u \in Seq(Nat), NEW v \in Seq(Nat)
    PROVE  /\ u \o v \in Seq(Nat) /\ Len(u \o v) = Len(u) + Len(v)
           /\ \A i \in 1 .. Len(u) : (u \o v)[i] = u[i]
           /\ \A i \in 1 .. Len(v) : (u \o v)[Len(u) + i] = v[i]
<1>1. /\ u \o v \in Seq(Nat) /\ Len(u \o v) = Len(u) + Len(v)
      /\ \A i \in 1 .. Len(u) + Len(v) :
            (u \o v)[i] = IF i <= Len(u) THEN u[i] ELSE v[i - Len(u)]
  BY ConcatProperties
<1>2. PICK a \in Nat, z \in Nat : a = Len(u) /\ z = Len(v)
  OBVIOUS
<1> QED
  BY <1>1, <1>2

\* FlattenSeq puts the parts one behind the other.
LEMMA FlattenIsFlat ==
    ASSUME NEW s \in Seq(Seq(Nat))
    PROVE  \E B : Flat(s, FlattenSeq(s), B)
<1> DEFINE N == Len(s)
           F(f) == [i \in 1 .. N |-> IF i = 1 THEN s[i] ELSE f[i - 1] \o s[i]]
           at0 == CHOOSE f : f = F(f)
           G == [a \in (1 .. N) \X Seq(Nat) |-> a[2] \o s[a[1]]]
<1>1. N \in Nat /\ \A i \in 1 .. N : s[i] \in Seq(Nat) /\ Len(s[i]) \in Nat
  OBVIOUS
<1>2. CASE N = 0
  <2>1. FlattenSeq(s) = s /\ s = << >>
    BY <1>2 DEF FlattenSeq
  <2> DEFINE B == [i \in 1 .. 1 |-> 0]
  <2>2. B \in [1 .. 1 -> Nat] /\ B[1] = 0
    OBVIOUS
  <2> HIDE DEF B
  <2>3. Flat(s, s, B)
    BY <1>2, <2>1, <2>2, EmptySeq DEF Flat
  <2> QED
    BY <2>1, <2>3
<1>3. CASE N # 0
  <2>1. FlattenSeq(s) = at0[N]
    BY <1>3 DEF FlattenSeq
  <2>2. \A f : \A i \in 1 .. N : F(f)[i] = IF i = 1 THEN s[i] ELSE f[i - 1] \o s[i]
    OBVIOUS
  <2>3. \A f : DOMAIN F(f) = 1 .. N /\ F(f) = [i \in DOMAIN F(f) |-> F(f)[i]]
    OBVIOUS
  <2>4. IsStep(G, N, Seq(Nat))
    <3>1. ASSUME NEW a \in (1 .. N) \X Seq(Nat) PROVE a[2] \o s[a[1]] \in Seq(Nat)
      <4>1. a[2] \in Seq(Nat) /\ s[a[1]] \in Seq(Nat)
        BY <1>1
      <4> QED
        BY <4>1, ConcatProperties
    <3> QED
      BY <3>1 DEF IsStep
  <2>5. \A i \in 1 .. N, v \in Seq(Nat) : G[<< i, v >>] = v \o s[i]
    OBVIOUS
  <2> HIDE DEF F, G
  <2>6. PICK h : Iterates(h, N, Seq(Nat), << >>, G)
    BY <1>1, <2>4, EmptySeq, IterationExists
  <2> DEFINE h1 == [i \in 1 .. N |-> h[i]]
  <2>7. h1 = F(h1)
    <3>1. ASSUME NEW i \in 1 .. N PROVE h1[i] = F(h1)[i]
      <4>1. i - 1 \in 0 .. N /\ h[i - 1] \in Seq(Nat) /\ h[0] = << >>
        <5>1. i - 1 \in 0 .. N
          BY <1>1
        <5>2. h \in [0 .. N -> Seq(Nat)] /\ h[0] = << >>
          BY <2>6 DEF Iterates
        <5> QED
          BY <5>1, <5>2
      <4>2. h[i] = h[i - 1] \o s[i]
        BY <2>5, <2>6, <4>1 DEF Iterates
      <4>3. CASE i = 1
        <5>1. h[i] = << >> \o s[i]
          <6>1. i - 1 = 0
            BY <4>3
          <6> QED
            BY <4>1, <4>2, <6>1
        <5>2. << >> \o s[i] = s[i]
          BY <1>1, ConcatEmptySeq
        <5> QED
          BY <2>2, <4>3, <5>1, <5>2
      <4>4. CASE i # 1
        <5>1. i - 1 \in 1 .. N
          BY <1>1, <4>4
        <5> QED
          BY <2>2, <4>2, <4>4, <5>1
      <4> QED
        BY <4>3, <4>4
    <3>2. DOMAIN h1 = 1 .. N /\ h1 = [i \in DOMAIN h1 |-> h1[i]]
      OBVIOUS
    <3> HIDE DEF h1
    <3> QED
      BY <2>3, <3>1, <3>2
  <2>8. at0 = F(at0)
    BY <2>7
  <2> HIDE DEF at0
  <2>9. /\ at0[1] = s[1]
        /\ \A i \in 2 .. N : at0[i] = at0[i - 1] \o s[i]
    <3>1. \A i \in 1 .. N : at0[i] = F(at0)[i]
      BY <2>8
    <3>2. 1 \in 1 .. N /\ \A i \in 2 .. N : i \in 1 .. N /\ i # 1
      BY <1>1, <1>3
    <3>3. F(at0)[1] = s[1] /\ \A i \in 2 .. N : F(at0)[i] = at0[i - 1] \o s[i]
      BY <2>2, <3>2
    <3> QED
      BY <3>1, <3>2, <3>3
  <2> DEFINE P(i) == IF i = 1 THEN 0 ELSE Len(at0[i - 1])
             Good(k) == /\ at0[k] \in Seq(Nat) /\ Len(at0[k]) \in Nat
                        /\ \A i \in 1 .. k :
                              /\ P(i) \in Nat
                              /\ P(i + 1) = P(i) + Len(s[i])
                              /\ P(i) + Len(s[i]) <= Len(at0[k])
                              /\ \A q \in 1 .. Len(s[i]) : at0[k][P(i) + q] = s[i][q]
             T == { k \in 0 .. N : k = 0 \/ Good(k) }
  <2>10. Good(1)
    <3>1. P(1) = 0 /\ P(1 + 1) = Len(at0[1])
      OBVIOUS
    <3>2. 1 \in 1 .. N /\ s[1] \in Seq(Nat) /\ Len(s[1]) \in Nat
      BY <1>1, <1>3
    <3> HIDE DEF P
    <3> QED
      BY <2>9, <3>1, <3>2
  <2>11. ASSUME NEW k \in 1 .. N - 1, Good(k) PROVE Good(k + 1)
    <3>1. /\ k \in Nat /\ k + 1 \in 2 .. N /\ (k + 1) - 1 = k /\ k + 1 \in 1 .. N
      BY <1>1
    <3>2. /\ at0[k + 1] = at0[k] \o s[k + 1]
          /\ at0[k] \in Seq(Nat) /\ s[k + 1] \in Seq(Nat)
      BY <1>1, <2>9, <2>11, <3>1
    <3>3. PICK a \in Nat, z \in Nat : a = Len(at0[k]) /\ z = Len(s[k + 1])
      BY <3>2
    <3>4. /\ at0[k + 1] \in Seq(Nat) /\ Len(at0[k + 1]) = a + z
          /\ \A i \in 1 .. a : at0[k + 1][i] = at0[k][i]
          /\ \A i \in 1 .. z : at0[k + 1][a + i] = s[k + 1][i]
      <4> DEFINE u == at0[k]
                 v == s[k + 1]
      <4>1. u \in Seq(Nat) /\ v \in Seq(Nat) /\ at0[k + 1] = u \o v /\ a = Len(u) /\ z = Len(v)
        BY <3>2, <3>3
      <4> HIDE DEF u, v
      <4>2. /\ u \o v \in Seq(Nat) /\ Len(u \o v) = a + z
            /\ \A i \in 1 .. a : (u \o v)[i] = u[i]
            /\ \A i \in 1 .. z : (u \o v)[a + i] = v[i]
        BY <4>1, Joined
      <4> QED
        BY <4>1, <4>2 DEF u, v
    <3>5. P(k + 1) = Len(at0[k]) /\ P((k + 1) + 1) = Len(at0[k + 1])
      BY <3>1
    <3> HIDE DEF P
    <3>6. ASSUME NEW i \in 1 .. k + 1
          PROVE  /\ P(i) \in Nat /\ P(i + 1) = P(i) + Len(s[i])
                 /\ P(i) + Len(s[i]) <= Len(at0[k + 1])
                 /\ \A q \in 1 .. Len(s[i]) : at0[k + 1][P(i) + q] = s[i][q]
      <4>1. CASE i \in 1 .. k
        <5>1. /\ P(i) \in Nat /\ P(i + 1) = P(i) + Len(s[i])
              /\ P(i) + Len(s[i]) <= Len(at0[k])
              /\ \A q \in 1 .. Len(s[i]) : at0[k][P(i) + q] = s[i][q]
          BY <2>11, <4>1
        <5>2. PICK c \in Nat, d \in Nat : c = Len(s[i]) /\ d = P(i)
          BY <1>1, <3>1, <4>1, <5>1
        <5>3. /\ P(i + 1) = d + c /\ d + c <= a
              /\ \A q \in 1 .. c : at0[k][d + q] = s[i][q]
          BY <3>3, <5>1, <5>2
        <5>9. a \in Nat /\ z \in Nat /\ c \in Nat /\ d \in Nat /\ d + c <= a
          BY <3>3, <5>2, <5>3
        <5>4. \A q \in 1 .. c : d + q \in 1 .. a
          BY <5>9
        <5>5. \A q \in 1 .. c : at0[k + 1][d + q] = s[i][q]
          BY <3>4, <5>3, <5>4
        <5>6. d + c <= a + z
          BY <5>9
        <5> QED
          BY <3>4, <5>2, <5>3, <5>5, <5>6
      <4>2. CASE i = k + 1
        <5>1. P(i) = a /\ P(i + 1) = a + z /\ s[i] = s[k + 1] /\ Len(s[i]) = z
          BY <3>3, <3>4, <3>5, <4>2
        <5>2. \A q \in 1 .. Len(s[i]) : at0[k + 1][P(i) + q] = s[i][q]
          BY <3>4, <5>1
        <5> QED
          BY <3>4, <5>1, <5>2
      <4> QED
        BY <3>1, <4>1, <4>2
    <3>7. at0[k + 1] \in Seq(Nat) /\ Len(at0[k + 1]) \in Nat
      BY <3>4
    <3> QED
      BY <3>6, <3>7
  <2>12. 0 .. N \subseteq T
    <3> HIDE DEF Good
    <3>1. 0 \in T
      BY <1>1
    <3>2. ASSUME NEW k \in 0 .. N - 1, k \in T PROVE k + 1 \in T
      <4>1. CASE k = 0
        BY <1>1, <1>3, <2>10, <4>1
      <4>2. CASE k # 0
        <5>1. k \in 1 .. N - 1 /\ Good(k) /\ k + 1 \in 0 .. N
          BY <1>1, <3>2, <4>2
        <5> QED
          BY <2>11, <5>1
      <4> QED
        BY <4>1, <4>2
    <3> HIDE DEF T
    <3> QED
      BY <1>1, <3>1, <3>2, SetInduction
  <2>13. Good(N)
    <3>1. N \in 0 .. N
      BY <1>1
    <3> HIDE DEF Good
    <3>2. \A k \in T : k = 0 \/ Good(k)
      OBVIOUS
    <3> HIDE DEF T
    <3> QED
      BY <1>3, <2>12, <3>1, <3>2
  <2> DEFINE B == [i \in 1 .. N + 1 |-> P(i)]
  <2>14. P(1) = 0 /\ P(N + 1) = Len(at0[N]) /\ 1 \in 1 .. N + 1 /\ N + 1 \in 1 .. N + 1
    BY <1>1, <1>3
  <2> HIDE DEF P
  <2>15. \A i \in 1 .. N + 1 : P(i) \in Nat
    BY <1>1, <2>13, <2>14
  <2>16. B \in [1 .. N + 1 -> Nat] /\ \A i \in 1 .. N + 1 : B[i] = P(i)
    BY <2>15
  <2>17. \A i \in 1 .. N : i \in 1 .. N + 1 /\ i + 1 \in 1 .. N + 1
    BY <1>1
  <2> HIDE DEF B
  <2>18. Flat(s, at0[N], B)
    BY <1>1, <2>13, <2>14, <2>16, <2>17 DEF Flat
  <2> QED
    BY <2>1, <2>18
<1> QED
  BY <1>2, <1>3

PadSize(n) == IF Odd(n) THEN 1 ELSE 0
Size(n, len) == 4 + n + PadSize(n) + len + PadSize(len)

\* A header, a name and a content lie behind cell off of g.
Placed(g, off, n, byte, c) ==
    /\ g[off + 1] = MAGIC0 /\ g[off + 2] = MAGIC1 /\ g[off + 3] = n /\ g[off + 4] = Len(c)
    /\ \A q \in 1 .. n - 1 : g[off + 4 + q] = byte
    /\ g[off + 4 + n] = NulByte
    /\ Odd(n) => g[off + 4 + n + 1] = NulByte
    /\ \A q \in 1 .. Len(c) : g[off + 4 + n + PadSize(n) + q] = c[q]
    /\ Odd(Len(c)) => g[off + 4 + n + PadSize(n) + Len(c) + 1] = NulByte

\* A NUL behind what has an odd size.
LEMMA PadIs ==
    ASSUME NEW n \in Nat
    PROVE  /\ Pad(n) \in Seq(Nat) /\ Len(Pad(n)) = PadSize(n) /\ PadSize(n) \in {0, 1}
           /\ Odd(n) <=> PadSize(n) = 1
           /\ Odd(n) => Pad(n)[1] = NulByte
<1>1. << NulByte >> \in Seq(Nat) /\ Len(<< NulByte >>) = 1 /\ << NulByte >>[1] = NulByte
  BY DEF NulByte
<1>2. << >> \in Seq(Nat) /\ Len(<< >>) = 0
  OBVIOUS
<1>3. CASE Odd(n)
  <2>1. Pad(n) = << NulByte >> /\ PadSize(n) = 1
    BY <1>3 DEF Pad, PadSize, Odd
  <2> QED
    BY <1>1, <1>3, <2>1
<1>4. CASE ~Odd(n)
  <2>1. Pad(n) = << >> /\ PadSize(n) = 0
    BY <1>4 DEF Pad, PadSize, Odd
  <2> QED
    BY <1>2, <1>4, <2>1
<1> QED
  BY <1>3, <1>4

\* A name on the wire.
LEMMA NameBytesIs ==
    ASSUME NEW n \in Nat \ {0}, NEW byte \in Nat
    PROVE  /\ NameBytes(n, byte) \in Seq(Nat) /\ Len(NameBytes(n, byte)) = n
           /\ \A q \in 1 .. n - 1 : NameBytes(n, byte)[q] = byte
           /\ NameBytes(n, byte)[n] = NulByte
<1> DEFINE f == [i \in 1 .. n - 1 |-> byte]
<1>1. f \in Seq(Nat) /\ Len(f) = n - 1 /\ \A q \in 1 .. n - 1 : f[q] = byte
  OBVIOUS
<1>2. NameBytes(n, byte) = Append(f, NulByte)
  BY DEF NameBytes
<1> HIDE DEF f
<1>3. NulByte \in Nat
  BY DEF NulByte
<1>4. /\ Append(f, NulByte) \in Seq(Nat) /\ Len(Append(f, NulByte)) = n
      /\ \A q \in 1 .. n - 1 : Append(f, NulByte)[q] = f[q]
      /\ Append(f, NulByte)[n] = NulByte
  BY <1>1, <1>3
<1> QED
  BY <1>1, <1>2, <1>4

\* Where the parts of one file lie in what is sent of it.
LEMMA SentIs ==
    ASSUME NEW n \in Nat \ {0}, NEW byte \in Nat, NEW c \in Seq(Nat)
    PROVE  /\ Sent(n, byte, c) \in Seq(Nat)
           /\ Len(Sent(n, byte, c)) = Size(n, Len(c)) /\ Size(n, Len(c)) \in Nat
           /\ Placed(Sent(n, byte, c), 0, n, byte, c)
<1> DEFINE h == << MAGIC0, MAGIC1, n, Len(c) >>
           m == NameBytes(n, byte)
           p == Pad(n)
           r == Pad(Len(c))
           u1 == h \o m
           u2 == u1 \o p
           u3 == u2 \o c
           u4 == u3 \o r
<1>1. Sent(n, byte, c) = u4
  BY DEF Sent
<1>2. PICK len \in Nat : len = Len(c)
  OBVIOUS
<1>3. /\ h \in Seq(Nat) /\ Len(h) = 4
      /\ h[1] = MAGIC0 /\ h[2] = MAGIC1 /\ h[3] = n /\ h[4] = len
  BY <1>2, CpioAssumption
<1>4. /\ m \in Seq(Nat) /\ Len(m) = n
      /\ \A q \in 1 .. n - 1 : m[q] = byte
      /\ m[n] = NulByte
  BY NameBytesIs
<1>5. PICK a \in {0, 1} : /\ a = PadSize(n) /\ Len(p) = a /\ p \in Seq(Nat)
                          /\ Odd(n) <=> a = 1
                          /\ a = 1 => p[1] = NulByte
  BY PadIs
<1>6. PICK e \in {0, 1} : /\ e = PadSize(len) /\ Len(r) = e /\ r \in Seq(Nat)
                          /\ Odd(len) <=> e = 1
                          /\ e = 1 => r[1] = NulByte
  BY <1>2, PadIs
<1> HIDE DEF h, m, p, r
<1>7. /\ u1 \in Seq(Nat) /\ Len(u1) = 4 + n
      /\ \A i \in 1 .. 4 : u1[i] = h[i]
      /\ \A i \in 1 .. n : u1[4 + i] = m[i]
  <2>1. u1 = h \o m /\ h \in Seq(Nat) /\ m \in Seq(Nat) /\ Len(h) = 4 /\ Len(m) = n
    BY <1>3, <1>4
  <2>2. /\ h \o m \in Seq(Nat) /\ Len(h \o m) = Len(h) + Len(m)
        /\ \A i \in 1 .. Len(h) : (h \o m)[i] = h[i]
        /\ \A i \in 1 .. Len(m) : (h \o m)[Len(h) + i] = m[i]
    BY <2>1, Joined
  <2> HIDE DEF u1
  <2> QED
    BY <2>1, <2>2
<1> HIDE DEF u1
<1>8. /\ u2 \in Seq(Nat) /\ Len(u2) = 4 + n + a
      /\ \A i \in 1 .. 4 + n : u2[i] = u1[i]
      /\ \A i \in 1 .. a : u2[4 + n + i] = p[i]
  <2>1. u2 = u1 \o p /\ u1 \in Seq(Nat) /\ p \in Seq(Nat) /\ Len(u1) = 4 + n /\ Len(p) = a
    BY <1>5, <1>7
  <2>2. /\ u1 \o p \in Seq(Nat) /\ Len(u1 \o p) = Len(u1) + Len(p)
        /\ \A i \in 1 .. Len(u1) : (u1 \o p)[i] = u1[i]
        /\ \A i \in 1 .. Len(p) : (u1 \o p)[Len(u1) + i] = p[i]
    BY <2>1, Joined
  <2> HIDE DEF u2
  <2> QED
    BY <2>1, <2>2
<1> HIDE DEF u2
<1>9. /\ u3 \in Seq(Nat) /\ Len(u3) = 4 + n + a + len
      /\ \A i \in 1 .. 4 + n + a : u3[i] = u2[i]
      /\ \A i \in 1 .. len : u3[4 + n + a + i] = c[i]
  <2>1. u3 = u2 \o c /\ u2 \in Seq(Nat) /\ Len(u2) = 4 + n + a /\ Len(c) = len
    BY <1>2, <1>8
  <2>2. /\ u2 \o c \in Seq(Nat) /\ Len(u2 \o c) = Len(u2) + Len(c)
        /\ \A i \in 1 .. Len(u2) : (u2 \o c)[i] = u2[i]
        /\ \A i \in 1 .. Len(c) : (u2 \o c)[Len(u2) + i] = c[i]
    BY <2>1, Joined
  <2> HIDE DEF u3
  <2> QED
    BY <2>1, <2>2
<1> HIDE DEF u3
<1>10. /\ u4 \in Seq(Nat) /\ Len(u4) = 4 + n + a + len + e
       /\ \A i \in 1 .. 4 + n + a + len : u4[i] = u3[i]
       /\ \A i \in 1 .. e : u4[4 + n + a + len + i] = r[i]
  <2>1. /\ u4 = u3 \o r /\ u3 \in Seq(Nat) /\ r \in Seq(Nat)
        /\ Len(u3) = 4 + n + a + len /\ Len(r) = e
    BY <1>6, <1>9
  <2>2. /\ u3 \o r \in Seq(Nat) /\ Len(u3 \o r) = Len(u3) + Len(r)
        /\ \A i \in 1 .. Len(u3) : (u3 \o r)[i] = u3[i]
        /\ \A i \in 1 .. Len(r) : (u3 \o r)[Len(u3) + i] = r[i]
    BY <2>1, Joined
  <2> HIDE DEF u4
  <2> QED
    BY <2>1, <2>2
<1> HIDE DEF u4
<1>11. n \in Nat /\ n >= 1 /\ a \in Nat /\ e \in Nat /\ len \in Nat
  BY <1>2, <1>5, <1>6
<1>12. u4[1] = MAGIC0 /\ u4[2] = MAGIC1 /\ u4[3] = n /\ u4[4] = len
  BY <1>3, <1>7, <1>8, <1>9, <1>10, <1>11
<1>13. ASSUME NEW q \in 1 .. n PROVE u4[4 + q] = m[q]
  <2>1. 4 + q \in 1 .. 4 + n /\ 4 + q \in 1 .. 4 + n + a /\ 4 + q \in 1 .. 4 + n + a + len
    BY <1>11
  <2>2. u4[4 + q] = u3[4 + q]
    BY <1>10, <2>1
  <2>3. u3[4 + q] = u2[4 + q]
    BY <1>9, <2>1
  <2>4. u2[4 + q] = u1[4 + q]
    BY <1>8, <2>1
  <2>5. u1[4 + q] = m[q]
    BY <1>7
  <2> QED
    BY <2>2, <2>3, <2>4, <2>5
<1>14. a = 1 => u4[4 + n + 1] = NulByte
  <2> SUFFICES ASSUME a = 1 PROVE u4[4 + n + 1] = NulByte
    OBVIOUS
  <2>1. 4 + n + 1 \in 1 .. 4 + n + a /\ 4 + n + 1 \in 1 .. 4 + n + a + len /\ 1 \in 1 .. a
    BY <1>11
  <2> QED
    BY <1>5, <1>8, <1>9, <1>10, <2>1
<1>15. ASSUME NEW q \in 1 .. len PROVE u4[4 + n + a + q] = c[q]
  <2>1. 4 + n + a + q \in 1 .. 4 + n + a + len
    BY <1>11
  <2> QED
    BY <1>9, <1>10, <2>1
<1>16. e = 1 => u4[4 + n + a + len + 1] = NulByte
  BY <1>6, <1>10
<1>17. Placed(u4, 0, n, byte, c)
  <2>1. \A q \in 1 .. n - 1 : q \in 1 .. n
    BY <1>11
  <2>2. n \in 1 .. n
    BY <1>11
  <2>3. \A q \in 1 .. n - 1 : u4[0 + 4 + q] = byte
    <3>1. \A q \in 1 .. n - 1 : u4[4 + q] = m[q] /\ 0 + 4 + q = 4 + q
      BY <1>13, <2>1
    <3> QED
      BY <1>4, <3>1
  <2>4. u4[0 + 4 + n] = NulByte
    BY <1>4, <1>13, <2>2
  <2>5. Odd(n) => u4[0 + 4 + n + 1] = NulByte
    BY <1>5, <1>14
  <2>6. \A q \in 1 .. Len(c) : u4[0 + 4 + n + PadSize(n) + q] = c[q]
    BY <1>2, <1>5, <1>15
  <2>7. Odd(Len(c)) => u4[0 + 4 + n + PadSize(n) + Len(c) + 1] = NulByte
    BY <1>2, <1>5, <1>6, <1>16
  <2> QED
    BY <1>2, <1>12, <2>3, <2>4, <2>5, <2>6, <2>7 DEF Placed
<1>18. Size(n, Len(c)) = 4 + n + a + len + e
  BY <1>2, <1>5, <1>6 DEF Size
<1> QED
  BY <1>1, <1>10, <1>11, <1>17, <1>18

\* What is placed in a part is placed in the whole.
LEMMA PlacedThere ==
    ASSUME NEW w, NEW g, NEW off \in Nat, NEW n \in Nat \ {0}, NEW byte, NEW c \in Seq(Nat),
           Placed(w, 0, n, byte, c), \A i \in 1 .. Size(n, Len(c)) : g[off + i] = w[i]
    PROVE  Placed(g, off, n, byte, c)
<1>1. PICK len \in Nat : len = Len(c)
  OBVIOUS
<1>2. PICK a \in {0, 1} : a = PadSize(n) /\ (Odd(n) <=> a = 1)
  BY PadIs
<1>3. PICK e \in {0, 1} : e = PadSize(len) /\ (Odd(len) <=> e = 1)
  BY PadIs
<1>4. n \in Nat /\ n >= 1 /\ a \in Nat /\ e \in Nat /\ len \in Nat /\ off \in Nat
  BY <1>1, <1>2, <1>3
<1> DEFINE z == 4 + n + a + len + e
<1>5. \A i \in 1 .. z : g[off + i] = w[i]
  BY <1>1, <1>2, <1>3 DEF Size
<1>6. /\ w[1] = MAGIC0 /\ w[2] = MAGIC1 /\ w[3] = n /\ w[4] = len
      /\ \A q \in 1 .. n - 1 : w[4 + q] = byte
      /\ w[4 + n] = NulByte
      /\ a = 1 => w[4 + n + 1] = NulByte
      /\ \A q \in 1 .. len : w[4 + n + a + q] = c[q]
      /\ e = 1 => w[4 + n + a + len + 1] = NulByte
  BY <1>1, <1>2, <1>3, <1>4 DEF Placed
<1>7. g[off + 1] = MAGIC0 /\ g[off + 2] = MAGIC1 /\ g[off + 3] = n /\ g[off + 4] = len
  <2>1. 1 \in 1 .. z /\ 2 \in 1 .. z /\ 3 \in 1 .. z /\ 4 \in 1 .. z
    BY <1>4
  <2> QED
    BY <1>5, <1>6, <2>1
<1>8. ASSUME NEW q \in 1 .. n - 1 PROVE g[off + 4 + q] = byte
  <2>1. 4 + q \in 1 .. z /\ off + (4 + q) = off + 4 + q
    BY <1>4
  <2> QED
    BY <1>5, <1>6, <2>1
<1>9. g[off + 4 + n] = NulByte
  <2>1. 4 + n \in 1 .. z /\ off + (4 + n) = off + 4 + n
    BY <1>4
  <2> QED
    BY <1>5, <1>6, <2>1
<1>10. a = 1 => g[off + 4 + n + 1] = NulByte
  <2>1. a = 1 => 4 + n + 1 \in 1 .. z /\ off + (4 + n + 1) = off + 4 + n + 1
    BY <1>4
  <2> QED
    BY <1>5, <1>6, <2>1
<1>11. ASSUME NEW q \in 1 .. len PROVE g[off + 4 + n + a + q] = c[q]
  <2>1. 4 + n + a + q \in 1 .. z /\ off + (4 + n + a + q) = off + 4 + n + a + q
    BY <1>4
  <2> QED
    BY <1>5, <1>6, <2>1
<1>12. e = 1 => g[off + 4 + n + a + len + 1] = NulByte
  <2>1. e = 1 => /\ 4 + n + a + len + 1 \in 1 .. z
                 /\ off + (4 + n + a + len + 1) = off + 4 + n + a + len + 1
    BY <1>4
  <2> QED
    BY <1>5, <1>6, <2>1
<1> QED
  BY <1>1, <1>2, <1>3, <1>7, <1>8, <1>9, <1>10, <1>11, <1>12 DEF Placed

-----------------------------------------------------------------------------
(* The archive in the stream *)

Archives == UNION { [1 .. n -> Entries] : n \in 0 .. MaxFiles }

\* Entry i lies behind cell B[i] of g, the trailer behind the last one.
Layout(A, g, B) ==
    /\ B \in [1 .. Len(A) + 1 -> Nat] /\ B[1] = 0
    /\ g \in Seq(Nat) /\ Len(g) = B[Len(A) + 1] + 8
    /\ \A i \in 1 .. Len(A) :
          /\ B[i + 1] = B[i] + Size(A[i].name, Len(A[i].content)) /\ B[i + 1] < Len(g)
          /\ Placed(g, B[i], A[i].name, Letter, A[i].content)
    /\ Placed(g, B[Len(A) + 1], 3, TrailerByte, << >>)

\* The files of an archive.
LEMMA ArchiveType ==
    ASSUME NEW A \in Archives
    PROVE  /\ Len(A) \in Nat /\ A \in Seq(Entries)
           /\ \A i \in 1 .. Len(A) :
                 /\ A[i] \in Entries
                 /\ A[i].name \in NameSizes /\ A[i].name \in Nat /\ A[i].name >= 2
                 /\ A[i].name <= NameLimit
                 /\ A[i].content \in Seq(Nat) /\ Len(A[i].content) \in Nat
<1>1. PICK n \in 0 .. MaxFiles : A \in [1 .. n -> Entries]
  BY DEF Archives
<1>2. A \in Seq(Entries) /\ Len(A) = n /\ n \in Nat
  BY <1>1, CpioAssumption
<1>3. ASSUME NEW c \in Contents PROVE c \in Seq(Nat)
  <2>1. PICK k \in 0 .. MaxSize : c \in [1 .. k -> ContentBytes]
    BY DEF Contents
  <2>2. k \in Nat /\ c \in [1 .. k -> Nat]
    BY <2>1, CpioAssumption
  <2> QED
    BY <2>2
<1>4. ASSUME NEW i \in 1 .. Len(A)
      PROVE  /\ A[i] \in Entries
             /\ A[i].name \in NameSizes /\ A[i].name \in Nat /\ A[i].name >= 2
             /\ A[i].name <= NameLimit
             /\ A[i].content \in Seq(Nat) /\ Len(A[i].content) \in Nat
  <2>1. A[i] \in Entries
    BY <1>1, <1>2
  <2>2. A[i].name \in NameSizes /\ A[i].content \in Contents
    BY <2>1 DEF Entries
  <2>3. A[i].name \in 2 .. NameLimit /\ NameLimit \in Nat
    BY <2>2, CpioAssumption
  <2>4. A[i].content \in Seq(Nat)
    BY <1>3, <2>2
  <2> QED
    BY <2>1, <2>2, <2>3, <2>4
<1> QED
  BY <1>2, <1>4

\* The stream of an archive has the layout.
LEMMA StreamLayout ==
    ASSUME NEW A \in Archives
    PROVE  \E B : Layout(A, Stream(A), B)
<1> DEFINE N == Len(A)
           s == [i \in 1 .. N |-> Sent(A[i].name, Letter, A[i].content)]
           t == Sent(3, TrailerByte, << >>)
           f == FlattenSeq(s)
           g == f \o t
<1>1. N \in Nat /\ \A i \in 1 .. N : A[i].name \in Nat \ {0} /\ A[i].content \in Seq(Nat)
  BY ArchiveType
<1>2. Letter \in Nat /\ TrailerByte \in Nat
  BY DEF Letter, TrailerByte
<1>3. ASSUME NEW i \in 1 .. N
      PROVE  /\ s[i] \in Seq(Nat) /\ Len(s[i]) = Size(A[i].name, Len(A[i].content))
             /\ Len(s[i]) \in Nat
             /\ Placed(s[i], 0, A[i].name, Letter, A[i].content)
  <2>1. s[i] = Sent(A[i].name, Letter, A[i].content)
    OBVIOUS
  <2> HIDE DEF s
  <2> QED
    <3>1. A[i].name \in Nat \ {0} /\ A[i].content \in Seq(Nat) /\ Letter \in Nat
      BY <1>1, <1>2
    <3> DEFINE n == A[i].name
               c == A[i].content
    <3>2. n \in Nat \ {0} /\ c \in Seq(Nat) /\ s[i] = Sent(n, Letter, c) /\ Letter \in Nat
      BY <2>1, <3>1
    <3> HIDE DEF n, c
    <3>3. /\ Sent(n, Letter, c) \in Seq(Nat)
          /\ Len(Sent(n, Letter, c)) = Size(n, Len(c)) /\ Size(n, Len(c)) \in Nat
          /\ Placed(Sent(n, Letter, c), 0, n, Letter, c)
      BY <3>2, SentIs
    <3> QED
      BY <3>2, <3>3 DEF n, c
<1>4. s \in Seq(Seq(Nat)) /\ Len(s) = N
  BY <1>1, <1>3
<1>5. t \in Seq(Nat) /\ Len(t) = 8 /\ Placed(t, 0, 3, TrailerByte, << >>)
  <2>1. Size(3, 0) = 8
    BY DEF Size, PadSize, Odd
  <2>2. << >> \in Seq(Nat) /\ Len(<< >>) = 0
    OBVIOUS
  <2> QED
    <3>1. 3 \in Nat \ {0}
      OBVIOUS
    <3>2. /\ t \in Seq(Nat) /\ Len(t) = Size(3, Len(<< >>))
          /\ Placed(t, 0, 3, TrailerByte, << >>)
      BY <1>2, <2>2, <3>1, SentIs
    <3> QED
      BY <2>1, <2>2, <3>2
<1>6. Stream(A) = g
  BY DEF Stream
<1> HIDE DEF s, t
<1>7. PICK B : Flat(s, f, B)
  BY <1>4, FlattenIsFlat
<1> HIDE DEF f
<1>8. PICK l \in Nat : l = Len(f) /\ l = B[N + 1]
  BY <1>1, <1>4, <1>7 DEF Flat
<1>9. /\ B \in [1 .. N + 1 -> Nat] /\ B[1] = 0 /\ f \in Seq(Nat)
      /\ \A i \in 1 .. N :
            /\ B[i + 1] = B[i] + Len(s[i]) /\ B[i] + Len(s[i]) <= l
            /\ \A q \in 1 .. Len(s[i]) : f[B[i] + q] = s[i][q]
  BY <1>4, <1>7, <1>8 DEF Flat
<1>10. /\ g \in Seq(Nat) /\ Len(g) = l + 8
       /\ \A i \in 1 .. l : g[i] = f[i]
       /\ \A i \in 1 .. 8 : g[l + i] = t[i]
  <2>1. g = f \o t /\ f \in Seq(Nat) /\ t \in Seq(Nat) /\ Len(f) = l /\ Len(t) = 8
    BY <1>5, <1>8, <1>9
  <2>2. /\ f \o t \in Seq(Nat) /\ Len(f \o t) = Len(f) + Len(t)
        /\ \A i \in 1 .. Len(f) : (f \o t)[i] = f[i]
        /\ \A i \in 1 .. Len(t) : (f \o t)[Len(f) + i] = t[i]
    BY <2>1, Joined
  <2> HIDE DEF g
  <2> QED
    BY <2>1, <2>2
<1> HIDE DEF g
<1>11. ASSUME NEW i \in 1 .. N
       PROVE  /\ B[i + 1] = B[i] + Size(A[i].name, Len(A[i].content)) /\ B[i + 1] < Len(g)
              /\ Placed(g, B[i], A[i].name, Letter, A[i].content)
  <2>1. PICK off \in Nat, d \in Nat :
           /\ off = B[i] /\ d = Len(s[i]) /\ off + d <= l /\ B[i + 1] = off + d
           /\ \A q \in 1 .. d : f[off + q] = s[i][q]
    <3>1. i \in 1 .. N + 1 /\ B[i] \in Nat /\ Len(s[i]) \in Nat
      <4>1. i \in 1 .. N + 1
        BY <1>1
      <4>2. B[i] \in Nat
        BY <1>9, <4>1
      <4>3. Len(s[i]) \in Nat
        BY <1>3
      <4> QED
        BY <4>1, <4>2, <4>3
    <3> QED
      BY <1>9, <3>1
  <2>2. \A q \in 1 .. d : off + q \in 1 .. l
    BY <2>1
  <2>3. \A q \in 1 .. d : g[off + q] = s[i][q]
    BY <1>10, <2>1, <2>2
  <2>4. d = Size(A[i].name, Len(A[i].content))
    BY <1>3, <2>1
  <2>5. Placed(g, off, A[i].name, Letter, A[i].content)
    BY <1>1, <1>3, <2>3, <2>4, PlacedThere
  <2>6. off + d < l + 8
    BY <2>1
  <2> QED
    BY <1>10, <2>1, <2>4, <2>5, <2>6
<1>12. Placed(g, l, 3, TrailerByte, << >>)
  <2>1. Size(3, Len(<< >>)) = 8 /\ << >> \in Seq(Nat)
    BY DEF Size, PadSize, Odd
  <2> QED
    <3>1. \A i \in 1 .. Size(3, Len(<< >>)) : g[l + i] = t[i]
      BY <1>10, <2>1
    <3>2. 3 \in Nat \ {0}
      OBVIOUS
    <3> QED
      BY <1>5, <1>8, <2>1, <3>1, <3>2, PlacedThere
<1>13. Layout(A, g, B)
  BY <1>8, <1>9, <1>10, <1>11, <1>12 DEF Layout
<1> QED
  BY <1>6, <1>13

-----------------------------------------------------------------------------
(* Where the receiver is in the archive *)

Whole == Stream(archive)
Got == Len(Whole) - Len(stream)
Entered == [name : Nat, content : Seq(Nat)]

\* The stream is what is left of the whole behind the bytes received.
Behind ==
    /\ stream \in Seq(Nat) /\ Len(stream) <= Len(Whole) /\ Whole \in Seq(Nat)
    /\ \A i \in 1 .. Len(stream) : stream[i] = Whole[Got + i]

AllStored(k) == \A i \in 1 .. k : files[i] = Stored(archive[i])

\* Between files.  What is left of a file behind its data is no magic.
Hunting(off) ==
    /\ AllStored(Len(files))
    /\ \/ at = "magic0" /\ Got = off
       \/ at = "magic0" /\ Got + 1 = off /\ Whole[Got + 1] # MAGIC0
       \/ at = "magic0" /\ Got + 2 = off /\ Whole[Got + 2] = NulByte
       \/ at = "magic1" /\ Got + 1 = off /\ Whole[Got + 1] = NulByte
       \/ at = "magic1" /\ Got = off + 1

InHeader(off) ==
    /\ at = "header" /\ AllStored(Len(files))
    /\ hdr \in Seq(Nat) /\ Len(hdr) \in {2, 3} /\ Got = off + Len(hdr)
    /\ Len(hdr) = 3 => hdr[3] = Whole[off + 3]

InName(off) ==
    /\ at = "name" /\ AllStored(Len(files))
    /\ hdr \in Seq(Nat) /\ hdr[3] = Whole[off + 3] /\ hdr[4] = Whole[off + 4]
    /\ name \in Seq(Nat) /\ Len(name) < hdr[3] /\ Got = off + 4 + Len(name)
    /\ \A q \in 1 .. Len(name) : name[q] = Whole[off + 4 + q]

\* In the data of the last file, which begin behind cell d.
InData(f, e, d) ==
    /\ at = "data" /\ AllStored(Len(files) - 1)
    /\ f.name = e.name /\ Len(f.content) < Len(e.content)
    /\ due = Len(e.content) - Len(f.content) /\ Got = d + Len(f.content)
    /\ \A q \in 1 .. Len(f.content) : f.content[q] = Whole[d + q]

Over == at = "shell" /\ AllStored(Len(files)) /\ Len(files) = Len(archive) /\ Got < Len(Whole)

Stage(B) ==
    LET j == Len(files) IN
    \/ Hunting(B[j + 1])
    \/ InHeader(B[j + 1])
    \/ InName(B[j + 1])
    \/ j # 0 /\ InData(files[j], archive[j], B[j] + 4 + archive[j].name)
    \/ Over

\* The receiver's place in an archive none of whose contents hides the next file.
Follows(B) ==
    /\ Layout(archive, Whole, B) /\ Behind
    /\ files \in Seq(Entered) /\ Len(files) <= Len(archive)
    /\ Stage(B)

CpioInv == archive \in Archives /\ (Benign => \E B : Follows(B))

\* One byte received.
LEMMA OneByte ==
    ASSUME Behind, Receives, archive' = archive
    PROVE  /\ Whole' = Whole /\ Behind' /\ Got \in Nat /\ Got' = Got + 1 /\ Got < Len(Whole)
           /\ Byte = Whole[Got + 1] /\ Byte \in Nat
<1>1. /\ stream \in Seq(Nat) /\ Whole \in Seq(Nat) /\ Len(stream) <= Len(Whole)
      /\ \A i \in 1 .. Len(stream) : stream[i] = Whole[Got + i]
      /\ stream # << >> /\ stream' = Tail(stream)
  BY DEF Behind, Receives
<1>2. Whole' = Whole
  BY DEF Whole
<1>3. PICK s \in Nat, w \in Nat : s = Len(stream) /\ w = Len(Whole)
  BY <1>1
<1>4. /\ s > 0 /\ stream' \in Seq(Nat) /\ Len(stream') = s - 1
      /\ \A i \in 1 .. s - 1 : stream'[i] = stream[i + 1]
      /\ Byte = stream[1]
  BY <1>1, <1>3 DEF Byte
<1>5. Got = w - s /\ Got \in Nat /\ Got' = (w - s) + 1 /\ s <= w
  BY <1>1, <1>2, <1>3, <1>4 DEF Got
<1>6. ASSUME NEW i \in 1 .. s - 1 PROVE stream'[i] = Whole[Got' + i]
  <2>1. i + 1 \in 1 .. s /\ (w - s) + (i + 1) = ((w - s) + 1) + i
    BY <1>3
  <2> QED
    BY <1>1, <1>3, <1>4, <1>5, <2>1
<1>7. Behind'
  <2>1. s - 1 <= w
    BY <1>5
  <2> QED
    BY <1>1, <1>2, <1>3, <1>4, <1>6, <2>1 DEF Behind
<1>8. Byte = Whole[Got + 1]
  <2>1. 1 \in 1 .. s
    BY <1>4, <1>3
  <2> QED
    BY <1>1, <1>3, <1>4, <2>1
<1>9. Byte \in Nat
  <2>1. 1 \in 1 .. Len(stream)
    BY <1>4, <1>3
  <2> QED
    BY <1>1, <1>4, <2>1
<1> QED
  BY <1>2, <1>3, <1>4, <1>5, <1>7, <1>8, <1>9

\* What lies behind the files found so far: another one or the trailer.
LEMMA NextPlaced ==
    ASSUME NEW B, archive \in Archives, Layout(archive, Whole, B), NEW j \in 0 .. Len(archive)
    PROVE  LET off == B[j + 1]
               n == Whole[off + 3]
           IN  /\ off \in Nat /\ off < Len(Whole)
               /\ Whole[off + 1] = MAGIC0 /\ Whole[off + 2] = MAGIC1
               /\ n \in Nat /\ n >= 2 /\ n <= NameLimit /\ off + 4 + n < Len(Whole)
               /\ Whole[off + 4] \in Nat
               /\ j < Len(archive) =>
                     /\ n = archive[j + 1].name
                     /\ Whole[off + 4] = Len(archive[j + 1].content)
                     /\ Whole[off + 4 + 1] = Letter
               /\ j = Len(archive) =>
                     /\ n = 3 /\ Whole[off + 4 + 1] = TrailerByte
                     /\ Whole[off + 4 + 2] = TrailerByte /\ Whole[off + 4 + 3] = NulByte
<1> DEFINE N == Len(archive)
           off == B[j + 1]
<1>1. N \in Nat
  BY ArchiveType
<1>2. /\ B \in [1 .. N + 1 -> Nat] /\ Len(Whole) = B[N + 1] + 8
      /\ \A i \in 1 .. N :
            /\ B[i + 1] = B[i] + Size(archive[i].name, Len(archive[i].content))
            /\ B[i + 1] < Len(Whole)
            /\ Placed(Whole, B[i], archive[i].name, Letter, archive[i].content)
      /\ Placed(Whole, B[N + 1], 3, TrailerByte, << >>)
  BY DEF Layout
<1>3. off \in Nat
  <2>1. j + 1 \in 1 .. N + 1
    BY <1>1
  <2> QED
    BY <1>2, <2>1
<1>4. CASE j < N
  <2>1. PICK i \in 1 .. N : i = j + 1
    BY <1>1, <1>4
  <2> DEFINE n == archive[i].name
             c == archive[i].content
  <2>2. /\ n \in Nat /\ n >= 2 /\ n <= NameLimit /\ c \in Seq(Nat) /\ Len(c) \in Nat
        /\ PadSize(n) \in {0, 1} /\ PadSize(Len(c)) \in {0, 1}
    BY ArchiveType, PadIs
  <2>3. /\ B[i + 1] = off + Size(n, Len(c)) /\ B[i + 1] < Len(Whole)
        /\ Placed(Whole, off, n, Letter, c)
    BY <1>2, <2>1
  <2>4. Len(Whole) \in Nat
    BY DEF Layout
  <2> HIDE DEF n, c, off
  <2>5. off + 4 + n < Len(Whole) /\ off < Len(Whole)
    <3>1. PICK len \in Nat, x \in {0, 1}, y \in {0, 1} :
             Size(n, Len(c)) = 4 + n + x + len + y
      BY <2>2 DEF Size
    <3>2. off + (4 + n + x + len + y) < Len(Whole)
      BY <2>3, <3>1
    <3> QED
      BY <1>3, <2>2, <2>4, <3>1, <3>2
  <2>6. /\ Whole[off + 1] = MAGIC0 /\ Whole[off + 2] = MAGIC1 /\ Whole[off + 3] = n
        /\ Whole[off + 4] = Len(c) /\ \A q \in 1 .. n - 1 : Whole[off + 4 + q] = Letter
    BY <2>3 DEF Placed
  <2>7. 1 \in 1 .. n - 1
    BY <2>2
  <2>8. j # N
    BY <1>1, <1>4
  <2> QED
    BY <1>3, <2>1, <2>2, <2>5, <2>6, <2>7, <2>8 DEF n, c, off
<1>5. CASE j = N
  <2>1. Placed(Whole, off, 3, TrailerByte, << >>) /\ Len(Whole) = off + 8
    BY <1>2, <1>5
  <2> HIDE DEF off
  <2>2. /\ Whole[off + 1] = MAGIC0 /\ Whole[off + 2] = MAGIC1 /\ Whole[off + 3] = 3
        /\ Whole[off + 4] = 0 /\ \A q \in 1 .. 2 : Whole[off + 4 + q] = TrailerByte
        /\ Whole[off + 4 + 3] = NulByte
    BY <2>1 DEF Placed
  <2>3. NameLimit \in Nat /\ 3 <= NameLimit
    BY CpioAssumption
  <2>4. ~(j < N)
    BY <1>1, <1>5
  <2>5. off < Len(Whole) /\ off + 4 + 3 < Len(Whole)
    BY <1>3, <2>1
  <2> QED
    BY <1>3, <1>5, <2>2, <2>3, <2>4, <2>5 DEF off
<1> QED
  BY <1>1, <1>4, <1>5

\* A stored file whose content lies in g behind cell p.
StoredIn(f, n, z, g, p) ==
    /\ f \in Entered /\ f.name = n /\ Len(f.content) = z
    /\ \A q \in 1 .. z : f.content[q] = g[p + q]

\* What is stored of a file lies in the stream behind its name.
LEMMA StoredBytes ==
    ASSUME NEW g, NEW off \in Nat, NEW n \in Nat, NEW c \in Seq(Nat), NEW e,
           e = [name |-> n, content |-> c], Placed(g, off, n, Letter, c)
    PROVE  StoredIn(Stored(e), n, Len(c), g, off + 4 + n)
<1>1. e = [name |-> n, content |-> c] /\ e.name = n /\ e.content = c
  OBVIOUS
<1>2. PICK len \in Nat : len = Len(c)
  OBVIOUS
<1>3. /\ n \in Nat
      /\ Odd(n) => g[off + 4 + n + 1] = NulByte
      /\ \A q \in 1 .. len : g[off + 4 + n + PadSize(n) + q] = c[q]
  BY <1>2 DEF Placed
<1>4. CASE Odd(n) /\ c # << >>
  <2> DEFINE s == << NulByte >> \o Front(c)
  <2>1. Stored(e) = [e EXCEPT !.content = s]
    BY <1>1, <1>4 DEF Stored
  <2>2. Stored(e) = [name |-> n, content |-> s]
    BY <1>1, <2>1
  <2>3. PadSize(n) = 1 /\ len >= 1
    BY <1>2, <1>4 DEF PadSize
  <2>4. /\ Front(c) \in Seq(Nat) /\ Len(Front(c)) = len - 1
        /\ \A q \in 1 .. len - 1 : Front(c)[q] = c[q]
    BY <1>2, <2>3 DEF Front
  <2>5. << NulByte >> \in Seq(Nat) /\ Len(<< NulByte >>) = 1 /\ << NulByte >>[1] = NulByte
    BY DEF NulByte
  <2>6. /\ s \in Seq(Nat) /\ Len(s) = len /\ s[1] = NulByte
        /\ \A q \in 1 .. len - 1 : s[1 + q] = c[q]
    <3> DEFINE u == << NulByte >>
               v == Front(c)
    <3>1. u \in Seq(Nat) /\ v \in Seq(Nat) /\ Len(u) = 1 /\ Len(v) = len - 1 /\ u[1] = NulByte
      BY <2>4, <2>5
    <3> HIDE DEF u, v
    <3>2. /\ u \o v \in Seq(Nat) /\ Len(u \o v) = Len(u) + Len(v)
          /\ \A i \in 1 .. Len(u) : (u \o v)[i] = u[i]
          /\ \A i \in 1 .. Len(v) : (u \o v)[Len(u) + i] = v[i]
      BY <3>1, Joined
    <3>3. \A q \in 1 .. len - 1 : v[q] = c[q]
      BY <2>4 DEF v
    <3>4. s = u \o v
      BY DEF u, v
    <3>5. len - 1 \in Nat /\ 1 + (len - 1) = len /\ 1 \in 1 .. 1
      BY <2>3
    <3>6. /\ u \o v \in Seq(Nat) /\ Len(u \o v) = len /\ (u \o v)[1] = NulByte
          /\ \A q \in 1 .. len - 1 : (u \o v)[1 + q] = c[q]
      BY <3>1, <3>2, <3>3, <3>5
    <3> HIDE DEF s
    <3> QED
      BY <3>4, <3>6, Zenon
  <2> HIDE DEF s
  <2>7. ASSUME NEW q \in 1 .. len PROVE s[q] = g[off + 4 + n + q]
    <3>1. CASE q = 1
      BY <1>3, <1>4, <2>6, <3>1
    <3>2. CASE q # 1
      <4>1. off \in Nat /\ n \in Nat /\ len \in Nat /\ q \in Nat /\ 2 <= q /\ q <= len
        BY <1>3, <3>2
      <4>2. q - 1 \in 1 .. len - 1 /\ q - 1 \in 1 .. len /\ 1 + (q - 1) = q
        BY <4>1
      <4>3. off + 4 + n + 1 + (q - 1) = off + 4 + n + q
        BY <4>1
      <4> QED
        BY <1>3, <2>3, <2>6, <4>2, <4>3
    <3> QED
      BY <3>1, <3>2
  <2> QED
    BY <1>2, <1>3, <2>2, <2>6, <2>7 DEF Entered, StoredIn
<1>5. CASE ~Odd(n) \/ c = << >>
  <2>1. Stored(e) = e
    BY <1>1, <1>5 DEF Stored
  <2>2. len = 0 \/ PadSize(n) = 0
    BY <1>2, <1>5 DEF PadSize
  <2>3. ASSUME NEW q \in 1 .. len PROVE c[q] = g[off + 4 + n + q]
    <3>1. PadSize(n) = 0 /\ off + 4 + n + 0 + q = off + 4 + n + q
      BY <1>3, <2>2
    <3> QED
      BY <1>3, <3>1
  <2> QED
    BY <1>1, <1>2, <1>3, <2>1, <2>3 DEF Entered, StoredIn
<1> QED
  BY <1>4, <1>5

\* Behind the data the receiver hunts in what it took for padding, or did not.
LEMMA DataEnd ==
    ASSUME NEW B, archive \in Archives, Layout(archive, Whole, B), Benign,
           NEW j \in 1 .. Len(archive), NEW p \in Nat,
           p = B[j] + 4 + archive[j].name + Len(archive[j].content)
    PROVE  \/ p = B[j + 1]
           \/ p + 1 = B[j + 1] /\ Whole[p + 1] # MAGIC0
           \/ p + 2 = B[j + 1] /\ Whole[p + 2] = NulByte
<1> DEFINE n == archive[j].name
           c == archive[j].content
<1>1. /\ n \in Nat /\ n >= 2 /\ c \in Seq(Nat)
  BY ArchiveType
<1>2. PICK len \in Nat : len = Len(c)
  BY <1>1
<1>3. B[j] \in Nat
  <2>1. Len(archive) \in Nat /\ B \in [1 .. Len(archive) + 1 -> Nat]
    BY ArchiveType DEF Layout
  <2>2. j \in 1 .. Len(archive) + 1
    BY <2>1
  <2> QED
    BY <2>1, <2>2
<1>4. PICK x \in {0, 1} : x = PadSize(n) /\ (Odd(n) <=> x = 1)
  BY <1>1, PadIs
<1>5. PICK y \in {0, 1} : y = PadSize(len) /\ (Odd(len) <=> y = 1)
  BY PadIs
<1>6. B[j + 1] = B[j] + (4 + n + x + len + y)
  BY <1>2, <1>4, <1>5 DEF Layout, Size
<1>7. /\ x = 1 => Whole[B[j] + 4 + n + 1] = NulByte
      /\ \A q \in 1 .. len : Whole[B[j] + 4 + n + x + q] = c[q]
      /\ y = 1 => Whole[B[j] + 4 + n + x + len + 1] = NulByte
  BY <1>2, <1>4, <1>5 DEF Layout, Placed
<1>8. ~HidesNext(archive[j])
  <2>1. DOMAIN archive = 1 .. Len(archive)
    BY ArchiveType
  <2> QED
    BY <2>1 DEF Benign
<1>9. NulByte # MAGIC0
  BY CpioAssumption
<1>10. p = B[j] + 4 + n + len
  BY <1>2
<1>11. x = 1 /\ y = 0 /\ len # 0 => c[len] # MAGIC0
  <2> SUFFICES ASSUME x = 1, y = 0, len # 0 PROVE c[len] # MAGIC0
    OBVIOUS
  <2>1. Odd(n) /\ c # << >> /\ ~Odd(Len(c)) /\ Last(c) = c[len]
    BY <1>1, <1>2, <1>4, <1>5 DEF Last
  <2> QED
    BY <1>8, <2>1 DEF HidesNext
<1>12. PICK k \in Nat : k = B[j]
  BY <1>3
<1>13. /\ n \in Nat /\ len \in Nat /\ x \in Nat /\ y \in Nat /\ p = k + 4 + n + len
       /\ B[j + 1] = k + (4 + n + x + len + y)
  <2>1. n \in Nat /\ len \in Nat /\ x \in Nat /\ y \in Nat
    BY <1>1, <1>4, <1>5
  <2>2. p = k + 4 + n + len /\ B[j + 1] = k + (4 + n + x + len + y)
    BY <1>6, <1>10, <1>12, Zenon
  <2> QED
    BY <2>1, <2>2
<1>14. /\ x = 1 => Whole[k + 4 + n + 1] = NulByte
       /\ \A q \in 1 .. len : Whole[k + 4 + n + x + q] = c[q]
       /\ y = 1 => Whole[k + 4 + n + x + len + 1] = NulByte
  BY <1>7, <1>12
<1> HIDE DEF n, c
<1> USE <1>13
<1>15. CASE x = 0 /\ y = 0
  BY <1>15
<1>16. CASE x = 0 /\ y = 1
  <2>1. p + 1 = B[j + 1] /\ p + 1 = k + 4 + n + x + len + 1
    BY <1>16
  <2> QED
    BY <1>9, <1>14, <1>16, <2>1
<1>17. CASE x = 1 /\ y = 0
  <2>1. p + 1 = B[j + 1]
    BY <1>17
  <2>2. CASE len = 0
    <3>1. p + 1 = k + 4 + n + 1
      BY <2>2
    <3> QED
      BY <1>9, <1>14, <1>17, <2>1, <3>1
  <2>3. CASE len # 0
    <3>1. p + 1 = k + 4 + n + x + len /\ len \in 1 .. len
      BY <1>17, <2>3
    <3> QED
      BY <1>11, <1>14, <1>17, <2>1, <2>3, <3>1
  <2> QED
    BY <2>2, <2>3
<1>18. CASE x = 1 /\ y = 1
  <2>1. p + 2 = B[j + 1] /\ p + 2 = k + 4 + n + x + len + 1
    BY <1>18
  <2> QED
    BY <1>14, <1>18, <2>1
<1> QED
  BY <1>15, <1>16, <1>17, <1>18

\* What a step that received one byte has to show.
LEMMA FollowsNext ==
    ASSUME NEW B, Follows(B), Receives, archive' = archive,
           files' \in Seq(Entered), Len(files') <= Len(archive), Stage(B)'
    PROVE  Follows(B)'
<1>1. Behind /\ Layout(archive, Whole, B)
  BY DEF Follows
<1>2. Whole' = Whole /\ Behind'
  BY <1>1, OneByte
<1>3. Layout(archive, Whole, B)'
  BY <1>1, <1>2 DEF Layout
<1> QED
  BY <1>2, <1>3 DEF Follows

\* What every step of the receiver starts from.
LEMMA Ahead ==
    ASSUME archive \in Archives, NEW B, Follows(B), Receives, archive' = archive
    PROVE  /\ Whole' = Whole /\ Got \in Nat /\ Got' = Got + 1
           /\ Byte = Whole[Got + 1] /\ Byte \in Nat
           /\ Len(files) \in 0 .. Len(archive) /\ Len(archive) \in Nat
           /\ files \in Seq(Entered) /\ Layout(archive, Whole, B)
           /\ B[Len(files) + 1] \in Nat
           /\ Whole[B[Len(files) + 1] + 1] = MAGIC0
           /\ Whole[B[Len(files) + 1] + 2] = MAGIC1
<1>1. /\ Behind /\ Layout(archive, Whole, B) /\ files \in Seq(Entered)
      /\ Len(files) <= Len(archive)
  BY DEF Follows
<1>2. Len(archive) \in Nat /\ Len(files) \in 0 .. Len(archive)
  <2>1. Len(archive) \in Nat /\ Len(files) \in Nat
    BY <1>1, ArchiveType
  <2> QED
    BY <1>1, <2>1
<1>3. /\ B[Len(files) + 1] \in Nat
      /\ Whole[B[Len(files) + 1] + 1] = MAGIC0
      /\ Whole[B[Len(files) + 1] + 2] = MAGIC1
  BY <1>1, <1>2, NextPlaced
<1> QED
  BY <1>1, <1>2, <1>3, OneByte

\* The first byte of the magic, or one to drop.
LEMMA HuntMagic0Follows ==
    ASSUME archive \in Archives, NEW B, Follows(B), HuntMagic0
    PROVE  Follows(B)'
<1>1. /\ at = "magic0" /\ Receives /\ archive' = archive /\ files' = files
      /\ at' = IF Byte = MAGIC0 THEN "magic1" ELSE "magic0"
  BY DEF HuntMagic0
<1>2. PICK off : off = B[Len(files) + 1]
  OBVIOUS
<1>3. /\ Whole' = Whole /\ Got \in Nat /\ Got' = Got + 1 /\ Byte = Whole[Got + 1]
      /\ off \in Nat /\ Whole[off + 1] = MAGIC0
      /\ files \in Seq(Entered) /\ Len(files) <= Len(archive)
  BY <1>1, <1>2, Ahead DEF Follows
<1>4. Hunting(off)
  BY <1>1, <1>2 DEF Follows, Stage, InHeader, InName, InData, Over
<1>5. AllStored(Len(files))'
  BY <1>1, <1>4 DEF AllStored, Hunting
<1>6. NulByte # MAGIC0
  BY CpioAssumption
<1>7. PICK g \in Nat : g = Got
  BY <1>3
<1>8. Got' = g + 1 /\ Byte = Whole[g + 1]
  BY <1>3, <1>7
<1>9. \/ g = off
      \/ g + 1 = off /\ Whole[g + 1] # MAGIC0
      \/ g + 2 = off /\ Whole[g + 2] = NulByte
  BY <1>1, <1>4, <1>7 DEF Hunting
<1>10. Hunting(off)'
  <2>1. CASE g = off
    <3>1. at' = "magic1" /\ Got' = off + 1
      BY <1>1, <1>3, <1>8, <2>1
    <3> QED
      BY <1>5, <3>1 DEF Hunting
  <2>2. CASE g + 1 = off /\ Whole[g + 1] # MAGIC0
    <3>1. at' = "magic0" /\ Got' = off
      BY <1>1, <1>8, <2>2
    <3> QED
      BY <1>5, <3>1 DEF Hunting
  <2>3. CASE g + 2 = off /\ Whole[g + 2] = NulByte
    <3>1. Got' + 1 = g + 2
      BY <1>8
    <3>2. Got' + 1 = off /\ Whole'[Got' + 1] = NulByte
      BY <1>3, <2>3, <3>1
    <3>3. at' \in {"magic0", "magic1"}
      BY <1>1
    <3> QED
      BY <1>5, <1>6, <3>2, <3>3 DEF Hunting
  <2> QED
    BY <1>9, <2>1, <2>2, <2>3
<1>11. Stage(B)'
  BY <1>1, <1>2, <1>10 DEF Stage
<1> QED
  BY <1>1, <1>3, <1>11, FollowsNext

\* Behind the first byte of the magic.
LEMMA HuntMagic1Follows ==
    ASSUME archive \in Archives, NEW B, Follows(B), HuntMagic1
    PROVE  Follows(B)'
<1>1. /\ at = "magic1" /\ Receives /\ archive' = archive /\ files' = files
      /\ IF Byte = MAGIC1 THEN at' = "header" /\ hdr' = << MAGIC0, MAGIC1 >>
         ELSE at' = "magic0"
  BY DEF HuntMagic1
<1>2. PICK off : off = B[Len(files) + 1]
  OBVIOUS
<1>3. /\ Whole' = Whole /\ Got \in Nat /\ Got' = Got + 1 /\ Byte = Whole[Got + 1]
      /\ off \in Nat /\ Whole[off + 2] = MAGIC1
      /\ files \in Seq(Entered) /\ Len(files) <= Len(archive)
  BY <1>1, <1>2, Ahead DEF Follows
<1>4. Hunting(off)
  BY <1>1, <1>2 DEF Follows, Stage, InHeader, InName, InData, Over
<1>5. AllStored(Len(files))'
  BY <1>1, <1>4 DEF AllStored, Hunting
<1>6. NulByte # MAGIC1 /\ << MAGIC0, MAGIC1 >> \in Seq(Nat) /\ Len(<< MAGIC0, MAGIC1 >>) = 2
  <2>1. NulByte # MAGIC1 /\ MAGIC0 \in Nat /\ MAGIC1 \in Nat
    BY CpioAssumption
  <2> QED
    BY <2>1
<1>7. PICK g \in Nat : g = Got
  BY <1>3
<1>8. Got' = g + 1 /\ Byte = Whole[g + 1]
  BY <1>3, <1>7
<1>9. \/ g + 1 = off /\ Whole[g + 1] = NulByte
      \/ g = off + 1
  BY <1>1, <1>4, <1>7 DEF Hunting
<1>10. Stage(B)'
  <2>1. CASE g + 1 = off /\ Whole[g + 1] = NulByte
    <3>1. at' = "magic0" /\ Got' = off
      BY <1>1, <1>6, <1>8, <2>1
    <3>2. Hunting(off)'
      BY <1>5, <3>1 DEF Hunting
    <3> QED
      BY <1>1, <1>2, <3>2 DEF Stage
  <2>2. CASE g = off + 1
    <3>1. g + 1 = off + 2
      BY <1>3, <2>2
    <3>2. at' = "header" /\ hdr' = << MAGIC0, MAGIC1 >> /\ Got' = off + 2
      BY <1>1, <1>3, <1>8, <3>1
    <3>3. hdr' \in Seq(Nat) /\ Len(hdr') = 2
      BY <1>6, <3>2
    <3>4. InHeader(off)'
      BY <1>5, <3>2, <3>3 DEF InHeader
    <3> QED
      BY <1>1, <1>2, <3>4 DEF Stage
  <2> QED
    BY <1>9, <2>1, <2>2
<1> QED
  BY <1>1, <1>3, <1>10, FollowsNext

\* A header is complete behind its fourth byte, with a name size in bounds.
LEMMA HeaderByteFollows ==
    ASSUME archive \in Archives, NEW B, Follows(B), RecvHeaderByte
    PROVE  Follows(B)'
<1>1. /\ at = "header" /\ Receives /\ archive' = archive
      /\ hdr' = Append(hdr, Byte)
      /\ CASE Len(hdr') < HeaderSize -> UNCHANGED << at, due, files, name >>
           [] Len(hdr') = HeaderSize /\ hdr'[3] > NameLimit ->
                 at' = "panic" /\ UNCHANGED << due, files, name >>
           [] Len(hdr') = HeaderSize /\ hdr'[3] = 0 ->
                 NameEnd(hdr', name) /\ UNCHANGED name
           [] OTHER -> at' = "name" /\ name' = << >> /\ UNCHANGED << due, files >>
  BY DEF RecvHeaderByte
<1>2. PICK off : off = B[Len(files) + 1]
  OBVIOUS
<1>3. /\ Whole' = Whole /\ Got \in Nat /\ Got' = Got + 1 /\ Byte = Whole[Got + 1]
      /\ Byte \in Nat /\ off \in Nat
      /\ files \in Seq(Entered) /\ Len(files) <= Len(archive)
  BY <1>1, <1>2, Ahead DEF Follows
<1>4. InHeader(off)
  BY <1>1, <1>2 DEF Follows, Stage, Hunting, InName, InData, Over
<1>5. /\ AllStored(Len(files)) /\ hdr \in Seq(Nat) /\ Len(hdr) \in {2, 3}
      /\ Got = off + Len(hdr)
      /\ Len(hdr) = 3 => hdr[3] = Whole[off + 3]
  BY <1>4 DEF InHeader
<1>6. PICK l \in {2, 3} : l = Len(hdr)
  BY <1>5
<1>7. /\ hdr' \in Seq(Nat) /\ Len(hdr') = l + 1 /\ hdr'[l + 1] = Byte
      /\ \A i \in 1 .. l : hdr'[i] = hdr[i]
  BY <1>1, <1>3, <1>5, <1>6
<1>8. Got' = off + l + 1 /\ Byte = Whole[off + l + 1]
  <2>1. Got = off + l
    BY <1>5, <1>6
  <2> QED
    BY <1>3, <2>1
<1>9. CASE l = 2
  <2>1. Len(hdr') = 3 /\ hdr'[3] = Whole[off + 3] /\ Got' = off + 3
    BY <1>3, <1>7, <1>8, <1>9
  <2>2. UNCHANGED << at, files >>
    BY <1>1, <2>1 DEF HeaderSize
  <2>3. AllStored(Len(files))'
    BY <1>1, <1>5, <2>2 DEF AllStored
  <2>4. InHeader(off)'
    BY <1>1, <1>3, <1>7, <2>1, <2>2, <2>3 DEF InHeader
  <2>5. Stage(B)'
    BY <1>2, <2>2, <2>4 DEF Stage
  <2> QED
    BY <1>1, <1>3, <2>2, <2>5, FollowsNext
<1>10. CASE l = 3
  <2>1. 3 \in 1 .. l /\ off + l + 1 = off + 4
    BY <1>3, <1>10
  <2>2. Len(hdr') = 4 /\ hdr'[3] = Whole[off + 3] /\ hdr'[4] = Whole[off + 4] /\ Got' = off + 4
    <3>1. Len(hdr') = 4 /\ hdr'[4] = Byte /\ hdr'[3] = hdr[3]
      BY <1>7, <1>10, <2>1
    <3>2. hdr[3] = Whole[off + 3]
      BY <1>5, <1>6, <1>10
    <3> QED
      BY <1>8, <2>1, <3>1, <3>2
  <2>3. Whole[off + 3] \in Nat /\ Whole[off + 3] >= 2 /\ Whole[off + 3] <= NameLimit
    <3>1. Len(files) \in 0 .. Len(archive) /\ Layout(archive, Whole, B)
      BY <1>1, Ahead
    <3> QED
      BY <1>2, <3>1, NextPlaced
  <2>4. /\ ~(Len(hdr') < HeaderSize) /\ ~(hdr'[3] > NameLimit) /\ hdr'[3] # 0
    <3>1. NameLimit \in Nat
      BY CpioAssumption
    <3> QED
      BY <2>2, <2>3, <3>1 DEF HeaderSize
  <2>5. at' = "name" /\ name' = << >> /\ files' = files
    BY <1>1, <2>4
  <2>6. AllStored(Len(files))'
    BY <1>1, <1>5, <2>5 DEF AllStored
  <2>7. /\ name' \in Seq(Nat) /\ Len(name') = 0 /\ Len(name') < hdr'[3]
        /\ Got' = off + 4 + Len(name')
    <3>1. << >> \in Seq(Nat) /\ Len(<< >>) = 0 /\ off + 4 + 0 = off + 4
      BY <1>3
    <3>2. name' \in Seq(Nat) /\ Len(name') = 0
      BY <2>5, <3>1
    <3>3. 0 < hdr'[3]
      BY <2>2, <2>3
    <3> QED
      BY <2>2, <3>1, <3>2, <3>3
  <2>8. InName(off)'
    BY <1>3, <1>7, <2>2, <2>5, <2>6, <2>7 DEF InName
  <2>9. Stage(B)'
    BY <1>2, <2>5, <2>8 DEF Stage
  <2> QED
    BY <1>1, <1>3, <2>5, <2>9, FollowsNext
<1> QED
  BY <1>6, <1>9, <1>10

\* The bytes of the trailer's name are recognised.
LEMMA TrailerName ==
    ASSUME NEW s \in Seq(Nat), Len(s) = 3,
           s[1] = TrailerByte, s[2] = TrailerByte, s[3] = NulByte
    PROVE  IsTrailer(s)
<1> DEFINE t == NameBytes(3, TrailerByte)
<1>1. 3 \in Nat \ {0} /\ TrailerByte \in Nat
  BY DEF TrailerByte
<1>2. /\ t \in Seq(Nat) /\ Len(t) = 3
      /\ \A q \in 1 .. 3 - 1 : t[q] = TrailerByte
      /\ t[3] = NulByte
  BY <1>1, NameBytesIs
<1> HIDE DEF t
<1>3. t[1] = TrailerByte /\ t[2] = TrailerByte
  BY <1>2
<1>4. \A i \in 1 .. 3 : s[i] = t[i]
  BY <1>2, <1>3
<1>5. s = t
  BY <1>2, <1>4, SeqEqual
<1> QED
  BY <1>5 DEF IsTrailer, t

\* A regular name is not taken for the trailer's.
LEMMA LetterName ==
    ASSUME NEW s, s[1] = Letter
    PROVE  ~IsTrailer(s)
<1>1. 3 \in Nat \ {0} /\ TrailerByte \in Nat /\ TrailerByte # Letter /\ 1 \in 1 .. 3 - 1
  BY DEF TrailerByte, Letter
<1>2. NameBytes(3, TrailerByte)[1] = TrailerByte
  BY <1>1, NameBytesIs
<1> QED
  BY <1>1, <1>2 DEF IsTrailer

\* The data are behind us: the receiver hunts in the gap before the next magic.
LEMMA GapFollows ==
    ASSUME NEW B, archive \in Archives, Layout(archive, Whole, B), Benign,
           NEW j \in 1 .. Len(archive), archive' = archive, Whole' = Whole,
           at' = "magic0", Got' \in Nat,
           Got' = B[j] + 4 + archive[j].name + Len(archive[j].content),
           Len(files') = j, AllStored(j)'
    PROVE  Stage(B)'
<1>1. PICK p \in Nat : p = Got'
  OBVIOUS
<1>2. p = B[j] + 4 + archive[j].name + Len(archive[j].content)
  BY <1>1
<1>3. \/ p = B[j + 1]
      \/ p + 1 = B[j + 1] /\ Whole[p + 1] # MAGIC0
      \/ p + 2 = B[j + 1] /\ Whole[p + 2] = NulByte
  BY <1>2, DataEnd
<1>4. PICK off : off = B[j + 1]
  OBVIOUS
<1>5. Hunting(off)'
  BY <1>1, <1>3, <1>4 DEF Hunting
<1> QED
  BY <1>4, <1>5 DEF Stage

\* A name of a file is complete: the file goes into the table.
LEMMA FileBegins ==
    ASSUME NEW B, archive \in Archives, Layout(archive, Whole, B), Benign,
           NEW j \in Nat, j < Len(archive), archive' = archive, Whole' = Whole,
           files \in Seq(Entered), Len(files) = j, AllStored(j),
           NEW n, n = archive[j + 1].name,
           NEW z, z = Len(archive[j + 1].content),
           files' = Append(files, [name |-> n, content |-> << >>]),
           at' = IF z = 0 THEN "magic0" ELSE "data", due' = z,
           Got' \in Nat, Got' = B[j + 1] + 4 + n
    PROVE  files' \in Seq(Entered) /\ Len(files') <= Len(archive) /\ Stage(B)'
<1>1. PICK i \in 1 .. Len(archive) : i = j + 1
  BY ArchiveType
<1>2. PICK e : e = archive[i]
  OBVIOUS
<1>3. /\ e \in Entries /\ n = e.name /\ n \in Nat /\ e.content \in Seq(Nat) /\ z = Len(e.content)
  BY <1>1, <1>2, ArchiveType
<1>4. e = [name |-> n, content |-> e.content]
  BY <1>3 DEF Entries
<1>5. PICK r : r = [name |-> n, content |-> << >>]
  OBVIOUS
<1>6. r \in Entered /\ r.name = n /\ r.content = << >> /\ Len(r.content) = 0
  BY <1>3, <1>5 DEF Entered
<1>7. /\ files' \in Seq(Entered) /\ Len(files') = i /\ files'[i] = r
      /\ \A k \in 1 .. j : files'[k] = files[k]
  BY <1>1, <1>5, <1>6
<1>8. AllStored(j)'
  BY <1>7 DEF AllStored
<1>9. Len(archive) \in Nat /\ i <= Len(archive) /\ i - 1 = j /\ i # 0
  BY <1>1, ArchiveType
<1>10. CASE z = 0
  <2>1. e.content = << >>
    <3>1. e.content \in Seq(Nat) /\ Len(e.content) = 0
      BY <1>3, <1>10
    <3> QED
      BY <3>1, EmptySeq
  <2>2. Stored(e) = e /\ r = e
    BY <1>4, <1>5, <2>1 DEF Stored
  <2>3. AllStored(i)'
    <3>1. ASSUME NEW k \in 1 .. i PROVE files'[k] = Stored(archive[k])
      <4>1. CASE k = i
        BY <1>2, <1>7, <2>2, <4>1
      <4>2. CASE k # i
        <5>1. k \in 1 .. j
          BY <1>1, <4>2
        <5> QED
          BY <1>7, <5>1 DEF AllStored
      <4> QED
        BY <4>1, <4>2
    <3> QED
      BY <3>1 DEF AllStored
  <2>4. Got' = B[i] + 4 + archive[i].name + Len(archive[i].content) /\ at' = "magic0"
    <3>1. Got' + 0 = Got' /\ B[i] + 4 + n = Got'
      BY <1>1
    <3> QED
      BY <1>2, <1>3, <1>10, <3>1
  <2>5. Stage(B)'
    BY <1>7, <2>3, <2>4, GapFollows
  <2> QED
    BY <1>7, <1>9, <2>5
<1>11. CASE z # 0
  <2>1. at' = "data" /\ due' = z /\ z \in Nat /\ z > 0
    BY <1>3, <1>11
  <2>2. PICK d : d = B[i] + 4 + archive[i].name
    OBVIOUS
  <2>3. Got' = d + Len(r.content)
    <3>1. d = Got' /\ d + 0 = d
      BY <1>1, <1>2, <1>3, <2>2
    <3> QED
      BY <1>6, <3>1
  <2>4. /\ r.name = e.name /\ Len(r.content) < Len(e.content)
        /\ due' = Len(e.content) - Len(r.content)
        /\ \A q \in 1 .. Len(r.content) : r.content[q] = Whole'[d + q]
    BY <1>3, <1>6, <2>1
  <2>5. AllStored(Len(files) - 1)'
    BY <1>7, <1>8, <1>9
  <2>6. InData(r, e, d)'
    BY <2>1, <2>3, <2>4, <2>5 DEF InData
  <2>7. Stage(B)'
    BY <1>2, <1>7, <1>9, <2>2, <2>6 DEF Stage
  <2> QED
    BY <1>7, <1>9, <2>7
<1> QED
  BY <1>10, <1>11

\* A name begins a file or ends the transfer.
LEMMA NameByteFollows ==
    ASSUME archive \in Archives, Benign, NEW B, Follows(B), RecvNameByte
    PROVE  Follows(B)'
<1>1. /\ at = "name" /\ Receives /\ archive' = archive /\ hdr' = hdr
      /\ name' = Append(name, Byte)
      /\ IF Len(name') = hdr[3] THEN NameEnd(hdr, name')
         ELSE UNCHANGED << at, due, files >>
  BY DEF RecvNameByte
<1>2. PICK off : off = B[Len(files) + 1]
  OBVIOUS
<1>3. /\ Whole' = Whole /\ Got \in Nat /\ Got' = Got + 1 /\ Byte = Whole[Got + 1]
      /\ Byte \in Nat /\ off \in Nat
      /\ files \in Seq(Entered) /\ Len(files) <= Len(archive)
      /\ Len(files) \in 0 .. Len(archive) /\ Len(archive) \in Nat
      /\ Layout(archive, Whole, B)
  BY <1>1, <1>2, Ahead DEF Follows
<1>4. InName(off)
  BY <1>1, <1>2 DEF Follows, Stage, Hunting, InHeader, InData, Over
<1>5. /\ AllStored(Len(files)) /\ hdr \in Seq(Nat)
      /\ hdr[3] = Whole[off + 3] /\ hdr[4] = Whole[off + 4]
      /\ name \in Seq(Nat) /\ Len(name) < hdr[3] /\ Got = off + 4 + Len(name)
      /\ \A q \in 1 .. Len(name) : name[q] = Whole[off + 4 + q]
  BY <1>4 DEF InName
<1>6. PICK j \in Nat : j = Len(files) /\ j <= Len(archive)
  BY <1>3
<1>7. /\ Whole[off + 3] \in Nat /\ Whole[off + 3] >= 2 /\ off + 4 + Whole[off + 3] < Len(Whole)
      /\ j < Len(archive) =>
            /\ Whole[off + 3] = archive[j + 1].name
            /\ Whole[off + 4] = Len(archive[j + 1].content)
            /\ Whole[off + 4 + 1] = Letter
      /\ j = Len(archive) =>
            /\ Whole[off + 3] = 3 /\ Whole[off + 4 + 1] = TrailerByte
            /\ Whole[off + 4 + 2] = TrailerByte /\ Whole[off + 4 + 3] = NulByte
  <2>1. j \in 0 .. Len(archive) /\ off = B[j + 1]
    BY <1>2, <1>3, <1>6
  <2> QED
    BY <1>3, <2>1, NextPlaced
<1>8. PICK n \in Nat : n = hdr[3] /\ n = Whole[off + 3] /\ n >= 2
  BY <1>5, <1>7
<1>9. PICK l \in Nat : l = Len(name) /\ l < n
  BY <1>5, <1>8
<1>10. Got' = off + 4 + (l + 1) /\ Byte = Whole[off + 4 + (l + 1)]
  <2>1. Got = off + 4 + l
    BY <1>5, <1>9
  <2>2. Got + 1 = off + 4 + (l + 1)
    BY <1>3, <2>1
  <2> QED
    BY <1>3, <2>2
<1>11. /\ name' \in Seq(Nat) /\ Len(name') = l + 1
       /\ \A q \in 1 .. l : name'[q] = name[q]
       /\ name'[l + 1] = Byte
  BY <1>1, <1>3, <1>5, <1>9
<1>12. ASSUME NEW q \in 1 .. l + 1 PROVE name'[q] = Whole[off + 4 + q]
  <2>1. q \in 1 .. l \/ q = l + 1
    BY <1>9
  <2> QED
    BY <1>5, <1>9, <1>10, <1>11, <2>1
<1>13. CASE l + 1 # n
  <2>1. UNCHANGED << at, files >>
    BY <1>1, <1>8, <1>11, <1>13
  <2>2. AllStored(Len(files))'
    BY <1>1, <1>5, <2>1 DEF AllStored
  <2>3. l + 1 < n
    BY <1>9, <1>13
  <2>4. InName(off)'
    BY <1>1, <1>3, <1>5, <1>8, <1>10, <1>11, <1>12, <2>1, <2>2, <2>3 DEF InName
  <2>5. Stage(B)'
    BY <1>2, <2>1, <2>4 DEF Stage
  <2> QED
    BY <1>1, <1>3, <2>1, <2>5, FollowsNext
<1>14. CASE l + 1 = n
  <2>1. NameEnd(hdr, name')
    BY <1>1, <1>8, <1>11, <1>14
  <2>2. name'[1] = Whole[off + 4 + 1] /\ name'[2] = Whole[off + 4 + 2]
    <3>1. 1 \in 1 .. l + 1 /\ 2 \in 1 .. l + 1
      BY <1>8, <1>9, <1>14
    <3> QED
      BY <1>12, <3>1
  <2>3. CASE j = Len(archive)
    <3>1. n = 3 /\ l + 1 = 3 /\ 3 \in 1 .. l + 1
      BY <1>7, <1>8, <1>14, <2>3
    <3>2. name'[3] = Whole[off + 4 + 3]
      BY <1>12, <3>1
    <3>3. IsTrailer(name')
      BY <1>7, <1>11, <2>2, <2>3, <3>1, <3>2, TrailerName
    <3>4. at' = "shell" /\ files' = files
      BY <2>1, <3>3 DEF NameEnd
    <3>5. AllStored(Len(files))'
      BY <1>1, <1>5, <3>4 DEF AllStored
    <3>6. Got' < Len(Whole)
      BY <1>7, <1>8, <1>10, <1>14
    <3>7. Over'
      BY <1>1, <1>3, <1>6, <2>3, <3>4, <3>5, <3>6 DEF Over
    <3>8. Stage(B)'
      BY <3>7 DEF Stage
    <3> QED
      BY <1>1, <1>3, <3>4, <3>8, FollowsNext
  <2>4. CASE j # Len(archive)
    <3>1. j < Len(archive)
      BY <1>3, <1>6, <2>4
    <3>2. /\ n = archive[j + 1].name /\ Whole[off + 4 + 1] = Letter
          /\ hdr[4] = Len(archive[j + 1].content)
      BY <1>5, <1>7, <1>8, <3>1
    <3>3. ~IsTrailer(name')
      BY <2>2, <3>2, LetterName
    <3>4. /\ files' = Append(files, [name |-> n, content |-> << >>])
          /\ at' = (IF hdr[4] = 0 THEN "magic0" ELSE "data") /\ due' = hdr[4]
      BY <1>8, <2>1, <3>3 DEF NameEnd, SizeIn
    <3>5. Got' = B[j + 1] + 4 + n /\ Got' \in Nat
      BY <1>2, <1>3, <1>6, <1>10, <1>14
    <3>6. AllStored(j)
      BY <1>5, <1>6
    <3>7. files' \in Seq(Entered) /\ Len(files') <= Len(archive) /\ Stage(B)'
      BY <1>1, <1>3, <1>6, <3>1, <3>2, <3>4, <3>5, <3>6, FileBegins
    <3> QED
      BY <1>1, <3>7, FollowsNext
  <2> QED
    BY <2>3, <2>4
<1> QED
  BY <1>13, <1>14

\* StoredBytes for a file of the archive.
LEMMA StoredHere ==
    ASSUME archive \in Archives, NEW B, Layout(archive, Whole, B), NEW j \in 1 .. Len(archive)
    PROVE  LET e == archive[j]
           IN  StoredIn(Stored(e), e.name, Len(e.content), Whole, B[j] + 4 + e.name)
<1>1. PICK e : e = archive[j]
  OBVIOUS
<1>2. PICK k \in Nat : k = B[j]
  <2>1. Len(archive) \in Nat
    BY ArchiveType
  <2>2. j \in 1 .. Len(archive) + 1
    BY <2>1
  <2> QED
    BY <2>2 DEF Layout
<1>3. /\ e \in Entries /\ e.name \in Nat /\ e.content \in Seq(Nat)
      /\ Placed(Whole, k, e.name, Letter, e.content)
  BY <1>1, <1>2, ArchiveType DEF Layout
<1>4. PICK n, c : n = e.name /\ c = e.content
  OBVIOUS
<1>5. e = [name |-> n, content |-> c]
  BY <1>3, <1>4 DEF Entries
<1>6. n \in Nat /\ c \in Seq(Nat) /\ Placed(Whole, k, n, Letter, c)
  BY <1>3, <1>4
<1>7. StoredIn(Stored(e), n, Len(c), Whole, k + 4 + n)
  BY <1>2, <1>5, <1>6, StoredBytes
<1> QED
  BY <1>1, <1>2, <1>4, <1>7

\* A byte of content; the last one leaves the file as Stored says.
LEMMA DataByteFollows ==
    ASSUME archive \in Archives, Benign, NEW B, Follows(B), RecvDataByte
    PROVE  Follows(B)'
<1>1. /\ at = "data" /\ Receives /\ archive' = archive
      /\ files' = [files EXCEPT ![Len(files)].content = Append(@, Byte)]
      /\ due' = due - 1
      /\ at' = IF due' = 0 THEN "magic0" ELSE "data"
  BY DEF RecvDataByte
<1>2. /\ Whole' = Whole /\ Got \in Nat /\ Got' = Got + 1 /\ Byte = Whole[Got + 1]
      /\ Byte \in Nat
      /\ files \in Seq(Entered) /\ Len(files) <= Len(archive) /\ Len(archive) \in Nat
      /\ Layout(archive, Whole, B)
  BY <1>1, Ahead DEF Follows
<1>3. PICK j \in Nat : j = Len(files)
  BY <1>2
<1>4. PICK d : d = B[j] + 4 + archive[j].name
  OBVIOUS
<1>5. j # 0 /\ InData(files[j], archive[j], d)
  BY <1>1, <1>3, <1>4 DEF Follows, Stage, Hunting, InHeader, InName, Over
<1>6. j \in 1 .. Len(archive) /\ j \in 1 .. Len(files)
  BY <1>2, <1>3, <1>5
<1>7. PICK f, e : f = files[j] /\ e = archive[j]
  OBVIOUS
<1>8. /\ f \in Entered /\ f.name \in Nat /\ f.content \in Seq(Nat)
  <2>1. f \in Entered
    BY <1>2, <1>6, <1>7
  <2> QED
    BY <2>1 DEF Entered
<1>9. /\ e \in Entries /\ e.name \in Nat /\ e.name >= 2 /\ e.content \in Seq(Nat)
      /\ Len(e.content) \in Nat
  BY <1>6, <1>7, ArchiveType
<1>10. /\ AllStored(j - 1) /\ f.name = e.name /\ Len(f.content) < Len(e.content)
       /\ due = Len(e.content) - Len(f.content) /\ Got = d + Len(f.content)
       /\ \A q \in 1 .. Len(f.content) : f.content[q] = Whole[d + q]
  BY <1>3, <1>5, <1>7 DEF InData
<1>11. PICK l \in Nat, z \in Nat : l = Len(f.content) /\ z = Len(e.content)
  BY <1>8, <1>9
<1>12. PICK c : c = Append(f.content, Byte)
  OBVIOUS
<1>13. /\ c \in Seq(Nat) /\ Len(c) = l + 1 /\ c[l + 1] = Byte
       /\ \A q \in 1 .. l : c[q] = f.content[q]
  BY <1>2, <1>8, <1>11, <1>12
<1>14. PICK r : r = [name |-> f.name, content |-> c]
  OBVIOUS
<1>15. r \in Entered /\ r.name = f.name /\ r.content = c
  BY <1>8, <1>13, <1>14 DEF Entered
<1>16. /\ files' \in Seq(Entered) /\ Len(files') = j /\ files'[j] = r
       /\ \A k \in 1 .. j - 1 : files'[k] = files[k]
  <2>1. [f EXCEPT !.content = Append(@, Byte)] = r
    <3>1. PICK n, u : f = [name |-> n, content |-> u]
      BY <1>8 DEF Entered
    <3>2. PICK y : y = Byte
      OBVIOUS
    <3>3. f.name = n /\ f.content = u /\ c = Append(u, y)
      BY <1>12, <3>1, <3>2
    <3>4. [[name |-> n, content |-> u] EXCEPT !.content = c] = [name |-> n, content |-> c]
      OBVIOUS
    <3>5. [f EXCEPT !.content = c] = r
      BY <1>14, <3>1, <3>3, <3>4
    <3> QED
      BY <1>12, <3>5, Zenon
  <2>2. files' = [files EXCEPT ![j] = r]
    BY <1>1, <1>3, <1>7, <2>1
  <2> QED
    BY <1>2, <1>3, <1>6, <1>15, <2>2
<1>17. AllStored(j - 1)'
  BY <1>1, <1>10, <1>16 DEF AllStored
<1>18. d \in Nat
  <2>1. j \in 1 .. Len(archive) + 1 /\ B \in [1 .. Len(archive) + 1 -> Nat]
    BY <1>2, <1>6 DEF Layout
  <2>2. B[j] \in Nat
    BY <2>1
  <2>3. d = B[j] + 4 + e.name
    BY <1>4, <1>7
  <2> QED
    BY <1>9, <2>2, <2>3
<1>19. /\ Got = d + l /\ due = z - l /\ l < z
  BY <1>10, <1>11
<1>20. /\ Got' = d + (l + 1) /\ Byte = Whole[d + (l + 1)] /\ due' = z - (l + 1)
       /\ l + 1 <= z
       /\ due' = 0 <=> l + 1 = z
  <2>1. Got + 1 = d + (l + 1)
    BY <1>18, <1>19
  <2>2. z - l - 1 = z - (l + 1) /\ (z - (l + 1) = 0 <=> l + 1 = z) /\ l + 1 <= z
    BY <1>19
  <2> QED
    BY <1>1, <1>2, <1>19, <2>1, <2>2
<1>21. ASSUME NEW q \in 1 .. l + 1 PROVE c[q] = Whole[d + q]
  <2>1. q \in 1 .. l \/ q = l + 1
    OBVIOUS
  <2> QED
    BY <1>10, <1>11, <1>13, <1>20, <2>1
<1>22. CASE l + 1 = z
  <2>1. at' = "magic0"
    BY <1>1, <1>20, <1>22
  <2>4. /\ Stored(e) \in Entered /\ Stored(e).name = e.name
        /\ Len(Stored(e).content) = z
        /\ \A q \in 1 .. z : Stored(e).content[q] = Whole[d + q]
    <3>1. StoredIn(Stored(e), e.name, z, Whole, d)
      BY <1>2, <1>4, <1>6, <1>7, <1>11, StoredHere
    <3> QED
      BY <3>1 DEF StoredIn
  <2>5. Stored(e).content = c
    <3>2. Stored(e).content \in Seq(Nat)
      BY <2>4 DEF Entered
    <3>3. \A q \in 1 .. z : Stored(e).content[q] = c[q]
      BY <1>21, <1>22, <2>4
    <3> QED
      <4>1. /\ c \in Seq(Nat) /\ Len(c) = Len(Stored(e).content)
            /\ Len(Stored(e).content) = z
        BY <1>13, <1>22, <2>4
      <4> QED
        BY <3>2, <3>3, <4>1, SeqEqual
  <2>6. Stored(e) = r
    <3>1. Stored(e) = [name |-> Stored(e).name, content |-> Stored(e).content]
      BY <2>4 DEF Entered
    <3> QED
      BY <1>10, <1>14, <2>4, <2>5, <3>1
  <2>7. AllStored(j)'
    <3>1. ASSUME NEW k \in 1 .. j PROVE files'[k] = Stored(archive[k])
      <4>1. k = j \/ k \in 1 .. j - 1
        BY <1>3
      <4> QED
        BY <1>1, <1>7, <1>16, <1>17, <2>6, <4>1 DEF AllStored
    <3> QED
      BY <1>1, <3>1 DEF AllStored
  <2>8. /\ Got' \in Nat
        /\ Got' = B[j] + 4 + archive[j].name + Len(archive[j].content)
    <3>1. Got' = d + z
      BY <1>20, <1>22
    <3> QED
      BY <1>4, <1>7, <1>11, <1>18, <3>1
  <2>9. Stage(B)'
    BY <1>1, <1>2, <1>6, <1>16, <2>1, <2>7, <2>8, GapFollows
  <2> QED
    BY <1>1, <1>2, <1>3, <1>16, <2>9, FollowsNext
<1>23. CASE l + 1 # z
  <2>1. at' = "data" /\ l + 1 < z
    BY <1>1, <1>20, <1>23
  <2>2. AllStored(Len(files) - 1)'
    BY <1>16, <1>17
  <2>3. /\ Len(r.content) < Len(e.content) /\ due' = Len(e.content) - Len(r.content)
        /\ Got' = d + Len(r.content)
        /\ \A q \in 1 .. Len(r.content) : r.content[q] = Whole'[d + q]
    BY <1>2, <1>11, <1>13, <1>15, <1>20, <1>21, <2>1
  <2>4. InData(r, e, d)'
    BY <1>10, <1>15, <2>1, <2>2, <2>3 DEF InData
  <2>5. Stage(B)'
    BY <1>1, <1>4, <1>5, <1>7, <1>16, <2>4 DEF Stage
  <2> QED
    BY <1>1, <1>2, <1>3, <1>16, <2>5, FollowsNext
<1> QED
  BY <1>22, <1>23

-----------------------------------------------------------------------------
(* The transfer *)

\* The transfer begins at the first file's header.
LEMMA CpioInitInv == CpioInit => CpioInv
<1> SUFFICES ASSUME CpioInit PROVE CpioInv
  OBVIOUS
<1>1. archive \in Archives /\ stream = Whole /\ at = "magic0" /\ files = << >>
  BY DEF CpioInit, Archives, Whole
<1>2. PICK B : Layout(archive, Whole, B)
  BY <1>1, StreamLayout DEF Whole
<1>3. Whole \in Seq(Nat) /\ B[1] = 0
  BY <1>2 DEF Layout
<1>4. PICK w \in Nat : w = Len(Whole) /\ w = Len(stream)
  BY <1>1, <1>3
<1>5. Got = 0
  BY <1>4 DEF Got
<1>6. Behind
  <2>1. \A i \in 1 .. w : stream[i] = Whole[0 + i]
    BY <1>1
  <2> QED
    BY <1>1, <1>3, <1>4, <1>5, <2>1 DEF Behind
<1>7. files \in Seq(Entered) /\ Len(files) = 0 /\ Len(archive) \in Nat
  BY <1>1, ArchiveType
<1>8. Hunting(0)
  BY <1>1, <1>5, <1>7 DEF Hunting, AllStored
<1>9. Stage(B)
  BY <1>3, <1>7, <1>8 DEF Stage
<1>10. Follows(B)
  BY <1>2, <1>6, <1>7, <1>9 DEF Follows
<1> QED
  BY <1>1, <1>10 DEF CpioInv

\* Every byte received keeps the place.
LEMMA CpioStepInv == CpioInv /\ [CpioStep]_cpioVars => CpioInv'
<1> SUFFICES ASSUME CpioInv, [CpioStep]_cpioVars PROVE CpioInv'
  OBVIOUS
<1>1. archive \in Archives
  BY DEF CpioInv
<1>2. archive' = archive
  BY DEF CpioStep, HuntMagic0, HuntMagic1, RecvHeaderByte, RecvNameByte, RecvDataByte, cpioVars
<1>3. ASSUME Benign PROVE \E B : Follows(B)'
  <2>1. PICK B : Follows(B)
    BY <1>3 DEF CpioInv
  <2>2. CASE CpioStep
    BY <1>1, <1>3, <2>1, <2>2, HuntMagic0Follows, HuntMagic1Follows, HeaderByteFollows,
       NameByteFollows, DataByteFollows DEF CpioStep
  <2>3. CASE UNCHANGED cpioVars
    <3>1. /\ archive' = archive /\ stream' = stream /\ at' = at /\ hdr' = hdr
          /\ name' = name /\ due' = due /\ files' = files
      BY <2>3 DEF cpioVars
    <3>2. Whole' = Whole /\ Got' = Got
      BY <3>1 DEF Whole, Got
    <3>3. Layout(archive, Whole, B)' /\ Behind'
      BY <2>1, <3>1, <3>2 DEF Follows, Layout, Behind
    <3>4. Stage(B)'
      <4>1. PICK j, off, f, e, d : /\ j = Len(files) /\ off = B[j + 1] /\ f = files[j]
                                   /\ e = archive[j] /\ d = B[j] + 4 + archive[j].name
        OBVIOUS
      <4>2. \/ Hunting(off) \/ InHeader(off) \/ InName(off) \/ Over
            \/ j # 0 /\ InData(f, e, d)
        BY <2>1, <4>1 DEF Follows, Stage
      <4>3. Hunting(off) => Hunting(off)'
        BY <3>1, <3>2 DEF Hunting, AllStored
      <4>4. InHeader(off) => InHeader(off)'
        BY <3>1, <3>2 DEF InHeader, AllStored
      <4>5. InName(off) => InName(off)'
        BY <3>1, <3>2 DEF InName, AllStored
      <4>6. Over => Over'
        BY <3>1, <3>2 DEF Over, AllStored
      <4>7. InData(f, e, d) => InData(f, e, d)'
        BY <3>1, <3>2 DEF InData, AllStored
      <4> QED
        BY <3>1, <4>1, <4>2, <4>3, <4>4, <4>5, <4>6, <4>7 DEF Stage
    <3>5. Follows(B)'
      BY <2>1, <3>1, <3>3, <3>4 DEF Follows
    <3> QED
      BY <3>5
  <2> QED
    BY <2>2, <2>3
<1>4. Benign' => Benign
  BY <1>2 DEF Benign
<1> QED
  BY <1>1, <1>2, <1>3, <1>4 DEF CpioInv

\* The place in the archive says what the table holds.
LEMMA FollowsFiles ==
    ASSUME archive \in Archives, NEW B, Follows(B)
    PROVE  /\ Len(files) <= Len(archive) /\ at # "panic"
           /\ \A i \in DOMAIN files :
                 LET e == Stored(archive[i])
                 IN  /\ files[i].name = e.name
                     /\ IF i = Len(files) /\ at = "data"
                        THEN IsStrictPrefix(files[i].content, e.content)
                        ELSE files[i] = e
           /\ at = "shell" => Len(files) = Len(archive)
           /\ stream = << >> => at = "shell"
<1>1. /\ Behind /\ Layout(archive, Whole, B) /\ Stage(B)
      /\ files \in Seq(Entered) /\ Len(files) <= Len(archive) /\ Len(archive) \in Nat
  BY ArchiveType DEF Follows
<1>2. PICK j \in Nat : j = Len(files) /\ DOMAIN files = 1 .. j
  BY <1>1
<1>3. j \in 0 .. Len(archive)
  BY <1>1, <1>2
<1>4. PICK off : off = B[j + 1]
  OBVIOUS
<1>5. \/ Hunting(off) \/ InHeader(off) \/ InName(off) \/ Over
      \/ j # 0 /\ InData(files[j], archive[j], B[j] + 4 + archive[j].name)
  BY <1>1, <1>2, <1>4 DEF Stage
<1>6. /\ off \in Nat /\ off < Len(Whole) /\ Whole[off + 3] \in Nat /\ Whole[off + 3] >= 2
      /\ off + 4 + Whole[off + 3] < Len(Whole)
  BY <1>1, <1>3, <1>4, NextPlaced
<1>7. at # "panic" /\ (at = "shell" => Len(files) = Len(archive))
  BY <1>5 DEF Hunting, InHeader, InName, InData, Over
<1>8. PICK s \in Nat, w \in Nat : s = Len(stream) /\ w = Len(Whole) /\ Got = w - s
  BY <1>1 DEF Behind, Got
<1>9. stream = << >> => at = "shell"
  <2> SUFFICES ASSUME at # "shell" PROVE stream # << >>
    OBVIOUS
  <2>1. Got < w
    <3>1. CASE Hunting(off)
      <4>1. Got = off \/ Got + 1 = off \/ Got + 2 = off \/ Got = off + 1
        BY <3>1 DEF Hunting
      <4> QED
        BY <1>6, <1>8, <4>1
    <3>2. CASE InHeader(off)
      <4>1. PICK k \in {2, 3} : Got = off + k
        BY <3>2 DEF InHeader
      <4> QED
        BY <1>6, <1>8, <4>1
    <3>3. CASE InName(off)
      <4>1. PICK n \in Nat : n = Whole[off + 3] /\ off + 4 + n < w
        BY <1>6, <1>8
      <4>2. PICK k \in Nat : Got = off + 4 + k /\ k < n
        BY <3>3, <4>1 DEF InName
      <4> QED
        BY <1>6, <1>8, <4>1, <4>2
    <3>4. CASE j # 0 /\ InData(files[j], archive[j], B[j] + 4 + archive[j].name)
      <4>1. j \in 1 .. Len(archive) /\ j \in 1 .. Len(files)
        BY <1>2, <1>3, <3>4
      <4>2. PICK n \in Nat, z \in Nat : n = archive[j].name /\ z = Len(archive[j].content)
        BY <4>1, ArchiveType
      <4>3. files[j].content \in Seq(Nat)
        <5>1. files[j] \in Entered
          BY <1>1, <4>1
        <5> QED
          BY <5>1 DEF Entered
      <4>4. PICK l \in Nat : l = Len(files[j].content)
        BY <4>3
      <4>5. l < z /\ Got = B[j] + 4 + n + l
        BY <3>4, <4>2, <4>4 DEF InData
      <4>6. PICK x \in {0, 1}, y \in {0, 1} : x = PadSize(n) /\ y = PadSize(z)
        BY PadIs
      <4>7. B[j + 1] = B[j] + (4 + n + x + z + y) /\ B[j + 1] < w
        BY <1>1, <1>8, <4>1, <4>2, <4>6 DEF Layout, Size
      <4>8. B[j] \in Nat
        <5>1. j \in 1 .. Len(archive) + 1
          BY <1>1, <4>1
        <5> QED
          BY <1>1, <5>1 DEF Layout
      <4>9. PICK k \in Nat : k = B[j]
        BY <4>8
      <4>10. k + (4 + n + x + z + y) < w /\ Got = k + 4 + n + l /\ l < z
        BY <4>5, <4>7, <4>9
      <4>11. x \in Nat /\ y \in Nat
        BY <4>6
      <4> QED
        BY <4>10, <4>11
    <3> QED
      BY <1>5, <3>1, <3>2, <3>3, <3>4 DEF Over
  <2>2. s # 0
    BY <1>8, <2>1
  <2> QED
    BY <1>8, <2>2
<1>10. CASE j # 0 /\ InData(files[j], archive[j], B[j] + 4 + archive[j].name)
  <2>1. /\ at = "data" /\ AllStored(j - 1)
        /\ files[j].name = archive[j].name
        /\ Len(files[j].content) < Len(archive[j].content)
        /\ \A q \in 1 .. Len(files[j].content) :
              files[j].content[q] = Whole[B[j] + 4 + archive[j].name + q]
    BY <1>2, <1>10 DEF InData
  <2>2. j \in 1 .. Len(archive) /\ j \in 1 .. Len(files)
    BY <1>2, <1>3, <1>10
  <2>3. PICK e, f : e = archive[j] /\ f = files[j].content
    OBVIOUS
  <2>4. f \in Seq(Nat)
    <3>1. files[j] \in Entered
      BY <1>1, <2>2
    <3> QED
      BY <2>3, <3>1 DEF Entered
  <2>5. e.content \in Seq(Nat) /\ Len(e.content) \in Nat
    BY <2>2, <2>3, ArchiveType
  <2>7. /\ Stored(e) \in Entered /\ Stored(e).name = e.name
        /\ Len(Stored(e).content) = Len(e.content)
        /\ \A q \in 1 .. Len(e.content) :
              Stored(e).content[q] = Whole[B[j] + 4 + e.name + q]
    <3>1. StoredIn(Stored(e), e.name, Len(e.content), Whole, B[j] + 4 + e.name)
      BY <1>1, <2>2, <2>3, StoredHere
    <3> QED
      BY <2>3, <3>1 DEF StoredIn
  <2>8. Stored(e).content \in Seq(Nat)
    BY <2>7 DEF Entered
  <2>9. IsStrictPrefix(f, Stored(e).content)
    <3>1. PICK l \in Nat, z \in Nat : l = Len(f) /\ z = Len(e.content) /\ l < z
      BY <2>1, <2>3, <2>4, <2>5
    <3>2. \A q \in 1 .. l : f[q] = Stored(e).content[q]
      <4>1. \A q \in 1 .. l : q \in 1 .. z
        BY <3>1
      <4> QED
        BY <2>1, <2>3, <2>7, <3>1, <4>1
    <3> QED
      BY <2>4, <2>7, <2>8, <3>1, <3>2 DEF IsStrictPrefix, IsPrefix
  <2>10. ASSUME NEW i \in 1 .. j
         PROVE  /\ files[i].name = Stored(archive[i]).name
                /\ IF i = j THEN IsStrictPrefix(files[i].content, Stored(archive[i]).content)
                   ELSE files[i] = Stored(archive[i])
    <3>1. CASE i = j
      BY <2>1, <2>3, <2>7, <2>9, <3>1
    <3>2. CASE i # j
      <4>1. i \in 1 .. j - 1
        BY <3>2
      <4> QED
        BY <2>1, <3>2, <4>1 DEF AllStored
    <3> QED
      BY <3>1, <3>2
  <2> QED
    BY <1>1, <1>2, <1>7, <1>9, <2>1, <2>10
<1>11. CASE Hunting(off) \/ InHeader(off) \/ InName(off) \/ Over
  <2>1. at # "data" /\ AllStored(j)
    BY <1>2, <1>11 DEF Hunting, InHeader, InName, Over
  <2>2. \A i \in 1 .. j : files[i] = Stored(archive[i])
    BY <2>1 DEF AllStored
  <2> QED
    BY <1>1, <1>2, <1>7, <1>9, <2>1, <2>2
<1> QED
  BY <1>5, <1>10, <1>11

\* Whatever the files of an archive contain, fs_recv_cpio's hunt for the magic finds
\* each of them behind the last one and stores it with its size, and the trailer
\* ends the transfer, as long as no content hides the next file's magic.
THEOREM FilesAreFoundAsSent == CpioSpec => []FilesAsSent
<1>1. CpioInv => FilesAsSent
  BY FollowsFiles DEF CpioInv, FilesAsSent
<1> QED
  BY <1>1, CpioInitInv, CpioStepInv, PTL DEF CpioSpec
=============================================================================
