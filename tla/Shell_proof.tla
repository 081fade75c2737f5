----------------------------- MODULE Shell_proof -----------------------------
(***************************************************************************)
(* Proofs about the command line, for a buffer of any size, any letters    *)
(* and any number of arguments a command may be given.                     *)
(*                                                                         *)
(* strtok_c's calls are followed along the line: each cuts the buffer      *)
(* behind the next word, in the order the words have in the line (Told),   *)
(* and touches nothing before the words it has not come to (Cut).          *)
(***************************************************************************)
EXTENDS Shell, FiniteSetTheorems, SequenceTheorems, Induction_proof

Buffers == { b \in [Cells -> Keys \cup {NUL}] : b[BufSize - 1] = NUL }

-----------------------------------------------------------------------------
(* strtok_c *)

\* A loop that runs until one of some characters stops there, and nowhere before.
LEMMA FirstFound ==
    ASSUME NEW b, NEW i \in Cells, NEW chars, b[BufSize - 1] \in chars
    PROVE  /\ First(b, i, chars) \in i .. BufSize - 1
           /\ b[First(b, i, chars)] \in chars
           /\ \A j \in i .. First(b, i, chars) - 1 : b[j] \notin chars
<1> DEFINE S == { j \in i .. BufSize - 1 : b[j] \in chars }
<1>1. BufSize \in Nat \ {0, 1} /\ i \in Nat /\ i <= BufSize - 1
  BY ShellAssumption DEF Cells
<1>2. S \in SUBSET Nat /\ BufSize - 1 \in S
  BY <1>1
<1>3. \E x \in S : \A y \in S : x <= y
  BY <1>2, LeastMember
<1>4. Min(S) \in S /\ \A y \in S : Min(S) <= y
  BY <1>3 DEF Min
<1>5. First(b, i, chars) = Min(S)
  BY DEF First
<1>6. ASSUME NEW j \in i .. Min(S) - 1 PROVE j \notin S
  BY <1>1, <1>2, <1>4, <1>6
<1> QED
  BY <1>1, <1>4, <1>5, <1>6

LEMMA FirstIs ==
    ASSUME NEW b, NEW i \in Cells, NEW chars, b[BufSize - 1] \in chars,
           NEW j \in i .. BufSize - 1, b[j] \in chars, \A k \in i .. j - 1 : b[k] \notin chars
    PROVE  First(b, i, chars) = j
<1>1. i \in Nat /\ BufSize \in Nat
  BY ShellAssumption DEF Cells
<1>2. PICK f \in i .. BufSize - 1 : f = First(b, i, chars)
  BY FirstFound
<1>3. b[f] \in chars /\ \A k \in i .. f - 1 : b[k] \notin chars
  BY <1>2, FirstFound
<1>4. ~(f < j) /\ ~(j < f)
  BY <1>1, <1>3
<1> QED
  BY <1>1, <1>2, <1>4

\* The places strtok_c comes to: the word, what ends it, what follows.
Parts(b, run, res, end, rest) ==
    /\ run <= res /\ res <= end /\ end <= rest
    /\ b[res] # BLANK /\ \A j \in run .. res - 1 : b[j] = BLANK
    /\ b[end] \in {BLANK, NUL} /\ \A j \in res .. end - 1 : b[j] \notin {BLANK, NUL}
    /\ b[rest] # BLANK /\ \A j \in end .. rest - 1 : b[j] = BLANK
    /\ StrTok(b, run).res = res
    /\ StrTok(b, run).buf = IF b[end] = NUL THEN b ELSE [b EXCEPT ![end] = NUL]
    /\ StrTok(b, run).last = IF b[rest] = NUL THEN Null ELSE rest

LEMMA StrTokParts ==
    ASSUME NEW b \in Buffers, NEW run \in Cells
    PROVE  \E res, end, rest \in Cells : Parts(b, run, res, end, rest)
<1>1. BufSize \in Nat \ {0, 1} /\ BufSize - 1 \in Cells /\ run \in Nat
  BY ShellAssumption DEF Cells
<1>2. b \in [Cells -> Keys \cup {NUL}] /\ b[BufSize - 1] = NUL
  BY DEF Buffers
<1>3. NUL \in NotBlank /\ NUL \in {BLANK, NUL}
  BY DEF NotBlank, NUL, BLANK
<1>4. \A j \in Cells : b[j] \in NotBlank <=> b[j] # BLANK
  BY <1>2 DEF NotBlank
<1> DEFINE res == First(b, run, NotBlank)
           end == First(b, res, {BLANK, NUL})
           rest == First(b, end, NotBlank)
<1>5. res \in run .. BufSize - 1 /\ b[res] \in NotBlank /\ \A j \in run .. res - 1 : b[j] \notin NotBlank
  BY <1>2, <1>3, FirstFound
<1>6. res \in Cells
  BY <1>1, <1>5 DEF Cells
<1>7. /\ end \in res .. BufSize - 1 /\ b[end] \in {BLANK, NUL}
      /\ \A j \in res .. end - 1 : b[j] \notin {BLANK, NUL}
  <2> HIDE DEF res
  <2> QED
    BY <1>2, <1>3, <1>6, FirstFound
<1>8. end \in Cells
  <2> HIDE DEF res, end
  <2> QED
    BY <1>1, <1>6, <1>7 DEF Cells
<1>9. /\ rest \in end .. BufSize - 1 /\ b[rest] \in NotBlank
      /\ \A j \in end .. rest - 1 : b[j] \notin NotBlank
  <2> HIDE DEF end
  <2> QED
    BY <1>2, <1>3, <1>8, FirstFound
<1>10. /\ StrTok(b, run).res = res
       /\ StrTok(b, run).buf = IF b[end] = NUL THEN b ELSE [b EXCEPT ![end] = NUL]
       /\ StrTok(b, run).last = IF b[rest] = NUL THEN Null ELSE rest
  BY DEF StrTok, EndWord
<1> HIDE DEF res, end, rest
<1>11. rest \in Cells
  BY <1>1, <1>8, <1>9 DEF Cells
<1>12. run <= res /\ res <= end /\ end <= rest
  BY <1>1, <1>5, <1>6, <1>7, <1>8, <1>9 DEF Cells
<1>13. /\ \A j \in run .. res - 1 : b[j] = BLANK
       /\ \A j \in end .. rest - 1 : b[j] = BLANK
  <2>1. run .. res - 1 \subseteq Cells /\ end .. rest - 1 \subseteq Cells
    BY <1>1, <1>6, <1>8, <1>11 DEF Cells
  <2> QED
    BY <1>4, <1>5, <1>9, <2>1
<1> QED
  <2>1. Parts(b, run, res, end, rest)
    BY <1>4, <1>5, <1>6, <1>7, <1>9, <1>10, <1>11, <1>12, <1>13 DEF Parts
  <2> QED
    BY <1>6, <1>8, <1>11, <2>1

\* What strtok_c leaves in the buffer is a string in the buffer.
Results == [res : Cells \cup {Null}, buf : Buffers, last : Cells \cup {Null}]

LEMMA CutIsBuffer ==
    ASSUME NEW b \in Buffers, NEW end \in Cells
    PROVE  [b EXCEPT ![end] = NUL] \in Buffers
<1>1. BufSize - 1 \in Cells
  BY ShellAssumption DEF Cells
<1> QED
  BY <1>1 DEF Buffers

LEMMA StrTokType ==
    ASSUME NEW b \in Buffers, NEW run \in Cells
    PROVE  StrTok(b, run) \in Results /\ StrTok(b, run).res \in Cells
<1>1. PICK res, end, rest \in Cells : Parts(b, run, res, end, rest)
  BY StrTokParts
<1>2. StrTok(b, run).buf \in Buffers
  BY <1>1, CutIsBuffer DEF Parts
<1>3. /\ StrTok(b, run).last \in Cells \cup {Null}
      /\ StrTok(b, run).res \in Cells
  BY <1>1 DEF Parts
<1>4. StrTok(b, run) = [res |-> StrTok(b, run).res, buf |-> StrTok(b, run).buf,
                        last |-> StrTok(b, run).last]
  BY DEF StrTok
<1> HIDE DEF Buffers
<1> QED
  BY <1>2, <1>3, <1>4 DEF Results

\* exec_cmd's calls, one after the other.
LEMMA TokenSteps ==
    ASSUME NEW b \in Buffers
    PROVE  /\ Token(b) \in [0 .. MaxArgs -> Results]
           /\ Token(b)[0] = StrTok(b, 0)
           /\ \A n \in 1 .. MaxArgs :
                 Token(b)[n] = IF Token(b)[n - 1].last = Null
                               THEN [Token(b)[n - 1] EXCEPT !.res = Null]
                               ELSE StrTok(Token(b)[n - 1].buf, Token(b)[n - 1].last)
<1> DEFINE E(x) == IF x.last = Null THEN [x EXCEPT !.res = Null] ELSE StrTok(x.buf, x.last)
           F(f) == [n \in 0 .. MaxArgs |-> IF n = 0 THEN StrTok(b, 0)
                                           ELSE IF f[n - 1].last = Null
                                                THEN [f[n - 1] EXCEPT !.res = Null]
                                           ELSE StrTok(f[n - 1].buf, f[n - 1].last)]
           G == [a \in (1 .. MaxArgs) \X Results |-> E(a[2])]
           at == CHOOSE f : f = F(f)
<1>1. Token(b) = at
  BY DEF Token
<1>2. MaxArgs \in Nat /\ 0 \in Cells
  BY ShellAssumption DEF Cells
<1>3. StrTok(b, 0) \in Results
  BY <1>2, StrTokType
<1>4. \A x \in Results : E(x) \in Results
  <2> SUFFICES ASSUME NEW x \in Results PROVE E(x) \in Results
    OBVIOUS
  <2>1. x.buf \in Buffers /\ x.last \in Cells \cup {Null}
    BY DEF Results
  <2>2. CASE x.last = Null
    BY <2>2 DEF Results
  <2>3. CASE x.last # Null
    BY <2>1, <2>3, StrTokType
  <2> QED
    BY <2>2, <2>3
<1>5. \A f : \A n \in 1 .. MaxArgs : F(f)[n] = E(f[n - 1])
  BY <1>2
<1>6. \A f : F(f)[0] = StrTok(b, 0) /\ DOMAIN F(f) = 0 .. MaxArgs
             /\ F(f) = [n \in DOMAIN F(f) |-> F(f)[n]]
  BY <1>2
<1> HIDE DEF E
<1>8. IsStep(G, MaxArgs, Results)
  BY <1>4 DEF IsStep
<1>9. \A n \in 1 .. MaxArgs, v \in Results : G[<< n, v >>] = E(v)
  OBVIOUS
<1> HIDE DEF G, F
<1>10. PICK h : Iterates(h, MaxArgs, Results, StrTok(b, 0), G)
  BY <1>2, <1>3, <1>8, IterationExists
<1>11. h = F(h)
  <2>1. ASSUME NEW n \in 1 .. MaxArgs PROVE h[n] = E(h[n - 1])
    <3>1. n - 1 \in 0 .. MaxArgs
      BY <1>2
    <3>2. h[n - 1] \in Results
      BY <1>10, <3>1 DEF Iterates
    <3> QED
      BY <1>9, <1>10, <3>2 DEF Iterates
  <2>2. \A n \in 0 .. MaxArgs : F(h)[n] = h[n]
    <3> SUFFICES ASSUME NEW n \in 0 .. MaxArgs PROVE F(h)[n] = h[n]
      OBVIOUS
    <3>1. CASE n = 0
      BY <1>6, <1>10, <3>1 DEF Iterates
    <3>2. CASE n # 0
      <4>1. n \in 1 .. MaxArgs
        BY <1>2, <3>2
      <4> QED
        BY <1>5, <2>1, <4>1
    <3> QED
      BY <3>1, <3>2
  <2>3. DOMAIN h = 0 .. MaxArgs /\ h = [n \in DOMAIN h |-> h[n]]
    BY <1>10 DEF Iterates
  <2> QED
    BY <1>6, <2>2, <2>3
<1>12. at = F(at)
  BY <1>11
<1> HIDE DEF at
<1>13. at[0] = StrTok(b, 0) /\ \A n \in 1 .. MaxArgs : at[n] = E(at[n - 1])
  <2>1. at[0] = F(at)[0] /\ \A n \in 1 .. MaxArgs : at[n] = F(at)[n]
    BY <1>12
  <2> QED
    BY <1>5, <1>6, <2>1
<1>14. \A n \in 0 .. MaxArgs : at[n] \in Results
  <2> DEFINE T == { n \in 0 .. MaxArgs : at[n] \in Results }
  <2>1. 0 \in T
    BY <1>2, <1>3, <1>13
  <2>2. ASSUME NEW n \in 0 .. MaxArgs - 1, n \in T PROVE n + 1 \in T
    <3>1. n + 1 \in 1 .. MaxArgs /\ (n + 1) - 1 = n /\ at[n] \in Results
      BY <1>2, <2>2
    <3>2. at[n + 1] = E(at[n])
      BY <1>13, <3>1
    <3> QED
      BY <1>4, <3>1, <3>2
  <2>3. 0 .. MaxArgs \subseteq T
    <3> HIDE DEF T
    <3> QED
      BY <1>2, <2>1, <2>2, SetInduction
  <2> QED
    BY <2>3
<1>15. at \in [0 .. MaxArgs -> Results]
  <2>1. DOMAIN at = 0 .. MaxArgs /\ at = [n \in DOMAIN at |-> at[n]]
    BY <1>6, <1>12
  <2> QED
    BY <1>14, <2>1
<1> QED
  BY <1>1, <1>13, <1>15 DEF E

-----------------------------------------------------------------------------
(* The words of a line *)

\* The line is in the buffer, ended as ENTER ends it; anything may lie behind.
Holds(b, l) ==
    /\ b \in Buffers /\ l \in Seq(Printable) /\ Len(l) \in Cells
    /\ \A k \in 1 .. Len(l) : b[k - 1] = l[k]
    /\ b[Len(l)] = NUL

\* A word ends before cell k.
IsEnd(l, k) == k \in 1 .. Len(l) - 1 /\ l[k] # BLANK /\ l[k + 1] = BLANK

\* The buffer with the words before cell m, or all of them, cut off.
Cut(b, l, m) ==
    [k \in Cells |-> IF IsEnd(l, k) /\ (m = Null \/ k < m) THEN NUL ELSE b[k]]

LEMMA LetterFacts ==
    ASSUME NEW l \in Seq(Printable), NEW k \in 1 .. Len(l)
    PROVE  l[k] # NUL /\ Len(l) \in Nat
<1>1. l[k] \in Printable
  OBVIOUS
<1>2. NUL \notin Letters /\ NUL # BLANK
  BY ShellAssumption DEF NUL, BLANK
<1> QED
  BY <1>1, <1>2 DEF Printable

LEMMA CutType ==
    ASSUME NEW b, NEW l, Holds(b, l), NEW m
    PROVE  /\ Cut(b, l, m) \in Buffers
           /\ \A k \in Cells : ~IsEnd(l, k) => Cut(b, l, m)[k] = b[k]
           /\ \A k \in Cells : IsEnd(l, k) /\ (m = Null \/ k < m) => Cut(b, l, m)[k] = NUL
           /\ \A k \in Cells : m # Null /\ ~(k < m) => Cut(b, l, m)[k] = b[k]
<1>1. BufSize - 1 \in Cells /\ b \in [Cells -> Keys \cup {NUL}] /\ b[BufSize - 1] = NUL
  BY ShellAssumption DEF Cells, Holds, Buffers
<1>2. Cut(b, l, m) \in [Cells -> Keys \cup {NUL}] /\ Cut(b, l, m)[BufSize - 1] = NUL
  BY <1>1 DEF Cut
<1> QED
  BY <1>2 DEF Cut, Buffers

\* strtok_c, called at the start of the line or of a word, gives the next word, and
\* comes to the one after it.
LEMMA NextWord ==
    ASSUME NEW b, NEW l, Holds(b, l), NEW m \in 0 .. Len(l),
           m = 0 \/ m + 1 \in Starts(l)
    PROVE  LET x == StrTok(Cut(b, l, m), m) IN
           \/ /\ Starts(l) = {} /\ m = 0
              /\ x.res = Len(l) /\ x.buf = b /\ x.last = Null
           \/ /\ x.res + 1 \in Starts(l) /\ x.res \in m .. Len(l) - 1
              /\ x.buf = Cut(b, l, x.last)
              /\ \A i \in Starts(l) : ~(m + 1 <= i /\ i < x.res + 1)
              /\ \/ x.last = Null /\ \A i \in Starts(l) : i <= x.res + 1
                 \/ /\ x.last \in x.res + 1 .. Len(l) - 1 /\ x.last + 1 \in Starts(l)
                    /\ \A i \in Starts(l) : ~(x.res + 1 < i /\ i < x.last + 1)
<1> DEFINE p == Len(l)
           c == Cut(b, l, m)
           x == StrTok(c, m)
<1>1. /\ p \in Nat /\ p \in Cells /\ b \in Buffers /\ l \in Seq(Printable) /\ b[p] = NUL
      /\ \A k \in 1 .. p : b[k - 1] = l[k]
      /\ BufSize \in Nat /\ p <= BufSize - 1 /\ m \in Nat /\ m <= p /\ m \in Cells
      /\ b \in [Cells -> Keys \cup {NUL}]
  BY ShellAssumption DEF Holds, Cells, Buffers
<1>2. /\ c \in Buffers
      /\ \A k \in Cells : ~(k < m) => c[k] = b[k]
      /\ \A k \in Cells : IsEnd(l, k) /\ k < m => c[k] = NUL
      /\ \A k \in Cells : ~IsEnd(l, k) => c[k] = b[k]
  BY <1>1, CutType DEF Null
<1>3. PICK res, end, rest \in Cells : Parts(c, m, res, end, rest)
  BY <1>1, <1>2, StrTokParts
<1> HIDE DEF c
<1>4. c[p] = NUL /\ \A k \in m .. p - 1 : c[k] = l[k + 1] /\ c[k] # NUL
  <2>1. ASSUME NEW k \in m .. p - 1 PROVE c[k] = l[k + 1] /\ c[k] # NUL
    <3>1. k + 1 \in 1 .. p /\ (k + 1) - 1 = k /\ k \in Cells /\ ~(k < m)
      BY <1>1 DEF Cells
    <3> QED
      BY <1>1, <1>2, <3>1, LetterFacts
  <2> QED
    BY <1>1, <1>2, <2>1
<1>5. /\ res \in Nat /\ end \in Nat /\ rest \in Nat /\ m <= res /\ res <= end /\ end <= rest
      /\ c[res] # BLANK /\ \A j \in m .. res - 1 : c[j] = BLANK
      /\ c[end] \in {BLANK, NUL} /\ \A j \in res .. end - 1 : c[j] \notin {BLANK, NUL}
      /\ c[rest] # BLANK /\ \A j \in end .. rest - 1 : c[j] = BLANK
      /\ x.res = res
      /\ x.buf = (IF c[end] = NUL THEN c ELSE [c EXCEPT ![end] = NUL])
      /\ x.last = (IF c[rest] = NUL THEN Null ELSE rest)
  BY <1>3 DEF Parts, Cells
<1> HIDE DEF x
<1>6. NUL # BLANK
  BY DEF NUL, BLANK
<1>7. res <= p /\ end <= p /\ rest <= p
  <2>1. ~(p < res)
    BY <1>1, <1>4, <1>5, <1>6
  <2>2. ~(p < end)
    BY <1>1, <1>4, <1>5, <2>1
  <2>3. ~(p < rest)
    BY <1>1, <1>4, <1>5, <1>6, <2>2
  <2> QED
    BY <1>1, <1>5, <2>1, <2>2, <2>3
<1>8. m >= 1 => l[m] = BLANK /\ res = m
  <2> SUFFICES ASSUME m >= 1 PROVE l[m] = BLANK /\ res = m
    OBVIOUS
  <2>1. m + 1 \in Starts(l)
    BY <1>1
  <2>2. m + 1 \in 1 .. p /\ l[m + 1] # BLANK /\ l[m] = BLANK
    BY <1>1, <2>1 DEF Starts
  <2>3. c[m] # BLANK
    BY <1>1, <1>4, <2>2
  <2>4. ~(m < res)
    BY <1>1, <1>5, <2>3
  <2> QED
    BY <1>5, <2>2, <2>4
\* A cell of the line, by the parts strtok_c finds.
<1>9. ASSUME NEW i \in 1 .. p
      PROVE  /\ i \in m + 1 .. res => l[i] = BLANK
             /\ i \in res + 1 .. end => l[i] # BLANK
             /\ i \in end + 1 .. rest => l[i] = BLANK
  <2>1. i - 1 \in Int /\ (i - 1) + 1 = i
    BY <1>1
  <2>2. i > m => c[i - 1] = l[i]
    BY <1>1, <1>4, <2>1
  <2> QED
    BY <1>1, <1>5, <2>2
<1>10. CASE res = p
  <2>1. m = 0
    <3>1. m >= 1 => m + 1 \in 1 .. p
      BY <1>1 DEF Starts
    <3> QED
      BY <1>1, <1>8, <1>10, <3>1
  <2>2. end = p /\ rest = p
    BY <1>1, <1>5, <1>7, <1>10
  <2>3. Starts(l) = {}
    BY <1>1, <1>9, <1>10, <2>1 DEF Starts
  <2>4. c = b
    <3>1. \A k \in Cells : c[k] = b[k]
      BY <1>2, <2>1 DEF Cells
    <3>2. c = [k \in Cells |-> c[k]] /\ b = [k \in Cells |-> b[k]]
      BY <1>1, <1>2 DEF Buffers
    <3> QED
      BY <3>1, <3>2
  <2> QED
    BY <1>4, <1>5, <1>10, <2>1, <2>2, <2>3, <2>4 DEF x, c
<1>11. CASE res < p
  <2>1. res + 1 \in Starts(l) /\ res < end
    <3>1. res + 1 \in 1 .. p /\ c[res] = l[res + 1]
      <4>1. res \in m .. p - 1
        BY <1>1, <1>5, <1>11
      <4> QED
        BY <1>1, <1>4, <4>1
    <3>2. res = 0 \/ l[res] = BLANK
      <4>1. CASE res = m
        BY <1>1, <1>8, <4>1
      <4>2. CASE res # m
        <5>1. res \in 1 .. p /\ res \in m + 1 .. res
          BY <1>1, <1>5, <1>7, <4>2
        <5> QED
          BY <1>9, <5>1
      <4> QED
        BY <4>1, <4>2
    <3>3. end # res
      BY <1>1, <1>4, <1>5, <1>11
    <3> QED
      BY <1>1, <1>5, <3>1, <3>2, <3>3 DEF Starts
  <2>2. \A i \in Starts(l) : ~(m + 1 <= i /\ i < res + 1)
    BY <1>1, <1>9 DEF Starts
  <2>3. \A i \in Starts(l) : ~(res + 1 < i /\ i < rest + 1)
    <3> SUFFICES ASSUME NEW i \in Starts(l), res + 1 < i, i < rest + 1 PROVE FALSE
      OBVIOUS
    <3>1. i \in 1 .. p /\ i - 1 \in 1 .. p /\ l[i] # BLANK /\ l[i - 1] = BLANK
      BY <1>1, <1>5 DEF Starts
    <3>2. end \in Nat /\ res \in Nat /\ rest \in Nat /\ i \in Nat
      BY <1>5, <3>1
    <3>3. res + 1 < i /\ i < rest + 1
      OBVIOUS
    <3>4. CASE i <= end
      <4>1. i - 1 \in res + 1 .. end
        BY <3>2, <3>3, <3>4
      <4> QED
        BY <1>9, <3>1, <4>1
    <3>5. CASE end < i
      <4>1. i \in end + 1 .. rest
        BY <3>2, <3>3, <3>5
      <4> QED
        BY <1>9, <3>1, <4>1
    <3> QED
      BY <3>2, <3>4, <3>5
  <2>4. CASE rest = p
    <3>1. x.last = Null
      BY <1>4, <1>5, <2>4
    <3>2. \A i \in Starts(l) : i <= res + 1
      BY <1>1, <1>5, <2>3, <2>4 DEF Starts
    <3>3. /\ end = p => ~IsEnd(l, end) /\ c[end] = NUL
          /\ end < p => IsEnd(l, end) /\ c[end] = BLANK
      <4>1. ASSUME end < p PROVE IsEnd(l, end) /\ c[end] = BLANK
        <5>1. end \in 1 .. p /\ end + 1 \in 1 .. p /\ end \in m .. p - 1
          BY <1>1, <1>5, <2>1, <4>1
        <5>2. c[end] = BLANK /\ c[end] = l[end + 1]
          BY <1>4, <1>5, <5>1
        <5>3. end \in res + 1 .. end
          BY <1>1, <1>5, <2>1
        <5> QED
          BY <1>1, <1>9, <4>1, <5>1, <5>2, <5>3 DEF IsEnd
      <4> QED
        BY <1>1, <1>4, <4>1 DEF IsEnd
    <3>4. ASSUME NEW k \in Cells, IsEnd(l, k), ~(k < m) PROVE k = end
      <4>1. k \in 1 .. p - 1 /\ l[k] # BLANK /\ l[k + 1] = BLANK /\ k \in 1 .. p /\ k + 1 \in 1 .. p
        BY <1>1, <3>4 DEF IsEnd
      <4>2. k \notin m + 1 .. res /\ k \notin end + 1 .. rest /\ k + 1 \notin res + 1 .. end
        BY <1>9, <4>1
      <4>3. k # m
        BY <1>1, <1>8, <4>1
      <4> QED
        BY <1>1, <1>5, <2>4, <3>4, <4>1, <4>2, <4>3
    <3>5. x.buf = Cut(b, l, Null)
      <4>1. ASSUME NEW k \in Cells PROVE x.buf[k] = Cut(b, l, Null)[k]
        <5>1. CASE k = end
          <6>1. x.buf[end] = NUL
            BY <1>2, <1>5 DEF Buffers
          <6>2. end = p \/ end < p
            BY <1>1, <1>7
          <6> QED
            BY <1>1, <3>3, <5>1, <6>1, <6>2, CutType
        <5>2. CASE k # end
          <6>1. x.buf[k] = c[k]
            BY <1>2, <1>5, <5>2 DEF Buffers
          <6>2. CASE IsEnd(l, k)
            <7>1. k < m
              BY <3>4, <5>2, <6>2
            <7> QED
              BY <1>2, <6>1, <6>2, <7>1, CutType
          <6>3. CASE ~IsEnd(l, k)
            BY <1>2, <6>1, <6>3, CutType
          <6> QED
            BY <6>2, <6>3
        <5> QED
          BY <5>1, <5>2
      <4>2. x.buf = [k \in Cells |-> x.buf[k]]
        BY <1>2, <1>5 DEF Buffers
      <4>3. Cut(b, l, Null) = [k \in Cells |-> Cut(b, l, Null)[k]]
        BY DEF Cut
      <4> QED
        BY <4>1, <4>2, <4>3
    <3> QED
      BY <1>1, <1>5, <1>11, <2>1, <2>2, <3>1, <3>2, <3>5 DEF x, c
  <2>5. CASE rest < p
    <3>1. x.last = rest
      BY <1>1, <1>4, <1>5, <2>5
    <3>2. end < rest /\ end < p
      <4>1. end # rest
        BY <1>1, <1>4, <1>5, <2>5
      <4> QED
        BY <1>1, <1>5, <2>5, <4>1
    <3>3. rest + 1 \in Starts(l)
      <4>1. rest + 1 \in 1 .. p /\ rest \in 1 .. p /\ rest \in end + 1 .. rest
        BY <1>1, <1>5, <2>5, <3>2
      <4>2. l[rest] = BLANK
        BY <1>9, <4>1
      <4>3. l[rest + 1] # BLANK
        BY <1>1, <1>4, <1>5, <2>5
      <4> QED
        BY <1>1, <4>1, <4>2, <4>3 DEF Starts
    <3>4. IsEnd(l, end) /\ c[end] = BLANK
      <4>1. end \in 1 .. p /\ end + 1 \in 1 .. p /\ end \in m .. p - 1
        BY <1>1, <1>5, <2>1, <3>2
      <4>2. c[end] = BLANK /\ c[end] = l[end + 1]
        BY <1>4, <1>5, <4>1
      <4>3. end \in res + 1 .. end
        BY <1>1, <1>5, <2>1
      <4> QED
        BY <1>1, <1>9, <3>2, <4>1, <4>2, <4>3 DEF IsEnd
    <3>5. ASSUME NEW k \in Cells, IsEnd(l, k), ~(k < m), k < rest PROVE k = end
      <4>1. k \in 1 .. p - 1 /\ l[k] # BLANK /\ l[k + 1] = BLANK /\ k \in 1 .. p /\ k + 1 \in 1 .. p
        BY <1>1, <3>5 DEF IsEnd
      <4>2. k \notin m + 1 .. res /\ k \notin end + 1 .. rest /\ k + 1 \notin res + 1 .. end
        BY <1>9, <4>1
      <4>3. k # m
        BY <1>1, <1>8, <4>1
      <4> QED
        BY <1>1, <1>5, <3>5, <4>1, <4>2, <4>3
    <3>6. x.buf = Cut(b, l, rest)
      <4>1. ASSUME NEW k \in Cells PROVE x.buf[k] = Cut(b, l, rest)[k]
        <5>1. CASE k = end
          <6>1. x.buf[end] = NUL
            BY <1>2, <1>5 DEF Buffers
          <6> QED
            BY <3>2, <3>4, <5>1, <6>1, CutType
        <5>2. CASE k # end
          <6>1. x.buf[k] = c[k]
            BY <1>2, <1>5, <5>2 DEF Buffers
          <6>2. CASE IsEnd(l, k) /\ k < rest
            <7>1. k < m
              BY <3>5, <5>2, <6>2
            <7> QED
              BY <1>2, <6>1, <6>2, <7>1, CutType
          <6>3. CASE ~IsEnd(l, k)
            BY <1>2, <6>1, <6>3, CutType
          <6>4. CASE ~(k < rest)
            <7>1. ~(k < m) /\ rest # Null
              BY <1>1, <1>5, <6>4 DEF Cells, Null
            <7> QED
              BY <1>2, <6>1, <6>4, <7>1, CutType
          <6> QED
            BY <6>2, <6>3, <6>4
        <5> QED
          BY <5>1, <5>2
      <4>2. x.buf = [k \in Cells |-> x.buf[k]]
        BY <1>2, <1>5 DEF Buffers
      <4>3. Cut(b, l, rest) = [k \in Cells |-> Cut(b, l, rest)[k]]
        BY DEF Cut
      <4> QED
        BY <4>1, <4>2, <4>3
    <3>7. rest \in res + 1 .. p - 1
      BY <1>1, <1>5, <2>1, <2>5, <3>2
    <3> QED
      BY <1>1, <1>5, <1>11, <2>1, <2>2, <2>3, <3>1, <3>3, <3>6, <3>7 DEF x, c
  <2> QED
    BY <1>1, <1>7, <2>4, <2>5
<1> QED
  BY <1>1, <1>5, <1>7, <1>10, <1>11

-----------------------------------------------------------------------------
(* The order of the words *)

LEMMA StartsFinite ==
    ASSUME NEW l, Len(l) \in Nat
    PROVE  /\ Starts(l) \in SUBSET (1 .. Len(l)) /\ IsFiniteSet(Starts(l))
           /\ Cardinality(Starts(l)) \in Nat
           /\ \A i \in Starts(l) : Rank(l, i) \in 1 .. Cardinality(Starts(l))
<1>1. Starts(l) \in SUBSET (1 .. Len(l))
  BY DEF Starts
<1>2. IsFiniteSet(Starts(l)) /\ Cardinality(Starts(l)) \in Nat
  <2>1. IsFiniteSet(1 .. Len(l))
    BY FS_Interval
  <2>2. IsFiniteSet(Starts(l))
    BY <1>1, <2>1, FS_Subset
  <2> QED
    BY <2>2, FS_CardinalityType
<1>3. ASSUME NEW i \in Starts(l) PROVE Rank(l, i) \in 1 .. Cardinality(Starts(l))
  <2> DEFINE S == { j \in Starts(l) : j <= i }
  <2>1. S \in SUBSET Starts(l) /\ i \in S
    BY <1>1
  <2>2. IsFiniteSet(S) /\ Cardinality(S) <= Cardinality(Starts(l)) /\ Cardinality(S) \in Nat
    BY <1>2, <2>1, FS_Subset, FS_CardinalityType
  <2>3. Cardinality(S) # 0
    BY <2>1, <2>2, FS_EmptySet
  <2> QED
    BY <1>2, <2>2, <2>3 DEF Rank
<1> QED
  BY <1>1, <1>2, <1>3

\* The start after a start has the next rank.
LEMMA NextRank ==
    ASSUME NEW l, Len(l) \in Nat, NEW i \in Starts(l), NEW j \in Starts(l), i < j,
           \A k \in Starts(l) : ~(i < k /\ k < j)
    PROVE  Rank(l, j) = Rank(l, i) + 1
<1> DEFINE S == { k \in Starts(l) : k <= i }
<1>1. Starts(l) \in SUBSET (1 .. Len(l)) /\ IsFiniteSet(Starts(l))
  BY StartsFinite
<1>2. { k \in Starts(l) : k <= j } = S \cup {j}
  <2>1. \A k \in Starts(l) : k \in Int
    BY <1>1
  <2> QED
    BY <2>1
<1>3. IsFiniteSet(S) /\ j \notin S
  <2>1. S \in SUBSET Starts(l)
    OBVIOUS
  <2> QED
    BY <1>1, <2>1, FS_Subset
<1> QED
  BY <1>2, <1>3, FS_AddElement DEF Rank

LEMMA FirstRank ==
    ASSUME NEW l, Len(l) \in Nat, NEW i \in Starts(l), \A k \in Starts(l) : ~(k < i)
    PROVE  Rank(l, i) = 1
<1>1. Starts(l) \in SUBSET (1 .. Len(l))
  BY StartsFinite
<1>2. { k \in Starts(l) : k <= i } = {} \cup {i}
  BY <1>1
<1>3. Cardinality({} \cup {i}) = 1
  <2>1. IsFiniteSet({}) /\ Cardinality({}) = 0 /\ i \notin {}
    BY FS_EmptySet
  <2>2. Cardinality({} \cup {i}) = Cardinality({}) + 1
    BY <2>1, FS_AddElement
  <2> QED
    BY <2>1, <2>2
<1> QED
  BY <1>2, <1>3 DEF Rank

LEMMA LastRank ==
    ASSUME NEW l, Len(l) \in Nat, NEW i \in Starts(l), \A k \in Starts(l) : k <= i
    PROVE  Rank(l, i) = Cardinality(Starts(l))
<1>1. { k \in Starts(l) : k <= i } = Starts(l)
  OBVIOUS
<1> QED
  BY <1>1 DEF Rank

LEMMA OneOfARank ==
    ASSUME NEW l, Len(l) \in Nat, NEW i \in Starts(l), NEW j \in Starts(l),
           Rank(l, i) = Rank(l, j)
    PROVE  i = j
<1>1. Starts(l) \in SUBSET (1 .. Len(l)) /\ IsFiniteSet(Starts(l)) /\ i \in Int /\ j \in Int
  BY StartsFinite
<1>2. ASSUME NEW u \in Starts(l), NEW v \in Starts(l), Rank(l, u) = Rank(l, v) PROVE ~(u < v)
  <2> DEFINE S == { k \in Starts(l) : k <= u }
             T == { k \in Starts(l) : k <= v }
  <2> SUFFICES ASSUME u < v PROVE FALSE
    OBVIOUS
  <2>1. \A k \in Starts(l) : k \in Int
    BY <1>1
  <2>2. T \in SUBSET Starts(l) /\ S \in SUBSET T /\ v \in T /\ v \notin S
    BY <2>1
  <2>3. IsFiniteSet(T)
    BY <1>1, <2>2, FS_Subset
  <2>4. Cardinality(S) = Cardinality(T)
    BY <1>2 DEF Rank
  <2>5. S = T
    BY <2>2, <2>3, <2>4, FS_Subset
  <2> QED
    BY <2>2, <2>5
<1> QED
  BY <1>1, <1>2

LEMMA LenOfFun ==
    ASSUME NEW f, NEW n \in Nat, DOMAIN f = 1 .. n, f = [k \in DOMAIN f |-> f[k]]
    PROVE  Len(f) = n
<1> DEFINE S == { f[k] : k \in 1 .. n }
<1>1. f \in [1 .. n -> S]
  OBVIOUS
<1> HIDE DEF S
<1>2. f \in Seq(S)
  BY <1>1
<1> QED
  BY <1>1, <1>2

LEMMA WordOfRank ==
    ASSUME NEW l, Len(l) \in Nat, NEW i \in Starts(l)
    PROVE  /\ Len(Words(l)) = Cardinality(Starts(l))
           /\ Words(l)[Rank(l, i)] = WordAt(l, i)
<1>1. Cardinality(Starts(l)) \in Nat /\ Rank(l, i) \in 1 .. Cardinality(Starts(l))
  BY StartsFinite
<1>2. (CHOOSE j \in Starts(l) : Rank(l, j) = Rank(l, i)) = i
  BY OneOfARank
<1>3. Words(l) = [k \in 1 .. Cardinality(Starts(l)) |->
                     WordAt(l, CHOOSE j \in Starts(l) : Rank(l, j) = k)]
  BY DEF Words
<1>4. DOMAIN Words(l) = 1 .. Cardinality(Starts(l))
  BY <1>3
<1>5. Words(l)[Rank(l, i)] = WordAt(l, CHOOSE j \in Starts(l) : Rank(l, j) = Rank(l, i))
  BY <1>1, <1>3
<1>6. Words(l) = [k \in DOMAIN Words(l) |-> Words(l)[k]]
  BY <1>3
<1>7. Len(Words(l)) = Cardinality(Starts(l))
  BY <1>1, <1>4, <1>6, LenOfFun
<1> QED
  BY <1>2, <1>5, <1>7

\* A word is in the buffer as it is in the line, once it has been cut off.
LEMMA WordThere ==
    ASSUME NEW b, NEW l, Holds(b, l), NEW i \in Starts(l),
           NEW m \in Cells \cup {Null}, m = Null \/ (m + 1 \in Starts(l) /\ i < m + 1)
    PROVE  Str(Cut(b, l, m), i - 1) = WordAt(l, i)
<1> DEFINE p == Len(l)
           S == { j \in i .. p : \A k \in i .. j : l[k] # BLANK }
           c == Cut(b, l, m)
<1>1. /\ p \in Nat /\ p \in Cells /\ b \in Buffers /\ l \in Seq(Printable) /\ b[p] = NUL
      /\ \A k \in 1 .. p : b[k - 1] = l[k]
      /\ BufSize \in Nat /\ p <= BufSize - 1 /\ l \in [1 .. p -> Printable]
  BY ShellAssumption DEF Holds, Cells
<1>2. i \in 1 .. p /\ l[i] # BLANK
  BY DEF Starts
<1>3. \E e \in S : \A y \in S : e >= y
  <2> DEFINE T == { n \in 0 .. p : p - n \in S }
  <2>1. p - i \in T /\ T \in SUBSET Nat
    BY <1>1, <1>2
  <2>2. PICK n \in T : \A y \in T : n <= y
    BY <2>1, LeastMember
  <2>3. ASSUME NEW y \in S PROVE p - n >= y
    <3>1. y \in i .. p /\ p - y \in 0 .. p /\ p - (p - y) = y
      BY <1>1, <1>2
    <3>2. p - y \in T
      BY <2>3, <3>1
    <3>3. n \in 0 .. p /\ n <= p - y
      BY <2>2, <3>2
    <3> QED
      BY <1>1, <3>1, <3>3
  <2>4. p - n \in S
    BY <2>2
  <2> QED
    BY <2>3, <2>4
<1>4. PICK e \in S : e = Max(S) /\ \A y \in S : e >= y
  BY <1>3 DEF Max
<1>5. e \in i .. p /\ \A k \in i .. e : l[k] # BLANK
  BY <1>4
<1>6. e < p => l[e + 1] = BLANK
  <2> SUFFICES ASSUME e < p, l[e + 1] # BLANK PROVE FALSE
    OBVIOUS
  <2>1. e + 1 \in i .. p
    BY <1>1, <1>2, <1>5
  <2>2. \A k \in i .. e + 1 : l[k] # BLANK
    <3>1. \A k \in i .. e + 1 : k \in i .. e \/ k = e + 1
      BY <1>2, <1>5
    <3> QED
      BY <1>5, <3>1
  <2>3. e + 1 \in S
    BY <2>1, <2>2
  <2>4. e >= e + 1
    BY <1>4, <2>3
  <2> QED
    BY <1>5, <2>4
<1> HIDE DEF S
<1>7. m # Null => m \in Int /\ e < m
  <2> SUFFICES ASSUME m # Null PROVE m \in Int /\ e < m
    OBVIOUS
  <2>1. m \in Int /\ m + 1 \in Starts(l) /\ i < m + 1
    BY DEF Cells
  <2>2. l[m + 1] # BLANK /\ (m + 1 = 1 \/ l[m] = BLANK) /\ m >= i
    BY <1>2, <2>1 DEF Starts
  <2>3. l[m] = BLANK
    BY <1>2, <2>1, <2>2
  <2>4. m \notin i .. e
    BY <1>5, <2>3
  <2> QED
    BY <1>2, <1>5, <2>1, <2>2, <2>4
<1>8. c \in Buffers /\ c[e] = NUL /\ e \in Cells
  <2>1. e \in Cells /\ c \in Buffers
    BY <1>1, <1>2, <1>5, CutType DEF Cells
  <2>2. CASE e < p
    <3>1. e \in 1 .. p - 1 /\ l[e] # BLANK /\ l[e + 1] = BLANK
      BY <1>1, <1>2, <1>5, <1>6, <2>2
    <3>2. IsEnd(l, e)
      BY <3>1 DEF IsEnd
    <3> QED
      BY <1>7, <2>1, <3>2, CutType
  <2>3. CASE e = p
    <3>1. ~IsEnd(l, e)
      BY <1>1, <2>3 DEF IsEnd
    <3> QED
      BY <1>1, <2>1, <2>3, <3>1, CutType
  <2>4. e < p \/ e = p
    <3>1. p \in Int /\ i \in Int /\ e \in i .. p
      BY <1>1, <1>2, <1>5
    <3> HIDE DEF p
    <3> QED
      BY <3>1
  <2> QED
    BY <2>1, <2>2, <2>3, <2>4
<1>9. ASSUME NEW k \in i - 1 .. e - 1 PROVE c[k] = l[k + 1] /\ c[k] # NUL
  <2>1. k \in Cells /\ k + 1 \in i .. e /\ k + 1 \in 1 .. p /\ (k + 1) - 1 = k
    BY <1>1, <1>2, <1>5 DEF Cells
  <2>2. ~IsEnd(l, k)
    BY <1>5, <2>1 DEF IsEnd
  <2>3. c[k] = b[k]
    BY <2>1, <2>2, CutType
  <2>4. b[k] = l[k + 1]
    BY <1>1, <2>1
  <2> QED
    BY <1>1, <2>1, <2>3, <2>4, LetterFacts
<1>10. c[BufSize - 1] = NUL
  BY <1>8 DEF Buffers
<1> HIDE DEF c
<1>11. First(c, i - 1, {NUL}) = e
  <2>1. i - 1 \in Cells /\ e \in i - 1 .. BufSize - 1
    BY <1>1, <1>2, <1>5 DEF Cells
  <2>2. c[e] \in {NUL} /\ c[BufSize - 1] \in {NUL} /\ \A k \in i - 1 .. e - 1 : c[k] \notin {NUL}
    BY <1>8, <1>9, <1>10
  <2> QED
    BY <2>1, <2>2, FirstIs
<1>12. Str(c, i - 1) = [k \in 1 .. e - (i - 1) |-> c[(i - 1) + k - 1]]
  BY <1>11 DEF Str
<1>13. WordAt(l, i) = [k \in 1 .. (e - i) + 1 |-> l[(i + k) - 1]]
  <2>1. WordAt(l, i) = SubSeq(l, i, e)
    BY <1>4 DEF WordAt, S
  <2>2. i \in 1 .. Len(l) /\ e \in 1 .. Len(l) /\ e >= i
    BY <1>1, <1>2, <1>5
  <2>3. SubSeq(l, i, e) = [k \in 1 .. (e - i) + 1 |-> l[(i + k) - 1]]
    <3> DEFINE w == SubSeq(l, i, e)
    <3>1. \A k \in i .. e : l[k] \in Printable
      BY <1>1, <2>2
    <3>2. i \in Int /\ e \in Int
      BY <2>2
    <3>3. /\ w \in Seq(Printable) /\ Len(w) = (e - i) + 1
          /\ \A k \in 1 .. (e - i) + 1 : w[k] = l[(i + k) - 1]
      BY <2>2, <3>1, <3>2, SubSeqProperties
    <3> HIDE DEF w
    <3>4. w = [k \in 1 .. Len(w) |-> w[k]]
      BY <3>3
    <3> QED
      BY <3>3, <3>4 DEF w
  <2> QED
    BY <2>1, <2>3
<1>14. e - (i - 1) = (e - i) + 1 /\ i \in Int /\ e \in Int
  BY <1>2, <1>5
<1>15. ASSUME NEW k \in 1 .. (e - i) + 1 PROVE c[(i - 1) + k - 1] = l[(i + k) - 1]
  <2>1. (i - 1) + k - 1 \in i - 1 .. e - 1 /\ ((i - 1) + k - 1) + 1 = (i + k) - 1
    BY <1>14
  <2> QED
    BY <1>9, <2>1
<1> QED
  BY <1>12, <1>13, <1>14, <1>15 DEF c

-----------------------------------------------------------------------------
(* exec_cmd *)

\* What the call numbered n from 0 returns: the word of rank n + 1, or nothing.
Told(t, b, l, n) ==
    \/ /\ t.res \in Cells /\ t.res + 1 \in Starts(l) /\ Rank(l, t.res + 1) = n + 1
       /\ t.buf = Cut(b, l, t.last)
       /\ \/ t.last = Null /\ Cardinality(Starts(l)) = n + 1
          \/ /\ t.last \in t.res + 1 .. Len(l) - 1 /\ t.last + 1 \in Starts(l)
             /\ Rank(l, t.last + 1) = n + 2
    \/ /\ t.res = Null /\ t.last = Null /\ t.buf = Cut(b, l, Null)
       /\ Cardinality(Starts(l)) <= n

LEMMA CutNone ==
    ASSUME NEW b, NEW l, Holds(b, l)
    PROVE  Cut(b, l, 0) = b
<1>1. \A k \in Cells : ~(k < 0) /\ 0 # Null
  BY ShellAssumption DEF Cells, Null
<1>2. Cut(b, l, 0) = [k \in Cells |-> Cut(b, l, 0)[k]]
  BY DEF Cut
<1>3. b = [k \in Cells |-> b[k]]
  BY DEF Holds, Buffers
<1>4. \A k \in Cells : Cut(b, l, 0)[k] = b[k]
  BY <1>1, CutType
<1> QED
  BY <1>2, <1>3, <1>4

\* A call that finds the word of rank n + 1 from where the call before stopped.
LEMMA WordTold ==
    ASSUME NEW b, NEW l, Holds(b, l), NEW m \in 0 .. Len(l), Starts(l) # {},
           NEW n \in Nat,
           \/ m = 0 /\ n = 0
           \/ m + 1 \in Starts(l) /\ Rank(l, m + 1) = n + 1
    PROVE  Told(StrTok(Cut(b, l, m), m), b, l, n)
<1> DEFINE x == StrTok(Cut(b, l, m), m)
           i == x.res + 1
<1>1. /\ Len(l) \in Nat /\ Len(l) \in Cells /\ BufSize \in Nat
      /\ Starts(l) \in SUBSET (1 .. Len(l)) /\ m \in Nat
  BY ShellAssumption, StartsFinite DEF Holds, Cells
<1>2. /\ x.res + 1 \in Starts(l) /\ x.res \in m .. Len(l) - 1
      /\ x.buf = Cut(b, l, x.last)
      /\ \A k \in Starts(l) : ~(m + 1 <= k /\ k < x.res + 1)
      /\ \/ x.last = Null /\ \A k \in Starts(l) : k <= x.res + 1
         \/ /\ x.last \in x.res + 1 .. Len(l) - 1 /\ x.last + 1 \in Starts(l)
            /\ \A k \in Starts(l) : ~(x.res + 1 < k /\ k < x.last + 1)
  BY NextWord
<1> HIDE DEF x
<1>3. x.res \in Cells /\ x.res \in Int
  BY <1>1, <1>2 DEF Cells
<1>4. Rank(l, i) = n + 1
  <2>1. CASE m = 0 /\ n = 0
    <3>1. \A k \in Starts(l) : ~(k < i)
      BY <1>1, <1>2, <1>3, <2>1
    <3> QED
      BY <1>1, <1>2, <2>1, <3>1, FirstRank
  <2>2. CASE m + 1 \in Starts(l) /\ Rank(l, m + 1) = n + 1
    <3>1. m + 1 = i
      BY <1>1, <1>2, <1>3, <2>2
    <3> QED
      BY <2>2, <3>1
  <2> QED
    BY <2>1, <2>2
<1>5. CASE x.last = Null /\ \A k \in Starts(l) : k <= i
  <2>1. Cardinality(Starts(l)) = n + 1
    BY <1>1, <1>2, <1>4, <1>5, LastRank
  <2> QED
    BY <1>2, <1>3, <1>4, <1>5, <2>1 DEF Told, x
<1>6. CASE /\ x.last \in x.res + 1 .. Len(l) - 1 /\ x.last + 1 \in Starts(l)
           /\ \A k \in Starts(l) : ~(i < k /\ k < x.last + 1)
  <2>1. i < x.last + 1
    BY <1>1, <1>3, <1>6
  <2>2. Rank(l, x.last + 1) = Rank(l, i) + 1
    BY <1>1, <1>2, <1>6, <2>1, NextRank
  <2>3. Rank(l, x.last + 1) = n + 2
    BY <1>4, <2>2
  <2> QED
    BY <1>2, <1>3, <1>4, <1>6, <2>3 DEF Told, x
<1> QED
  BY <1>2, <1>5, <1>6

LEMMA TokensTold ==
    ASSUME NEW b, NEW l, Holds(b, l), Starts(l) # {}, NEW n \in 0 .. MaxArgs
    PROVE  Told(Token(b)[n], b, l, n)
<1> DEFINE t == Token(b)
           T == { k \in 0 .. MaxArgs : Told(t[k], b, l, k) }
<1>1. MaxArgs \in Nat /\ Len(l) \in Nat /\ b \in Buffers
  BY ShellAssumption DEF Holds, Cells
<1>2. /\ t[0] = StrTok(b, 0)
      /\ \A k \in 1 .. MaxArgs : t[k] = IF t[k - 1].last = Null
                                        THEN [t[k - 1] EXCEPT !.res = Null]
                                        ELSE StrTok(t[k - 1].buf, t[k - 1].last)
      /\ t \in [0 .. MaxArgs -> Results]
  BY <1>1, TokenSteps
<1> HIDE DEF t
<1>3. 0 \in T
  <2>1. t[0] = StrTok(Cut(b, l, 0), 0) /\ 0 \in 0 .. Len(l)
    BY <1>1, <1>2, CutNone
  <2> QED
    BY <1>1, <2>1, WordTold
<1>4. ASSUME NEW k \in 0 .. MaxArgs - 1, k \in T PROVE k + 1 \in T
  <2>1. /\ k + 1 \in 1 .. MaxArgs /\ k + 1 \in 0 .. MaxArgs /\ (k + 1) - 1 = k /\ k \in Nat
        /\ k \in 0 .. MaxArgs /\ t[k] \in Results
    BY <1>1, <1>2
  <2>2. /\ t[k + 1] = IF t[k].last = Null THEN [t[k] EXCEPT !.res = Null]
                      ELSE StrTok(t[k].buf, t[k].last)
        /\ Told(t[k], b, l, k)
    BY <1>2, <1>4, <2>1
  <2>3. CASE t[k].last = Null
    <3>1. t[k + 1].res = Null /\ t[k + 1].last = Null /\ t[k + 1].buf = t[k].buf
      BY <2>1, <2>2, <2>3 DEF Results
    <3>2. t[k].buf = Cut(b, l, Null) /\ Cardinality(Starts(l)) <= k + 1
      <4>1. /\ Cardinality(Starts(l)) \in Nat
            /\ -1 \notin t[k].res + 1 .. Len(l) - 1 \/ t[k].res = Null
        BY <1>1, <2>1, StartsFinite DEF Results, Cells
      <4> QED
        BY <1>1, <2>1, <2>2, <2>3, <4>1, StartsFinite DEF Told, Null, Cells
    <3>3. Told(t[k + 1], b, l, k + 1)
      BY <3>1, <3>2 DEF Told
    <3> QED
      BY <2>1, <3>3
  <2>4. CASE t[k].last # Null
    <3> DEFINE m == t[k].last
    <3>1. /\ m \in t[k].res + 1 .. Len(l) - 1 /\ m + 1 \in Starts(l) /\ t[k].res \in Cells
          /\ Rank(l, m + 1) = (k + 1) + 1 /\ t[k].buf = Cut(b, l, m)
      BY <2>1, <2>2, <2>4 DEF Told
    <3>2. m \in 0 .. Len(l)
      BY <1>1, <3>1 DEF Cells
    <3>3. t[k + 1] = StrTok(Cut(b, l, m), m)
      BY <2>2, <2>4, <3>1
    <3> HIDE DEF m
    <3>4. Told(t[k + 1], b, l, k + 1)
      BY <2>1, <3>1, <3>2, <3>3, WordTold
    <3> QED
      BY <2>1, <3>4
  <2> QED
    BY <2>3, <2>4
<1>5. 0 .. MaxArgs \subseteq T
  <2> HIDE DEF T
  <2> QED
    BY <1>1, <1>3, <1>4, SetInduction
<1> QED
  BY <1>5 DEF t

\* exec_cmd's nb, name and argv.
LEMMA NbOfLine ==
    ASSUME NEW b, NEW l, Holds(b, l), Starts(l) # {}
    PROVE  LET K == Cardinality(Starts(l))
               nb == Min({ n \in 1 .. MaxArgs : Token(b)[n].res = Null } \cup {MaxArgs})
           IN  K \in Nat \ {0} /\ nb = IF K < MaxArgs THEN K ELSE MaxArgs
<1> DEFINE K == Cardinality(Starts(l))
           t == Token(b)
           S == { n \in 1 .. MaxArgs : t[n].res = Null } \cup {MaxArgs}
<1>1. MaxArgs \in Nat \ {0} /\ Len(l) \in Nat
  <2>1. MaxArgs \in Nat /\ Commands["help"][2] + 1 < MaxArgs /\ Commands["help"][2] = 1
    BY ShellAssumption DEF Commands, MostArgs
  <2> QED
    BY <2>1 DEF Holds, Cells
<1>2. K \in Nat \ {0}
  <2>1. PICK i \in Starts(l) : TRUE
    OBVIOUS
  <2> QED
    BY <1>1, <2>1, StartsFinite
<1>3. ASSUME NEW n \in 1 .. MaxArgs PROVE t[n].res = Null <=> K <= n
  <2>1. Told(t[n], b, l, n)
    BY <1>1, TokensTold
  <2>2. CASE t[n].res \in Cells /\ t[n].res + 1 \in Starts(l) /\ Rank(l, t[n].res + 1) = n + 1
    <3>1. n + 1 \in 1 .. K
      BY <1>1, <2>2, StartsFinite
    <3>2. t[n].res # Null
      BY <2>2 DEF Cells, Null
    <3> QED
      BY <1>2, <3>1, <3>2
  <2>3. CASE t[n].res = Null /\ K <= n
    BY <2>3
  <2> QED
    BY <2>1, <2>2, <2>3 DEF Told
<1> HIDE DEF K, t
<1> DEFINE low == IF K < MaxArgs THEN K ELSE MaxArgs
<1>4. low \in S /\ \A y \in S : low <= y
  BY <1>1, <1>2, <1>3
<1>5. S \in SUBSET Int
  BY <1>1
<1>6. Min(S) = low
  <2> HIDE DEF S
  <2>1. \E x \in S : \A y \in S : x <= y
    BY <1>4
  <2>2. Min(S) \in S /\ \A y \in S : Min(S) <= y
    BY <2>1 DEF Min
  <2>3. low \in Int /\ Min(S) \in Int /\ low <= Min(S) /\ Min(S) <= low
    BY <1>4, <1>5, <2>2
  <2> QED
    BY <2>3
<1> QED
  BY <1>2, <1>6 DEF K, t

LEMMA WordsRead ==
    ASSUME NEW b, NEW l, Holds(b, l), Starts(l) # {}
    PROVE  LET K == Cardinality(Starts(l)) IN
           /\ Str(Token(b)[0].buf, Token(b)[0].res) = Words(l)[1]
           /\ K < MaxArgs =>
                [k \in 1 .. K |-> Str(Token(b)[K].buf, Token(b)[k - 1].res)] = Words(l)
<1> DEFINE K == Cardinality(Starts(l))
           t == Token(b)
<1>1. MaxArgs \in Nat /\ Len(l) \in Nat /\ K \in Nat \ {0}
  <2>1. MaxArgs \in Nat
    BY ShellAssumption
  <2>2. Len(l) \in Nat
    BY DEF Holds, Cells
  <2>3. K \in Nat \ {0}
    BY NbOfLine
  <2> QED
    BY <2>1, <2>2, <2>3
<1>2. ASSUME NEW n \in 0 .. MaxArgs, n < K
      PROVE  /\ t[n].res \in Cells /\ t[n].res + 1 \in Starts(l)
             /\ Words(l)[n + 1] = WordAt(l, t[n].res + 1)
             /\ t[n].buf = Cut(b, l, t[n].last)
             /\ \/ t[n].last = Null
                \/ /\ t[n].last \in Cells /\ t[n].last + 1 \in Starts(l)
                   /\ t[n].res + 1 < t[n].last + 1
  <2>1. Told(t[n], b, l, n)
    BY TokensTold
  <2>2. /\ t[n].res \in Cells /\ t[n].res + 1 \in Starts(l) /\ Rank(l, t[n].res + 1) = n + 1
        /\ t[n].buf = Cut(b, l, t[n].last)
        /\ \/ t[n].last = Null
           \/ t[n].last \in t[n].res + 1 .. Len(l) - 1 /\ t[n].last + 1 \in Starts(l)
    BY <1>1, <1>2, <2>1 DEF Told
  <2>3. Words(l)[n + 1] = WordAt(l, t[n].res + 1)
    BY <1>1, <2>2, WordOfRank
  <2>4. Len(l) \in Cells /\ BufSize \in Nat
    BY ShellAssumption DEF Holds
  <2>5. t[n].last \in t[n].res + 1 .. Len(l) - 1
          => t[n].last \in Cells /\ t[n].res + 1 < t[n].last + 1
    BY <2>2, <2>4 DEF Cells
  <2> QED
    BY <2>2, <2>3, <2>5
<1>3. Str(t[0].buf, t[0].res) = Words(l)[1]
  <2>1. 0 \in 0 .. MaxArgs /\ 0 < K /\ 0 + 1 = 1
    BY <1>1
  <2> DEFINE m == t[0].last
             i == t[0].res + 1
  <2>2. /\ t[0].res \in Cells /\ i \in Starts(l) /\ Words(l)[1] = WordAt(l, i)
        /\ t[0].buf = Cut(b, l, m) /\ m \in Cells \cup {Null}
        /\ m = Null \/ (m + 1 \in Starts(l) /\ i < m + 1)
    BY <1>2, <2>1
  <2>3. i - 1 = t[0].res
    BY <2>2 DEF Cells
  <2> HIDE DEF i, m
  <2> QED
    BY <2>2, <2>3, WordThere
<1>4. ASSUME K < MaxArgs
      PROVE  [k \in 1 .. K |-> Str(t[K].buf, t[k - 1].res)] = Words(l)
  <2>1. t[K].buf = Cut(b, l, Null)
    <3>1. K \in 0 .. MaxArgs /\ Told(t[K], b, l, K)
      BY <1>1, <1>4, TokensTold
    <3>2. \A i \in Starts(l) : Rank(l, i) # K + 1
      BY <1>1, StartsFinite
    <3> HIDE DEF K, t
    <3> QED
      BY <3>1, <3>2 DEF Told
  <2>2. ASSUME NEW k \in 1 .. K PROVE Str(t[K].buf, t[k - 1].res) = Words(l)[k]
    <3>1. k - 1 \in 0 .. MaxArgs /\ k - 1 < K /\ (k - 1) + 1 = k
      BY <1>1, <1>4
    <3> DEFINE i == t[k - 1].res + 1
    <3>2. t[k - 1].res \in Cells /\ i \in Starts(l) /\ Words(l)[k] = WordAt(l, i)
      BY <1>2, <3>1
    <3>3. i - 1 = t[k - 1].res
      BY <3>2 DEF Cells
    <3> HIDE DEF i
    <3>4. Str(Cut(b, l, Null), i - 1) = WordAt(l, i)
      BY <3>2, WordThere
    <3> QED
      BY <2>1, <3>2, <3>3, <3>4
  <2>3. Words(l) = [k \in 1 .. K |-> Words(l)[k]]
    BY DEF Words
  <2> HIDE DEF K, t
  <2> QED
    BY <2>2, <2>3
<1> QED
  BY <1>3, <1>4

-----------------------------------------------------------------------------
(* What a line comes to *)

\* What exec_cmd does with a line.
Done(out, l) ==
    LET w == Words(l) IN
    \/ /\ out = << "not found" >>
       /\ w = << >> \/ \A c \in DOMAIN Commands : w[1] # << NameOf(c) >>
    \/ \E c \in DOMAIN Commands :
         /\ w[1] = << NameOf(c) >>
         /\ \/ /\ out \in {<< "not enough" >>, << "too much" >>}
               /\ Len(w) - 1 \notin MinArgs(c) .. MostArgs(c)
            \/ /\ out = << c, w >> /\ Len(w) \in Nat \ {0} /\ Len(w) - 1 <= MostArgs(c)
               /\ ~TooFew(c, Len(w))

LEMMA OneElement == \A x : << x >>[1] = x
OBVIOUS

LEMMA CommandFacts ==
    ASSUME NEW c \in DOMAIN Commands
    PROVE  /\ MinArgs(c) \in Nat /\ MostArgs(c) \in Nat /\ MinArgs(c) <= MostArgs(c)
           /\ MostArgs(c) + 1 < MaxArgs /\ MaxArgs \in Nat
           /\ c \notin {"not found", "not enough", "too much", "nothing"}
<1>1. DOMAIN Commands = {"help", "memory", "ls", "p", "recvfs", "stats"}
  BY DEF Commands
<1>2. /\ Commands["help"] = << 0, 1 >> /\ Commands["memory"] = << 2, 2 >>
      /\ Commands["ls"] = << 0, 1 >> /\ Commands["p"] = << 1, 1 >>
      /\ Commands["recvfs"] = << 0, 0 >> /\ Commands["stats"] = << 0, 0 >>
  BY DEF Commands
<1>3. /\ MinArgs(c) \in Nat /\ MostArgs(c) \in Nat /\ MinArgs(c) <= MostArgs(c)
      /\ c \notin {"not found", "not enough", "too much", "nothing"}
  <2>1. c \notin {"not found", "not enough", "too much", "nothing"}
    BY <1>1
  <2>2. \/ MinArgs(c) = 0 /\ MostArgs(c) = 1
        \/ MinArgs(c) = 2 /\ MostArgs(c) = 2
        \/ MinArgs(c) = 1 /\ MostArgs(c) = 1
        \/ MinArgs(c) = 0 /\ MostArgs(c) = 0
    <3>1. \/ Commands[c] = << 0, 1 >> \/ Commands[c] = << 2, 2 >>
          \/ Commands[c] = << 1, 1 >> \/ Commands[c] = << 0, 0 >>
      BY <1>1, <1>2
    <3> QED
      BY <3>1 DEF MinArgs, MostArgs
  <2>3. MinArgs(c) \in Nat /\ MostArgs(c) \in Nat /\ MinArgs(c) <= MostArgs(c)
    BY <2>2
  <2> QED
    BY <2>1, <2>3
<1> QED
  BY <1>3, ShellAssumption

LEMMA ExecAsTyped ==
    ASSUME NEW b, NEW l, Holds(b, l)
    PROVE  ExecCmd(b).buf \in Buffers /\ Done(ExecCmd(b).out, l)
<1> DEFINE t == Token(b)
           nb == Min({ n \in 1 .. MaxArgs : t[n].res = Null } \cup {MaxArgs})
           name == Str(t[0].buf, t[0].res)
           argv == [k \in 1 .. nb |-> Str(t[nb].buf, t[k - 1].res)]
           found == { c \in DOMAIN Commands : << NameOf(c) >> = name }
           c == CHOOSE x \in found : TRUE
           w == Words(l)
           K == Cardinality(Starts(l))
<1>1. /\ found = {} => ExecCmd(b).buf = t[0].buf /\ ExecCmd(b).out = << "not found" >>
      /\ found # {} =>
           /\ ExecCmd(b).buf = t[nb].buf
           /\ ExecCmd(b).out = IF TooFew(c, nb) THEN << "not enough" >>
                               ELSE IF nb - 1 > MostArgs(c) THEN << "too much" >>
                               ELSE << c, argv >>
  BY DEF ExecCmd
<1>2. t \in [0 .. MaxArgs -> Results] /\ t[0] = StrTok(b, 0)
  BY TokenSteps DEF Holds
<1>3. MaxArgs \in Nat \ {0} /\ Len(l) \in Nat
  <2>1. Commands["help"][2] = 1 /\ "help" \in DOMAIN Commands
    BY DEF Commands
  <2>2. MaxArgs \in Nat /\ MostArgs("help") + 1 < MaxArgs
    BY <2>1, ShellAssumption
  <2> QED
    BY <2>1, <2>2 DEF Holds, Cells, MostArgs
<1>4. CASE Starts(l) = {}
  <2>1. t[0].res = Len(l) /\ t[0].buf = b
    <3>1. Holds(b, l) /\ 0 \in 0 .. Len(l)
      BY <1>3
    <3>2. ~(StrTok(Cut(b, l, 0), 0).res + 1 \in Starts(l))
      BY <1>4
    <3> QED
      BY <1>2, <1>4, <3>1, <3>2, NextWord, CutNone
  <2>2. name = << >>
    <3>1. First(b, Len(l), {NUL}) = Len(l)
      <4>1. /\ b[Len(l)] \in {NUL} /\ b[BufSize - 1] \in {NUL} /\ Len(l) \in Cells
            /\ Len(l) \in Len(l) .. BufSize - 1
        BY <1>3, ShellAssumption DEF Holds, Buffers, Cells
      <4>2. \A k \in Len(l) .. Len(l) - 1 : b[k] \notin {NUL}
        BY <1>3
      <4> QED
        BY <4>1, <4>2, FirstIs
    <3>2. name = [k \in 1 .. Len(l) - Len(l) |-> b[Len(l) + k - 1]]
      BY <2>1, <3>1 DEF Str
    <3>3. 1 .. Len(l) - Len(l) = {}
      BY <1>3
    <3> QED
      BY <3>2, <3>3
  <2>3. found = {}
    BY <2>2
  <2>4. w = << >>
    <3>1. 1 .. K = {}
      BY <1>4, FS_EmptySet
    <3> QED
      BY <3>1 DEF Words
  <2> HIDE DEF found, t
  <2> QED
    BY <1>1, <2>1, <2>3, <2>4 DEF Done, Holds
<1>5. CASE Starts(l) # {}
  <2>1. K \in Nat \ {0} /\ nb = IF K < MaxArgs THEN K ELSE MaxArgs
    BY <1>5, NbOfLine
  <2>2. name = w[1] /\ (K < MaxArgs => [k \in 1 .. K |-> Str(t[K].buf, t[k - 1].res)] = w)
    BY <1>5, WordsRead
  <2>3. Len(w) = K
    BY <1>3, <1>5, WordOfRank
  <2>4. nb \in 0 .. MaxArgs /\ 0 \in 0 .. MaxArgs
    <3> HIDE DEF nb, K
    <3> QED
      BY <1>3, <2>1
  <2>5. t[0].buf \in Buffers /\ t[nb].buf \in Buffers
    <3> HIDE DEF nb, t, Buffers
    <3> QED
      BY <1>2, <2>4 DEF Results
  <2>6. CASE found = {}
    <3>1. \A x \in DOMAIN Commands : w[1] # << NameOf(x) >>
      BY <2>2, <2>6
    <3> HIDE DEF found, t, w
    <3> QED
      BY <1>1, <2>5, <2>6, <3>1 DEF Done, w
  <2>7. CASE found # {}
    <3>1. c \in found
      BY <2>7
    <3>2. c \in DOMAIN Commands /\ w[1] = << NameOf(c) >>
      BY <2>2, <3>1
    <3>3. K < MaxArgs => nb = K /\ argv = w
      BY <2>1, <2>2
    <3>4. /\ ExecCmd(b).buf \in Buffers
          /\ ExecCmd(b).out = IF TooFew(c, nb) THEN << "not enough" >>
                              ELSE IF nb - 1 > MostArgs(c) THEN << "too much" >>
                              ELSE << c, argv >>
      BY <1>1, <2>5, <2>7
    <3> HIDE DEF c, found, argv, nb, name, t, w, K
    <3>5. /\ MinArgs(c) \in Nat /\ MostArgs(c) \in Nat /\ MinArgs(c) <= MostArgs(c)
          /\ MostArgs(c) + 1 < MaxArgs
      BY <3>2, CommandFacts
    <3>6. \/ /\ ExecCmd(b).out \in {<< "not enough" >>, << "too much" >>}
             /\ Len(w) - 1 \notin MinArgs(c) .. MostArgs(c)
          \/ /\ ExecCmd(b).out = << c, w >> /\ Len(w) \in Nat \ {0}
             /\ Len(w) - 1 <= MostArgs(c) /\ ~TooFew(c, Len(w))
      <4>1. CASE TooFew(c, nb)
        <5>1. nb # 1 /\ nb - 1 < MinArgs(c)
          BY <4>1 DEF TooFew
        <5>2. K < MaxArgs /\ K - 1 < MinArgs(c)
          BY <1>3, <2>1, <3>3, <3>5, <5>1
        <5>3. Len(w) - 1 \notin MinArgs(c) .. MostArgs(c)
          BY <2>1, <2>3, <3>5, <5>2
        <5> QED
          BY <3>4, <4>1, <5>3
      <4>2. CASE ~TooFew(c, nb) /\ nb - 1 > MostArgs(c)
        <5>1. Len(w) - 1 > MostArgs(c)
          BY <1>3, <2>1, <2>3, <3>5, <4>2
        <5>2. Len(w) - 1 \notin MinArgs(c) .. MostArgs(c)
          BY <2>1, <2>3, <3>5, <5>1
        <5> QED
          BY <3>4, <4>2, <5>2
      <4>3. CASE ~TooFew(c, nb) /\ ~(nb - 1 > MostArgs(c))
        <5>1. K < MaxArgs
          BY <1>3, <2>1, <3>5, <4>3
        <5>2. nb = K /\ argv = w /\ ExecCmd(b).out = << c, w >>
          BY <3>3, <3>4, <4>3, <5>1
        <5>3. Len(w) - 1 <= MostArgs(c) /\ ~TooFew(c, Len(w))
          BY <2>1, <2>3, <3>5, <4>3, <5>2
        <5> QED
          BY <2>1, <2>3, <5>2, <5>3
      <4> QED
        BY <4>1, <4>2, <4>3
    <3> QED
      BY <3>2, <3>4, <3>6 DEF Done, w
  <2> QED
    BY <2>6, <2>7
<1> QED
  BY <1>4, <1>5

-----------------------------------------------------------------------------
(* The invariant *)

\* The prompt's line is what is stored, and the last one came to what it says.
Inv ==
    /\ ShownIsStored /\ pos < BufSize - 1
    /\ ran = NotRun \/ Done(ran.out, ran.line)

LEMMA DoneAsTyped ==
    ASSUME ran = NotRun \/ Done(ran.out, ran.line)
    PROVE  RunAsTyped /\ ArgumentsThere
<1> DEFINE w == Words(ran.line)
           out == ran.out[1]
<1>1. CASE ran = NotRun
  <2>1. out = "nothing"
    BY <1>1 DEF NotRun
  <2>2. out \notin DOMAIN Commands
    BY <2>1, CommandFacts
  <2> QED
    BY <2>1, <2>2 DEF RunAsTyped, ArgumentsThere
<1>2. CASE /\ ran.out = << "not found" >>
           /\ w = << >> \/ \A c \in DOMAIN Commands : w[1] # << NameOf(c) >>
  <2>1. out = "not found"
    <3>1. ran.out = << "not found" >>
      BY <1>2
    <3> QED
      BY <3>1, OneElement
  <2>2. out \notin DOMAIN Commands
    BY <2>1, CommandFacts
  <2> QED
    BY <1>2, <2>1, <2>2 DEF RunAsTyped, ArgumentsThere
<1>3. ASSUME NEW c \in DOMAIN Commands, w[1] = << NameOf(c) >>,
             ran.out \in {<< "not enough" >>, << "too much" >>},
             Len(w) - 1 \notin MinArgs(c) .. MostArgs(c)
      PROVE  RunAsTyped /\ ArgumentsThere
  <2>1. out \in {"not enough", "too much"}
    <3>1. ran.out = << "not enough" >> \/ ran.out = << "too much" >>
      BY <1>3
    <3> QED
      BY <3>1, OneElement
  <2>2. out \notin DOMAIN Commands /\ out # "not found"
    BY <2>1, CommandFacts
  <2> QED
    BY <1>3, <2>1, <2>2 DEF RunAsTyped, ArgumentsThere
<1>4. ASSUME NEW c \in DOMAIN Commands, w[1] = << NameOf(c) >>, ran.out = << c, w >>,
             Len(w) \in Nat \ {0}, Len(w) - 1 <= MostArgs(c), ~TooFew(c, Len(w))
      PROVE  RunAsTyped /\ ArgumentsThere
  <2>1. out = c /\ ran.out[2] = w
    BY <1>4
  <2>2. out \notin {"not found", "not enough", "too much"}
    BY <2>1, CommandFacts
  <2>3. ASSUME NEW i \in Reads(c, Len(w)) PROVE i + 1 <= Len(w)
    <3>1. CASE c \in {"help", "ls", "p"}
      BY <1>4, <2>3, <3>1 DEF Reads
    <3>2. CASE c = "memory"
      <4>1. MinArgs(c) = 2
        BY <3>2 DEF MinArgs, Commands
      <4>2. Len(w) # 1 => Len(w) - 1 >= 2
        BY <1>4, <4>1 DEF TooFew
      <4>3. Reads(c, Len(w)) = IF Len(w) = 1 THEN {} ELSE {1, 2}
        BY <3>2 DEF Reads
      <4> QED
        BY <1>4, <2>3, <4>2, <4>3
    <3>3. CASE c \notin {"help", "ls", "p", "memory"}
      BY <2>3, <3>3 DEF Reads
    <3> QED
      BY <3>1, <3>2, <3>3
  <2>4. RunAsTyped
    BY <1>4, <2>1, <2>2 DEF RunAsTyped
  <2>5. ArgumentsThere
    BY <2>1, <2>3 DEF ArgumentsThere
  <2> QED
    BY <2>4, <2>5
<1> QED
  BY <1>1, <1>2, <1>3, <1>4 DEF Done

LEMMA StoredType ==
    ASSUME Inv, NEW key \in Keys \cup {NUL}
    PROVE  /\ [buffer EXCEPT ![pos] = key] \in Buffers
           /\ [buffer EXCEPT ![pos] = key][pos] = key
           /\ \A k \in Cells : k # pos => [buffer EXCEPT ![pos] = key][k] = buffer[k]
<1>1. /\ buffer \in [Cells -> Keys \cup {NUL}] /\ buffer[BufSize - 1] = NUL
      /\ pos \in Cells /\ pos # BufSize - 1 /\ BufSize - 1 \in Cells
  BY ShellAssumption DEF Inv, ShownIsStored, TypeOK, Cells
<1> QED
  BY <1>1 DEF Buffers

LEMMA LineFacts ==
    ASSUME Inv
    PROVE  /\ BufSize \in Nat /\ pos \in Nat /\ pos < BufSize - 1 /\ 0 \in Cells /\ pos \in Cells
           /\ shown \in Seq(Printable) /\ line = shown /\ Len(shown) = pos
           /\ \A k \in 1 .. pos : shown[k] = buffer[k - 1] /\ k - 1 \in Cells /\ k - 1 # pos
           /\ buffer \in [Cells -> Keys \cup {NUL}]
<1>1. /\ BufSize \in Nat /\ pos \in Nat /\ pos < BufSize - 1 /\ 0 \in Cells /\ pos \in Cells
      /\ shown \in Seq(Printable) /\ line = shown
      /\ buffer \in [Cells -> Keys \cup {NUL}]
      /\ shown = [k \in 1 .. pos |-> buffer[k - 1]]
  BY ShellAssumption DEF Inv, ShownIsStored, TypeOK, Cells
<1>2. Len(shown) = pos
  BY <1>1, LenOfFun
<1>3. \A k \in 1 .. pos : k - 1 \in Cells /\ k - 1 # pos
  BY <1>1 DEF Cells
<1> QED
  BY <1>1, <1>2, <1>3

\* What keeps ShownIsStored: every cell before pos as the terminal shows it.
LEMMA ShownAgain ==
    ASSUME BufSize \in Nat, buffer' \in Buffers, pos' \in Nat, pos' < BufSize - 1,
           shown' \in Seq(Printable), line' = shown', Len(shown') = pos',
           \A k \in 1 .. pos' : shown'[k] = buffer'[k - 1],
           ran'.line \in Seq(Printable)
    PROVE  ShownIsStored'
<1>1. shown' = [k \in 1 .. pos' |-> shown'[k]]
  OBVIOUS
<1>2. shown' = [k \in 1 .. pos' |-> buffer'[k - 1]]
  BY <1>1
<1>3. pos' \in Cells
  BY DEF Cells
<1>4. TypeOK'
  BY <1>3 DEF TypeOK, Buffers, Cells
<1> QED
  BY <1>2, <1>4 DEF ShownIsStored

LEMMA NothingShown ==
    ASSUME BufSize \in Nat \ {0, 1}, buffer' \in Buffers, pos' = 0, shown' = << >>, line' = << >>,
           ran'.line \in Seq(Printable)
    PROVE  ShownIsStored' /\ (pos < BufSize - 1)'
<1>1. shown' \in Seq(Printable) /\ Len(shown') = 0 /\ 1 .. pos' = {} /\ pos' < BufSize - 1
  OBVIOUS
<1> QED
  BY <1>1, ShownAgain

LEMMA NotRunLine == NotRun.line \in Seq(Printable)
BY DEF NotRun

LEMMA StepEnter ==
    ASSUME Inv, Enter
    PROVE  Inv'
<1>1. EndedLine \in Buffers /\ EndedLine[pos] = NUL
      /\ \A k \in Cells : k # pos => EndedLine[k] = buffer[k]
  BY StoredType DEF EndedLine
<1>2. pos' = 0 /\ shown' = << >> /\ line' = << >> /\ BufSize \in Nat \ {0, 1}
  BY ShellAssumption DEF Enter
<1>3. CASE pos = 0
  <2>1. buffer' = EndedLine /\ ran' = NotRun
    BY <1>3 DEF Enter
  <2> QED
    BY <1>1, <1>2, <2>1, NotRunLine, NothingShown DEF Inv
<1>4. CASE pos # 0
  <2>1. buffer' = ExecCmd(EndedLine).buf /\ ran' = [line |-> line, out |-> ExecCmd(EndedLine).out]
    BY <1>4 DEF Enter
  <2>2. Holds(EndedLine, line)
    <3>1. /\ line \in Seq(Printable) /\ Len(line) = pos /\ pos \in Cells
          /\ \A k \in 1 .. pos : line[k] = buffer[k - 1] /\ k - 1 \in Cells /\ k - 1 # pos
      BY LineFacts
    <3> HIDE DEF EndedLine
    <3> QED
      BY <1>1, <3>1 DEF Holds
  <2>3. buffer' \in Buffers /\ Done(ran'.out, ran'.line) /\ ran'.line = line
    BY <2>1, <2>2, ExecAsTyped
  <2>4. line \in Seq(Printable)
    BY LineFacts
  <2>5. ShownIsStored' /\ (pos < BufSize - 1)'
    BY <1>2, <2>3, <2>4, NothingShown
  <2> QED
    BY <2>3, <2>5 DEF Inv
<1> QED
  BY <1>3, <1>4

LEMMA StepDelete ==
    ASSUME Inv, Delete
    PROVE  Inv'
<1>1. /\ BufSize \in Nat /\ pos \in Nat /\ pos < BufSize - 1
      /\ shown \in Seq(Printable) /\ line = shown /\ Len(shown) = pos
      /\ \A k \in 1 .. pos : shown[k] = buffer[k - 1] /\ k - 1 \in Cells /\ k - 1 # pos
  BY LineFacts
<1>2. DEL \in Keys
  BY DEF Keys
<1>3. /\ buffer' \in Buffers
      /\ \A k \in Cells : k # pos => buffer'[k] = buffer[k]
  BY <1>2, StoredType DEF Delete, Stored
<1>4. ran' = NotRun /\ ran'.line \in Seq(Printable)
  BY NotRunLine DEF Delete
<1>5. CASE pos = 0
  <2>1. shown = << >> /\ shown' = shown /\ pos' = pos /\ line' = shown'
    BY <1>1, <1>5 DEF Delete, MayErase
  <2>2. \A k \in 1 .. pos' : shown'[k] = buffer'[k - 1]
    BY <1>5, <2>1
  <2>3. ShownIsStored'
    BY <1>1, <1>3, <1>4, <2>1, <2>2, ShownAgain
  <2> QED
    BY <1>1, <1>4, <2>1, <2>3 DEF Inv
<1>6. CASE pos # 0
  <2>1. shown # << >> /\ pos > 0
    BY <1>1, <1>6
  <2>2. shown' = Front(shown) /\ line' = shown' /\ pos' = pos - 1
    BY <1>1, <2>1 DEF Delete, MayErase
  <2>3. Front(shown) = SubSeq(shown, 1, pos - 1)
    BY <1>1 DEF Front
  <2>4. /\ SubSeq(shown, 1, pos - 1) \in Seq(Printable)
        /\ Len(SubSeq(shown, 1, pos - 1)) = pos - 1
        /\ \A k \in 1 .. pos - 1 : SubSeq(shown, 1, pos - 1)[k] = shown[k]
    BY <1>1, <2>1
  <2>5. \A k \in 1 .. pos' : shown'[k] = buffer'[k - 1]
    <3>1. \A k \in 1 .. pos - 1 : k \in 1 .. pos
      BY <1>1
    <3> QED
      BY <1>1, <1>3, <2>2, <2>3, <2>4, <3>1
  <2>6. pos' \in Nat /\ pos' < BufSize - 1
    BY <1>1, <2>1, <2>2
  <2>7. ShownIsStored'
    BY <1>1, <1>3, <1>4, <2>2, <2>3, <2>4, <2>5, <2>6, ShownAgain
  <2> QED
    BY <1>4, <2>6, <2>7 DEF Inv
<1> QED
  BY <1>5, <1>6

LEMMA StepInsert ==
    ASSUME Inv, NEW key \in Printable, Insert(key)
    PROVE  Inv'
<1>1. /\ BufSize \in Nat /\ pos \in Nat /\ pos < BufSize - 1 /\ pos \in Cells
      /\ shown \in Seq(Printable) /\ line = shown /\ Len(shown) = pos
      /\ \A k \in 1 .. pos : shown[k] = buffer[k - 1] /\ k - 1 \in Cells /\ k - 1 # pos
  BY LineFacts
<1>2. key \in Keys
  BY DEF Keys
<1>3. /\ buffer' \in Buffers /\ buffer'[pos] = key
      /\ \A k \in Cells : k # pos => buffer'[k] = buffer[k]
  BY <1>2, StoredType DEF Insert, Stored
<1>4. ran' = NotRun /\ ran'.line \in Seq(Printable)
  BY NotRunLine DEF Insert
<1>5. /\ shown' = Append(shown, key) /\ line' = shown' /\ pos' = pos + 1
      /\ pos' \in Nat /\ pos' < BufSize - 1
  BY <1>1 DEF Insert
<1>6. /\ shown' \in Seq(Printable) /\ Len(shown') = pos'
      /\ \A k \in 1 .. pos : shown'[k] = shown[k]
      /\ shown'[pos + 1] = key
  BY <1>1, <1>5
<1>7. ASSUME NEW k \in 1 .. pos' PROVE shown'[k] = buffer'[k - 1]
  <2>1. k \in 1 .. pos \/ (k = pos + 1 /\ k - 1 = pos)
    BY <1>1, <1>5
  <2> QED
    BY <1>1, <1>3, <1>6, <2>1
<1>8. ShownIsStored'
  BY <1>1, <1>3, <1>4, <1>5, <1>6, <1>7, ShownAgain
<1> QED
  BY <1>4, <1>5, <1>8 DEF Inv

LEMMA StepOther ==
    ASSUME Inv, Abandon \/ Ignore
    PROVE  Inv'
<1>1. ran' = NotRun /\ ran'.line \in Seq(Printable) /\ BufSize \in Nat \ {0, 1}
  BY NotRunLine, ShellAssumption DEF Abandon, Ignore
<1>2. CTRL_C \in Keys /\ UNPRINTABLE \in Keys
  BY DEF Keys
<1>3. CASE Abandon
  <2>1. buffer' \in Buffers /\ pos' = 0 /\ shown' = << >> /\ line' = << >>
    BY <1>2, <1>3, StoredType DEF Abandon, Stored
  <2> QED
    BY <1>1, <2>1, NothingShown DEF Inv
<1>4. CASE Ignore
  <2>1. /\ buffer' \in Buffers /\ pos' = pos /\ shown' = shown /\ line' = line
        /\ \A k \in Cells : k # pos => buffer'[k] = buffer[k]
    BY <1>2, <1>4, StoredType DEF Ignore, Stored
  <2>2. /\ pos \in Nat /\ pos < BufSize - 1 /\ BufSize \in Nat
        /\ shown \in Seq(Printable) /\ line = shown /\ Len(shown) = pos
        /\ \A k \in 1 .. pos : shown[k] = buffer[k - 1] /\ k - 1 \in Cells /\ k - 1 # pos
    BY LineFacts
  <2>3. \A k \in 1 .. pos' : shown'[k] = buffer'[k - 1]
    BY <2>1, <2>2
  <2>4. ShownIsStored'
    BY <1>1, <2>1, <2>2, <2>3, ShownAgain
  <2> QED
    BY <1>1, <2>1, <2>2, <2>4 DEF Inv
<1> QED
  BY <1>3, <1>4

LEMMA InitInv == Init => Inv
<1> SUFFICES ASSUME Init PROVE Inv
  OBVIOUS
<1>1. BufSize \in Nat /\ 0 < BufSize - 1 /\ 0 \in Cells /\ BufSize - 1 \in Cells
  BY ShellAssumption DEF Cells
<1>2. /\ buffer = [i \in Cells |-> NUL] /\ pos = 0 /\ shown = << >> /\ line = << >>
      /\ ran = NotRun
  BY DEF Init
<1>3. TypeOK
  BY <1>1, <1>2, NotRunLine DEF TypeOK
<1>4. shown = [k \in 1 .. pos |-> buffer[k - 1]]
  BY <1>2
<1> QED
  BY <1>1, <1>2, <1>3, <1>4 DEF Inv, ShownIsStored

THEOREM InvAlways == Spec => []Inv
<1>1. Inv /\ [Next]_shellVars => Inv'
  <2> SUFFICES ASSUME Inv, [Next]_shellVars PROVE Inv'
    OBVIOUS
  <2>1. CASE Enter
    BY <2>1, StepEnter
  <2>2. CASE Delete
    BY <2>2, StepDelete
  <2>3. CASE Abandon \/ Ignore
    BY <2>3, StepOther
  <2>4. CASE \E key \in Printable : Insert(key)
    BY <2>4, StepInsert
  <2>5. CASE UNCHANGED shellVars
    BY <2>5 DEF Inv, ShownIsStored, TypeOK, shellVars
  <2> QED
    BY <2>1, <2>2, <2>3, <2>4, <2>5 DEF Next
<1> QED
  BY <1>1, InitInv, PTL DEF Spec

-----------------------------------------------------------------------------
(* The properties *)

\* ShownIsStored: the line on the terminal is the one ENTER would execute
\* (ack_cmd:65-80), and the buffer's last byte stays what ends a string.
THEOREM ShownLineIsStored == Spec => []ShownIsStored
<1>1. Inv => ShownIsStored
  BY DEF Inv
<1> QED
  BY <1>1, InvAlways, PTL

\* RunAsTyped: strtok_c gives exec_cmd the words of the line last edited, whatever
\* an earlier line left in the buffer or in its static pointer (exec_cmd:17-41).
THEOREM LineIsRunAsTyped == Spec => []RunAsTyped
<1>1. Inv => RunAsTyped
  BY DoneAsTyped DEF Inv
<1> QED
  BY <1>1, InvAlways, PTL

\* ArgumentsThere: a command's callback reads no argument beyond the words typed,
\* the name alone included, which min_args lets pass (exec_cmd:32-36).
THEOREM ArgumentsAreThere == Spec => []ArgumentsThere
<1>1. Inv => ArgumentsThere
  BY DoneAsTyped DEF Inv
<1> QED
  BY <1>1, InvAlways, PTL
=============================================================================
