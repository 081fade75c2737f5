-------------------------- MODULE DebugStack_proof --------------------------
(***************************************************************************)
(* Proofs about DebugStack, for every host, program and register context.  *)
(* First type correctness: what the OCD programs are made of, what the     *)
(* operators of the OCD and the CPU return, and the invariant that keeps   *)
(* the CPU inside its microcode.  Then what a stop, an intercepted access  *)
(* and a break leave behind.                                               *)
(***************************************************************************)
EXTENDS DebugStack, SequenceTheorems, Induction_proof

-----------------------------------------------------------------------------
(* The OCD programs *)

Branches == { "BNE", "BEQ" }

Plain == { "START", "RESET", "ATTACH", "DETACH", "EXIT", "NMI", "HOLD", "READY",
           "WAITIO", "WAITADS", "WAITLOCK", "LDI", "LDD", "LDAL", "LDAH", "LDWR",
           "LDCMP", "CMP", "STD", "CLR" }

Instruction == [op : Plain \cup Branches, s : RegIds, d : RegIds, v : Word]

\* An instruction that is followed by the next one in memory.
Straight == [op : Plain, s : RegIds, d : RegIds, v : Word]

\* A piece of straight code, n instructions long.
Piece(s, n) == s \in Seq(Straight) /\ Len(s) = n

LEMMA StraightSubset == Straight \subseteq Instruction
BY DEF Straight, Instruction

\* The four forms an instruction is written in.
LEMMA Forms ==
    /\ \A op \in Plain : Do(op) \in Straight
    /\ \A op \in Plain, r \in RegIds : To(op, r) \in Straight /\ From(op, r) \in Straight
    /\ \A r \in RegIds, w \in Word : Ldi(r, w) \in Straight
<1>1. 0 \in RegIds /\ 0 \in Word /\ "LDI" \in Plain
  BY DEF RegIds, Word, WordSize, Plain
<1>2. ASSUME NEW op \in Plain PROVE Do(op) \in Straight
  BY <1>1 DEF Do, Ins, Straight
<1>3. ASSUME NEW op \in Plain, NEW r \in RegIds
      PROVE  To(op, r) \in Straight /\ From(op, r) \in Straight
  BY <1>1 DEF To, From, Ins, Straight
<1>4. ASSUME NEW r \in RegIds, NEW w \in Word PROVE Ldi(r, w) \in Straight
  BY <1>1 DEF Ldi, Ins, Straight
<1> QED
  BY <1>2, <1>3, <1>4

\* What Serve, Drive and Capture make of words and registers is straight code.
LEMMA ServeType ==
    ASSUME NEW n \in Nat, NEW words \in Seq(Word), Len(words) = n
    PROVE  Piece(Serve(words), 3 * n)
<1>1. ASSUME NEW i \in 1 .. 3 * n PROVE Serve(words)[i] \in Straight
  <2>1. CASE i % 3 = 1
    <3>1. (i + 2) \div 3 \in 1 .. n
      BY <2>1
    <3>2. Serve(words)[i] = Ldi(1, words[(i + 2) \div 3])
      BY <2>1 DEF Serve
    <3> QED
      BY <3>1, <3>2, ElementOfSeq, Forms DEF RegIds
  <2>2. CASE i % 3 # 1
    <3>1. Serve(words)[i] \in { From("STD", 1), Do("WAITADS") }
      BY <2>2 DEF Serve
    <3> QED
      BY <3>1, Forms DEF Plain, RegIds
  <2> QED
    BY <2>1, <2>2
<1> QED
  BY <1>1 DEF Serve, Piece

LEMMA DriveType ==
    ASSUME NEW n \in Nat, NEW rs \in Seq(RegIds), Len(rs) = n
    PROVE  Piece(Drive(rs), 2 * n)
<1>1. ASSUME NEW i \in 1 .. 2 * n PROVE Drive(rs)[i] \in Straight
  <2>1. CASE i % 2 = 1
    <3>1. (i + 1) \div 2 \in 1 .. n
      BY <2>1
    <3>2. Drive(rs)[i] = From("STD", rs[(i + 1) \div 2])
      BY <2>1 DEF Drive
    <3> QED
      BY <3>1, <3>2, ElementOfSeq, Forms DEF Plain
  <2>2. CASE i % 2 # 1
    BY <2>2, Forms DEF Drive, Plain
  <2> QED
    BY <2>1, <2>2
<1> QED
  BY <1>1 DEF Drive, Piece

LEMMA CaptureType ==
    ASSUME NEW n \in Nat, NEW rs \in Seq(RegIds), Len(rs) = n
    PROVE  Piece(Capture(rs), 3 * n)
<1>1. ASSUME NEW i \in 1 .. 3 * n PROVE Capture(rs)[i] \in Straight
  <2>1. CASE i % 3 = 1
    <3>1. (i + 2) \div 3 \in 1 .. n
      BY <2>1
    <3>2. Capture(rs)[i] = To("LDD", rs[(i + 2) \div 3])
      BY <2>1 DEF Capture
    <3> QED
      BY <3>1, <3>2, ElementOfSeq, Forms DEF Plain
  <2>2. CASE i % 3 # 1
    <3>1. Capture(rs)[i] \in { Do("READY"), Do("WAITADS") }
      BY <2>2 DEF Capture
    <3> QED
      BY <3>1, Forms DEF Plain
  <2> QED
    BY <2>1, <2>2
<1> QED
  BY <1>1 DEF Capture, Piece

\* The assembler changes nothing but opcodes, and straight code not at all.
LEMMA SynthType ==
    ASSUME NEW s \in Seq(Instruction)
    PROVE  /\ Synth(s) \in Seq(Instruction) /\ Len(Synth(s)) = Len(s)
           /\ \A i \in 1 .. Len(s) :
                 Synth(s)[i] = [s[i] EXCEPT !.op = SynthOp(s[i].op)]
<1>1. DOMAIN s = 1 .. Len(s) /\ Len(s) \in Nat
  OBVIOUS
<1>2. ASSUME NEW i \in 1 .. Len(s)
      PROVE  [s[i] EXCEPT !.op = SynthOp(s[i].op)] \in Instruction
  <2>1. s[i] \in Instruction
    BY ElementOfSeq
  <2> QED
    BY <2>1 DEF Instruction, SynthOp, Branches
<1>3. Synth(s) = [i \in 1 .. Len(s) |-> [s[i] EXCEPT !.op = SynthOp(s[i].op)]]
  BY <1>1 DEF Synth
<1> QED
  BY <1>1, <1>2, <1>3

LEMMA SynthStraight == ASSUME NEW s \in Seq(Straight) PROVE Synth(s) = s
<1>1. s \in Seq(Instruction)
  BY StraightSubset, SeqMonotonic
<1>2. ASSUME NEW i \in 1 .. Len(s) PROVE Synth(s)[i] = s[i]
  <2>1. s[i] \in Straight
    BY ElementOfSeq
  <2>2. [s[i] EXCEPT !.op = SynthOp(s[i].op)] = s[i]
    BY <2>1 DEF Straight, SynthOp, Plain
  <2> QED
    BY <1>1, <2>2, SynthType
<1> QED
  BY <1>1, <1>2, SynthType, SeqEqual

\* A sequence of instructions the firmware can load: it ends in EXIT, and its
\* branches stay inside.
Loadable(s, n) ==
    /\ s \in Seq(Instruction) /\ Len(s) = n
    /\ s[n].op = "EXIT"
    /\ \A i \in 1 .. n : s[i].op \in Branches => s[i].v \in 1 .. n

\* Pieces put one after the other.
LEMMA Joined ==
    ASSUME NEW m \in Nat, NEW n \in Nat, NEW s, NEW t, Piece(s, m), Piece(t, n)
    PROVE  Piece(s \o t, m + n)
<1>1. s \o t \in Seq(Straight) /\ Len(s \o t) = Len(s) + Len(t)
  BY ConcatProperties DEF Piece
<1> QED
  BY <1>1 DEF Piece

\* A program of straight code that ends in EXIT is loaded as it is written.
LEMMA LoadableStraight ==
    ASSUME NEW n \in Nat, n >= 1, NEW s, Piece(s, n), s[n].op = "EXIT"
    PROVE  Loadable(s, n) /\ Synth(s) = s
<1>1. ASSUME NEW i \in 1 .. n PROVE s[i].op \notin Branches
  <2>1. s[i] \in Straight
    BY ElementOfSeq DEF Piece
  <2> QED
    BY <2>1 DEF Straight, Plain, Branches
<1>2. s \in Seq(Instruction)
  BY StraightSubset, SeqMonotonic DEF Piece
<1>3. Synth(s) = s
  BY SynthStraight DEF Piece
<1> QED
  BY <1>1, <1>2, <1>3 DEF Loadable, Piece

\* The common tail.
LEMMA ReleaseType == Piece(ReleaseUntilIo, 5) /\ ReleaseUntilIo[5].op = "EXIT"
<1>1. ReleaseUntilIo[5].op = "EXIT"
  BY DEF ReleaseUntilIo, Do, Ins
<1>2. /\ {Do("DETACH"), Do("WAITIO"), Do("EXIT")} \subseteq Straight
      /\ {To("LDAL", 1), To("LDWR", 2)} \subseteq Straight
  BY Forms DEF Plain, RegIds
<1> QED
  BY <1>1, <1>2 DEF ReleaseUntilIo, Piece

LEMMA ReleaseLast ==
    ASSUME NEW n \in Nat, NEW s, Piece(s, n)
    PROVE  /\ Loadable(s \o ReleaseUntilIo, n + 5)
           /\ Synth(s \o ReleaseUntilIo) = s \o ReleaseUntilIo
<1> DEFINE r == s \o ReleaseUntilIo
<1>1. Piece(r, n + 5)
  BY ReleaseType, Joined
<1>2. r[n + 5].op = "EXIT"
  <2>1. \A i \in 1 .. Len(s) + Len(ReleaseUntilIo) :
           r[i] = IF i <= Len(s) THEN s[i] ELSE ReleaseUntilIo[i - Len(s)]
    BY ReleaseType, ConcatProperties DEF Piece
  <2>2. Len(s) = n /\ Len(ReleaseUntilIo) = 5
    BY ReleaseType DEF Piece
  <2>3. n + 5 \in 1 .. n + 5 /\ ~(n + 5 <= n) /\ (n + 5) - n = 5
    OBVIOUS
  <2>4. r[n + 5] = ReleaseUntilIo[5]
    BY <2>1, <2>2, <2>3
  <2> QED
    BY <2>4, ReleaseType
<1> HIDE DEF r
<1>3. n + 5 \in Nat /\ n + 5 >= 1
  OBVIOUS
<1>4. Loadable(r, n + 5) /\ Synth(r) = r
  BY <1>1, <1>2, <1>3, LoadableStraight
<1> QED
  BY <1>4 DEF r

LEMMA Single == ASSUME NEW i \in Straight PROVE Piece(<< i >>, 1)
BY DEF Piece

LEMMA StartType == Loadable(Synth(PrgmStart), 6)
<1>1. Piece(<< Do("START") >>, 1)
  BY Forms, Single DEF Plain
<1>2. Loadable(Synth(PrgmStart), 1 + 5)
  BY <1>1, ReleaseLast DEF PrgmStart
<1> QED
  BY <1>2

LEMMA WriteIoType == Loadable(Synth(PrgmWriteIo), 6)
<1>1. Piece(<< From("STD", 3) >>, 1)
  BY Forms, Single DEF Plain, RegIds
<1>2. Loadable(Synth(PrgmWriteIo), 1 + 5)
  BY <1>1, ReleaseLast DEF PrgmWriteIo
<1> QED
  BY <1>2

\* Straight code that does not exit.
Quiet(s, n) == Piece(s, n) /\ \A i \in 1 .. n : s[i].op # "EXIT"

LEMMA QuietJoined ==
    ASSUME NEW m \in Nat, NEW n \in Nat, NEW s, NEW t, Quiet(s, m), Quiet(t, n)
    PROVE  Quiet(s \o t, m + n)
<1>1. Piece(s \o t, m + n)
  BY Joined DEF Quiet
<1>2. \A i \in 1 .. m + n : (s \o t)[i] = IF i <= m THEN s[i] ELSE t[i - m]
  <2>1. s \in Seq(Straight) /\ t \in Seq(Straight) /\ Len(s) = m /\ Len(t) = n
    BY DEF Quiet, Piece
  <2> QED
    BY <2>1, ConcatProperties
<1>3. ASSUME NEW i \in 1 .. m + n PROVE (s \o t)[i].op # "EXIT"
  <2>1. CASE i <= m
    <3>1. i \in 1 .. m
      BY <2>1
    <3> QED
      BY <1>2, <2>1, <3>1 DEF Quiet
  <2>2. CASE ~(i <= m)
    <3>1. i - m \in 1 .. n
      BY <2>2
    <3> QED
      BY <1>2, <2>2, <3>1 DEF Quiet
  <2> QED
    BY <2>1, <2>2
<1> QED
  BY <1>1, <1>3 DEF Quiet

LEMMA DriveQuiet ==
    ASSUME NEW n \in Nat, NEW rs \in Seq(RegIds), Len(rs) = n
    PROVE  Quiet(Drive(rs), 2 * n)
<1>1. \A i \in 1 .. 2 * n : Drive(rs)[i].op # "EXIT"
  BY DEF Drive, From, Do, Ins
<1> QED
  BY <1>1, DriveType DEF Quiet

\* cont ends like start and write_io, after 22 instructions that do not exit.
LEMMA ContBody == \E e : Quiet(e, 22) /\ PrgmCont = e \o ReleaseUntilIo
<1> DEFINE a == << Ldi(1, IretNop), Ldi(7, NopNop), Do("WAITADS") >>
           b == Drive(<< 1, 7, 7, 7 >>)
           c == Drive(IretFrame)
           d == << From("STD", 3) >>
<1>1. Quiet(a, 3)
  <2>1. IretNop \in Word /\ NopNop \in Word
    BY DEF Word, WordSize, IretNop, NopNop
  <2>2. /\ Ldi(1, IretNop) \in Straight /\ Ldi(7, NopNop) \in Straight
        /\ Do("WAITADS") \in Straight
    BY <2>1, Forms DEF Plain, RegIds
  <2>3. \A i \in 1 .. 3 : a[i].op # "EXIT"
    BY DEF Ldi, Do, Ins
  <2> QED
    BY <2>2, <2>3 DEF Piece, Quiet
<1>2. Quiet(b, 8)
  <2>1. << 1, 7, 7, 7 >> \in Seq(RegIds) /\ Len(<< 1, 7, 7, 7 >>) = 4
    BY DEF RegIds
  <2>2. Quiet(b, 2 * 4)
    BY <2>1, DriveQuiet
  <2> QED
    BY <2>2
<1>3. Quiet(c, 10)
  <2>1. IretFrame \in Seq(RegIds) /\ Len(IretFrame) = 5
    BY DEF RegIds, IretFrame
  <2>2. Quiet(c, 2 * 5)
    BY <2>1, DriveQuiet
  <2> QED
    BY <2>2
<1>4. Quiet(d, 1)
  <2>1. Piece(d, 1)
    BY Forms, Single DEF Plain, RegIds
  <2> QED
    BY <2>1 DEF Quiet, From, Ins
<1> HIDE DEF a, b, c, d
<1> DEFINE e == a \o b \o c \o d
<1>5. PrgmCont = e \o ReleaseUntilIo
  BY DEF PrgmCont, a, b, c, d
<1>6. Quiet(e, 22)
  BY <1>1, <1>2, <1>3, <1>4, QuietJoined
<1> QED
  BY <1>5, <1>6

LEMMA ContType == Loadable(Synth(PrgmCont), 27) /\ Synth(PrgmCont) = PrgmCont
<1>1. PICK e : Piece(e, 22) /\ PrgmCont = e \o ReleaseUntilIo
  BY ContBody DEF Quiet
<1>2. Loadable(Synth(PrgmCont), 22 + 5) /\ Synth(PrgmCont) = PrgmCont
  BY <1>1, ReleaseLast
<1> QED
  BY <1>2

\* The programs without a tail.
LEMMA ShortTypes ==
    /\ Loadable(<< Do("EXIT") >>, 1)
    /\ Loadable(Synth(PrgmReset), 3)
    /\ Loadable(Synth(PrgmReadIo), 2)
<1>1. /\ Do("EXIT") \in Straight /\ Do("RESET") \in Straight
      /\ Do("ATTACH") \in Straight /\ To("LDD", 3) \in Straight
  BY Forms DEF Plain, RegIds
<1>2. Do("EXIT").op = "EXIT"
  BY DEF Do, Ins
<1>3. Piece(<< Do("EXIT") >>, 1) /\ << Do("EXIT") >>[1].op = "EXIT"
  BY <1>1, <1>2 DEF Piece
<1>4. Piece(PrgmReset, 3) /\ PrgmReset[3].op = "EXIT"
  BY <1>1, <1>2 DEF Piece, PrgmReset
<1>5. Piece(PrgmReadIo, 2) /\ PrgmReadIo[2].op = "EXIT"
  BY <1>1, <1>2 DEF Piece, PrgmReadIo
<1> QED
  BY <1>3, <1>4, <1>5, LoadableStraight

LEMMA GetRegsType ==
    Loadable(Synth(PrgmGetRegs), 62) /\ Synth(PrgmGetRegs) = PrgmGetRegs
<1> DEFINE a == << Ldi(1, PushaNop), Ldi(2, NopNop), Do("WAITADS") >>
           b == Drive(<< 1, 2, 2, 2, 2 >>)
           c == Capture([i \in 1 .. 15 |-> i - 1])
           d == << To("LDD", 15), Do("READY"), Do("HOLD"), Do("EXIT") >>
<1>1. Piece(a, 3)
  <2>1. PushaNop \in Word /\ NopNop \in Word
    BY DEF Word, WordSize, PushaNop, NopNop
  <2>2. /\ Ldi(1, PushaNop) \in Straight /\ Ldi(2, NopNop) \in Straight
        /\ Do("WAITADS") \in Straight
    BY <2>1, Forms DEF Plain, RegIds
  <2> QED
    BY <2>2 DEF Piece
<1>2. Piece(b, 10)
  <2>1. << 1, 2, 2, 2, 2 >> \in Seq(RegIds) /\ Len(<< 1, 2, 2, 2, 2 >>) = 5
    BY DEF RegIds
  <2>2. Piece(b, 2 * 5)
    BY <2>1, DriveType
  <2> QED
    BY <2>2
<1>3. Piece(c, 45)
  <2> DEFINE rs == [i \in 1 .. 15 |-> i - 1]
  <2>1. rs \in Seq(RegIds) /\ Len(rs) = 15
    BY DEF RegIds
  <2> HIDE DEF rs
  <2>2. Piece(Capture(rs), 3 * 15)
    BY <2>1, CaptureType
  <2> QED
    BY <2>2 DEF rs
<1>4. Piece(d, 4)
  <2>1. /\ To("LDD", 15) \in Straight /\ Do("READY") \in Straight
        /\ Do("HOLD") \in Straight /\ Do("EXIT") \in Straight
    BY Forms DEF Plain, RegIds
  <2> QED
    BY <2>1 DEF Piece
<1> HIDE DEF a, b, c, d
<1> DEFINE e == a \o b \o c
<1>5. PrgmGetRegs = e \o d
  BY DEF PrgmGetRegs, a, b, c, d
<1>6. Piece(e, 58)
  BY <1>1, <1>2, <1>3, Joined
<1> HIDE DEF e
<1>7. Piece(PrgmGetRegs, 62)
  BY <1>4, <1>5, <1>6, Joined
<1>8. PrgmGetRegs[62].op = "EXIT"
  BY DEF PrgmGetRegs, Drive, Capture, Do, To, From, Ldi, Ins
<1> QED
  BY <1>7, <1>8, LoadableStraight

LEMMA SetRegType ==
    Loadable(Synth(PrgmSetReg), 13) /\ Synth(PrgmSetReg) = PrgmSetReg
<1> DEFINE a == << Ldi(4, NopNop), Do("WAITADS") >>
           b == Drive(<< 1, 2, 3, 4 >>)
           d == << From("STD", 4), Do("HOLD"), Do("EXIT") >>
<1>1. Piece(a, 2)
  <2>1. NopNop \in Word
    BY DEF Word, WordSize, NopNop
  <2>2. Ldi(4, NopNop) \in Straight /\ Do("WAITADS") \in Straight
    BY <2>1, Forms DEF Plain, RegIds
  <2> QED
    BY <2>2 DEF Piece
<1>2. Piece(b, 8)
  <2>1. << 1, 2, 3, 4 >> \in Seq(RegIds) /\ Len(<< 1, 2, 3, 4 >>) = 4
    BY DEF RegIds
  <2>2. Piece(b, 2 * 4)
    BY <2>1, DriveType
  <2> QED
    BY <2>2
<1>3. Piece(d, 3)
  <2>1. /\ From("STD", 4) \in Straight /\ Do("HOLD") \in Straight
        /\ Do("EXIT") \in Straight
    BY Forms DEF Plain, RegIds
  <2> QED
    BY <2>1 DEF Piece
<1> HIDE DEF a, b, d
<1> DEFINE e == a \o b
<1>4. PrgmSetReg = e \o d
  BY DEF PrgmSetReg, a, b, d
<1>5. Piece(e, 10)
  BY <1>1, <1>2, Joined
<1> HIDE DEF e
<1>6. Piece(PrgmSetReg, 13)
  BY <1>3, <1>4, <1>5, Joined
<1>7. PrgmSetReg[13].op = "EXIT"
  BY DEF PrgmSetReg, Drive, Do, From, Ldi, Ins
<1> QED
  BY <1>6, <1>7, LoadableStraight

\* The break program is the one that branches, and stays inside when it does.
Inner == { i \in Instruction : i.op \in Branches => i.v \in 1 .. 64 }

Inside(s, n) == s \in Seq(Inner) /\ Len(s) = n

LEMMA StraightInside ==
    ASSUME NEW s, NEW n, Piece(s, n) PROVE Inside(s, n)
<1>1. Straight \subseteq Inner
  BY DEF Straight, Inner, Instruction, Plain, Branches
<1> QED
  BY <1>1, SeqMonotonic DEF Piece, Inside

LEMMA InsideJoined ==
    ASSUME NEW m \in Nat, NEW n \in Nat, NEW s, NEW t, Inside(s, m), Inside(t, n)
    PROVE  Inside(s \o t, m + n)
<1>1. s \o t \in Seq(Inner) /\ Len(s \o t) = Len(s) + Len(t)
  BY ConcatProperties DEF Inside
<1> QED
  BY <1>1 DEF Inside

LEMMA BreakType ==
    /\ Loadable(Synth(PrgmBreak), 64)
    /\ \A i \in 1 .. 64 :
          /\ PrgmBreak[i] \in Instruction
          /\ Synth(PrgmBreak)[i] = [PrgmBreak[i] EXCEPT !.op = SynthOp(PrgmBreak[i].op)]
<1> DEFINE a == BreakEntry
           b == << To("LDAL", 2), To("LDAH", 3), From("LDCMP", 2),
                   Ldi(1, 8), From("CMP", 1), Jump("BNE", BreakProtectedMode),
                   From("LDCMP", 3), Jump("BEQ", BreakRealMode) >>
           c == Serve(FakeIdtEntry)
           d == Serve(FakeGdtEntry)
           e == << Do("READY"), Do("WAITADS") >>
           f == Serve(<< NopNop >>)
           g == Capture(<< 2, 3, 4, 5 >>)
           h == << To("LDD", 6), Do("READY"), Ldi(1, 1), Do("HOLD"), Do("EXIT") >>
           k == << Ldi(1, 0), From("STD", 1), Do("WAITADS"),
                   Ldi(1, 53248), From("STD", 1), To("CLR", 1),
                   Do("HOLD"), Do("EXIT") >>
<1>1. Inside(a, 2)
  <2>1. Do("NMI") \in Straight /\ Do("WAITLOCK") \in Straight
    BY Forms DEF Plain
  <2>2. Piece(a, 2)
    BY <2>1 DEF BreakEntry, Piece
  <2> QED
    BY <2>2, StraightInside
<1>2. Inside(b, 8)
  <2>1. /\ To("LDAL", 2) \in Straight /\ To("LDAH", 3) \in Straight
        /\ From("LDCMP", 2) \in Straight /\ From("CMP", 1) \in Straight
        /\ From("LDCMP", 3) \in Straight
    BY Forms DEF Plain, RegIds
  <2>2. Ldi(1, 8) \in Straight
    <3>1. 1 \in RegIds /\ 8 \in Word
      BY DEF RegIds, Word, WordSize
    <3> QED
      BY <3>1, Forms
  <2>3. Straight \subseteq Inner
    BY DEF Straight, Inner, Instruction, Plain, Branches
  <2>4. Jump("BNE", BreakProtectedMode) \in Inner /\ Jump("BEQ", BreakRealMode) \in Inner
    BY DEF Jump, Ins, BreakProtectedMode, BreakRealMode, Inner, Instruction,
           Branches, RegIds, Word, WordSize
  <2> QED
    BY <2>1, <2>2, <2>3, <2>4 DEF Inside
<1>3. Inside(c, 12)
  <2>1. FakeIdtEntry \in Seq(Word) /\ Len(FakeIdtEntry) = 4
    BY DEF FakeIdtEntry, Word, WordSize
  <2>2. Piece(c, 3 * 4)
    BY <2>1, ServeType
  <2> QED
    BY <2>2, StraightInside
<1>4. Inside(d, 12)
  <2>1. FakeGdtEntry \in Seq(Word) /\ Len(FakeGdtEntry) = 4
    BY DEF FakeGdtEntry, Word, WordSize
  <2>2. Piece(d, 3 * 4)
    BY <2>1, ServeType
  <2> QED
    BY <2>2, StraightInside
<1>5. Inside(e, 2)
  <2>1. Do("READY") \in Straight /\ Do("WAITADS") \in Straight
    BY Forms DEF Plain
  <2>2. Piece(e, 2)
    BY <2>1 DEF Piece
  <2> QED
    BY <2>2, StraightInside
<1>6. Inside(f, 3)
  <2>1. << NopNop >> \in Seq(Word) /\ Len(<< NopNop >>) = 1
    BY DEF NopNop, Word, WordSize
  <2>2. Piece(f, 3 * 1)
    BY <2>1, ServeType
  <2> QED
    BY <2>2, StraightInside
<1>7. Inside(g, 12)
  <2>1. << 2, 3, 4, 5 >> \in Seq(RegIds) /\ Len(<< 2, 3, 4, 5 >>) = 4
    BY DEF RegIds
  <2>2. Piece(g, 3 * 4)
    BY <2>1, CaptureType
  <2> QED
    BY <2>2, StraightInside
<1>8. Inside(h, 5)
  <2>1. /\ To("LDD", 6) \in Straight /\ Do("READY") \in Straight
        /\ Do("HOLD") \in Straight /\ Do("EXIT") \in Straight
    BY Forms DEF Plain, RegIds
  <2>2. Ldi(1, 1) \in Straight
    <3>1. 1 \in RegIds /\ 1 \in Word
      BY DEF RegIds, Word, WordSize
    <3> QED
      BY <3>1, Forms
  <2>3. Piece(h, 5)
    BY <2>1, <2>2 DEF Piece
  <2> QED
    BY <2>3, StraightInside
<1>9. Inside(k, 8)
  <2>1. /\ From("STD", 1) \in Straight /\ Do("WAITADS") \in Straight
        /\ To("CLR", 1) \in Straight
        /\ Do("HOLD") \in Straight /\ Do("EXIT") \in Straight
    BY Forms DEF Plain, RegIds
  <2>2. Ldi(1, 0) \in Straight /\ Ldi(1, 53248) \in Straight
    <3>1. 1 \in RegIds /\ 0 \in Word /\ 53248 \in Word
      BY DEF RegIds, Word, WordSize
    <3> QED
      BY <3>1, Forms
  <2>3. Piece(k, 8)
    BY <2>1, <2>2 DEF Piece
  <2> QED
    BY <2>3, StraightInside
<1>10. PrgmBreak = a \o b \o c \o d \o e \o f \o g \o h \o k
  BY DEF PrgmBreak
<1> HIDE DEF a, b, c, d, e, f, g, h, k
<1>11. Inside(a \o b \o c \o d, 34)
  BY <1>1, <1>2, <1>3, <1>4, InsideJoined
<1>12. Inside(a \o b \o c \o d \o e \o f \o g, 51)
  BY <1>5, <1>6, <1>7, <1>11, InsideJoined
<1>13. Inside(PrgmBreak, 64)
  BY <1>8, <1>9, <1>10, <1>12, InsideJoined
<1>14. PrgmBreak \in Seq(Instruction)
  BY <1>13, SeqMonotonic DEF Inside, Inner
<1>15. PrgmBreak[64].op = "EXIT"
  BY DEF PrgmBreak, BreakEntry, Serve, FakeIdtEntry, FakeGdtEntry, Capture,
         Do, To, From, Ldi, Jump, Ins
<1>16. \A i \in 1 .. 64 :
          Synth(PrgmBreak)[i] = [PrgmBreak[i] EXCEPT !.op = SynthOp(PrgmBreak[i].op)]
  BY <1>13, <1>14, SynthType DEF Inside
<1>17. ASSUME NEW i \in 1 .. 64, Synth(PrgmBreak)[i].op \in Branches
       PROVE  Synth(PrgmBreak)[i].v \in 1 .. 64
  <2>1. PrgmBreak[i] \in Inner
    BY <1>13, ElementOfSeq DEF Inside
  <2>2. Synth(PrgmBreak)[i] = [PrgmBreak[i] EXCEPT !.op = SynthOp(PrgmBreak[i].op)]
    BY <1>16
  <2> QED
    BY <1>17, <2>1, <2>2 DEF Inner, Instruction, SynthOp, Branches
<1>18. Synth(PrgmBreak)[64].op = "EXIT"
  <2>1. PrgmBreak[64] \in Inner
    BY <1>13, ElementOfSeq DEF Inside
  <2> QED
    BY <1>15, <1>16, <2>1 DEF Inner, Instruction, SynthOp
<1>19. Synth(PrgmBreak) \in Seq(Instruction) /\ Len(Synth(PrgmBreak)) = 64
  BY <1>13, <1>14, SynthType DEF Inside
<1>20. \A i \in 1 .. 64 : PrgmBreak[i] \in Instruction
  BY <1>13, <1>14, ElementOfSeq DEF Inside
<1> QED
  BY <1>16, <1>17, <1>18, <1>19, <1>20 DEF Loadable

\* Whatever program the memory holds, it can be loaded.
LEMMA CodeType ==
    ASSUME NEW p \in ProgramNames
    PROVE  \E n \in 1 .. 64 : Loadable(Code[p], n)
<1>1. CASE p \in { "blank", "reset", "read_io" }
  BY <1>1, ShortTypes DEF Code
<1>2. CASE p \in { "start", "write_io" }
  BY <1>2, StartType, WriteIoType DEF Code
<1>3. CASE p \in { "cont", "break" }
  BY <1>3, ContType, BreakType DEF Code
<1>4. CASE p \in { "get_regs", "set_reg" }
  BY <1>4, GetRegsType, SetRegType DEF Code
<1> QED
  BY <1>1, <1>2, <1>3, <1>4 DEF ProgramNames

-----------------------------------------------------------------------------
(* Words.  The provers count through a range whose bounds are numbers, so
   WordSize stays a name. *)

\* The weight of a bit, and what bit n - 1 of an or contributes to it.
Weight(n) == 2^n
OrBit(x, y, n) ==
    Weight(n - 1) * (IF Bit(x, n - 1) + Bit(y, n - 1) > 0 THEN 1 ELSE 0)

LEMMA OrSum ==
    ASSUME NEW x \in Word, NEW y \in Word
    PROVE  \E up : /\ WordOr(x, y) = up[16] /\ up[0] = 0
                   /\ \A n \in 1 .. 16 : up[n] = up[n - 1] + OrBit(x, y, n)
<1> DEFINE F(f) == [n \in 0 .. 16 |-> IF n = 0 THEN 0 ELSE f[n - 1] + OrBit(x, y, n)]
           G == [a \in (1 .. 16) \X Int |-> a[2] + OrBit(x, y, a[1])]
           up == CHOOSE f : f = F(f)
<1>1. WordOr(x, y) = up[16]
  BY DEF WordOr, OrBit, Weight
<1>2. ASSUME NEW n \in 1 .. 16 PROVE OrBit(x, y, n) \in Int
  <2>1. Weight(n - 1) \in Int
    BY DEF Weight
  <2> QED BY <2>1 DEF OrBit
<1>3. IsStep(G, 16, Int)
  BY <1>2 DEF IsStep
<1>31. \A n \in 1 .. 16, v \in Int : G[<< n, v >>] = v + OrBit(x, y, n)
  OBVIOUS
<1> HIDE DEF G, F
<1>4. PICK h : Iterates(h, 16, Int, 0, G)
  <2>1. 16 \in Nat /\ 0 \in Int
    OBVIOUS
  <2> QED
    BY <1>3, <2>1, IterationExists, Zenon
<1>5. h = F(h)
  <2>1. ASSUME NEW n \in 1 .. 16 PROVE h[n] = h[n - 1] + OrBit(x, y, n)
    <3>1. h[n - 1] \in Int
      BY <1>4 DEF Iterates
    <3> QED
      BY <1>31, <1>4, <3>1 DEF Iterates
  <2> QED
    BY <1>4, <2>1 DEF F, Iterates
<1>6. up = F(up)
  BY <1>5
<1>7. up[0] = 0 /\ \A n \in 1 .. 16 : up[n] = up[n - 1] + OrBit(x, y, n)
  <2> DEFINE r == F(up)
  <2>1. r[0] = 0 /\ \A n \in 1 .. 16 : r[n] = up[n - 1] + OrBit(x, y, n)
    BY DEF F
  <2>2. up = r
    BY <1>6, Zenon
  <2> HIDE DEF r, up
  <2> QED
    BY <2>1, <2>2
<1> HIDE DEF up
<1> QED
  BY <1>1, <1>7

BitWeights == { 1, 2, 4, 8, 16, 32, 64, 128, 256, 512, 1024, 2048, 4096, 8192,
                16384, 32768 }

\* Word is 0 .. WordSize - 1; its size stays a name where proofs count on it.
LEMMA WordBounds ==
    /\ WordSize \in Nat /\ WordSize >= 65536 /\ WordSize <= 65536
    /\ WordSize = 2 * Weight(15)
BY DEF WordSize, Weight

\* The weights of the bits of a word.
LEMMA Powers ==
    ASSUME NEW n \in 0 .. 15
    PROVE  /\ Weight(n) \in BitWeights
           /\ n < 15 => Weight(n + 1) = 2 * Weight(n)
           /\ n = 0 => Weight(n) = 1
           /\ n = 15 => Weight(n) = 32768
<1> USE DEF Weight
<1>1. CASE n \in 0 .. 3
  <2>1. CASE n = 0
    BY <2>1 DEF BitWeights
  <2>2. CASE n = 1
    BY <2>2 DEF BitWeights
  <2>3. CASE n = 2
    BY <2>3 DEF BitWeights
  <2>4. CASE n = 3
    BY <2>4 DEF BitWeights
  <2> QED
    BY <1>1, <2>1, <2>2, <2>3, <2>4
<1>2. CASE n \in 4 .. 7
  <2>1. CASE n = 4
    BY <2>1 DEF BitWeights
  <2>2. CASE n = 5
    BY <2>2 DEF BitWeights
  <2>3. CASE n = 6
    BY <2>3 DEF BitWeights
  <2>4. CASE n = 7
    BY <2>4 DEF BitWeights
  <2> QED
    BY <1>2, <2>1, <2>2, <2>3, <2>4
<1>3. CASE n \in 8 .. 11
  <2>1. CASE n = 8
    BY <2>1 DEF BitWeights
  <2>2. CASE n = 9
    BY <2>2 DEF BitWeights
  <2>3. CASE n = 10
    BY <2>3 DEF BitWeights
  <2>4. CASE n = 11
    BY <2>4 DEF BitWeights
  <2> QED
    BY <1>3, <2>1, <2>2, <2>3, <2>4
<1>4. CASE n \in 12 .. 15
  <2>1. CASE n = 12
    BY <2>1 DEF BitWeights
  <2>2. CASE n = 13
    BY <2>2 DEF BitWeights
  <2>3. CASE n = 14
    BY <2>3 DEF BitWeights
  <2>4. CASE n = 15
    BY <2>4 DEF BitWeights
  <2> QED
    BY <1>4, <2>1, <2>2, <2>3, <2>4
<1> QED
  BY <1>1, <1>2, <1>3, <1>4

\* A step of binary expansion.
LEMMA BinaryStep ==
    ASSUME NEW x \in Nat, NEW p \in BitWeights
    PROVE  x % (2 * p) = (x % p) + p * ((x \div p) % 2) /\ (x \div p) % 2 \in {0, 1}
<1>1. CASE p \in { 1, 2, 4, 8 }
  <2>1. CASE p = 1
    BY <2>1
  <2>2. CASE p = 2
    BY <2>2
  <2>3. CASE p = 4
    BY <2>3
  <2>4. CASE p = 8
    BY <2>4
  <2> QED
    BY <1>1, <2>1, <2>2, <2>3, <2>4
<1>2. CASE p \in { 16, 32, 64, 128 }
  <2>1. CASE p = 16
    BY <2>1
  <2>2. CASE p = 32
    BY <2>2
  <2>3. CASE p = 64
    BY <2>3
  <2>4. CASE p = 128
    BY <2>4
  <2> QED
    BY <1>2, <2>1, <2>2, <2>3, <2>4
<1>3. CASE p \in { 256, 512, 1024, 2048 }
  <2>1. CASE p = 256
    BY <2>1
  <2>2. CASE p = 512
    BY <2>2
  <2>3. CASE p = 1024
    BY <2>3
  <2>4. CASE p = 2048
    BY <2>4
  <2> QED
    BY <1>3, <2>1, <2>2, <2>3, <2>4
<1>4. CASE p \in { 4096, 8192, 16384, 32768 }
  <2>1. CASE p = 4096
    BY <2>1
  <2>2. CASE p = 8192
    BY <2>2
  <2>3. CASE p = 16384
    BY <2>3
  <2>4. CASE p = 32768
    BY <2>4
  <2> QED
    BY <1>4, <2>1, <2>2, <2>3, <2>4
<1> QED
  BY <1>1, <1>2, <1>3, <1>4 DEF BitWeights

\* The or of two words is a word; with 0 it is the other word.
LEMMA OrType == ASSUME NEW x \in Word, NEW y \in Word PROVE WordOr(x, y) \in Word
<1>1. PICK up : /\ WordOr(x, y) = up[16] /\ up[0] = 0
                /\ \A n \in 1 .. 16 : up[n] = up[n - 1] + OrBit(x, y, n)
  BY OrSum
<1>2. ASSUME NEW n \in 0 .. 15
      PROVE  /\ up[n + 1] = up[n] + OrBit(x, y, n + 1)
             /\ OrBit(x, y, n + 1) \in {0, Weight(n)} /\ Weight(n) \in Nat
  <2>1. n + 1 \in 1 .. 16 /\ (n + 1) - 1 = n
    OBVIOUS
  <2>2. Weight(n) \in Nat
    <3>1. Weight(n) \in BitWeights
      BY Powers
    <3> QED
      BY <3>1 DEF BitWeights
  <2>3. OrBit(x, y, n + 1) \in {0, Weight(n)}
    BY <2>1, <2>2 DEF OrBit
  <2>4. up[n + 1] = up[n] + OrBit(x, y, n + 1)
    BY <1>1, <2>1
  <2> QED
    BY <2>2, <2>3, <2>4
<1> DEFINE T == { n \in 0 .. 15 : up[n] \in Nat /\ up[n] < Weight(n) }
<1>3. 0 \in T
  BY <1>1 DEF Weight
<1>4. ASSUME NEW n \in 0 .. 15 - 1, n \in T PROVE n + 1 \in T
  <2>1. n \in 0 .. 15 /\ n < 15 /\ n + 1 \in 0 .. 15
    OBVIOUS
  <2>2. Weight(n + 1) = 2 * Weight(n)
    BY <2>1, Powers
  <2> QED
    BY <1>2, <1>4, <2>1, <2>2
<1>5. 15 \in T
  <2>1. 15 \in Nat
    OBVIOUS
  <2> HIDE DEF T
  <2>2. 0 .. 15 \subseteq T
    BY <1>3, <1>4, <2>1, SetInduction, Zenon
  <2> QED
    BY <2>2
<1>6. up[15] \in Nat /\ up[15] < Weight(15)
  BY <1>5
<1> HIDE DEF T
<1>7. up[16] \in Word
  <2>1. 15 \in 0 .. 15 /\ 15 + 1 = 16
    OBVIOUS
  <2>2. up[16] = up[15] + OrBit(x, y, 16) /\ OrBit(x, y, 16) \in {0, Weight(15)}
        /\ Weight(15) \in Nat
    BY <1>2, <2>1
  <2>3. up[16] \in Nat /\ up[16] < 2 * Weight(15)
    BY <1>6, <2>2
  <2> QED
    BY <2>3, WordBounds DEF Word
<1> QED
  BY <1>1, <1>7

LEMMA OrZero == ASSUME NEW x \in Word PROVE WordOr(x, 0) = x
<1>0. x \in Nat
  BY WordBounds DEF Word
<1>1. 0 \in Word
  BY WordBounds DEF Word
<1>2. PICK up : /\ WordOr(x, 0) = up[16] /\ up[0] = 0
                /\ \A n \in 1 .. 16 : up[n] = up[n - 1] + OrBit(x, 0, n)
  BY <1>1, OrSum
<1>3. ASSUME NEW n \in 0 .. 15
      PROVE  /\ Weight(n) \in Nat \ {0}
             /\ up[n + 1] = up[n] + Weight(n) * Bit(x, n)
             /\ x % (2 * Weight(n)) = (x % Weight(n)) + Weight(n) * Bit(x, n)
  <2>1. n + 1 \in 1 .. 16 /\ (n + 1) - 1 = n
    OBVIOUS
  <2>2. Weight(n) \in BitWeights
    BY Powers
  <2>3. /\ x % (2 * Weight(n)) = (x % Weight(n)) + Weight(n) * Bit(x, n)
        /\ Bit(x, n) \in {0, 1}
    BY <1>0, <2>2, BinaryStep DEF Bit, Weight
  <2>4. Bit(0, n) = 0
    BY <2>2 DEF Bit, Weight, BitWeights
  <2>5. Weight(n) \in Nat \ {0}
    BY <2>2 DEF BitWeights
  <2>6. OrBit(x, 0, n + 1) = Weight(n) * Bit(x, n)
    BY <2>1, <2>3, <2>4, <2>5 DEF OrBit
  <2>7. up[n + 1] = up[n] + OrBit(x, 0, n + 1)
    BY <1>2, <2>1
  <2> QED
    BY <2>3, <2>5, <2>6, <2>7
<1> DEFINE T == { n \in 0 .. 15 : up[n] = x % Weight(n) }
<1>4. 0 \in T
  <2>1. Weight(0) = 1 /\ x % 1 = 0
    BY <1>0 DEF Weight
  <2> QED
    BY <1>2, <2>1
<1>5. ASSUME NEW n \in 0 .. 15 - 1, n \in T PROVE n + 1 \in T
  <2>1. n \in 0 .. 15 /\ n < 15 /\ n + 1 \in 0 .. 15
    OBVIOUS
  <2>2. Weight(n + 1) = 2 * Weight(n)
    BY <2>1, Powers
  <2>3. up[n + 1] = x % (2 * Weight(n))
    BY <1>3, <1>5, <2>1
  <2> QED
    BY <2>1, <2>2, <2>3
<1>6. 15 \in T
  <2>1. 15 \in Nat
    OBVIOUS
  <2> HIDE DEF T
  <2>2. 0 .. 15 \subseteq T
    BY <1>4, <1>5, <2>1, SetInduction, Zenon
  <2> QED
    BY <2>2
<1>7. up[16] = x % WordSize
  <2>1. 15 \in 0 .. 15 /\ 15 + 1 = 16
    OBVIOUS
  <2>2. up[15] = x % Weight(15)
    BY <1>6
  <2>3. up[15 + 1] = x % (2 * Weight(15))
    BY <1>3, <2>1, <2>2
  <2> QED
    BY <2>1, <2>3, WordBounds
<1> HIDE DEF T
<1>8. x \in Nat /\ x < WordSize
  BY WordBounds DEF Word
<1>9. x % WordSize = x
  BY <1>8, WordBounds
<1> QED
  BY <1>2, <1>7, <1>9

LEMMA SmallWords ==
    /\ \A n \in Nat : n < 65536 => n \in Word
    /\ \A w \in Word : w \in Nat /\ w < 65536
    /\ AsWord(TRUE) \in Word /\ AsWord(FALSE) \in Word
BY WordBounds DEF Word, AsWord

LEMMA ModWord == ASSUME NEW n \in Int PROVE n % WordSize \in Word
<1>1. n % WordSize \in Nat /\ n % WordSize < WordSize
  BY DEF WordSize
<1> QED
  BY <1>1, WordBounds DEF Word

\* 24 bits of address, as far as the CPU uses them.
Address == { a \in Nat : a < 16 * WordSize }

LEMMA AddressWords ==
    ASSUME NEW a \in Address
    PROVE  a % WordSize \in Word /\ a \div WordSize \in Word
<1>1. a \in Nat /\ a < 16 * WordSize
  BY DEF Address
<1>2. a \div WordSize \in Nat /\ a \div WordSize < 65536
  BY <1>1 DEF WordSize
<1> QED
  BY <1>1, <1>2, ModWord, SmallWords

LEMMA AddDwordType ==
    ASSUME NEW d \in Dword, NEW n \in Int PROVE AddDword(d, n) \in Dword
<1>1. Low(d) \in Int /\ High(d) \in Int
  BY SmallWords DEF Dword, Low, High
<1>2. (Low(d) + n) \div WordSize \in Int
  BY <1>1 DEF WordSize
<1>3. (Low(d) + n) % WordSize \in Word
  BY <1>1, ModWord
<1>4. (High(d) + (Low(d) + n) \div WordSize) % WordSize \in Word
  BY <1>1, <1>2, ModWord
<1> QED
  BY <1>3, <1>4 DEF AddDword, Dword

-----------------------------------------------------------------------------
(* Bus cycles and microcode *)

CycleRecord == [mio : BOOLEAN, wr : BOOLEAN, lock : BOOLEAN, a : Address, din : Word]

\* An I/O address has 16 bits.
CycleType == { c \in CycleRecord : ~c.mio => c.a \in Word }

Cycles(s, n) == s \in Seq(CycleType) /\ Len(s) = n

LEMMA CyclesJoined ==
    ASSUME NEW m \in Nat, NEW n \in Nat, NEW s, NEW t, Cycles(s, m), Cycles(t, n)
    PROVE  Cycles(s \o t, m + n)
<1>1. s \o t \in Seq(CycleType) /\ Len(s \o t) = Len(s) + Len(t)
  BY ConcatProperties DEF Cycles
<1> QED
  BY <1>1 DEF Cycles

LockedRead(a) == Read(TRUE, a)
PlainRead(a)  == Read(FALSE, a)
PortIn(p)     == Cycle(FALSE, FALSE, FALSE, p, 0)
PortOut(p, w) == Cycle(FALSE, TRUE, FALSE, p, w)

LEMMA CycleForms ==
    /\ \A a \in Address : LockedRead(a) \in CycleType /\ PlainRead(a) \in CycleType
    /\ \A w \in Word : Push(w) \in CycleType
    /\ \A p \in Word, w \in Word : PortIn(p) \in CycleType /\ PortOut(p, w) \in CycleType
<1>1. 0 \in Word /\ 0 \in Address /\ Word \subseteq Address
  BY WordBounds DEF Word, Address
<1>2. \A a \in Address : LockedRead(a) \in CycleType /\ PlainRead(a) \in CycleType
  BY <1>1 DEF LockedRead, PlainRead, Read, Cycle, CycleType, CycleRecord
<1>3. \A w \in Word : Push(w) \in CycleType
  BY <1>1 DEF Push, Cycle, CycleType, CycleRecord
<1>4. \A p \in Word, w \in Word : PortIn(p) \in CycleType /\ PortOut(p, w) \in CycleType
  BY <1>1 DEF PortIn, PortOut, Cycle, CycleType, CycleRecord
<1> QED
  BY <1>2, <1>3, <1>4

LEMMA ProgramCyclesType == ProgramCycles \subseteq CycleType
<1> SUFFICES ASSUME NEW c \in ProgramCycles PROVE c \in CycleType
  OBVIOUS
<1> DEFINE reads == { Read(lock, 0) : lock \in {FALSE, LockedOps} }
           ins   == { PortIn(p) : p \in Ports }
           outs  == { PortOut(p, w) : p \in Ports, w \in IoWords }
<1>1. c \in reads \cup ins \cup outs
  BY SMT DEF ProgramCycles, PortIn, PortOut, Cycle, Read
<1>2. c \in reads => c \in CycleType
  <2>1. c \in reads => c = PlainRead(0) \/ c = LockedRead(0)
    BY CpuAssumption, Zenon DEF PlainRead, LockedRead
  <2>2. 0 \in Address
    BY WordBounds DEF Address
  <2> QED
    BY <2>1, <2>2, CycleForms
<1>3. c \in ins => c \in CycleType
  <2>1. c \in ins => \E p \in Ports : c = PortIn(p)
    OBVIOUS
  <2>2. 0 \in Word
    BY SmallWords
  <2> QED
    BY <2>1, <2>2, CpuAssumption, CycleForms, Zenon
<1>4. c \in outs => c \in CycleType
  <2>1. c \in outs => \E p \in Ports, w \in IoWords : c = PortOut(p, w)
    OBVIOUS
  <2> HIDE DEF outs
  <2> QED
    BY <2>1, CpuAssumption, CycleForms, Zenon
<1> HIDE DEF reads, ins, outs
<1> QED
  BY <1>1, <1>2, <1>3, <1>4

\* A function from 1 .. n to cycles is a sequence of them.
LEMMA CyclesListed ==
    ASSUME NEW n \in Nat, NEW f \in [1 .. n -> CycleType]
    PROVE  Cycles(f, n)
<1>1. f \in Seq(CycleType)
  BY SeqDef
<1>2. Len(f) = n
  BY <1>1, LenProperties
<1> QED
  BY <1>1, <1>2 DEF Cycles

LEMMA NmiProtectedType ==
    ASSUME NEW c \in ContextType
    PROVE  /\ Cycles(NmiProtected(c), 15)
           /\ \A i \in 11 .. 15 : NmiProtected(c)[i].wr
<1> DEFINE gate(i) == 65536 + 2 * i
           desc(i) == 65600 + 2 * i
           code == 851968
           p == [i \in 1 .. 4 |-> LockedRead(gate(i))]
           q == [i \in 1 .. 4 |-> PlainRead(desc(i))]
           r == << Push(0), PlainRead(code) >>
           s == << Push(Low(c.eflags)), Push(High(c.eflags)), Push(c.cs),
                   Push(Low(c.eip)), Push(High(c.eip)) >>
<1>1. /\ \A i \in 1 .. 4 : gate(i) \in Address /\ desc(i) \in Address
      /\ code \in Address /\ 0 \in Word
  BY WordBounds, SMT DEF Address, Word
<1>4. NmiProtected(c) = p \o q \o r \o s
  BY SMT DEF NmiProtected, LockedRead, PlainRead
<1>5. \A i \in 11 .. 15 : NmiProtected(c)[i].wr
  <2>1. /\ NmiProtected(c)[11] = s[1] /\ NmiProtected(c)[12] = s[2]
        /\ NmiProtected(c)[13] = s[3] /\ NmiProtected(c)[14] = s[4]
        /\ NmiProtected(c)[15] = s[5]
    BY DEF NmiProtected
  <2>2. \A i \in 1 .. 5 : s[i].wr
    BY DEF Push, Cycle
  <2> QED
    BY <2>1, <2>2
<1> HIDE DEF gate, desc, code
<1>6. Cycles(p, 4) /\ Cycles(q, 4)
  <2>1. p \in [1 .. 4 -> CycleType] /\ q \in [1 .. 4 -> CycleType]
    BY <1>1, CycleForms
  <2> HIDE DEF p, q
  <2> QED
    BY <2>1, CyclesListed
<1>2. Cycles(r, 2)
  BY <1>1, CycleForms DEF Cycles
<1>3. Cycles(s, 5)
  <2>1. /\ Low(c.eflags) \in Word /\ High(c.eflags) \in Word /\ c.cs \in Word
        /\ Low(c.eip) \in Word /\ High(c.eip) \in Word
    BY DEF ContextType, Dword, Low, High
  <2> QED
    BY <2>1, CycleForms DEF Cycles
<1> HIDE DEF p, q, r, s
<1>7. Cycles(p \o q \o r \o s, 15)
  <2>1. Cycles(p \o q \o r, 10)
    BY <1>2, <1>6, CyclesJoined
  <2> QED
    BY <1>3, <2>1, CyclesJoined
<1> QED
  BY <1>4, <1>5, <1>7

LEMMA NmiRealType ==
    ASSUME NEW c \in ContextType PROVE Cycles(NmiReal(c), 5)
<1>1. /\ Low(c.eflags) \in Word /\ c.cs \in Word /\ Low(c.eip) \in Word
  BY DEF ContextType, Dword, Low
<1>2. LockedRead(8) \in CycleType /\ LockedRead(10) \in CycleType
  <2>1. 8 \in Address /\ 10 \in Address
    BY WordBounds, SMT DEF Address
  <2> QED
    BY <2>1, CycleForms
<1>3. /\ Push(Low(c.eflags)) \in CycleType /\ Push(c.cs) \in CycleType
      /\ Push(Low(c.eip)) \in CycleType
  BY <1>1, CycleForms
<1>4. NmiReal(c) = << LockedRead(8), LockedRead(10), Push(Low(c.eflags)), Push(c.cs),
                      Push(Low(c.eip)) >>
  BY DEF NmiReal, LockedRead
<1> QED
  BY <1>2, <1>3, <1>4 DEF Cycles

\* How many cycles a level's microcode has.
Count(level, mode) ==
    CASE level = "nmi" /\ mode = "prot" -> 15
      [] level = "nmi" /\ mode = "real" -> 5
      [] level = "iret"  -> 6
      [] level = "pusha" -> 16

Fixed == { "nmi", "iret", "pusha" }

LEMMA MicrocodeType ==
    ASSUME NEW level \in Fixed, NEW mode \in {"real", "prot"}, NEW c \in ContextType
    PROVE  /\ Cycles(Microcode(level, mode, c), Count(level, mode))
           /\ Count(level, mode) \in 5 .. 16
           /\ \A k \in 0 .. Count(level, mode) - 1 :
                 LET m == Microcode(level, mode, c)[k + 1]
                 IN  /\ level = "nmi" /\ k >= 10 => m.wr
                     /\ level = "iret" => ~m.wr
                     /\ level = "pusha" => m.wr
<1>1. CASE level = "nmi" /\ mode = "prot"
  <2>1. Microcode(level, mode, c) = NmiProtected(c) /\ Count(level, mode) = 15
    BY <1>1 DEF Microcode, Count
  <2>2. ASSUME NEW k \in 0 .. 14, k >= 10 PROVE NmiProtected(c)[k + 1].wr
    <3>1. k + 1 \in 11 .. 15
      BY <2>2
    <3> QED
      BY <3>1, NmiProtectedType
  <2> QED
    BY <1>1, <2>1, <2>2, NmiProtectedType
<1>2. CASE level = "nmi" /\ mode = "real"
  <2>1. Microcode(level, mode, c) = NmiReal(c) /\ Count(level, mode) = 5
    BY <1>2 DEF Microcode, Count
  <2> QED
    BY <1>2, <2>1, NmiRealType
<1>3. CASE level = "iret"
  <2>1. /\ Microcode(level, mode, c) = [i \in 1 .. 6 |-> Read(FALSE, 0)]
        /\ Count(level, mode) = 6
    BY <1>3 DEF Microcode, Count
  <2> DEFINE f == [i \in 1 .. 6 |-> PlainRead(0)]
  <2>2. 0 \in Address
    BY WordBounds DEF Address
  <2>3. PlainRead(0) \in CycleType /\ ~PlainRead(0).wr
    BY <2>2, CycleForms DEF PlainRead, Read, Cycle
  <2>4. f \in [1 .. 6 -> CycleType] /\ \A k \in 0 .. 5 : ~f[k + 1].wr
    BY <2>3
  <2>6. Microcode(level, mode, c) = f
    BY <2>1 DEF PlainRead
  <2> HIDE DEF f
  <2>5. Cycles(f, 6)
    BY <2>4, CyclesListed
  <2> QED
    BY <1>3, <2>1, <2>4, <2>5, <2>6
<1>4. CASE level = "pusha"
  <2> DEFINE w(i) == c.gp[(i - 1) \div 2][1 + ((i - 1) % 2)]
  <2>1. /\ Microcode(level, mode, c) = [i \in 1 .. 16 |-> Push(w(i))]
        /\ Count(level, mode) = 16
    BY <1>4 DEF Microcode, Count
  <2>2. ASSUME NEW i \in 1 .. 16 PROVE Push(w(i)) \in CycleType /\ Push(w(i)).wr
    <3>1. (i - 1) \div 2 \in 0 .. 7 /\ 1 + ((i - 1) % 2) \in {1, 2}
      OBVIOUS
    <3>2. c.gp[(i - 1) \div 2] \in Word \X Word
      BY <3>1 DEF ContextType, Dword
    <3>3. w(i) \in Word
      BY <3>1, <3>2
    <3> HIDE DEF w
    <3> QED
      BY <3>3, CycleForms DEF Push, Cycle
  <2> HIDE DEF w
  <2> DEFINE f == [i \in 1 .. 16 |-> Push(w(i))]
  <2>3. f \in [1 .. 16 -> CycleType] /\ \A k \in 0 .. 15 : f[k + 1].wr
    BY <2>2
  <2> HIDE DEF f
  <2>4. Cycles(f, 16)
    BY <2>3, CyclesListed
  <2> QED
    BY <1>4, <2>1, <2>3, <2>4 DEF f
<1> QED
  BY <1>1, <1>2, <1>3, <1>4 DEF Fixed

-----------------------------------------------------------------------------
(* The invariant *)

Phases == { "reset", "idle", "T1", "T2", "held" }
Levels == { "prog", "nmi", "handler", "iret", "pusha", "shutdown" }
Modes  == { "real", "prot" }

CpuType == [ phase : Phases, mode : Modes, level : Levels, cur : CycleType,
             k : 0 .. 15, got : Seq(Word), fetched : Seq(Word), nmi : BOOLEAN,
             ctx : ContextType ]

\* Where the CPU is in its microcode, and how many words that has read: a cycle
\* of the sequence at each place of it, and no write taken for a read.
InSequence ==
    /\ cpu.level \in Fixed =>
          /\ cpu.k < Count(cpu.level, cpu.mode)
          /\ InCycle => cpu.cur = Microcode(cpu.level, cpu.mode, cpu.ctx)[cpu.k + 1]
    /\ cpu.level = "nmi" => Len(cpu.got) <= 10 /\ (cpu.k < 10 => Len(cpu.got) <= cpu.k)
    /\ cpu.level = "iret" => Len(cpu.got) = cpu.k
    /\ cpu.level \notin {"nmi", "iret"} => cpu.got = << >>
    /\ cpu.level = "shutdown" => ~InCycle

\* The words the handler holds are the beginning of an instruction it knows.
Injected(f) == f = << >> \/ Partial(f)

InHandler ==
    /\ cpu.level # "handler" => cpu.fetched = << >>
    /\ Injected(cpu.fetched)

CpuInv == cpu \in CpuType /\ InSequence /\ InHandler /\ saved \in Contexts

IoType == [stage : {"none", "pending", "reported", "granted"}, word : Word]

SvType ==
    /\ loc \in Locations /\ status \in Statuses
    /\ ioaddr \in Word /\ iodata \in Word
    /\ sregs \in ContextType
    /\ led \in 0 .. 255
    /\ io \in IoType

TypeInv == OcdTypeOK /\ CpuInv /\ SvType

-----------------------------------------------------------------------------
(* The OCD's steps *)

\* What an instruction loads is a word.
LEMMA SourceType ==
    ASSUME NEW i \in Instruction, cpu \in CpuType, regs \in [RegIds -> Word]
    PROVE  Source(i, Pins) \in Word
<1>1. cpu.cur.a \in Address /\ cpu.cur.din \in Word
  BY DEF CpuType, CycleType, CycleRecord
<1>2. Pins.a = cpu.cur.a /\ Pins.din = cpu.cur.din
  BY DEF Pins
<1>3. \A b : AsWord(b) \in Word
  BY SmallWords DEF AsWord
<1>4. WordOr(Pins.a % WordSize, Pins.a \div WordSize) \in Word
  BY <1>1, <1>2, AddressWords, OrType
<1>5. i.v \in Word /\ regs[i.s] \in Word /\ 0 \in Word
  BY SmallWords DEF Instruction
<1> QED
  BY <1>1, <1>2, <1>3, <1>4, <1>5 DEF Source

\* The instruction at hand, and where it is.
LEMMA CurrentType ==
    ASSUME OcdTypeOK
    PROVE  /\ Current \in Instruction
           /\ Current.op = "EXIT" \/ pc + 1 \in 1 .. Len(Code[prog])
           /\ Current.op \in Branches => Current.v \in 1 .. Len(Code[prog])
<1>1. PICK n \in 1 .. 64 : Loadable(Code[prog], n)
  BY CodeType DEF OcdTypeOK
<1>2. /\ Code[prog] \in Seq(Instruction) /\ Len(Code[prog]) = n
      /\ Code[prog][n].op = "EXIT"
      /\ \A i \in 1 .. n : Code[prog][i].op \in Branches => Code[prog][i].v \in 1 .. n
  BY <1>1 DEF Loadable
<1>3. pc \in 1 .. n
  BY <1>2 DEF OcdTypeOK
<1>4. Current \in Instruction
  BY <1>2, <1>3, ElementOfSeq DEF Current
<1> QED
  BY <1>2, <1>3, <1>4 DEF Current

LEMMA OcdStepType ==
    ASSUME OcdTypeOK, cpu \in CpuType, OcdWait(Pins) \/ OcdRetire(Pins)
    PROVE  OcdTypeOK'
<1> DEFINE i == Current
<1>1. /\ i \in Instruction
      /\ i.op = "EXIT" \/ pc + 1 \in 1 .. Len(Code[prog])
      /\ i.op \in Branches => i.v \in 1 .. Len(Code[prog])
  BY CurrentType
<1>2. Source(i, Pins) \in Word
  BY <1>1, SourceType DEF OcdTypeOK
<1>3. \A b : AsWord(b) \in Word
  BY SmallWords DEF AsWord
<1> HIDE DEF i
<1>4. DoExec(i, Pins)
  BY DEF OcdWait, OcdRetire, i
<1>5. /\ stop' \in BOOLEAN /\ reset' \in BOOLEAN /\ intr' \in BOOLEAN /\ hold' \in BOOLEAN
      /\ dout' \in Word /\ cmpr' \in Word
  BY <1>2, <1>3, <1>4 DEF DoExec, OcdTypeOK
<1>6. ready' \in BOOLEAN /\ nmi' \in BOOLEAN /\ en' \in BOOLEAN /\ waiting' \in BOOLEAN
  BY DEF OcdWait, OcdRetire, DoStore, OcdTypeOK, ExecEn, ExecReady, ExecNmi
<1>7. prog' = prog /\ pc' \in 1 .. Len(Code[prog]) /\ regs' \in [RegIds -> Word]
  <2>1. CASE OcdWait(Pins)
    BY <2>1 DEF OcdWait, OcdTypeOK
  <2>2. CASE OcdRetire(Pins)
    <3>1. i.op # "EXIT" /\ DoStore(i, Pins) /\ prog' = prog
      BY <2>2 DEF OcdRetire, ExecWait, i
    <3>2. pc' \in 1 .. Len(Code[prog])
      BY <1>1, <3>1 DEF DoStore, NextPc, BranchTaken, Branches, Instruction, Plain
    <3>3. regs' \in [RegIds -> Word]
      BY <1>1, <1>2, <3>1 DEF DoStore, OcdTypeOK, Instruction
    <3> QED
      BY <3>1, <3>2, <3>3
  <2> QED
    BY <2>1, <2>2
<1> QED
  BY <1>5, <1>6, <1>7 DEF OcdTypeOK

-----------------------------------------------------------------------------
(* The CPU's steps *)

LEMMA ResetType ==
    ASSUME NEW phase \in {"idle", "reset"}
    PROVE  ResetCpu(phase) \in CpuType /\ ResetCpu(phase).ctx \in Contexts
<1>1. (CHOOSE c \in Contexts : TRUE) \in Contexts
  BY CpuAssumption
<1>2. (CHOOSE c \in Contexts : TRUE) \in ContextType
  BY <1>1, CpuAssumption
<1>3. 0 \in Address
  BY WordBounds DEF Address
<1>4. PlainRead(0) \in CycleType
  BY <1>3, CycleForms
<1>5. << >> \in Seq(Word)
  OBVIOUS
<1> DEFINE x == CHOOSE c \in Contexts : TRUE
<1>7. x \in Contexts /\ x \in ContextType
  BY <1>1, <1>2
<1> HIDE DEF x
<1>6. ResetCpu(phase) = [phase |-> phase, mode |-> "real", level |-> "prog",
                         cur |-> PlainRead(0), k |-> 0, got |-> << >>,
                         fetched |-> << >>, nmi |-> FALSE, ctx |-> x]
  BY DEF ResetCpu, x, PlainRead
<1> QED
  BY <1>4, <1>5, <1>6, <1>7 DEF CpuType, Phases, Modes, Levels

\* Another stack pointer.
LEMMA EspType ==
    ASSUME NEW c \in ContextType, NEW d \in Dword
    PROVE  [c EXCEPT !.gp[ESP] = d] \in ContextType
BY DEF ContextType, ESP

LEMMA CpuControlType ==
    ASSUME CpuInv, CpuControl
    PROVE  CpuInv'
<1>1. CASE \E phase \in Phases \ {"T1", "T2"} : cpu' = [cpu EXCEPT !.phase = phase]
  <2>1. saved' = saved
    BY DEF CpuControl
  <2> QED
    BY <1>1, <2>1 DEF CpuInv, CpuType, InSequence, InHandler, InCycle, Phases
<1>2. CASE CpuEnterProtected
  <2>1. saved' = saved
    BY DEF CpuControl
  <2> QED
    BY <1>2, <2>1 DEF CpuEnterProtected, CpuInv, CpuType, InSequence, InHandler,
                      InCycle, Phases, Modes, Fixed
<1> QED
  BY <1>1, <1>2 DEF CpuControl, CpuRelease, CpuHold, CpuUnhold, Phases

LEMMA CpuNmiType ==
    ASSUME CpuInv, CpuNmi
    PROVE  CpuInv'
<1>1. PICK c \in Contexts :
         /\ cpu' = [cpu EXCEPT !.level = "nmi", !.nmi = FALSE, !.ctx = c,
                               !.k = 0, !.got = << >>]
         /\ saved' = c
  BY DEF CpuNmi, CpuTakeNmi
<1>2. cpu.phase = "idle" /\ cpu.level = "prog"
  BY DEF CpuNmi, CpuTakeNmi
<1>3. c \in ContextType /\ << >> \in Seq(Word) /\ Len(<< >>) = 0
  BY CpuAssumption
<1>9. cpu' = [phase |-> cpu.phase, mode |-> cpu.mode, level |-> "nmi", cur |-> cpu.cur,
              k |-> 0, got |-> << >>, fetched |-> cpu.fetched, nmi |-> FALSE, ctx |-> c]
  BY <1>1 DEF CpuInv, CpuType
<1>4. cpu' \in CpuType
  BY <1>3, <1>9 DEF CpuInv, CpuType, Levels
<1>5. /\ cpu'.level = "nmi" /\ cpu'.k = 0 /\ cpu'.got = << >> /\ cpu'.phase = "idle"
      /\ cpu'.mode = cpu.mode /\ cpu'.fetched = cpu.fetched
  BY <1>1, <1>2 DEF CpuInv, CpuType
<1>6. Count("nmi", cpu.mode) \in {5, 15}
  BY DEF CpuInv, CpuType, Modes, Count
<1>7. InSequence'
  BY <1>3, <1>5, <1>6 DEF InSequence, InCycle
<1>8. InHandler'
  BY <1>2, <1>5 DEF CpuInv, InHandler
<1> QED
  BY <1>1, <1>4, <1>7, <1>8 DEF CpuInv

\* The handler's prefetch.
Prefetch == PlainRead(851968)

LEMMA PrefetchType == Prefetch \in CycleType
<1> DEFINE a == 851968
<1>1. a \in Address
  BY WordBounds, SMT DEF Address
<1> HIDE DEF a
<1>2. PlainRead(a) \in CycleType
  BY <1>1, CycleForms
<1> QED
  BY <1>2, SMT DEF a, Prefetch

LEMMA StartForms ==
    CpuStart =>
        \/ cpu.level = "prog" /\ \E c \in ProgramCycles : StartCycle(c)
        \/ cpu.level = "handler" /\ StartCycle(Prefetch)
        \/ /\ cpu.level \in {"nmi", "iret", "pusha"}
           /\ StartCycle(Microcode(cpu.level, cpu.mode, cpu.ctx)[cpu.k + 1])
BY SMT DEF CpuStart, Prefetch, PlainRead, Read, Cycle

\* A cycle that starts is the one its level asks for.
LEMMA CpuStartType ==
    ASSUME CpuInv, CpuStart, saved' = saved
    PROVE  CpuInv'
<1>1. PICK c \in CycleType :
         /\ StartCycle(c)
         /\ cpu.level \in Fixed =>
               c = Microcode(cpu.level, cpu.mode, cpu.ctx)[cpu.k + 1]
         /\ cpu.level # "shutdown"
  <2>1. CASE cpu.level = "prog"
    BY <2>1, StartForms, ProgramCyclesType DEF Fixed
  <2>2. CASE cpu.level = "handler"
    BY <2>2, StartForms, PrefetchType DEF Fixed
  <2>3. CASE cpu.level \in Fixed
    <3> DEFINE s == Microcode(cpu.level, cpu.mode, cpu.ctx)
               n == Count(cpu.level, cpu.mode)
    <3>1. StartCycle(s[cpu.k + 1])
      BY <2>3, StartForms DEF Fixed
    <3>2. cpu.mode \in {"real", "prot"} /\ cpu.ctx \in ContextType /\ cpu.k \in 0 .. 15
      BY DEF CpuInv, CpuType, Modes
    <3>3. s \in Seq(CycleType) /\ Len(s) = n /\ n \in 5 .. 16
      BY <2>3, <3>2, MicrocodeType DEF Cycles
    <3>4. cpu.k < n
      BY <2>3 DEF CpuInv, InSequence
    <3> HIDE DEF s, n
    <3>5. s[cpu.k + 1] \in CycleType
      BY <3>2, <3>3, <3>4, ElementOfSeq
    <3> QED
      BY <2>3, <3>1, <3>5 DEF s, Fixed
  <2> QED
    BY <2>1, <2>2, <2>3, StartForms DEF Fixed
<1>2. cpu' = [cpu EXCEPT !.phase = "T1", !.cur = c]
  BY <1>1 DEF StartCycle
<1>3. cpu' \in CpuType
  BY <1>1, <1>2 DEF CpuInv, CpuType, Phases
<1>4. /\ cpu'.level = cpu.level /\ cpu'.mode = cpu.mode /\ cpu'.ctx = cpu.ctx
      /\ cpu'.k = cpu.k /\ cpu'.got = cpu.got /\ cpu'.fetched = cpu.fetched
      /\ cpu'.cur = c
  BY <1>2 DEF CpuInv, CpuType
<1>5. InSequence'
  BY <1>1, <1>4 DEF CpuInv, InSequence
<1>6. InHandler'
  BY <1>4 DEF CpuInv, InHandler
<1> QED
  BY <1>3, <1>5, <1>6 DEF CpuInv

\* READY# moves on from T1 to T2 in the same cycle.
LEMMA CpuT2Type ==
    ASSUME CpuInv, CpuT2, saved' = saved
    PROVE  CpuInv'
<1>1. cpu' = [cpu EXCEPT !.phase = "T2"] /\ cpu.phase = "T1"
  BY DEF CpuT2
<1> QED
  BY <1>1 DEF CpuInv, CpuType, InSequence, InHandler, InCycle, Phases

\* The handler has one more word.
LEMMA HandlerType ==
    ASSUME NEW c \in CpuType, c.level = "handler", c.phase = "idle", c.got = << >>,
           Injected(c.fetched), NEW w \in Word
    PROVE  LET d == HandlerFetched(c, Append(c.fetched, w))
           IN  /\ d \in CpuType /\ d.phase = "idle"
               /\ \/ d.level = "handler" /\ Injected(d.fetched)
                  \/ d.level \in {"iret", "pusha"} /\ d.k = 0 /\ d.fetched = << >>
               /\ d.got = << >>
<1> DEFINE f == Append(c.fetched, w)
           d == HandlerFetched(c, f)
<1>1. f \in Seq(Word) /\ Len(f) = Len(c.fetched) + 1 /\ Len(c.fetched) \in Nat
      /\ \A i \in 1 .. Len(c.fetched) : f[i] = c.fetched[i]
  BY DEF CpuType
<1>2. c.fetched # << >> => f[1] = c.fetched[1]
  <2>1. c.fetched # << >> => Len(c.fetched) >= 1
    BY DEF CpuType
  <2> QED
    BY <1>1, <2>1
<1>3. << >> \in Seq(Word)
  OBVIOUS
<1>4. /\ c.fetched = << >> => Len(f) = 1
      /\ f[1] = IretNop => Len(f) <= 4
      /\ f[1] = PushaNop => Len(f) <= 5
      /\ f[1] = NopMovEsp => Len(f) <= 3
  BY <1>1, <1>2 DEF Injected, Partial, IretNop, PushaNop, NopMovEsp
<1> HIDE DEF f
<1>5. IretNop # PushaNop /\ IretNop # NopMovEsp /\ PushaNop # NopMovEsp
  BY DEF IretNop, PushaNop, NopMovEsp
<1>6. CASE f[1] = IretNop /\ Len(f) = 4
  <2>1. d = [c EXCEPT !.level = "iret", !.k = 0, !.got = << >>, !.fetched = << >>]
    BY <1>5, <1>6 DEF HandlerFetched, Partial
  <2>2. d = [phase |-> "idle", mode |-> c.mode, level |-> "iret", cur |-> c.cur,
             k |-> 0, got |-> << >>, fetched |-> << >>, nmi |-> c.nmi, ctx |-> c.ctx]
    BY <2>1 DEF CpuType
  <2> QED
    BY <1>3, <2>2 DEF f, CpuType, Levels
<1>7. CASE f[1] = PushaNop /\ Len(f) = 5
  <2>1. d = [c EXCEPT !.level = "pusha", !.k = 0, !.fetched = << >>]
    BY <1>5, <1>7 DEF HandlerFetched, Partial
  <2>2. d = [phase |-> "idle", mode |-> c.mode, level |-> "pusha", cur |-> c.cur,
             k |-> 0, got |-> << >>, fetched |-> << >>, nmi |-> c.nmi, ctx |-> c.ctx]
    BY <2>1 DEF CpuType
  <2> QED
    BY <1>3, <2>2 DEF f, CpuType, Levels
<1>8. CASE f[1] = NopMovEsp /\ Len(f) = 3
  <2> DEFINE x == << f[2], f[3] >>
             y == [c.ctx EXCEPT !.gp[ESP] = x]
  <2>1. x \in Dword
    <3>1. \A i \in 1 .. 3 : f[i] \in Word
      BY <1>1, <1>8, ElementOfSeq
    <3> QED
      BY <3>1 DEF Dword
  <2>2. d = [c EXCEPT !.ctx.gp[ESP] = x, !.fetched = << >>]
    BY <1>5, <1>8 DEF HandlerFetched, Partial
  <2> HIDE DEF x
  <2>3. y \in ContextType
    BY <2>1, EspType DEF CpuType
  <2>4. d = [phase |-> "idle", mode |-> c.mode, level |-> "handler", cur |-> c.cur,
             k |-> c.k, got |-> << >>, fetched |-> << >>, nmi |-> c.nmi, ctx |-> y]
    BY <2>2 DEF CpuType
  <2> HIDE DEF y
  <2> QED
    BY <1>3, <2>3, <2>4 DEF f, CpuType, Levels, Injected
<1>9. CASE Partial(f)
  <2>1. d = [c EXCEPT !.fetched = f]
    BY <1>5, <1>9 DEF HandlerFetched, Partial
  <2> QED
    BY <1>1, <1>9, <2>1 DEF f, CpuType, Injected
<1>10. CASE ~Partial(f) /\ ~(f[1] = IretNop /\ Len(f) = 4)
              /\ ~(f[1] = PushaNop /\ Len(f) = 5) /\ ~(f[1] = NopMovEsp /\ Len(f) = 3)
  <2>1. d = [c EXCEPT !.fetched = << >>]
    BY <1>10 DEF HandlerFetched
  <2> QED
    BY <1>3, <2>1 DEF f, CpuType, Injected
<1> QED
  BY <1>6, <1>7, <1>8, <1>9, <1>10

\* The stack pointer moves by a constant.
LEMMA EspMoved ==
    ASSUME NEW c \in ContextType, NEW n \in Int
    PROVE  [c EXCEPT !.gp[ESP] = AddDword(@, n)] \in ContextType
<1> DEFINE d == AddDword(c.gp[ESP], n)
<1>1. c.gp[ESP] \in Dword
  BY DEF ContextType, ESP
<1>2. d \in Dword
  BY <1>1, AddDwordType
<1>3. [c EXCEPT !.gp[ESP] = AddDword(@, n)] = [c EXCEPT !.gp[ESP] = d]
  OBVIOUS
<1> HIDE DEF d
<1> QED
  BY <1>2, <1>3, EspType

\* The end of a sequence: for the IRET's, all of its words are in.
LEMMA DoneType ==
    ASSUME NEW c \in CpuType, c.level \in Fixed, c.phase = "idle", c.k = 0,
           c.got = << >>, c.fetched = << >>,
           NEW words \in Seq(Word), c.level = "iret" => Len(words) = 6
    PROVE  LET d == MicrocodeDone(c, words)
           IN  /\ d \in CpuType /\ d.phase = "idle"
               /\ d.level \in {"handler", "shutdown", "prog"}
               /\ d.got = << >> /\ d.fetched = << >>
<1> DEFINE d == MicrocodeDone(c, words)
           Moved(level, ctx) == [phase |-> "idle", mode |-> c.mode, level |-> level,
                                 cur |-> c.cur, k |-> 0, got |-> << >>,
                                 fetched |-> << >>, nmi |-> c.nmi, ctx |-> ctx]
<1>1. c.ctx \in ContextType /\ << >> \in Seq(Word) /\ -12 \in Int /\ -6 \in Int
      /\ -32 \in Int /\ 12 \in Int
  BY DEF CpuType
<1>2. ASSUME NEW level \in {"handler", "shutdown", "prog"}, NEW ctx \in ContextType,
             d = Moved(level, ctx)
      PROVE  /\ d \in CpuType /\ d.phase = "idle"
             /\ d.level \in {"handler", "shutdown", "prog"}
             /\ d.got = << >> /\ d.fetched = << >>
  BY <1>1, <1>2 DEF CpuType, Levels, Phases
<1>3. CASE c.level # "iret" /\ ~(c.level = "nmi" /\ c.mode = "prot" /\ ~GateUsable(words))
  <2>1. PICK n \in {-12, -6, -32} :
           d = [c EXCEPT !.level = "handler", !.ctx.gp[ESP] = AddDword(@, n)]
    BY <1>3 DEF MicrocodeDone, Fixed, CpuType, Modes
  <2> DEFINE x == [c.ctx EXCEPT !.gp[ESP] = AddDword(@, n)]
  <2>2. x \in ContextType
    BY <1>1, EspMoved
  <2>3. d = Moved("handler", x)
    BY <2>1 DEF CpuType
  <2> HIDE DEF x, Moved
  <2> QED
    BY <1>2, <2>2, <2>3
<1>4. CASE c.level = "nmi" /\ c.mode = "prot" /\ ~GateUsable(words)
  <2>1. d = [c EXCEPT !.level = "shutdown"]
    BY <1>4 DEF MicrocodeDone
  <2>2. d = Moved("shutdown", c.ctx)
    BY <2>1 DEF CpuType
  <2> HIDE DEF Moved
  <2> QED
    BY <1>1, <1>2, <2>2
<1>5. CASE c.level = "iret"
  <2> DEFINE y == [c.ctx EXCEPT !.eip = << words[1], words[2] >>,
                                !.cs = words[3],
                                !.eflags = << words[5], words[6] >>]
             x == [y EXCEPT !.gp[ESP] = AddDword(@, 12)]
  <2>1. \A i \in 1 .. 6 : words[i] \in Word
    BY <1>5, ElementOfSeq
  <2>2. << words[1], words[2] >> \in Dword /\ << words[5], words[6] >> \in Dword
        /\ words[3] \in Word
    BY <2>1 DEF Dword
  <2>6. y \in ContextType
    BY <1>1, <2>2 DEF ContextType
  <2>3. d = [c EXCEPT !.level = "prog",
                      !.ctx = [c.ctx EXCEPT !.eip = << words[1], words[2] >>,
                                            !.cs = words[3],
                                            !.eflags = << words[5], words[6] >>,
                                            !.gp[ESP] = AddDword(@, 12)]]
    BY <1>5 DEF MicrocodeDone
  <2>4. [c.ctx EXCEPT !.eip = << words[1], words[2] >>,
                      !.cs = words[3],
                      !.eflags = << words[5], words[6] >>,
                      !.gp[ESP] = AddDword(@, 12)] = x
    BY <1>1 DEF ContextType
  <2>5. d = [c EXCEPT !.level = "prog", !.ctx = x]
    BY <2>3, <2>4, Zenon
  <2> HIDE DEF y
  <2>7. x \in ContextType
    BY <1>1, <2>6, EspMoved
  <2> HIDE DEF x
  <2>8. d = Moved("prog", x)
    BY <2>5 DEF CpuType
  <2> HIDE DEF Moved
  <2> QED
    BY <1>2, <2>7, <2>8
<1> QED
  BY <1>3, <1>4, <1>5

LEMMA SequenceOver ==
    ASSUME NEW c \in CpuType, NEW e, e = [c EXCEPT !.k = 0, !.got = << >>]
    PROVE  /\ e \in CpuType /\ e.k = 0 /\ e.got = << >>
           /\ e.phase = c.phase /\ e.level = c.level /\ e.fetched = c.fetched
<1>1. << >> \in Seq(Word)
  OBVIOUS
<1>2. e = [phase |-> c.phase, mode |-> c.mode, level |-> c.level, cur |-> c.cur,
           k |-> 0, got |-> << >>, fetched |-> c.fetched, nmi |-> c.nmi, ctx |-> c.ctx]
  BY DEF CpuType
<1>3. /\ c.phase \in Phases /\ c.mode \in Modes /\ c.level \in Levels
      /\ c.cur \in CycleType /\ c.fetched \in Seq(Word) /\ c.nmi \in BOOLEAN
      /\ c.ctx \in ContextType
  BY DEF CpuType
<1>4. 0 \in 0 .. 15
  OBVIOUS
<1>5. e \in CpuType
  BY <1>1, <1>2, <1>3, <1>4 DEF CpuType
<1> QED
  BY <1>2, <1>5

\* READY# ends a cycle.
LEMMA CpuFinishType ==
    ASSUME CpuInv, CpuFinish, saved' = saved, dout \in Word
    PROVE  CpuInv'
<1> DEFINE c == [cpu EXCEPT !.phase = "idle"]
           words == IF cpu.cur.wr THEN cpu.got ELSE Append(cpu.got, WordSeen)
<1>1. WordSeen \in Word /\ cpu.phase = "T2"
  BY SmallWords DEF WordSeen, CpuFinish
<1>2. c \in CpuType /\ c.phase = "idle"
  BY DEF CpuInv, CpuType, Phases
<1>6. /\ c.level = cpu.level /\ c.mode = cpu.mode /\ c.k = cpu.k /\ c.got = cpu.got
      /\ c.fetched = cpu.fetched /\ c.ctx = cpu.ctx
  BY DEF CpuInv, CpuType, Phases
<1>3. CASE cpu.level = "prog"
  <2>1. cpu' = c
    BY <1>3 DEF CpuFinish
  <2> HIDE DEF c
  <2> QED
    BY <1>2, <1>6, <1>3, <2>1 DEF CpuInv, InSequence, InHandler, InCycle, Fixed
<1>4. CASE cpu.level = "handler"
  <2>1. cpu' = HandlerFetched(c, Append(c.fetched, WordSeen))
    BY <1>2, <1>6, <1>4 DEF CpuFinish
  <2>2. c.got = << >> /\ Injected(c.fetched)
    BY <1>2, <1>6, <1>4 DEF CpuInv, InSequence, InHandler
  <2> HIDE DEF c
  <2>3. /\ cpu' \in CpuType /\ cpu'.phase = "idle"
        /\ \/ cpu'.level = "handler" /\ Injected(cpu'.fetched)
           \/ cpu'.level \in {"iret", "pusha"} /\ cpu'.k = 0 /\ cpu'.fetched = << >>
        /\ cpu'.got = << >>
    BY <1>1, <1>2, <1>6, <1>4, <2>1, <2>2, HandlerType
  <2>4. Len(<< >>) = 0
    OBVIOUS
  <2> QED
    BY <2>3, <2>4 DEF CpuInv, InSequence, InHandler, InCycle, Fixed, Injected, Count
<1>5. CASE cpu.level \in Fixed
  <2> DEFINE s == Microcode(cpu.level, cpu.mode, cpu.ctx)
             n == Count(cpu.level, cpu.mode)
  <2>1. cpu' = MicrocodeStep(c, words)
    BY <1>5 DEF CpuFinish, Fixed
  <2>2. /\ cpu.mode \in {"real", "prot"} /\ cpu.ctx \in ContextType /\ cpu.k \in Nat
        /\ cpu.got \in Seq(Word) /\ Len(cpu.got) \in Nat
    BY DEF CpuInv, CpuType, Modes
  <2>10. n \in 5 .. 16
    BY <1>5, <2>2, MicrocodeType
  <2>11. n \in Nat /\ n <= 16
    BY <2>10
  <2>3. /\ s \in Seq(CycleType) /\ Len(s) = n
        /\ \A k \in 0 .. n - 1 :
              /\ cpu.level = "nmi" /\ k >= 10 => s[k + 1].wr
              /\ cpu.level = "iret" => ~s[k + 1].wr
              /\ cpu.level = "pusha" => s[k + 1].wr
    BY <1>5, <2>2, MicrocodeType DEF Cycles
  <2>4. cpu.k < n /\ cpu.cur = s[cpu.k + 1]
    BY <1>1, <1>5 DEF CpuInv, InSequence, InCycle
  <2> HIDE DEF s, n
  <2>5. /\ cpu.level = "nmi" /\ cpu.k >= 10 => cpu.cur.wr
        /\ cpu.level = "iret" => ~cpu.cur.wr
        /\ cpu.level = "pusha" => cpu.cur.wr
    <3>1. cpu.k \in 0 .. n - 1
      BY <2>2, <2>4, <2>11
    <3> QED
      BY <2>3, <2>4, <3>1
  <2>6. /\ words \in Seq(Word) /\ Len(words) \in Nat
        /\ cpu.cur.wr => words = cpu.got
        /\ ~cpu.cur.wr => Len(words) = Len(cpu.got) + 1
    BY <1>1, <2>2
  <2> HIDE DEF words
  <2>7. /\ cpu.level = "nmi" => /\ Len(words) <= 10
                                /\ cpu.k < 10 => Len(words) <= cpu.k + 1
        /\ cpu.level = "iret" => Len(words) = cpu.k + 1
        /\ cpu.level = "pusha" => words = << >>
    BY <2>2, <2>5, <2>6 DEF CpuInv, InSequence
  <2>8. CASE cpu.k + 1 < n
    <3>1. cpu' = [c EXCEPT !.k = @ + 1, !.got = words]
      BY <1>2, <1>6, <2>1, <2>3, <2>8 DEF MicrocodeStep, s
    <3>2. cpu.k + 1 \in 0 .. 15
      <4>1. cpu.k \in Nat
        BY <2>2
      <4> QED
        BY <2>8, <2>11, <4>1
    <3> HIDE DEF c
    <3>3. /\ cpu' \in CpuType /\ cpu'.phase = "idle" /\ cpu'.level = cpu.level
          /\ cpu'.mode = cpu.mode /\ cpu'.k = cpu.k + 1 /\ cpu'.got = words
          /\ cpu'.fetched = cpu.fetched
      BY <1>2, <1>6, <2>6, <3>1, <3>2 DEF CpuType
    <3>4. InSequence'
      BY <1>5, <2>2, <2>7, <2>8, <3>3 DEF InSequence, InCycle, Fixed, n
    <3>5. InHandler'
      BY <3>3 DEF CpuInv, InHandler
    <3> QED
      BY <3>3, <3>4, <3>5 DEF CpuInv
  <2>9. CASE ~(cpu.k + 1 < n)
    <3> DEFINE e == [c EXCEPT !.k = 0, !.got = << >>]
    <3>1. cpu' = MicrocodeDone(e, words)
      BY <1>2, <1>6, <2>1, <2>3, <2>9 DEF MicrocodeStep, s
    <3>2. << >> \in Seq(Word) /\ cpu.fetched = << >>
      BY <1>5 DEF CpuInv, InHandler, Fixed
    <3> HIDE DEF c
    <3>3. /\ e \in CpuType /\ e.level \in Fixed /\ e.phase = "idle" /\ e.k = 0
          /\ e.got = << >> /\ e.fetched = << >> /\ e.level = cpu.level
      <4>1. c \in CpuType /\ c.phase = "idle" /\ c.level = cpu.level /\ c.fetched = cpu.fetched
        BY <1>2, <1>6
      <4> QED
        BY <1>5, <3>2, <4>1, SequenceOver
    <3>4. e.level = "iret" => Len(words) = 6
      <4>1. cpu.level = "iret" => n = 6
        BY DEF Count, n
      <4>2. cpu.level = "iret" => Len(words) = cpu.k + 1
        BY <2>7
      <4>3. cpu.k \in Nat /\ cpu.k < n
        BY <2>2, <2>4
      <4>4. e.level = cpu.level
        BY <3>3
      <4>5. cpu.k + 1 = n
        BY <2>9, <2>11, <4>3
      <4> HIDE DEF e
      <4> QED
        BY <4>1, <4>2, <4>4, <4>5
    <3> HIDE DEF e
    <3>5. /\ cpu' \in CpuType /\ cpu'.phase = "idle"
          /\ cpu'.level \in {"handler", "shutdown", "prog"}
          /\ cpu'.got = << >> /\ cpu'.fetched = << >>
      BY <2>6, <3>1, <3>3, <3>4, DoneType
    <3> QED
      BY <3>5 DEF CpuInv, InSequence, InHandler, InCycle, Fixed, Injected
  <2> QED
    BY <2>8, <2>9
<1> QED
  BY <1>1, <1>3, <1>4, <1>5 DEF CpuInv, CpuType, InSequence, InCycle, Levels, Fixed

\* The OCD's pins move the CPU on to T2, reset it, or tell it of an NMI.
LEMMA OcdPinsType ==
    ASSUME CpuInv, cpu' = OcdPinsDriven, saved' = saved
    PROVE  CpuInv'
<1>1. CASE reset'
  <2>1. cpu' = ResetCpu("reset")
    BY <1>1 DEF OcdPinsDriven
  <2>2. cpu' \in CpuType
    BY <2>1, ResetType
  <2>3. cpu'.level = "prog" /\ cpu'.got = << >> /\ cpu'.fetched = << >>
    BY <2>1 DEF ResetCpu
  <2> QED
    BY <2>2, <2>3 DEF CpuInv, InSequence, InHandler, Fixed, Injected
<1>2. CASE ~reset'
  <2> DEFINE t == T1Over
  <2>1. t = cpu \/ (cpu.phase = "T1" /\ t = [cpu EXCEPT !.phase = "T2"])
    <3>1. CASE cpu.phase = "T1" /\ ~waiting'
      BY <3>1 DEF T1Over
    <3>2. CASE cpu.phase # "T1"
      BY <3>2 DEF T1Over
    <3>3. CASE waiting'
      BY <3>3, Zenon DEF T1Over
    <3> QED
      BY <3>1, <3>2, <3>3
  <2>3. cpu \in CpuType
    BY DEF CpuInv
  <2>4. /\ t \in CpuType /\ t.level = cpu.level /\ t.mode = cpu.mode
        /\ t.k = cpu.k /\ t.got = cpu.got /\ t.fetched = cpu.fetched
        /\ t.ctx = cpu.ctx /\ t.cur = cpu.cur
        /\ t.phase = cpu.phase \/ (cpu.phase = "T1" /\ t.phase = "T2")
    BY <2>1, <2>3 DEF CpuType, Phases
  <2>5. cpu' = t \/ cpu' = [t EXCEPT !.nmi = TRUE]
    BY <1>2 DEF OcdPinsDriven
  <2> HIDE DEF t
  <2>2. /\ cpu' \in CpuType /\ cpu'.level = cpu.level /\ cpu'.mode = cpu.mode
        /\ cpu'.k = cpu.k /\ cpu'.got = cpu.got /\ cpu'.fetched = cpu.fetched
        /\ cpu'.ctx = cpu.ctx /\ cpu'.cur = cpu.cur
        /\ cpu'.phase = cpu.phase \/ (cpu.phase = "T1" /\ cpu'.phase = "T2")
    BY <2>4, <2>5 DEF CpuType
  <2> QED
    BY <2>2 DEF CpuInv, InSequence, InHandler, InCycle
<1> QED
  BY <1>1, <1>2

-----------------------------------------------------------------------------
(* The firmware's steps *)

LEMMA RunType ==
    ASSUME OcdTypeOK, NEW p \in ProgramNames, OcdRun(p), regs' \in [RegIds -> Word]
    PROVE  OcdTypeOK'
<1>1. PICK n \in 1 .. 64 : Loadable(Code[p], n)
  BY CodeType
<1>2. 1 \in 1 .. Len(Code[p])
  BY <1>1 DEF Loadable
<1> QED
  BY <1>2 DEF OcdRun, OcdTypeOK

LEMMA RegisterPair ==
    ASSUME NEW r \in [RegIds -> Word], NEW id \in Nat, id <= 14, NEW d \in Dword
    PROVE  /\ << r[id], r[id + 1] >> \in Dword
           /\ SetReg32(r, id, d) \in [RegIds -> Word]
<1>1. id \in RegIds /\ id + 1 \in RegIds
  BY DEF RegIds
<1> QED
  BY <1>1 DEF SetReg32, Dword, Low, High

LEMMA IoKind ==
    /\ \A w \in Word : /\ Io("granted", w) \in IoType
    /\ Io("granted", 0) \in IoType /\ Io("reported", 0) \in IoType
    /\ Io("pending", 0) \in IoType /\ NoIo \in IoType
BY SmallWords DEF Io, NoIo, IoType

LEMMA SvContType ==
    ASSUME OcdTypeOK, SvType, NEW st, NEW word \in Word, SvCont(st, word)
    PROVE  OcdTypeOK' /\ status' \in Statuses /\ io' \in IoType
<1>1. regs \in [RegIds -> Word] /\ sregs \in ContextType
  BY DEF OcdTypeOK, SvType
<1>2. {"cont", "write_io", "start"} \subseteq ProgramNames
  BY DEF ProgramNames
<1>3. CASE /\ st = "BRK32" /\ Running("cont") /\ UNCHANGED io
           /\ regs' = SetReg32(SetReg32([regs EXCEPT ![REG_CS] = sregs.cs],
                                    REG_EFLAGS, sregs.eflags),
                           REG_EIP, sregs.eip)
  <2> DEFINE r == [regs EXCEPT ![REG_CS] = sregs.cs]
             q == SetReg32(r, REG_EFLAGS, sregs.eflags)
  <2>1. sregs.cs \in Word /\ sregs.eflags \in Dword /\ sregs.eip \in Dword
    BY <1>1 DEF ContextType
  <2>2. r \in [RegIds -> Word]
    BY <1>1, <2>1
  <2> HIDE DEF r
  <2>6. /\ REG_EFLAGS \in Nat /\ REG_EFLAGS <= 14
        /\ REG_EIP \in Nat /\ REG_EIP <= 14
    BY DEF REG_EFLAGS, REG_EIP
  <2>3. q \in [RegIds -> Word]
    BY <2>1, <2>2, <2>6, RegisterPair
  <2>4. regs' = SetReg32(q, REG_EIP, sregs.eip)
    BY <1>3 DEF r
  <2> HIDE DEF q
  <2>5. regs' \in [RegIds -> Word]
    BY <2>1, <2>3, <2>4, <2>6, RegisterPair
  <2> QED
    BY <1>2, <1>3, <2>5, RunType DEF Running, Statuses, SvType
<1>4. CASE st = "IORD" /\ Running("write_io") /\ regs' = [regs EXCEPT ![REG_IODATA] = word]
           /\ io' = Io("granted", word)
  <2>1. regs' \in [RegIds -> Word]
    BY <1>1, <1>4
  <2> QED
    BY <1>2, <1>4, <2>1, RunType, IoKind DEF Running, Statuses
<1>5. CASE st = "IOWR" /\ Running("start") /\ io' = Io("granted", 0) /\ UNCHANGED regs
  BY <1>1, <1>2, <1>5, RunType, IoKind DEF Running, Statuses
<1> QED
  BY <1>3, <1>4, <1>5 DEF SvCont

LEMMA RestoreType ==
    ASSUME OcdTypeOK, SvType, SvGetRegsRestore
    PROVE  OcdTypeOK' /\ SvType'
<1>1. regs \in [RegIds -> Word] /\ sregs \in ContextType
  BY DEF OcdTypeOK, SvType
<1>2. \A i \in 0 .. 7 : GetReg32(2 * i) \in Dword
  <2> SUFFICES ASSUME NEW i \in 0 .. 7 PROVE GetReg32(2 * i) \in Dword
    OBVIOUS
  <2>1. 2 * i \in RegIds /\ 2 * i + 1 \in RegIds
    BY DEF RegIds
  <2> QED
    BY <1>1, <2>1 DEF GetReg32, Dword
<1>3. \A d \in Dword : EspRun(d) \in Dword /\ EspBrk(d) \in Dword
  BY AddDwordType DEF EspRun, EspBrk
<1> DEFINE gp == [i \in 0 .. 7 |-> IF i = ESP THEN EspRun(GetReg32(2 * i)) ELSE GetReg32(2 * i)]
<1>4. gp \in [0 .. 7 -> Dword]
  BY <1>2, <1>3, Zenon
<1>5. sregs' = [sregs EXCEPT !.gp = gp]
  BY DEF SvGetRegsRestore
<1> DEFINE d == EspBrk(sregs'.gp[ESP])
           r == [regs EXCEPT ![REG_SET] = NopMovEsp]
<1>6. regs' = SetReg32(r, REG_RVALUE, d)
  BY DEF SvGetRegsRestore
<1>7. r \in [RegIds -> Word]
  <2>1. NopMovEsp \in Word
    BY SmallWords, SMT DEF NopMovEsp
  <2> QED
    BY <1>1, <2>1
<1> HIDE DEF gp, r
<1>8. sregs' \in ContextType /\ sregs'.gp = gp
  BY <1>1, <1>4, <1>5 DEF ContextType
<1>9. d \in Dword
  BY <1>3, <1>4, <1>8 DEF ESP
<1> HIDE DEF d
<1>10. regs' \in [RegIds -> Word]
  <2>1. REG_RVALUE \in Nat /\ REG_RVALUE <= 14
    BY DEF REG_RVALUE
  <2> QED
    BY <1>6, <1>7, <1>9, <2>1, RegisterPair
<1>11. OcdTypeOK'
  BY <1>10, RunType DEF SvGetRegsRestore, ProgramNames
<1> QED
  BY <1>8, <1>11 DEF SvGetRegsRestore, SvType, Goto, Locations

LEMMA BrkDoneType ==
    ASSUME OcdTypeOK, SvType, SvBrkDone
    PROVE  sregs' \in ContextType /\ status' \in Statuses
<1>1. regs \in [RegIds -> Word] /\ sregs \in ContextType
  BY DEF OcdTypeOK, SvType
<1>2. REG_EFLAGS \in Nat /\ REG_EFLAGS <= 14 /\ REG_EIP \in Nat /\ REG_EIP <= 14
      /\ REG_CS \in RegIds
  BY DEF REG_EFLAGS, REG_EIP, REG_CS, RegIds
<1>3. NoDword \in Dword
  BY SmallWords DEF NoDword, Dword
<1>4. GetReg32(REG_EFLAGS) \in Dword /\ GetReg32(REG_EIP) \in Dword /\ regs[REG_CS] \in Word
  BY <1>1, <1>2, <1>3, RegisterPair DEF GetReg32
<1> QED
  BY <1>1, <1>4 DEF SvBrkDone, ContextType, Statuses

LEMMA LedType ==
    ASSUME NEW w \in Word
    PROVE  w % 256 \in 0 .. 255
<1>1. w \in Nat
  BY SmallWords
<1>2. w % 256 \in Int /\ 0 <= w % 256 /\ w % 256 < 256
  BY <1>1
<1> QED
  BY <1>2

LEMMA SvStepType ==
    ASSUME OcdTypeOK, SvType, SvHandle \/ SvContinue
    PROVE  OcdTypeOK' /\ SvType'
<1>1. regs \in [RegIds -> Word] /\ iodata \in Word
  BY DEF OcdTypeOK, SvType
<1>2. regs[REG_IOADDR] \in Word /\ regs[REG_IODATA] \in Word
  BY <1>1 DEF REG_IOADDR, REG_IODATA, RegIds
<1>3. \A w \in 0 .. 255 : w \in Word
  BY SmallWords
<1>4. UNCHANGED ocdVars => OcdTypeOK'
  BY DEF ocdVars, OcdTypeOK
<1>5. \A p \in ProgramNames : OcdRun(p) /\ UNCHANGED regs => OcdTypeOK'
  BY <1>1, RunType
<1>6. ASSUME UNCHANGED dataVars, loc' \in Locations PROVE OcdTypeOK' /\ SvType'
  BY <1>4, <1>6 DEF dataVars, SvType
<1>7. CASE Refuse \/ NoCommand \/ SvGetRegsDone \/ OcdRunning
  BY <1>6, <1>7 DEF Refuse, NoCommand, SvGetRegsDone, OcdRunning, Goto, Locations
<1>8. CASE SvInit \/ SvStop \/ SvStart \/ SvBrk \/ SvGetRegs
  BY <1>5, <1>8 DEF SvInit, SvStop, SvStart, SvBrk, SvGetRegs, Goto, Locations, SvType,
       Running, Statuses, ProgramNames
<1>9. CASE SvInitDone \/ SvStopDone
  BY <1>4, <1>9 DEF SvInitDone, SvStopDone, Goto, Locations, SvType, Statuses
<1>10. CASE SvBrkDone
  BY <1>4, <1>10, BrkDoneType DEF SvBrkDone, Goto, Locations, SvType
<1>11. CASE HostCont
  BY <1>1, <1>11, SvContType DEF HostCont, Goto, Locations, SvType
<1>12. CASE SvSetIoData
  BY <1>4, <1>12, HostAssumption DEF SvSetIoData, Goto, Locations, SvType
<1>13. CASE SvGetRegsRestore
  BY <1>13, RestoreType
<1>14. CASE IoBreakWrite
  BY <1>2, <1>5, <1>14 DEF IoBreakWrite, IoBreak, Goto, Locations, SvType, ProgramNames
<1>15. CASE IoBreakWriteDone
  <2>1. iodata' \in Word /\ ioaddr' = ioaddr /\ sregs' = sregs /\ loc' \in Locations
    BY <1>2, <1>15 DEF IoBreakWriteDone, Goto, Locations
  <2>2. CASE led' = iodata' % 256 /\ SvCont("IOWR", iodata')
    <3>1. PICK w \in Word : w = iodata'
      BY <2>1
    <3>2. SvCont("IOWR", w)
      BY <2>2, <3>1 DEF SvCont
    <3>3. led' \in 0 .. 255
      BY <2>2, <3>1, LedType
    <3> QED
      BY <2>1, <3>2, <3>3, SvContType DEF SvType
  <2>3. CASE status' = "IOWR" /\ io' = Io("reported", 0) /\ UNCHANGED << ocdVars, led >>
    BY <1>4, <2>1, <2>3, IoKind DEF SvType, Statuses
  <2> QED
    BY <1>15, <2>2, <2>3 DEF IoBreakWriteDone
<1>16. CASE IoBreakRead
  <2>1. ioaddr' \in Word /\ sregs' = sregs /\ led' = led /\ loc' \in Locations
    BY <1>2, <1>16 DEF IoBreakRead, IoBreak, Goto, Locations
  <2>2. CASE iodata' = led /\ SvCont("IORD", iodata')
    <3>1. led \in Word
      BY <1>3 DEF SvType
    <3>2. SvCont("IORD", led)
      BY <2>2 DEF SvCont
    <3> QED
      BY <2>1, <2>2, <3>1, <3>2, SvContType DEF SvType
  <2>3. CASE status' = "IORD" /\ io' = Io("reported", 0) /\ UNCHANGED << ocdVars, iodata >>
    BY <1>4, <2>1, <2>3, IoKind DEF SvType, Statuses
  <2> QED
    BY <1>16, <2>2, <2>3 DEF IoBreakRead
<1> QED
  BY <1>7, <1>8, <1>9, <1>10, <1>11, <1>12, <1>13, <1>14, <1>15, <1>16
     DEF SvHandle, SvContinue

-----------------------------------------------------------------------------
(* All steps *)

LEMMA InitType == Init => TypeInv
<1> SUFFICES ASSUME Init PROVE TypeInv
  OBVIOUS
<1>1. 0 \in Word
  BY SmallWords
<1>2. OcdTypeOK
  <2>1. PICK n \in 1 .. 64 : Loadable(Code["blank"], n)
    BY CodeType DEF ProgramNames
  <2>2. 1 \in 1 .. Len(Code["blank"])
    BY <2>1 DEF Loadable
  <2>3. [r \in RegIds |-> 0] \in [RegIds -> Word]
    BY <1>1
  <2> QED
    BY <1>1, <2>2, <2>3 DEF Init, OcdInit, OcdTypeOK, ProgramNames
<1>3. CpuInv
  <2>1. cpu \in CpuType /\ saved \in Contexts
    BY ResetType DEF Init
  <2>2. cpu.level = "prog" /\ cpu.got = << >> /\ cpu.fetched = << >>
    BY DEF Init, ResetCpu
  <2> QED
    BY <2>1, <2>2 DEF CpuInv, InSequence, InHandler, Fixed, Injected
<1>4. SvType
  <2>1. NoDword \in Dword
    BY <1>1 DEF NoDword, Dword
  <2>2. sregs \in ContextType
    BY <1>1, <2>1 DEF Init, ContextType
  <2> QED
    BY <1>1, <2>2, IoKind DEF Init, SvType, Locations
<1> QED
  BY <1>2, <1>3, <1>4 DEF TypeInv

LEMMA TypeInvNext == TypeInv /\ [Next]_vars => TypeInv'
<1> SUFFICES ASSUME TypeInv, [Next]_vars PROVE TypeInv'
  OBVIOUS
<1>1. OcdTypeOK /\ CpuInv /\ SvType
  BY DEF TypeInv
<1>2. IoAfter(cpu') \in IoType
  BY <1>1, IoKind DEF IoAfter, SvType
<1>3. UNCHANGED ocdVars => OcdTypeOK'
  BY <1>1 DEF ocdVars, OcdTypeOK
<1>4. UNCHANGED cpuVars => CpuInv'
  BY <1>1 DEF cpuVars, CpuInv, InSequence, InHandler, InCycle
<1>5. UNCHANGED svVars /\ io' = IoAfter(cpu') => SvType'
  BY <1>1, <1>2 DEF svVars, SvType
<1>6. CASE Supervisor
  BY <1>1, <1>4, <1>6, SvStepType DEF Supervisor, TypeInv
<1>7. CASE OcdStep
  <2>1. OcdTypeOK'
    BY <1>1, <1>7, OcdStepType DEF OcdStep, CpuInv
  <2>2. CpuInv'
    BY <1>1, <1>7, OcdPinsType DEF OcdStep
  <2> QED
    BY <1>5, <1>7, <2>1, <2>2 DEF OcdStep, TypeInv
<1>8. CASE Cpu
  <2>1. CpuInv'
    <3>1. CASE CpuControl
      BY <1>1, <3>1, CpuControlType
    <3>2. CASE CpuBus
      <4>1. dout \in Word /\ saved' = saved /\ (CpuStart \/ CpuT2 \/ CpuFinish)
        BY <1>1, <3>2 DEF OcdTypeOK, CpuBus
      <4> QED
        BY <1>1, <4>1, CpuStartType, CpuT2Type, CpuFinishType
    <3>3. CASE CpuNmi
      BY <1>1, <3>3, CpuNmiType
    <3> QED
      BY <1>8, <3>1, <3>2, <3>3 DEF Cpu
  <2>2. CpuQuiet
    BY <1>8 DEF Cpu, CpuControl, CpuBus, CpuNmi
  <2> QED
    BY <1>3, <1>5, <2>1, <2>2 DEF CpuQuiet, TypeInv
<1>9. CASE UNCHANGED vars
  <2>1. SvType'
    BY <1>1, <1>9 DEF vars, svVars, SvType
  <2> QED
    BY <1>3, <1>4, <1>9, <2>1 DEF vars, TypeInv
<1> QED
  BY <1>6, <1>7, <1>8, <1>9 DEF Next

LEMMA TypeInvOK == TypeInv => TypeOK
<1> SUFFICES ASSUME TypeInv PROVE TypeOK
  OBVIOUS
<1>1. cpu \in CpuType /\ InSequence /\ InHandler /\ saved \in Contexts
  BY DEF TypeInv, CpuInv
<1>2. /\ cpu.phase \in Phases /\ cpu.mode \in Modes /\ cpu.level \in Levels
      /\ cpu.k \in 0 .. 15 /\ cpu.nmi \in BOOLEAN /\ cpu.ctx \in ContextType
      /\ cpu.got \in Seq(Word) /\ cpu.fetched \in Seq(Word)
  BY <1>1 DEF CpuType
<1>3. Len(cpu.got) <= 10
  <2>1. CASE cpu.level = "nmi"
    BY <1>1, <2>1 DEF InSequence
  <2>2. CASE cpu.level = "iret"
    <3>1. Len(cpu.got) = cpu.k /\ cpu.k < 6
      BY <1>1, <2>2 DEF InSequence, Fixed, Count
    <3>2. cpu.k \in Nat
      BY <1>2
    <3> QED
      BY <3>1, <3>2
  <2>3. CASE cpu.level \notin {"nmi", "iret"}
    <3>1. cpu.got = << >>
      BY <1>1, <2>3 DEF InSequence
    <3> QED
      BY <3>1
  <2> QED
    BY <2>1, <2>2, <2>3
<1>4. Len(cpu.fetched) <= 4
  <2>1. Len(cpu.fetched) \in Nat
    BY <1>2
  <2>2. cpu.fetched = << >> \/ Partial(cpu.fetched)
    BY <1>1 DEF InHandler, Injected
  <2> QED
    BY <2>1, <2>2 DEF Partial
<1>5. CpuTypeOK
  BY <1>1, <1>2, <1>3, <1>4 DEF CpuTypeOK, Phases, Modes, Levels
<1> QED
  BY <1>5 DEF TypeInv, TypeOK, SvType, IoType

\* Whatever the host sends and the program does, the bridge's variables keep their types:
\* the OCD fetches inside the program the firmware loaded, every word on the bus fits 16
\* bits, and the CPU reads no more words than its microcode asks for.
THEOREM TypeCorrect == Spec => []TypeOK
<1>1. Init => TypeInv
  BY InitType
<1>2. TypeInv /\ [Next]_vars => TypeInv'
  BY TypeInvNext
<1>3. TypeInv => TypeOK
  BY TypeInvOK
<1> QED
  BY <1>1, <1>2, <1>3, PTL DEF Spec

-----------------------------------------------------------------------------
(* The reset program *)

\* The instructions sv_init and sv_stop have the OCD execute.
LEMMA ResetCode ==
    /\ Code["reset"][1].op = "RESET"
    /\ Code["reset"][2].op = "ATTACH"
    /\ Code["reset"][3].op = "EXIT"
BY DEF Code, Synth, SynthOp, PrgmReset, Do, Ins

\* How far the reset program has come, and what it has done by then.
ResetProgress ==
    /\ prog = "reset" /\ pc \in 1 .. 3
    /\ pc >= 2 => reset
    /\ pc = 3 => en
    /\ stop => pc = 3

\* StopTruth is not inductive: that the OCD leaves reset and en alone depends on
\* the program it holds and on where it is in it, and that a busy-wait does not
\* end in STOP on the status it began with.
StopInv ==
    /\ loc \in {"init_wait", "stop_wait"} => ResetProgress
    /\ AtPoll /\ status = "STOP" => ResetProgress /\ stop
    /\ loc \in {"regs_wait", "esp_wait"} => status = "BRK32"

\* One OCD instruction keeps the reset program's progress, and its end.
LEMMA ResetProgressStep ==
    ASSUME ResetProgress, OcdStep
    PROVE  ResetProgress' /\ (stop => stop')
<1>1. pc = 1 \/ pc = 2 \/ pc = 3
  BY DEF ResetProgress
<1>2. CASE OcdWait(Pins)
  <2>1. Current.op = "EXIT" /\ pc = 3
    BY <1>1, <1>2, ResetCode DEF OcdWait, ExecWait, Current, ResetProgress
  <2>2. stop' /\ (reset => reset') /\ (en => en') /\ UNCHANGED << prog, pc >>
    BY <1>2, <2>1 DEF OcdWait, DoExec, ExecEn, AssertsReady
  <2> QED
    BY <2>1, <2>2 DEF ResetProgress
<1>3. CASE OcdRetire(Pins)
  <2>1. Current.op \in {"RESET", "ATTACH"} /\ pc # 3
    BY <1>1, <1>3, ResetCode DEF OcdRetire, ExecWait, Current, ResetProgress
  <2>2. pc' = pc + 1 /\ prog' = prog /\ (stop' <=> stop)
    BY <1>3, <2>1 DEF OcdRetire, DoExec, DoStore, NextPc, BranchTaken
  <2>3. (reset' <=> reset \/ Current.op = "RESET") /\ (en' <=> en \/ Current.op = "ATTACH")
    BY <1>3, <2>1 DEF OcdRetire, DoExec, DoStore, ExecEn, WaitOps
  <2> QED
    BY <1>1, <2>1, <2>2, <2>3, ResetCode DEF ResetProgress, Current
<1> QED
  BY <1>2, <1>3 DEF OcdStep

-----------------------------------------------------------------------------
(* The invariant *)

\* Power-up satisfies it: the firmware is not at its polls yet.
LEMMA StopInvInit == Init => StopInv
BY DEF Init, StopInv, AtPoll

\* The firmware's steps keep it.
LEMMA StopInvSupervisor ==
    ASSUME StopInv, Supervisor
    PROVE  StopInv'
<1> USE DEF StopInv, AtPoll, ResetProgress, ocdVars, Goto, Receives, Waited
<1>1. CASE Refuse \/ NoCommand \/ OcdRunning
  BY <1>1 DEF Refuse, NoCommand, OcdRunning, dataVars
<1>2. CASE SvInit \/ SvStop
  BY <1>2 DEF SvInit, SvStop, OcdRun
<1>3. CASE SvInitDone \/ SvStopDone
  BY <1>3 DEF SvInitDone, SvStopDone
<1>4. CASE SvStart
  BY <1>4 DEF SvStart, Running
<1>5. CASE SvBrk
  BY <1>5 DEF SvBrk
<1>6. CASE SvBrkDone
  BY <1>6 DEF SvBrkDone
<1>7. CASE HostCont
  BY <1>7 DEF HostCont, SvCont, Running
<1>8. CASE SvSetIoData
  BY <1>8 DEF SvSetIoData
<1>9. CASE SvGetRegs \/ SvGetRegsRestore
  BY <1>9 DEF SvGetRegs, SvGetRegsRestore
<1>10. CASE SvGetRegsDone
  BY <1>10 DEF SvGetRegsDone, dataVars
<1>11. CASE IoBreakWrite
  BY <1>11 DEF IoBreakWrite, IoBreak
<1>12. CASE IoBreakWriteDone
  BY <1>12 DEF IoBreakWriteDone, SvCont, Running
<1>13. CASE IoBreakRead
  BY <1>13 DEF IoBreakRead, IoBreak, SvCont, Running
<1> QED
  BY <1>1, <1>2, <1>3, <1>4, <1>5, <1>6, <1>7, <1>8, <1>9, <1>10, <1>11,
     <1>12, <1>13 DEF Supervisor, SvHandle, SvContinue

\* Every step keeps it: the OCD's by ResetProgressStep, the CPU's because it
\* touches neither the OCD nor the firmware.
LEMMA StopInvNext == StopInv /\ [Next]_vars => StopInv'
<1> SUFFICES ASSUME StopInv, [Next]_vars PROVE StopInv'
  OBVIOUS
<1>1. CASE Supervisor
  BY <1>1, StopInvSupervisor
<1>2. CASE OcdStep
  <2>1. UNCHANGED << loc, status >>
    BY <1>2 DEF OcdStep, svVars
  <2> QED
    BY <1>2, <2>1, ResetProgressStep DEF StopInv, AtPoll
<1>3. CASE Cpu
  BY <1>3 DEF Cpu, CpuControl, CpuBus, CpuNmi, CpuQuiet, ocdVars, svVars,
              StopInv, AtPoll, ResetProgress
<1>4. CASE UNCHANGED vars
  BY <1>4 DEF vars, ocdVars, svVars, StopInv, AtPoll, ResetProgress
<1> QED
  BY <1>1, <1>2, <1>3, <1>4 DEF Next

\* Whenever the firmware is back at its polls with status STOP, the CPU is in
\* reset and the OCD has the bus: whatever the host interrupted with sv_stop.
THEOREM StopIsReset == Spec => []StopTruth
<1>1. StopInv => StopTruth
  BY DEF StopInv, StopTruth, ResetProgress
<1> QED
  BY <1>1, StopInvInit, StopInvNext, PTL DEF Spec

-----------------------------------------------------------------------------
(* The programs that release the CPU *)

\* A program that releases the CPU, waits at w for its next I/O cycle and then notes
\* its address and direction.
ReleasesAt(c, w) ==
    /\ Len(c) = w + 3
    /\ c[w] = Do("WAITIO") /\ c[w + 1] = To("LDAL", 1) /\ c[w + 2] = To("LDWR", 2)
    /\ c[w + 3] = Do("EXIT")
    /\ \A i \in 1 .. w + 3 : c[i].op \notin Branches
    /\ \A i \in 1 .. w + 2 : c[i].op # "EXIT"

LEMMA ReleasesLast ==
    ASSUME NEW n \in Nat, NEW s, Quiet(s, n)
    PROVE  ReleasesAt(Synth(s \o ReleaseUntilIo), n + 2)
<1> DEFINE c == s \o ReleaseUntilIo
           r == ReleaseUntilIo
<1>1. Synth(c) = c /\ Piece(s, n) /\ \A i \in 1 .. n : s[i].op # "EXIT"
  BY ReleaseLast DEF Quiet
<1>2. /\ r[2] = Do("WAITIO") /\ r[3] = To("LDAL", 1)
      /\ r[4] = To("LDWR", 2) /\ r[5] = Do("EXIT")
      /\ \A i \in 1 .. 4 : r[i].op # "EXIT"
  BY DEF ReleaseUntilIo, Do, To, Ins
<1>3. Piece(r, 5)
  BY ReleaseType
<1>4. Piece(c, n + 5)
  BY <1>1, <1>3, Joined
<1> HIDE DEF r
<1>5. \A i \in 1 .. n + 5 : c[i] = IF i <= n THEN s[i] ELSE r[i - n]
  <2>1. s \in Seq(Straight) /\ r \in Seq(Straight) /\ Len(s) = n /\ Len(r) = 5
    BY <1>1, <1>3 DEF Piece
  <2>2. c = s \o r
    BY DEF r
  <2> HIDE DEF c
  <2>3. \A i \in 1 .. Len(s) + Len(r) :
           (s \o r)[i] = IF i <= Len(s) THEN s[i] ELSE r[i - Len(s)]
    BY <2>1, ConcatProperties
  <2> QED
    BY <2>1, <2>2, <2>3
<1> HIDE DEF c
<1>6. /\ c[n + 2] = r[2] /\ c[n + 3] = r[3] /\ c[n + 4] = r[4] /\ c[n + 5] = r[5]
  BY <1>5
<1>7. ASSUME NEW i \in 1 .. n + 5 PROVE c[i].op \notin Branches
  <2>1. c[i] \in Straight
    BY <1>4, ElementOfSeq DEF Piece
  <2> QED
    BY <2>1 DEF Straight, Plain, Branches
<1>8. ASSUME NEW i \in 1 .. n + 4 PROVE c[i].op # "EXIT"
  <2>1. CASE i <= n
    <3>1. i \in 1 .. n /\ i \in 1 .. n + 5
      BY <2>1
    <3> QED
      BY <1>1, <1>5, <2>1, <3>1
  <2>2. CASE ~(i <= n)
    <3>1. i - n \in 1 .. 4 /\ i \in 1 .. n + 5
      BY <2>2
    <3> QED
      BY <1>2, <1>5, <2>2, <3>1
  <2> QED
    BY <2>1, <2>2
<1>9. Len(c) = n + 5
  BY <1>4 DEF Piece
<1> HIDE DEF r
<1>10. n + 2 + 3 = n + 5 /\ n + 2 + 1 = n + 3 /\ n + 2 + 2 = n + 4
  OBVIOUS
<1>11. ReleasesAt(c, n + 2)
  BY <1>2, <1>6, <1>7, <1>8, <1>9, <1>10 DEF ReleasesAt
<1> QED
  BY <1>1, <1>11 DEF c

\* The programs the firmware starts while a program runs, and where they wait.
Releasing == { "start", "write_io", "cont" }
WaitIoAt(p) == IF p = "cont" THEN 24 ELSE 3

LEMMA ReleasingCode ==
    ASSUME NEW p \in Releasing
    PROVE  ReleasesAt(Code[p], WaitIoAt(p)) /\ WaitIoAt(p) \in {3, 24}
<1>1. ReleasesAt(Code["start"], 3)
  <2>1. Quiet(<< Do("START") >>, 1)
    <3>1. Piece(<< Do("START") >>, 1)
      BY Forms, Single DEF Plain
    <3> QED
      BY <3>1 DEF Quiet, Do, Ins
  <2>2. ReleasesAt(Synth(PrgmStart), 1 + 2)
    BY <2>1, ReleasesLast DEF PrgmStart
  <2> QED
    BY <2>2 DEF Code
<1>2. ReleasesAt(Code["write_io"], 3)
  <2>1. Quiet(<< From("STD", 3) >>, 1)
    <3>1. Piece(<< From("STD", 3) >>, 1)
      BY Forms, Single DEF Plain, RegIds
    <3> QED
      BY <3>1 DEF Quiet, From, Ins
  <2>2. ReleasesAt(Synth(PrgmWriteIo), 1 + 2)
    BY <2>1, ReleasesLast DEF PrgmWriteIo
  <2> QED
    BY <2>2 DEF Code
<1>3. ReleasesAt(Code["cont"], 24)
  <2>1. ReleasesAt(Synth(PrgmCont), 22 + 2)
    BY ContBody, ReleasesLast
  <2> QED
    BY <2>1 DEF Code
<1> QED
  BY <1>1, <1>2, <1>3 DEF Releasing, WaitIoAt

LEMMA ReadIoCode ==
    /\ Code["read_io"][1] = To("LDD", 3) /\ Code["read_io"][2].op = "EXIT"
BY DEF Code, Synth, SynthOp, PrgmReadIo, To, Do, Ins

-----------------------------------------------------------------------------
(* Stalled I/O cycles *)

\* The OCD holds the CPU in an I/O cycle.
Stalled == cpu.phase = "T2" /\ ~cpu.cur.mio /\ en /\ ~ready /\ ~reset

\* What the program past its WAITIO has learnt of the cycle.
Learnt ==
    prog \in Releasing /\ pc > WaitIoAt(prog) =>
        /\ Stalled
        /\ pc > WaitIoAt(prog) + 1 => regs[REG_IOADDR] = cpu.cur.a
        /\ pc > WaitIoAt(prog) + 2 => regs[REG_IOWR] = AsWord(cpu.cur.wr)

\* The word of a write is being fetched.
Fetching ==
    loc = "iowr_wait" =>
        /\ status = "RUNNING" /\ prog = "read_io" /\ pc \in 1 .. 2
        /\ Stalled /\ cpu.cur.wr /\ cpu.cur.a = ioaddr
        /\ pc = 2 => regs[REG_IODATA] = cpu.cur.din

\* A reported cycle stays stalled: the OCD has nothing left to execute.
Reported ==
    AtPoll /\ status \in {"IORD", "IOWR"} =>
        /\ Stalled /\ stop
        /\ cpu.cur.a = ioaddr
        /\ cpu.cur.wr <=> (status = "IOWR")

\* IoTruth is not inductive: it needs what each program that can end in sv_iobreak has
\* done by the time it stops, and that the OCD does nothing more then.
IoInv ==
    /\ reset => cpu.phase = "reset"
    /\ stop => Current.op = "EXIT"
    /\ AtPoll /\ status = "RUNNING" => prog \in Releasing
    /\ loc \in {"regs_wait", "esp_wait"} => status = "BRK32"
    /\ Learnt /\ Fetching /\ Reported

\* The OCD's pins while the CPU is in T2, or about to leave T1.
LEMMA PinsKeepCycle ==
    ASSUME cpu \in CpuType, cpu' = OcdPinsDriven
    PROVE  /\ reset' => cpu'.phase = "reset"
           /\ ~reset' => /\ cpu'.cur = cpu.cur
                         /\ cpu'.phase = cpu.phase \/ (cpu.phase = "T1" /\ cpu'.phase = "T2")
                         /\ cpu.phase = "T1" /\ ~waiting' => cpu'.phase = "T2"
<1>1. CASE reset'
  BY <1>1 DEF OcdPinsDriven, ResetCpu
<1>2. CASE ~reset'
  <2> DEFINE t == T1Over
  <2>1. \/ t = cpu /\ ~(cpu.phase = "T1" /\ ~waiting')
        \/ cpu.phase = "T1" /\ t = [cpu EXCEPT !.phase = "T2"]
    <3>1. CASE cpu.phase = "T1" /\ ~waiting'
      BY <3>1 DEF T1Over
    <3>2. CASE ~(cpu.phase = "T1" /\ ~waiting')
      BY <3>2 DEF T1Over
    <3> QED
      BY <3>1, <3>2
  <2>2. cpu' = t \/ cpu' = [t EXCEPT !.nmi = TRUE]
    BY <1>2 DEF OcdPinsDriven
  <2> HIDE DEF t
  <2>3. t \in CpuType /\ t.cur = cpu.cur
    BY <2>1 DEF CpuType, Phases
  <2>4. cpu'.phase = t.phase /\ cpu'.cur = t.cur
    BY <2>2, <2>3 DEF CpuType
  <2>5. \/ t.phase = cpu.phase /\ ~(cpu.phase = "T1" /\ ~waiting')
        \/ cpu.phase = "T1" /\ t.phase = "T2"
    BY <2>1 DEF CpuType
  <2> QED
    BY <1>2, <2>3, <2>4, <2>5
<1> QED
  BY <1>1, <1>2

\* None of these instructions lets a stalled CPU go.
LEMMA StalledStep ==
    ASSUME cpu \in CpuType, Stalled, OcdStep, Current.op \in {"LDAL", "LDWR", "LDD", "EXIT"}
    PROVE  Stalled' /\ cpu'.cur = cpu.cur
<1>1. OcdWait(Pins) \/ OcdRetire(Pins)
  BY DEF OcdStep
<1>2. en' /\ ~ready' /\ ~reset'
  BY <1>1 DEF Stalled, OcdWait, OcdRetire, DoExec, DoStore, ExecEn, ExecReady,
              AssertsReady, WaitOps
<1>3. cpu' = OcdPinsDriven
  BY DEF OcdStep
<1> QED
  BY <1>2, <1>3, PinsKeepCycle DEF Stalled

\* The address of an I/O cycle is what LDAL loads.
LEMMA IoAddressLoaded ==
    ASSUME cpu \in CpuType, ~cpu.cur.mio
    PROVE  WordOr(cpu.cur.a % WordSize, cpu.cur.a \div WordSize) = cpu.cur.a
<1> DEFINE a == cpu.cur.a
<1>1. a \in Word
  BY DEF CpuType, CycleType
<1> HIDE DEF a
<1>2. a % WordSize = a /\ a \div WordSize = 0
  <2>1. a \in Nat /\ a < 65536
    BY <1>1, SmallWords
  <2> QED
    BY <2>1 DEF WordSize
<1> QED
  BY <1>1, <1>2, OrZero DEF a

LEMMA LearntStep ==
    ASSUME TypeInv, IoInv, OcdStep
    PROVE  Learnt'
<1> SUFFICES ASSUME prog' \in Releasing, pc' > WaitIoAt(prog')
             PROVE  /\ Stalled'
                    /\ pc' > WaitIoAt(prog') + 1 => regs'[REG_IOADDR] = cpu'.cur.a
                    /\ pc' > WaitIoAt(prog') + 2 => regs'[REG_IOWR] = AsWord(cpu'.cur.wr)
  BY DEF Learnt
<1> DEFINE w == WaitIoAt(prog)
<1>1. prog' = prog /\ prog \in Releasing
  BY DEF OcdStep, OcdWait, OcdRetire
<1>2. /\ ReleasesAt(Code[prog], w) /\ w \in Nat
  BY <1>1, ReleasingCode
<1>3. /\ pc \in Nat /\ pc <= w + 3 /\ cpu \in CpuType /\ regs \in [RegIds -> Word]
      /\ pc \in 1 .. w + 3
  BY <1>2 DEF TypeInv, OcdTypeOK, CpuInv, ReleasesAt
<1>4. WaitIoAt(prog') = w
  BY <1>1
<1> HIDE DEF w
<1>5. CASE OcdWait(Pins)
  <2>1. pc' = pc /\ regs' = regs /\ ExecWait(Current.op, Pins)
    BY <1>5 DEF OcdWait
  <2>2. pc = w + 1 \/ pc = w + 2 \/ pc = w + 3
    BY <1>2, <1>3, <1>4, <2>1
  <2>3. Current.op \in {"LDAL", "LDWR", "EXIT"}
    BY <1>2, <2>2 DEF ReleasesAt, Current, To, Do, Ins
  <2>4. Stalled' /\ cpu'.cur = cpu.cur
    BY <1>1, <1>3, <1>4, <2>1, <2>3, StalledStep DEF IoInv, Learnt, w
  <2> QED
    BY <1>1, <1>4, <2>1, <2>4 DEF IoInv, Learnt, w
<1>6. CASE OcdRetire(Pins)
  <2> DEFINE i == Current
  <2>1. Current.op \notin Branches
    BY <1>2, <1>3 DEF ReleasesAt, Current
  <2>2. pc' = pc + 1
    <3>1. Current.op \in Plain
      BY <2>1, CurrentType DEF TypeInv, Instruction
    <3> QED
      BY <1>6, <3>1 DEF OcdRetire, DoStore, NextPc, BranchTaken, Plain
  <2>3. Current.op # "EXIT"
    BY <1>6 DEF OcdRetire, ExecWait
  <2>4. pc = w \/ pc = w + 1 \/ pc = w + 2
    <3>1. pc # w + 3
      BY <1>2, <2>3 DEF ReleasesAt, Current, Do, Ins
    <3> QED
      BY <1>2, <1>3, <1>4, <2>2, <3>1
  <2>5. CASE pc = w
    <3>1. Current.op = "WAITIO"
      BY <1>2, <2>5 DEF ReleasesAt, Current, Do, Ins
    <3>2. cpu.phase = "T1" /\ ~cpu.cur.mio
      BY <1>6, <3>1 DEF OcdRetire, ExecWait, Pins
    <3>3. ~reset' /\ en' /\ ~ready' /\ ~waiting'
      BY <1>6, <3>1, <3>2 DEF OcdRetire, DoExec, DoStore, ExecEn, ExecReady, WaitOps, IoInv
    <3>4. Stalled'
      BY <1>3, <3>2, <3>3, PinsKeepCycle DEF OcdStep, Stalled
    <3>5. ~(pc' > w + 1) /\ ~(pc' > w + 2)
      BY <1>2, <2>2, <2>5
    <3> QED
      BY <1>4, <3>4, <3>5
  <2>6. CASE pc = w + 1
    <3>1. Current = To("LDAL", 1)
      BY <1>2, <2>6 DEF ReleasesAt, Current
    <3>2. Stalled /\ Current.op = "LDAL" /\ Current.d = 1
      BY <1>1, <1>2, <2>6, <3>1 DEF IoInv, Learnt, w, To, Ins
    <3>3. Stalled' /\ cpu'.cur = cpu.cur
      BY <1>3, <3>2, StalledStep
    <3>4. Source(Current, Pins) = WordOr(cpu.cur.a % WordSize, cpu.cur.a \div WordSize)
      BY <3>2 DEF Source, Pins, LoadsRegister
    <3>5. Source(Current, Pins) = cpu.cur.a
      BY <1>3, <3>2, <3>4, IoAddressLoaded DEF Stalled
    <3>6. regs' = [regs EXCEPT ![1] = cpu.cur.a]
      BY <1>6, <3>2, <3>5 DEF OcdRetire, DoStore, StoresRegister
    <3>7. regs'[REG_IOADDR] = cpu'.cur.a
      BY <1>3, <3>3, <3>6 DEF REG_IOADDR, RegIds
    <3>8. ~(pc' > w + 2)
      BY <1>2, <2>2, <2>6
    <3> QED
      BY <1>4, <3>3, <3>7, <3>8
  <2>7. CASE pc = w + 2
    <3>1. Current = To("LDWR", 2)
      BY <1>2, <2>7 DEF ReleasesAt, Current
    <3>2. Stalled /\ regs[REG_IOADDR] = cpu.cur.a
      BY <1>1, <1>2, <2>7 DEF IoInv, Learnt, w
    <3>3. Current.op = "LDWR" /\ Current.d = 2
      BY <3>1 DEF To, Ins
    <3>4. Stalled' /\ cpu'.cur = cpu.cur
      BY <1>3, <3>2, <3>3, StalledStep
    <3>5. Source(Current, Pins) = AsWord(cpu.cur.wr)
      BY <3>3 DEF Source, Pins, LoadsRegister
    <3>6. regs' = [regs EXCEPT ![2] = AsWord(cpu.cur.wr)]
      BY <1>6, <3>3, <3>5 DEF OcdRetire, DoStore, StoresRegister
    <3>7. regs'[1] = regs[1] /\ regs'[2] = AsWord(cpu.cur.wr)
      BY <1>3, <3>6 DEF RegIds
    <3> QED
      BY <3>2, <3>4, <3>7 DEF REG_IOADDR, REG_IOWR
  <2> QED
    BY <2>4, <2>5, <2>6, <2>7
<1> QED
  BY <1>5, <1>6 DEF OcdStep

LEMMA FetchingStep ==
    ASSUME TypeInv, IoInv, OcdStep
    PROVE  Fetching'
<1> SUFFICES ASSUME loc = "iowr_wait" PROVE Fetching'
  BY DEF Fetching, OcdStep, svVars
<1>1. /\ status = "RUNNING" /\ prog = "read_io" /\ pc \in 1 .. 2
      /\ Stalled /\ cpu.cur.wr /\ cpu.cur.a = ioaddr
      /\ pc = 2 => regs[REG_IODATA] = cpu.cur.din
  BY DEF IoInv, Fetching
<1>2. cpu \in CpuType /\ regs \in [RegIds -> Word]
  BY DEF TypeInv, CpuInv, OcdTypeOK
<1>3. /\ pc = 1 => Current = To("LDD", 3)
      /\ pc = 2 => Current.op = "EXIT"
  BY <1>1, ReadIoCode DEF Current
<1>4. pc = 1 => Current.op = "LDD" /\ Current.d = 3
  BY <1>3 DEF To, Ins
<1>5. Stalled' /\ cpu'.cur = cpu.cur
  BY <1>1, <1>2, <1>3, <1>4, StalledStep
<1>6. prog' = prog /\ status' = status /\ ioaddr' = ioaddr
  BY DEF OcdStep, OcdWait, OcdRetire, svVars
<1>7. pc' \in 1 .. 2 /\ (pc' = 2 => regs'[REG_IODATA] = cpu.cur.din)
  <2>1. CASE OcdWait(Pins)
    BY <1>1, <2>1 DEF OcdWait
  <2>2. CASE OcdRetire(Pins)
    <3>1. pc = 1 /\ Current.op = "LDD" /\ Current.d = 3
      BY <1>1, <1>3, <1>4, <2>2 DEF OcdRetire, ExecWait
    <3>2. Source(Current, Pins) = cpu.cur.din
      BY <3>1 DEF Source, Pins, LoadsRegister
    <3>3. regs' = [regs EXCEPT ![3] = cpu.cur.din] /\ pc' = 2
      BY <2>2, <3>1, <3>2 DEF OcdRetire, DoStore, StoresRegister, NextPc, BranchTaken
    <3> QED
      BY <1>2, <3>3 DEF REG_IODATA, RegIds
  <2> QED
    BY <2>1, <2>2 DEF OcdStep
<1> QED
  BY <1>1, <1>5, <1>6, <1>7 DEF Fetching

LEMMA ReportedStep ==
    ASSUME TypeInv, IoInv, OcdStep
    PROVE  Reported'
<1>1. cpu \in CpuType
  BY DEF TypeInv, CpuInv
<1>2. UNCHANGED << loc, status, ioaddr >>
  BY DEF OcdStep, svVars
<1>3. stop => stop'
  BY Zenon DEF OcdStep, OcdWait, OcdRetire, DoExec
<1>4. Stalled /\ stop => Stalled' /\ cpu'.cur = cpu.cur
  BY <1>1, StalledStep DEF IoInv
<1> QED
  BY <1>2, <1>3, <1>4 DEF IoInv, Reported, AtPoll

LEMMA IoInvOcdStep ==
    ASSUME TypeInv, IoInv, OcdStep
    PROVE  IoInv'
<1>1. cpu \in CpuType
  BY DEF TypeInv, CpuInv
<1>2. reset' => cpu'.phase = "reset"
  BY <1>1, PinsKeepCycle DEF OcdStep
<1>3. stop' => Current'.op = "EXIT"
  <2>1. CASE OcdWait(Pins)
    <3>1. Current' = Current
      BY <2>1 DEF OcdWait, Current
    <3> QED
      BY <2>1, <3>1, Zenon DEF OcdWait, DoExec, IoInv
  <2>2. CASE OcdRetire(Pins)
    BY <2>2, Zenon DEF OcdRetire, ExecWait, DoExec, IoInv
  <2> QED
    BY <2>1, <2>2 DEF OcdStep
<1>4. UNCHANGED << loc, status, prog >>
  BY DEF OcdStep, svVars, OcdWait, OcdRetire
<1> QED
  BY <1>2, <1>3, <1>4, LearntStep, FetchingStep, ReportedStep DEF IoInv, AtPoll

\* The CPU does nothing while it is stalled, and nothing at all in reset.
LEMMA StalledCpu == Cpu => ~Stalled /\ ~reset
<1>1. CpuStart => cpu.phase = "idle" /\ ~reset
  BY StartForms DEF StartCycle
<1> QED
  BY <1>1 DEF Cpu, CpuControl, CpuBus, CpuNmi, CpuRelease, CpuEnterProtected, CpuHold,
              CpuUnhold, CpuT2, CpuFinish, ReadySeen, CpuTakeNmi, Stalled

LEMMA IoInvCpu ==
    ASSUME IoInv, Cpu
    PROVE  IoInv'
<1>1. UNCHANGED << ocdVars, svVars >>
  BY DEF Cpu, CpuControl, CpuBus, CpuNmi, CpuQuiet
<1>2. ~Stalled /\ ~reset
  BY StalledCpu
<1> QED
  BY <1>1, <1>2 DEF IoInv, ocdVars, svVars, Learnt, Fetching, Reported, AtPoll, Current

\* A program that has stopped after releasing the CPU has it stalled in an I/O cycle, and
\* knows that cycle.
LEMMA IoBreakKnows ==
    ASSUME TypeInv, IoInv, IoBreak
    PROVE  /\ Stalled /\ ioaddr' = cpu.cur.a
           /\ cpu.cur.wr <=> regs[REG_IOWR] # 0
<1> DEFINE w == WaitIoAt(prog)
<1>1. prog \in Releasing /\ Current.op = "EXIT" /\ ioaddr' = regs[REG_IOADDR]
  BY DEF IoBreak, IoInv, AtPoll
<1>2. ReleasesAt(Code[prog], w) /\ w \in Nat
  BY <1>1, ReleasingCode
<1>3. pc \in 1 .. w + 3
  BY <1>2 DEF TypeInv, OcdTypeOK, ReleasesAt
<1>4. pc = w + 3
  BY <1>1, <1>2, <1>3 DEF ReleasesAt, Current
<1>5. pc > w /\ pc > w + 1 /\ pc > w + 2
  BY <1>2, <1>4
<1>6. Stalled /\ regs[REG_IOADDR] = cpu.cur.a /\ regs[REG_IOWR] = AsWord(cpu.cur.wr)
  BY <1>1, <1>5 DEF IoInv, Learnt
<1>7. cpu.cur.wr \in BOOLEAN
  BY DEF TypeInv, CpuInv, CpuType, CycleType, CycleRecord
<1> QED
  BY <1>1, <1>6, <1>7 DEF AsWord

LEMMA IoInvSupervisor ==
    ASSUME TypeInv, IoInv, Supervisor
    PROVE  IoInv'
<1>1. cpu' = cpu /\ (SvHandle \/ SvContinue)
  BY DEF Supervisor, cpuVars
<1> DEFINE Kept == UNCHANGED ocdVars
<1>2. ASSUME UNCHANGED ocdVars
      PROVE  Learnt' /\ (reset' => cpu'.phase = "reset") /\ (stop' => Current'.op = "EXIT")
             /\ (Stalled => Stalled')
  BY <1>1, <1>2 DEF IoInv, Learnt, ocdVars, Current, Stalled
<1>3. ASSUME NEW p \in ProgramNames, OcdRun(p)
      PROVE  Learnt' /\ (reset' => cpu'.phase = "reset") /\ ~stop' /\ (Stalled => Stalled')
  <2>1. ~(prog' \in Releasing /\ pc' > WaitIoAt(prog'))
    BY <1>3 DEF OcdRun, WaitIoAt
  <2> QED
    BY <1>1, <1>3, <2>1 DEF IoInv, Learnt, OcdRun, Stalled
<1> USE DEF AtPoll, Goto, Receives, Waited
<1>4. CASE Refuse \/ NoCommand \/ OcdRunning \/ SvGetRegsDone
  BY <1>1, <1>2, <1>4 DEF IoInv, Fetching, Reported, Refuse, NoCommand, OcdRunning,
     SvGetRegsDone, dataVars, ocdVars
<1>5. CASE SvInit \/ SvStop \/ SvBrk \/ SvGetRegs \/ SvGetRegsRestore
  <2>1. Learnt' /\ (reset' => cpu'.phase = "reset") /\ ~stop'
    BY <1>3, <1>5 DEF SvInit, SvStop, SvBrk, SvGetRegs, SvGetRegsRestore, ProgramNames
  <2>2. loc' \in {"init_wait", "stop_wait", "brk_wait", "regs_wait", "esp_wait"}
    BY <1>5 DEF SvInit, SvStop, SvBrk, SvGetRegs, SvGetRegsRestore
  <2>3. loc' \in {"regs_wait", "esp_wait"} => status' = "BRK32"
    BY <1>5 DEF IoInv, SvInit, SvStop, SvBrk, SvGetRegs, SvGetRegsRestore
  <2> QED
    BY <2>1, <2>2, <2>3 DEF IoInv, Fetching, Reported
<1>6. CASE SvInitDone \/ SvStopDone \/ SvBrkDone
  BY <1>1, <1>2, <1>6 DEF IoInv, Fetching, Reported, SvInitDone, SvStopDone, SvBrkDone
<1>7. CASE SvStart
  <2>1. OcdRun("start") /\ status' = "RUNNING" /\ loc' = "ocd" /\ prog' = "start"
    BY <1>7 DEF SvStart, Running, OcdRun
  <2>2. "start" \in ProgramNames /\ "start" \in Releasing
    BY DEF ProgramNames, Releasing
  <2> QED
    BY <1>3, <2>1, <2>2 DEF IoInv, Fetching, Reported
<1>8. ASSUME NEW st, NEW word, SvCont(st, word), loc' \in {"uart", "ocd"}
      PROVE  IoInv'
  <2>1. PICK p \in Releasing : Running(p)
    BY <1>8 DEF SvCont, Releasing
  <2>2. p \in ProgramNames /\ prog' = p /\ status' = "RUNNING"
    BY <2>1 DEF Running, OcdRun, Releasing, ProgramNames
  <2> QED
    BY <1>1, <1>3, <1>8, <2>1, <2>2 DEF IoInv, Fetching, Reported, Running
<1>9. CASE HostCont
  BY <1>8, <1>9 DEF HostCont
<1>10. CASE SvSetIoData
  BY <1>1, <1>2, <1>10 DEF IoInv, Fetching, Reported, SvSetIoData, ocdVars
<1>11. CASE IoBreakWrite
  <2>1. Stalled /\ ioaddr' = cpu.cur.a /\ cpu.cur.wr
    BY <1>11, IoBreakKnows DEF IoBreakWrite
  <2>2. OcdRun("read_io") /\ loc' = "iowr_wait" /\ status' = status
    BY <1>11 DEF IoBreakWrite
  <2>3. prog' = "read_io" /\ pc' = 1 /\ status = "RUNNING"
    BY <1>11, <2>2 DEF OcdRun, IoBreakWrite, IoBreak
  <2> QED
    BY <1>1, <1>3, <2>1, <2>2, <2>3 DEF IoInv, Fetching, Reported, ProgramNames
<1>12. CASE IoBreakWriteDone
  <2>1. Stalled /\ cpu.cur.wr /\ cpu.cur.a = ioaddr /\ stop
    BY <1>12 DEF IoInv, Fetching, IoBreakWriteDone
  <2>2. CASE SvCont("IOWR", iodata')
    <3>1. \E word : SvCont("IOWR", word)
      BY <2>2 DEF SvCont
    <3> QED
      BY <1>8, <1>12, <3>1 DEF IoBreakWriteDone
  <2>3. CASE status' = "IOWR" /\ UNCHANGED ocdVars
    <3>1. loc' = "uart" /\ ioaddr' = ioaddr /\ stop' = stop
      BY <1>12, <2>3 DEF IoBreakWriteDone, ocdVars
    <3> QED
      BY <1>1, <1>2, <2>1, <2>3, <3>1 DEF IoInv, Fetching, Reported
  <2> QED
    BY <1>12, <2>2, <2>3 DEF IoBreakWriteDone
<1>13. CASE IoBreakRead
  <2>1. Stalled /\ ~cpu.cur.wr /\ cpu.cur.a = ioaddr' /\ stop
    BY <1>13, IoBreakKnows DEF IoBreakRead, IoBreak
  <2>2. CASE SvCont("IORD", iodata')
    <3>1. \E word : SvCont("IORD", word)
      BY <2>2 DEF SvCont
    <3> QED
      BY <1>8, <1>13, <3>1 DEF IoBreakRead
  <2>3. CASE status' = "IORD" /\ UNCHANGED ocdVars
    <3>1. loc' = "uart" /\ stop' = stop
      BY <1>13, <2>3 DEF IoBreakRead, ocdVars
    <3> QED
      BY <1>1, <1>2, <2>1, <2>3, <3>1 DEF IoInv, Fetching, Reported
  <2> QED
    BY <1>13, <2>2, <2>3 DEF IoBreakRead
<1> QED
  BY <1>1, <1>4, <1>5, <1>6, <1>7, <1>9, <1>10, <1>11, <1>12, <1>13
     DEF SvHandle, SvContinue

LEMMA IoInvInit == Init => IoInv
BY DEF Init, OcdInit, IoInv, Learnt, Fetching, Reported, AtPoll, Releasing

LEMMA IoInvNext == TypeInv /\ IoInv /\ [Next]_vars => IoInv'
<1> SUFFICES ASSUME TypeInv, IoInv, [Next]_vars PROVE IoInv'
  OBVIOUS
<1>1. CASE UNCHANGED vars
  BY <1>1 DEF vars, cpuVars, ocdVars, svVars, IoInv, Learnt, Fetching, Reported, AtPoll,
              Current, Stalled
<1> QED
  BY <1>1, IoInvSupervisor, IoInvOcdStep, IoInvCpu DEF Next

\* Whenever the firmware is back at its polls and says IORD or IOWR, the CPU is stalled in
\* that I/O cycle, at the address and in the direction the host is told: whatever the
\* program, the host's commands and breaks did before.
THEOREM IoIsStalled == Spec => []IoTruth
<1>1. TypeInv /\ IoInv => IoTruth
  <2> SUFFICES ASSUME TypeInv, IoInv, AtPoll, status \in {"IORD", "IOWR"}
               PROVE  /\ cpu.phase = "T2" /\ IoCycle
                      /\ cpu.cur.a = ioaddr
                      /\ cpu.cur.wr = (status = "IOWR")
                      /\ en /\ ~ready
    BY DEF IoTruth
  <2>1. cpu.cur.wr \in BOOLEAN
    BY DEF TypeInv, CpuInv, CpuType, CycleType, CycleRecord
  <2>2. Stalled /\ cpu.cur.a = ioaddr /\ (cpu.cur.wr <=> (status = "IOWR"))
    BY DEF IoInv, Reported
  <2>3. cpu.cur.wr = (status = "IOWR")
    BY <2>1, <2>2
  <2> QED
    BY <2>2, <2>3 DEF Stalled, IoCycle, InCycle
<1> QED
  BY <1>1, InitType, TypeInvNext, IoInvInit, IoInvNext, PTL DEF Spec

\* When sv_iobreak has read the word and the port of an I/O write, they are those of the
\* cycle the CPU is in.
THEOREM WritesCaptured == Spec => IoWriteCaptured
<1>1. IoInv /\ [Next]_vars => [loc = "iowr_wait" /\ loc' # loc =>
                                  iodata' = cpu.cur.din /\ ioaddr = cpu.cur.a]_vars
  <2> SUFFICES ASSUME IoInv, Next, loc = "iowr_wait", loc' # loc
               PROVE  iodata' = cpu.cur.din /\ ioaddr = cpu.cur.a
    OBVIOUS
  <2>1. Supervisor
    BY DEF Next, OcdStep, Cpu, CpuControl, CpuBus, CpuNmi, CpuQuiet, svVars
  <2>2. IoBreakWriteDone
    BY <2>1 DEF Supervisor, SvHandle, SvContinue, Refuse, SvStop, SvStart, SvBrk, HostCont,
       SvSetIoData, SvGetRegs, SvInit, SvInitDone, NoCommand, SvStopDone, SvBrkDone,
       SvGetRegsRestore, SvGetRegsDone, OcdRunning, IoBreakWrite, IoBreakRead, IoBreak,
       Receives, Waited
  <2>3. /\ Stalled /\ cpu.cur.a = ioaddr /\ prog = "read_io" /\ pc \in 1 .. 2
        /\ pc = 2 => regs[REG_IODATA] = cpu.cur.din
    BY DEF IoInv, Fetching
  <2>4. Current.op = "EXIT" /\ iodata' = regs[REG_IODATA]
    BY <2>2 DEF IoInv, IoBreakWriteDone, Waited
  <2>5. pc # 1
    BY <2>3, <2>4, ReadIoCode DEF Current, To, Ins
  <2> QED
    BY <2>3, <2>4, <2>5
<1> QED
  BY <1>1, InitType, TypeInvNext, IoInvInit, IoInvNext, PTL DEF Spec, IoWriteCaptured

-----------------------------------------------------------------------------
(* Without breaks *)

\* What the OCD executes for a host that sends no BRK.
CalmPrograms == { "blank", "reset", "start", "read_io", "write_io" }
CalmOps == { "EXIT", "RESET", "ATTACH", "START", "DETACH", "WAITIO", "LDAL", "LDWR",
             "LDD", "STD" }

\* start or write_io is on its way to the next I/O cycle; the one before, if the CPU is
\* still in it, has been granted.
Granting ==
    /\ pc = 1 => \/ prog = "start" /\ reset /\ en
                 \/ /\ Stalled /\ io.stage = "granted"
                    /\ prog = "start" => cpu.cur.wr
                    /\ prog = "write_io" => regs[REG_IODATA] = io.word
    /\ pc = 2 => /\ en /\ cpu.phase \in {"reset", "idle", "T2"}
                 /\ cpu.phase = "T2" => /\ ~cpu.cur.mio /\ io.stage = "granted"
                                        /\ prog = "start" => cpu.cur.wr
                                        /\ prog = "write_io" => ready /\ dout = io.word
    /\ pc = 3 => /\ ~en
                 /\ cpu.phase = "T1" => waiting
                 /\ cpu.phase = "T2" /\ ~cpu.cur.mio => io.stage = "granted" /\ cpu.cur.wr

CalmInv ==
    /\ cpu.level = "prog" /\ cpu.phase # "held" /\ ~cpu.nmi /\ ~nmi /\ ~hold
    /\ prog \in CalmPrograms
    /\ waiting => Current.op \in {"EXIT", "WAITIO"}
    /\ loc \notin {"brk_wait", "regs_wait", "esp_wait"}
    /\ Attended => status \in {"STOP", "RUNNING", "IORD", "IOWR"}
    /\ Attended /\ prog \in {"start", "write_io"} /\ status = "RUNNING" => Granting

LEMMA CalmCode ==
    /\ Code["start"][1].op = "START" /\ Code["start"][2].op = "DETACH"
    /\ Code["start"][3].op = "WAITIO"
    /\ Code["write_io"][1] = From("STD", 3) /\ Code["write_io"][2].op = "DETACH"
    /\ Code["write_io"][3].op = "WAITIO"
    /\ \A p \in CalmPrograms : \A i \in 1 .. Len(Code[p]) : Code[p][i].op \in CalmOps
<1>1. /\ Code["start"][1].op = "START" /\ Code["start"][2].op = "DETACH"
      /\ Code["start"][3].op = "WAITIO"
  BY DEF Code, Synth, SynthOp, PrgmStart, ReleaseUntilIo, Do, To, Ins
<1>2. /\ Code["write_io"][1] = From("STD", 3) /\ Code["write_io"][2].op = "DETACH"
      /\ Code["write_io"][3].op = "WAITIO"
  BY DEF Code, Synth, SynthOp, PrgmWriteIo, ReleaseUntilIo, Do, To, From, Ins
<1>3. \A i \in 1 .. Len(Code["start"]) : Code["start"][i].op \in CalmOps
  <2>1. ReleasesAt(Code["start"], 3)
    BY ReleasingCode DEF Releasing, WaitIoAt
  <2> QED
    BY <1>1, <2>1 DEF ReleasesAt, To, Do, Ins, CalmOps
<1>4. \A i \in 1 .. Len(Code["write_io"]) : Code["write_io"][i].op \in CalmOps
  <2>1. ReleasesAt(Code["write_io"], 3)
    BY ReleasingCode DEF Releasing, WaitIoAt
  <2> QED
    BY <1>2, <2>1 DEF ReleasesAt, To, From, Do, Ins, CalmOps
<1>5. \A i \in 1 .. Len(Code["reset"]) : Code["reset"][i].op \in CalmOps
  <2>1. Len(Code["reset"]) = 3
    BY ShortTypes DEF Loadable, Code
  <2> QED
    BY <2>1, ResetCode DEF CalmOps
<1>6. \A i \in 1 .. Len(Code["read_io"]) : Code["read_io"][i].op \in CalmOps
  <2>1. Len(Code["read_io"]) = 2
    BY ShortTypes DEF Loadable, Code
  <2> QED
    BY <2>1, ReadIoCode DEF CalmOps, To, Ins
<1>7. \A i \in 1 .. Len(Code["blank"]) : Code["blank"][i].op \in CalmOps
  BY DEF Code, Do, Ins, CalmOps
<1> QED
  BY <1>1, <1>2, <1>3, <1>4, <1>5, <1>6, <1>7 DEF CalmPrograms

LEMMA CalmOcdStep ==
    ASSUME TypeInv, IoInv, CalmInv, OcdStep
    PROVE  CalmInv'
<1>1. /\ cpu \in CpuType /\ regs \in [RegIds -> Word] /\ stop \in BOOLEAN /\ ready \in BOOLEAN
      /\ en \in BOOLEAN /\ reset \in BOOLEAN /\ pc \in 1 .. Len(Code[prog]) /\ dout \in Word
  BY DEF TypeInv, CpuInv, OcdTypeOK
<1>2. Current.op \in CalmOps
  BY <1>1, CalmCode DEF CalmInv, Current
<1>3. OcdWait(Pins) \/ OcdRetire(Pins)
  BY DEF OcdStep
<1>4. ~nmi' /\ ~hold'
  BY <1>2, <1>3 DEF CalmInv, CalmOps, OcdWait, OcdRetire, DoExec, DoStore, ExecNmi
<1>5. /\ prog' = prog /\ io' = IoAfter(cpu')
      /\ UNCHANGED << loc, status >>
  BY DEF OcdStep, OcdWait, OcdRetire, svVars
<1>6. /\ cpu'.level = "prog" /\ cpu'.phase # "held" /\ ~cpu'.nmi
  <2>1. cpu' = ResetCpu("reset") \/ cpu' = T1Over
    BY <1>4 DEF OcdStep, OcdPinsDriven
  <2>2. CASE cpu' = ResetCpu("reset")
    BY <2>2 DEF ResetCpu
  <2>3. CASE cpu' = T1Over
    <3>1. cpu' = cpu \/ cpu' = [cpu EXCEPT !.phase = "T2"]
      BY <2>3 DEF T1Over
    <3> QED
      BY <1>1, <3>1 DEF CalmInv, CpuType
  <2> QED
    BY <2>1, <2>2, <2>3
<1>7. waiting' => Current'.op \in {"EXIT", "WAITIO"}
  <2>1. CASE OcdWait(Pins)
    <3>1. Current' = Current
      BY <2>1 DEF OcdWait, Current
    <3> QED
      BY <1>2, <2>1, <3>1 DEF OcdWait, ExecWait, CalmOps
  <2>2. CASE OcdRetire(Pins)
    BY <2>2 DEF OcdRetire
  <2> QED
    BY <1>3, <2>1, <2>2
<1>8. ASSUME Granting, prog \in {"start", "write_io"} PROVE Granting'
  <2>1. /\ reset' => cpu'.phase = "reset"
        /\ ~reset' => /\ cpu'.cur = cpu.cur
                      /\ cpu'.phase = cpu.phase \/ (cpu.phase = "T1" /\ cpu'.phase = "T2")
    BY <1>1, PinsKeepCycle DEF OcdStep
  <2>2. ReleasesAt(Code[prog], 3)
    BY <1>8, ReleasingCode DEF Releasing, WaitIoAt
  <2>3. pc \in 1 .. 6
    BY <1>1, <2>2 DEF ReleasesAt
  <2>4. cpu'.phase = "T2" => io' = io
    BY <1>5 DEF IoAfter
  <2>9. OcdRetire(Pins) => pc' = pc + 1
    BY <1>2 DEF OcdRetire, DoStore, NextPc, BranchTaken, CalmOps
  <2>5. CASE pc = 1
    <3>1. Current.op = (IF prog = "start" THEN "START" ELSE "STD")
      BY <1>8, <2>5, CalmCode DEF Current, From, Ins
    <3>2. OcdRetire(Pins) /\ pc' = 2
      BY <1>3, <2>5, <2>9, <3>1 DEF OcdWait, ExecWait
    <3>3. en' = en /\ (reset' <=> reset /\ prog # "start")
      BY <1>1, <1>8, <3>1, <3>2 DEF OcdRetire, DoExec, DoStore, ExecEn, WaitOps
    <3>4. CASE prog = "start" /\ reset /\ en
      <4>1. cpu.phase = "reset"
        BY <3>4 DEF IoInv
      <4> QED
        BY <2>1, <3>2, <3>3, <3>4, <4>1 DEF Granting
    <3>5. CASE /\ Stalled /\ io.stage = "granted"
               /\ prog = "start" => cpu.cur.wr
               /\ prog = "write_io" => regs[REG_IODATA] = io.word
      <4>1. cpu'.cur = cpu.cur /\ cpu'.phase = "T2" /\ io' = io /\ en'
        BY <2>1, <2>4, <3>3, <3>5 DEF Stalled
      <4>2. prog = "write_io" => ready' /\ dout' = io.word
        <5>1. SUFFICES ASSUME prog = "write_io" PROVE ready' /\ dout' = io.word
          OBVIOUS
        <5>2. Current.op = "STD" /\ Current.s = 3
          BY <2>5, <5>1, CalmCode DEF Current, From, Ins
        <5>3. ready'
          BY <3>2, <5>2 DEF OcdRetire, DoStore, ExecReady, AssertsReady, WaitOps
        <5>4. dout' = regs[3]
          BY <3>2, <5>2 DEF OcdRetire, DoExec, Source, LoadsRegister
        <5> QED
          BY <3>5, <5>1, <5>3, <5>4 DEF REG_IODATA
      <4> QED
        BY <1>5, <3>2, <3>5, <4>1, <4>2 DEF Granting, Stalled
    <3> QED
      BY <1>8, <2>5, <3>4, <3>5 DEF Granting
  <2>6. CASE pc = 2
    <3>1. Current.op = "DETACH"
      BY <1>8, <2>6, CalmCode DEF Current
    <3>2. OcdRetire(Pins) /\ pc' = 3 /\ ReadySampled
      BY <1>3, <2>6, <2>9, <3>1 DEF OcdStep, OcdWait, ExecWait
    <3>3. ~en'
      BY <3>1, <3>2 DEF OcdRetire, DoStore, ExecEn, WaitOps
    <3>4. en /\ cpu.phase \in {"reset", "idle", "T2"}
      BY <1>8, <2>6 DEF Granting
    <3>5. cpu.phase = "T2" => prog = "start" /\ cpu.cur.wr /\ io.stage = "granted"
      BY <1>8, <2>6, <3>2, <3>4 DEF Granting, ReadySampled
    <3>6. cpu'.phase # "T1"
      BY <2>1, <3>4
    <3>7. cpu'.phase = "T2" => cpu.phase = "T2" /\ cpu'.cur = cpu.cur /\ io' = io
      BY <2>1, <2>4, <3>4
    <3> QED
      BY <3>2, <3>3, <3>5, <3>6, <3>7 DEF Granting
  <2>7. CASE pc = 3
    <3>1. Current.op = "WAITIO"
      BY <1>8, <2>7, CalmCode DEF Current
    <3>2. CASE OcdRetire(Pins)
      <4>1. pc' = 4
        BY <2>7, <2>9, <3>2
      <4> QED
        BY <4>1 DEF Granting
    <3>3. CASE OcdWait(Pins)
      <4>1. pc' = 3 /\ waiting' /\ ~waiting
        BY <2>7, <3>3 DEF OcdWait
      <4>2. ~en'
        BY <1>8, <2>7, <3>1, <3>3 DEF OcdWait, ExecEn, Granting
      <4>3. cpu.phase # "T1"
        BY <1>8, <2>7, <4>1 DEF Granting
      <4>4. cpu'.phase = "T2" => cpu.phase = "T2" /\ cpu'.cur = cpu.cur /\ io' = io
        BY <2>1, <2>4, <4>3
      <4> QED
        BY <1>8, <2>7, <4>1, <4>2, <4>4 DEF Granting
    <3> QED
      BY <1>3, <3>2, <3>3
  <2>8. CASE pc \in 4 .. 6
    <3>1. pc' = pc \/ pc' = pc + 1
      BY <1>3, <2>9 DEF OcdWait
    <3>2. pc' # 1 /\ pc' # 2 /\ pc' # 3
      BY <2>8, <3>1
    <3> QED
      BY <3>2 DEF Granting
  <2> QED
    BY <2>3, <2>5, <2>6, <2>7, <2>8
<1> QED
  BY <1>4, <1>5, <1>6, <1>7, <1>8 DEF CalmInv, Attended

LEMMA CalmCpu ==
    ASSUME TypeInv, IoInv, CalmInv, Cpu
    PROVE  CalmInv'
<1>1. /\ UNCHANGED << ocdVars, svVars >> /\ io' = IoAfter(cpu') /\ ~Stalled /\ ~reset
      /\ cpu \in CpuType
  BY StalledCpu DEF Cpu, CpuControl, CpuBus, CpuNmi, CpuQuiet, TypeInv, CpuInv
<1>2. /\ cpu'.level = "prog" /\ ~cpu'.nmi
      /\ \/ cpu'.phase = "idle"
         \/ cpu'.phase = "T1" /\ cpu.phase = "idle" /\ waiting
         \/ /\ cpu.phase = "T1" /\ cpu'.phase = "T2" /\ cpu'.cur = cpu.cur
            /\ ~(waiting /\ Current.op \in WaitOps /\ ~ExecWait(Current.op, Pins))
  <2>1. CASE CpuControl
    <3>1. \/ cpu' = [cpu EXCEPT !.phase = "idle"]
          \/ cpu' = [cpu EXCEPT !.mode = "prot"] /\ cpu.phase = "idle"
      BY <2>1 DEF CpuControl, CpuRelease, CpuEnterProtected, CpuHold, CpuUnhold, CalmInv
    <3> QED
      BY <1>1, <3>1 DEF CalmInv, CpuType
  <2>2. CASE CpuStart
    <3>1. PICK c \in ProgramCycles : StartCycle(c)
      BY <2>2, StartForms DEF CalmInv
    <3>2. cpu' = [cpu EXCEPT !.phase = "T1", !.cur = c] /\ cpu.phase = "idle" /\ waiting
      BY <3>1 DEF StartCycle, OcdKeepsUp
    <3> QED
      BY <1>1, <3>2 DEF CalmInv, CpuType
  <2>3. CASE CpuT2
    BY <1>1, <2>3 DEF CpuT2, CalmInv, CpuType
  <2>4. CASE CpuFinish
    <3>1. cpu' = [cpu EXCEPT !.phase = "idle"]
      BY <2>4 DEF CpuFinish, CalmInv
    <3> QED
      BY <1>1, <3>1 DEF CalmInv, CpuType
  <2>5. ~CpuNmi
    BY DEF CpuNmi, CpuTakeNmi, CalmInv
  <2> QED
    BY <2>1, <2>2, <2>3, <2>4, <2>5 DEF Cpu, CpuBus
<1>3. ASSUME Granting, prog \in {"start", "write_io"} PROVE Granting'
  <2>1. UNCHANGED << prog, pc, waiting, en, ready, dout, regs >>
    BY <1>1 DEF ocdVars
  <2>2. pc # 1
    BY <1>1, <1>3 DEF Granting
  <2>3. pc = 2 => Current.op = "DETACH"
    BY <1>3, CalmCode DEF Current
  <2>4. pc = 3 => Current.op = "WAITIO"
    BY <1>3, CalmCode DEF Current
  <2>5. CASE cpu'.phase = "idle"
    BY <1>3, <2>1, <2>2, <2>5 DEF Granting
  <2>6. CASE cpu'.phase = "T1" /\ cpu.phase = "idle" /\ waiting
    <3>1. pc # 2
      BY <2>3, <2>6 DEF CalmInv
    <3> QED
      BY <1>3, <2>1, <2>2, <2>6, <3>1 DEF Granting
  <2>7. CASE /\ cpu.phase = "T1" /\ cpu'.phase = "T2" /\ cpu'.cur = cpu.cur
             /\ ~(waiting /\ Current.op \in WaitOps /\ ~ExecWait(Current.op, Pins))
    <3>1. pc # 2
      BY <1>3, <2>7 DEF Granting
    <3>2. pc = 3 => cpu.cur.mio
      <4>1. SUFFICES ASSUME pc = 3 PROVE cpu.cur.mio
        OBVIOUS
      <4>2. waiting /\ Current.op = "WAITIO"
        BY <1>3, <2>4, <2>7, <4>1 DEF Granting
      <4> QED
        BY <2>7, <4>2 DEF ExecWait, WaitOps, Pins
    <3> QED
      BY <1>3, <2>1, <2>2, <2>7, <3>1, <3>2 DEF Granting
  <2> QED
    BY <1>2, <2>5, <2>6, <2>7
<1>4. UNCHANGED << prog, pc, waiting, nmi, hold, loc, status >> /\ Current' = Current
  BY <1>1 DEF ocdVars, svVars, Current
<1>5. cpu'.phase # "held"
  BY <1>2
<1> QED
  BY <1>2, <1>3, <1>4, <1>5 DEF CalmInv, Attended

LEMMA CalmSupervisor ==
    ASSUME "BRK" \notin Commands, TypeInv, IoInv, StopInv, CalmInv, Supervisor
    PROVE  CalmInv'
<1>1. cpu' = cpu /\ (SvHandle \/ SvContinue)
  BY DEF Supervisor, cpuVars
<1>2. UNCHANGED ocdVars => /\ UNCHANGED << prog, pc, waiting, nmi, hold, reset, en, ready,
                                           dout, regs >>
                           /\ Current' = Current
  BY DEF ocdVars, Current
<1>3. ASSUME NEW p \in CalmPrograms, OcdRun(p)
      PROVE  prog' = p /\ pc' = 1 /\ ~waiting' /\ ~nmi' /\ ~hold'
             /\ UNCHANGED << en, ready, reset, dout >>
  BY <1>3 DEF OcdRun, CalmInv
<1> USE DEF Goto, Receives, Waited
<1>4. CASE Refuse \/ NoCommand \/ OcdRunning \/ SvSetIoData
  <2>1. UNCHANGED ocdVars /\ UNCHANGED << status, io >>
    BY <1>4 DEF Refuse, NoCommand, OcdRunning, SvSetIoData, dataVars
  <2>2. loc \in {"uart", "ocd"} /\ loc' \in {"uart", "ocd"}
    BY <1>4 DEF Refuse, NoCommand, OcdRunning, SvSetIoData
  <2>3. Granting => Granting'
    BY <1>1, <1>2, <2>1 DEF Granting, Stalled
  <2> QED
    BY <1>1, <1>2, <2>1, <2>2, <2>3 DEF CalmInv, Attended
<1>5. CASE SvInit \/ SvStop
  <2>1. OcdRun("reset") /\ loc' \in {"init_wait", "stop_wait"} /\ status' = status
    BY <1>5 DEF SvInit, SvStop
  <2>2. "reset" \in CalmPrograms
    BY DEF CalmPrograms
  <2> QED
    BY <1>1, <1>3, <2>1, <2>2 DEF CalmInv, Attended
<1>6. CASE SvInitDone \/ SvStopDone
  <2>1. UNCHANGED ocdVars /\ status' = "STOP" /\ loc' \in {"uart", "ocd"}
    BY <1>6 DEF SvInitDone, SvStopDone
  <2> QED
    BY <1>1, <1>2, <2>1 DEF CalmInv
<1>7. CASE SvStart
  <2>1. OcdRun("start") /\ loc' = "ocd" /\ status' = "RUNNING"
    BY <1>7 DEF SvStart, Running
  <2>2. reset /\ en
    BY <1>7 DEF SvStart, StopInv, AtPoll, ResetProgress
  <2>3. "start" \in CalmPrograms
    BY DEF CalmPrograms
  <2>4. /\ prog' = "start" /\ pc' = 1 /\ ~waiting' /\ ~nmi' /\ ~hold'
        /\ en' = en /\ reset' = reset
    BY <1>3, <2>1, <2>3
  <2>5. Granting'
    BY <2>2, <2>4 DEF Granting
  <2> QED
    BY <1>1, <2>1, <2>3, <2>4, <2>5 DEF CalmInv
<1>8. ~(SvBrk \/ SvBrkDone \/ SvGetRegs \/ SvGetRegsRestore \/ SvGetRegsDone)
  BY DEF SvBrk, SvBrkDone, SvGetRegs, SvGetRegsRestore, SvGetRegsDone, CalmInv, Attended
<1>9. ASSUME NEW st, NEW word, SvCont(st, word), st \in {"IORD", "IOWR"}, Stalled,
             st = "IOWR" => cpu.cur.wr, loc' \in {"uart", "ocd"}
      PROVE  CalmInv'
  <2>1. CASE st = "IORD"
    <3>1. /\ OcdRun("write_io") /\ status' = "RUNNING"
          /\ regs' = [regs EXCEPT ![REG_IODATA] = word] /\ io' = Io("granted", word)
      BY <1>9, <2>1 DEF SvCont, Running
    <3>2. regs'[REG_IODATA] = word
      BY <3>1 DEF TypeInv, OcdTypeOK, REG_IODATA, RegIds
    <3>3. "write_io" \in CalmPrograms
      BY DEF CalmPrograms
    <3>4. /\ prog' = "write_io" /\ pc' = 1 /\ ~waiting' /\ ~nmi' /\ ~hold'
          /\ en' = en /\ reset' = reset /\ ready' = ready
      BY <1>3, <3>1, <3>3
    <3>5. Stalled'
      BY <1>1, <1>9, <3>4 DEF Stalled
    <3>6. io'.stage = "granted" /\ io'.word = word
      BY <3>1 DEF Io
    <3>7. Granting'
      BY <3>2, <3>4, <3>5, <3>6 DEF Granting
    <3> QED
      BY <1>1, <1>9, <3>1, <3>3, <3>4, <3>7 DEF CalmInv
  <2>2. CASE st = "IOWR"
    <3>1. OcdRun("start") /\ status' = "RUNNING" /\ io' = Io("granted", 0)
      BY <1>9, <2>2 DEF SvCont, Running
    <3>2. "start" \in CalmPrograms
      BY DEF CalmPrograms
    <3>4. /\ prog' = "start" /\ pc' = 1 /\ ~waiting' /\ ~nmi' /\ ~hold'
          /\ en' = en /\ reset' = reset /\ ready' = ready
      BY <1>3, <3>1, <3>2
    <3>5. Stalled'
      BY <1>1, <1>9, <3>4 DEF Stalled
    <3>6. io'.stage = "granted" /\ cpu'.cur.wr
      BY <1>1, <1>9, <2>2, <3>1 DEF Io
    <3>7. Granting'
      BY <3>4, <3>5, <3>6 DEF Granting
    <3> QED
      BY <1>1, <1>9, <3>1, <3>2, <3>4, <3>7 DEF CalmInv
  <2> QED
    BY <1>9, <2>1, <2>2
<1>10. CASE HostCont
  <2>1. SvCont(status, iodata) /\ loc = "uart" /\ loc' = "ocd"
    BY <1>10 DEF HostCont
  <2>2. status \in {"STOP", "RUNNING", "IORD", "IOWR"}
    BY <2>1 DEF CalmInv, Attended
  <2>3. status \in {"IORD", "IOWR"}
    BY <2>1, <2>2 DEF SvCont
  <2>4. Stalled /\ (status = "IOWR" => cpu.cur.wr)
    BY <2>1, <2>3 DEF IoInv, Reported, AtPoll
  <2> QED
    BY <1>9, <2>1, <2>3, <2>4
<1>11. CASE IoBreakWrite
  <2>1. OcdRun("read_io") /\ loc = "ocd" /\ loc' = "iowr_wait" /\ status' = status
    BY <1>11 DEF IoBreakWrite, IoBreak
  <2>2. "read_io" \in CalmPrograms
    BY DEF CalmPrograms
  <2> QED
    BY <1>1, <1>3, <2>1, <2>2 DEF CalmInv, Attended
<1>12. CASE IoBreakWriteDone
  <2>1. Stalled /\ cpu.cur.wr /\ loc' = "uart" /\ loc = "iowr_wait"
    BY <1>12 DEF IoInv, Fetching, IoBreakWriteDone
  <2>2. CASE SvCont("IOWR", iodata')
    <3>1. \E word : SvCont("IOWR", word)
      BY <2>2 DEF SvCont
    <3> QED
      BY <1>9, <2>1, <3>1
  <2>3. CASE status' = "IOWR" /\ UNCHANGED ocdVars
    BY <1>1, <1>2, <2>1, <2>3 DEF CalmInv
  <2> QED
    BY <1>12, <2>2, <2>3 DEF IoBreakWriteDone
<1>13. CASE IoBreakRead
  <2>1. Stalled /\ loc' = "uart"
    BY <1>13, IoBreakKnows DEF IoBreakRead
  <2>2. CASE SvCont("IORD", iodata')
    <3>1. \E word : SvCont("IORD", word)
      BY <2>2 DEF SvCont
    <3> QED
      BY <1>9, <2>1, <3>1
  <2>3. CASE status' = "IORD" /\ UNCHANGED ocdVars
    BY <1>1, <1>2, <2>1, <2>3 DEF CalmInv
  <2> QED
    BY <1>13, <2>2, <2>3 DEF IoBreakRead
<1> QED
  BY <1>1, <1>4, <1>5, <1>6, <1>7, <1>8, <1>10, <1>11, <1>12, <1>13
     DEF SvHandle, SvContinue

LEMMA CalmInit == Init => CalmInv
BY DEF Init, OcdInit, CalmInv, CalmPrograms, Attended, ResetCpu

LEMMA CalmNext ==
    ASSUME "BRK" \notin Commands
    PROVE  TypeInv /\ IoInv /\ StopInv /\ CalmInv /\ [Next]_vars => CalmInv'
<1> SUFFICES ASSUME TypeInv, IoInv, StopInv, CalmInv, [Next]_vars PROVE CalmInv'
  OBVIOUS
<1>1. CASE UNCHANGED vars
  BY <1>1 DEF vars, cpuVars, ocdVars, svVars, CalmInv, Granting, Attended, Current, Stalled
<1> QED
  BY <1>1, CalmSupervisor, CalmOcdStep, CalmCpu DEF Next

\* Only the CPU ends its cycle, when READY# is asserted.
LEMMA EndOfCycle ==
    ASSUME TypeInv, Next, CycleEnds
    PROVE  ReadySeen /\ ~Stalled /\ ~reset
<1>1. cpu \in CpuType
  BY DEF TypeInv, CpuInv
<1>2. ~Supervisor
  BY DEF Supervisor, cpuVars, CycleEnds
<1>3. ~OcdStep
  <2> SUFFICES ASSUME OcdStep PROVE FALSE
    OBVIOUS
  <2> QED
    BY <1>1, PinsKeepCycle DEF OcdStep, CycleEnds
<1>4. Cpu /\ ~Stalled /\ ~reset
  BY <1>2, <1>3, StalledCpu DEF Next
<1>5. CpuStart => cpu.phase = "idle"
  BY StartForms DEF StartCycle
<1>6. ReadySeen
  BY <1>4, <1>5 DEF CycleEnds, Cpu, CpuControl, CpuBus, CpuNmi, CpuRelease,
     CpuEnterProtected, CpuHold, CpuUnhold, CpuT2, CpuFinish, CpuTakeNmi
<1> QED
  BY <1>4, <1>6

\* Where the OCD and the supervisor are when the CPU's cycle ends.
LEMMA CalmCycleEnds ==
    ASSUME TypeInv, IoInv, StopInv, CalmInv, Next, CycleEnds, Attended
    PROVE  /\ cpu.phase = "T2" /\ ReadySeen
           /\ prog \in {"start", "write_io"} /\ Granting /\ pc \in {2, 3}
<1>4. ~Stalled /\ ~reset
  BY EndOfCycle
<1>6. cpu.phase = "T2" /\ ReadySeen
  BY EndOfCycle DEF CycleEnds
<1>7. loc \in {"uart", "ocd", "iowr_wait"}
  BY DEF TypeInv, SvType, Locations, Attended, CalmInv
<1>8. loc \in {"uart", "ocd"} /\ status = "RUNNING"
  <2>1. loc # "iowr_wait"
    BY <1>4 DEF IoInv, Fetching
  <2>2. status # "STOP"
    BY <1>4, <1>7, <2>1 DEF StopInv, AtPoll, ResetProgress, IoInv
  <2>3. status \notin {"IORD", "IOWR"}
    BY <1>4, <1>7, <2>1 DEF IoInv, Reported, AtPoll
  <2> QED
    BY <1>7, <2>1, <2>2, <2>3 DEF CalmInv
<1>9. prog \in {"start", "write_io"}
  BY <1>8 DEF IoInv, AtPoll, Releasing, CalmInv, CalmPrograms
<1>10. Granting
  BY <1>8, <1>9 DEF CalmInv
<1>11. pc \in {2, 3}
  <2>1. ReleasesAt(Code[prog], 3) /\ WaitIoAt(prog) = 3 /\ prog \in Releasing
    BY <1>9, ReleasingCode DEF Releasing, WaitIoAt
  <2>2. pc \in 1 .. 6
    BY <2>1 DEF TypeInv, OcdTypeOK, ReleasesAt
  <2>3. pc # 1
    BY <1>4, <1>10 DEF Granting
  <2>4. ~(pc > 3)
    BY <1>4, <2>1 DEF IoInv, Learnt
  <2> QED
    BY <2>2, <2>3, <2>4
<1> QED
  BY <1>6, <1>9, <1>10, <1>11

\* For a host that sends no BRK, an I/O cycle of the program ends only when the supervisor
\* has granted it, and a read returns the word the supervisor held for it then.
THEOREM IoIsServed ==
    ASSUME "BRK" \notin Commands
    PROVE  Spec => IoServed
<1>1. TypeInv /\ IoInv /\ StopInv /\ CalmInv /\ [Next]_vars =>
        [CycleEnds /\ ~cpu.cur.mio /\ Attended =>
            /\ io.stage = "granted"
            /\ ~cpu.cur.wr => en /\ WordSeen = io.word]_vars
  <2> SUFFICES ASSUME TypeInv, IoInv, StopInv, CalmInv, Next, CycleEnds, ~cpu.cur.mio,
                      Attended
               PROVE  /\ io.stage = "granted"
                      /\ ~cpu.cur.wr => en /\ WordSeen = io.word
    OBVIOUS
  <2>1. /\ cpu.phase = "T2" /\ ReadySeen
        /\ prog \in {"start", "write_io"} /\ Granting /\ pc \in {2, 3}
    BY CalmCycleEnds
  <2> QED
    BY <2>1 DEF Granting, WordSeen
<1>2. TypeInv /\ IoInv /\ StopInv /\ CalmInv /\ [Next]_vars => CalmInv'
  BY CalmNext
<1> QED
  BY <1>1, <1>2, InitType, TypeInvNext, IoInvInit, IoInvNext, StopInvInit, StopInvNext,
     CalmInit, PTL DEF Spec, IoServed

-----------------------------------------------------------------------------
(* The programs of a break, as the assembler leaves them *)

\* The words the break program answers the table reads of an NMI with.
FakeTable(j) == IF j <= 4 THEN FakeIdtEntry[j] ELSE FakeGdtEntry[j - 4]

\* What the source of the break program says up to its end in protected mode.
LEMMA BreakSource ==
    LET c == PrgmBreak
    IN  /\ c[1] = Do("NMI") /\ c[2] = Do("WAITLOCK")
        /\ c[3] = To("LDAL", 2) /\ c[4] = To("LDAH", 3) /\ c[5] = From("LDCMP", 2)
        /\ c[6] = Ldi(1, 8) /\ c[7] = From("CMP", 1) /\ c[8] = Jump("BNE", 11)
        /\ c[9] = From("LDCMP", 3) /\ c[10] = Jump("BEQ", 57)
        /\ \A q \in 0 .. 7 : c[11 + 3 * q] = Ldi(1, FakeTable(1 + q))
        /\ \A q \in 0 .. 7 : c[12 + 3 * q] = From("STD", 1) /\ c[13 + 3 * q] = Do("WAITADS")
        /\ c[35] = Do("READY") /\ c[36] = Do("WAITADS")
        /\ c[37] = Ldi(1, NopNop) /\ c[38] = From("STD", 1) /\ c[39] = Do("WAITADS")
        /\ \A q \in 0 .. 3 : c[40 + 3 * q] = To("LDD", 2 + q)
        /\ \A q \in 0 .. 3 : c[41 + 3 * q] = Do("READY") /\ c[42 + 3 * q] = Do("WAITADS")
        /\ c[52] = To("LDD", 6) /\ c[53] = Do("READY") /\ c[54] = Ldi(1, 1)
        /\ c[55] = Do("HOLD") /\ c[56] = Do("EXIT")
<1> USE DEF PrgmBreak, BreakEntry, BreakProtectedMode, BreakRealMode, Serve, Capture,
            Do, To, From, Ldi, Jump, Ins
<1>1. PrgmBreak[1] = Do("NMI") /\ PrgmBreak[2] = Do("WAITLOCK")
  BY DEF FakeIdtEntry, FakeGdtEntry
<1>2. /\ PrgmBreak[3] = To("LDAL", 2) /\ PrgmBreak[4] = To("LDAH", 3)
      /\ PrgmBreak[5] = From("LDCMP", 2)
  BY DEF FakeIdtEntry, FakeGdtEntry
<1>3. PrgmBreak[6] = Ldi(1, 8) /\ PrgmBreak[7] = From("CMP", 1)
  BY DEF FakeIdtEntry, FakeGdtEntry
<1>14. PrgmBreak[8] = Jump("BNE", 11)
  BY DEF FakeIdtEntry, FakeGdtEntry
<1>4. PrgmBreak[9] = From("LDCMP", 3) /\ PrgmBreak[10] = Jump("BEQ", 57)
  BY DEF FakeIdtEntry, FakeGdtEntry
<1>5. \A q \in 0 .. 3 : PrgmBreak[11 + 3 * q] = Ldi(1, FakeTable(1 + q))
  BY DEF FakeIdtEntry, FakeGdtEntry, FakeTable
<1>6. \A q \in 4 .. 7 : PrgmBreak[11 + 3 * q] = Ldi(1, FakeTable(1 + q))
  <2>1. /\ PrgmBreak[23] = Ldi(1, FakeTable(5)) /\ PrgmBreak[26] = Ldi(1, FakeTable(6))
    BY DEF FakeIdtEntry, FakeGdtEntry, FakeTable
  <2>2. /\ PrgmBreak[29] = Ldi(1, FakeTable(7)) /\ PrgmBreak[32] = Ldi(1, FakeTable(8))
    BY DEF FakeIdtEntry, FakeGdtEntry, FakeTable
  <2> HIDE DEF PrgmBreak, Ldi
  <2> QED
    BY <2>1, <2>2
<1>7. /\ \A q \in 0 .. 7 : PrgmBreak[12 + 3 * q] = From("STD", 1)
      /\ \A q \in 0 .. 7 : PrgmBreak[13 + 3 * q] = Do("WAITADS")
  BY DEF FakeIdtEntry, FakeGdtEntry
<1>8. PrgmBreak[35] = Do("READY") /\ PrgmBreak[36] = Do("WAITADS")
  BY DEF FakeIdtEntry, FakeGdtEntry
<1>9. /\ PrgmBreak[37] = Ldi(1, NopNop) /\ PrgmBreak[38] = From("STD", 1)
      /\ PrgmBreak[39] = Do("WAITADS")
  BY DEF FakeIdtEntry, FakeGdtEntry
<1>10. \A q \in 0 .. 3 : PrgmBreak[40 + 3 * q] = To("LDD", 2 + q)
  BY DEF FakeIdtEntry, FakeGdtEntry
<1>11. /\ \A q \in 0 .. 3 : PrgmBreak[41 + 3 * q] = Do("READY")
       /\ \A q \in 0 .. 3 : PrgmBreak[42 + 3 * q] = Do("WAITADS")
  BY DEF FakeIdtEntry, FakeGdtEntry
<1>12. PrgmBreak[52] = To("LDD", 6) /\ PrgmBreak[53] = Do("READY") /\ PrgmBreak[54] = Ldi(1, 1)
  BY DEF FakeIdtEntry, FakeGdtEntry
<1>13. PrgmBreak[55] = Do("HOLD") /\ PrgmBreak[56] = Do("EXIT")
  BY DEF FakeIdtEntry, FakeGdtEntry
<1> HIDE DEF PrgmBreak, Do, To, From, Ldi, Jump, Ins
<1>15. \A q \in 0 .. 7 : PrgmBreak[11 + 3 * q] = Ldi(1, FakeTable(1 + q))
  BY <1>5, <1>6
<1> QED
  BY <1>1, <1>2, <1>3, <1>4, <1>7, <1>8, <1>9, <1>10, <1>11, <1>12, <1>13, <1>14, <1>15

\* The assembler turns its one BNE into a BEQ and leaves the rest.
LEMMA BreakText ==
    /\ Code["break"][8] = Jump("BEQ", 11)
    /\ \A i \in 1 .. 56 : i # 8 => Code["break"][i] = PrgmBreak[i]
<1>0. Code["break"] = Synth(PrgmBreak)
  BY DEF Code
<1>1. ASSUME NEW i \in 1 .. 56
      PROVE  /\ Code["break"][i] = [PrgmBreak[i] EXCEPT !.op = SynthOp(PrgmBreak[i].op)]
             /\ PrgmBreak[i] \in Instruction
  <2>1. i \in 1 .. 64
    OBVIOUS
  <2> QED
    BY <1>0, <2>1, BreakType
<1>2. Code["break"][8] = Jump("BEQ", 11)
  <2>1. PrgmBreak[8] = Jump("BNE", 11) /\ 8 \in 1 .. 56
    BY BreakSource
  <2>2. Code["break"][8] = [Jump("BNE", 11) EXCEPT !.op = SynthOp(Jump("BNE", 11).op)]
    BY <1>1, <2>1
  <2>3. [Jump("BNE", 11) EXCEPT !.op = SynthOp(Jump("BNE", 11).op)] = Jump("BEQ", 11)
    BY DEF Jump, Ins, SynthOp
  <2> QED
    BY <2>2, <2>3
<1>3. ASSUME NEW i \in 1 .. 56, i # 8 PROVE PrgmBreak[i].op # "BNE"
  <2> USE DEF Do, To, From, Ldi, Jump, Ins
  <2>1. CASE i <= 10
    BY <1>3, <2>1, BreakSource
  <2>2. CASE i \in 11 .. 34
    <3>1. PICK q \in 0 .. 7 : i = 11 + 3 * q \/ i = 12 + 3 * q \/ i = 13 + 3 * q
      <4>1. (i - 11) \div 3 \in 0 .. 7
        BY <2>2
      <4> QED
        BY <2>2, <4>1
    <3> QED
      BY <3>1, BreakSource
  <2>3. CASE i \in 35 .. 39
    BY <2>3, BreakSource
  <2>4. CASE i \in 40 .. 51
    <3>1. PICK q \in 0 .. 3 : i = 40 + 3 * q \/ i = 41 + 3 * q \/ i = 42 + 3 * q
      <4>1. (i - 40) \div 3 \in 0 .. 3
        BY <2>4
      <4> QED
        BY <2>4, <4>1
    <3> QED
      BY <3>1, BreakSource
  <2>5. CASE i \in 52 .. 56
    BY <2>5, BreakSource
  <2> QED
    BY <2>1, <2>2, <2>3, <2>4, <2>5
<1>4. ASSUME NEW r \in Instruction, r.op # "BNE"
      PROVE  [r EXCEPT !.op = SynthOp(r.op)] = r
  BY <1>4 DEF Instruction, SynthOp
<1> QED
  BY <1>1, <1>2, <1>3, <1>4

\* The assembler leaves the other three as they are.
LEMMA ContText ==
    LET c == Code["cont"]
    IN  /\ c[1] = Ldi(1, IretNop) /\ c[2] = Ldi(7, NopNop) /\ c[3] = Do("WAITADS")
        /\ c[4] = From("STD", 1)
        /\ \A q \in 0 .. 8 : c[5 + 2 * q] = Do("WAITADS")
        /\ \A q \in 1 .. 3 : c[4 + 2 * q] = From("STD", 7)
        /\ c[12] = From("STD", 5) /\ c[14] = From("STD", 6) /\ c[16] = From("STD", 4)
        /\ c[18] = From("STD", 0) /\ c[20] = From("STD", 2) /\ c[22] = From("STD", 3)
        /\ c[23] = Do("DETACH")
<1> USE DEF PrgmCont, Drive, IretFrame, ReleaseUntilIo, Do, To, From,
           Ldi, Ins
<1>1. PrgmCont[1] = Ldi(1, IretNop) /\ PrgmCont[2] = Ldi(7, NopNop) /\ PrgmCont[3] = Do("WAITADS")
  OBVIOUS
<1>2. PrgmCont[4] = From("STD", 1)
  OBVIOUS
<1>3. \A q \in 0 .. 8 : PrgmCont[5 + 2 * q] = Do("WAITADS")
  <2>1. PrgmCont[5] = Do("WAITADS") /\ PrgmCont[7] = Do("WAITADS") /\ PrgmCont[9] = Do("WAITADS")
    OBVIOUS
  <2>2. PrgmCont[11] = Do("WAITADS") /\ PrgmCont[13] = Do("WAITADS") /\ PrgmCont[15] = Do("WAITADS")
    OBVIOUS
  <2>3. PrgmCont[17] = Do("WAITADS") /\ PrgmCont[19] = Do("WAITADS") /\ PrgmCont[21] = Do("WAITADS")
    OBVIOUS
  <2> HIDE DEF PrgmCont, Do
  <2> QED
    BY <2>1, <2>2, <2>3
<1>4. \A q \in 1 .. 3 : PrgmCont[4 + 2 * q] = From("STD", 7)
  OBVIOUS
<1>5. PrgmCont[12] = From("STD", 5) /\ PrgmCont[14] = From("STD", 6) /\ PrgmCont[16] = From("STD", 4)
  OBVIOUS
<1>6. PrgmCont[18] = From("STD", 0) /\ PrgmCont[20] = From("STD", 2) /\ PrgmCont[22] = From("STD", 3)
  OBVIOUS
<1>7. PrgmCont[23] = Do("DETACH")
  OBVIOUS
<1>8. Code["cont"] = PrgmCont
  BY ContType DEF Code
<1> QED
  BY <1>1, <1>2, <1>3, <1>4, <1>5, <1>6, <1>7, <1>8

LEMMA GetRegsText ==
    LET c == Code["get_regs"]
    IN  /\ c[1] = Ldi(1, PushaNop) /\ c[2] = Ldi(2, NopNop) /\ c[3] = Do("WAITADS")
        /\ c[4] = From("STD", 1)
        /\ \A q \in 1 .. 4 : c[4 + 2 * q] = From("STD", 2)
        /\ \A q \in 0 .. 4 : c[5 + 2 * q] = Do("WAITADS")
        /\ \A q \in 0 .. 14 : c[14 + 3 * q] = To("LDD", q)
        /\ c[59] = To("LDD", 15)
        /\ \A q \in 0 .. 15 : c[15 + 3 * q] = Do("READY")
        /\ \A q \in 0 .. 14 : c[16 + 3 * q] = Do("WAITADS")
        /\ c[61] = Do("HOLD") /\ c[62] = Do("EXIT")
<1> USE DEF PrgmGetRegs, Drive, Capture, Do, To, From, Ldi, Ins
<1>1. PrgmGetRegs[1] = Ldi(1, PushaNop) /\ PrgmGetRegs[2] = Ldi(2, NopNop) /\ PrgmGetRegs[3] = Do("WAITADS")
  OBVIOUS
<1>2. PrgmGetRegs[4] = From("STD", 1)
  OBVIOUS
<1>3. \A q \in 1 .. 4 : PrgmGetRegs[4 + 2 * q] = From("STD", 2)
  OBVIOUS
<1>4. \A q \in 0 .. 4 : PrgmGetRegs[5 + 2 * q] = Do("WAITADS")
  OBVIOUS
<1>5. \A q \in 0 .. 14 : PrgmGetRegs[14 + 3 * q] = To("LDD", q)
  OBVIOUS
<1>6. PrgmGetRegs[59] = To("LDD", 15)
  OBVIOUS
<1>7. \A q \in 0 .. 15 : PrgmGetRegs[15 + 3 * q] = Do("READY")
  OBVIOUS
<1>8. \A q \in 0 .. 14 : PrgmGetRegs[16 + 3 * q] = Do("WAITADS")
  OBVIOUS
<1>9. PrgmGetRegs[61] = Do("HOLD") /\ PrgmGetRegs[62] = Do("EXIT")
  OBVIOUS
<1>10. Code["get_regs"] = PrgmGetRegs
  BY GetRegsType DEF Code
<1> QED
  BY <1>1, <1>2, <1>3, <1>4, <1>5, <1>6, <1>7, <1>8, <1>9, <1>10

LEMMA SetRegText ==
    LET c == Code["set_reg"]
    IN  /\ c[1] = Ldi(4, NopNop) /\ c[2] = Do("WAITADS")
        /\ \A q \in 0 .. 3 : c[3 + 2 * q] = From("STD", 1 + q) /\ c[4 + 2 * q] = Do("WAITADS")
        /\ c[11] = From("STD", 4) /\ c[12] = Do("HOLD") /\ c[13] = Do("EXIT")
<1> USE DEF PrgmSetReg, Drive, Do, To, From, Ldi, Ins
<1>1. PrgmSetReg[1] = Ldi(4, NopNop) /\ PrgmSetReg[2] = Do("WAITADS")
  OBVIOUS
<1>2. \A q \in 0 .. 3 : PrgmSetReg[3 + 2 * q] = From("STD", 1 + q) /\ PrgmSetReg[4 + 2 * q] = Do("WAITADS")
  OBVIOUS
<1>3. PrgmSetReg[11] = From("STD", 4) /\ PrgmSetReg[12] = Do("HOLD") /\ PrgmSetReg[13] = Do("EXIT")
  OBVIOUS
<1>4. Code["set_reg"] = PrgmSetReg
  BY SetRegType DEF Code
<1> QED
  BY <1>1, <1>2, <1>3, <1>4

-----------------------------------------------------------------------------
(* Breaks: the OCD's programs in step with the CPU's microcode *)

\* How many cycles the waits before instruction i of a program have caught.
Caught(p, i) ==
    CASE p = "break" -> IF i < 11 THEN 1
                        ELSE IF i < 35 THEN 1 + (i - 11) \div 3
                        ELSE IF i < 37 THEN 9
                        ELSE IF i < 40 THEN 10
                        ELSE IF i < 52 THEN 11 + (i - 40) \div 3 ELSE 15
      [] p = "cont" -> IF i < 4 THEN 0 ELSE IF i < 23 THEN 1 + (i - 4) \div 2 ELSE 10
      [] p = "get_regs" -> IF i < 4 THEN 0
                           ELSE IF i < 14 THEN 1 + (i - 4) \div 2
                           ELSE IF i < 59 THEN 6 + (i - 14) \div 3 ELSE 21
      [] p = "set_reg" -> IF i < 3 THEN 0 ELSE IF i < 12 THEN 1 + (i - 3) \div 2 ELSE 5

\* Whether the last of them has been answered.
Answered(p, i) ==
    \/ /\ p = "break"
       /\ \/ i \in 11 .. 34 /\ (i - 11) % 3 = 2
          \/ i \in {36, 39}
          \/ i \in 40 .. 51 /\ (i - 40) % 3 = 2
          \/ i >= 54
    \/ /\ p = "cont"
       /\ i < 4 \/ (i < 23 /\ i % 2 = 1) \/ i >= 23
    \/ /\ p = "get_regs"
       /\ \/ i < 4 \/ (i < 14 /\ i % 2 = 1)
          \/ i \in 14 .. 58 /\ (i - 14) % 3 = 2
          \/ i >= 61
    \/ /\ p = "set_reg"
       /\ i < 3 \/ (i < 12 /\ i % 2 = 0) \/ i >= 12

Debugging == { "break", "cont", "get_regs", "set_reg" }

\* The instructions of the exchange proper, once the NMI's first cycle is caught and
\* until the program has its bus back.
Span(p) == CASE p = "break" -> 3 .. 56 [] p = "cont" -> 1 .. 23
             [] p = "get_regs" -> 1 .. 62 [] p = "set_reg" -> 1 .. 13

\* The context the handler runs in: the NMI has pushed three doublewords.
Pushed == [saved EXCEPT !.gp[ESP] = AddDword(@, -12)]

\* That context, wherever PUSHA has left the stack pointer.
PushedBut(ctx) == [Pushed EXCEPT !.gp[ESP] = ctx.gp[ESP]]

\* The words IRET pops, but for the padding above CS.
Popped(j, w) ==
    /\ j = 1 => w = Low(saved.eip)
    /\ j = 2 => w = High(saved.eip)
    /\ j = 3 => w = saved.cs
    /\ j = 5 => w = Low(saved.eflags)
    /\ j = 6 => w = High(saved.eflags)

\* The j-th word PUSHA pushes.
PushedWord(c, j) == c.gp[j \div 2][1 + (j % 2)]

In(level, k, ctx) == cpu.level = level /\ cpu.k = k /\ cpu.ctx = ctx

\* The handler has fetched n words that begin with word w.
Fetched(n, w) ==
    /\ cpu.level = "handler" /\ Len(cpu.fetched) = n
    /\ n > 0 => cpu.fetched[1] = w

\* The CPU when n cycles of the exchange are over.
Done(p, n) ==
    /\ p = "break" /\ n < 15 =>
            /\ In("nmi", n, saved)
            /\ n <= 8 => Len(cpu.got) = n
            /\ \A j \in 1 .. 8 : j <= n => j <= Len(cpu.got) /\ cpu.got[j] = FakeTable(j)
    /\ p = "break" /\ n >= 15 => Fetched(0, 0) /\ cpu.ctx = Pushed
    /\ p = "cont" /\ n < 4 => Fetched(n, IretNop) /\ cpu.ctx = Pushed
    /\ p = "cont" /\ n \in 4 .. 9 =>
            In("iret", n - 4, Pushed) /\ \A j \in 1 .. 6 : j <= n - 4 => Popped(j, cpu.got[j])
    /\ p = "cont" /\ n >= 10 => cpu.level = "prog" /\ cpu.ctx = saved
    /\ p = "get_regs" /\ n < 5 => Fetched(n, PushaNop) /\ cpu.ctx = Pushed
    /\ p = "get_regs" /\ n \in 5 .. 20 => In("pusha", n - 5, Pushed)
    /\ p = "get_regs" /\ n >= 21 => Fetched(0, 0) /\ cpu.ctx = PushedBut(cpu.ctx)
    /\ p = "set_reg" /\ n < 3 =>
            /\ Fetched(n, NopMovEsp) /\ cpu.ctx = PushedBut(cpu.ctx)
            /\ n > 1 => cpu.fetched[2] = Low(Pushed.gp[ESP])
    /\ p = "set_reg" /\ n >= 3 => Fetched(0, 0) /\ cpu.ctx = Pushed

\* The word w that cycle n of the exchange, counted from 0, is to be answered with.
Fed(p, n, w) ==
    /\ p = "break" /\ n < 8 => w = FakeTable(n + 1)
    /\ p = "cont" /\ n = 0 => w = IretNop
    /\ p = "cont" /\ n >= 4 => Popped(n - 3, w)
    /\ p = "get_regs" /\ n = 0 => w = PushaNop
    /\ p = "set_reg" /\ n = 0 => w = NopMovEsp
    /\ p = "set_reg" /\ n = 1 => w = Low(Pushed.gp[ESP])
    /\ p = "set_reg" /\ n = 2 => w = High(Pushed.gp[ESP])
    /\ p = "set_reg" /\ n > 2 => w = NopNop

\* The OCD's registers at instruction i.
BreakHolds(i) ==
    /\ i \in 5 .. 10 => regs[3] = 0
    /\ i = 10 => cmpr = 0
    /\ \A q \in 0 .. 7 : i = 12 + 3 * q => regs[1] = FakeTable(1 + q)
    /\ i > 40 => regs[2] = Low(saved.eflags)
    /\ i > 43 => regs[3] = High(saved.eflags)
    /\ i > 46 => regs[4] = saved.cs
    /\ i > 49 => regs[5] = Low(saved.eip)
    /\ i > 52 => regs[6] = High(saved.eip)
    /\ i > 54 => regs[1] = 1

ContHolds(i) ==
    /\ i > 1 => regs[1] = IretNop
    /\ regs[5] = Low(saved.eip) /\ regs[6] = High(saved.eip) /\ regs[4] = saved.cs
    /\ regs[2] = Low(saved.eflags) /\ regs[3] = High(saved.eflags)

GetRegsHolds(i) ==
    /\ i \in 2 .. 13 => regs[1] = PushaNop
    /\ \A j \in 0 .. 15 : i > 14 + 3 * j => regs[j] = PushedWord(Pushed, j)

SetRegHolds(i) ==
    /\ regs[1] = NopMovEsp
    /\ regs[2] = Low(Pushed.gp[ESP]) /\ regs[3] = High(Pushed.gp[ESP])
    /\ i > 1 => regs[4] = NopNop

Holds(p, i) ==
    /\ p = "break" => BreakHolds(i)
    /\ p = "cont" => ContHolds(i)
    /\ p = "get_regs" => GetRegsHolds(i)
    /\ p = "set_reg" => SetRegHolds(i)

\* The OCD has let the CPU go and waits for its next cycle.
Catching == waiting /\ Current.op = "WAITADS"

\* The OCD at an instruction of program p, and the CPU in the cycle that goes with it:
\* the one caught last, or, answered, between that and the next one.
InStep(p) ==
    LET n == Caught(p, pc)
        a == Answered(p, pc)
    IN  \/ /\ cpu.phase = "T2" /\ n > 0 /\ Current.op # "EXIT"
           /\ Done(p, n - 1)
           /\ a => Fed(p, n - 1, dout)
        \/ a /\ cpu.phase \in {"idle", "T1", "held"} /\ Done(p, n)

\* HOLD is asserted before the first wait and after the last.
Holding(p) ==
    LET n == Caught(p, pc)
    IN  /\ hold <=> \/ n = 0 /\ ~Catching
                    \/ Current.op = "EXIT" \/ (Current.op = "HOLD" /\ waiting)
        /\ (n = 0 /\ hold) \/ Current.op = "EXIT" => cpu.phase = "held"
        /\ cpu.phase = "held" => n = 0 \/ hold
        /\ waiting => Current.op \in {"WAITADS", "HOLD", "EXIT"}
        /\ cpu.phase = "T1" => Catching

Exchange(p) ==
    /\ prog = p /\ pc \in Span(p)
    /\ en /\ ~reset /\ ~nmi /\ ~cpu.nmi /\ cpu.mode = "prot"
    /\ ready <=> Answered(p, pc)
    /\ InStep(p) /\ Holding(p) /\ Holds(p, pc)

\* The break program until it has caught the NMI's first cycle, the only locked one
\* there is.
Entering ==
    /\ prog = "break" /\ pc \in {1, 2} /\ ~reset /\ cpu.mode = "prot"
    /\ \/ pc = 1 /\ ~nmi /\ cpu.level = "prog" /\ ~cpu.nmi
       \/ pc = 2 /\ nmi /\ cpu.level = "prog"
       \/ pc = 2 /\ nmi /\ ~cpu.nmi /\ Done("break", 0)
               /\ cpu.phase \in {"idle", "T1", "held"} /\ (cpu.phase = "T1" => waiting)

\* The CPU floats its bus, as HOLD tells it to.
Parked ==
    /\ en /\ ready /\ hold /\ ~reset /\ ~nmi
    /\ cpu.phase = "held" /\ cpu.mode = "prot" /\ ~cpu.nmi

\* The CPU between two programs of a break.
AtRest ==
    /\ prog \in {"break", "set_reg"} /\ stop /\ Parked
    /\ Fetched(0, 0) /\ cpu.ctx = Pushed

\* The program runs, and no NMI is on its way.
Free == cpu.level = "prog" /\ ~cpu.nmi

Told == sregs.eflags = saved.eflags /\ sregs.cs = saved.cs /\ sregs.eip = saved.eip

\* Where a break stands, by what the firmware is doing.
BreakPlace ==
    /\ loc = "brk_wait" => Entering \/ Exchange("break")
    /\ loc = "regs_wait" => Exchange("get_regs") /\ Told
    /\ loc = "esp_wait" => Exchange("set_reg") /\ Told
    /\ AtPoll /\ status = "BRK32" => AtRest /\ Told
    /\ AtPoll /\ status = "RUNNING" /\ prog = "cont" /\ pc \in Span("cont") =>
            Exchange("cont")
    /\ loc = "iowr_wait" => Free
    /\ AtPoll /\ status # "BRK32"
           /\ ~(status = "RUNNING" /\ prog = "cont" /\ pc \in Span("cont")) => Free
    /\ AtPoll => status # "BRK16"

\* BreakTruth, RegsTruth and DebugTransparent are not inductive: they need where each
\* program of a break is, which of the CPU's cycles that goes with, and what both have
\* got from one another by then.
BreakInv ==
    /\ cpu.phase = "reset" => cpu.mode = "real" /\ Free
    /\ cpu.level = "prog" /\ InCycle => ~cpu.cur.lock
    /\ nmi => loc = "brk_wait"
    /\ loc = "boot" => prog = "blank"
    /\ Attended => BreakPlace

-----------------------------------------------------------------------------
(* The programs, instruction by instruction *)

\* Instructions that leave the bus alone.
Loads == { "LDI", "LDD", "LDAL", "LDAH", "LDCMP", "CMP" }

\* What instruction i of program p does to the exchange, and where it leads.
Shape(p, i, op, next) ==
    /\ Caught(p, i) \in 0 .. 21
    /\ Caught(p, i) = 0 => Answered(p, i)
    /\ op \in Loads \cup { "BEQ" } =>
          /\ Caught(p, i + 1) = Caught(p, i)
          /\ Answered(p, i + 1) <=> Answered(p, i)
    /\ op \in { "STD", "READY" } =>
          /\ Caught(p, i) > 0 /\ ~Answered(p, i)
          /\ Caught(p, i + 1) = Caught(p, i) /\ Answered(p, i + 1)
    /\ op = "WAITADS" =>
          /\ Answered(p, i)
          /\ Caught(p, i + 1) = Caught(p, i) + 1 /\ ~Answered(p, i + 1)
    /\ op = "HOLD" =>
          /\ Caught(p, i) > 0 /\ Answered(p, i) /\ next = "EXIT"
          /\ Caught(p, i + 1) = Caught(p, i) /\ Answered(p, i + 1)
    /\ op \notin { "HOLD", "EXIT" } => next # "EXIT"
    /\ op = "EXIT" => Answered(p, i) /\ Caught(p, i) > 0 /\ i + 1 \notin Span(p)
    /\ op = "LDAL" => p = "break"
    /\ op \notin { "EXIT", "DETACH" } => i + 1 \in Span(p)
    /\ op = "DETACH" => p = "cont" /\ i = 23 /\ Answered(p, i) /\ Caught(p, i) = 10
    /\ op = "BEQ" => p = "break" /\ i \in { 8, 10 }
    /\ op \in Loads \cup { "BEQ", "STD", "READY", "WAITADS", "HOLD", "EXIT", "DETACH" }

\* The break program instruction by instruction.
LEMMA BreakShape ==
    ASSUME NEW i \in 3 .. 56
    PROVE  Shape("break", i, Code["break"][i].op, Code["break"][i + 1].op)
<1> USE DEF Do, To, From, Ldi, Jump, Ins
<1> DEFINE c == Code["break"]
<1>1. c[8].op = "BEQ" /\ \A k \in 1 .. 56 : k # 8 => c[k].op = PrgmBreak[k].op
  BY BreakText
<1>2. /\ c[3].op = "LDAL" /\ c[4].op = "LDAH" /\ c[5].op = "LDCMP" /\ c[6].op = "LDI"
      /\ c[7].op = "CMP" /\ c[8].op = "BEQ" /\ c[9].op = "LDCMP" /\ c[10].op = "BEQ"
      /\ c[35].op = "READY" /\ c[36].op = "WAITADS" /\ c[37].op = "LDI" /\ c[38].op = "STD"
      /\ c[39].op = "WAITADS" /\ c[52].op = "LDD" /\ c[53].op = "READY" /\ c[54].op = "LDI"
      /\ c[55].op = "HOLD" /\ c[56].op = "EXIT"
  <2> HIDE DEF c
  <2>1. /\ c[3].op = "LDAL" /\ c[4].op = "LDAH" /\ c[5].op = "LDCMP" /\ c[6].op = "LDI"
        /\ c[7].op = "CMP" /\ c[9].op = "LDCMP" /\ c[10].op = "BEQ"
    BY <1>1, BreakSource, SMTT(30)
  <2>2. /\ c[35].op = "READY" /\ c[36].op = "WAITADS" /\ c[37].op = "LDI"
        /\ c[38].op = "STD" /\ c[39].op = "WAITADS"
    BY <1>1, BreakSource, SMTT(30)
  <2>3. /\ c[52].op = "LDD" /\ c[53].op = "READY" /\ c[54].op = "LDI"
        /\ c[55].op = "HOLD" /\ c[56].op = "EXIT"
    BY <1>1, BreakSource, SMTT(30)
  <2> QED
    BY <1>1, <2>1, <2>2, <2>3
<1>3. \A q \in 0 .. 7 : /\ c[11 + 3 * q].op = "LDI" /\ c[12 + 3 * q].op = "STD"
                        /\ c[13 + 3 * q].op = "WAITADS"
  <2> TAKE q \in 0 .. 7
  <2>1. /\ 11 + 3 * q \in 1 .. 56 /\ 12 + 3 * q \in 1 .. 56 /\ 13 + 3 * q \in 1 .. 56
        /\ 11 + 3 * q # 8 /\ 12 + 3 * q # 8 /\ 13 + 3 * q # 8
    OBVIOUS
  <2> QED
    BY <1>1, <2>1, BreakSource
<1>4. \A q \in 0 .. 3 : /\ c[40 + 3 * q].op = "LDD" /\ c[41 + 3 * q].op = "READY"
                        /\ c[42 + 3 * q].op = "WAITADS"
  <2> TAKE q \in 0 .. 3
  <2>1. /\ 40 + 3 * q \in 1 .. 56 /\ 41 + 3 * q \in 1 .. 56 /\ 42 + 3 * q \in 1 .. 56
        /\ 40 + 3 * q # 8 /\ 41 + 3 * q # 8 /\ 42 + 3 * q # 8
    OBVIOUS
  <2> QED
    BY <1>1, <2>1, BreakSource
<1> HIDE DEF c, Do, To, From, Ldi, Jump, Ins
<1> USE DEF Shape, Caught, Answered, Span, Loads
<1>5. CASE i \in 3 .. 10 \cup 35 .. 39 \cup 52 .. 56
  <2>1. CASE i \in 3 .. 6
    BY <1>2, <2>1 DEF c
  <2>2. CASE i \in 7 .. 9
    BY <1>2, <2>2 DEF c
  <2>3. CASE i = 10 \/ i = 35
    <3>1. c[11].op = "LDI"
      BY <1>3
    <3> QED
      BY <1>2, <2>3, <3>1 DEF c
  <2>4. CASE i \in 36 .. 38
    BY <1>2, <2>4 DEF c
  <2>5. CASE i = 39
    <3>1. c[40].op = "LDD"
      BY <1>4
    <3> QED
      BY <1>2, <2>5, <3>1 DEF c
  <2>6. CASE i \in 52 .. 55
    BY <1>2, <2>6 DEF c
  <2>7. CASE i = 56
    BY <1>2, <2>7 DEF c
  <2> QED
    BY <1>5, <2>1, <2>2, <2>3, <2>4, <2>5, <2>6, <2>7
<1>6. CASE i \in 11 .. 34
  <2>1. PICK q \in 0 .. 7 : i = 11 + 3 * q \/ i = 12 + 3 * q \/ i = 13 + 3 * q
    <3>1. (i - 11) \div 3 \in 0 .. 7
      BY <1>6
    <3> QED
      BY <1>6, <3>1
  <2>2. CASE i = 11 + 3 * q
    BY <1>3, <2>1, <2>2 DEF c
  <2>3. CASE i = 12 + 3 * q
    BY <1>3, <2>1, <2>3 DEF c
  <2>4. CASE i = 13 + 3 * q
    <3>1. c[i + 1].op # "EXIT"
      <4>1. CASE q = 7
        BY <1>2, <2>4, <4>1
      <4>2. CASE q # 7
        <5>1. q + 1 \in 0 .. 7 /\ i + 1 = 11 + 3 * (q + 1)
          BY <2>4, <4>2
        <5> QED
          BY <1>3, <5>1
      <4> QED
        BY <4>1, <4>2
    <3> QED
      BY <1>3, <2>1, <2>4, <3>1 DEF c
  <2> QED
    BY <2>1, <2>2, <2>3, <2>4
<1>7. CASE i \in 40 .. 51
  <2>1. PICK q \in 0 .. 3 : i = 40 + 3 * q \/ i = 41 + 3 * q \/ i = 42 + 3 * q
    <3>1. (i - 40) \div 3 \in 0 .. 3
      BY <1>7
    <3> QED
      BY <1>7, <3>1
  <2>2. CASE i = 40 + 3 * q
    BY <1>4, <2>1, <2>2 DEF c
  <2>3. CASE i = 41 + 3 * q
    BY <1>4, <2>1, <2>3 DEF c
  <2>4. CASE i = 42 + 3 * q
    <3>1. c[i + 1].op # "EXIT"
      <4>1. CASE q = 3
        BY <1>2, <2>4, <4>1
      <4>2. CASE q # 3
        <5>1. q + 1 \in 0 .. 3 /\ i + 1 = 40 + 3 * (q + 1)
          BY <2>4, <4>2
        <5> QED
          BY <1>4, <5>1
      <4> QED
        BY <4>1, <4>2
    <3> QED
      BY <1>4, <2>1, <2>4, <3>1 DEF c
  <2> QED
    BY <2>1, <2>2, <2>3, <2>4
<1> QED
  BY <1>5, <1>6, <1>7

\* The same of cont,
LEMMA ContShape ==
    ASSUME NEW i \in 1 .. 23
    PROVE  Shape("cont", i, Code["cont"][i].op, Code["cont"][i + 1].op)
<1> DEFINE c == Code["cont"]
<1>1. /\ c[1].op = "LDI" /\ c[2].op = "LDI" /\ c[3].op = "WAITADS" /\ c[23].op = "DETACH"
      /\ c[24].op = "WAITIO"
  <2>1. c[24].op = "WAITIO"
    BY ReleasingCode DEF Releasing, WaitIoAt, ReleasesAt, Do, Ins
  <2> QED
    BY <2>1, ContText DEF Ldi, Do, Ins
<1>2. \A q \in 0 .. 9 : c[4 + 2 * q].op = "STD"
  <2> TAKE q \in 0 .. 9
  <2>1. q = 0 \/ q \in 1 .. 3 \/ q = 4 \/ q = 5 \/ q = 6 \/ q = 7 \/ q = 8 \/ q = 9
    OBVIOUS
  <2>2. q \in 1 .. 3 => c[4 + 2 * q] = From("STD", 7)
    BY ContText
  <2> QED
    BY <2>1, <2>2, ContText DEF From, Ins
<1>3. \A q \in 0 .. 8 : c[5 + 2 * q].op = "WAITADS"
  BY ContText DEF Do, Ins
<1> HIDE DEF c
<1> USE DEF Shape, Caught, Answered, Span, Loads
<1>4. CASE i \in 1 .. 3
  <2>1. c[4].op = "STD"
    BY <1>2
  <2> QED
    BY <1>1, <1>4, <2>1 DEF c
<1>5. CASE i = 23
  BY <1>1, <1>5 DEF c
<1>6. CASE i \in 4 .. 22
  <2>1. PICK q \in 0 .. 9 : i = 4 + 2 * q \/ (i = 5 + 2 * q /\ q < 9)
    <3>1. (i - 4) \div 2 \in 0 .. 9
      BY <1>6
    <3> QED
      BY <1>6, <3>1
  <2>2. CASE i = 4 + 2 * q
    <3>1. c[i + 1].op # "EXIT"
      <4>1. CASE q = 9
        BY <1>1, <2>2, <4>1
      <4>2. CASE q # 9
        <5>1. q \in 0 .. 8 /\ i + 1 = 5 + 2 * q
          BY <2>2, <4>2
        <5> QED
          BY <1>3, <5>1
      <4> QED
        BY <4>1, <4>2
    <3> QED
      BY <1>2, <2>1, <2>2, <3>1 DEF c
  <2>3. CASE i = 5 + 2 * q /\ q < 9
    <3>1. q \in 0 .. 8 /\ q + 1 \in 0 .. 9 /\ i + 1 = 4 + 2 * (q + 1)
      BY <2>3
    <3>2. c[i].op = "WAITADS" /\ c[i + 1].op = "STD"
      BY <1>2, <1>3, <2>3, <3>1
    <3> QED
      BY <2>3, <3>2 DEF c
  <2> QED
    BY <2>1, <2>2, <2>3
<1> QED
  BY <1>4, <1>5, <1>6

\* of get_regs,
LEMMA GetRegsShape ==
    ASSUME NEW i \in 1 .. 62
    PROVE  Shape("get_regs", i, Code["get_regs"][i].op, Code["get_regs"][i + 1].op)
<1> DEFINE c == Code["get_regs"]
<1>1. /\ c[1].op = "LDI" /\ c[2].op = "LDI" /\ c[3].op = "WAITADS" /\ c[61].op = "HOLD"
      /\ c[62].op = "EXIT"
  BY GetRegsText DEF Ldi, Do, Ins
<1>2. \A q \in 0 .. 4 : c[4 + 2 * q].op = "STD" /\ c[5 + 2 * q].op = "WAITADS"
  <2> TAKE q \in 0 .. 4
  <2>1. q = 0 \/ q \in 1 .. 4
    OBVIOUS
  <2> QED
    BY <2>1, GetRegsText DEF From, Do, Ins
<1>3. \A q \in 0 .. 15 : c[14 + 3 * q].op = "LDD" /\ c[15 + 3 * q].op = "READY"
  <2> TAKE q \in 0 .. 15
  <2>1. q \in 0 .. 14 \/ q = 15
    OBVIOUS
  <2> QED
    BY <2>1, GetRegsText DEF To, Do, Ins
<1>4. \A q \in 0 .. 14 : c[16 + 3 * q].op = "WAITADS"
  BY GetRegsText DEF Do, Ins
<1> HIDE DEF c
<1> USE DEF Shape, Caught, Answered, Span, Loads
<1>5. CASE i \in 1 .. 3
  <2>1. c[4].op = "STD"
    BY <1>2
  <2> QED
    BY <1>1, <1>5, <2>1 DEF c
<1>6. CASE i \in 61 .. 62
  BY <1>1, <1>6 DEF c
<1>7. CASE i \in 4 .. 13
  <2>1. PICK q \in 0 .. 4 : i = 4 + 2 * q \/ i = 5 + 2 * q
    <3>1. (i - 4) \div 2 \in 0 .. 4
      BY <1>7
    <3> QED
      BY <1>7, <3>1
  <2>2. CASE i = 4 + 2 * q
    BY <1>2, <2>1, <2>2 DEF c
  <2>3. CASE i = 5 + 2 * q
    <3>1. c[i + 1].op # "EXIT"
      <4>1. CASE q = 4
        <5>1. i + 1 = 14 + 3 * 0 /\ 0 \in 0 .. 15
          BY <2>3, <4>1
        <5> QED
          BY <1>3, <5>1
      <4>2. CASE q # 4
        <5>1. q + 1 \in 0 .. 4 /\ i + 1 = 4 + 2 * (q + 1)
          BY <2>3, <4>2
        <5> QED
          BY <1>2, <5>1
      <4> QED
        BY <4>1, <4>2
    <3> QED
      BY <1>2, <2>1, <2>3, <3>1 DEF c
  <2> QED
    BY <2>1, <2>2, <2>3
<1>8. CASE i \in 14 .. 60
  <2>1. PICK q \in 0 .. 15 : \/ i = 14 + 3 * q \/ i = 15 + 3 * q
                             \/ i = 16 + 3 * q /\ q < 15
    <3>1. (i - 14) \div 3 \in 0 .. 15
      BY <1>8
    <3> QED
      BY <1>8, <3>1
  <2>2. CASE i = 14 + 3 * q
    <3>1. c[i].op = "LDD" /\ c[i + 1].op = "READY"
      BY <1>3, <2>2
    <3> QED
      BY <2>2, <3>1 DEF c
  <2>3. CASE i = 15 + 3 * q
    <3>1. c[i].op = "READY" /\ c[i + 1].op # "EXIT"
      <4>1. CASE q = 15
        BY <1>1, <1>3, <2>3, <4>1
      <4>2. CASE q # 15
        <5>1. q \in 0 .. 14 /\ i + 1 = 16 + 3 * q
          BY <2>3, <4>2
        <5> QED
          BY <1>3, <1>4, <2>3, <5>1
      <4> QED
        BY <4>1, <4>2
    <3> QED
      BY <2>3, <3>1 DEF c
  <2>4. CASE i = 16 + 3 * q /\ q < 15
    <3>1. q \in 0 .. 14 /\ q + 1 \in 0 .. 15 /\ i + 1 = 14 + 3 * (q + 1)
      BY <2>4
    <3>2. c[i].op = "WAITADS" /\ c[i + 1].op = "LDD"
      BY <1>3, <1>4, <2>4, <3>1
    <3> QED
      BY <2>4, <3>2 DEF c
  <2> QED
    BY <2>1, <2>2, <2>3, <2>4
<1> QED
  BY <1>5, <1>6, <1>7, <1>8

\* of set_reg,
LEMMA SetRegShape ==
    ASSUME NEW i \in 1 .. 13
    PROVE  Shape("set_reg", i, Code["set_reg"][i].op, Code["set_reg"][i + 1].op)
<1> DEFINE c == Code["set_reg"]
<1>1. /\ c[1].op = "LDI" /\ c[2].op = "WAITADS" /\ c[11].op = "STD" /\ c[12].op = "HOLD"
      /\ c[13].op = "EXIT"
  BY SetRegText DEF From, Ldi, Do, Ins
<1>2. \A q \in 0 .. 3 : c[3 + 2 * q].op = "STD" /\ c[4 + 2 * q].op = "WAITADS"
  BY SetRegText DEF From, Do, Ins
<1> HIDE DEF c
<1> USE DEF Shape, Caught, Answered, Span, Loads
<1>3. CASE i \in {1, 2, 11, 12, 13}
  <2>1. c[3].op = "STD"
    BY <1>2
  <2> QED
    BY <1>1, <1>3, <2>1 DEF c
<1>4. CASE i \in 3 .. 10
  <2>1. PICK q \in 0 .. 3 : i = 3 + 2 * q \/ i = 4 + 2 * q
    <3>1. (i - 3) \div 2 \in 0 .. 3
      BY <1>4
    <3> QED
      BY <1>4, <3>1
  <2>2. CASE i = 3 + 2 * q
    BY <1>2, <2>1, <2>2 DEF c
  <2>3. CASE i = 4 + 2 * q
    <3>1. c[i + 1].op = "STD"
      <4>1. CASE q = 3
        BY <1>1, <2>3, <4>1
      <4>2. CASE q # 3
        <5>1. q + 1 \in 0 .. 3 /\ i + 1 = 3 + 2 * (q + 1)
          BY <2>3, <4>2
        <5> QED
          BY <1>2, <5>1
      <4> QED
        BY <4>1, <4>2
    <3> QED
      BY <1>2, <2>1, <2>3, <3>1 DEF c
  <2> QED
    BY <2>1, <2>2, <2>3
<1> QED
  BY <1>3, <1>4

\* and of each of them.
LEMMA ShapeOf ==
    ASSUME NEW p \in Debugging, NEW i \in Span(p)
    PROVE  Shape(p, i, Code[p][i].op, Code[p][i + 1].op) /\ i \in 1 .. 62
<1>1. CASE p = "break"
  <2>1. i \in 3 .. 56
    BY <1>1 DEF Span
  <2>2. Shape("break", i, Code["break"][i].op, Code["break"][i + 1].op)
    BY <2>1, BreakShape
  <2> QED
    BY <1>1, <2>1, <2>2
<1>2. CASE p = "cont"
  <2>1. i \in 1 .. 23
    BY <1>2 DEF Span
  <2> QED
    BY <1>2, <2>1, ContShape
<1>3. CASE p = "get_regs"
  <2>1. i \in 1 .. 62
    BY <1>3 DEF Span
  <2> QED
    BY <1>3, <2>1, GetRegsShape
<1>4. CASE p = "set_reg"
  <2>1. i \in 1 .. 13
    BY <1>4 DEF Span
  <2> QED
    BY <1>4, <2>1, SetRegShape
<1> QED
  BY <1>1, <1>2, <1>3, <1>4 DEF Debugging

-----------------------------------------------------------------------------
(* What the OCD takes and gives *)

\* The words an NMI pushes, in the order they are captured.
NmiPushes == << Low(saved.eflags), High(saved.eflags), saved.cs, Low(saved.eip),
                High(saved.eip) >>

\* The word an NMI pushes is on the bus.
LEMMA NmiWord ==
    ASSUME TypeInv, InCycle, cpu.mode = "prot", NEW q \in 0 .. 4, In("nmi", 10 + q, saved)
    PROVE  cpu.cur.din = NmiPushes[q + 1]
<1>1. cpu.cur = NmiProtected(saved)[11 + q]
  BY DEF TypeInv, CpuInv, InSequence, In, Fixed, Microcode
<1>2. /\ NmiProtected(saved)[11] = Push(Low(saved.eflags))
      /\ NmiProtected(saved)[12] = Push(High(saved.eflags))
      /\ NmiProtected(saved)[13] = Push(saved.cs)
      /\ NmiProtected(saved)[14] = Push(Low(saved.eip))
      /\ NmiProtected(saved)[15] = Push(High(saved.eip))
  BY DEF NmiProtected
<1>3. \A w : Push(w).din = w
  BY DEF Push, Cycle
<1> HIDE DEF Push
<1>4. q = 0 \/ q = 1 \/ q = 2 \/ q = 3 \/ q = 4
  OBVIOUS
<1> QED
  BY <1>1, <1>2, <1>3, <1>4 DEF NmiPushes

\* And the word PUSHA pushes.
LEMMA PushaWord ==
    ASSUME TypeInv, InCycle, NEW q \in 0 .. 15, In("pusha", q, Pushed)
    PROVE  cpu.cur.din = PushedWord(Pushed, q)
<1> DEFINE w(i) == cpu.ctx.gp[(i - 1) \div 2][1 + ((i - 1) % 2)]
<1>1. cpu.cur = Microcode("pusha", cpu.mode, cpu.ctx)[q + 1]
  BY DEF TypeInv, CpuInv, InSequence, In, Fixed
<1>2. Microcode("pusha", cpu.mode, cpu.ctx) = [i \in 1 .. 16 |-> Push(w(i))]
  BY DEF Microcode
<1>3. cpu.cur = Push(w(q + 1))
  BY <1>1, <1>2
<1>4. w(q + 1) = PushedWord(cpu.ctx, q)
  BY DEF PushedWord
<1> HIDE DEF w
<1> QED
  BY <1>3, <1>4 DEF Push, Cycle, In

\* The OCD's answer is what the CPU is to be fed.
LEMMA FedStep ==
    ASSUME NEW p \in Debugging, NEW i \in Span(p), Holds(p, i),
           NEW w, Code[p][i].op = "STD" => w = regs[Code[p][i].s],
           Code[p][i].op \in { "STD", "READY" }
    PROVE  Fed(p, Caught(p, i) - 1, w)
<1>1. CASE p = "break"
  <2>0. i \in 3 .. 56
    BY <1>1 DEF Span
  <2>1. CASE i < 11
    <3>1. i = 3 \/ i = 4 \/ i = 5 \/ i = 6 \/ i = 7 \/ i = 8 \/ i = 9 \/ i = 10
      BY <2>0, <2>1
    <3>2. Code["break"][i].op \notin {"STD", "READY"}
      <4>1. i # 8 => Code["break"][i] = PrgmBreak[i]
        BY <2>0, BreakText
      <4> QED
        BY <3>1, <4>1, BreakText, BreakSource DEF To, From, Ldi, Jump, Ins
    <3> QED
      BY <1>1, <3>2
  <2>2. CASE i \in 11 .. 34
    <3>1. PICK q \in 0 .. 7 : i = 11 + 3 * q \/ i = 12 + 3 * q \/ i = 13 + 3 * q
      <4>1. (i - 11) \div 3 \in 0 .. 7
        BY <2>2
      <4> QED
        BY <2>2, <4>1
    <3>2. Code["break"][i] = PrgmBreak[i]
      BY <2>2, BreakText
    <3>3. i = 12 + 3 * q
      <4>1. i = 11 + 3 * q => Code["break"][i].op = "LDI"
        BY <3>2, BreakSource DEF Ldi, Ins
      <4>2. i = 13 + 3 * q => Code["break"][i].op = "WAITADS"
        BY <3>2, BreakSource DEF Do, Ins
      <4> QED
        BY <1>1, <3>1, <4>1, <4>2
    <3>4. Code["break"][i].op = "STD" /\ Code["break"][i].s = 1
      BY <3>2, <3>3, BreakSource DEF From, Ins
    <3>5. w = FakeTable(1 + q)
      BY <1>1, <3>3, <3>4 DEF Holds, BreakHolds
    <3>6. Caught("break", i) - 1 = q
      BY <3>3 DEF Caught
    <3> QED
      BY <1>1, <3>5, <3>6 DEF Fed
  <2>3. CASE i > 34
    <3>1. ~(Caught("break", i) - 1 < 8)
      BY <2>0, <2>3 DEF Caught
    <3> QED
      BY <1>1, <3>1 DEF Fed
  <2> QED
    BY <2>0, <2>1, <2>2, <2>3
<1>2. CASE p = "cont"
  <2>0. i \in 1 .. 23 /\ ContHolds(i)
    BY <1>2 DEF Span, Holds
  <2>1. ~Answered("cont", i)
    BY <1>2, ShapeOf DEF Shape
  <2>2. PICK q \in 0 .. 9 : i = 4 + 2 * q
    <3>1. (i - 4) \div 2 \in 0 .. 9
      BY <2>0, <2>1 DEF Answered
    <3> QED
      BY <2>0, <2>1, <3>1 DEF Answered
  <2>3. Caught("cont", i) - 1 = q
    BY <2>2 DEF Caught
  <2>4. CASE q = 0
    <3>1. Code["cont"][i] = From("STD", 1)
      BY <2>2, <2>4, ContText
    <3>2. w = IretNop
      BY <1>2, <2>0, <2>2, <2>4, <3>1 DEF ContHolds, From, Ins
    <3> QED
      BY <1>2, <2>3, <2>4, <3>2 DEF Fed
  <2>5. CASE q \in 1 .. 3
    BY <1>2, <2>3, <2>5 DEF Fed
  <2>6. CASE q \in 4 .. 9
    <3>1. q = 4 \/ q = 5 \/ q = 6 \/ q = 7 \/ q = 8 \/ q = 9
      BY <2>6
    <3>2. /\ q = 4 => Code["cont"][i] = From("STD", 5)
          /\ q = 5 => Code["cont"][i] = From("STD", 6)
          /\ q = 6 => Code["cont"][i] = From("STD", 4)
          /\ q = 7 => Code["cont"][i] = From("STD", 0)
          /\ q = 8 => Code["cont"][i] = From("STD", 2)
          /\ q = 9 => Code["cont"][i] = From("STD", 3)
      BY <2>2, ContText
    <3>3. Popped(q - 3, w)
      BY <1>2, <2>0, <3>1, <3>2 DEF ContHolds, Popped, From, Ins
    <3> QED
      BY <1>2, <2>3, <2>6, <3>3 DEF Fed
  <2> QED
    BY <2>4, <2>5, <2>6
<1>3. CASE p = "get_regs"
  <2>0. i \in 1 .. 62 /\ GetRegsHolds(i)
    BY <1>3 DEF Span, Holds
  <2>1. ~Answered("get_regs", i)
    BY <1>3, ShapeOf DEF Shape
  <2>2. i >= 4
    BY <2>0, <2>1 DEF Answered
  <2>3. CASE i = 4
    <3>1. Code["get_regs"][4] = From("STD", 1)
      BY GetRegsText
    <3>2. w = PushaNop
      BY <1>3, <2>0, <2>3, <3>1 DEF GetRegsHolds, From, Ins
    <3> QED
      BY <1>3, <3>2 DEF Fed
  <2>4. CASE i > 4
    <3>1. i >= 6
      BY <2>0, <2>1, <2>4 DEF Answered
    <3>2. Caught("get_regs", i) - 1 > 0
      BY <2>0, <3>1 DEF Caught
    <3> QED
      BY <1>3, <3>2 DEF Fed
  <2> QED
    BY <2>0, <2>2, <2>3, <2>4
<1>4. CASE p = "set_reg"
  <2>0. i \in 1 .. 13 /\ SetRegHolds(i)
    BY <1>4 DEF Span, Holds
  <2>1. ~Answered("set_reg", i)
    BY <1>4, ShapeOf DEF Shape
  <2>2. PICK q \in 0 .. 4 : i = 3 + 2 * q
    <3>1. (i - 3) \div 2 \in 0 .. 4
      BY <2>0, <2>1 DEF Answered
    <3> QED
      BY <2>0, <2>1, <3>1 DEF Answered
  <2>3. Caught("set_reg", i) - 1 = q
    BY <2>2 DEF Caught
  <2>4. Code["set_reg"][i] = From("STD", IF q = 4 THEN 4 ELSE 1 + q)
    BY <2>2, SetRegText
  <2>5. w = regs[IF q = 4 THEN 4 ELSE 1 + q]
    BY <1>4, <2>4 DEF From, Ins
  <2>6. i > 1
    BY <2>2
  <2> QED
    BY <1>4, <2>0, <2>2, <2>3, <2>5, <2>6 DEF SetRegHolds, Fed
<1> QED
  BY <1>1, <1>2, <1>3, <1>4 DEF Debugging

\* Where an instruction leads, and what it leaves in the registers.
LEMMA Retired ==
    ASSUME TypeInv, NEW p \in Debugging, Exchange(p), OcdRetire(Pins)
    PROVE  /\ prog' = p /\ ~waiting' /\ pc \in Span(p) /\ pc \in 1 .. 62
           /\ Current = Code[p][pc] /\ Shape(p, pc, Current.op, Code[p][pc + 1].op)
           /\ Current.op # "EXIT"
           /\ pc' = pc + 1 \/ (p = "break" /\ pc = 8 /\ Current.op = "BEQ" /\ pc' = 11)
           /\ regs' = IF Current.op \in StoresRegister
                      THEN [regs EXCEPT ![Current.d] = Source(Current, Pins)] ELSE regs
           /\ Source(Current, Pins) =
                 CASE Current.op = "LDI" -> Current.v
                   [] Current.op = "LDD" -> cpu.cur.din
                   [] Current.op = "LDAH" -> 0
                   [] Current.op \in LoadsRegister -> regs[Current.s]
                   [] OTHER -> Source(Current, Pins)
           /\ regs \in [RegIds -> Word]
<1>1. prog = p /\ pc \in Span(p)
  BY DEF Exchange
<1>2. Current = Code[p][pc] /\ Shape(p, pc, Current.op, Code[p][pc + 1].op) /\ pc \in 1 .. 62
  BY <1>1, ShapeOf DEF Current
<1>3. Current.op # "EXIT" /\ pc' = NextPc(Current) /\ prog' = p /\ ~waiting'
      /\ regs' = IF Current.op \in StoresRegister
                 THEN [regs EXCEPT ![Current.d] = Source(Current, Pins)] ELSE regs
  BY <1>1 DEF OcdRetire, ExecWait, DoStore
<1>4. pc' = pc + 1 \/ (p = "break" /\ pc = 8 /\ Current.op = "BEQ" /\ pc' = 11)
  <2>1. CASE Current.op # "BEQ"
    BY <1>2, <1>3, <2>1 DEF Shape, Loads, NextPc, BranchTaken
  <2>2. CASE Current.op = "BEQ"
    <3>1. p = "break" /\ (pc = 8 \/ pc = 10)
      BY <1>2, <2>2 DEF Shape
    <3>2. CASE pc = 8
      <4>1. Current = Jump("BEQ", 11)
        BY <1>2, <3>1, <3>2, BreakText
      <4> QED
        BY <1>3, <2>2, <3>1, <3>2, <4>1 DEF NextPc, Jump, Ins
    <3>3. CASE pc = 10
      <4>1. cmpr = 0
        BY <3>1, <3>3 DEF Exchange, Holds, BreakHolds
      <4> QED
        BY <1>3, <2>2, <4>1 DEF NextPc, BranchTaken
    <3> QED
      BY <3>1, <3>2, <3>3
  <2> QED
    BY <2>1, <2>2
<1>5. Source(Current, Pins) =
         CASE Current.op = "LDI" -> Current.v
           [] Current.op = "LDD" -> cpu.cur.din
           [] Current.op = "LDAH" -> 0
           [] Current.op \in LoadsRegister -> regs[Current.s]
           [] OTHER -> Source(Current, Pins)
  BY DEF Source, Pins, LoadsRegister
<1> QED
  BY <1>1, <1>2, <1>3, <1>4, <1>5 DEF TypeInv, OcdTypeOK

\* The cycle the OCD captures: the CPU is in it.
LEMMA Capturing ==
    ASSUME NEW p \in Debugging, Exchange(p), ~Answered(p, pc)
    PROVE  cpu.phase = "T2" /\ InCycle /\ Done(p, Caught(p, pc) - 1) /\ cpu.mode = "prot"
BY DEF Exchange, InStep, InCycle

\* The registers of the break program's instructions,
LEMMA BreakHoldsStep ==
    ASSUME TypeInv, Exchange("break"), OcdRetire(Pins), saved' = saved
    PROVE  BreakHolds(pc)'
<1> DEFINE i == pc
<1>0. "break" \in Debugging
  BY DEF Debugging
<1>1. /\ pc \in 3 .. 56 /\ Current = Code["break"][pc] /\ Current.op # "EXIT"
      /\ pc' = pc + 1 \/ (pc = 8 /\ Current.op = "BEQ" /\ pc' = 11)
      /\ regs' = IF Current.op \in StoresRegister
                 THEN [regs EXCEPT ![Current.d] = Source(Current, Pins)] ELSE regs
      /\ regs \in [RegIds -> Word]
  BY <1>0, Retired DEF Span
<1>2. /\ Current.op = "LDI" => Source(Current, Pins) = Current.v
      /\ Current.op = "LDD" => Source(Current, Pins) = cpu.cur.din
      /\ Current.op = "LDAH" => Source(Current, Pins) = 0
      /\ Current.op = "LDCMP" => Source(Current, Pins) = regs[Current.s]
  BY DEF Source, Pins, LoadsRegister
<1>3. BreakHolds(pc)
  BY DEF Exchange, Holds
<1>4. pc # 8 => Current = PrgmBreak[pc]
  BY <1>1, BreakText
<1>5. pc = 8 => Current = Jump("BEQ", 11)
  BY <1>1, BreakText
<1>6. CASE pc \in 3 .. 10
  <2>1. pc = 3 => Current = To("LDAL", 2)
    BY <1>4, BreakSource
  <2>2. pc = 4 => Current = To("LDAH", 3)
    BY <1>4, BreakSource
  <2>3. pc = 5 => Current = From("LDCMP", 2)
    BY <1>4, BreakSource
  <2>4. pc = 6 => Current = Ldi(1, 8)
    BY <1>4, BreakSource
  <2>5. pc = 7 => Current = From("CMP", 1)
    BY <1>4, BreakSource
  <2>6. pc = 9 => Current = From("LDCMP", 3)
    BY <1>4, BreakSource
  <2>7. pc = 10 => Current = Jump("BEQ", 57)
    BY <1>4, BreakSource
  <2> USE DEF To, From, Ldi, Jump, Ins
  <2>8. pc' \in 5 .. 10 => regs'[3] = 0
    <3>1. CASE pc = 3
      BY <1>1, <3>1
    <3>2. CASE pc = 4
      BY <1>1, <1>2, <2>2, <3>2 DEF StoresRegister, RegIds
    <3>3. CASE pc \in 5 .. 10
      <4>1. regs[3] = 0
        BY <1>3, <3>3 DEF BreakHolds
      <4>2. Current.op \in StoresRegister => Current.d # 3 /\ Current.d \in RegIds
        BY <1>5, <2>3, <2>4, <2>5, <2>6, <2>7, <3>3 DEF StoresRegister, RegIds
      <4> QED
        BY <1>1, <4>1, <4>2 DEF RegIds
    <3> QED
      BY <1>6, <3>1, <3>2, <3>3
  <2>9. pc' = 10 => cmpr' = 0
    <3>1. SUFFICES ASSUME pc' = 10 PROVE cmpr' = 0
      OBVIOUS
    <3>2. pc = 9
      BY <1>1, <3>1
    <3>3. regs[3] = 0 /\ Current.op = "LDCMP" /\ Current.s = 3
      BY <1>3, <2>6, <3>2 DEF BreakHolds
    <3> QED
      BY <1>2, <3>3 DEF OcdRetire, DoExec
  <2>10. pc' \in 4 .. 11
    BY <1>1, <1>6
  <2>11. \A q \in 0 .. 7 : pc' # 12 + 3 * q
    BY <2>10
  <2> QED
    BY <2>8, <2>9, <2>10, <2>11 DEF BreakHolds
<1>7. CASE pc \in 11 .. 39
  <2>1. pc' = pc + 1
    BY <1>1, <1>7
  <2>2. ASSUME NEW q \in 0 .. 7, pc' = 12 + 3 * q PROVE regs'[1] = FakeTable(1 + q)
    <3>1. pc = 11 + 3 * q
      BY <2>1, <2>2, <1>7
    <3>2. Current = Ldi(1, FakeTable(1 + q))
      BY <1>4, <1>7, <3>1, BreakSource
    <3> QED
      BY <1>1, <1>2, <3>2 DEF Ldi, Ins, StoresRegister, RegIds
  <2>3. pc' \in 12 .. 40
    BY <1>7, <2>1
  <2>4. /\ ~(pc' \in 5 .. 10) /\ pc' # 10 /\ ~(pc' > 40) /\ ~(pc' > 43)
        /\ ~(pc' > 46) /\ ~(pc' > 49) /\ ~(pc' > 52) /\ ~(pc' > 54)
    BY <2>3
  <2> QED
    BY <2>2, <2>4 DEF BreakHolds
<1>8. CASE pc \in 40 .. 51
  <2>1. pc' = pc + 1
    BY <1>1, <1>8
  <2>2. PICK q \in 0 .. 3 : pc = 40 + 3 * q \/ pc = 41 + 3 * q \/ pc = 42 + 3 * q
    <3>1. (pc - 40) \div 3 \in 0 .. 3
      BY <1>8
    <3> QED
      BY <1>8, <3>1
  <2>3. CASE pc = 40 + 3 * q
    <3>1. Current = To("LDD", 2 + q)
      BY <1>4, <1>8, <2>3, BreakSource
    <3>2. ~Answered("break", pc) /\ Caught("break", pc) - 1 = 10 + q
      BY <1>8, <2>3 DEF Answered, Caught
    <3>3. InCycle /\ cpu.mode = "prot" /\ In("nmi", 10 + q, saved)
      BY <1>0, <3>2, Capturing DEF Done
    <3>4. cpu.cur.din = NmiPushes[q + 1]
      BY <3>3, NmiWord
    <3>6. Current.op = "LDD" /\ Current.d = 2 + q /\ Current.op \in StoresRegister
      BY <3>1 DEF To, Ins, StoresRegister
    <3>5. regs' = [regs EXCEPT ![2 + q] = NmiPushes[q + 1]]
      BY <1>1, <1>2, <3>4, <3>6
    <3>7. q = 0 \/ q = 1 \/ q = 2 \/ q = 3
      OBVIOUS
    <3> QED
      BY <1>1, <1>3, <2>1, <2>3, <3>5, <3>7 DEF BreakHolds, NmiPushes, RegIds
  <2>4. CASE pc = 41 + 3 * q \/ pc = 42 + 3 * q
    <3>1. Current.op = "READY" \/ Current.op = "WAITADS"
      BY <1>4, <1>8, <2>4, BreakSource DEF Do, Ins
    <3>2. regs' = regs
      BY <1>1, <3>1 DEF StoresRegister
    <3>3. q = 0 \/ q = 1 \/ q = 2 \/ q = 3
      OBVIOUS
    <3> QED
      BY <1>3, <1>8, <2>1, <2>4, <3>2, <3>3 DEF BreakHolds
  <2> QED
    BY <2>2, <2>3, <2>4
<1>9. CASE pc \in 52 .. 55
  <2>1. pc' = pc + 1
    BY <1>1, <1>9
  <2>2. CASE pc = 52
    <3>1. Current = To("LDD", 6)
      BY <1>4, <2>2, BreakSource
    <3>2. ~Answered("break", pc) /\ Caught("break", pc) - 1 = 10 + 4
      BY <2>2 DEF Answered, Caught
    <3>3. InCycle /\ cpu.mode = "prot" /\ In("nmi", 10 + 4, saved)
      BY <1>0, <3>2, Capturing DEF Done
    <3>4. cpu.cur.din = NmiPushes[5]
      <4>1. \A q \in 0 .. 4 : In("nmi", 10 + q, saved) => cpu.cur.din = NmiPushes[q + 1]
        BY <3>3, NmiWord
      <4>2. 4 \in 0 .. 4 /\ 4 + 1 = 5
        OBVIOUS
      <4> QED
        BY <3>3, <4>1, <4>2
    <3>6. Current.op = "LDD" /\ Current.d = 6 /\ Current.op \in StoresRegister
      BY <3>1 DEF To, Ins, StoresRegister
    <3>5. regs' = [regs EXCEPT ![6] = NmiPushes[5]]
      BY <1>1, <1>2, <3>4, <3>6
    <3> QED
      BY <1>1, <1>3, <2>1, <2>2, <3>5 DEF BreakHolds, NmiPushes, RegIds
  <2>3. CASE pc = 53 \/ pc = 55
    <3>1. regs' = regs
      BY <1>1, <1>4, <2>3, BreakSource DEF Do, Ins, StoresRegister
    <3> QED
      BY <1>3, <2>1, <2>3, <3>1 DEF BreakHolds
  <2>4. CASE pc = 54
    <3>1. Current = Ldi(1, 1)
      BY <1>4, <2>4, BreakSource
    <3>3. Current.op = "LDI" /\ Current.d = 1 /\ Current.v = 1 /\ Current.op \in StoresRegister
      BY <3>1 DEF Ldi, Ins, StoresRegister
    <3>2. regs' = [regs EXCEPT ![1] = 1]
      BY <1>1, <1>2, <3>3
    <3> QED
      BY <1>1, <1>3, <2>1, <2>4, <3>2 DEF BreakHolds, RegIds
  <2> QED
    BY <1>9, <2>2, <2>3, <2>4
<1>10. pc # 56
  BY <1>1, <1>4, BreakSource DEF Do, Ins
<1> QED
  BY <1>1, <1>6, <1>7, <1>8, <1>9, <1>10

\* of cont's,
LEMMA ContHoldsStep ==
    ASSUME TypeInv, Exchange("cont"), OcdRetire(Pins), saved' = saved
    PROVE  ContHolds(pc)'
<1>0. "cont" \in Debugging
  BY DEF Debugging
<1>1. /\ pc \in 1 .. 23 /\ Current = Code["cont"][pc] /\ pc' = pc + 1
      /\ regs' = IF Current.op \in StoresRegister
                 THEN [regs EXCEPT ![Current.d] = Source(Current, Pins)] ELSE regs
      /\ regs \in [RegIds -> Word]
      /\ Shape("cont", pc, Current.op, Code["cont"][pc + 1].op)
  BY <1>0, Retired DEF Span
<1>2. Current.op = "LDI" => Source(Current, Pins) = Current.v
  BY DEF Source, LoadsRegister
<1>3. ContHolds(pc)
  BY DEF Exchange, Holds
<1>4. CASE pc = 1
  <2>1. Current.op = "LDI" /\ Current.d = 1 /\ Current.v = IretNop
    BY <1>1, <1>4, ContText DEF Ldi, Ins
  <2>2. regs' = [regs EXCEPT ![1] = IretNop]
    BY <1>1, <1>2, <2>1 DEF StoresRegister
  <2> QED
    BY <1>1, <1>3, <2>2 DEF ContHolds, RegIds
<1>5. CASE pc = 2
  <2>1. Current.op = "LDI" /\ Current.d = 7
    BY <1>1, <1>5, ContText DEF Ldi, Ins
  <2>2. regs' = [regs EXCEPT ![7] = Source(Current, Pins)]
    BY <1>1, <2>1 DEF StoresRegister
  <2> QED
    BY <1>1, <1>3, <1>5, <2>2 DEF ContHolds, RegIds
<1>6. CASE pc \in 3 .. 23
  <2>1. Current.op \in {"STD", "WAITADS", "DETACH"}
    <3>1. CASE pc = 3 \/ pc = 23
      BY <1>1, <3>1, ContText DEF Do, Ins
    <3>2. CASE pc \in 4 .. 22
      <4>1. PICK q \in 0 .. 9 : pc = 4 + 2 * q \/ (pc = 5 + 2 * q /\ q \in 0 .. 8)
        <5>1. (pc - 4) \div 2 \in 0 .. 9
          BY <3>2
        <5> QED
          BY <3>2, <5>1
      <4>2. pc = 5 + 2 * q /\ q \in 0 .. 8 => Current.op = "WAITADS"
        BY <1>1, ContText DEF Do, Ins
      <4>3. pc = 4 + 2 * q => Current.op = "STD"
        <5>1. q = 0 \/ q \in 1 .. 3 \/ q = 4 \/ q = 5 \/ q = 6 \/ q = 7 \/ q = 8 \/ q = 9
          OBVIOUS
        <5>2. q \in 1 .. 3 => Code["cont"][4 + 2 * q] = From("STD", 7)
          BY ContText
        <5> QED
          BY <1>1, <5>1, <5>2, ContText DEF From, Ins
      <4> QED
        BY <4>1, <4>2, <4>3
    <3> QED
      BY <1>6, <3>1, <3>2
  <2>2. regs' = regs
    BY <1>1, <2>1 DEF StoresRegister
  <2> QED
    BY <1>1, <1>3, <1>6, <2>2 DEF ContHolds
<1> QED
  BY <1>1, <1>4, <1>5, <1>6

\* of get_regs's,
LEMMA GetRegsHoldsStep ==
    ASSUME TypeInv, Exchange("get_regs"), OcdRetire(Pins), saved' = saved
    PROVE  GetRegsHolds(pc)'
<1>0. "get_regs" \in Debugging
  BY DEF Debugging
<1>1. /\ pc \in 1 .. 62 /\ Current = Code["get_regs"][pc] /\ pc' = pc + 1
      /\ regs' = IF Current.op \in StoresRegister
                 THEN [regs EXCEPT ![Current.d] = Source(Current, Pins)] ELSE regs
      /\ regs \in [RegIds -> Word] /\ Current.op # "EXIT"
  BY <1>0, Retired DEF Span
<1>2. /\ Current.op = "LDI" => Source(Current, Pins) = Current.v
      /\ Current.op = "LDD" => Source(Current, Pins) = cpu.cur.din
  BY DEF Source, Pins, LoadsRegister
<1>3. GetRegsHolds(pc)
  BY DEF Exchange, Holds
<1>13. Pushed' = Pushed
  BY DEF Pushed
<1>14. \A j : PushedWord(Pushed, j)' = PushedWord(Pushed, j)
  BY <1>13 DEF PushedWord
<1> HIDE DEF Pushed, PushedWord
<1>4. CASE pc = 1
  <2>1. Current.op = "LDI" /\ Current.d = 1 /\ Current.v = PushaNop
    BY <1>1, <1>4, GetRegsText DEF Ldi, Ins
  <2>2. regs' = [regs EXCEPT ![1] = PushaNop]
    BY <1>1, <1>2, <2>1 DEF StoresRegister
  <2> QED
    BY <1>1, <1>4, <2>2 DEF GetRegsHolds, RegIds
<1>5. CASE pc = 2
  <2>1. Current.op = "LDI" /\ Current.d = 2
    BY <1>1, <1>5, GetRegsText DEF Ldi, Ins
  <2>2. regs' = [regs EXCEPT ![2] = Source(Current, Pins)]
    BY <1>1, <2>1 DEF StoresRegister
  <2> QED
    BY <1>1, <1>3, <1>5, <2>2 DEF GetRegsHolds, RegIds
<1>6. CASE pc \in 3 .. 13
  <2>1. Current.op \in {"STD", "WAITADS"}
    <3>1. CASE pc = 3
      BY <1>1, <3>1, GetRegsText DEF Do, Ins
    <3>2. CASE pc \in 4 .. 13
      <4>1. PICK q \in 0 .. 4 : pc = 4 + 2 * q \/ pc = 5 + 2 * q
        <5>1. (pc - 4) \div 2 \in 0 .. 4
          BY <3>2
        <5> QED
          BY <3>2, <5>1
      <4>2. q = 0 \/ q \in 1 .. 4
        OBVIOUS
      <4> QED
        BY <1>1, <4>1, <4>2, GetRegsText DEF From, Do, Ins
    <3> QED
      BY <1>6, <3>1, <3>2
  <2>2. regs' = regs
    BY <1>1, <2>1 DEF StoresRegister
  <2>3. \A j \in 0 .. 15 : ~(pc' > 14 + 3 * j)
    BY <1>1, <1>6
  <2> QED
    BY <1>1, <1>3, <1>6, <2>2, <2>3 DEF GetRegsHolds
<1>7. CASE pc \in 14 .. 61
  <2>0. ~(pc' \in 2 .. 13)
    BY <1>1, <1>7
  <2>1. PICK q \in 0 .. 15 : pc = 14 + 3 * q \/ pc = 15 + 3 * q \/ pc = 16 + 3 * q
    <3>1. (pc - 14) \div 3 \in 0 .. 15
      BY <1>7
    <3> QED
      BY <1>7, <3>1
  <2>2. CASE pc = 14 + 3 * q
    <3>1. Current = To("LDD", q)
      <4>1. q \in 0 .. 14 \/ q = 15
        OBVIOUS
      <4> QED
        BY <1>1, <2>2, <4>1, GetRegsText
    <3>2. ~Answered("get_regs", pc) /\ Caught("get_regs", pc) - 1 = 5 + q
      BY <2>2 DEF Answered, Caught
    <3>3. InCycle /\ In("pusha", q, Pushed)
      <4>1. InCycle /\ Done("get_regs", 5 + q)
        BY <1>0, <3>2, Capturing
      <4>2. 5 + q \in 5 .. 20 /\ 5 + q - 5 = q
        OBVIOUS
      <4> QED
        BY <4>1, <4>2 DEF Done
    <3>4. cpu.cur.din = PushedWord(Pushed, q)
      BY <3>3, PushaWord
    <3>5. Current.op = "LDD" /\ Current.d = q /\ Current.op \in StoresRegister
      BY <3>1 DEF To, Ins, StoresRegister
    <3>6. regs' = [regs EXCEPT ![q] = PushedWord(Pushed, q)]
      BY <1>1, <1>2, <3>4, <3>5
    <3>7. ASSUME NEW j \in 0 .. 15, pc' > 14 + 3 * j
          PROVE  regs'[j] = PushedWord(Pushed, j)
      <4>1. j = q \/ pc > 14 + 3 * j
        BY <1>1, <2>2, <3>7
      <4>2. j # q => regs[j] = PushedWord(Pushed, j)
        BY <1>3, <4>1 DEF GetRegsHolds
      <4> QED
        BY <1>1, <3>6, <4>2 DEF RegIds
    <3> QED
      BY <1>14, <2>0, <3>7 DEF GetRegsHolds
  <2>3. CASE pc = 15 + 3 * q \/ pc = 16 + 3 * q
    <3>1. Current.op \in {"READY", "WAITADS", "HOLD"}
      <4>1. pc = 16 + 3 * q => q \in 0 .. 14 \/ pc = 61 \/ pc > 62
        BY <1>7
      <4>2. pc = 61 => q = 15 /\ pc = 16 + 3 * q
        BY <2>3
      <4> QED
        BY <1>1, <1>7, <2>3, <4>1, <4>2, GetRegsText DEF Do, Ins
    <3>2. regs' = regs
      BY <1>1, <3>1 DEF StoresRegister
    <3>3. \A j \in 0 .. 15 : pc' > 14 + 3 * j => pc > 14 + 3 * j
      BY <1>1, <2>3
    <3> QED
      BY <1>3, <1>14, <2>0, <3>2, <3>3 DEF GetRegsHolds
  <2> QED
    BY <2>1, <2>2, <2>3
<1>8. pc # 62
  BY <1>1, GetRegsText DEF Do, Ins
<1> QED
  BY <1>1, <1>4, <1>5, <1>6, <1>7, <1>8

\* of set_reg's,
LEMMA SetRegHoldsStep ==
    ASSUME TypeInv, Exchange("set_reg"), OcdRetire(Pins), saved' = saved
    PROVE  SetRegHolds(pc)'
<1>0. "set_reg" \in Debugging
  BY DEF Debugging
<1>1. /\ pc \in 1 .. 13 /\ Current = Code["set_reg"][pc] /\ pc' = pc + 1
      /\ regs' = IF Current.op \in StoresRegister
                 THEN [regs EXCEPT ![Current.d] = Source(Current, Pins)] ELSE regs
      /\ regs \in [RegIds -> Word]
  BY <1>0, Retired DEF Span
<1>2. Current.op = "LDI" => Source(Current, Pins) = Current.v
  BY DEF Source, LoadsRegister
<1>3. SetRegHolds(pc)
  BY DEF Exchange, Holds
<1>5. Pushed' = Pushed
  BY DEF Pushed
<1> HIDE DEF Pushed
<1>4. CASE pc = 1
  <2>1. Current.op = "LDI" /\ Current.d = 4 /\ Current.v = NopNop
    BY <1>1, <1>4, SetRegText DEF Ldi, Ins
  <2>2. regs' = [regs EXCEPT ![4] = NopNop]
    BY <1>1, <1>2, <2>1 DEF StoresRegister
  <2> QED
    BY <1>1, <1>3, <1>5, <2>2 DEF SetRegHolds, RegIds
<1>6. CASE pc \in 2 .. 13
  <2>1. Current.op \in {"STD", "WAITADS", "HOLD", "EXIT"}
    <3>1. CASE pc \in {2, 11, 12, 13}
      BY <1>1, <3>1, SetRegText DEF From, Do, Ins
    <3>2. CASE pc \in 3 .. 10
      <4>1. PICK q \in 0 .. 3 : pc = 3 + 2 * q \/ pc = 4 + 2 * q
        <5>1. (pc - 3) \div 2 \in 0 .. 3
          BY <3>2
        <5> QED
          BY <3>2, <5>1
      <4> QED
        BY <1>1, <4>1, SetRegText DEF From, Do, Ins
    <3> QED
      BY <1>6, <3>1, <3>2
  <2>2. regs' = regs
    BY <1>1, <2>1 DEF StoresRegister
  <2> QED
    BY <1>1, <1>3, <1>5, <1>6, <2>2 DEF SetRegHolds
<1> QED
  BY <1>1, <1>4, <1>6

\* and of all of them.
LEMMA HoldsStep ==
    ASSUME TypeInv, NEW p \in Debugging, Exchange(p), OcdRetire(Pins), saved' = saved
    PROVE  Holds(p, pc)'
BY BreakHoldsStep, ContHoldsStep, GetRegsHoldsStep, SetRegHoldsStep DEF Holds

-----------------------------------------------------------------------------
(* One step of the OCD within an exchange *)

\* The microcode's progress is all Done speaks of.
LEMMA DoneKept ==
    ASSUME saved' = saved, cpu'.level = cpu.level, cpu'.k = cpu.k, cpu'.ctx = cpu.ctx,
           cpu'.got = cpu.got, cpu'.fetched = cpu.fetched,
           NEW p, NEW n, Done(p, n)
    PROVE  Done(p, n)'
BY DEF Done, In, Fetched, Popped, Pushed, PushedBut

\* The same of what it is to be fed.
LEMMA FedKept ==
    ASSUME saved' = saved, NEW p, NEW n, NEW w, Fed(p, n, w)
    PROVE  Fed(p, n, w)'
BY DEF Fed, Popped, Pushed

\* The OCD's pins leave the CPU's progress alone, when they neither reset it nor tell it
\* of an NMI.
LEMMA PinsQuiet ==
    ASSUME cpu \in CpuType, cpu' = OcdPinsDriven, ~reset', ~nmi'
    PROVE  /\ cpu'.phase = IF cpu.phase = "T1" /\ ~waiting' THEN "T2" ELSE cpu.phase
           /\ cpu'.level = cpu.level /\ cpu'.k = cpu.k /\ cpu'.ctx = cpu.ctx
           /\ cpu'.got = cpu.got /\ cpu'.fetched = cpu.fetched /\ cpu'.mode = cpu.mode
           /\ cpu'.nmi = cpu.nmi /\ cpu'.cur = cpu.cur
<1>1. cpu' = T1Over
  BY DEF OcdPinsDriven
<1>2. CASE cpu.phase = "T1" /\ ~waiting'
  <2>1. cpu' = [cpu EXCEPT !.phase = "T2"]
    BY <1>1, <1>2 DEF T1Over
  <2> QED
    BY <1>2, <2>1 DEF CpuType, Phases
<1>3. CASE ~(cpu.phase = "T1" /\ ~waiting')
  <2>1. cpu' = cpu
    BY <1>1, <1>3 DEF T1Over
  <2> QED
    BY <1>3, <2>1
<1> QED
  BY <1>2, <1>3

\* The first clock of a wait.
LEMMA ExchangeWait ==
    ASSUME TypeInv, NEW p \in Debugging, Exchange(p), OcdStep, OcdWait(Pins)
    PROVE  Exchange(p)'
<1> DEFINE n == Caught(p, pc)
           a == Answered(p, pc)
           op == Current.op
<1>1. /\ prog = p /\ pc \in Span(p) /\ prog' = p /\ pc' = pc /\ regs' = regs
      /\ ~waiting /\ waiting' /\ saved' = saved /\ Current' = Current
      /\ Shape(p, pc, op, Code[p][pc + 1].op)
  BY ShapeOf DEF Exchange, OcdWait, OcdStep, Current
<1>2. op \in { "WAITADS", "HOLD", "EXIT" } /\ ExecWait(op, Pins)
  <2>1. ExecWait(op, Pins)
    BY DEF OcdWait
  <2> QED
    BY <1>1, <2>1 DEF Shape, Loads, ExecWait
<1>3. /\ en' /\ ~reset' /\ ~nmi' /\ dout' = dout /\ cmpr' = cmpr
      /\ ready' <=> ready \/ op = "WAITADS"
      /\ hold' <=> (hold \/ op = "HOLD") /\ op # "WAITADS"
  BY <1>2 DEF OcdWait, DoExec, ExecEn, ExecReady, ExecNmi, AssertsReady, Exchange
<1>4. cpu \in CpuType /\ cpu' = OcdPinsDriven
  BY DEF TypeInv, CpuInv, OcdStep
<1>5. /\ cpu'.phase = cpu.phase /\ cpu'.level = cpu.level /\ cpu'.k = cpu.k
      /\ cpu'.ctx = cpu.ctx /\ cpu'.got = cpu.got /\ cpu'.fetched = cpu.fetched
      /\ cpu'.mode = cpu.mode /\ cpu'.nmi = cpu.nmi
  BY <1>1, <1>3, <1>4, PinsQuiet
<1>6. Caught(p, pc)' = n /\ Answered(p, pc)' = a /\ n \in 0 .. 21
  BY <1>1 DEF Shape
<1>7. ready' <=> a
  BY <1>1, <1>3 DEF Exchange, Shape
<1> HIDE DEF n, a
<1>8. InStep(p)'
  <2>1. \A m : Done(p, m) => Done(p, m)'
    BY <1>1, <1>5, DoneKept
  <2>2. \A m, w : Fed(p, m, w) => Fed(p, m, w)'
    BY <1>1, FedKept
  <2>5. n' = n /\ a' = a
    BY <1>6 DEF n, a
  <2>3. Fed(p, n - 1, dout) => Fed(p, n - 1, dout)'
    BY <1>3, <2>2, <2>5
  <2>4. InStep(p)
    BY DEF Exchange
  <2> QED
    BY <1>1, <1>5, <1>6, <2>1, <2>3, <2>4, <2>5 DEF InStep, n, a
<1>9. Holding(p)'
  <2>1. Holding(p) /\ n = Caught(p, pc)
    BY DEF Exchange, n
  <2>2. Catching' <=> op = "WAITADS"
    BY <1>1 DEF Catching
  <2>3. ~Catching
    BY <1>1 DEF Catching
  <2>4. cpu.phase # "T1"
    BY <2>1, <2>3 DEF Holding
  <2>5. op # "WAITADS" => n > 0
    BY <1>1, <1>2 DEF Shape, n
  <2>6. cpu.phase = "held" /\ op = "WAITADS" => n = 0
    BY <1>1, <2>1 DEF Holding
  <2>7. CASE op = "WAITADS"
    BY <1>1, <1>3, <1>5, <1>6, <2>2, <2>4, <2>6, <2>7 DEF Holding, n
  <2>8. CASE op = "HOLD"
    BY <1>1, <1>3, <1>5, <1>6, <2>2, <2>4, <2>5, <2>8 DEF Holding, n
  <2>9. CASE op = "EXIT"
    <3>1. hold /\ cpu.phase = "held"
      BY <2>1, <2>9 DEF Holding
    <3> QED
      BY <1>1, <1>3, <1>5, <1>6, <2>2, <2>4, <2>5, <2>9, <3>1 DEF Holding, n
  <2> QED
    BY <1>2, <2>7, <2>8, <2>9
<1>10. Holds(p, pc)'
  BY <1>1, <1>3 DEF Exchange, Holds, BreakHolds, ContHolds, GetRegsHolds, SetRegHolds,
                    Pushed, PushedWord
<1>11. (ready <=> Answered(p, pc))'
  BY <1>6, <1>7 DEF a
<1> QED
  BY <1>1, <1>3, <1>5, <1>8, <1>9, <1>10, <1>11 DEF Exchange

\* Where an instruction but DETACH leads.
LEMMA NextShape ==
    ASSUME NEW p \in Debugging, NEW i \in Span(p), NEW j,
           j = i + 1 \/ (p = "break" /\ i = 8 /\ Code[p][i].op = "BEQ" /\ j = 11),
           Code[p][i].op \notin { "EXIT", "DETACH" }
    PROVE  LET op == Code[p][i].op
           IN  /\ j \in Span(p)
               /\ Caught(p, j) = IF op = "WAITADS" THEN Caught(p, i) + 1 ELSE Caught(p, i)
               /\ Answered(p, j) <=> \/ op \in { "STD", "READY", "HOLD" }
                                     \/ op # "WAITADS" /\ Answered(p, i)
               /\ Code[p][j].op = "EXIT" <=> op = "HOLD"
<1>1. Shape(p, i, Code[p][i].op, Code[p][i + 1].op)
  BY ShapeOf
<1>2. CASE j = i + 1
  BY <1>1, <1>2 DEF Shape, Loads
<1>3. CASE p = "break" /\ i = 8 /\ Code[p][i].op = "BEQ" /\ j = 11
  <2>1. Code["break"][11] = PrgmBreak[11] /\ PrgmBreak[11].op = "LDI"
    <3>1. \A q \in 0 .. 7 : PrgmBreak[11 + 3 * q] = Ldi(1, FakeTable(1 + q))
      BY BreakSource
    <3>2. 0 \in 0 .. 7 /\ 11 + 3 * 0 = 11 /\ 11 \in 1 .. 56
      OBVIOUS
    <3>3. PrgmBreak[11] = Ldi(1, FakeTable(1 + 0))
      BY <3>1, <3>2
    <3> QED
      BY <3>2, <3>3, BreakText DEF Ldi, Ins
  <2> QED
    BY <1>3, <2>1 DEF Span, Caught, Answered
<1> QED
  BY <1>2, <1>3

\* An instruction is over.
LEMMA ExchangeRetire ==
    ASSUME TypeInv, NEW p \in Debugging, Exchange(p), OcdStep, OcdRetire(Pins), ReadySampled,
           Current.op # "DETACH"
    PROVE  Exchange(p)'
<1> DEFINE n == Caught(p, pc)
           a == Answered(p, pc)
           op == Current.op
<1>1. /\ prog = p /\ prog' = p /\ ~waiting' /\ pc \in Span(p) /\ op = Code[p][pc].op
      /\ Shape(p, pc, op, Code[p][pc + 1].op) /\ saved' = saved
      /\ pc' = pc + 1 \/ (p = "break" /\ pc = 8 /\ op = "BEQ" /\ pc' = 11)
      /\ op # "EXIT" /\ op # "DETACH"
  BY Retired DEF Exchange, OcdStep
<1>2. /\ pc' \in Span(p)
      /\ Caught(p, pc') = IF op = "WAITADS" THEN n + 1 ELSE n
      /\ Answered(p, pc') <=> op \in { "STD", "READY", "HOLD" } \/ (op # "WAITADS" /\ a)
      /\ Current'.op = "EXIT" <=> op = "HOLD"
  <2>1. Current'.op = Code[p][pc'].op
    BY <1>1 DEF Current
  <2> QED
    BY <1>1, <2>1, NextShape
<1>3. Caught(p, pc)' = Caught(p, pc') /\ (Answered(p, pc)' <=> Answered(p, pc'))
  BY DEF Caught, Answered
<1>4. ~ExecWait(op, Pins) /\ en /\ ~reset /\ ~nmi /\ n \in 0 .. 21 /\ (ready <=> a)
  BY <1>1 DEF OcdRetire, Exchange, Shape
<1>5. op \in Loads \cup { "BEQ", "STD", "READY", "WAITADS", "HOLD" }
  BY <1>1 DEF Shape
<1>6. /\ en' /\ ~reset' /\ ~nmi'
      /\ ready' <=> (ready \/ op \in { "STD", "READY" }) /\ op # "WAITADS"
      /\ hold' <=> (hold \/ op = "HOLD") /\ op \notin { "STD", "READY", "WAITADS" }
      /\ op # "STD" => dout' = dout
      /\ op = "STD" => dout' = regs[Current.s]
  BY <1>4, <1>5 DEF OcdRetire, DoExec, DoStore, ExecEn, ExecReady, ExecNmi, AssertsReady,
                    WaitOps, Loads, Source, LoadsRegister
<1>7. cpu \in CpuType /\ cpu' = OcdPinsDriven
  BY DEF TypeInv, CpuInv, OcdStep
<1>8. /\ cpu'.phase = IF cpu.phase = "T1" THEN "T2" ELSE cpu.phase
      /\ cpu'.level = cpu.level /\ cpu'.k = cpu.k
      /\ cpu'.ctx = cpu.ctx /\ cpu'.got = cpu.got /\ cpu'.fetched = cpu.fetched
      /\ cpu'.mode = cpu.mode /\ cpu'.nmi = cpu.nmi
  BY <1>1, <1>6, <1>7, PinsQuiet
<1>9. /\ \A m : Done(p, m) => Done(p, m)'
      /\ \A m, w : Fed(p, m, w) => Fed(p, m, w)'
  BY <1>1, <1>8, DoneKept, FedKept
<1>10. InStep(p) /\ Holding(p) /\ Holds(p, pc)
  BY DEF Exchange
<1>11. cpu.phase = "T2" => ~a
  BY <1>4 DEF ReadySampled
<1>12. op # "WAITADS" => ~Catching
  BY DEF Catching
<1>13. Holds(p, pc)'
  BY <1>1, HoldsStep
<1>14. (ready <=> Answered(p, pc))'
  <2>1. op = "HOLD" => a
    BY <1>1 DEF Shape
  <2> QED
    BY <1>2, <1>3, <1>4, <1>6, <2>1
<1>15. CASE op \in Loads \cup { "BEQ" }
  <2>1. op \notin { "STD", "READY", "WAITADS", "HOLD", "EXIT" }
    BY <1>15 DEF Loads
  <2>2. n' = n /\ (a' <=> a) /\ Current'.op # "EXIT"
    BY <1>2, <1>3, <2>1 DEF n, a
  <2>3. cpu.phase # "T1"
    BY <1>10, <1>12, <2>1 DEF Holding
  <2> HIDE DEF n, a
  <2>4. InStep(p)'
    <3>1. Done(p, n) => Done(p, n)'
      BY <1>9, <2>2
    <3>2. Done(p, n - 1) => Done(p, n - 1)'
      BY <1>9, <2>2
    <3> QED
      BY <1>8, <1>10, <1>11, <2>2, <2>3, <3>1, <3>2 DEF InStep, n, a
  <2>5. Holding(p)'
    BY <1>1, <1>6, <1>8, <1>10, <1>12, <2>1, <2>2, <2>3 DEF Holding, Catching, n
  <2> QED
    BY <1>1, <1>2, <1>4, <1>6, <1>8, <1>13, <1>14, <2>4, <2>5 DEF Exchange
<1>16. CASE op \in { "STD", "READY" }
  <2>1. n > 0 /\ ~a
    BY <1>1, <1>16 DEF Shape
  <2>2. n' = n /\ a' /\ Current'.op # "EXIT"
    BY <1>2, <1>3, <1>16 DEF n, a
  <2>3. Fed(p, n - 1, dout')
    <3>1. Current = Code[p][pc]
      BY <1>1 DEF Current
    <3>2. ASSUME NEW w, w = dout' PROVE Fed(p, n - 1, w)
      <4>1. Code[p][pc].op = "STD" => w = regs[Code[p][pc].s]
        BY <1>6, <3>1, <3>2
      <4> QED
        BY <1>1, <1>10, <1>16, <4>1, FedStep
    <3> QED
      BY <3>2
  <2> HIDE DEF n, a
  <2>4. cpu.phase = "T2" /\ Done(p, n - 1)
    BY <1>10, <2>1 DEF InStep, n, a
  <2>5. InStep(p)'
    <3>1. Done(p, n - 1)'
      BY <1>9, <2>2, <2>4
    <3>2. Fed(p, n - 1, dout)'
      BY <1>9, <2>2, <2>3
    <3> QED
      BY <1>8, <2>1, <2>2, <2>4, <3>1, <3>2 DEF InStep, n, a
  <2>6. Holding(p)'
    BY <1>1, <1>6, <1>8, <1>16, <2>1, <2>2, <2>4 DEF Holding, n
  <2> QED
    BY <1>1, <1>2, <1>4, <1>6, <1>8, <1>13, <1>14, <2>5, <2>6 DEF Exchange
<1>17. CASE op = "WAITADS"
  <2>1. a /\ cpu.phase = "T1"
    BY <1>1, <1>4, <1>17 DEF Shape, ExecWait, Pins
  <2>2. n' = n + 1 /\ ~a' /\ Current'.op # "EXIT"
    BY <1>2, <1>3, <1>17 DEF n, a
  <2>3. n \in 0 .. 21
    BY <1>4
  <2> HIDE DEF n, a
  <2>4. Done(p, n)
    BY <1>10, <2>1 DEF InStep, n, a
  <2>5. InStep(p)'
    <3>1. (n - 1)' = n
      BY <2>2, <2>3
    <3>2. Done(p, n - 1)'
      BY <1>9, <2>4, <3>1
    <3> QED
      BY <1>8, <2>1, <2>2, <2>3, <3>2 DEF InStep, n, a
  <2>6. Holding(p)'
    BY <1>1, <1>6, <1>8, <1>17, <2>1, <2>2, <2>3 DEF Holding, n
  <2> QED
    BY <1>1, <1>2, <1>4, <1>6, <1>8, <1>13, <1>14, <2>5, <2>6 DEF Exchange
<1>18. CASE op = "HOLD"
  <2>1. a /\ n > 0 /\ cpu.phase = "held"
    BY <1>1, <1>4, <1>18 DEF Shape, ExecWait, Pins
  <2>2. n' = n /\ a' /\ Current'.op = "EXIT"
    BY <1>2, <1>3, <1>18 DEF n, a
  <2> HIDE DEF n, a
  <2>4. Done(p, n)
    BY <1>10, <2>1 DEF InStep, n, a
  <2>5. InStep(p)'
    <3>2. Done(p, n)'
      BY <1>9, <2>2, <2>4
    <3> QED
      BY <1>8, <2>1, <2>2, <3>2 DEF InStep, n, a
  <2>6. Holding(p)'
    BY <1>1, <1>6, <1>8, <1>18, <2>1, <2>2 DEF Holding, n
  <2> QED
    BY <1>1, <1>2, <1>4, <1>6, <1>8, <1>13, <1>14, <2>5, <2>6 DEF Exchange
<1> QED
  BY <1>5, <1>15, <1>16, <1>17, <1>18

\* The program has its bus back.
LEMMA ExchangeDetach ==
    ASSUME TypeInv, NEW p \in Debugging, Exchange(p), OcdStep, OcdRetire(Pins), ReadySampled,
           Current.op = "DETACH"
    PROVE  prog' = "cont" /\ pc' = 24 /\ ~nmi' /\ ~reset' /\ Free'
<1>1. /\ p = "cont" /\ pc = 23 /\ Answered(p, pc) /\ Caught(p, pc) = 10
      /\ prog' = p /\ pc' = pc + 1
  BY Retired DEF Shape
<1>2. ~nmi' /\ ~reset' /\ ready /\ en /\ ~cpu.nmi
  BY <1>1 DEF OcdRetire, DoExec, DoStore, ExecNmi, WaitOps, Exchange
<1>3. cpu.phase # "T2"
  BY <1>2 DEF ReadySampled
<1>4. Done("cont", 10)
  BY <1>1, <1>3 DEF Exchange, InStep
<1>5. cpu.level = "prog"
  BY <1>4 DEF Done
<1>6. cpu'.level = cpu.level /\ cpu'.nmi = cpu.nmi
  BY <1>2, PinsQuiet DEF TypeInv, CpuInv, OcdStep
<1> QED
  BY <1>1, <1>2, <1>5, <1>6 DEF Free

-----------------------------------------------------------------------------
(* One cycle of the CPU within an exchange *)

\* A word's sum with a small number, and what it carries.
LEMMA Carry ==
    ASSUME NEW x \in Int
    PROVE  /\ x < 0 /\ x >= -WordSize => x % WordSize = x + WordSize /\ x \div WordSize = -1
           /\ x >= 0 /\ x < WordSize => x % WordSize = x /\ x \div WordSize = 0
           /\ x >= WordSize /\ x < 2 * WordSize => x % WordSize = x - WordSize /\ x \div WordSize = 1
<1> DEFINE W == WordSize
           q == x \div W
           r == x % W
<1>1. W \in Nat /\ W > 0
  BY WordBounds
<1> HIDE DEF W
<1>2. q \in Int /\ r \in Int /\ 0 <= r /\ r < W /\ x = W * q + r
  BY <1>1
<1> HIDE DEF q, r
<1>3. q < 0 => W * q <= -W
  BY <1>1, <1>2
<1>4. q < -1 => W * q <= -(2 * W)
  BY <1>1, <1>2
<1>5. q > 0 => W * q >= W
  BY <1>1, <1>2
<1>6. q > 1 => W * q >= 2 * W
  BY <1>1, <1>2
<1>7. W * 0 = 0 /\ W * 1 = W /\ W * (-1) = -W
  BY <1>1
<1>8. x < 0 /\ x >= -W => q = -1
  BY <1>1, <1>2, <1>3, <1>4, <1>5, <1>7
<1>9. x >= 0 /\ x < W => q = 0
  BY <1>1, <1>2, <1>3, <1>5, <1>7
<1>10. x >= W /\ x < 2 * W => q = 1
  BY <1>1, <1>2, <1>3, <1>6, <1>7
<1>11. /\ x < 0 /\ x >= -W => r = x + W /\ q = -1
       /\ x >= 0 /\ x < W => r = x /\ q = 0
       /\ x >= W /\ x < 2 * W => r = x - W /\ q = 1
  BY <1>1, <1>2, <1>7, <1>8, <1>9, <1>10
<1> QED
  BY <1>11 DEF q, r, W

\* 12 bytes down and up again.
LEMMA BackAgain ==
    ASSUME NEW d \in Dword
    PROVE  AddDword(AddDword(d, -12), 12) = d
<1> DEFINE W == WordSize
<1>0. W \in Nat /\ W >= 65536 /\ W <= 65536
  BY WordBounds
<1>1. PICK l \in Int, h \in Int : d = << l, h >> /\ 0 <= l /\ l < W /\ 0 <= h /\ h < W
  <2>1. d[1] \in Word /\ d[2] \in Word /\ d = << d[1], d[2] >>
    BY DEF Dword
  <2>2. \A w \in Word : w \in Int /\ 0 <= w /\ w < W
    BY <1>0 DEF Word
  <2> QED
    BY <2>1, <2>2
<1>2. \A r, s, n : AddDword(<< r, s >>, n) = << (r + n) % W, (s + (r + n) \div W) % W >>
  BY DEF AddDword, Low, High
<1>8. /\ \A x \in Int : x < 0 /\ x >= -W => x % W = x + W /\ x \div W = -1
      /\ \A x \in Int : x >= 0 /\ x < W => x % W = x /\ x \div W = 0
      /\ \A x \in Int : x >= W /\ x < 2 * W => x % W = x - W /\ x \div W = 1
  BY Carry
<1> HIDE DEF W
<1>3. -12 \in Int
  OBVIOUS
<1>4. CASE l >= 12
  <2>1. l + (-12) \in Int /\ l + (-12) >= 0 /\ l + (-12) < W
    BY <1>0, <1>1, <1>4
  <2>2. AddDword(d, -12) = << l + (-12), h >>
    <3>1. h + 0 = h /\ h % W = h
      BY <1>0, <1>1, <1>8
    <3> QED
      BY <1>1, <1>2, <1>8, <2>1, <3>1
  <2>3. l + (-12) + 12 = l /\ l % W = l /\ l \div W = 0 /\ h + 0 = h /\ h % W = h
    BY <1>0, <1>1, <1>8
  <2> QED
    BY <1>1, <1>2, <2>2, <2>3
<1>5. CASE l < 12
  <2> DEFINE m == l + (-12) + W
             g == IF h = 0 THEN W - 1 ELSE h - 1
  <2>1. (l + (-12)) % W = m /\ (l + (-12)) \div W = -1
    <3>1. l + (-12) \in Int /\ l + (-12) < 0 /\ l + (-12) >= -W
      BY <1>0, <1>1, <1>5
    <3> QED
      BY <1>8, <3>1
  <2>2. (h + (-1)) % W = g
    <3>1. h + (-1) \in Int /\ (h = 0 => h + (-1) < 0 /\ h + (-1) >= -W /\ h + (-1) + W = W - 1)
          /\ (h # 0 => h + (-1) >= 0 /\ h + (-1) < W /\ h + (-1) = h - 1)
      BY <1>0, <1>1
    <3> QED
      BY <1>8, <3>1
  <2>3. AddDword(d, -12) = << m, g >>
    BY <1>1, <1>2, <2>1, <2>2
  <2>4. (m + 12) % W = l /\ (m + 12) \div W = 1
    <3>1. m \in Int /\ m + 12 \in Int /\ m + 12 >= W /\ m + 12 < 2 * W /\ m + 12 - W = l
      BY <1>0, <1>1, <1>5
    <3> HIDE DEF m
    <3> QED
      BY <1>0, <1>1, <1>8, <3>1
  <2>5. (g + 1) % W = h
    <3>1. g \in Int /\ g + 1 \in Int /\ (h = 0 => g + 1 >= W /\ g + 1 < 2 * W /\ g + 1 - W = h)
          /\ (h # 0 => g + 1 >= 0 /\ g + 1 < W /\ g + 1 = h)
      BY <1>0, <1>1
    <3> HIDE DEF g
    <3> QED
      BY <1>0, <1>1, <1>8, <3>1
  <2> HIDE DEF m, g
  <2>6. AddDword(<< m, g >>, 12) = << l, h >>
    BY <1>2, <2>4, <2>5
  <2> QED
    BY <1>1, <2>3, <2>6
<1> QED
  BY <1>0, <1>1, <1>4, <1>5

\* What the words the handler fetched make of the CPU.
LEMMA HandlerNext ==
    ASSUME NEW c \in CpuType, c.phase = "idle", c.level = "handler",
           NEW f \in Seq(Word)
    PROVE  LET d == HandlerFetched(c, f)
           IN  /\ d.phase = "idle" /\ d.mode = c.mode /\ d.nmi = c.nmi
               /\ f[1] = IretNop /\ Len(f) = 4 => d.level = "iret" /\ d.k = 0 /\ d.ctx = c.ctx
               /\ f[1] = PushaNop /\ Len(f) = 5 => d.level = "pusha" /\ d.k = 0 /\ d.ctx = c.ctx
               /\ f[1] = NopMovEsp /\ Len(f) = 3 =>
                     /\ d.level = "handler" /\ d.fetched = << >>
                     /\ d.ctx = [c.ctx EXCEPT !.gp[ESP] = << f[2], f[3] >>]
               /\ Partial(f) => d.level = "handler" /\ d.fetched = f /\ d.ctx = c.ctx
               /\ f[1] = NopNop => d.level = "handler" /\ d.fetched = << >> /\ d.ctx = c.ctx
<1> DEFINE d == HandlerFetched(c, f)
<1>4. IretNop # PushaNop /\ IretNop # NopMovEsp /\ PushaNop # NopMovEsp
      /\ NopNop # PushaNop /\ NopNop # NopMovEsp /\ NopNop # IretNop
  BY DEF IretNop, PushaNop, NopMovEsp, NopNop
<1>5. CASE f[1] = IretNop /\ Len(f) = 4
  <2>1. d = [c EXCEPT !.level = "iret", !.k = 0, !.got = << >>, !.fetched = << >>]
    BY <1>4, <1>5 DEF HandlerFetched, Partial
  <2> HIDE DEF d
  <2>2. /\ d.phase = "idle" /\ d.mode = c.mode /\ d.nmi = c.nmi
        /\ d.level = "iret" /\ d.k = 0 /\ d.ctx = c.ctx
    BY <2>1 DEF CpuType
  <2> QED
    BY <1>4, <1>5, <2>2 DEF Partial, d
<1>6. CASE f[1] = PushaNop /\ Len(f) = 5
  <2>1. d = [c EXCEPT !.level = "pusha", !.k = 0, !.fetched = << >>]
    BY <1>4, <1>6 DEF HandlerFetched, Partial
  <2> HIDE DEF d
  <2>2. /\ d.phase = "idle" /\ d.mode = c.mode /\ d.nmi = c.nmi
        /\ d.level = "pusha" /\ d.k = 0 /\ d.ctx = c.ctx
    BY <2>1 DEF CpuType
  <2> QED
    BY <1>4, <1>6, <2>2 DEF Partial, d
<1>7. CASE f[1] = NopMovEsp /\ Len(f) = 3
  <2> DEFINE x == << f[2], f[3] >>
             y == [c.ctx EXCEPT !.gp[ESP] = x]
  <2>1. d = [c EXCEPT !.ctx.gp[ESP] = x, !.fetched = << >>]
    BY <1>4, <1>7 DEF HandlerFetched, Partial
  <2>3. y = [c.ctx EXCEPT !.gp[ESP] = << f[2], f[3] >>]
    OBVIOUS
  <2> HIDE DEF d, x
  <2>2. d = [phase |-> "idle", mode |-> c.mode, level |-> "handler", cur |-> c.cur,
             k |-> c.k, got |-> c.got, fetched |-> << >>, nmi |-> c.nmi, ctx |-> y]
    BY <2>1 DEF CpuType
  <2> HIDE DEF y
  <2>4. /\ d.phase = "idle" /\ d.mode = c.mode /\ d.nmi = c.nmi
        /\ d.level = "handler" /\ d.fetched = << >> /\ d.ctx = y
    BY <2>2
  <2> QED
    BY <1>4, <1>7, <2>3, <2>4 DEF Partial, d
<1>8. CASE Partial(f)
  <2>1. d = [c EXCEPT !.fetched = f]
    BY <1>4, <1>8 DEF HandlerFetched, Partial
  <2> HIDE DEF d
  <2>2. /\ d.phase = "idle" /\ d.mode = c.mode /\ d.nmi = c.nmi
        /\ d.level = "handler" /\ d.fetched = f /\ d.ctx = c.ctx
    BY <2>1 DEF CpuType
  <2>3. /\ ~(f[1] = IretNop /\ Len(f) = 4) /\ ~(f[1] = PushaNop /\ Len(f) = 5)
        /\ ~(f[1] = NopMovEsp /\ Len(f) = 3) /\ f[1] # NopNop
    <3>1. \/ f[1] = IretNop /\ Len(f) # 4
          \/ f[1] = PushaNop /\ Len(f) # 5
          \/ f[1] = NopMovEsp /\ Len(f) # 3
      <4>1. \A n \in Nat : (n < 4 => n # 4) /\ (n < 5 => n # 5) /\ (n < 3 => n # 3)
        OBVIOUS
      <4>2. Len(f) \in Nat
        OBVIOUS
      <4> QED
        BY <1>8, <4>1, <4>2, Zenon DEF Partial
    <3> QED
      BY <1>4, <3>1, Zenon
  <2> QED
    BY <1>8, <2>2, <2>3 DEF d
<1>9. CASE ~Partial(f) /\ ~(f[1] = IretNop /\ Len(f) = 4)
              /\ ~(f[1] = PushaNop /\ Len(f) = 5) /\ ~(f[1] = NopMovEsp /\ Len(f) = 3)
  <2>1. d = [c EXCEPT !.fetched = << >>]
    BY <1>9 DEF HandlerFetched
  <2> HIDE DEF d
  <2>2. /\ d.phase = "idle" /\ d.mode = c.mode /\ d.nmi = c.nmi
        /\ d.level = "handler" /\ d.fetched = << >> /\ d.ctx = c.ctx
    BY <2>1 DEF CpuType
  <2> QED
    BY <1>9, <2>2 DEF d
<1> QED
  BY <1>5, <1>6, <1>7, <1>8, <1>9

\* The cycle that ends is one of the handler's.
LEMMA HandlerCycle ==
    ASSUME TypeInv, CpuFinish, en, cpu.level = "handler",
           NEW f, f = Append(cpu.fetched, dout)
    PROVE  /\ cpu'.phase = "idle" /\ cpu'.mode = cpu.mode /\ cpu'.nmi = cpu.nmi
           /\ f[1] = IretNop /\ Len(f) = 4 => cpu'.level = "iret" /\ cpu'.k = 0 /\ cpu'.ctx = cpu.ctx
           /\ f[1] = PushaNop /\ Len(f) = 5 => cpu'.level = "pusha" /\ cpu'.k = 0 /\ cpu'.ctx = cpu.ctx
           /\ f[1] = NopMovEsp /\ Len(f) = 3 =>
                 /\ cpu'.level = "handler" /\ cpu'.fetched = << >>
                 /\ cpu'.ctx = [cpu.ctx EXCEPT !.gp[ESP] = << f[2], f[3] >>]
           /\ Partial(f) => cpu'.level = "handler" /\ cpu'.fetched = f /\ cpu'.ctx = cpu.ctx
           /\ f[1] = NopNop => cpu'.level = "handler" /\ cpu'.fetched = << >> /\ cpu'.ctx = cpu.ctx
<1> DEFINE c == [cpu EXCEPT !.phase = "idle"]
<1>1. cpu' = HandlerFetched(c, f)
  BY DEF CpuFinish, WordSeen
<1>2. cpu \in CpuType
  BY DEF TypeInv, CpuInv
<1>3. /\ c.phase = "idle" /\ c.mode = cpu.mode /\ c.nmi = cpu.nmi /\ c.level = "handler"
      /\ c.ctx = cpu.ctx /\ c \in CpuType
  BY <1>2 DEF CpuType, Phases
<1>6. f \in Seq(Word)
  BY <1>2 DEF CpuType, TypeInv, OcdTypeOK
<1> HIDE DEF c
<1> DEFINE d == HandlerFetched(c, f)
<1>4. /\ d.phase = "idle" /\ d.mode = c.mode /\ d.nmi = c.nmi
      /\ f[1] = IretNop /\ Len(f) = 4 => d.level = "iret" /\ d.k = 0 /\ d.ctx = c.ctx
      /\ f[1] = PushaNop /\ Len(f) = 5 => d.level = "pusha" /\ d.k = 0 /\ d.ctx = c.ctx
      /\ Partial(f) => d.level = "handler" /\ d.fetched = f /\ d.ctx = c.ctx
      /\ f[1] = NopNop => d.level = "handler" /\ d.fetched = << >> /\ d.ctx = c.ctx
  BY <1>3, <1>6, HandlerNext
<1>5. f[1] = NopMovEsp /\ Len(f) = 3 =>
                     /\ d.level = "handler" /\ d.fetched = << >>
                     /\ d.ctx = [c.ctx EXCEPT !.gp[ESP] = << f[2], f[3] >>]
  BY <1>3, <1>6, HandlerNext
<1> HIDE DEF d
<1> QED
  BY <1>1, <1>3, <1>4, <1>5 DEF d

\* The words a fixed sequence has read when its cycle ends.
WordsAfter == IF cpu.cur.wr THEN cpu.got ELSE Append(cpu.got, dout)

\* The cycle that ends is one of a fixed sequence, and not its last.
LEMMA SequenceCycle ==
    ASSUME TypeInv, CpuFinish, en, cpu.level \in Fixed,
           cpu.k + 1 < Count(cpu.level, cpu.mode)
    PROVE  /\ cpu'.phase = "idle" /\ cpu'.mode = cpu.mode /\ cpu'.nmi = cpu.nmi
           /\ cpu'.level = cpu.level /\ cpu'.k = cpu.k + 1 /\ cpu'.ctx = cpu.ctx
           /\ cpu'.got = WordsAfter
<1> DEFINE c == [cpu EXCEPT !.phase = "idle"]
<1>1. cpu \in CpuType
  BY DEF TypeInv, CpuInv
<1>2. /\ c.phase = "idle" /\ c.mode = cpu.mode /\ c.nmi = cpu.nmi /\ c.level = cpu.level
      /\ c.ctx = cpu.ctx /\ c.k = cpu.k /\ c \in CpuType
  BY <1>1 DEF CpuType, Phases
<1>3. cpu' = MicrocodeStep(c, WordsAfter)
  BY DEF CpuFinish, WordSeen, WordsAfter, Fixed
<1>4. Len(Microcode(c.level, c.mode, c.ctx)) = Count(cpu.level, cpu.mode)
  <2>1. cpu.mode \in {"real", "prot"} /\ cpu.ctx \in ContextType
    BY <1>1 DEF CpuType, Modes
  <2> QED
    BY <1>2, <2>1, MicrocodeType DEF Cycles
<1> HIDE DEF c
<1>5. cpu' = [c EXCEPT !.k = @ + 1, !.got = WordsAfter]
  BY <1>2, <1>3, <1>4 DEF MicrocodeStep
<1> QED
  BY <1>2, <1>5 DEF CpuType

\* The cycle that ends is the last of a fixed sequence in protected mode.
LEMMA SequenceEnds ==
    ASSUME TypeInv, CpuFinish, en, cpu.level \in Fixed, cpu.mode = "prot",
           cpu.k + 1 = Count(cpu.level, cpu.mode)
    PROVE  /\ cpu'.phase = "idle" /\ cpu'.mode = cpu.mode /\ cpu'.nmi = cpu.nmi
           /\ cpu'.fetched = << >>
           /\ cpu.level = "nmi" /\ GateUsable(WordsAfter) =>
                 /\ cpu'.level = "handler"
                 /\ cpu'.ctx = [cpu.ctx EXCEPT !.gp[ESP] = AddDword(@, -12)]
           /\ cpu.level = "pusha" =>
                 /\ cpu'.level = "handler"
                 /\ cpu'.ctx = [cpu.ctx EXCEPT !.gp[ESP] = AddDword(@, -32)]
           /\ cpu.level = "iret" =>
                 /\ cpu'.level = "prog"
                 /\ cpu'.ctx = [cpu.ctx EXCEPT
                                   !.eip = << WordsAfter[1], WordsAfter[2] >>,
                                   !.cs = WordsAfter[3],
                                   !.eflags = << WordsAfter[5], WordsAfter[6] >>,
                                   !.gp[ESP] = AddDword(@, 12)]
<1> DEFINE c == [cpu EXCEPT !.phase = "idle"]
           e == [c EXCEPT !.k = 0, !.got = << >>]
<1>1. cpu \in CpuType /\ cpu.fetched = << >>
  BY DEF TypeInv, CpuInv, InHandler, Fixed
<1>2. /\ c.phase = "idle" /\ c.mode = cpu.mode /\ c.nmi = cpu.nmi /\ c.level = cpu.level
      /\ c.ctx = cpu.ctx /\ c.k = cpu.k /\ c \in CpuType /\ c.fetched = << >>
  BY <1>1 DEF CpuType, Phases
<1>3. cpu' = MicrocodeStep(c, WordsAfter)
  BY DEF CpuFinish, WordSeen, WordsAfter, Fixed
<1>4. Len(Microcode(c.level, c.mode, c.ctx)) = Count(cpu.level, cpu.mode)
  <2>1. cpu.mode \in {"real", "prot"} /\ cpu.ctx \in ContextType
    BY <1>1 DEF CpuType, Modes
  <2> QED
    BY <1>2, <2>1, MicrocodeType DEF Cycles
<1> HIDE DEF c
<1>5. cpu' = MicrocodeDone(e, WordsAfter)
  BY <1>2, <1>3, <1>4 DEF MicrocodeStep
<1>6. /\ e.phase = "idle" /\ e.mode = "prot" /\ e.nmi = cpu.nmi /\ e.level = cpu.level
      /\ e.ctx = cpu.ctx /\ e.fetched = << >> /\ e \in CpuType
  <2>1. e = [phase |-> c.phase, mode |-> c.mode, level |-> c.level, cur |-> c.cur,
             k |-> 0, got |-> << >>, fetched |-> c.fetched, nmi |-> c.nmi, ctx |-> c.ctx]
    <3>1. e = [c EXCEPT !.k = 0, !.got = << >>]
      OBVIOUS
    <3> HIDE DEF e
    <3> QED
      BY <1>2, <3>1 DEF CpuType
  <2>2. e \in CpuType
    BY <1>2, SequenceOver
  <2> HIDE DEF e
  <2> QED
    BY <1>2, <2>1, <2>2
<1> HIDE DEF e
<1> DEFINE Moved(level, ctx) == [phase |-> "idle", mode |-> "prot", level |-> level,
                                 cur |-> e.cur, k |-> e.k, got |-> e.got,
                                 fetched |-> << >>, nmi |-> cpu.nmi, ctx |-> ctx]
<1>12. ASSUME NEW n, cpu' = [e EXCEPT !.level = "handler", !.ctx.gp[ESP] = AddDword(@, n)]
       PROVE  /\ cpu'.phase = "idle" /\ cpu'.mode = cpu.mode /\ cpu'.nmi = cpu.nmi
              /\ cpu'.fetched = << >> /\ cpu'.level = "handler"
              /\ cpu'.ctx = [cpu.ctx EXCEPT !.gp[ESP] = AddDword(@, n)]
  <2> DEFINE x == [e.ctx EXCEPT !.gp[ESP] = AddDword(@, n)]
  <2>1. cpu' = Moved("handler", x)
    BY <1>6, <1>12 DEF CpuType
  <2>2. x = [cpu.ctx EXCEPT !.gp[ESP] = AddDword(@, n)]
    BY <1>6
  <2> HIDE DEF x
  <2> QED
    BY <2>1, <2>2
<1>7. CASE cpu.level = "nmi" /\ GateUsable(WordsAfter)
  <2>1. cpu' = [e EXCEPT !.level = "handler", !.ctx.gp[ESP] = AddDword(@, -12)]
    BY <1>5, <1>6, <1>7 DEF MicrocodeDone
  <2> QED
    BY <1>7, <1>12, <2>1
<1>8. CASE cpu.level = "nmi" /\ ~GateUsable(WordsAfter)
  <2>1. cpu' = [e EXCEPT !.level = "shutdown"]
    BY <1>5, <1>6, <1>8 DEF MicrocodeDone
  <2> QED
    BY <1>6, <1>8, <2>1 DEF CpuType
<1>9. CASE cpu.level = "pusha"
  <2>1. cpu' = [e EXCEPT !.level = "handler", !.ctx.gp[ESP] = AddDword(@, -32)]
    BY <1>5, <1>6, <1>9 DEF MicrocodeDone
  <2> QED
    BY <1>9, <1>12, <2>1
<1>10. CASE cpu.level = "iret"
  <2> DEFINE w == WordsAfter
             x == [e.ctx EXCEPT !.eip = << w[1], w[2] >>,
                                !.cs = w[3],
                                !.eflags = << w[5], w[6] >>,
                                !.gp[ESP] = AddDword(@, 12)]
  <2>1. cpu' = [e EXCEPT !.level = "prog",
                         !.ctx = [e.ctx EXCEPT !.eip = << w[1], w[2] >>,
                                               !.cs = w[3],
                                               !.eflags = << w[5], w[6] >>,
                                               !.gp[ESP] = AddDword(@, 12)]]
    BY <1>5, <1>6, <1>10 DEF MicrocodeDone
  <2>2. cpu' = [e EXCEPT !.level = "prog", !.ctx = x]
    BY <2>1, Zenon
  <2>3. x = [cpu.ctx EXCEPT !.eip = << w[1], w[2] >>,
                            !.cs = w[3],
                            !.eflags = << w[5], w[6] >>,
                            !.gp[ESP] = AddDword(@, 12)]
    BY <1>6, Zenon
  <2> HIDE DEF x
  <2>4. cpu' = Moved("prog", x)
    BY <1>6, <2>2 DEF CpuType
  <2>5. /\ cpu'.phase = "idle" /\ cpu'.mode = "prot" /\ cpu'.nmi = cpu.nmi
        /\ cpu'.fetched = << >> /\ cpu'.level = "prog" /\ cpu'.ctx = x
    BY <2>4
  <2> QED
    BY <1>10, <2>3, <2>5
<1> QED
  BY <1>7, <1>8, <1>9, <1>10 DEF Fixed

-----------------------------------------------------------------------------
(* The end of a cycle of the exchange *)

\* What Append does.
LEMMA Growing ==
    ASSUME NEW s \in Seq(Word), NEW w \in Word
    PROVE  /\ Append(s, w) \in Seq(Word) /\ Len(Append(s, w)) = Len(s) + 1
           /\ \A i \in 1 .. Len(s) : Append(s, w)[i] = s[i]
           /\ Append(s, w)[Len(s) + 1] = w
           /\ Len(s) \in Nat
OBVIOUS

\* What a cycle may rely on.
LEMMA Finishing ==
    ASSUME TypeInv, CpuFinish
    PROVE  /\ cpu \in CpuType /\ InCycle /\ dout \in Word
           /\ cpu.got \in Seq(Word) /\ cpu.fetched \in Seq(Word)
           /\ cpu.level \in Fixed =>
                 cpu.cur = Microcode(cpu.level, cpu.mode, cpu.ctx)[cpu.k + 1]
<1>1. cpu \in CpuType /\ dout \in Word /\ InCycle
  BY DEF TypeInv, CpuInv, OcdTypeOK, CpuFinish, InCycle
<1> QED
  BY <1>1 DEF TypeInv, CpuInv, InSequence, CpuType

\* Another word of an instruction the OCD injects.
LEMMA WordFetched ==
    ASSUME TypeInv, CpuFinish, NEW n \in 0 .. 4, NEW w, Fetched(n, w), n = 0 => dout = w
    PROVE  LET f == Append(cpu.fetched, dout)
           IN  /\ Len(f) = n + 1 /\ f[1] = w /\ f[n + 1] = dout
               /\ \A i \in 1 .. n : f[i] = cpu.fetched[i]
<1> DEFINE s == cpu.fetched
<1>1. s \in Seq(Word) /\ dout \in Word /\ Len(s) = n /\ (n > 0 => s[1] = w)
  BY Finishing DEF Fetched
<1> HIDE DEF s
<1>2. /\ Len(Append(s, dout)) = n + 1 /\ Append(s, dout)[n + 1] = dout
      /\ \A i \in 1 .. n : Append(s, dout)[i] = s[i]
  BY <1>1, Growing
<1>3. n = 0 \/ 1 \in 1 .. n
  OBVIOUS
<1>4. n = 0 => n + 1 = 1
  OBVIOUS
<1>5. Append(s, dout)[1] = w
  BY <1>1, <1>2, <1>3, <1>4
<1> QED
  BY <1>2, <1>5 DEF s

\* The NMI's first eight cycles read the tables.
LEMMA NmiReads ==
    ASSUME NEW c, NEW i \in 1 .. 8 PROVE ~NmiProtected(c)[i].wr
<1>1. /\ NmiProtected(c)[1] = Read(TRUE, 65536 + 2 * 1)
      /\ NmiProtected(c)[2] = Read(TRUE, 65536 + 2 * 2)
      /\ NmiProtected(c)[3] = Read(TRUE, 65536 + 2 * 3)
      /\ NmiProtected(c)[4] = Read(TRUE, 65536 + 2 * 4)
  BY DEF NmiProtected
<1>2. /\ NmiProtected(c)[5] = Read(FALSE, 65600 + 2 * 1)
      /\ NmiProtected(c)[6] = Read(FALSE, 65600 + 2 * 2)
      /\ NmiProtected(c)[7] = Read(FALSE, 65600 + 2 * 3)
      /\ NmiProtected(c)[8] = Read(FALSE, 65600 + 2 * 4)
  BY DEF NmiProtected
<1>4. ~NmiProtected(c)[1].wr /\ ~NmiProtected(c)[2].wr
  BY <1>1 DEF Read, Cycle
<1>5. ~NmiProtected(c)[3].wr /\ ~NmiProtected(c)[4].wr
  BY <1>1 DEF Read, Cycle
<1>6. ~NmiProtected(c)[5].wr /\ ~NmiProtected(c)[6].wr
  BY <1>2 DEF Read, Cycle
<1>7. ~NmiProtected(c)[7].wr /\ ~NmiProtected(c)[8].wr
  BY <1>2 DEF Read, Cycle
<1>8. i = 1 \/ i = 2 \/ i = 3 \/ i = 4 \/ i = 5 \/ i = 6 \/ i = 7 \/ i = 8
  OBVIOUS
<1> QED
  BY <1>4, <1>5, <1>6, <1>7, <1>8

\* The exchange of a break, a cycle on.
LEMMA BreakFinished ==
    ASSUME TypeInv, CpuFinish, en, saved' = saved, cpu.mode = "prot",
           NEW m \in 0 .. 14, Done("break", m), Fed("break", m, dout)
    PROVE  /\ Done("break", m + 1)'
           /\ cpu'.phase = "idle" /\ cpu'.mode = cpu.mode /\ cpu'.nmi = cpu.nmi
<1>1. /\ cpu.level = "nmi" /\ cpu.k = m /\ cpu.ctx = saved
      /\ m <= 8 => Len(cpu.got) = m
      /\ \A j \in 1 .. 8 : j <= m => j <= Len(cpu.got) /\ cpu.got[j] = FakeTable(j)
  BY DEF Done, In
<1>2. /\ cpu.got \in Seq(Word) /\ dout \in Word
      /\ cpu.cur = NmiProtected(saved)[m + 1]
  BY <1>1, Finishing DEF Fixed, Microcode
<1>3. Count("nmi", "prot") = 15 /\ "nmi" \in Fixed
  BY DEF Count, Fixed
<1>4. m < 8 => ~cpu.cur.wr
  <2>6. m < 8 => m + 1 \in 1 .. 8
    OBVIOUS
  <2> QED
    BY <1>2, <2>6, NmiReads, Zenon
<1>5. m < 8 => dout = FakeTable(m + 1)
  BY DEF Fed
<1>6. /\ m + 1 <= 8 => Len(WordsAfter) = m + 1
      /\ \A j \in 1 .. 8 : j <= m + 1 => j <= Len(WordsAfter) /\ WordsAfter[j] = FakeTable(j)
  <2> DEFINE s == cpu.got
             t == Append(s, dout)
  <2>1. /\ Len(t) = Len(s) + 1 /\ Len(s) \in Nat /\ t[Len(s) + 1] = dout
        /\ \A i \in 1 .. Len(s) : t[i] = s[i]
    BY <1>2, Growing
  <2>2. WordsAfter = s \/ WordsAfter = t
    BY DEF WordsAfter
  <2>3. m < 8 => WordsAfter = t
    BY <1>4 DEF WordsAfter
  <2> HIDE DEF s, t
  <2>4. CASE m < 8
    <3>1. Len(t) = m + 1 /\ t[m + 1] = FakeTable(m + 1) /\ \A i \in 1 .. m : t[i] = s[i]
      BY <1>1, <1>5, <2>1, <2>4 DEF s
    <3>2. ASSUME NEW j \in 1 .. 8, j <= m + 1
          PROVE  j <= Len(t) /\ t[j] = FakeTable(j)
      <4>1. j = m + 1 \/ (j <= m /\ j \in 1 .. m)
        BY <3>2
      <4> QED
        BY <1>1, <3>1, <3>2, <4>1 DEF s
    <3> QED
      BY <2>3, <2>4, <3>1, <3>2
  <2>5. CASE m >= 8
    <3>1. \A j \in 1 .. 8 : j <= Len(s) /\ s[j] = FakeTable(j)
      BY <1>1, <2>5 DEF s
    <3>2. \A j \in 1 .. 8 : j <= Len(t) /\ t[j] = FakeTable(j)
      BY <2>1, <3>1
    <3> QED
      BY <2>2, <2>5, <3>1, <3>2
  <2> QED
    BY <2>4, <2>5
<1>7. CASE m < 14
  <2>1. /\ cpu'.phase = "idle" /\ cpu'.mode = cpu.mode /\ cpu'.nmi = cpu.nmi
        /\ cpu'.level = "nmi" /\ cpu'.k = m + 1 /\ cpu'.ctx = saved
        /\ cpu'.got = WordsAfter
    BY <1>1, <1>3, <1>7, SequenceCycle
  <2> QED
    BY <1>6, <1>7, <2>1 DEF Done, In
<1>8. CASE m = 14
  <2>1. cpu.k + 1 = Count(cpu.level, cpu.mode)
    BY <1>1, <1>3, <1>8
  <2>2. GateUsable(WordsAfter)
    <3>1. /\ WordsAfter[1] = FakeTable(1) /\ WordsAfter[4] = FakeTable(4)
          /\ WordsAfter[5] = FakeTable(5)
      BY <1>6, <1>8
    <3> QED
      BY <3>1 DEF GateUsable, FakeTable, FakeIdtEntry, FakeGdtEntry
  <2>3. /\ cpu'.phase = "idle" /\ cpu'.mode = cpu.mode /\ cpu'.nmi = cpu.nmi
        /\ cpu'.fetched = << >> /\ cpu'.level = "handler"
        /\ cpu'.ctx = [cpu.ctx EXCEPT !.gp[ESP] = AddDword(@, -12)]
    BY <1>1, <1>3, <2>1, <2>2, SequenceEnds
  <2>4. cpu'.ctx = Pushed
    BY <1>1, <2>3 DEF Pushed
  <2>5. Len(<< >>) = 0 /\ m + 1 = 15
    BY <1>8
  <2>6. Pushed' = Pushed
    BY DEF Pushed
  <2> HIDE DEF Pushed
  <2> QED
    BY <2>3, <2>4, <2>5, <2>6 DEF Done, Fetched
<1> QED
  BY <1>7, <1>8

\* IRET gives back what the NMI pushed.
LEMMA PoppedBack ==
    ASSUME saved \in ContextType
    PROVE  [Pushed EXCEPT !.eip = << Low(saved.eip), High(saved.eip) >>,
                          !.cs = saved.cs,
                          !.eflags = << Low(saved.eflags), High(saved.eflags) >>,
                          !.gp[ESP] = AddDword(@, 12)] = saved
<1> DEFINE esp == saved.gp[ESP]
           d == AddDword(esp, -12)
           g == [saved.gp EXCEPT ![ESP] = d]
<1>1. /\ << Low(saved.eip), High(saved.eip) >> = saved.eip
      /\ << Low(saved.eflags), High(saved.eflags) >> = saved.eflags
  BY DEF ContextType, Dword, Low, High
<1>2. esp \in Dword /\ saved.gp \in [0 .. 7 -> Dword] /\ ESP \in 0 .. 7
  BY DEF ContextType, ESP
<1>3. AddDword(d, 12) = esp
  BY <1>2, BackAgain
<1>4. Pushed = [eflags |-> saved.eflags, cs |-> saved.cs, eip |-> saved.eip, gp |-> g]
  BY DEF Pushed, ContextType
<1> HIDE DEF esp, d
<1>5. g[ESP] = d
  BY <1>2
<1>6. [g EXCEPT ![ESP] = esp] = saved.gp
  BY <1>2 DEF esp
<1> HIDE DEF g
<1>7. AddDword(Pushed.gp[ESP], 12) = esp
  BY <1>3, <1>4, <1>5
<1>8. saved = [eflags |-> saved.eflags, cs |-> saved.cs, eip |-> saved.eip, gp |-> saved.gp]
  BY DEF ContextType
<1> DEFINE r == [Pushed EXCEPT !.eip = saved.eip, !.cs = saved.cs, !.eflags = saved.eflags,
                               !.gp[ESP] = AddDword(@, 12)]
           x == [Pushed EXCEPT !.eip = saved.eip, !.cs = saved.cs, !.eflags = saved.eflags,
                               !.gp[ESP] = esp]
<1>9. r = x
  BY <1>7
<1>10. Pushed \in ContextType
  <2>1. -12 \in Int
    OBVIOUS
  <2> QED
    BY <2>1, EspMoved DEF Pushed
<1>11. /\ Pushed.eflags = saved.eflags /\ Pushed.cs = saved.cs /\ Pushed.eip = saved.eip
  BY <1>4
<1>12. x = [Pushed EXCEPT !.gp[ESP] = esp]
  <2>1. ASSUME NEW p \in ContextType, NEW v
        PROVE  [p EXCEPT !.eip = p.eip, !.cs = p.cs, !.eflags = p.eflags, !.gp[ESP] = v]
                 = [p EXCEPT !.gp[ESP] = v]
    BY DEF ContextType
  <2> QED
    BY <1>10, <1>11, <2>1
<1>13. [Pushed EXCEPT !.gp[ESP] = esp]
         = [eflags |-> saved.eflags, cs |-> saved.cs, eip |-> saved.eip,
            gp |-> [g EXCEPT ![ESP] = esp]]
  BY <1>4
<1> HIDE DEF x
<1> QED
  BY <1>1, <1>6, <1>8, <1>9, <1>12, <1>13

\* Any cycle of a sequence the OCD answers.
LEMMA ContFinished ==
    ASSUME TypeInv, CpuFinish, en, saved' = saved, cpu.mode = "prot",
           NEW m \in 0 .. 9, Done("cont", m), Fed("cont", m, dout)
    PROVE  /\ Done("cont", m + 1)'
           /\ cpu'.phase = "idle" /\ cpu'.mode = cpu.mode /\ cpu'.nmi = cpu.nmi
<1>0. Pushed' = Pushed
  BY DEF Pushed
<1>1. CASE m < 4
  <2>1. Fetched(m, IretNop) /\ cpu.ctx = Pushed /\ (m = 0 => dout = IretNop) /\ m \in 0 .. 4
    BY <1>1 DEF Done, Fed
  <2> DEFINE f == Append(cpu.fetched, dout)
  <2>2. Len(f) = m + 1 /\ f[1] = IretNop
    BY <2>1, WordFetched
  <2>3. cpu.level = "handler"
    BY <2>1 DEF Fetched
  <2>4. /\ cpu'.phase = "idle" /\ cpu'.mode = cpu.mode /\ cpu'.nmi = cpu.nmi
        /\ f[1] = IretNop /\ Len(f) = 4 => cpu'.level = "iret" /\ cpu'.k = 0 /\ cpu'.ctx = cpu.ctx
        /\ Partial(f) => cpu'.level = "handler" /\ cpu'.fetched = f /\ cpu'.ctx = cpu.ctx
    BY <2>3, HandlerCycle
  <2> HIDE DEF f
  <2>5. CASE m < 3
    <3>1. Partial(f)
      <4>1. m + 1 < 4
        BY <2>5
      <4> QED
        BY <2>2, <4>1 DEF Partial
    <3> HIDE DEF Pushed
    <3> QED
      BY <1>0, <2>1, <2>2, <2>4, <2>5, <3>1 DEF Done, Fetched
  <2>6. CASE m = 3
    <3>1. Len(f) = 4 /\ m + 1 = 4
      BY <2>2, <2>6
    <3>2. cpu'.level = "iret" /\ cpu'.k = 0 /\ cpu'.ctx = Pushed
      BY <2>1, <2>2, <2>4, <3>1
    <3> HIDE DEF Pushed
    <3>3. Done("cont", 4)'
      BY <1>0, <3>2 DEF Done, In
    <3> QED
      BY <2>4, <3>1, <3>3
  <2> QED
    BY <1>1, <2>5, <2>6
<1>2. CASE m >= 4
  <2> DEFINE k == m - 4
  <2>1. /\ In("iret", k, Pushed) /\ k \in 0 .. 5
        /\ \A j \in 1 .. 6 : j <= k => Popped(j, cpu.got[j])
    BY <1>2 DEF Done
  <2>2. Popped(k + 1, dout)
    <3>1. m - 3 = k + 1
      BY <1>2
    <3> QED
      BY <1>2, <3>1 DEF Fed
  <2> HIDE DEF k
  <2>3. cpu.level = "iret" /\ cpu.k = k /\ cpu.ctx = Pushed
    BY <2>1 DEF In
  <2>4. Count("iret", "prot") = 6 /\ "iret" \in Fixed
    BY DEF Count, Fixed
  <2>5. cpu.got \in Seq(Word) /\ dout \in Word /\ Len(cpu.got) = k
        /\ cpu.cur = Microcode("iret", "prot", cpu.ctx)[k + 1]
    BY <2>3, <2>4, Finishing DEF TypeInv, CpuInv, InSequence
  <2>6. WordsAfter = Append(cpu.got, dout)
    <3>1. ~Microcode("iret", "prot", cpu.ctx)[k + 1].wr
      <4>1. cpu.ctx \in ContextType
        BY Finishing DEF CpuType
      <4>2. k \in 0 .. Count("iret", "prot") - 1
        BY <2>1, <2>4
      <4> QED
        BY <2>4, <4>1, <4>2, MicrocodeType
    <3> QED
      BY <2>5, <3>1 DEF WordsAfter
  <2>7. /\ \A j \in 1 .. k : WordsAfter[j] = cpu.got[j]
        /\ WordsAfter[k + 1] = dout
    BY <2>5, <2>6, Growing
  <2>8. \A j \in 1 .. 6 : j <= k + 1 => Popped(j, WordsAfter[j])
    <3> TAKE j \in 1 .. 6
    <3>1. j <= k + 1 => j = k + 1 \/ (j <= k /\ j \in 1 .. k)
      BY <2>1
    <3> QED
      BY <2>1, <2>2, <2>7, <3>1
  <2>9. CASE m < 9
    <3>1. cpu.k + 1 < Count(cpu.level, cpu.mode)
      BY <2>1, <2>3, <2>4, <2>9 DEF k
    <3>2. /\ cpu'.phase = "idle" /\ cpu'.mode = cpu.mode /\ cpu'.nmi = cpu.nmi
          /\ cpu'.level = "iret" /\ cpu'.k = k + 1 /\ cpu'.ctx = Pushed
          /\ cpu'.got = WordsAfter
      BY <2>3, <2>4, <3>1, SequenceCycle
    <3>3. m + 1 - 4 = k + 1 /\ m + 1 \in 5 .. 9
      BY <1>2, <2>9 DEF k
    <3>4. \A j \in 1 .. 6 : j <= k + 1 => Popped(j, cpu'.got[j])
      BY <2>8, <3>2
    <3>5. \A j, w : Popped(j, w)' <=> Popped(j, w)
      BY DEF Popped
    <3>6. \A j \in 1 .. 6 : j <= m + 1 - 4 => Popped(j, cpu.got[j])'
      BY <3>3, <3>4 DEF Popped
    <3> HIDE DEF Pushed
    <3> QED
      BY <1>0, <3>2, <3>3, <3>6 DEF Done, In
  <2>10. CASE m = 9
    <3>1. cpu.k + 1 = Count(cpu.level, cpu.mode) /\ k = 5
      BY <2>1, <2>3, <2>4, <2>10 DEF k
    <3>2. /\ cpu'.phase = "idle" /\ cpu'.mode = cpu.mode /\ cpu'.nmi = cpu.nmi
          /\ cpu'.level = "prog"
          /\ cpu'.ctx = [cpu.ctx EXCEPT !.eip = << WordsAfter[1], WordsAfter[2] >>,
                                        !.cs = WordsAfter[3],
                                        !.eflags = << WordsAfter[5], WordsAfter[6] >>,
                                        !.gp[ESP] = AddDword(@, 12)]
      BY <2>3, <2>4, <3>1, SequenceEnds
    <3>3. /\ WordsAfter[1] = Low(saved.eip) /\ WordsAfter[2] = High(saved.eip)
          /\ WordsAfter[3] = saved.cs
          /\ WordsAfter[5] = Low(saved.eflags) /\ WordsAfter[6] = High(saved.eflags)
      BY <2>8, <3>1 DEF Popped
    <3>4. cpu'.ctx = [Pushed EXCEPT !.eip = << Low(saved.eip), High(saved.eip) >>,
                                    !.cs = saved.cs,
                                    !.eflags = << Low(saved.eflags), High(saved.eflags) >>,
                                    !.gp[ESP] = AddDword(@, 12)]
      BY <2>3, <3>2, <3>3
    <3>5. saved \in ContextType
      BY CpuAssumption DEF TypeInv, CpuInv
    <3>6. cpu'.ctx = saved
      BY <3>4, <3>5, PoppedBack
    <3>7. Done("cont", 10)'
      BY <3>2, <3>6 DEF Done
    <3>8. m + 1 = 10
      BY <2>10
    <3> QED
      BY <3>2, <3>7, <3>8
  <2> QED
    BY <2>9, <2>10
<1> QED
  BY <1>1, <1>2

-----------------------------------------------------------------------------
(* GETREGS and the stack pointer *)

\* PUSHA after its fifth word, and the handler after its last push.
LEMMA GetRegsFinished ==
    ASSUME TypeInv, CpuFinish, en, saved' = saved, cpu.mode = "prot",
           NEW m \in 0 .. 20, Done("get_regs", m), Fed("get_regs", m, dout)
    PROVE  /\ Done("get_regs", m + 1)'
           /\ cpu'.phase = "idle" /\ cpu'.mode = cpu.mode /\ cpu'.nmi = cpu.nmi
<1>0. Pushed' = Pushed
  BY DEF Pushed
<1>1. CASE m < 5
  <2>1. Fetched(m, PushaNop) /\ cpu.ctx = Pushed /\ (m = 0 => dout = PushaNop) /\ m \in 0 .. 4
    BY <1>1 DEF Done, Fed
  <2> DEFINE f == Append(cpu.fetched, dout)
  <2>2. Len(f) = m + 1 /\ f[1] = PushaNop
    BY <2>1, WordFetched
  <2>3. cpu.level = "handler"
    BY <2>1 DEF Fetched
  <2>4. /\ cpu'.phase = "idle" /\ cpu'.mode = cpu.mode /\ cpu'.nmi = cpu.nmi
        /\ f[1] = PushaNop /\ Len(f) = 5 => cpu'.level = "pusha" /\ cpu'.k = 0 /\ cpu'.ctx = cpu.ctx
        /\ Partial(f) => cpu'.level = "handler" /\ cpu'.fetched = f /\ cpu'.ctx = cpu.ctx
    BY <2>3, HandlerCycle
  <2> HIDE DEF f
  <2>5. CASE m < 4
    <3>1. Partial(f)
      <4>1. m + 1 < 5
        BY <2>5
      <4> QED
        BY <2>2, <4>1 DEF Partial
    <3> HIDE DEF Pushed
    <3> QED
      BY <1>0, <2>1, <2>2, <2>4, <2>5, <3>1 DEF Done, Fetched
  <2>6. CASE m = 4
    <3>1. Len(f) = 5 /\ m + 1 = 5
      BY <2>2, <2>6
    <3>2. cpu'.level = "pusha" /\ cpu'.k = 0 /\ cpu'.ctx = Pushed
      BY <2>1, <2>2, <2>4, <3>1
    <3> HIDE DEF Pushed
    <3>3. Done("get_regs", 5)'
      BY <1>0, <3>2 DEF Done, In
    <3> QED
      BY <2>4, <3>1, <3>3
  <2> QED
    BY <1>1, <2>5, <2>6
<1>2. CASE m >= 5
  <2> DEFINE k == m - 5
  <2>1. In("pusha", k, Pushed) /\ k \in 0 .. 15
    BY <1>2 DEF Done
  <2>2. m + 1 - 5 = k + 1 /\ k + 1 < 16 <=> m < 20
    BY <1>2
  <2>3. cpu.level = "pusha" /\ cpu.k = k /\ cpu.ctx = Pushed
    BY <2>1 DEF In
  <2>4. Count("pusha", "prot") = 16 /\ "pusha" \in Fixed
    BY DEF Count, Fixed
  <2>5. CASE m < 20
    <3>0. m + 1 - 5 = k + 1 /\ k + 1 < 16
      BY <1>2, <2>5
    <3> HIDE DEF k
    <3>1. cpu.k + 1 < Count(cpu.level, cpu.mode)
      BY <2>3, <2>4, <3>0
    <3>2. /\ cpu'.phase = "idle" /\ cpu'.mode = cpu.mode /\ cpu'.nmi = cpu.nmi
          /\ cpu'.level = "pusha" /\ cpu'.k = k + 1 /\ cpu'.ctx = Pushed
      BY <2>3, <2>4, <3>1, SequenceCycle
    <3> HIDE DEF Pushed
    <3> QED
      BY <1>0, <1>2, <2>5, <3>0, <3>2 DEF Done, In
  <2>6. CASE m = 20
    <3>0. k + 1 = 16 /\ m + 1 = 21
      BY <2>6
    <3> HIDE DEF k
    <3>1. cpu.k + 1 = Count(cpu.level, cpu.mode)
      BY <2>3, <2>4, <3>0
    <3>2. /\ cpu'.phase = "idle" /\ cpu'.mode = cpu.mode /\ cpu'.nmi = cpu.nmi
          /\ cpu'.level = "handler" /\ cpu'.fetched = << >>
          /\ cpu'.ctx = [cpu.ctx EXCEPT !.gp[ESP] = AddDword(@, -32)]
      BY <2>3, <2>4, <3>1, SequenceEnds
    <3> DEFINE d == AddDword(Pushed.gp[ESP], -32)
    <3>3. cpu'.ctx = [Pushed EXCEPT !.gp[ESP] = d]
      BY <2>3, <3>2
    <3>4. Pushed \in ContextType
      BY <2>3, Finishing DEF CpuType
    <3> HIDE DEF Pushed, d
    <3>5. cpu'.ctx.gp[ESP] = d
      BY <3>3, <3>4 DEF ContextType, ESP
    <3>6. cpu'.ctx = [Pushed EXCEPT !.gp[ESP] = cpu'.ctx.gp[ESP]]
      BY <3>3, <3>5
    <3>7. PushedBut(cpu.ctx)' = [Pushed EXCEPT !.gp[ESP] = cpu'.ctx.gp[ESP]]
      BY <1>0 DEF PushedBut
    <3>8. Len(<< >>) = 0
      OBVIOUS
    <3>9. Done("get_regs", 21)'
      BY <3>2, <3>6, <3>7, <3>8 DEF Done, Fetched
    <3> QED
      BY <3>0, <3>2, <3>9
  <2> QED
    BY <2>5, <2>6
<1> QED
  BY <1>1, <1>2

\* The exchange that puts the stack pointer back, a cycle on.
LEMMA SetRegFinished ==
    ASSUME TypeInv, CpuFinish, en, saved' = saved, cpu.mode = "prot",
           NEW m \in 0 .. 4, Done("set_reg", m), Fed("set_reg", m, dout)
    PROVE  /\ Done("set_reg", m + 1)'
           /\ cpu'.phase = "idle" /\ cpu'.mode = cpu.mode /\ cpu'.nmi = cpu.nmi
<1>0. Pushed' = Pushed
  BY DEF Pushed
<1> DEFINE f == Append(cpu.fetched, dout)
<1>3. cpu.level = "handler"
  BY DEF Done, Fetched
<1>4. /\ cpu'.phase = "idle" /\ cpu'.mode = cpu.mode /\ cpu'.nmi = cpu.nmi
      /\ f[1] = NopMovEsp /\ Len(f) = 3 =>
            /\ cpu'.level = "handler" /\ cpu'.fetched = << >>
            /\ cpu'.ctx = [cpu.ctx EXCEPT !.gp[ESP] = << f[2], f[3] >>]
      /\ Partial(f) => cpu'.level = "handler" /\ cpu'.fetched = f /\ cpu'.ctx = cpu.ctx
      /\ f[1] = NopNop => cpu'.level = "handler" /\ cpu'.fetched = << >> /\ cpu'.ctx = cpu.ctx
  BY <1>3, HandlerCycle
<1>8. Len(<< >>) = 0
  OBVIOUS
<1>1. CASE m < 3
  <2> DEFINE esp == Pushed.gp[ESP]
  <2>1. /\ Fetched(m, NopMovEsp) /\ cpu.ctx = PushedBut(cpu.ctx)
        /\ (m = 0 => dout = NopMovEsp) /\ m \in 0 .. 4
        /\ m = 1 => dout = Low(esp)
        /\ m = 2 => dout = High(esp) /\ cpu.fetched[2] = Low(esp)
    BY <1>1 DEF Done, Fed
  <2>2. /\ Len(f) = m + 1 /\ f[1] = NopMovEsp /\ f[m + 1] = dout
        /\ \A i \in 1 .. m : f[i] = cpu.fetched[i]
    BY <2>1, WordFetched
  <2>3. Pushed \in ContextType
    <3>1. saved \in ContextType /\ -12 \in Int
      BY CpuAssumption DEF TypeInv, CpuInv
    <3> QED
      BY <3>1, EspMoved DEF Pushed
  <2> HIDE DEF f, Pushed
  <2>4. esp \in Dword
    BY <2>3 DEF ContextType, ESP
  <2> HIDE DEF esp
  <2>5. CASE m < 2
    <3>1. Partial(f)
      <4>1. m + 1 < 3
        BY <2>5
      <4> QED
        BY <2>2, <4>1 DEF Partial
    <3>2. cpu'.level = "handler" /\ cpu'.fetched = f /\ cpu'.ctx = cpu.ctx
      BY <1>4, <3>1
    <3>3. m = 1 => f[2] = Low(esp)
      <4>1. m = 1 => m + 1 = 2
        OBVIOUS
      <4> QED
        BY <2>1, <2>2, <4>1
    <3>4. PushedBut(cpu.ctx)' = PushedBut(cpu.ctx)
      BY <1>0, <3>2 DEF PushedBut
    <3>5. Fetched(m + 1, NopMovEsp)'
      BY <2>2, <3>2 DEF Fetched
    <3>6. m + 1 > 1 => m = 1
      BY <2>5
    <3>7. Done("set_reg", m + 1)'
      <4>1. m + 1 < 3 /\ ~(m + 1 >= 3)
        BY <2>5
      <4>2. (m + 1 > 1 => cpu.fetched[2] = Low(Pushed.gp[ESP]))'
        BY <1>0, <3>2, <3>3, <3>6 DEF esp
      <4>3. (cpu.ctx = PushedBut(cpu.ctx))'
        BY <2>1, <3>2, <3>4
      <4> HIDE DEF Fetched, PushedBut
      <4> QED
        BY <3>5, <4>1, <4>2, <4>3 DEF Done
    <3> QED
      BY <1>4, <3>7
  <2>6. CASE m = 2
    <3>1. Len(f) = 3 /\ f[2] = Low(esp) /\ f[3] = High(esp)
      <4>1. 2 + 1 = 3 /\ 2 \in 1 .. 2
        OBVIOUS
      <4> QED
        BY <2>1, <2>2, <2>6, <4>1
    <3>2. /\ cpu'.level = "handler" /\ cpu'.fetched = << >>
          /\ cpu'.ctx = [cpu.ctx EXCEPT !.gp[ESP] = << f[2], f[3] >>]
      BY <1>4, <2>2, <3>1
    <3>3. << f[2], f[3] >> = esp
      BY <2>4, <3>1 DEF Dword, Low, High
    <3>4. cpu'.ctx = [cpu.ctx EXCEPT !.gp[ESP] = esp]
      BY <3>2, <3>3
    <3>5. cpu.ctx = [Pushed EXCEPT !.gp[ESP] = cpu.ctx.gp[ESP]]
      BY <2>1 DEF PushedBut
    <3>6. [cpu.ctx EXCEPT !.gp[ESP] = esp] = Pushed
      <4>1. ASSUME NEW v PROVE [[Pushed EXCEPT !.gp[ESP] = v] EXCEPT !.gp[ESP] = esp] = Pushed
        BY <2>3 DEF ContextType, ESP, esp
      <4> QED
        BY <3>5, <4>1
    <3>7. Done("set_reg", 3)'
      BY <1>0, <1>8, <3>2, <3>4, <3>6 DEF Done, Fetched
    <3>8. m + 1 = 3
      BY <2>6
    <3> QED
      BY <1>4, <3>7, <3>8
  <2> QED
    BY <1>1, <2>5, <2>6
<1>2. CASE m >= 3
  <2>1. Fetched(0, 0) /\ cpu.ctx = Pushed /\ dout = NopNop
    BY <1>2 DEF Done, Fed
  <2>2. f[1] = NopNop
    <3>1. cpu.fetched \in Seq(Word) /\ Len(cpu.fetched) = 0 /\ dout \in Word
      BY <2>1, Finishing DEF Fetched
    <3>2. f[Len(cpu.fetched) + 1] = dout
      BY <3>1, Growing
    <3>3. 0 + 1 = 1
      OBVIOUS
    <3> QED
      BY <2>1, <3>1, <3>2, <3>3
  <2>3. cpu'.level = "handler" /\ cpu'.fetched = << >> /\ cpu'.ctx = Pushed
    BY <1>4, <2>1, <2>2
  <2>4. m + 1 >= 3 /\ ~(m + 1 < 3)
    BY <1>2
  <2> HIDE DEF Pushed, f
  <2> QED
    BY <1>0, <1>4, <1>8, <2>3, <2>4 DEF Done, Fetched
<1> QED
  BY <1>1, <1>2

\* The cycles of an exchange.
CyclesOf(p) == CASE p = "break" -> 15 [] p = "cont" -> 10
                  [] p = "get_regs" -> 21 [] p = "set_reg" -> 5

\* A cycle of any of the exchanges.
LEMMA Finished ==
    ASSUME TypeInv, CpuFinish, en, saved' = saved, cpu.mode = "prot",
           NEW p \in Debugging, NEW n \in 1 .. CyclesOf(p),
           Done(p, n - 1), Fed(p, n - 1, dout)
    PROVE  /\ Done(p, n)'
           /\ cpu'.phase = "idle" /\ cpu'.mode = cpu.mode /\ cpu'.nmi = cpu.nmi
<1>2. CASE p = "break"
  <2>1. n - 1 \in 0 .. 14 /\ n - 1 + 1 = n
    BY <1>2 DEF CyclesOf
  <2> QED
    BY <1>2, <2>1, BreakFinished
<1>3. CASE p = "cont"
  <2>1. n - 1 \in 0 .. 9 /\ n - 1 + 1 = n
    BY <1>3 DEF CyclesOf
  <2> QED
    BY <1>3, <2>1, ContFinished
<1>4. CASE p = "get_regs"
  <2>1. n - 1 \in 0 .. 20 /\ n - 1 + 1 = n
    BY <1>4 DEF CyclesOf
  <2> QED
    BY <1>4, <2>1, GetRegsFinished
<1>5. CASE p = "set_reg"
  <2>1. n - 1 \in 0 .. 4 /\ n - 1 + 1 = n
    BY <1>5 DEF CyclesOf
  <2> QED
    BY <1>5, <2>1, SetRegFinished
<1> QED
  BY <1>2, <1>3, <1>4, <1>5 DEF Debugging

-----------------------------------------------------------------------------
(* The CPU within an exchange *)

\* No program catches more cycles than its exchange has.
LEMMA CaughtBound ==
    ASSUME NEW p \in Debugging, NEW i \in Span(p)
    PROVE  Caught(p, i) \in 0 .. CyclesOf(p)
<1>1. CASE p = "break"
  BY <1>1 DEF Span, Caught, CyclesOf
<1>2. CASE p = "cont"
  BY <1>2 DEF Span, Caught, CyclesOf
<1>3. CASE p = "get_regs"
  BY <1>3 DEF Span, Caught, CyclesOf
<1>4. CASE p = "set_reg"
  BY <1>4 DEF Span, Caught, CyclesOf
<1> QED
  BY <1>1, <1>2, <1>3, <1>4 DEF Debugging

\* What a step of the CPU alone has to keep.
LEMMA ExchangeKept ==
    ASSUME TypeInv, NEW p \in Debugging, Exchange(p), UNCHANGED ocdVars, saved' = saved,
           cpu'.mode = cpu.mode, cpu'.nmi = cpu.nmi,
           NEW n, n = Caught(p, pc), Done(p, n)',
           Answered(p, pc), cpu'.phase \in {"idle", "T1", "held"},
           (n = 0 /\ hold) \/ Current.op = "EXIT" => cpu'.phase = "held",
           cpu'.phase = "held" => n = 0 \/ hold,
           cpu'.phase = "T1" => Catching
    PROVE  Exchange(p)'
<1> DEFINE a == Answered(p, pc)
           op == Current.op
<1>1. /\ prog' = prog /\ pc' = pc /\ regs' = regs /\ waiting' = waiting /\ hold' = hold
      /\ en' = en /\ reset' = reset /\ nmi' = nmi /\ ready' = ready /\ dout' = dout
      /\ cmpr' = cmpr /\ Current' = Current
  BY DEF ocdVars, Current
<1>2. Caught(p, pc)' = n /\ Answered(p, pc)' = a /\ Catching' = Catching
  BY <1>1 DEF Catching
<1>3. Holds(p, pc)'
  BY <1>1 DEF Exchange, Holds, BreakHolds, ContHolds, GetRegsHolds, SetRegHolds,
              Pushed, PushedWord
<1>4. InStep(p)'
  <2>1. Done(p, Caught(p, pc))'
    BY <1>2
  <2>2. Answered(p, pc)'
    BY <1>2
  <2> QED
    BY <2>1, <2>2 DEF InStep
<1>5. Holding(p)'
  BY <1>1, <1>2 DEF Exchange, Holding
<1>6. (ready <=> Answered(p, pc))'
  BY <1>1, <1>2 DEF Exchange
<1> QED
  BY <1>1, <1>3, <1>4, <1>5, <1>6 DEF Exchange

\* The CPU's own steps.
LEMMA ExchangeCpu ==
    ASSUME TypeInv, NEW p \in Debugging, Exchange(p), Cpu
    PROVE  Exchange(p)'
<1>0. PICK n : n = Caught(p, pc)
  OBVIOUS
<1> DEFINE a == Answered(p, pc)
           op == Current.op
<1>1. /\ cpu \in CpuType /\ UNCHANGED ocdVars /\ cpu.mode = "prot" /\ ~cpu.nmi /\ en /\ ~reset
      /\ ready <=> a
      /\ prog = p /\ pc \in Span(p) /\ InStep(p) /\ Holding(p)
      /\ Shape(p, pc, op, Code[p][pc + 1].op)
  BY ShapeOf DEF TypeInv, CpuInv, Cpu, CpuControl, CpuBus, CpuNmi, CpuQuiet, Exchange, Current
<1>2. /\ hold <=> (n = 0 /\ ~Catching) \/ op = "EXIT" \/ (op = "HOLD" /\ waiting)
      /\ (n = 0 /\ hold) \/ op = "EXIT" => cpu.phase = "held"
      /\ cpu.phase = "held" => n = 0 \/ hold
      /\ waiting => op \in {"WAITADS", "HOLD", "EXIT"}
      /\ cpu.phase = "T1" => Catching
  BY <1>0, <1>1 DEF Holding
<1>3. \/ cpu.phase = "T2" /\ n > 0 /\ op # "EXIT" /\ Done(p, n - 1)
             /\ (a => Fed(p, n - 1, dout))
      \/ a /\ cpu.phase \in {"idle", "T1", "held"} /\ Done(p, n)
  BY <1>0, <1>1 DEF InStep
<1>4. n \in 0 .. CyclesOf(p)
  BY <1>0, <1>1, CaughtBound
<1>5. ASSUME NEW x \in {"idle", "T1", "held"}, NEW c, cpu' = [cpu EXCEPT !.phase = x, !.cur = c],
             saved' = saved, cpu.phase \in {"idle", "held"}
      PROVE  /\ cpu'.phase = x /\ cpu'.mode = cpu.mode /\ cpu'.nmi = cpu.nmi
             /\ a /\ Done(p, n)'
  <2>1. /\ cpu'.phase = x /\ cpu'.mode = cpu.mode /\ cpu'.nmi = cpu.nmi
        /\ cpu'.level = cpu.level /\ cpu'.k = cpu.k /\ cpu'.ctx = cpu.ctx
        /\ cpu'.got = cpu.got /\ cpu'.fetched = cpu.fetched
    BY <1>1, <1>5 DEF CpuType
  <2>2. a /\ Done(p, n)
    BY <1>1, <1>3, <1>5
  <2> HIDE DEF a
  <2>3. \A m : Done(p, m) => Done(p, m)'
    BY <1>5, <2>1, DoneKept
  <2> QED
    BY <2>1, <2>2, <2>3
<1>6. \A x : [cpu EXCEPT !.phase = x] = [cpu EXCEPT !.phase = x, !.cur = cpu.cur]
  BY <1>1 DEF CpuType
<1> HIDE DEF a, op
<1>7. CASE CpuRelease \/ CpuEnterProtected
  BY <1>1, <1>3, <1>7 DEF CpuRelease, CpuEnterProtected
<1>8. CASE CpuHold /\ saved' = saved
  <2>1. cpu.phase = "idle" /\ hold /\ cpu' = [cpu EXCEPT !.phase = "held", !.cur = cpu.cur]
    BY <1>6, <1>8 DEF CpuHold
  <2>2. cpu'.phase = "held" /\ cpu'.mode = cpu.mode /\ cpu'.nmi = cpu.nmi /\ a /\ Done(p, n)'
    BY <1>5, <1>8, <2>1
  <2> QED
    BY <1>1, <1>8, <2>1, <2>2, <1>0, ExchangeKept DEF a, op
<1>9. CASE CpuUnhold /\ saved' = saved
  <2>1. cpu.phase = "held" /\ ~hold /\ cpu' = [cpu EXCEPT !.phase = "idle", !.cur = cpu.cur]
    BY <1>6, <1>9 DEF CpuUnhold
  <2>2. cpu'.phase = "idle" /\ cpu'.mode = cpu.mode /\ cpu'.nmi = cpu.nmi /\ a /\ Done(p, n)'
    BY <1>5, <1>9, <2>1
  <2>3. op # "EXIT"
    BY <1>2, <2>1
  <2> QED
    BY <1>1, <1>9, <2>1, <2>2, <2>3, <1>0, ExchangeKept DEF a, op
<1>10. CASE CpuStart /\ saved' = saved
  <2>1. PICK c : cpu.phase = "idle" /\ ~hold /\ waiting
                 /\ cpu' = [cpu EXCEPT !.phase = "T1", !.cur = c]
    <3>1. PICK c : StartCycle(c)
      BY <1>10, StartForms
    <3> QED
      BY <3>1 DEF StartCycle, OcdKeepsUp
  <2>2. cpu'.phase = "T1" /\ cpu'.mode = cpu.mode /\ cpu'.nmi = cpu.nmi /\ a /\ Done(p, n)'
    BY <1>5, <1>10, <2>1
  <2>3. op = "WAITADS"
    BY <1>2, <2>1
  <2>4. Catching
    BY <2>1, <2>3 DEF Catching, op
  <2> QED
    BY <1>1, <1>10, <2>1, <2>2, <2>3, <2>4, <1>0, ExchangeKept DEF a, op
<1>11. CASE CpuT2
  <2>1. cpu.phase = "T1" /\ ~(waiting /\ op \in WaitOps /\ ~ExecWait(op, Pins))
    BY <1>11 DEF CpuT2, op
  <2>2. waiting /\ op = "WAITADS"
    BY <1>2, <2>1 DEF Catching, op
  <2>3. ~ExecWait(op, Pins)
    BY <2>1, <2>2 DEF ExecWait, Pins
  <2> QED
    BY <2>1, <2>2, <2>3 DEF WaitOps
<1>12. CASE CpuFinish /\ saved' = saved
  <2>1. cpu.phase = "T2" /\ ready
    BY <1>1, <1>12 DEF CpuFinish, ReadySeen
  <2>2. a /\ n > 0 /\ op # "EXIT" /\ Done(p, n - 1) /\ Fed(p, n - 1, dout)
    BY <1>1, <1>3, <2>1
  <2>3. n \in 1 .. CyclesOf(p)
    BY <1>4, <2>2
  <2>5. /\ Done(p, n)'
        /\ cpu'.phase = "idle" /\ cpu'.mode = cpu.mode /\ cpu'.nmi = cpu.nmi
    BY <1>1, <1>12, <2>2, <2>3, Finished
  <2> QED
    BY <1>1, <1>12, <2>2, <2>5, <1>0, ExchangeKept DEF a, op
<1>13. CASE CpuTakeNmi
  BY <1>1, <1>13 DEF CpuTakeNmi
<1> QED
  BY <1>7, <1>8, <1>9, <1>10, <1>11, <1>12, <1>13 DEF Cpu, CpuControl, CpuBus, CpuNmi

-----------------------------------------------------------------------------
(* The CPU in its program *)

\* A cycle that ends leaves the bus idle, whatever the CPU does with it.
LEMMA FinishIdle ==
    ASSUME TypeInv, CpuFinish
    PROVE  cpu'.phase = "idle"
<1> DEFINE c == [cpu EXCEPT !.phase = "idle"]
           e == [c EXCEPT !.k = 0, !.got = << >>]
           words == IF cpu.cur.wr THEN cpu.got ELSE Append(cpu.got, WordSeen)
           f == Append(cpu.fetched, WordSeen)
<1>1. /\ cpu \in CpuType /\ WordSeen \in Word /\ cpu.phase = "T2"
      /\ cpu.level = "shutdown" => ~InCycle
  BY SmallWords DEF TypeInv, CpuInv, InSequence, WordSeen, OcdTypeOK, CpuFinish
<1>2. c \in CpuType /\ c.phase = "idle" /\ c.level = cpu.level /\ c.mode = cpu.mode
  BY <1>1 DEF CpuType, Phases
<1>3. f \in Seq(Word)
  BY <1>1 DEF CpuType
<1>4. e \in CpuType /\ e.phase = "idle" /\ e.level = c.level /\ e.mode = c.mode
  <2> HIDE DEF c
  <2>1. e.mode = c.mode
    BY <1>2 DEF CpuType
  <2>2. c \in CpuType /\ e = [c EXCEPT !.k = 0, !.got = << >>]
    BY <1>2
  <2> HIDE DEF e
  <2>3. e \in CpuType /\ e.phase = c.phase /\ e.level = c.level
    BY <2>2, SequenceOver
  <2> QED
    BY <1>2, <2>1, <2>3
<1>5. cpu' = CASE cpu.level = "prog" -> c
               [] cpu.level = "handler" -> HandlerFetched(c, f)
               [] OTHER -> MicrocodeStep(c, words)
  BY DEF CpuFinish
<1> HIDE DEF f, words
<1>6. CASE cpu.level = "prog"
  BY <1>2, <1>5, <1>6
<1>7. CASE cpu.level = "handler"
  <2>1. cpu' = HandlerFetched(c, f)
    BY <1>5, <1>7
  <2> HIDE DEF c
  <2> QED
    BY <1>2, <1>3, <1>7, <2>1, HandlerNext
<1>8. CASE cpu.level \in Fixed
  <2>1. cpu' = MicrocodeStep(c, words)
    BY <1>5, <1>8 DEF Fixed
  <2>2. CASE c.k + 1 < Len(Microcode(c.level, c.mode, c.ctx))
    <3>1. cpu' = [c EXCEPT !.k = @ + 1, !.got = words]
      BY <2>1, <2>2 DEF MicrocodeStep
    <3> HIDE DEF c
    <3> QED
      BY <1>2, <3>1 DEF CpuType
  <2>3. CASE ~(c.k + 1 < Len(Microcode(c.level, c.mode, c.ctx)))
    <3>1. cpu' = MicrocodeDone(e, words)
      BY <2>1, <2>3 DEF MicrocodeStep
    <3>2. e.level \in {"nmi", "iret", "pusha"} /\ e.mode \in {"real", "prot"}
      BY <1>2, <1>4, <1>8 DEF Fixed, CpuType, Modes
    <3> HIDE DEF e, c
    <3>3. CASE e.level = "nmi" /\ e.mode = "prot" /\ GateUsable(words)
      <4>1. cpu' = [e EXCEPT !.level = "handler", !.ctx.gp[ESP] = AddDword(@, -12)]
        BY <3>1, <3>3 DEF MicrocodeDone
      <4> QED
        BY <1>4, <4>1 DEF CpuType
    <3>4. CASE e.level = "nmi" /\ e.mode = "prot" /\ ~GateUsable(words)
      <4>1. cpu' = [e EXCEPT !.level = "shutdown"]
        BY <3>1, <3>4 DEF MicrocodeDone
      <4> QED
        BY <1>4, <4>1 DEF CpuType
    <3>5. CASE e.level = "nmi" /\ e.mode = "real"
      <4>1. cpu' = [e EXCEPT !.level = "handler", !.ctx.gp[ESP] = AddDword(@, -6)]
        BY <3>1, <3>5 DEF MicrocodeDone
      <4> QED
        BY <1>4, <4>1 DEF CpuType
    <3>6. CASE e.level = "pusha"
      <4>1. cpu' = [e EXCEPT !.level = "handler", !.ctx.gp[ESP] = AddDword(@, -32)]
        BY <3>1, <3>6 DEF MicrocodeDone
      <4> QED
        BY <1>4, <4>1 DEF CpuType
    <3>7. CASE e.level = "iret"
      <4>1. PICK x : cpu' = [e EXCEPT !.level = "prog", !.ctx = x]
        BY <3>1, <3>7 DEF MicrocodeDone
      <4> QED
        BY <1>4, <4>1 DEF CpuType
    <3> QED
      BY <3>2, <3>3, <3>4, <3>5, <3>6, <3>7
  <2> QED
    BY <2>2, <2>3
<1>9. cpu.level # "shutdown"
  BY <1>1 DEF InCycle
<1> QED
  BY <1>1, <1>6, <1>7, <1>8, <1>9 DEF CpuType, Levels, Fixed

\* What every step of the CPU's own leaves alone.
LEMMA CpuAwake ==
    ASSUME TypeInv, Cpu
    PROVE  /\ cpu'.phase # "reset"
           /\ InCycle' => /\ cpu'.level = cpu.level
                          /\ \/ InCycle /\ cpu'.cur = cpu.cur
                             \/ cpu.level = "prog" => cpu'.cur \in ProgramCycles
<1>0. cpu \in CpuType
  BY DEF TypeInv, CpuInv
<1>1. CASE CpuControl
  <2>1. \/ cpu' = [cpu EXCEPT !.phase = "idle"]
        \/ cpu' = [cpu EXCEPT !.phase = "held"]
        \/ cpu' = [cpu EXCEPT !.mode = "prot"] /\ cpu.phase = "idle"
    BY <1>1 DEF CpuControl, CpuRelease, CpuEnterProtected, CpuHold, CpuUnhold
  <2> QED
    BY <1>0, <2>1 DEF CpuType, InCycle
<1>2. CASE CpuStart
  <2>1. PICK c : StartCycle(c) /\ (cpu.level = "prog" => c \in ProgramCycles)
    BY <1>2, StartForms
  <2>2. cpu' = [cpu EXCEPT !.phase = "T1", !.cur = c]
    BY <2>1 DEF StartCycle
  <2> QED
    BY <1>0, <2>1, <2>2 DEF CpuType, InCycle
<1>3. CASE CpuT2
  BY <1>0, <1>3 DEF CpuT2, CpuType, InCycle
<1>4. CASE CpuFinish
  BY <1>4, FinishIdle DEF InCycle
<1>5. CASE CpuNmi
  <2>1. PICK c \in Contexts : cpu' = [cpu EXCEPT !.level = "nmi", !.nmi = FALSE, !.ctx = c,
                                               !.k = 0, !.got = << >>]
    BY <1>5 DEF CpuNmi, CpuTakeNmi
  <2>2. cpu.phase = "idle"
    BY <1>5 DEF CpuNmi, CpuTakeNmi
  <2> QED
    BY <1>0, <2>1, <2>2 DEF CpuType, InCycle
<1> QED
  BY <1>1, <1>2, <1>3, <1>4, <1>5 DEF Cpu, CpuBus

\* The program goes on until it is interrupted.
LEMMA ProgramStep ==
    ASSUME TypeInv, Cpu, cpu.level = "prog", ~CpuTakeNmi
    PROVE  /\ cpu'.level = "prog" /\ cpu'.nmi = cpu.nmi /\ saved' = saved
           /\ cpu.mode = "prot" => cpu'.mode = "prot"
<1>0. cpu \in CpuType /\ saved' = saved
  BY DEF TypeInv, CpuInv, Cpu, CpuControl, CpuBus, CpuNmi
<1>1. CASE CpuControl
  <2>1. \/ cpu' = [cpu EXCEPT !.phase = "idle"]
        \/ cpu' = [cpu EXCEPT !.phase = "held"]
        \/ cpu' = [cpu EXCEPT !.mode = "prot"]
    BY <1>1 DEF CpuControl, CpuRelease, CpuEnterProtected, CpuHold, CpuUnhold
  <2> QED
    BY <1>0, <2>1 DEF CpuType
<1>2. CASE CpuStart
  <2>1. PICK c : StartCycle(c)
    BY <1>2, StartForms
  <2>2. cpu' = [cpu EXCEPT !.phase = "T1", !.cur = c]
    BY <2>1 DEF StartCycle
  <2> QED
    BY <1>0, <2>2 DEF CpuType
<1>3. CASE CpuT2
  BY <1>0, <1>3 DEF CpuT2, CpuType
<1>4. CASE CpuFinish
  <2>1. cpu' = [cpu EXCEPT !.phase = "idle"]
    BY <1>4 DEF CpuFinish
  <2> QED
    BY <1>0, <2>1 DEF CpuType
<1> QED
  BY <1>1, <1>2, <1>3, <1>4 DEF Cpu, CpuBus, CpuNmi

\* Without an NMI on its way it goes on, and the program that runs then has no NMI to give.
LEMMA FreeCpu ==
    ASSUME TypeInv, Free, Cpu
    PROVE  Free' /\ saved' = saved
<1>1. ~CpuTakeNmi
  BY DEF CpuTakeNmi, Free
<1> QED
  BY <1>1, ProgramStep DEF Free

\* The OCD leaves a program alone that it does not interrupt.
LEMMA FreeOcd ==
    ASSUME TypeInv, Free, OcdStep, ~nmi'
    PROVE  Free'
<1>1. cpu \in CpuType /\ cpu' = OcdPinsDriven
  BY DEF TypeInv, CpuInv, OcdStep
<1>2. CASE reset'
  BY <1>1, <1>2 DEF OcdPinsDriven, ResetCpu, Free
<1>3. CASE ~reset'
  BY <1>1, <1>3, PinsQuiet DEF Free
<1> QED
  BY <1>2, <1>3

-----------------------------------------------------------------------------
(* Entering a break *)

\* The break program interrupts and waits for the locked read.
LEMMA EntryCode == Code["break"][1].op = "NMI" /\ Code["break"][2].op = "WAITLOCK"
<1>1. PrgmBreak[1].op = "NMI" /\ PrgmBreak[2].op = "WAITLOCK"
  BY BreakSource DEF Do, Ins
<1> QED
  BY <1>1, BreakText

\* The CPU's steps until the NMI's first cycle is caught,
LEMMA EnteringCpu ==
    ASSUME TypeInv, Entering, Cpu
    PROVE  Entering'
<1>0. /\ UNCHANGED << prog, pc, waiting, nmi, reset, hold >> /\ Current' = Current
      /\ cpu \in CpuType /\ cpu.mode = "prot" /\ pc \in {1, 2} /\ prog = "break" /\ ~reset
  BY DEF TypeInv, CpuInv, Entering, Cpu, CpuControl, CpuBus, CpuNmi, CpuQuiet, ocdVars, Current
<1>1. CASE cpu.level = "prog" /\ ~CpuTakeNmi
  <2>1. cpu'.level = "prog" /\ cpu'.nmi = cpu.nmi /\ cpu'.mode = "prot"
    BY <1>0, <1>1, ProgramStep
  <2>2. ~Done("break", 0)
    BY <1>1 DEF Done, In
  <2> QED
    BY <1>0, <1>1, <2>1, <2>2 DEF Entering
<1>2. CASE cpu.level = "prog" /\ CpuTakeNmi
  <2>1. PICK c \in Contexts :
           /\ cpu' = [cpu EXCEPT !.level = "nmi", !.nmi = FALSE, !.ctx = c, !.k = 0,
                                 !.got = << >>]
           /\ saved' = c
    BY <1>2 DEF CpuTakeNmi
  <2>2. /\ cpu'.level = "nmi" /\ ~cpu'.nmi /\ cpu'.ctx = c /\ cpu'.k = 0 /\ cpu'.got = << >>
        /\ cpu'.mode = "prot" /\ cpu'.phase = cpu.phase /\ cpu.phase = "idle" /\ cpu.nmi
    BY <1>0, <1>2, <2>1 DEF CpuType, CpuTakeNmi
  <2>3. pc = 2 /\ nmi
    BY <1>2, <2>2 DEF Entering, Done, In
  <2>4. Len(cpu'.got) = 0
    BY <2>2
  <2>5. Done("break", 0)'
    BY <2>1, <2>2, <2>4 DEF Done, In
  <2> QED
    BY <1>0, <2>2, <2>3, <2>5 DEF Entering
<1>3. CASE cpu.level # "prog"
  <2>1. /\ pc = 2 /\ nmi /\ ~cpu.nmi /\ Done("break", 0)
        /\ cpu.phase \in {"idle", "T1", "held"} /\ (cpu.phase = "T1" => waiting)
    BY <1>3 DEF Entering
  <2>2. cpu.level = "nmi" /\ cpu.k = 0 /\ cpu.ctx = saved
    BY <2>1 DEF Done, In
  <2>3. ASSUME NEW x \in {"idle", "T1", "held"}, NEW c, cpu' = [cpu EXCEPT !.phase = x, !.cur = c],
               saved' = saved, x = "T1" => waiting
        PROVE  Entering'
    <3>1. /\ cpu'.phase = x /\ cpu'.mode = cpu.mode /\ cpu'.nmi = cpu.nmi
          /\ cpu'.level = cpu.level /\ cpu'.k = cpu.k /\ cpu'.ctx = cpu.ctx
          /\ cpu'.got = cpu.got /\ cpu'.fetched = cpu.fetched
      BY <1>0, <2>3 DEF CpuType
    <3>2. Done("break", 0)'
      BY <2>1, <2>3, <3>1, DoneKept
    <3> QED
      BY <1>0, <2>1, <2>3, <3>1, <3>2 DEF Entering
  <2>4. \A x : [cpu EXCEPT !.phase = x] = [cpu EXCEPT !.phase = x, !.cur = cpu.cur]
    BY <1>0 DEF CpuType
  <2>5. CASE CpuControl
    <3>1. /\ saved' = saved
          /\ \/ cpu' = [cpu EXCEPT !.phase = "idle"] \/ cpu' = [cpu EXCEPT !.phase = "held"]
             \/ CpuEnterProtected
      BY <2>5 DEF CpuControl, CpuRelease, CpuHold, CpuUnhold
    <3>2. ~CpuEnterProtected
      BY <1>3 DEF CpuEnterProtected
    <3>3. \/ cpu' = [cpu EXCEPT !.phase = "idle", !.cur = cpu.cur]
          \/ cpu' = [cpu EXCEPT !.phase = "held", !.cur = cpu.cur]
      BY <2>4, <3>1, <3>2
    <3> QED
      BY <2>3, <3>1, <3>3
  <2>6. CASE CpuStart /\ saved' = saved
    <3>1. PICK c : StartCycle(c)
      BY <2>6, StartForms
    <3>2. cpu' = [cpu EXCEPT !.phase = "T1", !.cur = c] /\ waiting
      BY <3>1 DEF StartCycle, OcdKeepsUp
    <3> QED
      BY <2>3, <2>6, <3>2
  <2>7. ~CpuT2
    <3> SUFFICES ASSUME CpuT2 PROVE FALSE
      OBVIOUS
    <3>1. /\ cpu.phase = "T1" /\ waiting
          /\ ~(waiting /\ Current.op \in WaitOps /\ ~ExecWait(Current.op, Pins))
      BY <2>1 DEF CpuT2
    <3>2. Current.op = "WAITLOCK"
      BY <1>0, <2>1, EntryCode DEF Current
    <3>3. cpu.cur = NmiProtected(saved)[1]
      BY <1>0, <2>2, <3>1 DEF TypeInv, CpuInv, InSequence, InCycle, Fixed, Microcode
    <3>4. cpu.cur.lock
      BY <3>3 DEF NmiProtected, Read, Cycle
    <3> QED
      BY <3>1, <3>2, <3>4 DEF ExecWait, WaitOps, Pins, InCycle
  <2>8. ~CpuFinish
    BY <2>1 DEF CpuFinish
  <2>9. ~CpuTakeNmi
    BY <1>3 DEF CpuTakeNmi
  <2> QED
    BY <2>5, <2>6, <2>7, <2>8, <2>9 DEF Cpu, CpuBus, CpuNmi
<1> QED
  BY <1>1, <1>2, <1>3

\* The program's cycles are not locked, so the wait ends at the NMI's first one: from then on
\* the OCD and the CPU are in step.
LEMMA EnteringOcd ==
    ASSUME TypeInv, Entering, OcdStep, cpu.phase = "reset" => cpu.mode = "real",
           cpu.level = "prog" /\ InCycle => ~cpu.cur.lock
    PROVE  Entering' \/ Exchange("break")'
<1>0. /\ cpu \in CpuType /\ cpu.mode = "prot" /\ pc \in {1, 2} /\ prog = "break" /\ ~reset
      /\ cpu.phase # "reset" /\ cpu' = OcdPinsDriven /\ saved' = saved /\ prog' = "break"
  BY DEF TypeInv, CpuInv, Entering, OcdStep, OcdWait, OcdRetire
<1>1. Current.op = IF pc = 1 THEN "NMI" ELSE "WAITLOCK"
  BY <1>0, EntryCode DEF Current
<1>2. ~reset'
  BY <1>0, <1>1 DEF OcdStep, OcdWait, OcdRetire, DoExec
<1>3. T1Over = cpu \/ T1Over = [cpu EXCEPT !.phase = "T2"]
  BY DEF T1Over
<1>4. CASE pc = 1
  <2>1. OcdRetire(Pins) /\ ~nmi /\ cpu.level = "prog"
    BY <1>1, <1>4 DEF OcdStep, OcdWait, ExecWait, Entering
  <2>2. nmi' /\ pc' = 2
    <3>1. Current.op = "NMI"
      BY <1>1, <1>4
    <3>2. DoStore(Current, Pins)
      BY <2>1 DEF OcdRetire
    <3>3. pc' = pc + 1
      BY <3>1, <3>2 DEF DoStore, NextPc, BranchTaken
    <3>4. ExecNmi(Current.op) /\ Current.op \notin WaitOps
      BY <3>1 DEF ExecNmi, WaitOps
    <3>5. nmi'
      BY <3>2, <3>4, Zenon DEF DoStore
    <3> QED
      BY <1>4, <3>3, <3>5
  <2>3. cpu' = [T1Over EXCEPT !.nmi = TRUE]
    BY <1>0, <1>2, <2>1, <2>2 DEF OcdPinsDriven
  <2>4. cpu'.level = "prog" /\ cpu'.mode = "prot"
    BY <1>0, <1>3, <2>1, <2>3 DEF CpuType
  <2> QED
    BY <1>0, <1>2, <2>2, <2>4 DEF Entering
<1>5. CASE pc = 2
  <2>0. nmi /\ Current.op = "WAITLOCK"
    BY <1>1, <1>5 DEF Entering
  <2>1. cpu' = T1Over
    BY <1>0, <1>2, <2>0 DEF OcdPinsDriven
  <2>2. /\ cpu'.level = cpu.level /\ cpu'.k = cpu.k /\ cpu'.ctx = cpu.ctx
        /\ cpu'.got = cpu.got /\ cpu'.fetched = cpu.fetched /\ cpu'.mode = cpu.mode
        /\ cpu'.nmi = cpu.nmi
        /\ cpu'.phase = IF cpu.phase = "T1" /\ ~waiting' THEN "T2" ELSE cpu.phase
    BY <1>0, <2>1 DEF T1Over, CpuType
  <2>3. Done("break", 0) => Done("break", 0)'
    BY <1>0, <2>2, DoneKept
  <2>4. CASE OcdWait(Pins)
    <3>1. nmi' /\ pc' = 2 /\ waiting'
      BY <1>5, <2>0, <2>4 DEF OcdWait, ExecNmi
    <3> QED
      BY <1>0, <1>2, <1>5, <2>0, <2>2, <2>3, <3>1 DEF Entering
  <2>5. CASE OcdRetire(Pins)
    <3>1. cpu.phase = "T1" /\ cpu.cur.lock
      BY <2>0, <2>5 DEF OcdRetire, ExecWait, Pins
    <3>2. ~cpu.nmi /\ Done("break", 0)
      BY <1>5, <3>1 DEF Entering, InCycle
    <3>3. /\ ~waiting' /\ pc' = 3 /\ en' /\ ~ready' /\ ~nmi' /\ ~hold'
      <4>1. DoExec(Current, Pins) /\ DoStore(Current, Pins) /\ ~waiting'
        BY <2>5 DEF OcdRetire
      <4>2. pc' = pc + 1
        BY <2>0, <4>1 DEF DoStore, NextPc, BranchTaken
      <4>3. en' /\ ~ready' /\ ~nmi'
        BY <2>0, <4>1 DEF DoStore, WaitOps
      <4>4. ~hold'
        BY <2>0, <4>1 DEF DoExec, AssertsReady
      <4> QED
        BY <1>5, <4>1, <4>2, <4>3, <4>4
    <3>4. Current'.op = "LDAL"
      <4>1. Code["break"][3] = To("LDAL", 2)
        BY BreakSource, BreakText
      <4> QED
        BY <1>0, <3>3, <4>1 DEF Current, To, Ins
    <3>5. ~Catching'
      BY <3>3 DEF Catching
    <3>6. Caught("break", pc)' = 1 /\ ~Answered("break", pc)' /\ pc' \in Span("break")
      BY <3>3 DEF Caught, Answered, Span
    <3>7. cpu'.phase = "T2"
      BY <2>2, <3>1, <3>3
    <3>8. InStep("break")'
      <4>1. Done("break", 0)' /\ 1 - 1 = 0
        BY <2>3, <3>2
      <4> QED
        BY <3>4, <3>6, <3>7, <4>1 DEF InStep
    <3>9. Holding("break")'
      BY <3>3, <3>4, <3>5, <3>6, <3>7 DEF Holding
    <3>10. Holds("break", pc)'
      BY <3>3 DEF Holds, BreakHolds
    <3>11. (ready <=> Answered("break", pc))'
      BY <3>3, <3>6
    <3> QED
      BY <1>0, <1>2, <2>2, <3>2, <3>3, <3>6, <3>8, <3>9, <3>10, <3>11 DEF Exchange
  <2> QED
    BY <2>4, <2>5 DEF OcdStep
<1> QED
  BY <1>0, <1>4, <1>5

-----------------------------------------------------------------------------
(* One step of the OCD or the CPU *)

\* An exchange goes on, or, cont's, is over.
LEMMA ExchangeOcd ==
    ASSUME TypeInv, NEW p \in Debugging, Exchange(p), OcdStep
    PROVE  /\ ~nmi' /\ saved' = saved
           /\ \/ Exchange(p)'
              \/ p = "cont" /\ prog' = "cont" /\ pc' = 24 /\ Free'
<1>1. saved' = saved /\ (Exchange(p)' => ~nmi')
  BY DEF OcdStep, Exchange
<1>2. CASE OcdWait(Pins)
  BY <1>1, <1>2, ExchangeWait
<1>3. CASE OcdRetire(Pins) /\ ReadySampled /\ Current.op # "DETACH"
  BY <1>1, <1>3, ExchangeRetire
<1>4. CASE OcdRetire(Pins) /\ ReadySampled /\ Current.op = "DETACH"
  <2>1. p = "cont"
    <3>1. Shape(p, pc, Current.op, Code[p][pc + 1].op)
      BY <1>4, Retired
    <3> QED
      BY <1>4, <3>1 DEF Shape
  <2> QED
    BY <1>1, <1>4, <2>1, ExchangeDetach
<1> QED
  BY <1>2, <1>3, <1>4 DEF OcdStep

\* Nothing moves between two programs.
LEMMA AtRestOcd ==
    ASSUME TypeInv, AtRest, Current.op = "EXIT", OcdStep
    PROVE  AtRest' /\ ~nmi' /\ saved' = saved
<1>1. OcdWait(Pins) /\ saved' = saved /\ cpu' = OcdPinsDriven /\ cpu \in CpuType
  BY DEF OcdStep, OcdRetire, ExecWait, TypeInv, CpuInv
<1>2. /\ prog' = prog /\ stop' /\ ~reset' /\ hold' /\ en' /\ ready' /\ ~nmi'
  BY <1>1 DEF OcdWait, DoExec, ExecEn, ExecReady, ExecNmi, AssertsReady, AtRest, Parked
<1>3. cpu' = cpu
  BY <1>1, <1>2 DEF OcdPinsDriven, T1Over, AtRest, Parked
<1> QED
  BY <1>1, <1>2, <1>3 DEF AtRest, Parked, Fetched, Pushed

\* Nor does the CPU.
LEMMA AtRestCpu ==
    ASSUME AtRest PROVE ~Cpu
<1>1. ~CpuStart
  BY StartForms DEF StartCycle, AtRest, Parked
<1> QED
  BY <1>1 DEF AtRest, Parked, Cpu, CpuControl, CpuBus, CpuNmi, CpuRelease, CpuEnterProtected,
              CpuHold, CpuUnhold, CpuT2, CpuFinish, CpuTakeNmi

\* Only the break program interrupts the CPU.
LEMMA ReleasingOps ==
    ASSUME TypeInv, prog \in Releasing, ~(prog = "cont" /\ pc \in Span("cont"))
    PROVE  Current.op # "NMI" /\ (prog = "cont" => pc \in 24 .. 27)
<1>1. CASE prog = "cont"
  <2>1. ReleasesAt(Code["cont"], 24)
    BY ReleasingCode DEF Releasing, WaitIoAt
  <2>2. pc \in 24 .. 27
    BY <1>1, <2>1 DEF ReleasesAt, TypeInv, OcdTypeOK, Span
  <2>3. pc = 24 \/ pc = 24 + 1 \/ pc = 24 + 2 \/ pc = 24 + 3
    BY <2>2
  <2> QED
    BY <1>1, <2>1, <2>2, <2>3 DEF ReleasesAt, Current, Do, To, Ins
<1>2. CASE prog \in {"start", "write_io"}
  <2>1. prog \in CalmPrograms /\ pc \in 1 .. Len(Code[prog])
    BY <1>2 DEF CalmPrograms, TypeInv, OcdTypeOK
  <2>2. Current.op \in CalmOps
    BY <2>1, CalmCode DEF Current
  <2> QED
    BY <1>2, <2>2 DEF CalmOps
<1> QED
  BY <1>1, <1>2 DEF Releasing

\* Outside of sv_brk the OCD is never at an NMI instruction.
LEMMA NoNmi ==
    ASSUME TypeInv, IoInv, StopInv, BreakInv, loc # "brk_wait"
    PROVE  Current.op # "NMI"
<1>0. loc \in Locations /\ status \in Statuses /\ pc \in 1 .. Len(Code[prog])
  BY DEF TypeInv, SvType, OcdTypeOK
<1>1. CASE loc = "boot"
  <2>1. prog = "blank" /\ Code["blank"] = << Do("EXIT") >>
    BY <1>1 DEF BreakInv, Code
  <2>2. pc = 1
    BY <1>0, <2>1
  <2> QED
    BY <2>1, <2>2 DEF Current, Do, Ins
<1>2. CASE ResetProgress
  BY <1>2, ResetCode DEF ResetProgress, Current
<1>3. ASSUME NEW p \in Debugging, Exchange(p) PROVE Current.op # "NMI"
  <2>1. prog = p /\ pc \in Span(p)
    BY <1>3 DEF Exchange
  <2>2. Shape(p, pc, Current.op, Code[p][pc + 1].op)
    BY <2>1, ShapeOf DEF Current
  <2> QED
    BY <2>2 DEF Shape, Loads
<1>4. CASE loc \in {"regs_wait", "esp_wait"}
  BY <1>3, <1>4 DEF BreakInv, Attended, BreakPlace, Debugging
<1>5. CASE loc = "iowr_wait"
  <2>1. prog = "read_io" /\ prog \in CalmPrograms
    BY <1>5 DEF IoInv, Fetching, CalmPrograms
  <2> QED
    BY <1>0, <2>1, CalmCode DEF Current, CalmOps
<1>6. CASE AtPoll
  <2>1. CASE status = "STOP"
    BY <1>2, <1>6, <2>1 DEF StopInv
  <2>2. CASE status \in {"IORD", "IOWR"}
    BY <1>6, <2>2 DEF IoInv, Reported
  <2>3. CASE status = "BRK32"
    BY <1>6, <2>3 DEF IoInv, BreakInv, Attended, AtPoll, BreakPlace, AtRest, Parked
  <2>4. CASE status = "RUNNING"
    <3>1. prog \in Releasing
      BY <1>6, <2>4 DEF IoInv
    <3>2. prog = "cont" /\ pc \in Span("cont") => Exchange("cont")
      BY <1>6, <2>4 DEF BreakInv, Attended, AtPoll, BreakPlace
    <3> QED
      BY <1>3, <3>1, <3>2, ReleasingOps DEF Debugging
  <2>5. status # "BRK16"
    BY <1>6 DEF BreakInv, Attended, AtPoll, BreakPlace
  <2> QED
    BY <1>0, <2>1, <2>2, <2>3, <2>4, <2>5 DEF Statuses
<1> QED
  BY <1>0, <1>1, <1>2, <1>4, <1>5, <1>6 DEF StopInv, Locations, AtPoll

\* The OCD begins no cycle of the program's.
LEMMA ProgramCycleOcd ==
    ASSUME TypeInv, OcdStep, cpu'.level = "prog", InCycle'
    PROVE  cpu.level = "prog" /\ InCycle /\ cpu'.cur = cpu.cur
<1>0. cpu \in CpuType /\ cpu' = OcdPinsDriven
  BY DEF OcdStep, TypeInv, CpuInv
<1>1. ~reset'
  BY <1>0 DEF OcdPinsDriven, ResetCpu, InCycle
<1>2. T1Over = cpu \/ (T1Over = [cpu EXCEPT !.phase = "T2"] /\ cpu.phase = "T1")
  BY DEF T1Over
<1>3. T1Over.level = cpu.level /\ T1Over \in CpuType
  BY <1>0, <1>2 DEF CpuType, Phases
<1>4. cpu' = T1Over \/ cpu' = [T1Over EXCEPT !.nmi = TRUE]
  BY <1>0, <1>1 DEF OcdPinsDriven
<1>5. cpu'.level = cpu.level
  BY <1>3, <1>4 DEF CpuType
<1> QED
  BY <1>0, <1>1, <1>5, PinsKeepCycle DEF InCycle

\* The OCD's step.
LEMMA BreakInvOcd ==
    ASSUME TypeInv, IoInv, StopInv, BreakInv, OcdStep
    PROVE  BreakInv'
<1>0. /\ UNCHANGED << loc, status, sregs, saved, prog >>
      /\ cpu \in CpuType /\ cpu' = OcdPinsDriven
      /\ (Told' <=> Told)
  BY DEF OcdStep, svVars, OcdWait, OcdRetire, TypeInv, CpuInv, Told
<1>1. loc # "brk_wait" => ~nmi'
  <2> SUFFICES ASSUME loc # "brk_wait" PROVE ~nmi'
    OBVIOUS
  <2>1. Current.op # "NMI" /\ ~nmi
    BY NoNmi DEF BreakInv
  <2> QED
    BY <2>1 DEF OcdStep, OcdWait, OcdRetire, DoStore, ExecNmi
<1>2. cpu'.phase = "reset" => cpu'.mode = "real" /\ Free'
  <2>1. CASE reset'
    BY <1>0, <2>1 DEF OcdPinsDriven, ResetCpu, Free
  <2>2. CASE ~reset' /\ cpu'.phase = "reset"
    <3>1. T1Over = cpu \/ (T1Over = [cpu EXCEPT !.phase = "T2"] /\ cpu.phase = "T1")
      BY DEF T1Over
    <3>2. cpu.phase = "reset"
      BY <1>0, <2>2, PinsKeepCycle
    <3>3. cpu' = cpu
      BY <1>0, <2>2, <3>1, <3>2 DEF OcdPinsDriven
    <3> QED
      BY <3>2, <3>3 DEF BreakInv, Free
  <2> QED
    BY <2>1, <2>2
<1>3. cpu'.level = "prog" /\ InCycle' => ~cpu'.cur.lock
  BY ProgramCycleOcd DEF BreakInv
<1>4. ASSUME Attended PROVE BreakPlace'
  <2>0. BreakPlace
    BY <1>4 DEF BreakInv
  <2>1. CASE loc = "brk_wait"
    <3>1. CASE Entering
      <4>1. Entering' \/ Exchange("break")'
        BY <3>1, EnteringOcd DEF BreakInv
      <4> QED
        BY <1>0, <2>1, <4>1 DEF BreakPlace, AtPoll
    <3>2. CASE Exchange("break")
      <4>1. Exchange("break")'
        BY <3>2, ExchangeOcd DEF Debugging
      <4> QED
        BY <1>0, <2>1, <4>1 DEF BreakPlace, AtPoll
    <3> QED
      BY <2>0, <2>1, <3>1, <3>2 DEF BreakPlace
  <2>2. CASE loc = "regs_wait"
    <3>1. Exchange("get_regs")' /\ Told'
      BY <1>0, <2>0, <2>2, ExchangeOcd DEF BreakPlace, Debugging
    <3> QED
      BY <1>0, <2>2, <3>1 DEF BreakPlace, AtPoll
  <2>3. CASE loc = "esp_wait"
    <3>1. Exchange("set_reg")' /\ Told'
      BY <1>0, <2>0, <2>3, ExchangeOcd DEF BreakPlace, Debugging
    <3> QED
      BY <1>0, <2>3, <3>1 DEF BreakPlace, AtPoll
  <2>4. CASE loc = "iowr_wait"
    <3>1. Free'
      BY <1>1, <2>0, <2>4, FreeOcd DEF BreakPlace
    <3> QED
      BY <1>0, <2>4, <3>1 DEF BreakPlace, AtPoll
  <2>5. CASE AtPoll /\ status = "BRK32"
    <3>1. AtRest /\ Told /\ Current.op = "EXIT"
      BY <2>0, <2>5 DEF BreakPlace, AtRest, Parked, IoInv
    <3>2. AtRest' /\ Told'
      BY <1>0, <3>1, AtRestOcd
    <3> QED
      BY <1>0, <2>5, <3>2 DEF BreakPlace, AtPoll
  <2>6. CASE AtPoll /\ status # "BRK32"
    <3>1. loc' = loc /\ status' = status /\ loc # "brk_wait" /\ status # "BRK16"
          /\ loc \notin {"regs_wait", "esp_wait", "iowr_wait"}
      BY <1>0, <2>0, <2>6 DEF BreakPlace, AtPoll
    <3>2. CASE status = "RUNNING" /\ prog = "cont" /\ pc \in Span("cont")
      <4>1. Exchange("cont")
        BY <2>0, <2>6, <3>2 DEF BreakPlace
      <4>2. Exchange("cont")' \/ (pc' = 24 /\ Free')
        BY <4>1, ExchangeOcd DEF Debugging
      <4>3. pc' = 24 => pc' \notin Span("cont")
        BY DEF Span
      <4>4. Exchange("cont")' => pc' \in Span("cont")
        BY DEF Exchange
      <4> QED
        BY <1>0, <2>6, <3>1, <3>2, <4>2, <4>3, <4>4 DEF BreakPlace, AtPoll
    <3>3. CASE ~(status = "RUNNING" /\ prog = "cont" /\ pc \in Span("cont"))
      <4>1. Free
        BY <2>0, <2>6, <3>3 DEF BreakPlace
      <4>2. Free'
        BY <1>1, <3>1, <4>1, FreeOcd
      <4>3. ASSUME status = "RUNNING", prog = "cont" PROVE pc' \notin Span("cont")
        <5>1. pc \in 24 .. 27
          BY <3>3, <4>3, ReleasingOps DEF Releasing
        <5>2. Current.op \notin Branches
          <6>1. ReleasesAt(Code["cont"], 24)
            BY ReleasingCode DEF Releasing, WaitIoAt
          <6> QED
            BY <4>3, <5>1, <6>1 DEF ReleasesAt, Current
        <5>3. Current.op # "BA"
          BY CurrentType DEF TypeInv, Instruction, Plain, Branches
        <5>4. pc' = pc \/ pc' = pc + 1
          BY <5>2, <5>3 DEF OcdStep, OcdWait, OcdRetire, DoStore, NextPc, BranchTaken, Branches
        <5> QED
          BY <5>1, <5>4 DEF Span
      <4> QED
        BY <1>0, <2>6, <3>1, <3>3, <4>2, <4>3 DEF BreakPlace, AtPoll
    <3> QED
      BY <3>2, <3>3
  <2> QED
    BY <1>4, <2>1, <2>2, <2>3, <2>4, <2>5, <2>6 DEF Attended, TypeInv, SvType, Locations, AtPoll
<1> QED
  BY <1>0, <1>1, <1>2, <1>3, <1>4 DEF BreakInv, Attended

\* A program without locked operations locks no cycle.
LEMMA Unlocked ==
    ASSUME LockedOps = FALSE, NEW c \in ProgramCycles
    PROVE  ~c.lock
BY DEF ProgramCycles, Read, Cycle

\* The CPU's step.
LEMMA BreakInvCpu ==
    ASSUME LockedOps = FALSE, TypeInv, BreakInv, Cpu
    PROVE  BreakInv'
<1>0. /\ UNCHANGED << prog, pc, waiting, stop, en, ready, hold, nmi, reset, regs >>
      /\ UNCHANGED << loc, status, sregs >> /\ UNCHANGED ocdVars
  BY DEF Cpu, CpuControl, CpuBus, CpuNmi, CpuQuiet, ocdVars, svVars
<1>1. cpu'.phase # "reset"
  BY CpuAwake
<1>2. cpu'.level = "prog" /\ InCycle' => ~cpu'.cur.lock
  BY CpuAwake, Unlocked DEF BreakInv
<1>3. ASSUME Attended PROVE BreakPlace'
  <2>0. BreakPlace
    BY <1>3 DEF BreakInv
  <2>1. ASSUME NEW p \in Debugging, Exchange(p)
        PROVE  Exchange(p)' /\ saved' = saved
    <3>1. Exchange(p)'
      BY <2>1, ExchangeCpu
    <3>2. ~CpuTakeNmi
      BY <2>1 DEF Exchange, CpuTakeNmi
    <3> QED
      BY <3>1, <3>2 DEF Cpu, CpuControl, CpuBus, CpuNmi
  <2>2. CASE loc = "brk_wait"
    <3>1. Entering' \/ Exchange("break")'
      BY <2>0, <2>1, <2>2, EnteringCpu DEF BreakPlace, Debugging
    <3> QED
      BY <1>0, <2>2, <3>1 DEF BreakPlace, AtPoll
  <2>3. CASE loc = "regs_wait"
    <3>1. Exchange("get_regs")' /\ saved' = saved
      BY <2>0, <2>1, <2>3 DEF BreakPlace, Debugging
    <3> QED
      BY <1>0, <2>0, <2>3, <3>1 DEF BreakPlace, AtPoll, Told
  <2>4. CASE loc = "esp_wait"
    <3>1. Exchange("set_reg")' /\ saved' = saved
      BY <2>0, <2>1, <2>4 DEF BreakPlace, Debugging
    <3> QED
      BY <1>0, <2>0, <2>4, <3>1 DEF BreakPlace, AtPoll, Told
  <2>5. CASE loc = "iowr_wait"
    BY <1>0, <2>0, <2>5, FreeCpu DEF BreakPlace, AtPoll
  <2>6. CASE AtPoll
    <3>1. ~(status = "BRK32")
      BY <2>0, <2>6, AtRestCpu DEF BreakPlace
    <3>2. CASE status = "RUNNING" /\ prog = "cont" /\ pc \in Span("cont")
      <4>1. Exchange("cont")'
        BY <2>0, <2>1, <2>6, <3>2 DEF BreakPlace, Debugging
      <4> QED
        BY <1>0, <2>6, <3>2, <4>1 DEF BreakPlace, AtPoll
    <3>3. CASE ~(status = "RUNNING" /\ prog = "cont" /\ pc \in Span("cont"))
      <4>1. Free'
        BY <2>0, <2>6, <3>1, <3>3, FreeCpu DEF BreakPlace
      <4>2. pc' \in Span("cont") <=> pc \in Span("cont")
        BY <1>0
      <4> QED
        BY <1>0, <2>0, <2>6, <3>1, <3>3, <4>1, <4>2 DEF BreakPlace, AtPoll
    <3> QED
      BY <3>2, <3>3
  <2> QED
    BY <1>3, <2>2, <2>3, <2>4, <2>5, <2>6 DEF Attended, TypeInv, SvType, Locations, AtPoll
<1> QED
  BY <1>0, <1>1, <1>2, <1>3 DEF BreakInv, Attended

-----------------------------------------------------------------------------
(* The firmware's steps *)

\* The end of an exchange.
LEMMA ExchangeOver ==
    ASSUME TypeInv, IoInv, NEW p \in Debugging, Exchange(p), stop
    PROVE  /\ p # "cont" /\ pc = (CASE p = "break" -> 56 [] p = "get_regs" -> 62
                                    [] p = "set_reg" -> 13)
           /\ Parked /\ Done(p, CyclesOf(p)) /\ Holds(p, pc)
<1>1. /\ prog = p /\ pc \in Span(p) /\ Current.op = "EXIT"
      /\ Shape(p, pc, Current.op, Code[p][pc + 1].op)
  <2>1. prog = p /\ pc \in Span(p) /\ Current.op = "EXIT"
    BY DEF Exchange, IoInv
  <2>2. Shape(p, pc, Current.op, Code[p][pc + 1].op)
    BY <2>1, ShapeOf DEF Current
  <2> QED
    BY <2>1, <2>2
<1>2. Answered(p, pc) /\ pc + 1 \notin Span(p)
  BY <1>1 DEF Shape
<1>3. p # "cont"
  <2> SUFFICES ASSUME p = "cont" PROVE FALSE
    OBVIOUS
  <2>1. pc = 23
    BY <1>1, <1>2 DEF Span
  <2>2. Code["cont"][23].op = "DETACH"
    BY ContText DEF Do, Ins
  <2> QED
    BY <1>1, <2>1, <2>2 DEF Current
<1>4. pc = CASE p = "break" -> 56 [] p = "get_regs" -> 62 [] p = "set_reg" -> 13
  BY <1>1, <1>2, <1>3 DEF Span, Debugging
<1>5. Caught(p, pc) = CyclesOf(p)
  BY <1>3, <1>4 DEF Debugging, Caught, CyclesOf
<1>6. Done(p, CyclesOf(p))
  <2>1. Done(p, Caught(p, pc))
    BY <1>1, <1>2 DEF Exchange, InStep
  <2> QED
    BY <1>5, <2>1
<1> QED
  BY <1>1, <1>2, <1>3, <1>4, <1>6 DEF Exchange, Holding, Parked

\* The programs that begin with the CPU off its bus.
LEMMA ExchangeBegins ==
    ASSUME TypeInv, Parked, NEW p \in {"cont", "get_regs", "set_reg"},
           OcdRun(p), cpu' = cpu, saved' = saved, Done(p, 0), Holds(p, 1)'
    PROVE  Exchange(p)'
<1>0. /\ prog' = p /\ pc' = 1 /\ ~waiting' /\ UNCHANGED << en, ready, hold, nmi, reset >>
  BY DEF OcdRun
<1>1. /\ en' /\ ready' /\ hold' /\ ~nmi' /\ ~reset' /\ cpu'.phase = "held"
      /\ cpu'.mode = "prot" /\ ~cpu'.nmi
  BY <1>0 DEF Parked
<1>2. /\ Caught(p, pc)' = 0 /\ Answered(p, pc)' /\ pc' \in Span(p)
  BY <1>0 DEF Caught, Answered, Span
<1>3. Current'.op = "LDI"
  <2>1. Code[p][1].op = "LDI"
    BY ContText, GetRegsText, SetRegText DEF Ldi, Ins
  <2> QED
    BY <1>0, <2>1 DEF Current
<1>4. ~Catching'
  BY <1>0 DEF Catching
<1>5. Done(p, 0)'
  BY DoneKept
<1>6. InStep(p)'
  BY <1>1, <1>2, <1>5 DEF InStep
<1>7. Holding(p)'
  BY <1>0, <1>1, <1>2, <1>3, <1>4 DEF Holding
<1>8. Holds(p, pc)'
  BY <1>0
<1>9. (ready <=> Answered(p, pc))'
  BY <1>1, <1>2
<1> QED
  BY <1>0, <1>1, <1>2, <1>6, <1>7, <1>8, <1>9 DEF Exchange

\* A doubleword is its two words.
LEMMA DwordOf ==
    ASSUME NEW d \in Dword
    PROVE  << Low(d), High(d) >> = d
BY DEF Dword, Low, High

\* What the break program has left in its registers is what sv_brk reports.
LEMMA BrkDone ==
    ASSUME TypeInv, IoInv, BreakInv, SvBrkDone, cpu' = cpu, saved' = saved
    PROVE  AtRest' /\ Told' /\ status' = "BRK32" /\ ~nmi' /\ loc' = "ocd"
<1>1. /\ loc = "brk_wait" /\ stop /\ UNCHANGED ocdVars /\ loc' = "ocd"
      /\ sregs' = [sregs EXCEPT !.eflags = GetReg32(REG_EFLAGS), !.cs = regs[REG_CS],
                                !.eip = GetReg32(REG_EIP)]
      /\ status' = IF regs[REG_CPU_MODE] # 0 THEN "BRK32" ELSE "BRK16"
  BY DEF SvBrkDone, Waited, Goto
<1>2. Current.op = "EXIT"
  BY <1>1 DEF IoInv
<1>3. ~Entering
  <2> SUFFICES ASSUME Entering PROVE FALSE
    OBVIOUS
  <2>1. prog = "break" /\ pc \in {1, 2}
    BY DEF Entering
  <2> QED
    BY <1>2, <2>1, EntryCode DEF Current
<1>4. Exchange("break")
  BY <1>1, <1>3 DEF BreakInv, Attended, BreakPlace
<1>5. /\ pc = 56 /\ Parked /\ Done("break", 15) /\ BreakHolds(56)
  <2>1. "break" \in Debugging
    BY DEF Debugging
  <2>2. /\ pc = CASE "break" = "break" -> 56 [] "break" = "get_regs" -> 62
                  [] "break" = "set_reg" -> 13
        /\ Parked /\ Done("break", CyclesOf("break")) /\ Holds("break", pc)
    BY <1>1, <1>4, <2>1, ExchangeOver
  <2>3. CyclesOf("break") = 15 /\ pc = 56
    BY <2>2 DEF CyclesOf
  <2> QED
    BY <2>2, <2>3 DEF Holds
<1>6. AtRest
  BY <1>1, <1>4, <1>5 DEF AtRest, Parked, Done, Exchange
<1>7. AtRest' /\ ~nmi'
  BY <1>1, <1>5, <1>6 DEF AtRest, Parked, ocdVars, Fetched, Pushed
<1>8. /\ regs[1] = 1 /\ regs[2] = Low(saved.eflags) /\ regs[3] = High(saved.eflags)
      /\ regs[4] = saved.cs /\ regs[5] = Low(saved.eip) /\ regs[6] = High(saved.eip)
  BY <1>5 DEF BreakHolds
<1>9. saved \in ContextType /\ sregs \in ContextType
  BY CpuAssumption DEF TypeInv, CpuInv, SvType
<1>10. GetReg32(REG_EFLAGS) = saved.eflags /\ GetReg32(REG_EIP) = saved.eip
       /\ regs[REG_CS] = saved.cs
  <2>1. saved.eflags \in Dword /\ saved.eip \in Dword
    BY <1>9 DEF ContextType
  <2>2. 2 + 1 = 3 /\ 5 + 1 = 6
    OBVIOUS
  <2> QED
    BY <1>8, <2>1, <2>2, DwordOf DEF GetReg32, REG_EFLAGS, REG_EIP, REG_CS
<1>11. sregs'.eflags = saved.eflags /\ sregs'.eip = saved.eip /\ sregs'.cs = saved.cs
  BY <1>1, <1>9, <1>10 DEF ContextType
<1>12. status' = "BRK32"
  BY <1>1, <1>8 DEF REG_CPU_MODE
<1> QED
  BY <1>1, <1>7, <1>11, <1>12 DEF Told

\* cont begins with the registers sv_brk reported.
LEMMA ContBegins ==
    ASSUME TypeInv, AtRest, Told, cpu' = cpu, saved' = saved, NEW word,
           SvCont("BRK32", word)
    PROVE  Exchange("cont")'
<1>1. /\ OcdRun("cont")
      /\ regs' = SetReg32(SetReg32([regs EXCEPT ![REG_CS] = sregs.cs],
                                   REG_EFLAGS, sregs.eflags),
                          REG_EIP, sregs.eip)
  BY DEF SvCont, Running
<1>2. regs \in [RegIds -> Word]
  BY DEF TypeInv, OcdTypeOK
<1>3. regs' = [regs EXCEPT ![4] = sregs.cs, ![2] = Low(sregs.eflags), ![3] = High(sregs.eflags),
                           ![5] = Low(sregs.eip), ![6] = High(sregs.eip)]
  <2>1. 2 + 1 = 3 /\ 5 + 1 = 6
    OBVIOUS
  <2> QED
    BY <1>1, <2>1 DEF SetReg32, REG_CS, REG_EFLAGS, REG_EIP
<1>4. /\ regs'[4] = sregs.cs /\ regs'[2] = Low(sregs.eflags) /\ regs'[3] = High(sregs.eflags)
      /\ regs'[5] = Low(sregs.eip) /\ regs'[6] = High(sregs.eip)
  BY <1>2, <1>3 DEF RegIds
<1>5. Holds("cont", 1)'
  BY <1>4 DEF Told, Holds, ContHolds
<1>6. Done("cont", 0)
  BY DEF AtRest, Parked, Done, Fetched
<1> QED
  BY <1>1, <1>5, <1>6, ExchangeBegins DEF AtRest

\* get_regs begins with the CPU at rest.
LEMMA RegsBegin ==
    ASSUME TypeInv, AtRest, cpu' = cpu, saved' = saved, OcdRun("get_regs")
    PROVE  Exchange("get_regs")'
<1>1. Holds("get_regs", 1)'
  <2>1. \A j \in 0 .. 15 : ~(1 > 14 + 3 * j)
    OBVIOUS
  <2> QED
    BY <2>1 DEF Holds, GetRegsHolds
<1>2. Done("get_regs", 0)
  BY DEF AtRest, Parked, Done, Fetched
<1> QED
  BY <1>1, <1>2, ExchangeBegins DEF AtRest

\* GETREGS: the registers PUSHA pushed, with ESP as it was before the NMI.
LEMMA RegsRestored ==
    ASSUME TypeInv, IoInv, Exchange("get_regs"), SvGetRegsRestore, cpu' = cpu, saved' = saved
    PROVE  /\ sregs' = [sregs EXCEPT !.gp = saved.gp]
           /\ Exchange("set_reg")'
<1> DEFINE g == [i \in 0 .. 7 |-> IF i = ESP THEN EspRun(GetReg32(2 * i)) ELSE GetReg32(2 * i)]
<1>1. /\ stop /\ OcdRun("set_reg") /\ sregs' = [sregs EXCEPT !.gp = g]
      /\ regs' = SetReg32([regs EXCEPT ![REG_SET] = NopMovEsp],
                          REG_RVALUE, EspBrk(sregs'.gp[ESP]))
  BY DEF SvGetRegsRestore, Waited
<1>2. /\ pc = 62 /\ Parked /\ Done("get_regs", 21) /\ GetRegsHolds(62)
  <2>1. "get_regs" \in Debugging
    BY DEF Debugging
  <2>2. /\ pc = CASE "get_regs" = "break" -> 56 [] "get_regs" = "get_regs" -> 62
                  [] "get_regs" = "set_reg" -> 13
        /\ Parked /\ Done("get_regs", CyclesOf("get_regs")) /\ Holds("get_regs", pc)
    BY <1>1, <2>1, ExchangeOver
  <2>3. CyclesOf("get_regs") = 21 /\ pc = 62
    BY <2>2 DEF CyclesOf
  <2> QED
    BY <2>2, <2>3 DEF Holds
<1>3. saved \in ContextType /\ sregs \in ContextType /\ regs \in [RegIds -> Word]
  BY CpuAssumption DEF TypeInv, CpuInv, SvType, OcdTypeOK
<1>4. ASSUME NEW j \in 0 .. 15 PROVE regs[j] = PushedWord(Pushed, j)
  <2>1. 62 > 14 + 3 * j
    OBVIOUS
  <2> QED
    BY <1>2, <2>1 DEF GetRegsHolds
<1>5. saved.gp \in [0 .. 7 -> Dword] /\ -12 \in Int /\ ESP = 3
  BY <1>3 DEF ContextType, ESP
<1>6. /\ Pushed.gp \in [0 .. 7 -> Dword] /\ Pushed.gp[ESP] = AddDword(saved.gp[ESP], -12)
      /\ \A i \in 0 .. 7 : i # ESP => Pushed.gp[i] = saved.gp[i]
  <2>1. saved.gp[ESP] \in Dword
    BY <1>5
  <2>2. AddDword(saved.gp[ESP], -12) \in Dword
    BY <1>5, <2>1, AddDwordType
  <2>3. Pushed.gp = [saved.gp EXCEPT ![ESP] = AddDword(saved.gp[ESP], -12)]
    BY <1>3 DEF Pushed, ContextType
  <2> QED
    BY <1>5, <2>2, <2>3
<1>7. ASSUME NEW i \in 0 .. 7 PROVE GetReg32(2 * i) = Pushed.gp[i]
  <2>1. 2 * i \in 0 .. 15 /\ 2 * i + 1 \in 0 .. 15
    OBVIOUS
  <2>2. (2 * i) \div 2 = i /\ (2 * i) % 2 = 0 /\ (2 * i + 1) \div 2 = i /\ (2 * i + 1) % 2 = 1
    OBVIOUS
  <2>3. regs[2 * i] = Pushed.gp[i][1] /\ regs[2 * i + 1] = Pushed.gp[i][2]
    BY <1>4, <2>1, <2>2 DEF PushedWord
  <2>4. Pushed.gp[i] \in Dword
    BY <1>6
  <2> QED
    BY <2>3, <2>4, DwordOf DEF GetReg32, Low, High
<1>8. g = saved.gp
  <2>1. ASSUME NEW i \in 0 .. 7 PROVE g[i] = saved.gp[i]
    <3>1. CASE i = ESP
      <4>1. g[i] = EspRun(Pushed.gp[ESP])
        BY <1>7, <3>1
      <4>2. saved.gp[ESP] \in Dword
        BY <1>5
      <4> QED
        BY <1>6, <3>1, <4>1, <4>2, BackAgain DEF EspRun
    <3>2. CASE i # ESP
      BY <1>6, <1>7, <3>2
    <3> QED
      BY <3>1, <3>2
  <2> QED
    BY <1>5, <2>1
<1> HIDE DEF g
<1>9. sregs' = [sregs EXCEPT !.gp = saved.gp]
  BY <1>1, <1>8
<1>10. sregs'.gp[ESP] = saved.gp[ESP]
  BY <1>3, <1>9 DEF ContextType
<1>11. regs' = SetReg32([regs EXCEPT ![1] = NopMovEsp], 2, Pushed.gp[ESP])
  BY <1>1, <1>6, <1>10 DEF EspBrk, REG_SET, REG_RVALUE
<1>12. /\ regs'[1] = NopMovEsp /\ regs'[2] = Low(Pushed.gp[ESP])
       /\ regs'[3] = High(Pushed.gp[ESP])
  <2>1. 2 + 1 = 3
    OBVIOUS
  <2>2. regs' = [regs EXCEPT ![1] = NopMovEsp, ![2] = Low(Pushed.gp[ESP]),
                             ![3] = High(Pushed.gp[ESP])]
    BY <1>11, <2>1 DEF SetReg32
  <2> QED
    BY <1>3, <2>2 DEF RegIds
<1>13. Holds("set_reg", 1)'
  BY <1>12 DEF Holds, SetRegHolds, Pushed
<1>14. Fetched(0, 0) /\ cpu.ctx = PushedBut(cpu.ctx)
  BY <1>2 DEF Done
<1>15. Done("set_reg", 0)
  BY <1>14 DEF Done, Fetched
<1>16. Exchange("set_reg")'
  BY <1>1, <1>2, <1>13, <1>15, ExchangeBegins
<1> QED
  BY <1>9, <1>16

-----------------------------------------------------------------------------
(* The firmware's steps keep the invariant *)

\* What no step of the firmware touches; the break program runs until it ends.
LEMMA FirmwareLeaves ==
    ASSUME Supervisor
    PROVE  /\ cpu' = cpu /\ saved' = saved /\ nmi' = nmi /\ loc' # "boot"
           /\ loc = "brk_wait" => SvBrkDone
<1> USE DEF Goto, Receives, Waited, dataVars, ocdVars, OcdRun, SvCont, Running
<1>1. nmi' = nmi /\ loc' # "boot" /\ (loc = "brk_wait" => SvBrkDone)
  <2>1. CASE Refuse \/ NoCommand \/ OcdRunning \/ SvSetIoData
    BY <2>1 DEF Refuse, NoCommand, OcdRunning, SvSetIoData
  <2>2. CASE SvInit \/ SvInitDone \/ SvStop \/ SvStopDone \/ SvStart \/ SvBrk
    BY <2>2 DEF SvInit, SvInitDone, SvStop, SvStopDone, SvStart, SvBrk
  <2>3. CASE SvBrkDone \/ SvGetRegs \/ SvGetRegsRestore \/ SvGetRegsDone
    BY <2>3 DEF SvBrkDone, SvGetRegs, SvGetRegsRestore, SvGetRegsDone
  <2>4. CASE HostCont
    BY <2>4 DEF HostCont
  <2>5. CASE IoBreakWrite \/ IoBreakWriteDone \/ IoBreakRead
    BY <2>5 DEF IoBreakWrite, IoBreakWriteDone, IoBreakRead, IoBreak
  <2> QED
    BY <2>1, <2>2, <2>3, <2>4, <2>5 DEF Supervisor, SvHandle, SvContinue
<1> QED
  BY <1>1 DEF Supervisor, cpuVars

\* At the polls and with no break, the program has the CPU.
LEMMA PollFree ==
    ASSUME AtPoll', Free', status' \notin {"BRK16", "BRK32"},
           prog' = "cont" /\ status' = "RUNNING" => pc' \notin Span("cont")
    PROVE  BreakPlace'
BY DEF BreakPlace, AtPoll

\* Nothing of an exchange is the firmware's.
LEMMA ExchangeStill ==
    ASSUME cpu' = cpu, saved' = saved, UNCHANGED ocdVars, NEW p, Exchange(p)
    PROVE  Exchange(p)'
<1>1. UNCHANGED << prog, pc, waiting, en, ready, hold, nmi, reset, dout, cmpr, regs >>
  BY DEF ocdVars
<1>2. PICK n : n = Caught(p, pc)
  OBVIOUS
<1>3. Done(p, n - 1) => Done(p, n - 1)'
  BY DoneKept
<1>4. Done(p, n) => Done(p, n)'
  BY DoneKept
<1>5. ASSUME NEW w PROVE Fed(p, n - 1, w) => Fed(p, n - 1, w)'
  BY FedKept
<1>6. Current' = Current /\ (Catching' <=> Catching) /\ Caught(p, pc)' = n
  BY <1>1, <1>2 DEF Current, Catching
<1>7. (Answered(p, pc)' <=> Answered(p, pc))
  BY <1>1
<1>8. Fed(p, n - 1, dout) => Fed(p, n - 1, dout)'
  BY <1>1, <1>5
<1>9. InStep(p)'
  BY <1>1, <1>2, <1>3, <1>4, <1>6, <1>7, <1>8 DEF InStep, Exchange
<1>10. Holding(p)'
  BY <1>1, <1>2, <1>6 DEF Holding, Exchange
<1>11. Holds(p, pc)'
  BY <1>1 DEF Exchange, Holds, BreakHolds, ContHolds, GetRegsHolds, SetRegHolds, PushedWord,
              Pushed
<1> QED
  BY <1>1, <1>7, <1>9, <1>10, <1>11 DEF Exchange

\* A handler that goes back to the polls with the OCD as it was.
LEMMA PollKept ==
    ASSUME AtPoll, AtPoll', BreakPlace, cpu' = cpu, saved' = saved,
           UNCHANGED << ocdVars, status, sregs >>
    PROVE  BreakPlace'
<1>1. loc' \notin {"brk_wait", "regs_wait", "esp_wait", "iowr_wait"}
  BY DEF AtPoll
<1>2. Exchange("cont") => Exchange("cont")'
  BY ExchangeStill
<1>3. (AtRest' <=> AtRest) /\ (Told' <=> Told) /\ (Free' <=> Free)
  BY DEF AtRest, Parked, Told, Free, Fetched, Pushed, ocdVars
<1> QED
  BY <1>1, <1>2, <1>3 DEF BreakPlace, ocdVars

\* START finds the CPU in reset.
LEMMA StartFree ==
    ASSUME IoInv, StopInv, BreakInv, cpu' = cpu,
           AtPoll \/ loc \in {"init_wait", "stop_wait"},
           AtPoll => status = "STOP", AtPoll \/ stop
    PROVE  Free'
<1>1. ResetProgress /\ reset
  BY DEF StopInv, ResetProgress
<1> QED
  BY <1>1 DEF IoInv, BreakInv, Free

\* BRK finds the program running: an IRET of cont is over when the OCD has released
\* the CPU.
LEMMA BrkEntering ==
    ASSUME "real" \notin BreakModes, TypeInv, IoInv, BreakInv, SvBrk,
           cpu' = cpu, saved' = saved
    PROVE  Entering'
<1>1. /\ loc = "uart" /\ status = "RUNNING" /\ Released /\ cpu.mode \in BreakModes
      /\ prog' = "break" /\ pc' = 1 /\ nmi' = nmi /\ reset' = reset
  BY DEF SvBrk, Receives, OcdRun
<1>2. cpu.mode = "prot" /\ ~reset /\ ~nmi
  <2>1. cpu.mode = "prot"
    BY <1>1, HostAssumption
  <2> QED
    BY <1>1, <2>1 DEF IoInv, BreakInv
<1>3. Free
  <2>1. ~Exchange("cont")
    <3> SUFFICES ASSUME Exchange("cont") PROVE FALSE
      OBVIOUS
    <3>1. prog = "cont" /\ pc \in Span("cont") /\ "cont" \in Debugging
      BY DEF Exchange, Debugging
    <3>2. Shape("cont", pc, Current.op, Code["cont"][pc + 1].op)
      BY <3>1, ShapeOf DEF Current
    <3>3. Current.op = "EXIT"
      BY <1>1, <3>2 DEF Shape, Released, Loads
    <3>4. pc = 23
      BY <3>1, <3>2, <3>3 DEF Shape, Span
    <3>5. Code["cont"][23].op = "DETACH"
      BY ContText DEF Do, Ins
    <3> QED
      BY <3>1, <3>3, <3>4, <3>5 DEF Current
  <2> QED
    BY <1>1, <2>1 DEF BreakInv, Attended, BreakPlace, AtPoll
<1>4. cpu.level = "prog" /\ ~cpu.nmi
  BY <1>3 DEF Free
<1> QED
  BY <1>1, <1>2, <1>4 DEF Entering

\* set_reg leaves the CPU as the break program left it.
LEMMA RegsDone ==
    ASSUME TypeInv, IoInv, BreakInv, SvGetRegsDone, cpu' = cpu, saved' = saved
    PROVE  AtRest' /\ Told'
<1>1. loc = "esp_wait" /\ stop /\ UNCHANGED << ocdVars, sregs >>
  BY DEF SvGetRegsDone, Waited, dataVars
<1>2. Exchange("set_reg") /\ Told
  BY <1>1 DEF BreakInv, Attended, BreakPlace
<1>3. Parked /\ Done("set_reg", 5)
  <2>1. "set_reg" \in Debugging /\ CyclesOf("set_reg") = 5
    BY DEF Debugging, CyclesOf
  <2>2. Parked /\ Done("set_reg", CyclesOf("set_reg"))
    BY <1>1, <1>2, <2>1, ExchangeOver
  <2> QED
    BY <2>1, <2>2
<1>4. AtRest
  BY <1>1, <1>2, <1>3 DEF AtRest, Done, Exchange
<1> QED
  BY <1>1, <1>2, <1>4 DEF AtRest, Parked, Told, Fetched, Pushed, ocdVars

\* sv_iobreak finds the program in an I/O cycle.
LEMMA IoBreakFree ==
    ASSUME TypeInv, IoInv, BreakInv, loc = "ocd", stop, status = "RUNNING"
    PROVE  Free
<1>1. ~Exchange("cont")
  <2>1. "cont" \in Debugging
    BY DEF Debugging
  <2> QED
    BY <2>1, ExchangeOver
<1> QED
  BY <1>1 DEF BreakInv, Attended, BreakPlace, AtPoll

\* sv_cont: from a break its exchange begins; from an I/O cycle the program goes on.
LEMMA ContPlace ==
    ASSUME TypeInv, AtPoll', ~(prog' = "cont") => Free',
           cpu' = cpu, saved' = saved, sregs' = sregs,
           status = "BRK32" => AtRest /\ Told,
           NEW word, SvCont(status, word)
    PROVE  BreakPlace'
<1>1. CASE status = "BRK32"
  <2>1. SvCont("BRK32", word) /\ AtRest /\ Told
    BY <1>1
  <2>2. Exchange("cont")'
    BY <2>1, ContBegins
  <2>3. status' = "RUNNING" /\ prog' = "cont" /\ pc' \in Span("cont")
    BY <2>1 DEF SvCont, Running, OcdRun, Span
  <2> QED
    BY <2>2, <2>3 DEF BreakPlace, AtPoll
<1>2. CASE status # "BRK32"
  <2>1. status' = "RUNNING" /\ prog' \in {"write_io", "start"}
    BY <1>2 DEF SvCont, Running, OcdRun
  <2> QED
    BY <2>1, PollFree
<1> QED
  BY <1>1, <1>2

\* Where a break stands after a step of the firmware.
LEMMA BreakPlaceSupervisor ==
    ASSUME "real" \notin BreakModes, TypeInv, IoInv, StopInv, BreakInv, Supervisor, Attended'
    PROVE  BreakPlace'
<1>0. /\ cpu' = cpu /\ saved' = saved /\ (Free' <=> Free)
      /\ AtPoll => BreakPlace
  BY FirmwareLeaves DEF BreakInv, Attended, AtPoll, Free
<1>1. CASE Refuse \/ NoCommand \/ OcdRunning \/ SvSetIoData
  <2>1. /\ AtPoll /\ AtPoll' /\ UNCHANGED << ocdVars, status, sregs >>
    BY <1>1 DEF Refuse, NoCommand, OcdRunning, SvSetIoData, Receives, Goto, dataVars, AtPoll
  <2> QED
    BY <1>0, <2>1, PollKept
<1>2. CASE SvInit \/ SvStop
  BY <1>2 DEF SvInit, SvStop, Goto, Attended
<1>3. CASE SvInitDone \/ SvStopDone
  <2>1. loc \in {"init_wait", "stop_wait"} /\ stop /\ ~AtPoll /\ AtPoll' /\ status' = "STOP"
    BY <1>3 DEF SvInitDone, SvStopDone, Waited, Goto, AtPoll
  <2>2. Free'
    BY <1>0, <2>1, StartFree
  <2> QED
    BY <2>1, <2>2, PollFree
<1>4. CASE SvStart
  <2>1. AtPoll /\ status = "STOP" /\ AtPoll' /\ status' = "RUNNING" /\ prog' = "start"
    BY <1>4 DEF SvStart, Receives, Goto, AtPoll, Running, OcdRun
  <2>2. Free'
    BY <1>0, <2>1, StartFree
  <2> QED
    BY <2>1, <2>2, PollFree
<1>5. CASE SvBrk
  <2>1. Entering'
    BY <1>0, <1>5, BrkEntering
  <2> QED
    BY <1>5, <2>1 DEF SvBrk, Goto, BreakPlace, AtPoll
<1>6. CASE SvBrkDone
  <2>1. AtRest' /\ Told' /\ status' = "BRK32" /\ loc' = "ocd"
    BY <1>0, <1>6, BrkDone
  <2> QED
    BY <2>1 DEF BreakPlace, AtPoll
<1>7. CASE HostCont
  <2>1. AtPoll /\ AtPoll' /\ SvCont(status, iodata) /\ sregs' = sregs
    BY <1>7 DEF HostCont, Receives, Goto, AtPoll
  <2>2. status = "BRK32" => AtRest /\ Told
    BY <1>0, <2>1 DEF BreakPlace
  <2>3. ~(prog' = "cont") => Free'
    <3>1. ~(prog' = "cont") => status \in {"IORD", "IOWR"}
      BY <2>1 DEF SvCont, Running, OcdRun
    <3> QED
      BY <1>0, <2>1, <3>1 DEF BreakPlace
  <2> QED
    BY <1>0, <2>1, <2>2, <2>3, ContPlace
<1>8. CASE SvGetRegs
  <2>1. AtPoll /\ status = "BRK32" /\ loc' = "regs_wait" /\ OcdRun("get_regs") /\ sregs' = sregs
    BY <1>8 DEF SvGetRegs, Receives, Goto, AtPoll
  <2>2. AtRest /\ Told
    BY <1>0, <2>1 DEF BreakPlace
  <2>3. Exchange("get_regs")' /\ Told'
    BY <1>0, <2>1, <2>2, RegsBegin DEF Told
  <2> QED
    BY <2>1, <2>3 DEF BreakPlace, AtPoll
<1>9. CASE SvGetRegsRestore
  <2>1. loc = "regs_wait" /\ loc' = "esp_wait"
    BY <1>9 DEF SvGetRegsRestore, Waited, Goto
  <2>2. Exchange("get_regs") /\ Told
    BY <2>1 DEF BreakInv, Attended, BreakPlace
  <2>3. sregs' = [sregs EXCEPT !.gp = saved.gp] /\ Exchange("set_reg")'
    BY <1>0, <1>9, <2>2, RegsRestored
  <2>4. Told'
    <3>1. sregs \in ContextType
      BY DEF TypeInv, SvType
    <3> QED
      BY <1>0, <2>2, <2>3, <3>1 DEF Told, ContextType
  <2> QED
    BY <2>1, <2>3, <2>4 DEF BreakPlace, AtPoll
<1>10. CASE SvGetRegsDone
  <2>1. loc = "esp_wait" /\ loc' = "ocd" /\ status' = status /\ status = "BRK32"
    BY <1>10 DEF SvGetRegsDone, Waited, Goto, dataVars, StopInv
  <2>2. AtRest' /\ Told'
    BY <1>0, <1>10, RegsDone
  <2> QED
    BY <2>1, <2>2 DEF BreakPlace, AtPoll
<1>11. CASE IoBreakWrite
  <2>1. loc = "ocd" /\ stop /\ status = "RUNNING" /\ loc' = "iowr_wait"
    BY <1>11 DEF IoBreakWrite, IoBreak, Goto
  <2>2. Free'
    BY <1>0, <2>1, IoBreakFree
  <2> QED
    BY <2>1, <2>2 DEF BreakPlace, AtPoll
<1>12. CASE IoBreakWriteDone
  <2>1. loc = "iowr_wait" /\ loc' = "uart" /\ sregs' = sregs
    BY <1>12 DEF IoBreakWriteDone, Waited, Goto
  <2>2. Free' /\ AtPoll'
    BY <1>0, <2>1 DEF BreakInv, Attended, BreakPlace, AtPoll
  <2>3. CASE status' = "IOWR"
    BY <2>2, <2>3, PollFree
  <2>4. CASE status' # "IOWR"
    <3>1. status' = "RUNNING" /\ prog' = "start"
      BY <1>12, <2>4 DEF IoBreakWriteDone, SvCont, Running, OcdRun
    <3> QED
      BY <2>2, <3>1, PollFree
  <2> QED
    BY <2>3, <2>4
<1>13. CASE IoBreakRead
  <2>1. loc = "ocd" /\ stop /\ status = "RUNNING" /\ loc' = "uart"
    BY <1>13 DEF IoBreakRead, IoBreak, Goto
  <2>2. Free' /\ AtPoll'
    BY <1>0, <2>1, IoBreakFree DEF AtPoll
  <2>3. CASE status' = "IORD"
    BY <2>2, <2>3, PollFree
  <2>4. CASE status' # "IORD"
    <3>1. status' = "RUNNING" /\ prog' = "write_io"
      BY <1>13, <2>4 DEF IoBreakRead, SvCont, Running, OcdRun
    <3> QED
      BY <2>2, <3>1, PollFree
  <2> QED
    BY <2>3, <2>4
<1> QED
  BY <1>1, <1>2, <1>3, <1>4, <1>5, <1>6, <1>7, <1>8, <1>9, <1>10, <1>11, <1>12, <1>13
  DEF Supervisor, SvHandle, SvContinue

\* The whole invariant.
LEMMA BreakInvSupervisor ==
    ASSUME "real" \notin BreakModes, TypeInv, IoInv, StopInv, BreakInv, Supervisor
    PROVE  BreakInv'
<1>1. /\ cpu' = cpu /\ saved' = saved /\ nmi' = nmi /\ loc' # "boot"
      /\ loc = "brk_wait" => SvBrkDone
  BY FirmwareLeaves
<1>2. ~nmi'
  <2>1. CASE loc = "brk_wait"
    BY <1>1, <2>1, BrkDone
  <2> QED
    BY <1>1, <2>1 DEF BreakInv
<1>3. Attended' => BreakPlace'
  BY BreakPlaceSupervisor
<1> QED
  BY <1>1, <1>2, <1>3 DEF BreakInv, Free, InCycle

-----------------------------------------------------------------------------
(* The invariant *)

\* Power-up satisfies it: nothing has been interrupted.
LEMMA BreakInvInit == Init => BreakInv
BY DEF Init, BreakInv, OcdInit, ResetCpu, Free, InCycle, Attended, Read, Cycle

\* A step of none of the three.
LEMMA BreakInvStutter == ASSUME BreakInv, UNCHANGED vars PROVE BreakInv'
<1>1. /\ UNCHANGED << ocdVars, status, sregs >>
      /\ cpu' = cpu /\ saved' = saved /\ loc' = loc /\ nmi' = nmi /\ prog' = prog
  BY DEF vars, svVars, ocdVars, cpuVars
<1>2. \A p : Exchange(p) => Exchange(p)'
  BY <1>1, ExchangeStill
<1>3. (Entering => Entering') /\ (AtRest => AtRest') /\ (Told => Told') /\ (Free => Free')
  BY <1>1 DEF Entering, AtRest, Parked, Told, Free, Done, Fetched, In, Pushed, ocdVars
<1>4. ASSUME Attended PROVE BreakPlace'
  <2>1. BreakPlace
    BY <1>4 DEF BreakInv
  <2> QED
    BY <1>1, <1>2, <1>3, <2>1 DEF BreakPlace, AtPoll, ocdVars
<1> QED
  BY <1>1, <1>3, <1>4 DEF BreakInv, Attended, Free, InCycle

\* And every step keeps it.
LEMMA BreakInvNext ==
    ASSUME LockedOps = FALSE, "real" \notin BreakModes
    PROVE  TypeInv /\ IoInv /\ StopInv /\ BreakInv /\ [Next]_vars => BreakInv'
BY BreakInvSupervisor, BreakInvOcd, BreakInvCpu, BreakInvStutter DEF Next

\* Where the CPU is in an exchange.
LEMMA ExchangeLevel ==
    ASSUME TypeInv, NEW p \in Debugging, Exchange(p)
    PROVE  \E m \in 0 .. CyclesOf(p) : Done(p, m)
<1>1. PICK n : n = Caught(p, pc)
  OBVIOUS
<1>2. n \in 0 .. CyclesOf(p)
  BY <1>1, CaughtBound DEF Exchange
<1>3. (n > 0 /\ Done(p, n - 1)) \/ Done(p, n)
  BY <1>1 DEF Exchange, InStep
<1>4. n > 0 => n - 1 \in 0 .. CyclesOf(p)
  <2>1. CyclesOf(p) \in Nat
    BY DEF CyclesOf, Debugging
  <2> QED
    BY <1>2, <2>1
<1> QED
  BY <1>2, <1>3, <1>4

\* Only cont makes the CPU return from the handler.
LEMMA IretIsCont ==
    ASSUME TypeInv, BreakInv, Attended, cpu.level = "iret"
    PROVE  Exchange("cont")
<1>1. ASSUME NEW p \in Debugging, Exchange(p) PROVE p = "cont"
  <2>1. PICK m \in 0 .. CyclesOf(p) : Done(p, m)
    BY <1>1, ExchangeLevel
  <2>2. m \in Int
    BY <2>1 DEF CyclesOf
  <2>3. p \notin {"break", "get_regs", "set_reg"}
    BY <2>1, <2>2 DEF Done, In, Fetched
  <2> QED
    BY <2>3 DEF Debugging
<1>2. ~Entering /\ ~AtRest /\ ~Free
  BY DEF Entering, AtRest, Fetched, Free, Done, In
<1>3. ~Exchange("break") /\ ~Exchange("get_regs") /\ ~Exchange("set_reg")
  BY <1>1 DEF Debugging
<1>4. BreakPlace
  BY DEF BreakInv
<1>5. AtPoll \/ loc \in {"brk_wait", "regs_wait", "esp_wait", "iowr_wait"}
  BY DEF Attended, AtPoll, TypeInv, SvType, Locations
<1> QED
  BY <1>2, <1>3, <1>4, <1>5 DEF BreakPlace

\* Whenever the firmware is back at its polls with status BRK32, the CPU waits off its bus
\* at the handler's first instruction, and the host is told the program's flags, CS and
\* EIP, and the stack pointer is where the NMI left it: for every program without locked
\* cycles and every context it is interrupted in, when the host breaks in protected mode.
THEOREM BreaksAreTrue ==
    ASSUME LockedOps = FALSE, "real" \notin BreakModes
    PROVE  Spec => []BreakTruth
<1>1. TypeInv /\ BreakInv => BreakTruth
  <2> SUFFICES ASSUME TypeInv, BreakInv, AtPoll, status = "BRK32"
               PROVE  /\ cpu.phase = "held" /\ cpu.level = "handler" /\ cpu.mode = "prot"
                      /\ cpu.fetched = << >>
                      /\ sregs.eflags = saved.eflags /\ sregs.cs = saved.cs
                      /\ sregs.eip = saved.eip
                      /\ cpu.ctx.gp[ESP] = AddDword(saved.gp[ESP], -12)
    BY DEF BreakTruth
  <2>1. AtRest /\ Told
    BY DEF BreakInv, Attended, AtPoll, BreakPlace
  <2>2. cpu.fetched = << >>
    <3>1. cpu.fetched \in Seq(Word) /\ Len(cpu.fetched) = 0
      BY <2>1 DEF AtRest, Fetched, TypeInv, CpuInv, CpuType
    <3> QED
      BY <3>1, EmptySeq
  <2>3. cpu.ctx.gp[ESP] = AddDword(saved.gp[ESP], -12)
    <3>1. saved \in ContextType /\ ESP = 3
      BY CpuAssumption DEF TypeInv, CpuInv, ESP
    <3>2. cpu.ctx = [saved EXCEPT !.gp[ESP] = AddDword(@, -12)]
      BY <2>1 DEF AtRest, Pushed
    <3> QED
      BY <3>1, <3>2 DEF ContextType
  <2> QED
    BY <2>1, <2>2, <2>3 DEF AtRest, Parked, Fetched, Told
<1>2. TypeInv /\ IoInv /\ StopInv /\ BreakInv /\ [Next]_vars => BreakInv'
  BY BreakInvNext
<1> QED
  BY <1>1, <1>2, InitType, TypeInvNext, IoInvInit, IoInvNext, StopInvInit, StopInvNext,
     BreakInvInit, PTL DEF Spec

\* GETREGS reports the interrupted program's eight registers.
THEOREM RegistersAreTrue ==
    ASSUME LockedOps = FALSE, "real" \notin BreakModes
    PROVE  Spec => RegsTruth
<1>1. TypeInv /\ IoInv /\ BreakInv /\ [Next]_vars =>
        [loc = "regs_wait" /\ loc' = "esp_wait" => sregs'.gp = saved.gp]_vars
  <2> SUFFICES ASSUME TypeInv, IoInv, BreakInv, Next, loc = "regs_wait", loc' = "esp_wait"
               PROVE  sregs'.gp = saved.gp
    OBVIOUS
  <2>1. Supervisor
    BY DEF Next, OcdStep, Cpu, CpuControl, CpuBus, CpuNmi, CpuQuiet, svVars
  <2>2. SvGetRegsRestore
    BY <2>1 DEF Supervisor, SvHandle, SvContinue, Refuse, SvStop, SvStart, SvBrk, HostCont,
       SvSetIoData, SvGetRegs, SvInit, SvInitDone, NoCommand, SvStopDone, SvBrkDone,
       SvGetRegsDone, OcdRunning, IoBreakWrite, IoBreakWriteDone, IoBreakRead, IoBreak,
       Receives, Waited, Goto
  <2>3. Exchange("get_regs") /\ cpu' = cpu /\ saved' = saved
    BY <2>1, FirmwareLeaves DEF BreakInv, Attended, BreakPlace
  <2>4. sregs' = [sregs EXCEPT !.gp = saved.gp]
    BY <2>2, <2>3, RegsRestored
  <2> QED
    BY <2>4 DEF TypeInv, SvType, ContextType
<1>2. TypeInv /\ IoInv /\ StopInv /\ BreakInv /\ [Next]_vars => BreakInv'
  BY BreakInvNext
<1> QED
  BY <1>1, <1>2, InitType, TypeInvNext, IoInvInit, IoInvNext, StopInvInit, StopInvNext,
     BreakInvInit, PTL DEF Spec, RegsTruth

\* A break gives the program back the registers it took, whatever GETREGS did in between.
THEOREM DebugIsTransparent ==
    ASSUME LockedOps = FALSE, "real" \notin BreakModes
    PROVE  Spec => DebugTransparent
<1>1. TypeInv /\ BreakInv /\ [Next]_vars =>
        [cpu.level = "iret" /\ cpu'.level = "prog" /\ cpu'.phase # "reset" /\ Attended =>
            cpu'.ctx = saved]_vars
  <2> SUFFICES ASSUME TypeInv, BreakInv, Next, cpu.level = "iret", cpu'.level = "prog",
                      cpu'.phase # "reset", Attended
               PROVE  cpu'.ctx = saved
    OBVIOUS
  <2>1. ~Supervisor
    BY FirmwareLeaves
  <2>2. ~OcdStep
    <3> SUFFICES ASSUME OcdStep PROVE FALSE
      OBVIOUS
    <3>1. cpu \in CpuType /\ cpu' = OcdPinsDriven
      BY DEF TypeInv, CpuInv, OcdStep
    <3>2. ~reset'
      BY <3>1 DEF OcdPinsDriven, ResetCpu
    <3>3. T1Over = cpu \/ T1Over = [cpu EXCEPT !.phase = "T2"]
      BY DEF T1Over
    <3>4. T1Over \in CpuType /\ T1Over.level = cpu.level
      BY <3>1, <3>3 DEF CpuType, Phases
    <3>5. cpu' = T1Over \/ cpu' = [T1Over EXCEPT !.nmi = TRUE]
      BY <3>1, <3>2 DEF OcdPinsDriven
    <3> QED
      BY <3>4, <3>5 DEF CpuType
  <2>3. Cpu /\ "cont" \in Debugging
    BY <2>1, <2>2 DEF Next, Debugging
  <2>4. Exchange("cont")'
    BY <2>3, IretIsCont, ExchangeCpu
  <2>5. saved' = saved
    BY <2>3 DEF Cpu, CpuControl, CpuBus, CpuNmi, CpuTakeNmi
  <2>6. PICK m : m \in Int /\ m >= 0 /\ Done("cont", m)'
    <3>1. \A i \in Span("cont") : Caught("cont", i) \in 0 .. CyclesOf("cont")
      BY <2>3, CaughtBound
    <3>2. pc' \in Span("cont") /\ InStep("cont")'
      BY <2>4 DEF Exchange
    <3>3. PICK n : n = Caught("cont", pc)'
      OBVIOUS
    <3>4. n \in Int /\ n >= 0
      BY <3>1, <3>2, <3>3 DEF CyclesOf
    <3>5. (n > 0 /\ Done("cont", n - 1)') \/ Done("cont", n)'
      BY <3>2, <3>3 DEF InStep
    <3>6. n > 0 => n - 1 \in Int /\ n - 1 >= 0
      BY <3>4
    <3> QED
      BY <3>4, <3>5, <3>6
  <2>7. m >= 10
    BY <2>6 DEF Done, In, Fetched
  <2>8. cpu'.ctx = saved'
    BY <2>6, <2>7 DEF Done
  <2> QED
    BY <2>5, <2>8
<1>2. TypeInv /\ IoInv /\ StopInv /\ BreakInv /\ [Next]_vars => BreakInv'
  BY BreakInvNext
<1> QED
  BY <1>1, <1>2, InitType, TypeInvNext, IoInvInit, IoInvNext, StopInvInit, StopInvNext,
     BreakInvInit, PTL DEF Spec, DebugTransparent
-----------------------------------------------------------------------------
(* Whose the bus is *)

\* The program runs, as far as the firmware knows, and no break is being undone.
Underway == AtPoll /\ status = "RUNNING" /\ ~(prog = "cont" /\ pc \in Span("cont"))

\* Up to its WAITIO the program has to let the bus go, with the CPU in the I/O cycle
\* before or in none; there it has.
LetsGo ==
    /\ pc < WaitIoAt(prog) =>
          ~waiting /\ cpu.phase # "T1" /\ (cpu.phase = "T2" => ~cpu.cur.mio)
    /\ pc = WaitIoAt(prog) => ~en

\* BusOwner is not inductive: it needs that the OCD has let the bus go where it waits for
\* the program, and still when a break begins: only an I/O cycle could have taken it.
BusInv ==
    /\ Ports = {} /\ cpu.level = "prog" /\ InCycle => cpu.cur.mio
    /\ Underway => LetsGo
    /\ loc = "brk_wait" /\ prog = "break" /\ pc \in {1, 2} /\ Ports = {} => ~en

LEMMA BusInvInit == Init => BusInv
BY DEF Init, BusInv, OcdInit, ResetCpu, InCycle, Underway, AtPoll

\* What a program that is under way executes, up to its WAITIO.
LEMMA UnderwayOps ==
    ASSUME TypeInv, IoInv, Underway
    PROVE  /\ prog \in Releasing /\ WaitIoAt(prog) \in {3, 24}
           /\ Current.op \notin Branches \cup { "BA" } /\ pc \in Nat
           /\ pc = WaitIoAt(prog) => Current.op = "WAITIO"
           /\ pc < WaitIoAt(prog) =>
                 /\ pc \in {1, 2} /\ WaitIoAt(prog) = 3
                 /\ Current.op = IF pc = 2 THEN "DETACH"
                                 ELSE IF prog = "start" THEN "START" ELSE "STD"
<1>1. prog \in Releasing
  BY DEF IoInv, Underway
<1>2. ReleasesAt(Code[prog], WaitIoAt(prog)) /\ WaitIoAt(prog) \in {3, 24}
  BY <1>1, ReleasingCode
<1>3. pc \in 1 .. Len(Code[prog]) /\ Len(Code[prog]) = WaitIoAt(prog) + 3
  BY <1>2 DEF TypeInv, OcdTypeOK, ReleasesAt
<1>4. Current.op \notin Branches \cup { "BA" } /\ pc \in Nat
  <2>1. Current.op \notin Branches /\ pc \in Nat
    BY <1>2, <1>3 DEF ReleasesAt, Current
  <2>2. Current.op # "BA"
    BY CurrentType DEF TypeInv, Instruction, Plain, Branches
  <2> QED
    BY <2>1, <2>2
<1>5. pc = WaitIoAt(prog) => Current.op = "WAITIO"
  BY <1>2 DEF ReleasesAt, Current, Do, Ins
<1>6. ASSUME pc < WaitIoAt(prog)
      PROVE  /\ pc \in {1, 2} /\ WaitIoAt(prog) = 3
             /\ Current.op = IF pc = 2 THEN "DETACH"
                             ELSE IF prog = "start" THEN "START" ELSE "STD"
  <2>1. prog \in {"start", "write_io"}
    <3> SUFFICES ASSUME prog = "cont" PROVE FALSE
      BY <1>1 DEF Releasing
    <3>1. pc \in 24 .. 27
      BY <1>1, ReleasingOps DEF Underway
    <3> QED
      BY <1>6, <3>1 DEF WaitIoAt
  <2>2. pc \in {1, 2} /\ WaitIoAt(prog) = 3
    BY <1>3, <1>6, <2>1 DEF WaitIoAt
  <2> QED
    BY <2>1, <2>2, CalmCode DEF Current, From, Ins
<1> QED
  BY <1>1, <1>2, <1>4, <1>5, <1>6

\* The OCD on its way to the next I/O cycle.
LEMMA LetsGoOcd ==
    ASSUME TypeInv, IoInv, Underway, LetsGo, OcdStep
    PROVE  LetsGo'
<1>1. /\ prog' = prog /\ cpu \in CpuType /\ cpu' = OcdPinsDriven
      /\ OcdWait(Pins) \/ OcdRetire(Pins)
  BY DEF OcdStep, OcdWait, OcdRetire, TypeInv, CpuInv
<1>2. PICK w \in {3, 24} : w = WaitIoAt(prog) /\ w = WaitIoAt(prog')
  BY <1>1, UnderwayOps
<1>3. /\ OcdWait(Pins) => pc' = pc
      /\ OcdRetire(Pins) => pc' = pc + 1
  BY UnderwayOps DEF OcdWait, OcdRetire, DoStore, NextPc, BranchTaken, Branches
<1>4. CASE pc > w
  <2>1. pc' > w /\ pc' \in Nat
    BY <1>1, <1>3, <1>4, UnderwayOps
  <2> QED
    BY <1>2, <2>1 DEF LetsGo
<1>5. CASE pc = w
  <2>1. CASE OcdWait(Pins)
    <3>1. ~en'
      BY <1>2, <1>5, <2>1, UnderwayOps DEF OcdWait, ExecEn, LetsGo
    <3>2. pc' = w
      BY <1>3, <1>5, <2>1
    <3> QED
      BY <1>2, <3>1, <3>2 DEF LetsGo
  <2>2. CASE OcdRetire(Pins)
    <3>1. pc' = w + 1
      BY <1>3, <1>5, <2>2
    <3> QED
      BY <1>2, <3>1 DEF LetsGo
  <2> QED
    BY <1>1, <2>1, <2>2
<1>6. CASE pc < w
  <2>1. /\ pc \in {1, 2} /\ w = 3
        /\ Current.op \in { "DETACH", "START", "STD" }
        /\ pc = 2 => Current.op = "DETACH"
    BY <1>2, <1>6, UnderwayOps
  <2>2. OcdRetire(Pins) /\ pc' = pc + 1
    BY <1>1, <1>3, <2>1 DEF OcdWait, ExecWait
  <2>3. ~waiting'
    BY <2>2 DEF OcdRetire
  <2>4. pc = 2 => ~en'
    BY <2>1, <2>2 DEF OcdRetire, DoStore, ExecEn, WaitOps
  <2>5. cpu'.phase # "T1" /\ (cpu'.phase = "T2" => ~cpu'.cur.mio)
    BY <1>1, <1>2, <1>6, PinsKeepCycle DEF LetsGo
  <2> QED
    BY <1>2, <2>1, <2>2, <2>3, <2>4, <2>5 DEF LetsGo
<1> QED
  BY <1>2, <1>4, <1>5, <1>6, UnderwayOps

\* The end of cont lets it go.
LEMMA ContLetsGo ==
    ASSUME TypeInv, Exchange("cont"), OcdStep, pc' \notin Span("cont")
    PROVE  pc' = 24 /\ ~en'
<1>1. pc \in 1 .. 23 /\ prog = "cont" /\ "cont" \in Debugging /\ pc \in Span("cont")
  BY DEF Exchange, Span, Debugging
<1>2. Shape("cont", pc, Current.op, Code["cont"][pc + 1].op)
  BY <1>1, ShapeOf DEF Current
<1>3. Current.op \notin { "BA", "BEQ", "BNE" }
  BY <1>2 DEF Shape, Loads
<1>4. OcdRetire(Pins) /\ pc' = pc + 1
  <2>1. ~OcdWait(Pins)
    BY <1>1 DEF OcdWait
  <2> QED
    BY <1>3, <2>1 DEF OcdStep, OcdRetire, DoStore, NextPc, BranchTaken
<1>5. pc = 23
  BY <1>1, <1>4 DEF Span
<1>6. Current.op = "DETACH"
  BY <1>1, <1>5, ContText DEF Current, Do, Ins
<1>7. ~en'
  BY <1>4, <1>6 DEF OcdRetire, DoStore, ExecEn, WaitOps
<1>8. pc' = 24
  BY <1>4, <1>5
<1> QED
  BY <1>7, <1>8

\* The OCD's step.
LEMMA BusInvOcd ==
    ASSUME TypeInv, IoInv, StopInv, BreakInv, BusInv, OcdStep
    PROVE  BusInv'
<1>1. UNCHANGED << loc, status, prog >>
  BY DEF OcdStep, svVars, OcdWait, OcdRetire
<1>2. Ports = {} /\ cpu'.level = "prog" /\ InCycle' => cpu'.cur.mio
  BY ProgramCycleOcd DEF BusInv
<1>3. ASSUME Underway' PROVE LetsGo'
  <2>1. CASE Underway
    BY <2>1, LetsGoOcd DEF BusInv
  <2>2. CASE ~Underway
    <3>1. /\ AtPoll /\ status = "RUNNING" /\ prog = "cont"
          /\ pc \in Span("cont") /\ pc' \notin Span("cont")
      BY <1>1, <1>3, <2>2 DEF Underway, AtPoll
    <3>2. Exchange("cont")
      BY <3>1 DEF BreakInv, BreakPlace, Attended, AtPoll
    <3>3. pc' = 24 /\ ~en'
      BY <3>1, <3>2, ContLetsGo
    <3> QED
      BY <1>1, <3>1, <3>3 DEF LetsGo, WaitIoAt
  <2> QED
    BY <2>1, <2>2
<1>4. ASSUME loc' = "brk_wait", prog' = "break", pc' \in {1, 2}, Ports = {} PROVE ~en'
  <2>1. loc = "brk_wait" /\ prog = "break" /\ (Entering \/ Exchange("break"))
    BY <1>1, <1>4 DEF BreakInv, BreakPlace, Attended
  <2>2. ~Exchange("break")
    <3> SUFFICES ASSUME Exchange("break") PROVE FALSE
      OBVIOUS
    <3>1. Exchange("break")'
      BY ExchangeOcd DEF Debugging
    <3> QED
      BY <1>4, <3>1 DEF Exchange, Span
  <2>3. pc \in {1, 2} /\ Current.op = IF pc = 1 THEN "NMI" ELSE "WAITLOCK"
    BY <2>1, <2>2, EntryCode DEF Entering, Current
  <2>4. ~en
    BY <1>4, <2>1, <2>3 DEF BusInv
  <2>5. OcdRetire(Pins) => pc' = pc + 1
    BY <2>3 DEF OcdRetire, DoStore, NextPc, BranchTaken
  <2>6. OcdRetire(Pins) => Current.op = "NMI"
    BY <1>4, <2>3, <2>5
  <2> QED
    BY <2>3, <2>4, <2>6 DEF OcdStep, OcdWait, OcdRetire, DoStore, ExecEn, WaitOps
<1> QED
  BY <1>2, <1>3, <1>4 DEF BusInv

\* A program that has no port does no I/O.
LEMMA NoIoCycle ==
    ASSUME Ports = {}, NEW c \in ProgramCycles
    PROVE  c.mio
BY DEF ProgramCycles, Read, Cycle

\* No cycle begins under an OCD that is not waiting.
LEMMA NoNewCycle ==
    ASSUME TypeInv, Cpu, ~waiting, cpu.phase # "T1"
    PROVE  ~InCycle'
<1>0. cpu \in CpuType
  BY DEF TypeInv, CpuInv
<1>1. CASE CpuControl
  <2>1. \/ cpu' = [cpu EXCEPT !.phase = "idle"]
        \/ cpu' = [cpu EXCEPT !.phase = "held"]
        \/ cpu' = [cpu EXCEPT !.mode = "prot"] /\ cpu.phase = "idle"
    BY <1>1 DEF CpuControl, CpuRelease, CpuEnterProtected, CpuHold, CpuUnhold
  <2> QED
    BY <1>0, <2>1 DEF CpuType, InCycle
<1>2. ~CpuStart
  BY StartForms DEF StartCycle, OcdKeepsUp
<1>3. CASE CpuFinish
  BY <1>3, FinishIdle DEF InCycle
<1>4. CASE CpuNmi
  <2>1. cpu.phase = "idle" /\ \E c \in Contexts :
           cpu' = [cpu EXCEPT !.level = "nmi", !.nmi = FALSE, !.ctx = c, !.k = 0, !.got = << >>]
    BY <1>4 DEF CpuNmi, CpuTakeNmi
  <2> QED
    BY <1>0, <2>1 DEF CpuType, InCycle
<1> QED
  BY <1>1, <1>2, <1>3, <1>4 DEF Cpu, CpuBus, CpuT2

\* The CPU's step.
LEMMA BusInvCpu ==
    ASSUME TypeInv, BusInv, Cpu
    PROVE  BusInv'
<1>1. UNCHANGED << prog, pc, waiting, en, loc, status >>
  BY DEF Cpu, CpuControl, CpuBus, CpuNmi, CpuQuiet, ocdVars, svVars
<1>2. Ports = {} /\ cpu'.level = "prog" /\ InCycle' => cpu'.cur.mio
  BY CpuAwake, NoIoCycle DEF BusInv
<1>3. Underway' => LetsGo'
  BY <1>1, NoNewCycle DEF BusInv, Underway, AtPoll, LetsGo, InCycle
<1> QED
  BY <1>1, <1>2, <1>3 DEF BusInv

\* From an I/O cycle the program goes on.
LEMMA GrantLetsGo ==
    ASSUME Stalled, cpu' = cpu, NEW st \in {"IORD", "IOWR"}, NEW word, SvCont(st, word)
    PROVE  LetsGo'
<1>1. prog' \in {"start", "write_io"} /\ pc' = 1 /\ ~waiting'
  BY DEF SvCont, Running, OcdRun
<1> QED
  BY <1>1 DEF LetsGo, WaitIoAt, Stalled

\* The host breaks a program that the OCD has let go.
LEMMA BrkFindsNoBus ==
    ASSUME TypeInv, IoInv, BreakInv, BusInv, SvBrk, Ports = {}
    PROVE  ~en
<1>1. AtPoll /\ status = "RUNNING" /\ Released
  BY DEF SvBrk, Receives, AtPoll
<1>2. ~(prog = "cont" /\ pc \in Span("cont"))
  <2> SUFFICES ASSUME prog = "cont", pc \in Span("cont") PROVE FALSE
    OBVIOUS
  <2>1. Shape("cont", pc, Current.op, Code["cont"][pc + 1].op) /\ "cont" \in Debugging
    BY ShapeOf DEF Current, Debugging
  <2>2. Current.op = "EXIT"
    BY <1>1, <2>1 DEF Shape, Released, Loads
  <2>3. pc = 23
    BY <2>1, <2>2 DEF Shape, Span
  <2> QED
    BY <2>2, <2>3, ContText DEF Current, Do, Ins
<1>3. Underway /\ LetsGo
  BY <1>1, <1>2 DEF Underway, BusInv
<1>4. ~(pc < WaitIoAt(prog))
  BY <1>1, <1>3, UnderwayOps DEF Released
<1>5. ~(pc > WaitIoAt(prog))
  <2> SUFFICES ASSUME pc > WaitIoAt(prog) PROVE FALSE
    OBVIOUS
  <2>1. Stalled
    BY <1>3, UnderwayOps DEF IoInv, Learnt
  <2>2. Free
    BY <1>1, <1>2 DEF BreakInv, Attended, AtPoll, BreakPlace
  <2> QED
    BY <2>1, <2>2 DEF BusInv, Stalled, Free, InCycle
<1> QED
  BY <1>3, <1>4, <1>5, UnderwayOps DEF LetsGo

\* The firmware's step.
LEMMA BusInvSupervisor ==
    ASSUME TypeInv, IoInv, StopInv, BreakInv, BusInv, Supervisor
    PROVE  BusInv'
<1>0. cpu' = cpu /\ (SvHandle \/ SvContinue) /\ (loc = "brk_wait" => SvBrkDone)
  BY FirmwareLeaves DEF Supervisor
<1>1. ASSUME Underway' PROVE LetsGo'
  <2>1. CASE Refuse \/ NoCommand \/ OcdRunning \/ SvSetIoData
    <3>1. AtPoll /\ UNCHANGED << ocdVars, status >>
      BY <2>1 DEF Refuse, NoCommand, OcdRunning, SvSetIoData, Receives, dataVars, AtPoll
    <3>2. UNCHANGED << prog, pc, waiting, en >>
      BY <3>1 DEF ocdVars
    <3> QED
      BY <1>0, <1>1, <3>1, <3>2 DEF BusInv, Underway, LetsGo
  <2>2. CASE SvInit \/ SvStop \/ SvBrk \/ SvGetRegs \/ SvGetRegsRestore \/ IoBreakWrite
    BY <1>1, <2>2 DEF SvInit, SvStop, SvBrk, SvGetRegs, SvGetRegsRestore, IoBreakWrite,
       Goto, Underway, AtPoll
  <2>3. CASE SvInitDone \/ SvStopDone \/ SvBrkDone
    BY <1>1, <2>3 DEF SvInitDone, SvStopDone, SvBrkDone, Underway
  <2>4. CASE SvGetRegsDone
    BY <1>1, <2>4 DEF SvGetRegsDone, Waited, dataVars, StopInv, Underway
  <2>5. CASE SvStart
    <3>1. prog' = "start" /\ pc' = 1 /\ ~waiting'
      BY <2>5 DEF SvStart, Running, OcdRun
    <3>2. cpu.phase = "reset"
      <4>1. ResetProgress /\ stop
        BY <2>5 DEF SvStart, Receives, StopInv, AtPoll
      <4> QED
        BY <4>1 DEF ResetProgress, IoInv
    <3> QED
      BY <1>0, <3>1, <3>2 DEF LetsGo, WaitIoAt
  <2>6. CASE HostCont
    <3>1. SvCont(status, iodata) /\ AtPoll
      BY <2>6 DEF HostCont, Receives, AtPoll
    <3>2. status # "BRK32"
      BY <1>1, <3>1 DEF SvCont, Running, OcdRun, Underway, Span
    <3>3. status \in {"IORD", "IOWR"}
      BY <3>1, <3>2 DEF SvCont
    <3>4. Stalled
      BY <3>1, <3>3 DEF IoInv, Reported
    <3> QED
      BY <1>0, <3>1, <3>3, <3>4, GrantLetsGo
  <2>7. CASE IoBreakWriteDone
    <3>1. Stalled
      BY <2>7 DEF IoBreakWriteDone, Waited, IoInv, Fetching
    <3>2. \E word : SvCont("IOWR", word)
      BY <1>1, <2>7 DEF IoBreakWriteDone, Underway, SvCont
    <3> QED
      BY <1>0, <3>1, <3>2, GrantLetsGo
  <2>8. CASE IoBreakRead
    <3>1. Stalled
      BY <2>8, IoBreakKnows DEF IoBreakRead
    <3>2. \E word : SvCont("IORD", word)
      BY <1>1, <2>8 DEF IoBreakRead, Underway, SvCont
    <3> QED
      BY <1>0, <3>1, <3>2, GrantLetsGo
  <2> QED
    BY <1>0, <2>1, <2>2, <2>3, <2>4, <2>5, <2>6, <2>7, <2>8 DEF SvHandle, SvContinue
<1>2. ASSUME loc' = "brk_wait", Ports = {} PROVE ~en'
  <2>1. SvBrk
    BY <1>0, <1>2 DEF SvHandle, SvContinue, Refuse, NoCommand, OcdRunning, SvSetIoData, SvInit,
       SvStop, SvGetRegs, SvGetRegsRestore, IoBreakWrite, SvInitDone, SvStopDone, SvBrkDone,
       SvGetRegsDone, SvStart, HostCont, IoBreakWriteDone, IoBreakRead, Goto
  <2> QED
    BY <1>2, <2>1, BrkFindsNoBus DEF SvBrk, OcdRun
<1> QED
  BY <1>0, <1>1, <1>2 DEF BusInv, InCycle

LEMMA BusInvNext ==
    TypeInv /\ IoInv /\ StopInv /\ BreakInv /\ BusInv /\ [Next]_vars => BusInv'
<1>1. ASSUME BusInv, UNCHANGED vars PROVE BusInv'
  BY <1>1 DEF vars, cpuVars, ocdVars, svVars, BusInv, Underway, AtPoll, LetsGo, InCycle
<1> QED
  BY <1>1, BusInvSupervisor, BusInvOcd, BusInvCpu DEF Next

\* While its cycle goes on an exchange has the CPU, not the program.
LEMMA ExchangeTakes ==
    ASSUME TypeInv, NEW p \in Debugging, Exchange(p), cpu.phase = "T2"
    PROVE  en /\ cpu.level # "prog"
<1>1. PICK n : n = Caught(p, pc)
  OBVIOUS
<1>2. n \in 0 .. CyclesOf(p)
  BY <1>1, CaughtBound DEF Exchange
<1>3. n > 0 /\ Done(p, n - 1)
  BY <1>1 DEF Exchange, InStep
<1>4. n \in 1 .. CyclesOf(p) /\ CyclesOf(p) \in Nat
  BY <1>2, <1>3 DEF CyclesOf, Debugging
<1>5. PICK m \in Nat : m = n - 1
  BY <1>4
<1>6. p = "cont" => m < 10
  BY <1>4, <1>5 DEF CyclesOf
<1>7. Done(p, m) /\ en
  BY <1>3, <1>5 DEF Exchange
<1>8. CASE p = "cont"
  <2>1. m < 4 \/ m \in 4 .. 9
    BY <1>6, <1>8
  <2> QED
    BY <1>7, <1>8, <2>1 DEF Done, In, Fetched
<1>9. CASE p # "cont"
  BY <1>7, <1>9 DEF Done, In, Fetched, Debugging
<1> QED
  BY <1>8, <1>9

\* Memory answers none of the cycles of a break, and the OCD none of the program's memory
\* cycles, unless a break took one of its I/O cycles: for every program without locked
\* cycles, when the host breaks in protected mode.
THEOREM BusHasOneOwner ==
    ASSUME LockedOps = FALSE, "real" \notin BreakModes
    PROVE  Spec => BusOwner
<1>1. TypeInv /\ IoInv /\ StopInv /\ BreakInv /\ BusInv /\ [Next]_vars =>
        [CycleEnds /\ cpu.cur.mio /\ Attended =>
            /\ cpu.level # "prog" => en
            /\ en => cpu.level # "prog" \/ BreakTookIo]_vars
  <2> SUFFICES ASSUME TypeInv, IoInv, StopInv, BreakInv, BusInv, Next, CycleEnds,
                      cpu.cur.mio, Attended
               PROVE  /\ cpu.level # "prog" => en
                      /\ en => cpu.level # "prog" \/ BreakTookIo
    OBVIOUS
  <2>0. cpu.phase = "T2" /\ ~reset /\ ~Stalled /\ BreakPlace
    BY EndOfCycle DEF BreakInv, CycleEnds
  <2>1. ASSUME NEW p \in Debugging, Exchange(p) PROVE en /\ cpu.level # "prog"
    BY <2>0, <2>1, ExchangeTakes
  <2>2. CASE loc = "brk_wait"
    <3>1. CASE Exchange("break")
      BY <2>1, <3>1 DEF Debugging
    <3>2. CASE Entering
      <4>1. cpu.level = "prog" /\ prog = "break" /\ pc \in {1, 2}
        BY <2>0, <3>2 DEF Entering
      <4>2. Ports = {} => ~en
        BY <2>2, <4>1 DEF BusInv
      <4> QED
        BY <2>2, <4>1, <4>2 DEF BreakTookIo
    <3> QED
      BY <2>0, <2>2, <3>1, <3>2 DEF BreakPlace
  <2>3. CASE loc \in {"regs_wait", "esp_wait"}
    BY <2>0, <2>1, <2>3 DEF BreakPlace, Debugging
  <2>4. loc # "iowr_wait"
    BY <2>0 DEF IoInv, Fetching
  <2>5. CASE AtPoll
    <3>1. status \in {"RUNNING"}
      <4>1. status # "STOP"
        BY <2>0, <2>5 DEF StopInv, ResetProgress
      <4>2. status \notin {"IORD", "IOWR"}
        BY <2>0, <2>5 DEF IoInv, Reported
      <4>3. status \notin {"BRK16", "BRK32"}
        BY <2>0, <2>5 DEF BreakPlace, AtRest, Parked
      <4> QED
        BY <4>1, <4>2, <4>3 DEF TypeInv, SvType, Statuses
    <3>2. CASE prog = "cont" /\ pc \in Span("cont")
      BY <2>0, <2>1, <2>5, <3>1, <3>2 DEF BreakPlace, Debugging
    <3>3. CASE ~(prog = "cont" /\ pc \in Span("cont"))
      <4>1. Underway /\ LetsGo /\ Free
        BY <2>0, <2>5, <3>1, <3>3 DEF Underway, BusInv, BreakPlace
      <4>2. ~(pc < WaitIoAt(prog))
        BY <2>0, <4>1 DEF LetsGo
      <4>3. ~(pc > WaitIoAt(prog))
        BY <2>0, <4>1, UnderwayOps DEF IoInv, Learnt
      <4>4. pc = WaitIoAt(prog)
        BY <4>1, <4>2, <4>3, UnderwayOps
      <4> QED
        BY <4>1, <4>4 DEF LetsGo, Free
    <3> QED
      BY <3>2, <3>3
  <2> QED
    BY <2>2, <2>3, <2>4, <2>5 DEF Attended, AtPoll, TypeInv, SvType, Locations
<1>2. TypeInv /\ IoInv /\ StopInv /\ BreakInv /\ [Next]_vars => BreakInv'
  BY BreakInvNext
<1> QED
  BY <1>1, <1>2, InitType, TypeInvNext, IoInvInit, IoInvNext, StopInvInit, StopInvNext,
     BreakInvInit, BusInvInit, BusInvNext, PTL DEF Spec, BusOwner
=============================================================================
