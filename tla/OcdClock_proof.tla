--------------------------- MODULE OcdClock_proof ---------------------------
(***************************************************************************)
(* What holds of the bus at the clock, for every gap the CPU leaves before *)
(* an I/O cycle, and from two T states on for the I/O cycles themselves.   *)
(*                                                                         *)
(* The programs are divided into places, by what has become of the CPU's   *)
(* cycle when an instruction there is executed; Leads says how the text of *)
(* the programs takes the OCD from one place to the next, and is proved of *)
(* every instruction of every program.  ClockInv says for every place what *)
(* the pins are and how old the cycle may be in each state of the OCD,     *)
(* DeafInv how long the OCD has been without the bus by the next WAITIO.   *)
(***************************************************************************)
EXTENDS OcdClock, TLAPS

-----------------------------------------------------------------------------
(* Places in the programs *)

\* What has become of the CPU's cycle when instruction i of program p is executed:
\* "off"     the FPGA has just been powered up
\* "reset"   the CPU is about to be reset
\* "start"   it is in reset
\* "held"    its cycle has been caught by the last wait and not answered yet
\* "due"     its cycle has been answered, the next one is about to be caught
\* "detach"  its cycle has been answered, or reset released, and the bus is about to be
\* "loose"   it has its bus
\* "drain"   its last cycle has been answered and HOLD is asserted next
\* "parked"  it has acknowledged HOLD
\* "begin"   the same, and the first cycle is about to be caught
Place(p, i) ==
    CASE p = "blank" -> "off"
      [] p = "reset" -> "reset"
      [] p = "read_io" -> "held"
      [] p = "start" -> IF i <= 1 THEN "start" ELSE IF i = 2 THEN "detach"
                        ELSE IF i = 3 THEN "loose" ELSE "held"
      [] p = "write_io" -> IF i <= 1 THEN "held" ELSE IF i = 2 THEN "detach"
                           ELSE IF i = 3 THEN "loose" ELSE "held"
      [] p = "break" -> IF i <= 2 THEN "loose"
                        ELSE IF \/ i \in 11 .. 34 /\ (i - 11) % 3 = 2
                                \/ i \in {36, 39, 59}
                                \/ i \in 40 .. 51 /\ (i - 40) % 3 = 2 THEN "due"
                        ELSE IF i \in {54, 55, 62, 63} THEN "drain"
                        ELSE IF i \in {56, 64} THEN "parked" ELSE "held"
      [] p = "cont" -> IF i <= 3 THEN "begin" ELSE IF i = 23 THEN "detach"
                       ELSE IF i = 24 THEN "loose"
                       ELSE IF i < 23 /\ i % 2 = 1 THEN "due" ELSE "held"
      [] p = "get_regs" -> IF i <= 3 THEN "begin"
                           ELSE IF \/ i < 14 /\ i % 2 = 1
                                   \/ i \in 14 .. 58 /\ (i - 14) % 3 = 2 THEN "due"
                           ELSE IF i = 61 THEN "drain" ELSE IF i = 62 THEN "parked"
                           ELSE "held"
      [] p = "set_reg" -> IF i <= 2 THEN "begin" ELSE IF i = 12 THEN "drain"
                          ELSE IF i = 13 THEN "parked"
                          ELSE IF i % 2 = 0 THEN "due" ELSE "held"

Here == Place(prog, pc)

-----------------------------------------------------------------------------
(* The text of the programs *)

\* What an instruction that does not exit does with the cycle.
Inner == {"LDI", "LDD", "LDAL", "LDAH", "LDWR", "LDCMP", "CMP", "BEQ"}

Leads(op, from, to) ==
    \/ from = "reset" /\ op \in {"RESET", "ATTACH"} /\ to = "reset"
    \/ from = "start" /\ op = "START" /\ to = "detach"
    \/ from = "detach" /\ op = "DETACH" /\ to = "loose"
    \/ from = "loose" /\ op = "NMI" /\ to = "loose"
    \/ from = "loose" /\ op \in {"WAITLOCK", "WAITIO"} /\ to = "held"
    \/ from = "held" /\ op \in Inner /\ to = "held"
    \/ from = "held" /\ op \in Answers /\ to \in {"due", "drain", "detach"}
    \/ from = "due" /\ op = "WAITADS" /\ to = "held"
    \/ from = "drain" /\ op \in {"LDI", "CLR"} /\ to = "drain"
    \/ from = "drain" /\ op = "HOLD" /\ to = "parked"
    \/ from = "begin" /\ op = "LDI" /\ to = "begin"
    \/ from = "begin" /\ op = "WAITADS" /\ to = "held"

\* Where a program may end.
Ends(p, i, place) ==
    \/ p = "blank" /\ place = "off"
    \/ p = "reset" /\ place = "reset" /\ i = 3
    \/ p \in Emulating \cup {"read_io"} /\ place = "held"
    \/ p \in Halted /\ place = "parked"

\* The instructions that may come after instruction i.
After(p, i) == {i + 1} \cup IF Code[p][i].op = "BEQ" THEN {Code[p][i].v} ELSE {}

\* Instruction i of program p is where the places say it is.
Placed(p, i) ==
    /\ Code[p][i].op = "EXIT" => Ends(p, i, Place(p, i))
    /\ Code[p][i].op # "EXIT" =>
          \A j \in After(p, i) : /\ j \in 1 .. Len(Code[p])
                                 /\ Leads(Code[p][i].op, Place(p, i), Place(p, j))

\* The assembler keeps the length of a program, and instructions other than BNE.
LEMMA SynthLen ==
    ASSUME NEW s, NEW n \in Nat, DOMAIN s = 1 .. n
    PROVE  Len(Synth(s)) = n
BY DEF Synth

LEMMA Kept ==
    ASSUME NEW s, NEW i \in DOMAIN s, NEW op, NEW a, NEW b, NEW v,
           s[i] = Ins(op, a, b, v), op # "BNE"
    PROVE  Synth(s)[i].op = op /\ Synth(s)[i].v = v
BY DEF Synth, Ins, SynthOp

\* An instruction that neither exits nor branches leads to the next one.
LEMMA StepPlaced ==
    ASSUME NEW p, NEW i, i + 1 \in 1 .. Len(Code[p]), Code[p][i].op \notin {"EXIT", "BEQ"},
           Leads(Code[p][i].op, Place(p, i), Place(p, i + 1))
    PROVE  Placed(p, i)
BY DEF Placed, After

LEMMA BlankPlaced == Len(Code["blank"]) = 1 /\ Placed("blank", 1)
BY DEF Code, Placed, Ends, Place, Do, Ins

LEMMA ResetText ==
    /\ Len(Code["reset"]) = 3
    /\ Code["reset"][1].op = "RESET" /\ Code["reset"][2].op = "ATTACH"
    /\ Code["reset"][3].op = "EXIT"
<1>1. DOMAIN PrgmReset = 1 .. 3
  BY DEF PrgmReset
<1>2. PrgmReset[1] = Do("RESET") /\ PrgmReset[2] = Do("ATTACH") /\ PrgmReset[3] = Do("EXIT")
  BY DEF PrgmReset
<1>3. Code["reset"] = Synth(PrgmReset)
  BY DEF Code
<1>4. Len(Code["reset"]) = 3
  BY <1>1, <1>3, SynthLen
<1>5. /\ Code["reset"][1].op = "RESET" /\ Code["reset"][2].op = "ATTACH"
      /\ Code["reset"][3].op = "EXIT"
  BY <1>1, <1>2, <1>3, Kept DEF Do
<1> QED
  BY <1>4, <1>5

LEMMA ResetPlaced == \A i \in 1 .. 3 : Placed("reset", i)
BY ResetText DEF Placed, Ends, Place, After, Leads

LEMMA ReadIoPlaced == Len(Code["read_io"]) = 2 /\ \A i \in 1 .. 2 : Placed("read_io", i)
<1>1. DOMAIN PrgmReadIo = 1 .. 2
  BY DEF PrgmReadIo
<1>2. PrgmReadIo[1] = To("LDD", 3) /\ PrgmReadIo[2] = Do("EXIT")
  BY DEF PrgmReadIo
<1>3. Code["read_io"] = Synth(PrgmReadIo)
  BY DEF Code
<1>4. Len(Code["read_io"]) = 2
  BY <1>1, <1>3, SynthLen
<1>5. Code["read_io"][1].op = "LDD" /\ Code["read_io"][2].op = "EXIT"
  BY <1>1, <1>2, <1>3, Kept DEF Do, To
<1> QED
  BY <1>4, <1>5 DEF Placed, Ends, Place, After, Leads, Inner, Emulating

LEMMA StartPlaced ==
    /\ Len(Code["start"]) = 6 /\ Code["start"][3].op = "WAITIO"
    /\ \A i \in 1 .. 6 : Placed("start", i)
<1>1. DOMAIN PrgmStart = 1 .. 6
  BY DEF PrgmStart, ReleaseUntilIo
<1>2. /\ PrgmStart[1] = Do("START") /\ PrgmStart[2] = Do("DETACH") /\ PrgmStart[3] = Do("WAITIO")
      /\ PrgmStart[4] = To("LDAL", 1) /\ PrgmStart[5] = To("LDWR", 2) /\ PrgmStart[6] = Do("EXIT")
  BY DEF PrgmStart, ReleaseUntilIo
<1>3. Code["start"] = Synth(PrgmStart)
  BY DEF Code
<1>4. Len(Code["start"]) = 6
  BY <1>1, <1>3, SynthLen
<1>5. /\ Code["start"][1].op = "START" /\ Code["start"][2].op = "DETACH"
      /\ Code["start"][3].op = "WAITIO"
      /\ Code["start"][4].op = "LDAL" /\ Code["start"][5].op = "LDWR"
      /\ Code["start"][6].op = "EXIT"
  BY <1>1, <1>2, <1>3, Kept DEF Do, To, From
<1> QED
  BY <1>4, <1>5 DEF Placed, Ends, Place, After, Leads, Inner, Answers, Emulating

LEMMA WriteIoPlaced ==
    /\ Len(Code["write_io"]) = 6 /\ Code["write_io"][3].op = "WAITIO"
    /\ \A i \in 1 .. 6 : Placed("write_io", i)
<1>1. DOMAIN PrgmWriteIo = 1 .. 6
  BY DEF PrgmWriteIo, ReleaseUntilIo
<1>2. /\ PrgmWriteIo[1] = From("STD", 3) /\ PrgmWriteIo[2] = Do("DETACH")
      /\ PrgmWriteIo[3] = Do("WAITIO")
      /\ PrgmWriteIo[4] = To("LDAL", 1) /\ PrgmWriteIo[5] = To("LDWR", 2)
      /\ PrgmWriteIo[6] = Do("EXIT")
  BY DEF PrgmWriteIo, ReleaseUntilIo
<1>3. Code["write_io"] = Synth(PrgmWriteIo)
  BY DEF Code
<1>4. Len(Code["write_io"]) = 6
  BY <1>1, <1>3, SynthLen
<1>5. /\ Code["write_io"][1].op = "STD" /\ Code["write_io"][2].op = "DETACH"
      /\ Code["write_io"][3].op = "WAITIO"
      /\ Code["write_io"][4].op = "LDAL" /\ Code["write_io"][5].op = "LDWR"
      /\ Code["write_io"][6].op = "EXIT"
  BY <1>1, <1>2, <1>3, Kept DEF Do, To, From
<1> QED
  BY <1>4, <1>5 DEF Placed, Ends, Place, After, Leads, Inner, Answers, Emulating

LEMMA ContPlaced ==
    /\ Len(Code["cont"]) = 27 /\ Code["cont"][24].op = "WAITIO"
    /\ \A i \in 1 .. 27 : Placed("cont", i)
<1> DEFINE c == Code["cont"]
<1>1. DOMAIN PrgmCont = 1 .. 27
  BY DEF PrgmCont, Drive, IretFrame, ReleaseUntilIo
<1>2. /\ PrgmCont[1] = Ldi(1, IretNop) /\ PrgmCont[2] = Ldi(7, NopNop)
      /\ PrgmCont[3] = Do("WAITADS")
      /\ PrgmCont[22] = From("STD", 3) /\ PrgmCont[23] = Do("DETACH") /\ PrgmCont[24] = Do("WAITIO")
      /\ PrgmCont[25] = To("LDAL", 1) /\ PrgmCont[26] = To("LDWR", 2) /\ PrgmCont[27] = Do("EXIT")
  BY DEF PrgmCont, Drive, IretFrame, ReleaseUntilIo
<1>3. \A q \in 0 .. 8 : \E r : PrgmCont[4 + 2 * q] = From("STD", r)
  BY DEF PrgmCont, Drive, IretFrame, ReleaseUntilIo
<1>4. \A q \in 0 .. 8 : PrgmCont[5 + 2 * q] = Do("WAITADS")
  BY DEF PrgmCont, Drive, IretFrame, ReleaseUntilIo
<1>5. c = Synth(PrgmCont)
  BY DEF Code
<1>6. Len(c) = 27
  BY <1>1, <1>5, SynthLen
<1>7. /\ c[1].op = "LDI" /\ c[2].op = "LDI" /\ c[3].op = "WAITADS"
      /\ c[22].op = "STD" /\ c[23].op = "DETACH" /\ c[24].op = "WAITIO"
      /\ c[25].op = "LDAL" /\ c[26].op = "LDWR" /\ c[27].op = "EXIT"
  BY <1>1, <1>2, <1>5, Kept DEF Do, To, From, Ldi
<1>8. ASSUME NEW q \in 0 .. 8
      PROVE  c[4 + 2 * q].op = "STD" /\ c[5 + 2 * q].op = "WAITADS"
  <2>1. 4 + 2 * q \in DOMAIN PrgmCont /\ 5 + 2 * q \in DOMAIN PrgmCont
    BY <1>1
  <2> QED
    BY <1>3, <1>4, <1>5, <2>1, Kept DEF Do, From
<1> USE DEF Leads, Inner, Answers
<1> HIDE DEF c
<1>9. Placed("cont", 1) /\ Placed("cont", 2) /\ Placed("cont", 3)
  <2>1. /\ Place("cont", 1) = "begin" /\ Place("cont", 2) = "begin" /\ Place("cont", 3) = "begin"
        /\ Place("cont", 4) = "held"
    BY DEF Place
  <2> QED
    BY <1>6, <1>7, <2>1 DEF c, Placed, After
<1>10. ASSUME NEW q \in 0 .. 8 PROVE Placed("cont", 4 + 2 * q) /\ Placed("cont", 5 + 2 * q)
  <2>1. /\ Place("cont", 4 + 2 * q) = "held" /\ Place("cont", 5 + 2 * q) = "due"
        /\ Place("cont", 6 + 2 * q) = "held"
    BY DEF Place
  <2>2. (4 + 2 * q) + 1 = 5 + 2 * q /\ (5 + 2 * q) + 1 = 6 + 2 * q
    OBVIOUS
  <2>3. 5 + 2 * q \in 1 .. 27 /\ 6 + 2 * q \in 1 .. 27
    OBVIOUS
  <2>4. Placed("cont", 4 + 2 * q)
    BY <1>6, <1>8, <2>1, <2>2, <2>3, StepPlaced DEF c
  <2>5. Placed("cont", 5 + 2 * q)
    BY <1>6, <1>8, <2>1, <2>2, <2>3, StepPlaced DEF c
  <2> QED
    BY <2>4, <2>5
<1>11. \A i \in 22 .. 26 : Placed("cont", i)
  <2>1. /\ Place("cont", 22) = "held" /\ Place("cont", 23) = "detach" /\ Place("cont", 24) = "loose"
        /\ Place("cont", 25) = "held" /\ Place("cont", 26) = "held" /\ Place("cont", 27) = "held"
    BY DEF Place
  <2> QED
    BY <1>6, <1>7, <2>1 DEF c, Placed, After
<1>12. Placed("cont", 27)
  BY <1>7 DEF c, Placed, Ends, Place, Emulating
<1>13. ASSUME NEW i \in 4 .. 21 PROVE \E q \in 0 .. 8 : i = 4 + 2 * q \/ i = 5 + 2 * q
  <2>1. (i - 4) \div 2 \in 0 .. 8
    OBVIOUS
  <2> QED
    BY <2>1
<1>14. ASSUME NEW i \in 1 .. 27 PROVE Placed("cont", i)
  BY <1>9, <1>10, <1>11, <1>12, <1>13
<1> QED
  BY <1>6, <1>7, <1>14 DEF c

LEMMA SetRegPlaced == Len(Code["set_reg"]) = 13 /\ \A i \in 1 .. 13 : Placed("set_reg", i)
<1> DEFINE c == Code["set_reg"]
<1>1. DOMAIN PrgmSetReg = 1 .. 13
  BY DEF PrgmSetReg, Drive
<1>2. /\ PrgmSetReg[1] = Ldi(4, NopNop) /\ PrgmSetReg[2] = Do("WAITADS")
      /\ PrgmSetReg[11] = From("STD", 4) /\ PrgmSetReg[12] = Do("HOLD")
      /\ PrgmSetReg[13] = Do("EXIT")
  BY DEF PrgmSetReg, Drive
<1>3. \A q \in 0 .. 3 : \E r : PrgmSetReg[3 + 2 * q] = From("STD", r)
  BY DEF PrgmSetReg, Drive
<1>4. \A q \in 0 .. 3 : PrgmSetReg[4 + 2 * q] = Do("WAITADS")
  BY DEF PrgmSetReg, Drive
<1>5. c = Synth(PrgmSetReg)
  BY DEF Code
<1>6. Len(c) = 13
  BY <1>1, <1>5, SynthLen
<1>7. /\ c[1].op = "LDI" /\ c[2].op = "WAITADS"
      /\ c[11].op = "STD" /\ c[12].op = "HOLD" /\ c[13].op = "EXIT"
  BY <1>1, <1>2, <1>5, Kept DEF Do, To, From, Ldi
<1>8. ASSUME NEW q \in 0 .. 3
      PROVE  c[3 + 2 * q].op = "STD" /\ c[4 + 2 * q].op = "WAITADS"
  <2>1. 3 + 2 * q \in DOMAIN PrgmSetReg /\ 4 + 2 * q \in DOMAIN PrgmSetReg
    BY <1>1
  <2> QED
    BY <1>3, <1>4, <1>5, <2>1, Kept DEF Do, From
<1> USE DEF Leads, Inner, Answers
<1> HIDE DEF c
<1>9. Placed("set_reg", 1) /\ Placed("set_reg", 2)
  <2>1. /\ Place("set_reg", 1) = "begin" /\ Place("set_reg", 2) = "begin"
        /\ Place("set_reg", 3) = "held"
    BY DEF Place
  <2> QED
    BY <1>6, <1>7, <2>1 DEF c, Placed, After
<1>10. ASSUME NEW q \in 0 .. 3 PROVE Placed("set_reg", 3 + 2 * q) /\ Placed("set_reg", 4 + 2 * q)
  <2>1. /\ Place("set_reg", 3 + 2 * q) = "held" /\ Place("set_reg", 4 + 2 * q) = "due"
        /\ Place("set_reg", 5 + 2 * q) = "held"
    BY DEF Place
  <2>2. (3 + 2 * q) + 1 = 4 + 2 * q /\ (4 + 2 * q) + 1 = 5 + 2 * q
    OBVIOUS
  <2>3. 4 + 2 * q \in 1 .. 13 /\ 5 + 2 * q \in 1 .. 13
    OBVIOUS
  <2>4. Placed("set_reg", 3 + 2 * q)
    BY <1>6, <1>8, <2>1, <2>2, <2>3, StepPlaced DEF c
  <2>5. Placed("set_reg", 4 + 2 * q)
    BY <1>6, <1>8, <2>1, <2>2, <2>3, StepPlaced DEF c
  <2> QED
    BY <2>4, <2>5
<1>11. Placed("set_reg", 11) /\ Placed("set_reg", 12)
  <2>1. /\ Place("set_reg", 11) = "held" /\ Place("set_reg", 12) = "drain"
        /\ Place("set_reg", 13) = "parked"
    BY DEF Place
  <2> QED
    BY <1>6, <1>7, <2>1 DEF c, Placed, After
<1>12. Placed("set_reg", 13)
  BY <1>7 DEF c, Placed, Ends, Place, Halted
<1>13. ASSUME NEW i \in 3 .. 10 PROVE \E q \in 0 .. 3 : i = 3 + 2 * q \/ i = 4 + 2 * q
  <2>1. (i - 3) \div 2 \in 0 .. 3
    OBVIOUS
  <2> QED
    BY <2>1
<1>14. ASSUME NEW i \in 1 .. 13 PROVE Placed("set_reg", i)
  BY <1>9, <1>10, <1>11, <1>12, <1>13
<1> QED
  BY <1>6, <1>14 DEF c

LEMMA GetRegsPlaced == Len(Code["get_regs"]) = 62 /\ \A i \in 1 .. 62 : Placed("get_regs", i)
<1> DEFINE c == Code["get_regs"]
<1>1. DOMAIN PrgmGetRegs = 1 .. 62
  BY DEF PrgmGetRegs, Drive, Capture
<1>2. /\ PrgmGetRegs[1] = Ldi(1, PushaNop) /\ PrgmGetRegs[2] = Ldi(2, NopNop)
      /\ PrgmGetRegs[3] = Do("WAITADS") /\ PrgmGetRegs[59] = To("LDD", 15)
      /\ PrgmGetRegs[60] = Do("READY") /\ PrgmGetRegs[61] = Do("HOLD")
      /\ PrgmGetRegs[62] = Do("EXIT")
  BY DEF PrgmGetRegs, Drive, Capture
<1>3. \A q \in 0 .. 4 : \E r : PrgmGetRegs[4 + 2 * q] = From("STD", r)
  BY DEF PrgmGetRegs, Drive, Capture
<1>4. \A q \in 0 .. 4 : PrgmGetRegs[5 + 2 * q] = Do("WAITADS")
  BY DEF PrgmGetRegs, Drive, Capture
<1>15. \A q \in 0 .. 14 : PrgmGetRegs[14 + 3 * q] = To("LDD", q)
  BY DEF PrgmGetRegs, Drive, Capture
<1>16. \A q \in 0 .. 14 : PrgmGetRegs[15 + 3 * q] = Do("READY")
  BY DEF PrgmGetRegs, Drive, Capture
<1>17. \A q \in 0 .. 14 : PrgmGetRegs[16 + 3 * q] = Do("WAITADS")
  BY DEF PrgmGetRegs, Drive, Capture
<1>5. c = Synth(PrgmGetRegs)
  BY DEF Code
<1>6. Len(c) = 62
  BY <1>1, <1>5, SynthLen
<1>7. /\ c[1].op = "LDI" /\ c[2].op = "LDI" /\ c[3].op = "WAITADS"
      /\ c[59].op = "LDD" /\ c[60].op = "READY" /\ c[61].op = "HOLD" /\ c[62].op = "EXIT"
  BY <1>1, <1>2, <1>5, Kept DEF Do, To, From, Ldi
<1>8. ASSUME NEW q \in 0 .. 4
      PROVE  c[4 + 2 * q].op = "STD" /\ c[5 + 2 * q].op = "WAITADS"
  <2>1. 4 + 2 * q \in DOMAIN PrgmGetRegs /\ 5 + 2 * q \in DOMAIN PrgmGetRegs
    BY <1>1
  <2> QED
    BY <1>3, <1>4, <1>5, <2>1, Kept DEF Do, From
<1>18. ASSUME NEW q \in 0 .. 14
       PROVE  c[14 + 3 * q].op = "LDD" /\ c[15 + 3 * q].op = "READY" /\ c[16 + 3 * q].op = "WAITADS"
  <2>1. /\ 14 + 3 * q \in DOMAIN PrgmGetRegs /\ 15 + 3 * q \in DOMAIN PrgmGetRegs
        /\ 16 + 3 * q \in DOMAIN PrgmGetRegs
    BY <1>1
  <2> QED
    BY <1>15, <1>16, <1>17, <1>5, <2>1, Kept DEF Do, To
<1> USE DEF Leads, Inner, Answers
<1> HIDE DEF c
<1>9. Placed("get_regs", 1) /\ Placed("get_regs", 2) /\ Placed("get_regs", 3)
  <2>1. /\ Place("get_regs", 1) = "begin" /\ Place("get_regs", 2) = "begin"
        /\ Place("get_regs", 3) = "begin" /\ Place("get_regs", 4) = "held"
    BY DEF Place
  <2> QED
    BY <1>6, <1>7, <2>1 DEF c, Placed, After
<1>10. ASSUME NEW q \in 0 .. 4 PROVE Placed("get_regs", 4 + 2 * q) /\ Placed("get_regs", 5 + 2 * q)
  <2>1. /\ Place("get_regs", 4 + 2 * q) = "held" /\ Place("get_regs", 5 + 2 * q) = "due"
        /\ Place("get_regs", 6 + 2 * q) = "held"
    BY DEF Place
  <2>2. (4 + 2 * q) + 1 = 5 + 2 * q /\ (5 + 2 * q) + 1 = 6 + 2 * q
    OBVIOUS
  <2>3. 5 + 2 * q \in 1 .. 62 /\ 6 + 2 * q \in 1 .. 62
    OBVIOUS
  <2>4. Placed("get_regs", 4 + 2 * q)
    BY <1>6, <1>8, <2>1, <2>2, <2>3, StepPlaced DEF c
  <2>5. Placed("get_regs", 5 + 2 * q)
    BY <1>6, <1>8, <2>1, <2>2, <2>3, StepPlaced DEF c
  <2> QED
    BY <2>4, <2>5
<1>11. ASSUME NEW q \in 0 .. 14
       PROVE  /\ Placed("get_regs", 14 + 3 * q) /\ Placed("get_regs", 15 + 3 * q)
              /\ Placed("get_regs", 16 + 3 * q)
  <2>1. /\ Place("get_regs", 14 + 3 * q) = "held" /\ Place("get_regs", 15 + 3 * q) = "held"
        /\ Place("get_regs", 16 + 3 * q) = "due" /\ Place("get_regs", 17 + 3 * q) = "held"
    BY DEF Place
  <2>2. /\ (14 + 3 * q) + 1 = 15 + 3 * q /\ (15 + 3 * q) + 1 = 16 + 3 * q
        /\ (16 + 3 * q) + 1 = 17 + 3 * q
    OBVIOUS
  <2>3. 15 + 3 * q \in 1 .. 62 /\ 16 + 3 * q \in 1 .. 62 /\ 17 + 3 * q \in 1 .. 62
    OBVIOUS
  <2>4. Placed("get_regs", 14 + 3 * q)
    BY <1>6, <1>18, <2>1, <2>2, <2>3, StepPlaced DEF c
  <2>5. Placed("get_regs", 15 + 3 * q)
    BY <1>6, <1>18, <2>1, <2>2, <2>3, StepPlaced DEF c
  <2>6. Placed("get_regs", 16 + 3 * q)
    BY <1>6, <1>18, <2>1, <2>2, <2>3, StepPlaced DEF c
  <2> QED
    BY <2>4, <2>5, <2>6
<1>12. Placed("get_regs", 59) /\ Placed("get_regs", 60) /\ Placed("get_regs", 61)
  <2>1. /\ Place("get_regs", 59) = "held" /\ Place("get_regs", 60) = "held"
        /\ Place("get_regs", 61) = "drain" /\ Place("get_regs", 62) = "parked"
    BY DEF Place
  <2> QED
    BY <1>6, <1>7, <2>1 DEF c, Placed, After
<1>13. Placed("get_regs", 62)
  BY <1>7 DEF c, Placed, Ends, Place, Halted
<1>14. ASSUME NEW i \in 1 .. 62 PROVE Placed("get_regs", i)
  <2>1. CASE i \in 4 .. 13
    <3>1. (i - 4) \div 2 \in 0 .. 4
      BY <2>1
    <3>2. \E q \in 0 .. 4 : i = 4 + 2 * q \/ i = 5 + 2 * q
      BY <2>1, <3>1
    <3> QED
      BY <1>10, <3>2
  <2>2. CASE i \in 14 .. 58
    <3>1. (i - 14) \div 3 \in 0 .. 14
      BY <2>2
    <3>2. \E q \in 0 .. 14 : i = 14 + 3 * q \/ i = 15 + 3 * q \/ i = 16 + 3 * q
      BY <2>2, <3>1
    <3> QED
      BY <1>11, <3>2
  <2>3. CASE i \notin 4 .. 58
    <3>1. i \in {1, 2, 3, 59, 60, 61, 62}
      BY <2>3
    <3> QED
      BY <1>9, <1>12, <1>13, <3>1
  <2> QED
    BY <2>1, <2>2, <2>3
<1> QED
  BY <1>6, <1>14 DEF c

LEMMA BreakSource ==
    LET c == PrgmBreak
    IN  /\ c[1] = Do("NMI") /\ c[2] = Do("WAITLOCK")
        /\ c[3] = To("LDAL", 2) /\ c[4] = To("LDAH", 3) /\ c[5] = From("LDCMP", 2)
        /\ c[6] = Ldi(1, 8) /\ c[7] = From("CMP", 1) /\ c[8] = Jump("BNE", 11)
        /\ c[9] = From("LDCMP", 3) /\ c[10] = Jump("BEQ", 57)
        /\ \A q \in 0 .. 7 : \E w : c[11 + 3 * q] = Ldi(1, w)
        /\ \A q \in 0 .. 7 : c[12 + 3 * q] = From("STD", 1) /\ c[13 + 3 * q] = Do("WAITADS")
        /\ c[35] = Do("READY") /\ c[36] = Do("WAITADS")
        /\ c[37] = Ldi(1, NopNop) /\ c[38] = From("STD", 1) /\ c[39] = Do("WAITADS")
        /\ \A q \in 0 .. 3 : c[40 + 3 * q] = To("LDD", 2 + q)
        /\ \A q \in 0 .. 3 : c[41 + 3 * q] = Do("READY") /\ c[42 + 3 * q] = Do("WAITADS")
        /\ c[52] = To("LDD", 6) /\ c[53] = Do("READY") /\ c[54] = Ldi(1, 1)
        /\ c[55] = Do("HOLD") /\ c[56] = Do("EXIT")
        /\ c[57] = Ldi(1, 0) /\ c[58] = From("STD", 1) /\ c[59] = Do("WAITADS")
        /\ c[60] = Ldi(1, 53248) /\ c[61] = From("STD", 1) /\ c[62] = To("CLR", 1)
        /\ c[63] = Do("HOLD") /\ c[64] = Do("EXIT")
<1> USE DEF PrgmBreak, BreakEntry, BreakProtectedMode, BreakRealMode, Serve, Capture,
            FakeIdtEntry, FakeGdtEntry
<1>1. /\ PrgmBreak[1] = Do("NMI") /\ PrgmBreak[2] = Do("WAITLOCK")
      /\ PrgmBreak[3] = To("LDAL", 2) /\ PrgmBreak[4] = To("LDAH", 3)
      /\ PrgmBreak[5] = From("LDCMP", 2) /\ PrgmBreak[6] = Ldi(1, 8)
  OBVIOUS
<1>2. /\ PrgmBreak[7] = From("CMP", 1) /\ PrgmBreak[8] = Jump("BNE", 11)
      /\ PrgmBreak[9] = From("LDCMP", 3) /\ PrgmBreak[10] = Jump("BEQ", 57)
  OBVIOUS
<1>3. \A q \in 0 .. 3 : \E w : PrgmBreak[11 + 3 * q] = Ldi(1, w)
  OBVIOUS
<1>4. \A q \in 4 .. 7 : \E w : PrgmBreak[11 + 3 * q] = Ldi(1, w)
  <2>1. /\ \E w : PrgmBreak[23] = Ldi(1, w)
        /\ \E w : PrgmBreak[26] = Ldi(1, w)
    OBVIOUS
  <2>2. /\ \E w : PrgmBreak[29] = Ldi(1, w)
        /\ \E w : PrgmBreak[32] = Ldi(1, w)
    OBVIOUS
  <2> HIDE DEF PrgmBreak
  <2> QED
    BY <2>1, <2>2
<1>5. /\ \A q \in 0 .. 7 : PrgmBreak[12 + 3 * q] = From("STD", 1)
      /\ \A q \in 0 .. 7 : PrgmBreak[13 + 3 * q] = Do("WAITADS")
  OBVIOUS
<1>6. /\ PrgmBreak[35] = Do("READY") /\ PrgmBreak[36] = Do("WAITADS")
      /\ PrgmBreak[37] = Ldi(1, NopNop) /\ PrgmBreak[38] = From("STD", 1)
      /\ PrgmBreak[39] = Do("WAITADS")
  OBVIOUS
<1>7. \A q \in 0 .. 3 : PrgmBreak[40 + 3 * q] = To("LDD", 2 + q)
  OBVIOUS
<1>8. /\ \A q \in 0 .. 3 : PrgmBreak[41 + 3 * q] = Do("READY")
      /\ \A q \in 0 .. 3 : PrgmBreak[42 + 3 * q] = Do("WAITADS")
  OBVIOUS
<1>9. /\ PrgmBreak[52] = To("LDD", 6) /\ PrgmBreak[53] = Do("READY") /\ PrgmBreak[54] = Ldi(1, 1)
      /\ PrgmBreak[55] = Do("HOLD") /\ PrgmBreak[56] = Do("EXIT")
  OBVIOUS
<1>10. /\ PrgmBreak[57] = Ldi(1, 0) /\ PrgmBreak[58] = From("STD", 1)
       /\ PrgmBreak[59] = Do("WAITADS") /\ PrgmBreak[60] = Ldi(1, 53248)
  OBVIOUS
<1>11. /\ PrgmBreak[61] = From("STD", 1) /\ PrgmBreak[62] = To("CLR", 1)
       /\ PrgmBreak[63] = Do("HOLD") /\ PrgmBreak[64] = Do("EXIT")
  OBVIOUS
<1> HIDE DEF PrgmBreak
<1>12. \A q \in 0 .. 7 : \E w : PrgmBreak[11 + 3 * q] = Ldi(1, w)
  BY <1>3, <1>4
<1> QED
  BY <1>1, <1>2, <1>5, <1>6, <1>7, <1>8, <1>9, <1>10, <1>11, <1>12

LEMMA BreakPlaced ==
    /\ Len(Code["break"]) = 64 /\ Code["break"][1].op = "NMI" /\ Code["break"][2].op = "WAITLOCK"
    /\ \A i \in 1 .. 64 : Placed("break", i)
<1> DEFINE c == Code["break"]
<1>1. DOMAIN PrgmBreak = 1 .. 64
  BY DEF PrgmBreak, BreakEntry, Serve, Capture, FakeIdtEntry, FakeGdtEntry
<1>2. c = Synth(PrgmBreak)
  BY DEF Code
<1>3. Len(c) = 64
  BY <1>1, <1>2, SynthLen
<1>4. /\ c[1].op = "NMI" /\ c[2].op = "WAITLOCK" /\ c[3].op = "LDAL" /\ c[4].op = "LDAH"
      /\ c[5].op = "LDCMP" /\ c[6].op = "LDI" /\ c[7].op = "CMP" /\ c[9].op = "LDCMP"
  BY <1>1, <1>2, BreakSource, Kept DEF Do, To, From, Ldi
<1>5. c[8].op = "BEQ" /\ c[8].v = 11
  <2>1. 8 \in DOMAIN PrgmBreak /\ PrgmBreak[8] = Ins("BNE", 0, 0, 11)
    BY <1>1, BreakSource DEF Jump
  <2> QED
    BY <1>2, <2>1 DEF Synth, SynthOp, Ins
<1>6. c[10].op = "BEQ" /\ c[10].v = 57
  BY <1>1, <1>2, BreakSource, Kept DEF Jump
<1>7. ASSUME NEW q \in 0 .. 7
      PROVE  c[11 + 3 * q].op = "LDI" /\ c[12 + 3 * q].op = "STD" /\ c[13 + 3 * q].op = "WAITADS"
  <2>1. /\ 11 + 3 * q \in DOMAIN PrgmBreak /\ 12 + 3 * q \in DOMAIN PrgmBreak
        /\ 13 + 3 * q \in DOMAIN PrgmBreak
    BY <1>1
  <2>2. PICK w : PrgmBreak[11 + 3 * q] = Ldi(1, w)
    BY BreakSource
  <2>3. PrgmBreak[12 + 3 * q] = From("STD", 1) /\ PrgmBreak[13 + 3 * q] = Do("WAITADS")
    BY BreakSource
  <2> QED
    BY <1>2, <2>1, <2>2, <2>3, Kept DEF Do, From, Ldi
<1>8. /\ c[35].op = "READY" /\ c[36].op = "WAITADS" /\ c[37].op = "LDI" /\ c[38].op = "STD"
      /\ c[39].op = "WAITADS"
  BY <1>1, <1>2, BreakSource, Kept DEF Do, From, Ldi
<1>9. ASSUME NEW q \in 0 .. 3
      PROVE  c[40 + 3 * q].op = "LDD" /\ c[41 + 3 * q].op = "READY" /\ c[42 + 3 * q].op = "WAITADS"
  <2>1. /\ 40 + 3 * q \in DOMAIN PrgmBreak /\ 41 + 3 * q \in DOMAIN PrgmBreak
        /\ 42 + 3 * q \in DOMAIN PrgmBreak
    BY <1>1
  <2>2. /\ PrgmBreak[40 + 3 * q] = To("LDD", 2 + q) /\ PrgmBreak[41 + 3 * q] = Do("READY")
        /\ PrgmBreak[42 + 3 * q] = Do("WAITADS")
    BY BreakSource
  <2> QED
    BY <1>2, <2>1, <2>2, Kept DEF Do, To
<1>10. /\ c[52].op = "LDD" /\ c[53].op = "READY" /\ c[54].op = "LDI" /\ c[55].op = "HOLD"
       /\ c[56].op = "EXIT" /\ c[57].op = "LDI" /\ c[58].op = "STD" /\ c[59].op = "WAITADS"
  BY <1>1, <1>2, BreakSource, Kept DEF Do, To, From, Ldi
<1>11. /\ c[60].op = "LDI" /\ c[61].op = "STD" /\ c[62].op = "CLR" /\ c[63].op = "HOLD"
       /\ c[64].op = "EXIT"
  BY <1>1, <1>2, BreakSource, Kept DEF Do, To, From, Ldi
<1> USE DEF Leads, Inner, Answers
<1> HIDE DEF c
<1>12. \A i \in {1, 2, 3, 4, 5, 6, 7, 9} : Placed("break", i)
  <2>1. /\ Place("break", 1) = "loose" /\ Place("break", 2) = "loose"
        /\ \A i \in 3 .. 10 : Place("break", i) = "held"
    BY DEF Place
  <2> QED
    BY <1>3, <1>4, <2>1 DEF c, Placed, After
<1>13. Placed("break", 8) /\ Placed("break", 10)
  <2>1. /\ \A i \in {8, 9, 10, 11, 57} : Place("break", i) = "held"
        /\ After("break", 8) = {9, 11} /\ After("break", 10) = {11, 57}
    BY <1>5, <1>6 DEF Place, c, After
  <2> QED
    BY <1>3, <1>5, <1>6, <2>1 DEF c, Placed
<1>14. ASSUME NEW q \in 0 .. 7
       PROVE  /\ Placed("break", 11 + 3 * q) /\ Placed("break", 12 + 3 * q)
              /\ Placed("break", 13 + 3 * q)
  <2>1. /\ Place("break", 11 + 3 * q) = "held" /\ Place("break", 12 + 3 * q) = "held"
        /\ Place("break", 13 + 3 * q) = "due" /\ Place("break", 14 + 3 * q) = "held"
    BY DEF Place
  <2>2. /\ (11 + 3 * q) + 1 = 12 + 3 * q /\ (12 + 3 * q) + 1 = 13 + 3 * q
        /\ (13 + 3 * q) + 1 = 14 + 3 * q
    OBVIOUS
  <2>3. 12 + 3 * q \in 1 .. 64 /\ 13 + 3 * q \in 1 .. 64 /\ 14 + 3 * q \in 1 .. 64
    OBVIOUS
  <2>4. Placed("break", 11 + 3 * q)
    BY <1>3, <1>7, <2>1, <2>2, <2>3, StepPlaced DEF c
  <2>5. Placed("break", 12 + 3 * q)
    BY <1>3, <1>7, <2>1, <2>2, <2>3, StepPlaced DEF c
  <2>6. Placed("break", 13 + 3 * q)
    BY <1>3, <1>7, <2>1, <2>2, <2>3, StepPlaced DEF c
  <2> QED
    BY <2>4, <2>5, <2>6
<1>15. \A i \in 35 .. 39 : Placed("break", i)
  <2>1. /\ Place("break", 35) = "held" /\ Place("break", 36) = "due" /\ Place("break", 37) = "held"
        /\ Place("break", 38) = "held" /\ Place("break", 39) = "due" /\ Place("break", 40) = "held"
    BY DEF Place
  <2> QED
    BY <1>3, <1>8, <2>1 DEF c, Placed, After
<1>16. ASSUME NEW q \in 0 .. 3
       PROVE  /\ Placed("break", 40 + 3 * q) /\ Placed("break", 41 + 3 * q)
              /\ Placed("break", 42 + 3 * q)
  <2>1. /\ Place("break", 40 + 3 * q) = "held" /\ Place("break", 41 + 3 * q) = "held"
        /\ Place("break", 42 + 3 * q) = "due" /\ Place("break", 43 + 3 * q) = "held"
    BY DEF Place
  <2>2. /\ (40 + 3 * q) + 1 = 41 + 3 * q /\ (41 + 3 * q) + 1 = 42 + 3 * q
        /\ (42 + 3 * q) + 1 = 43 + 3 * q
    OBVIOUS
  <2>3. 41 + 3 * q \in 1 .. 64 /\ 42 + 3 * q \in 1 .. 64 /\ 43 + 3 * q \in 1 .. 64
    OBVIOUS
  <2>4. Placed("break", 40 + 3 * q)
    BY <1>3, <1>9, <2>1, <2>2, <2>3, StepPlaced DEF c
  <2>5. Placed("break", 41 + 3 * q)
    BY <1>3, <1>9, <2>1, <2>2, <2>3 DEF c, Placed, After
  <2>6. Placed("break", 42 + 3 * q)
    BY <1>3, <1>9, <2>1, <2>2, <2>3, StepPlaced DEF c
  <2> QED
    BY <2>4, <2>5, <2>6
<1>17. \A i \in 52 .. 55 : Placed("break", i)
  <2>1. /\ Place("break", 52) = "held" /\ Place("break", 53) = "held"
        /\ Place("break", 54) = "drain"
        /\ Place("break", 55) = "drain" /\ Place("break", 56) = "parked"
    BY DEF Place
  <2> QED
    BY <1>3, <1>10, <2>1 DEF c, Placed, After
<1>18. \A i \in 57 .. 63 : Placed("break", i)
  <2>1. /\ Place("break", 57) = "held" /\ Place("break", 58) = "held" /\ Place("break", 59) = "due"
        /\ Place("break", 60) = "held" /\ Place("break", 61) = "held"
        /\ Place("break", 62) = "drain"
        /\ Place("break", 63) = "drain" /\ Place("break", 64) = "parked"
    BY DEF Place
  <2> QED
    BY <1>3, <1>10, <1>11, <2>1 DEF c, Placed, After
<1>19. Placed("break", 56) /\ Placed("break", 64)
  BY <1>10, <1>11 DEF c, Placed, Ends, Place, Halted
<1>20. ASSUME NEW i \in 1 .. 64 PROVE Placed("break", i)
  <2>1. CASE i \in 11 .. 34
    <3>1. (i - 11) \div 3 \in 0 .. 7
      BY <2>1
    <3>2. \E q \in 0 .. 7 : i = 11 + 3 * q \/ i = 12 + 3 * q \/ i = 13 + 3 * q
      BY <2>1, <3>1
    <3> QED
      BY <1>14, <3>2
  <2>2. CASE i \in 40 .. 51
    <3>1. (i - 40) \div 3 \in 0 .. 3
      BY <2>2
    <3>2. \E q \in 0 .. 3 : i = 40 + 3 * q \/ i = 41 + 3 * q \/ i = 42 + 3 * q
      BY <2>2, <3>1
    <3> QED
      BY <1>16, <3>2
  <2>3. CASE i <= 10
    BY <1>12, <1>13, <2>3
  <2>4. CASE i \in 35 .. 39 \/ i >= 52
    BY <1>15, <1>17, <1>18, <1>19, <2>4
  <2> QED
    BY <2>1, <2>2, <2>3, <2>4
<1> QED
  BY <1>3, <1>4, <1>20 DEF c

\* Every instruction of every program is where the places say it is.
LEMMA AllPlaced ==
    ASSUME NEW p \in ProgramNames
    PROVE  Len(Code[p]) \in Nat \ {0} /\ \A i \in 1 .. Len(Code[p]) : Placed(p, i)
<1>1. CASE p = "blank"
  BY <1>1, BlankPlaced, 1 .. 1 = {1}
<1>2. CASE p = "reset"
  BY <1>2, ResetText, ResetPlaced
<1>3. CASE p = "start"
  BY <1>3, StartPlaced
<1>4. CASE p = "read_io"
  BY <1>4, ReadIoPlaced
<1>5. CASE p = "write_io"
  BY <1>5, WriteIoPlaced
<1>6. CASE p = "break"
  BY <1>6, BreakPlaced
<1>7. CASE p = "cont"
  BY <1>7, ContPlaced
<1>8. CASE p = "get_regs"
  BY <1>8, GetRegsPlaced
<1>9. CASE p = "set_reg"
  BY <1>9, SetRegPlaced
<1> QED
  BY <1>1, <1>2, <1>3, <1>4, <1>5, <1>6, <1>7, <1>8, <1>9 DEF ProgramNames

\* Nothing has been executed yet where a program begins.
LEMMA FirstPlaces ==
    /\ \A p \in ProgramNames : Place(p, 0) = Place(p, 1)
    /\ Place("reset", 0) = "reset" /\ Place("start", 0) = "start" /\ Place("break", 0) = "loose"
    /\ \A p \in {"read_io", "write_io"} : Place(p, 0) = "held"
    /\ \A p \in {"cont", "get_regs", "set_reg"} : Place(p, 0) = "begin"
BY DEF Place, ProgramNames

LEMMA PlaceRange ==
    ASSUME NEW p \in ProgramNames, NEW i \in Nat
    PROVE  Place(p, i) \in {"off", "reset", "start", "held", "due", "detach", "loose", "drain",
                             "parked", "begin"}
BY DEF Place, ProgramNames

LEMMA PlacesOf ==
    ASSUME NEW p \in ProgramNames, NEW i \in Nat
    PROVE  /\ Place(p, i) = "off" <=> p = "blank"
           /\ Place(p, i) = "reset" <=> p = "reset"
           /\ Place(p, i) = "start" => p = "start" /\ i <= 1
BY DEF Place, ProgramNames

\* The bus is the program's at the wait for an I/O cycle, and while the CPU is interrupted.
LEMMA LooseText ==
    ASSUME NEW p \in ProgramNames, NEW i \in 1 .. Len(Code[p]), Place(p, i) = "loose"
    PROVE  \/ p \in Emulating /\ Code[p][i].op = "WAITIO"
           \/ p = "break" /\ i = 1 /\ Code[p][i].op = "NMI"
           \/ p = "break" /\ i = 2 /\ Code[p][i].op = "WAITLOCK"
<1>1. i \in Nat \ {0}
  BY AllPlaced
<1>2. \/ p = "start" /\ i = 3
      \/ p = "write_io" /\ i = 3
      \/ p = "cont" /\ i = 24
      \/ p = "break" /\ i \in {1, 2}
  BY <1>1 DEF Place, ProgramNames
<1> QED
  BY <1>2, StartPlaced, WriteIoPlaced, ContPlaced, BreakPlaced DEF Emulating

\* It waits for one only after giving the bus back.
LEMMA WaitIoText ==
    ASSUME NEW p \in ProgramNames, NEW i \in 1 .. Len(Code[p]), Code[p][i].op # "EXIT",
           NEW j \in After(p, i), Code[p][j].op = "WAITIO"
    PROVE  Code[p][i].op = "DETACH"
<1>1. /\ j \in 1 .. Len(Code[p]) /\ Leads(Code[p][i].op, Place(p, i), Place(p, j))
      /\ Placed(p, j)
  BY AllPlaced DEF Placed
<1>2. Place(p, j) = "loose"
  <2>1. PICK k \in After(p, j) : Leads("WAITIO", Place(p, j), Place(p, k))
    BY <1>1 DEF Placed, After
  <2> QED
    BY <2>1 DEF Leads, Inner, Answers
<1>3. p \in Emulating
  BY <1>1, <1>2, LooseText
<1>4. CASE Place(p, i) = "loose"
  <2>1. Code[p][i].op = "WAITIO"
    BY <1>3, <1>4, LooseText DEF Emulating
  <2> QED
    BY <1>1, <1>2, <2>1 DEF Leads, Inner, Answers
<1>5. CASE Place(p, i) # "loose"
  BY <1>1, <1>2, <1>5 DEF Leads
<1> QED
  BY <1>4, <1>5

\* The cycles between the last answer and HOLD are nobody's.
LEMMA DrainText ==
    ASSUME NEW p \in ProgramNames, NEW i \in Nat, Place(p, i) = "drain"
    PROVE  /\ i > 0
           /\ \E exit \in i .. Len(Code[p]) :
                 /\ Code[p][exit].op = "EXIT"
                 /\ \A k \in i .. exit : Code[p][k].op \notin Waits
<1>1. \/ p = "break" /\ i \in {54, 55, 62, 63}
      \/ p = "get_regs" /\ i = 61
      \/ p = "set_reg" /\ i = 12
  BY DEF Place, ProgramNames
<1>2. ASSUME NEW k \in 1 .. Len(Code[p]), Place(p, k) \in {"drain", "parked"}
      PROVE  /\ Code[p][k].op \notin Waits
             /\ Place(p, k) = "parked" => Code[p][k].op = "EXIT"
  <2>1. Placed(p, k)
    BY AllPlaced
  <2>2. CASE Code[p][k].op = "EXIT"
    BY <2>2 DEF Waits
  <2>3. CASE Code[p][k].op # "EXIT"
    <3>1. PICK j \in After(p, k) : Leads(Code[p][k].op, Place(p, k), Place(p, j))
      BY <2>1, <2>3 DEF Placed, After
    <3> QED
      BY <1>2, <3>1 DEF Leads, Waits
  <2> QED
    BY <2>2, <2>3
<1>3. CASE p = "break" /\ i \in {54, 55}
  <2>1. Place(p, 54) = "drain" /\ Place(p, 55) = "drain" /\ Place(p, 56) = "parked"
    BY <1>3 DEF Place
  <2>2. Len(Code[p]) = 64
    BY <1>3, BreakPlaced
  <2>3. Code[p][56].op = "EXIT" /\ \A k \in 54 .. 56 : Code[p][k].op \notin Waits
    BY <1>2, <2>1, <2>2
  <2> QED
    BY <1>3, <2>2, <2>3
<1>4. CASE p = "break" /\ i \in {62, 63}
  <2>1. Place(p, 62) = "drain" /\ Place(p, 63) = "drain" /\ Place(p, 64) = "parked"
    BY <1>4 DEF Place
  <2>2. Len(Code[p]) = 64
    BY <1>4, BreakPlaced
  <2>3. Code[p][64].op = "EXIT" /\ \A k \in 62 .. 64 : Code[p][k].op \notin Waits
    BY <1>2, <2>1, <2>2
  <2> QED
    BY <1>4, <2>2, <2>3
<1>5. CASE p = "get_regs" /\ i = 61
  <2>1. Place(p, 61) = "drain" /\ Place(p, 62) = "parked"
    BY <1>5 DEF Place
  <2>2. Len(Code[p]) = 62
    BY <1>5, GetRegsPlaced
  <2>3. Code[p][62].op = "EXIT" /\ \A k \in 61 .. 62 : Code[p][k].op \notin Waits
    BY <1>2, <2>1, <2>2
  <2> QED
    BY <1>5, <2>2, <2>3
<1>6. CASE p = "set_reg" /\ i = 12
  <2>1. Place(p, 12) = "drain" /\ Place(p, 13) = "parked"
    BY <1>6 DEF Place
  <2>2. Len(Code[p]) = 13
    BY <1>6, SetRegPlaced
  <2>3. Code[p][13].op = "EXIT" /\ \A k \in 12 .. 13 : Code[p][k].op \notin Waits
    BY <1>2, <2>1, <2>2
  <2> QED
    BY <1>6, <2>2, <2>3
<1> QED
  BY <1>1, <1>3, <1>4, <1>5, <1>6

-----------------------------------------------------------------------------
(* The invariant *)

States == {"FETCH", "LOAD", "EXEC", "STORE", "STORE_FETCH"}

TStates == {"reset", "Ti", "T1", "T2", "Th"}

ClockType ==
    /\ prog \in ProgramNames /\ pc \in 0 .. Len(Code[prog]) /\ st \in States
    /\ stop \in BOOLEAN /\ en \in BOOLEAN /\ ready \in BOOLEAN
    /\ hold \in BOOLEAN /\ reset \in BOOLEAN /\ bcReady \in BOOLEAN
    /\ t \in TStates /\ tick \in 0 .. 3 /\ kind \in Kinds /\ since \in Nat
    /\ ads \in BOOLEAN /\ seen \in BOOLEAN /\ answered \in BOOLEAN

\* An instruction has been executed and its result is about to be stored.
Stores == st = "STORE" /\ ~InReset

\* Ticks since the last instruction was executed, until the next is.
Age == CASE st = "STORE" -> 1 [] st = "STORE_FETCH" -> 2 [] st = "FETCH" -> 3
         [] st = "LOAD" -> 4 [] st = "EXEC" -> 5

\* The instruction being executed; none after reset_ocd.
Doing == IF InReset THEN "none" ELSE Op

InCycle == t \in {"T1", "T2"}

\* A wait has just seen the cycle.
JustCaught ==
    /\ seen
    /\ \/ t = "T1" /\ tick >= 1
       \/ t = "T2" /\ tick <= 1

\* The OCD withholds READY# from the cycle a wait has seen.
Held ==
    /\ seen /\ en /\ ~ready /\ InCycle
    /\ t = "T1" => \/ st = "STORE_FETCH" /\ tick >= 2
                   \/ st = "FETCH" /\ tick >= 3
    /\ t = "T2" /\ ads /\ st \in {"EXEC", "STORE"} => tick = 1

\* start finds a write held whose word has been read, and gives it back.
Granted ==
    /\ seen /\ answered /\ en /\ ~ready /\ prog = "start"
    /\ t = "T2" /\ (ads => tick = 1)

\* It has been answered, or reset released, and ends with the T state.
Ending ==
    \/ tick >= Age - 1 /\ (t = "reset" \/ (t = "T2" /\ seen /\ answered /\ ready))
    \/ tick <= Age - 2 /\ t \in {"Ti", "T1"} /\ ~seen

LetGo == en /\ ~hold /\ Ending

\* A wait for the next cycle.
Open == en /\ t \in {"Ti", "T1", "Th"} /\ (hold => t = "Th")

Parked == en /\ hold /\ t = "Th"

\* Memory answers, or a write that has been given back is about to end.
Loose == ~en /\ (seen => answered /\ t = "T2" /\ (ads => tick = 1))

\* What the reset program may find.
BeforeReset ==
    \/ Loose
    \/ en /\ ~ready /\ seen /\ t = "T2"
    \/ Parked
    \/ reset

AtOff ==
    Here = "off" => Loose

AtReset ==
    Here = "reset" => /\ pc <= 1 /\ ~Stores => BeforeReset
                      /\ pc > 1 \/ Stores => reset
                      /\ seen => answered \/ (en /\ ~ready)
                      /\ pc = 3 \/ (pc = 2 /\ Stores) => en

AtStart ==
    Here = "start" => \/ ~reset /\ Granted
                      \/ Stores /\ ~reset /\ LetGo /\ t = "reset"
                      \/ ~Stores /\ reset /\ en /\ t = "reset"

AtHeld ==
    Here = "held" => IF Stores /\ Doing \in Answers THEN LetGo /\ ready /\ t = "T2"
                     ELSE Held

AtDue ==
    Here = "due" => CASE Stores -> JustCaught
                      [] st = "EXEC" -> Open /\ ~hold
                      [] OTHER -> LetGo /\ ready

AtBegin ==
    Here = "begin" => IF Doing = "WAITADS" /\ st = "EXEC" THEN Open
                      ELSE IF Stores /\ Doing = "WAITADS" THEN JustCaught ELSE Parked

AtDetach ==
    Here = "detach" => IF Stores THEN Loose /\ t # "reset" ELSE LetGo \/ Granted

AtLoose ==
    Here = "loose" => IF Stores /\ Doing \in Waits THEN JustCaught
                      ELSE Loose /\ t # "reset"

AtDrain ==
    Here = "drain" => /\ en /\ ready /\ (seen => answered) /\ (t = "Th" => hold)
                      /\ Stores /\ Doing = "HOLD" => t = "Th"
                      /\ t # "reset"

AtParked ==
    Here = "parked" => Parked

PlaceInv ==
    /\ AtOff /\ AtReset /\ AtStart /\ AtHeld /\ AtDue
    /\ AtBegin /\ AtDetach /\ AtLoose /\ AtDrain /\ AtParked

\* Only the reset program resets the CPU, a program that stops is at its EXIT.
ClockInv ==
    /\ pc = 0 => st = "STORE"
    /\ reset => Here \in {"reset", "start"}
    /\ stop => st = "EXEC" /\ Doing = "EXIT"
    /\ Stores => Doing # "EXIT"
    /\ seen => InCycle
    /\ ads => t = "T1" \/ (t \in {"T2", "reset"} /\ tick <= 1)
    /\ PlaceInv

-----------------------------------------------------------------------------
(* Steps *)

\* What a tick does besides the OCD: the CPU's T state, and what the pins show.
Around(a) ==
    /\ CpuEdge /\ ads' = a
    /\ seen' = (/\ ~(LastTick /\ (CycleEnds \/ reset))
                /\ seen \/ (st = "EXEC" /\ Op \in Waits /\ ~ExecWait(a)))
    /\ answered' = (/\ ~(LastTick /\ (CycleEnds \/ reset))
                    /\ ~(st = "EXEC" /\ Op \in Waits /\ ~ExecWait(a))
                    /\ answered \/ (st = "EXEC" /\ Op \in Answers))

LEMMA TickParts ==
    ASSUME Tick
    PROVE  \E a \in AdsSeen : OcdEdge(a) /\ BcEdge(a) /\ Around(a)
BY DEF Tick, Around

\* The CPU's T state at the next tick.
LEMMA CpuMoves ==
    ASSUME ClockType, CpuEdge
    PROVE  /\ tick' = IF tick = 3 THEN 0 ELSE tick + 1
           /\ tick # 3 => t' = t /\ kind' = kind
           /\ tick = 3 =>
                /\ reset => t' = "reset"
                /\ ~reset /\ t = "reset" => t' = "Ti"
                /\ ~reset /\ t = "T1" => t' = "T2" /\ kind' = kind
                /\ ~reset /\ t = "T2" /\ ~ReadyPin => t' = "T2" /\ kind' = kind
                /\ ~reset /\ t = "Th" /\ hold => t' = "Th"
                /\ ~reset /\ (t = "Ti" \/ (t = "T2" /\ ReadyPin) \/ (t = "Th" /\ ~hold)) =>
                      /\ t' \in {"Ti", "Th", "T1"}
                      /\ t' = "Th" => hold
                      /\ t' = "T1" => ~hold /\ kind' \in Kinds /\ (kind' = "io" => since' >= IoGap)
           /\ t' \in TStates /\ tick' \in 0 .. 3 /\ kind' \in Kinds
<1>1. tick \in 0 .. 3 /\ t \in TStates /\ kind \in Kinds
  BY DEF ClockType
<1>2. tick' = IF tick = 3 THEN 0 ELSE tick + 1
  BY <1>1 DEF CpuEdge, TicksPerState
<1>3. tick # 3 => t' = t /\ kind' = kind
  BY <1>1 DEF CpuEdge, TicksPerState, LastTick
<1>4. tick = 3 /\ reset => t' = "reset" /\ kind' = kind
  BY <1>1 DEF CpuEdge, TicksPerState, LastTick
<1>5. tick = 3 /\ ~reset /\ t = "reset" => t' = "Ti" /\ kind' = kind
  BY <1>1 DEF CpuEdge, TicksPerState, LastTick
<1>6. tick = 3 /\ ~reset /\ t = "T1" => t' = "T2" /\ kind' = kind
  BY <1>1 DEF CpuEdge, TicksPerState, LastTick
<1>7. tick = 3 /\ ~reset /\ t = "T2" /\ ~ReadyPin => t' = "T2" /\ kind' = kind
  BY <1>1 DEF CpuEdge, TicksPerState, LastTick
<1>8. tick = 3 /\ ~reset /\ t = "Th" /\ hold => t' = "Th" /\ kind' = kind
  BY <1>1 DEF CpuEdge, TicksPerState, LastTick
<1>9. tick = 3 /\ ~reset /\ (t = "Ti" \/ (t = "T2" /\ ReadyPin) \/ (t = "Th" /\ ~hold)) =>
        NextState
  BY <1>1 DEF CpuEdge, TicksPerState, LastTick
<1>10. NextState => /\ t' \in {"Ti", "Th", "T1"} /\ kind' \in Kinds
                    /\ t' = "Th" => hold
                    /\ t' = "T1" => ~hold /\ kind' \in Kinds /\ (kind' = "io" => since' >= IoGap)
  BY <1>1 DEF NextState
<1>11. t' \in TStates /\ kind' \in Kinds
  BY <1>1, <1>3, <1>4, <1>5, <1>6, <1>7, <1>8, <1>9, <1>10 DEF TStates
<1>12. tick' \in 0 .. 3
  BY <1>1, <1>2
<1> QED
  BY <1>2, <1>3, <1>4, <1>5, <1>6, <1>7, <1>8, <1>9, <1>10, <1>11, <1>12

\* ADS# is seen a tick late at most.
LEMMA AdsKept ==
    ASSUME ClockType, ClockInv, NEW a \in AdsSeen, Around(a)
    PROVE  /\ a \in BOOLEAN /\ ads' \in BOOLEAN
           /\ a => \/ t = "T1"
                   \/ t \in {"T2", "reset"} /\ tick = 0
           /\ t = "T1" /\ tick > 0 => a
           /\ ads' => t' = "T1" \/ (t' \in {"T2", "reset"} /\ tick' <= 1)
<1>1. t \in TStates /\ tick \in 0 .. 3 /\ ads \in BOOLEAN /\ reset \in BOOLEAN
  BY DEF ClockType
<1>2. CpuEdge /\ ads' = a
  BY DEF Around
<1>3. (a = ads /\ tick = 0) \/ a = (t = "T1")
  BY DEF AdsSeen, Ads
<1>4. tick > 0 => a = (t = "T1")
  BY DEF AdsSeen, Ads
<1>5. ads => t = "T1" \/ (t \in {"T2", "reset"} /\ tick <= 1)
  BY DEF ClockInv
<1>6. a \in BOOLEAN
  BY <1>1, <1>3
<1>7. a => \/ t = "T1"
           \/ t \in {"T2", "reset"} /\ tick = 0
  <2>1. CASE a = (t = "T1")
    BY <2>1
  <2>2. CASE a = ads /\ tick = 0
    BY <1>5, <2>2
  <2> QED
    BY <1>3, <2>1, <2>2
<1>8. t = "T1" /\ tick > 0 => a
  BY <1>4
<1>9. ads' => t' = "T1" \/ (t' \in {"T2", "reset"} /\ tick' <= 1)
  BY <1>1, <1>2, <1>7, CpuMoves
<1> QED
  BY <1>2, <1>6, <1>7, <1>8, <1>9

\* What becomes of the cycle a wait has seen, between two instructions.
Passing ==
    /\ seen' = (seen /\ ~(tick = 3 /\ (CycleEnds \/ reset)))
    /\ answered' = (answered /\ ~(tick = 3 /\ (CycleEnds \/ reset)))

\* The pin shows ADS# a tick late at most.
Lagging == ads' => t = "T1" \/ (tick = 0 /\ ads)

\* The OCD withholds READY# from a write that start is about to give back.
LEMMA GrantedStays ==
    ASSUME ClockType, Granted, ~reset, CpuEdge, Passing, Lagging,
           en' = en, ready' = ready, prog' = prog
    PROVE  Granted'
<1>1. t = "T2" /\ tick \in 0 .. 3 /\ seen /\ answered /\ en /\ ~ready
  BY DEF ClockType, Granted
<1>2. ~ReadyPin /\ ~CycleEnds
  BY <1>1 DEF ReadyPin, CycleEnds
<1>3. t' = "T2"
  BY <1>1, <1>2, CpuMoves
<1>4. seen' /\ answered'
  BY <1>1, <1>2 DEF Passing
<1>5. ~ads'
  BY <1>1 DEF Granted, Lagging
<1> QED
  BY <1>1, <1>3, <1>4, <1>5 DEF Granted

\* The bus stays the program's.
LEMMA LooseStays ==
    ASSUME ClockType, ClockInv, Loose, ~reset, CpuEdge, Passing, Lagging, ~en'
    PROVE  Loose'
<1>1. t \in TStates /\ tick \in 0 .. 3 /\ seen \in BOOLEAN /\ answered \in BOOLEAN
  BY DEF ClockType
<1> SUFFICES ASSUME seen' PROVE answered' /\ t' = "T2" /\ ~ads'
  BY DEF Loose
<1>2. seen /\ answered /\ t = "T2" /\ (ads => tick = 1) /\ ~(tick = 3 /\ CycleEnds)
  BY DEF Loose, Passing
<1>3. answered'
  BY <1>2 DEF Passing
<1>4. tick = 3 => ~ReadyPin
  BY <1>2 DEF CycleEnds, LastTick, TicksPerState
<1>5. t' = "T2"
  BY <1>1, <1>2, <1>4, CpuMoves
<1>6. ~ads'
  BY <1>2 DEF Lagging
<1> QED
  BY <1>3, <1>5, <1>6

\* A cycle that is let go ends with its T state, in whatever state the OCD is by then.
LEMMA EndsOn ==
    ASSUME ClockType, ClockInv, CpuEdge, Passing, LetGo, ~reset, Age \in 1 .. 4,
           Age' = Age + 1, en' = en, hold' = hold, ready' = ready
    PROVE  LetGo'
<1>1. /\ en \in BOOLEAN /\ ready \in BOOLEAN /\ hold \in BOOLEAN
      /\ t \in TStates /\ tick \in 0 .. 3 /\ seen \in BOOLEAN /\ answered \in BOOLEAN
  BY DEF ClockType
<1>2. en /\ ~hold /\ Ending /\ (seen => t \in {"T1", "T2"})
  BY DEF LetGo, ClockInv, InCycle
<1>3. CASE tick >= Age - 1 /\ tick # 3
  <2>1. t' = t /\ tick' = tick + 1 /\ tick' >= Age' - 1
    BY <1>1, <1>3, CpuMoves
  <2>2. \/ t = "reset"
        \/ t = "T2" /\ seen /\ answered /\ ready
    BY <1>1, <1>2, <1>3 DEF Ending
  <2>3. seen' = seen /\ answered' = answered
    BY <1>1, <1>3 DEF Passing
  <2> QED
    BY <1>2, <2>1, <2>2, <2>3 DEF LetGo, Ending
<1>4. CASE tick >= Age - 1 /\ tick = 3
  <2>1. tick' = 0 /\ tick' <= Age' - 2
    BY <1>1, <1>4, CpuMoves
  <2>2. \/ t = "reset" /\ ~seen
        \/ t = "T2" /\ ReadyPin
    BY <1>1, <1>2, <1>4 DEF Ending, ReadyPin
  <2>3. t' \in {"Ti", "T1"}
    BY <1>1, <1>2, <1>4, <2>2, CpuMoves
  <2>4. ~seen'
    <3>1. CASE ~seen
      BY <3>1 DEF Passing
    <3>2. CASE t = "T2" /\ ReadyPin
      <4>1. CycleEnds
        BY <1>4, <3>2 DEF CycleEnds, LastTick, TicksPerState
      <4> QED
        BY <1>4, <4>1 DEF Passing
    <3> QED
      BY <2>2, <3>1, <3>2
  <2> QED
    BY <1>2, <2>1, <2>3, <2>4 DEF LetGo, Ending
<1>5. CASE ~(tick >= Age - 1)
  <2>1. tick # 3 /\ t \in {"Ti", "T1"} /\ ~seen
    BY <1>1, <1>2, <1>5 DEF Ending
  <2>2. t' = t /\ tick' = tick + 1 /\ tick' <= Age' - 2
    BY <1>1, <1>2, <1>5, <2>1, CpuMoves DEF Ending
  <2>3. ~seen'
    BY <2>1 DEF Passing
  <2> QED
    BY <1>2, <2>1, <2>2, <2>3 DEF LetGo, Ending
<1> QED
  BY <1>3, <1>4, <1>5

Unchanged == /\ prog' = prog /\ Here' = Here
             /\ stop' = stop /\ en' = en /\ ready' = ready /\ hold' = hold /\ reset' = reset

\* The OCD between two instructions.
LEMMA QuietPlace ==
    ASSUME ClockType, ClockInv, CpuEdge, Passing, Lagging, Unchanged,
           \/ pc > 0 /\ pc' = pc /\ st = "STORE_FETCH" /\ st' = "FETCH"
           \/ pc > 0 /\ pc' = pc /\ st = "FETCH" /\ st' = "LOAD"
           \/ pc > 0 /\ pc' = pc /\ st = "LOAD" /\ st' = "EXEC"
           \/ /\ pc = 0 /\ pc' = 1 /\ st = "STORE" /\ st' = "STORE_FETCH"
              /\ Here \notin {"due", "detach", "drain"}
    PROVE  PlaceInv'
<1>1. /\ en \in BOOLEAN /\ ready \in BOOLEAN /\ hold \in BOOLEAN /\ reset \in BOOLEAN
      /\ t \in TStates /\ tick \in 0 .. 3 /\ seen \in BOOLEAN /\ answered \in BOOLEAN
  BY DEF ClockType
<1>2. ~Stores /\ ~Stores' /\ st' # "STORE" /\ st # "EXEC"
  BY DEF Stores, InReset
<1>3. PlaceInv /\ (reset => Here \in {"reset", "start"})
  BY DEF ClockInv
<1> USE DEF Unchanged, InCycle, PlaceInv
<1>4. AtOff'
  BY <1>3, LooseStays DEF AtOff, Loose
<1>15. ASSUME Granted, ~reset PROVE Granted'
  BY <1>15, GrantedStays
<1>5. AtStart'
  <2> SUFFICES ASSUME Here = "start"
               PROVE  \/ ~reset /\ Granted'
                      \/ reset /\ en' /\ t' = "reset"
    BY <1>2 DEF AtStart
  <2>1. CASE ~reset /\ Granted
    BY <1>15, <2>1
  <2>2. CASE reset /\ en /\ t = "reset"
    BY <1>1, <2>2, CpuMoves
  <2> QED
    BY <1>2, <1>3, <2>1, <2>2 DEF AtStart
<1>6. AtHeld'
  <2> SUFFICES ASSUME Here = "held" PROVE Held'
    BY <1>2 DEF AtHeld
  <2>1. Held /\ ~reset
    BY <1>2, <1>3 DEF AtHeld
  <2>2. seen /\ en /\ ~ready /\ ~CycleEnds
    BY <2>1 DEF Held, CycleEnds, ReadyPin
  <2>3. seen' /\ en' /\ ~ready'
    BY <2>1, <2>2 DEF Passing
  <2>4. \/ t' = t
        \/ t = "T1" /\ t' = "T2"
    BY <1>1, <2>1, <2>2, CpuMoves DEF Held, ReadyPin
  <2>5. t' = "T1" => \/ st' = "STORE_FETCH" /\ tick' >= 2
                     \/ st' = "FETCH" /\ tick' >= 3
    BY <1>1, <1>2, <2>1, <2>4, CpuMoves DEF Held
  <2>6. t' = "T2" /\ ads' /\ st' = "EXEC" => tick' = 1
    <3> SUFFICES ASSUME ads', st' = "EXEC" PROVE tick' = 1
      OBVIOUS
    <3>1. t = "T2"
      BY <2>1 DEF Held
    <3>2. tick = 0
      BY <3>1 DEF Lagging
    <3> QED
      BY <3>2, CpuMoves
  <2> QED
    BY <1>2, <2>1, <2>3, <2>4, <2>5, <2>6 DEF Held
<1>14. ASSUME LetGo, ~reset, pc > 0 PROVE LetGo'
  <2>1. Age \in 1 .. 4 /\ Age' = Age + 1
    BY <1>14 DEF Age
  <2> QED
    BY <1>14, <2>1, EndsOn
<1>7. AtDue'
  <2> SUFFICES ASSUME Here = "due"
               PROVE  IF st' = "EXEC" THEN Open' /\ ~hold' ELSE LetGo' /\ ready'
    BY <1>2 DEF AtDue
  <2>1. LetGo /\ ready /\ ~reset /\ pc > 0
    BY <1>2, <1>3 DEF AtDue
  <2>2. LetGo' /\ ready'
    BY <1>14, <2>1
  <2>3. ASSUME st' = "EXEC" PROVE Open' /\ ~hold'
    <3>1. t' \in {"Ti", "T1"} /\ en' /\ ~hold'
      <4>1. tick' \in 0 .. 3
        BY CpuMoves
      <4>2. Age' = 5
        BY <2>3 DEF Age
      <4> QED
        BY <2>2, <4>1, <4>2 DEF LetGo, Ending
    <3> QED
      BY <3>1 DEF Open
  <2> QED
    BY <2>2, <2>3
<1>8. AtBegin'
  BY <1>1, <1>2, <1>3, CpuMoves DEF AtBegin, Passing, Open, Parked
<1>9. AtDetach'
  <2> SUFFICES ASSUME Here = "detach" PROVE LetGo' \/ Granted'
    BY <1>2 DEF AtDetach
  <2> QED
    BY <1>2, <1>3, <1>14, <1>15 DEF AtDetach
<1>10. AtLoose'
  <2> SUFFICES ASSUME Here = "loose" PROVE Loose' /\ t' # "reset"
    BY <1>2 DEF AtLoose
  <2>1. Loose /\ t # "reset" /\ ~reset
    BY <1>2, <1>3 DEF AtLoose
  <2>2. Loose'
    BY <2>1, LooseStays DEF Loose
  <2> QED
    BY <1>1, <2>1, <2>2, CpuMoves DEF TStates
<1>11. AtDrain'
  BY <1>1, <1>2, <1>3, CpuMoves DEF AtDrain, Passing, TStates
<1>12. AtParked'
  BY <1>1, <1>2, <1>3, CpuMoves DEF AtParked, Passing, Parked
<1>13. AtReset'
  <2> SUFFICES ASSUME Here = "reset" PROVE AtReset'
    BY DEF AtReset
  <2>1. Loose /\ ~reset => Loose'
    BY LooseStays DEF Loose
  <2>2. Parked /\ ~reset => Parked'
    BY <1>1, CpuMoves DEF Parked
  <2>3. en /\ ~ready /\ seen /\ t = "T2" /\ ~reset => en' /\ ~ready' /\ seen' /\ t' = "T2"
    BY <1>1, CpuMoves DEF Passing, CycleEnds, ReadyPin
  <2>4. BeforeReset => BeforeReset'
    BY <2>1, <2>2, <2>3 DEF BeforeReset
  <2>5. seen' => answered' \/ (en' /\ ~ready')
    BY <1>3 DEF AtReset, Passing
  <2> QED
    BY <1>1, <1>2, <1>3, <2>4, <2>5 DEF AtReset
<1> QED
  BY <1>4, <1>5, <1>6, <1>7, <1>8, <1>9, <1>10, <1>11, <1>12, <1>13

\* The OCD executes.
LEMMA ExecParts ==
    ASSUME ClockType, NEW a \in AdsSeen, Around(a), DoExec(a), st = "EXEC", pc > 0
    PROVE  /\ Here' = Here /\ Op' = Op /\ Doing = Op /\ Doing' = Op /\ pc' = pc /\ prog' = prog
           /\ st' = IF ExecWait(a) THEN "EXEC" ELSE "STORE"
           /\ Stores' <=> st' = "STORE"
           /\ Op \notin Waits => Passing \/ (Op \in Answers /\ ~(tick = 3 /\ (CycleEnds \/ reset)))
           /\ ExecWait(a) => Passing
           /\ Op \in Waits /\ ~ExecWait(a) /\ ~(tick = 3 /\ (CycleEnds \/ reset)) => seen'
           /\ Op \in Answers /\ ~(tick = 3 /\ (CycleEnds \/ reset)) =>
                 answered' /\ (seen => seen')
<1>1. pc \in Nat /\ en \in BOOLEAN /\ seen \in BOOLEAN /\ answered \in BOOLEAN
  BY AllPlaced DEF ClockType
<1>2. pc' = pc /\ prog' = prog /\ st' = IF ExecWait(a) THEN "EXEC" ELSE "STORE"
  BY DEF DoExec
<1>3. Here' = Here /\ Op' = Op
  BY <1>2 DEF Here, Op
<1>4. Doing = Op /\ Doing' = Op
  BY <1>2, <1>3 DEF Doing, InReset
<1>5. Stores' <=> st' = "STORE"
  BY <1>2 DEF Stores, InReset
<1>6. Op \in Answers => Op \notin Waits
  BY DEF Answers, Waits
<1>7. LastTick <=> tick = 3
  BY DEF LastTick, TicksPerState
<1>8. ~(Op \in Waits /\ ~ExecWait(a)) /\ Op \notin Answers => Passing
  BY <1>1, <1>7 DEF Around, Passing
<1>9. ExecWait(a) => Op \notin Answers
  BY DEF ExecWait, Answers
<1>10. Op \in Waits /\ ~ExecWait(a) /\ ~(tick = 3 /\ (CycleEnds \/ reset)) => seen'
  BY <1>7 DEF Around
<1>11. Op \in Answers /\ tick = 3 /\ (CycleEnds \/ reset) => Passing
  BY <1>1, <1>6, <1>7 DEF Around, Passing
<1>12. Op \in Answers /\ ~(tick = 3 /\ (CycleEnds \/ reset)) => answered' /\ (seen => seen')
  BY <1>6, <1>7 DEF Around
<1> QED
  BY <1>2, <1>3, <1>4, <1>5, <1>8, <1>9, <1>10, <1>11, <1>12

\* A wait that is over has seen a cycle begin.
LEMMA Catches ==
    ASSUME ClockType, ClockInv, NEW a \in AdsSeen, Around(a), DoExec(a), st = "EXEC", pc > 0,
           Op \in Waits, ~ExecWait(a), ~reset, t # "reset"
    PROVE  JustCaught' /\ t \in {"T1", "T2"} /\ (t = "T2" => tick = 0)
<1>1. t \in TStates /\ tick \in 0 .. 3
  BY DEF ClockType
<1>2. a
  BY DEF ExecWait, Waits
<1>3. t = "T1" \/ (t = "T2" /\ tick = 0)
  BY <1>2, AdsKept
<1>4. ~(tick = 3 /\ (CycleEnds \/ reset))
  BY <1>3 DEF CycleEnds
<1>5. seen'
  BY <1>4, ExecParts
<1>6. CpuEdge
  BY DEF Around
<1>7. \/ t' = "T1" /\ tick' >= 1
      \/ t' = "T2" /\ tick' <= 1
  BY <1>1, <1>3, <1>6, CpuMoves
<1> QED
  BY <1>3, <1>5, <1>7 DEF JustCaught

\* A wait that goes on leaves the next cycle to come.
LEMMA StaysOpen ==
    ASSUME ClockType, ClockInv, NEW a \in AdsSeen, Around(a), Open, ~a, ~reset, en', ~hold'
    PROVE  Open'
<1>1. t \in TStates /\ tick \in 0 .. 3 /\ hold \in BOOLEAN
  BY DEF ClockType
<1>2. t = "T1" => tick = 0
  BY <1>1, AdsKept
<1>3. CpuEdge
  BY DEF Around
<1>4. t' \in {"Ti", "T1", "Th"}
  BY <1>1, <1>2, <1>3, CpuMoves DEF Open
<1> QED
  BY <1>4 DEF Open

LEMMA ExecPlace ==
    ASSUME ClockType, ClockInv, NEW a \in AdsSeen, Around(a), DoExec(a), st = "EXEC", pc > 0
    PROVE  PlaceInv'
<1>1. /\ en \in BOOLEAN /\ ready \in BOOLEAN /\ hold \in BOOLEAN /\ reset \in BOOLEAN
      /\ t \in TStates /\ tick \in 0 .. 3 /\ seen \in BOOLEAN /\ answered \in BOOLEAN
      /\ prog \in ProgramNames /\ pc \in 1 .. Len(Code[prog]) /\ pc \in Nat
  BY AllPlaced DEF ClockType
<1>2. PlaceInv /\ (reset => Here \in {"reset", "start"}) /\ ~Stores
  BY DEF ClockInv, Stores
<1>3. CpuEdge /\ Lagging
  BY DEF Around, AdsSeen, Ads, Lagging
<1>4. /\ Op = "EXIT" => Ends(prog, pc, Here)
      /\ Op # "EXIT" => \E to : Leads(Op, Here, to)
  BY <1>1, AllPlaced DEF Placed, After, Op, Here
<1>5. /\ en' = ((en \/ Op = "ATTACH") /\ Op # "DETACH")
      /\ reset' = ((reset \/ Op = "RESET") /\ Op # "START")
      /\ ready' = (ready \/ Op \in AssertsReady)
      /\ hold' = ((hold \/ Op = "HOLD") /\ Op \notin AssertsReady \cup {"START"})
  BY DEF DoExec
<1> USE DEF PlaceInv
<1>6. CASE Op = "EXIT"
  <2>1. en' = en /\ reset' = reset /\ ready' = ready /\ hold' = hold
    BY <1>1, <1>5, <1>6 DEF AssertsReady
  <2>2. ExecWait(a)
    BY <1>6 DEF ExecWait
  <2>3. Here' = Here /\ pc' = pc /\ st' = "EXEC" /\ ~Stores' /\ Passing
    BY <2>2, ExecParts
  <2>4. \/ Here = "off"
        \/ Here = "reset" /\ pc = 3
        \/ Here = "held"
        \/ Here = "parked"
    BY <1>4, <1>6 DEF Ends
  <2>5. AtOff'
    BY <1>2, <1>3, <2>1, <2>3, LooseStays DEF AtOff, Loose
  <2>6. AtReset'
    BY <1>1, <1>2, <2>1, <2>3, <2>4 DEF AtReset, Passing
  <2>7. AtHeld'
    <3> SUFFICES ASSUME Here = "held" PROVE Held'
      BY <2>3 DEF AtHeld
    <3>1. Held /\ ~reset
      BY <1>2 DEF AtHeld
    <3>2. t = "T2" /\ seen /\ en /\ ~ready /\ (ads => tick = 1)
      BY <3>1 DEF Held, InCycle
    <3>3. t' = "T2" /\ seen'
      BY <1>1, <1>3, <2>3, <3>1, <3>2, CpuMoves DEF Passing, CycleEnds, ReadyPin
    <3>4. ~ads'
      BY <1>3, <3>2 DEF Lagging
    <3> QED
      BY <2>1, <3>2, <3>3, <3>4 DEF Held, InCycle
  <2>8. AtParked'
    BY <1>1, <1>2, <1>3, <2>1, <2>3, CpuMoves DEF AtParked, Parked
  <2> QED
    BY <2>3, <2>4, <2>5, <2>6, <2>7, <2>8
       DEF AtStart, AtDue, AtBegin, AtDetach, AtLoose, AtDrain
<1>7. ASSUME Op # "EXIT" PROVE AtOff'
  BY <1>4, <1>7, ExecParts DEF Leads, AtOff
<1>8. ASSUME Op # "EXIT", Here = "reset" PROVE AtReset'
  <2>1. prog = "reset"
    BY <1>1, <1>8, PlacesOf DEF Here
  <2>2. \/ pc = 1 /\ Op = "RESET"
        \/ pc = 2 /\ Op = "ATTACH"
    BY <1>1, <1>8, <2>1, ResetText DEF Op
  <2>3. Passing /\ Stores' /\ pc' = pc
    BY <2>2, ExecParts DEF Answers, Waits, ExecWait
  <2>4. reset'
    <3>1. CASE Op = "RESET"
      BY <1>5, <3>1
    <3>2. CASE pc = 2 /\ Op = "ATTACH"
      <4>1. reset
        BY <1>2, <1>8, <3>2 DEF AtReset
      <4> QED
        BY <1>5, <3>2, <4>1
    <3> QED
      BY <2>2, <3>1, <3>2
  <2>5. seen => answered \/ (en /\ ~ready)
    BY <1>2, <1>8 DEF AtReset
  <2>6. seen' => answered' \/ (en' /\ ~ready')
    <3>1. en => en'
      BY <1>5, <2>2
    <3>2. ~ready => ~ready'
      BY <1>5, <2>2 DEF AssertsReady
    <3> QED
      BY <2>3, <2>5, <3>1, <3>2 DEF Passing
  <2>7. pc = 2 => en'
    <3>1. pc = 2 => Op = "ATTACH"
      BY <2>2
    <3>2. Op = "ATTACH" => en'
      BY <1>5
    <3> QED
      BY <3>1, <3>2
  <2>8. pc' # 3
    BY <2>2, <2>3
  <2> QED
    BY <2>3, <2>4, <2>6, <2>7, <2>8 DEF AtReset
<1>9. ASSUME Here = "start" PROVE AtStart'
  <2>1. Op = "START"
    BY <1>4, <1>9 DEF Leads, Ends
  <2>2. en
    BY <1>2, <1>9 DEF AtStart, Granted
  <2>3. ~reset' /\ en' /\ ~hold' /\ (~ready => ~ready')
    BY <1>5, <2>1, <2>2 DEF AssertsReady
  <2>5. st' = "STORE" /\ Stores' /\ Passing /\ prog' = prog
    BY <2>1, ExecParts DEF ExecWait, Waits, Answers
  <2>6. Age' = 1
    BY <2>5 DEF Age
  <2>7. CASE reset /\ t = "reset"
    <3>1. t' = "reset" /\ tick' \in 0 .. 3
      BY <1>1, <1>3, <2>7, CpuMoves
    <3>2. Ending'
      BY <2>6, <3>1 DEF Ending
    <3> QED
      BY <2>3, <2>5, <3>1, <3>2 DEF AtStart, LetGo
  <2>8. CASE ~reset /\ Granted
    <3>1. ~ready /\ ~ready'
      BY <2>3, <2>8 DEF Granted
    <3>2. en' = en /\ ready' = ready
      BY <1>1, <1>5, <2>1, <2>2, <2>3, <3>1 DEF AssertsReady
    <3>3. Granted'
      BY <1>3, <2>5, <2>8, <3>2, GrantedStays
    <3> QED
      BY <2>3, <3>3 DEF AtStart
  <2> QED
    BY <1>2, <1>9, <2>7, <2>8 DEF AtStart
<1>10. ASSUME Op # "EXIT", Here = "held" PROVE AtHeld'
  <2>1. seen /\ en /\ ~ready /\ t = "T2" /\ ~reset
    BY <1>2, <1>10 DEF AtHeld, Held, InCycle
  <2>2. Op \in Inner \cup Answers
    BY <1>4, <1>10 DEF Leads
  <2>3. en' /\ t' = "T2" /\ tick' \in 0 .. 3 /\ ~CycleEnds
    BY <1>1, <1>3, <1>5, <2>1, <2>2, CpuMoves DEF Inner, Answers, CycleEnds, ReadyPin
  <2>4. st' = "STORE" /\ Stores' /\ Doing' = Op
    BY <2>2, ExecParts DEF ExecWait, Inner, Answers
  <2>5. CASE Op \in Inner
    <3>1. ~ready' /\ Passing
      BY <1>5, <2>1, <2>5, ExecParts DEF Inner, AssertsReady, Waits, Answers
    <3>2. seen'
      BY <2>1, <2>3, <3>1 DEF Passing
    <3>3. ~ads'
      <4>1. ads => tick = 1
        BY <1>2, <1>10, <2>1 DEF AtHeld, Held
      <4> QED
        BY <1>3, <2>1, <4>1 DEF Lagging
    <3> QED
      BY <2>3, <2>4, <2>5, <3>1, <3>2, <3>3 DEF AtHeld, Held, InCycle, Inner, Answers
  <2>6. CASE Op \in Answers
    <3>1. ready' /\ ~hold'
      BY <1>5, <2>6 DEF Answers, AssertsReady
    <3>2. seen' /\ answered'
      BY <2>1, <2>3, <2>6, ExecParts
    <3>3. Age' = 1
      BY <2>4 DEF Age
    <3>4. LetGo'
      BY <2>3, <3>1, <3>2, <3>3 DEF LetGo, Ending
    <3> QED
      BY <2>3, <2>4, <3>1, <3>4, <2>6 DEF AtHeld
  <2> QED
    BY <2>2, <2>5, <2>6
<1>11. ASSUME Here = "due" PROVE AtDue'
  <2>1. Op = "WAITADS"
    BY <1>4, <1>11 DEF Leads, Ends
  <2>2. Open /\ ~hold /\ ~reset
    BY <1>2, <1>11 DEF AtDue
  <2>3. en' /\ ~hold'
    BY <1>5, <2>1, <2>2 DEF Open, AssertsReady
  <2>4. CASE ExecWait(a)
    <3>1. ~a
      BY <2>1, <2>4 DEF ExecWait
    <3>2. Open'
      BY <2>2, <2>3, <3>1, StaysOpen
    <3>3. st' = "EXEC" /\ ~Stores'
      BY <2>4, ExecParts
    <3> QED
      BY <2>3, <3>2, <3>3 DEF AtDue
  <2>5. CASE ~ExecWait(a)
    <3>1. JustCaught'
      BY <2>1, <2>2, <2>5, Catches DEF Waits, Open
    <3>2. Stores' /\ st' = "STORE"
      BY <2>5, ExecParts
    <3> QED
      BY <3>1, <3>2 DEF AtDue
  <2> QED
    BY <2>4, <2>5
<1>12. ASSUME Here = "begin" PROVE AtBegin'
  <2>1. Op \in {"LDI", "WAITADS"}
    BY <1>4, <1>12 DEF Leads, Ends
  <2>2. CASE Op = "LDI"
    <3>1. Parked /\ ~reset
      BY <1>2, <1>12, <2>2, ExecParts DEF AtBegin
    <3>2. Parked'
      BY <1>1, <1>3, <1>5, <2>2, <3>1, CpuMoves DEF Parked, AssertsReady
    <3> QED
      BY <2>2, <3>2, ExecParts DEF AtBegin
  <2>3. CASE Op = "WAITADS"
    <3>1. Open /\ ~reset
      BY <1>2, <1>12, <2>3, ExecParts DEF AtBegin
    <3>2. en' /\ ~hold'
      BY <1>5, <2>3, <3>1 DEF Open, AssertsReady
    <3>3. CASE ExecWait(a)
      <4>1. ~a
        BY <2>3, <3>3 DEF ExecWait
      <4>2. Open'
        BY <3>1, <3>2, <4>1, StaysOpen
      <4>3. st' = "EXEC" /\ Doing' = "WAITADS"
        BY <2>3, <3>3, ExecParts
      <4> QED
        BY <4>2, <4>3 DEF AtBegin
    <3>4. CASE ~ExecWait(a)
      <4>1. JustCaught'
        BY <2>3, <3>1, <3>4, Catches DEF Waits, Open
      <4>2. Stores' /\ st' = "STORE" /\ Doing' = "WAITADS"
        BY <2>3, <3>4, ExecParts
      <4> QED
        BY <4>1, <4>2 DEF AtBegin
    <3> QED
      BY <3>3, <3>4
  <2> QED
    BY <2>1, <2>2, <2>3
<1>13. ASSUME Here = "detach" PROVE AtDetach'
  <2>1. Op = "DETACH"
    BY <1>4, <1>13 DEF Leads, Ends
  <2>2. Age = 5
    BY DEF Age
  <2>3. /\ ~reset
        /\ \/ t \in {"Ti", "T1"} /\ ~seen
           \/ Granted
    BY <1>1, <1>2, <1>13, <2>2 DEF AtDetach, LetGo, Ending
  <2>4. Passing /\ Stores'
    BY <2>1, ExecParts DEF Answers, Waits, ExecWait
  <2>5. ~en'
    BY <1>5, <2>1
  <2>6. t' # "reset"
    BY <1>1, <1>3, <2>3, CpuMoves DEF Granted, ReadyPin
  <2>7. CASE ~seen
    BY <2>4, <2>5, <2>6, <2>7 DEF AtDetach, Loose, Passing
  <2>8. CASE Granted
    <3>1. /\ t = "T2" /\ ~ReadyPin /\ ~CycleEnds /\ answered /\ (ads => tick = 1)
      BY <2>8 DEF Granted, ReadyPin, CycleEnds
    <3>2. t' = "T2" /\ ~ads'
      BY <1>1, <1>3, <2>3, <3>1, CpuMoves DEF Lagging
    <3>3. seen' => answered'
      BY <3>1, <2>4 DEF Passing
    <3> QED
      BY <2>4, <2>5, <3>2, <3>3 DEF AtDetach, Loose
  <2> QED
    BY <2>3, <2>7, <2>8
<1>14. ASSUME Here = "loose" PROVE AtLoose'
  <2>1. Op \in {"NMI", "WAITLOCK", "WAITIO"}
    BY <1>4, <1>14 DEF Leads, Ends
  <2>2. ~en /\ Loose /\ ~reset /\ t # "reset"
    BY <1>2, <1>14 DEF AtLoose, Loose
  <2>3. ~en' /\ t' # "reset"
    BY <1>1, <1>3, <1>5, <2>1, <2>2, CpuMoves DEF TStates
  <2>4. CASE Op \in Waits /\ ~ExecWait(a)
    <3>1. JustCaught'
      BY <2>2, <2>4, Catches
    <3>2. Stores' /\ Doing' = Op
      BY <2>4, ExecParts
    <3> QED
      BY <2>4, <3>1, <3>2 DEF AtLoose
  <2>5. CASE ~(Op \in Waits /\ ~ExecWait(a))
    <3>1. Passing
      BY <2>1, <2>5, ExecParts DEF Answers
    <3>2. Loose'
      BY <1>3, <2>2, <2>3, <3>1, LooseStays
    <3>3. ~(Stores' /\ Doing' \in Waits)
      BY <2>5, ExecParts
    <3> QED
      BY <2>3, <3>2, <3>3 DEF AtLoose
  <2> QED
    BY <2>4, <2>5
<1>15. ASSUME Here = "drain" PROVE AtDrain'
  <2>1. Op \in {"LDI", "CLR", "HOLD"}
    BY <1>4, <1>15 DEF Leads, Ends
  <2>2. /\ en /\ ready /\ (seen => answered) /\ (t = "Th" => hold) /\ t # "reset" /\ ~reset
    BY <1>2, <1>15 DEF AtDrain
  <2>3. Passing
    BY <2>1, ExecParts DEF Answers, Waits
  <2>4. en' /\ ready' /\ (hold => hold')
    BY <1>5, <2>1, <2>2 DEF AssertsReady
  <2>5. seen' => answered'
    BY <2>2, <2>3 DEF Passing
  <2>6. t' # "reset" /\ (t' = "Th" => hold)
    BY <1>1, <1>3, <2>2, CpuMoves DEF TStates
  <2>7. Stores' /\ Op = "HOLD" => t = "Th"
    BY ExecParts DEF ExecWait
  <2>8. t = "Th" => t' = "Th"
    BY <1>1, <1>3, <2>2, CpuMoves
  <2>9. Doing' = Op
    BY ExecParts
  <2> QED
    BY <2>4, <2>5, <2>6, <2>7, <2>8, <2>9 DEF AtDrain
<1>16. ASSUME Op # "EXIT" PROVE AtParked'
  BY <1>4, <1>16, ExecParts DEF Leads, AtParked
<1>17. ASSUME Op # "EXIT"
       PROVE  /\ AtReset' /\ AtStart' /\ AtHeld' /\ AtDue'
              /\ AtBegin' /\ AtDetach' /\ AtLoose' /\ AtDrain'
  <2>1. Here' = Here
    BY ExecParts
  <2>2. AtReset' /\ AtStart' /\ AtHeld' /\ AtDue'
    BY <1>8, <1>9, <1>10, <1>11, <1>17, <2>1 DEF AtReset, AtStart, AtHeld, AtDue
  <2>3. AtBegin' /\ AtDetach' /\ AtLoose' /\ AtDrain'
    BY <1>12, <1>13, <1>14, <1>15, <1>17, <2>1 DEF AtBegin, AtDetach, AtLoose, AtDrain
  <2> QED
    BY <2>2, <2>3
<1> QED
  BY <1>6, <1>7, <1>16, <1>17

\* The OCD stores.
LEMMA StoreParts ==
    ASSUME ClockType, ClockInv, NEW a \in AdsSeen, Around(a), DoStore, st = "STORE", pc > 0
    PROVE  /\ Leads(Op, Here, Here') /\ pc' \in 1 .. Len(Code[prog]) /\ prog' = prog
           /\ pc' \in After(prog, pc) /\ Op # "EXIT"
           /\ Stores /\ ~Stores' /\ st' = "STORE_FETCH" /\ Doing = Op /\ Passing
           /\ Op = "WAITIO" \/ Op' # "WAITIO" \/ Op = "DETACH"
<1>1. prog \in ProgramNames /\ pc \in 1 .. Len(Code[prog])
  BY AllPlaced DEF ClockType
<1>2. Stores /\ Doing = Op
  BY DEF Stores, Doing, InReset
<1>3. Op # "EXIT"
  BY <1>2 DEF ClockInv
<1>4. \A j \in After(prog, pc) : j \in 1 .. Len(Code[prog]) /\ Leads(Op, Here, Place(prog, j))
  BY <1>1, <1>3, AllPlaced DEF Placed, Op, Here
<1>5. Op # "BA"
  BY <1>4 DEF Leads, After, Inner, Answers
<1>6. pc' \in After(prog, pc) /\ prog' = prog /\ st' = "STORE_FETCH"
  BY <1>5 DEF DoStore, After, Op
<1>7. Here' = Place(prog, pc')
  BY <1>6 DEF Here
<1>8. Passing
  <2>1. seen \in BOOLEAN /\ answered \in BOOLEAN /\ st # "EXEC"
    BY DEF ClockType
  <2>2. LastTick <=> tick = 3
    BY DEF LastTick, TicksPerState
  <2> QED
    BY <2>1, <2>2 DEF Around, Passing
<1>9. ~Stores'
  BY <1>6 DEF Stores
<1>10. Op' # "WAITIO" \/ Op = "DETACH"
  <2>1. Op' = Code[prog][pc'].op
    BY <1>6 DEF Op
  <2> QED
    BY <1>1, <1>3, <1>6, <2>1, WaitIoText DEF Op
<1> QED
  BY <1>2, <1>3, <1>4, <1>6, <1>7, <1>8, <1>9, <1>10

\* The cycle a wait has seen is held from the moment the wait is stored.
LEMMA CaughtIsThenHeld ==
    ASSUME ClockType, CpuEdge, Passing, DoStore, JustCaught, ~reset, Op \in Waits
    PROVE  Held'
<1>1. /\ t \in TStates /\ tick \in 0 .. 3 /\ seen \in BOOLEAN
      /\ st' = "STORE_FETCH" /\ en' = (en \/ Op \in Waits) /\ ready' = (ready /\ Op \notin Waits)
  BY DEF ClockType, DoStore, EnAfterStore, ReadyAfterStore
<1>2. en' /\ ~ready'
  BY <1>1
<1>3. ~(tick = 3 /\ (CycleEnds \/ reset)) /\ seen
  BY <1>1 DEF JustCaught, CycleEnds
<1>4. seen'
  BY <1>3 DEF Passing
<1>5. t' \in {"T1", "T2"} /\ (t' = "T1" => tick' >= 2)
  BY <1>1, CpuMoves DEF JustCaught
<1> QED
  BY <1>1, <1>2, <1>4, <1>5 DEF Held, InCycle

LEMMA StorePlace ==
    ASSUME ClockType, ClockInv, NEW a \in AdsSeen, Around(a), DoStore, st = "STORE", pc > 0
    PROVE  PlaceInv'
<1>1. /\ en \in BOOLEAN /\ ready \in BOOLEAN /\ hold \in BOOLEAN /\ reset \in BOOLEAN
      /\ t \in TStates /\ tick \in 0 .. 3 /\ seen \in BOOLEAN /\ answered \in BOOLEAN
      /\ prog \in ProgramNames /\ pc \in 1 .. Len(Code[prog]) /\ pc \in Nat
  BY AllPlaced DEF ClockType
<1>2. PlaceInv /\ (reset => Here \in {"reset", "start"})
  BY DEF ClockInv
<1>3. CpuEdge /\ Lagging
  BY DEF Around, AdsSeen, Ads, Lagging
<1>4. /\ Leads(Op, Here, Here') /\ pc' \in 1 .. Len(Code[prog]) /\ prog' = prog
      /\ Stores /\ ~Stores' /\ st' = "STORE_FETCH" /\ Doing = Op /\ Passing
  BY StoreParts
<1>5. /\ en' = (en \/ Op \in Waits)
      /\ ready' = (ready /\ Op \notin Waits)
      /\ hold' = hold /\ reset' = reset
  BY DEF DoStore, EnAfterStore, ReadyAfterStore
<1>6. Op \notin Waits => en' = en /\ ready' = ready
  BY <1>1, <1>5
<1>7. ASSUME LetGo, ~reset, Op \notin Waits PROVE LetGo'
  <2>1. Age = 1 /\ Age' = 2
    BY <1>4 DEF Age, Stores
  <2> QED
    BY <1>3, <1>4, <1>5, <1>6, <1>7, <2>1, EndsOn
<1> USE DEF PlaceInv
<1>8. CASE Here = "reset"
  <2>1. Here' = "reset" /\ prog = "reset"
    BY <1>1, <1>4, <1>8, PlacesOf DEF Leads, Here
  <2>2. \/ pc = 1 /\ Op = "RESET"
        \/ pc = 2 /\ Op = "ATTACH"
    BY <1>4, <1>8, <1>1, <2>1, ResetText DEF Leads, Op
  <2>3. pc' = pc + 1
    BY <2>2 DEF DoStore
  <2>4. reset' /\ (seen' => answered' \/ (en' /\ ~ready'))
    <3>1. reset /\ (seen => answered \/ (en /\ ~ready))
      BY <1>2, <1>4, <1>8 DEF AtReset
    <3>2. Op \notin Waits
      BY <2>2 DEF Waits
    <3> QED
      BY <1>4, <1>5, <1>6, <3>1, <3>2 DEF Passing
  <2>5. pc' = 3 => en'
    <3>1. pc' = 3 => pc = 2
      BY <1>1, <2>3
    <3>2. pc = 2 => en
      BY <1>2, <1>4, <1>8 DEF AtReset
    <3> QED
      BY <1>5, <3>1, <3>2
  <2>6. ~(pc' <= 1)
    BY <2>2, <2>3
  <2>7. AtReset'
    BY <1>4, <2>4, <2>5, <2>6 DEF AtReset
  <2> QED
    BY <2>1, <2>7
       DEF AtOff, AtStart, AtHeld, AtDue, AtBegin, AtDetach, AtLoose, AtDrain, AtParked
<1>9. CASE Here = "start"
  <2>1. Here' = "detach" /\ Op = "START"
    BY <1>4, <1>9 DEF Leads
  <2>2. ~reset /\ (LetGo \/ Granted)
    BY <1>2, <1>4, <1>9 DEF AtStart
  <2>5. Granted => Granted'
    <3>1. en' = en /\ ready' = ready
      BY <1>6, <2>1 DEF Waits
    <3> QED
      BY <1>3, <1>4, <2>2, <3>1, GrantedStays
  <2>3. LetGo' \/ Granted'
    BY <1>7, <2>1, <2>2, <2>5 DEF Waits
  <2>4. AtDetach'
    BY <1>4, <2>3 DEF AtDetach
  <2> QED
    BY <2>1, <2>4
       DEF AtOff, AtReset, AtStart, AtHeld, AtDue, AtBegin, AtLoose, AtDrain, AtParked
<1>10. CASE Here = "detach" \/ (Here = "loose" /\ Op = "NMI")
  <2>1. Here' = "loose" /\ Op \notin Waits
    BY <1>4, <1>10 DEF Leads, Waits
  <2>2. Loose /\ t # "reset" /\ ~reset
    BY <1>2, <1>4, <1>10, <2>1 DEF AtDetach, AtLoose
  <2>3. Loose'
    <3>1. ~en'
      BY <1>6, <2>1, <2>2 DEF Loose
    <3> QED
      BY <1>3, <1>4, <2>2, <3>1, LooseStays
  <2>4. t' # "reset"
    BY <1>1, <1>3, <2>2, CpuMoves DEF TStates
  <2>5. AtLoose'
    BY <1>4, <2>3, <2>4 DEF AtLoose
  <2> QED
    BY <2>1, <2>5
       DEF AtOff, AtReset, AtStart, AtHeld, AtDue, AtBegin, AtDetach, AtDrain, AtParked
<1>11. CASE \/ Here = "loose" /\ Op # "NMI"
            \/ Here = "due"
            \/ Here = "begin" /\ Op = "WAITADS"
  <2>1. Here' = "held" /\ Op \in Waits
    BY <1>4, <1>11 DEF Leads, Waits
  <2>2. JustCaught /\ ~reset
    BY <1>2, <1>4, <1>11, <2>1 DEF AtLoose, AtDue, AtBegin, Stores
  <2>3. Held'
    BY <1>3, <1>4, <2>1, <2>2, CaughtIsThenHeld
  <2>4. AtHeld'
    BY <1>4, <2>3 DEF AtHeld
  <2> QED
    BY <2>1, <2>4
       DEF AtOff, AtReset, AtStart, AtDue, AtBegin, AtDetach, AtLoose, AtDrain, AtParked
<1>12. CASE Here = "held" /\ Op \in Inner
  <2>1. Here' = "held" /\ Op \notin Waits /\ Op \notin Answers
    BY <1>4, <1>12 DEF Leads, Inner, Answers, Waits
  <2>2. Held /\ ~reset
    BY <1>2, <1>4, <1>12, <2>1 DEF AtHeld
  <2>3. seen /\ en /\ ~ready /\ t = "T2"
    BY <1>4, <2>2 DEF Held, InCycle, Stores
  <2>4. ~CycleEnds
    BY <2>3 DEF CycleEnds, ReadyPin
  <2>5. seen' /\ en' /\ ~ready'
    <3>1. en' /\ ~ready'
      BY <1>6, <2>1, <2>3
    <3>2. seen'
      BY <1>4, <2>2, <2>3, <2>4 DEF Passing
    <3> QED
      BY <3>1, <3>2
  <2>6. t' = "T2"
    BY <1>1, <1>3, <2>2, <2>3, CpuMoves DEF ReadyPin
  <2>7. AtHeld'
    BY <1>4, <2>5, <2>6 DEF AtHeld, Held, InCycle
  <2> QED
    BY <2>1, <2>7
       DEF AtOff, AtReset, AtStart, AtDue, AtBegin, AtDetach, AtLoose, AtDrain, AtParked
<1>13. CASE Here = "held" /\ Op \in Answers
  <2>1. Here' \in {"due", "drain", "detach"} /\ Op \notin Waits
    BY <1>4, <1>13 DEF Leads, Inner, Answers, Waits
  <2>2. LetGo /\ ready /\ t = "T2" /\ ~reset
    BY <1>2, <1>4, <1>13 DEF AtHeld
  <2>3. LetGo'
    BY <1>7, <2>1, <2>2
  <2>4. ready'
    BY <1>6, <2>1, <2>2
  <2>5. answered /\ en /\ ~hold
    <3>1. Age = 1
      BY <1>4 DEF Age, Stores
    <3> QED
      BY <1>1, <2>2, <3>1 DEF LetGo, Ending
  <2>6. (seen' => answered') /\ en'
    BY <1>4, <1>5, <2>5 DEF Passing
  <2>7. t' # "reset" /\ t' # "Th"
    BY <1>1, <1>3, <2>2, <2>5, CpuMoves
  <2>8. AtDue' /\ AtDetach'
    BY <1>4, <2>3, <2>4 DEF AtDue, AtDetach
  <2>9. AtDrain'
    BY <1>4, <2>4, <2>6, <2>7 DEF AtDrain
  <2> QED
    BY <2>1, <2>8, <2>9 DEF AtOff, AtReset, AtStart, AtHeld, AtBegin, AtLoose, AtParked
<1>14. CASE Here = "begin" /\ Op # "WAITADS"
  <2>1. Here' = "begin" /\ Op \notin Waits
    BY <1>4, <1>14 DEF Leads, Waits
  <2>2. Parked /\ ~reset
    BY <1>2, <1>4, <1>14 DEF AtBegin, Stores
  <2>3. Parked'
    BY <1>1, <1>3, <1>5, <1>6, <2>1, <2>2, CpuMoves DEF Parked
  <2>4. AtBegin'
    BY <1>4, <2>3 DEF AtBegin
  <2> QED
    BY <2>1, <2>4
       DEF AtOff, AtReset, AtStart, AtHeld, AtDue, AtDetach, AtLoose, AtDrain, AtParked
<1>15. CASE Here = "drain"
  <2>1. \/ Here' = "drain" /\ Op \in {"LDI", "CLR"}
        \/ Here' = "parked" /\ Op = "HOLD"
    BY <1>4, <1>15 DEF Leads
  <2>2. /\ en /\ ready /\ (seen => answered) /\ (t = "Th" => hold) /\ t # "reset" /\ ~reset
        /\ Op = "HOLD" => t = "Th"
    BY <1>2, <1>4, <1>15 DEF AtDrain
  <2>3. en' /\ ready'
    BY <1>6, <2>1, <2>2 DEF Waits
  <2>4. seen' => answered'
    BY <1>4, <2>2 DEF Passing
  <2>5. t' # "reset" /\ (t' = "Th" => hold') /\ (t = "Th" => t' = "Th")
    BY <1>1, <1>3, <1>5, <2>2, CpuMoves DEF TStates
  <2>6. AtDrain'
    BY <1>4, <2>3, <2>4, <2>5 DEF AtDrain
  <2>7. AtParked'
    BY <2>1, <2>2, <2>3, <2>5 DEF AtParked, Parked
  <2> QED
    BY <2>1, <2>6, <2>7 DEF AtOff, AtReset, AtStart, AtHeld, AtDue, AtBegin, AtDetach, AtLoose
<1> QED
  BY <1>4, <1>8, <1>9, <1>10, <1>11, <1>12, <1>13, <1>14, <1>15 DEF Leads

\* What the text says of the instruction being executed.
LEMMA HereLeads ==
    ASSUME ClockType, pc > 0
    PROVE  /\ Op = "EXIT" => Ends(prog, pc, Here)
           /\ Op # "EXIT" => \E to : Leads(Op, Here, to)
<1>1. prog \in ProgramNames /\ pc \in 1 .. Len(Code[prog])
  BY AllPlaced DEF ClockType
<1> QED
  BY <1>1, AllPlaced DEF Placed, After, Op, Here

LEMMA SinceType == ASSUME ClockType, CpuEdge PROVE since' \in Nat
BY ClockAssumption DEF ClockType, CpuEdge

LEMMA OcdEdgeType ==
    ASSUME ClockType, ClockInv, NEW a \in AdsSeen, Around(a), OcdEdge(a)
    PROVE  /\ prog' = prog /\ pc' \in 1 .. Len(Code[prog]) /\ st' \in States
           /\ stop' \in BOOLEAN /\ en' \in BOOLEAN /\ ready' \in BOOLEAN
           /\ hold' \in BOOLEAN /\ reset' \in BOOLEAN
<1>1. /\ prog \in ProgramNames /\ pc \in 0 .. Len(Code[prog]) /\ st \in States
      /\ stop \in BOOLEAN /\ en \in BOOLEAN /\ ready \in BOOLEAN
      /\ hold \in BOOLEAN /\ reset \in BOOLEAN
      /\ Len(Code[prog]) \in Nat \ {0}
  BY AllPlaced DEF ClockType
<1>2. pc = 0 => st = "STORE"
  BY DEF ClockInv
<1>3. CASE st = "FETCH" /\ DoFetch
  BY <1>1, <1>2, <1>3 DEF DoFetch, States
<1>4. CASE st = "LOAD" /\ DoLoad
  BY <1>1, <1>2, <1>4 DEF DoLoad, States
<1>5. CASE st = "EXEC" /\ DoExec(a)
  BY <1>1, <1>2, <1>5 DEF DoExec, States
<1>6. CASE st = "STORE" /\ ~InReset /\ DoStore
  <2>1. pc > 0
    BY <1>1, <1>6 DEF InReset
  <2>2. pc' \in 1 .. Len(Code[prog]) /\ prog' = prog
    BY <1>6, <2>1, StoreParts
  <2> QED
    BY <1>1, <1>6, <2>2 DEF DoStore, States, EnAfterStore, ReadyAfterStore
<1>7. CASE st = "STORE" /\ InReset /\ ResetStore
  BY <1>1, <1>7 DEF ResetStore, States
<1>8. CASE st = "STORE_FETCH" /\ DoStoreFetch
  BY <1>1, <1>2, <1>8 DEF DoStoreFetch, States
<1> QED
  BY <1>3, <1>4, <1>5, <1>6, <1>7, <1>8 DEF OcdEdge

\* A wait is executed with the bus the program's or the OCD waiting, never in reset.
LEMMA WaitsOutOfReset ==
    ASSUME ClockType, ClockInv, st = "EXEC", pc > 0, Op \in Waits
    PROVE  ~reset /\ t # "reset"
<1>1. Doing = Op /\ ~Stores
  BY DEF Doing, InReset, Stores, ClockType
<1>2. \E to : Leads(Op, Here, to)
  BY HereLeads DEF Waits
<1>3. /\ Here \in {"due", "loose", "begin"}
      /\ Here = "begin" => Op = "WAITADS"
  BY <1>2 DEF Leads, Inner, Answers, Waits
<1> QED
  BY <1>1, <1>3 DEF ClockInv, PlaceInv, AtDue, AtLoose, AtBegin, Open

LEMMA TickInv == ClockType /\ ClockInv /\ Tick => ClockType' /\ ClockInv'
<1> SUFFICES ASSUME ClockType, ClockInv, Tick PROVE ClockType' /\ ClockInv'
  OBVIOUS
<1>1. PICK a \in AdsSeen : OcdEdge(a) /\ BcEdge(a) /\ Around(a)
  BY TickParts
<1>2. /\ prog \in ProgramNames /\ pc \in 0 .. Len(Code[prog]) /\ st \in States
      /\ stop \in BOOLEAN /\ en \in BOOLEAN /\ ready \in BOOLEAN
      /\ hold \in BOOLEAN /\ reset \in BOOLEAN /\ bcReady \in BOOLEAN
      /\ t \in TStates /\ tick \in 0 .. 3
      /\ ads \in BOOLEAN /\ seen \in BOOLEAN /\ answered \in BOOLEAN
      /\ Len(Code[prog]) \in Nat \ {0} /\ pc \in Nat
  BY AllPlaced DEF ClockType
<1>3. /\ pc = 0 => st = "STORE"
      /\ reset => Here \in {"reset", "start"}
      /\ stop => st = "EXEC" /\ Doing = "EXIT"
      /\ Stores => Doing # "EXIT"
      /\ seen => InCycle
      /\ PlaceInv
  BY DEF ClockInv
<1>4. CpuEdge
  BY <1>1 DEF Around
<1>5. ClockType'
  <2>1. /\ prog' = prog /\ pc' \in 1 .. Len(Code[prog]) /\ st' \in States
        /\ stop' \in BOOLEAN /\ en' \in BOOLEAN /\ ready' \in BOOLEAN
        /\ hold' \in BOOLEAN /\ reset' \in BOOLEAN
    BY <1>1, OcdEdgeType
  <2>2. bcReady' \in BOOLEAN
    BY <1>1, <1>2 DEF BcEdge, bcRegs
  <2>3. t' \in TStates /\ tick' \in 0 .. 3 /\ kind' \in Kinds /\ since' \in Nat
    BY <1>4, CpuMoves, SinceType
  <2>4. ads' \in BOOLEAN
    BY <1>1, AdsKept
  <2>5. seen' \in BOOLEAN /\ answered' \in BOOLEAN
    BY <1>1, <1>2 DEF Around
  <2>6. pc' \in 0 .. Len(Code[prog])
    BY <1>2, <2>1
  <2> QED
    BY <1>2, <2>1, <2>2, <2>3, <2>4, <2>5, <2>6 DEF ClockType
<1>6. ads' => t' = "T1" \/ (t' \in {"T2", "reset"} /\ tick' <= 1)
  BY <1>1, AdsKept
<1>7. pc' # 0
  BY <1>1, <1>2, OcdEdgeType
<1>8. CASE st = "EXEC" /\ DoExec(a)
  <2>1. pc > 0
    BY <1>2, <1>3, <1>8
  <2>2. PlaceInv'
    BY <1>1, <1>8, <2>1, ExecPlace
  <2>3. /\ Here' = Here /\ Doing = Op /\ Doing' = Op
        /\ st' = IF ExecWait(a) THEN "EXEC" ELSE "STORE"
        /\ Stores' <=> st' = "STORE"
    BY <1>1, <1>8, <2>1, ExecParts
  <2>4. Op = "EXIT" => ExecWait(a)
    BY DEF ExecWait
  <2>5. stop' => Op = "EXIT"
    BY <1>2, <1>3, <1>8, <2>3 DEF DoExec
  <2>6. reset' => Here' \in {"reset", "start"}
    <3>1. Op = "RESET" => Here = "reset"
      <4>1. Op = "RESET" => \E to : Leads(Op, Here, to)
        BY <2>1, HereLeads
      <4> QED
        BY <4>1 DEF Leads, Inner, Answers
    <3> QED
      BY <1>3, <1>8, <2>3, <3>1 DEF DoExec
  <2>7. seen' => InCycle'
    <3>1. CASE Op \in Waits /\ ~ExecWait(a)
      <4>1. ~reset /\ t # "reset"
        BY <1>8, <2>1, <3>1, WaitsOutOfReset
      <4>2. JustCaught'
        BY <1>1, <1>8, <2>1, <3>1, <4>1, Catches
      <4> QED
        BY <4>2 DEF JustCaught, InCycle
    <3>2. CASE ~(Op \in Waits /\ ~ExecWait(a))
      <4> SUFFICES ASSUME seen' PROVE InCycle'
        OBVIOUS
      <4>1. seen /\ ~(LastTick /\ (CycleEnds \/ reset))
        BY <1>1, <3>2 DEF Around
      <4> QED
        BY <1>2, <1>3, <1>4, <4>1, CpuMoves DEF InCycle, CycleEnds, LastTick, TicksPerState
    <3> QED
      BY <3>1, <3>2
  <2> QED
    BY <1>5, <1>6, <1>7, <2>2, <2>3, <2>4, <2>5, <2>6, <2>7 DEF ClockInv
<1>9. CASE ~(st = "EXEC" /\ DoExec(a))
  <2>1. st # "EXEC" /\ ~stop
    BY <1>1, <1>3, <1>9 DEF OcdEdge
  <2>2. Passing
    <3>1. LastTick <=> tick = 3
      BY DEF LastTick, TicksPerState
    <3> QED
      BY <1>1, <1>2, <2>1, <3>1 DEF Around, Passing
  <2>3. seen' => InCycle'
    <3> SUFFICES ASSUME seen' PROVE InCycle'
      OBVIOUS
    <3>1. seen /\ ~(tick = 3 /\ (CycleEnds \/ reset))
      BY <2>2 DEF Passing
    <3> QED
      BY <1>2, <1>3, <1>4, <3>1, CpuMoves DEF InCycle, CycleEnds, LastTick, TicksPerState
  <2>4. CASE st = "STORE" /\ ~InReset /\ DoStore
    <3>1. pc > 0
      BY <1>2, <2>4 DEF InReset
    <3>2. PlaceInv'
      BY <1>1, <2>4, <3>1, StorePlace
    <3>3. ~Stores' /\ Stores /\ Leads(Op, Here, Here') /\ reset' = reset /\ stop' = stop
      BY <1>1, <2>4, <3>1, StoreParts DEF DoStore
    <3>4. reset' => Here' \in {"reset", "start"}
      BY <1>3, <3>3 DEF Leads, PlaceInv, AtStart
    <3>5. ~stop'
      BY <2>1, <3>3
    <3> QED
      BY <1>5, <1>6, <1>7, <2>3, <3>2, <3>3, <3>4, <3>5 DEF ClockInv
  <2>5. CASE ~(st = "STORE" /\ ~InReset)
    <3>1. /\ prog' = prog /\ stop' = stop /\ en' = en /\ ready' = ready /\ hold' = hold
          /\ reset' = reset
      BY <1>1, <2>1, <2>5 DEF OcdEdge, DoFetch, DoLoad, ResetStore, DoStoreFetch
    <3>2. \/ pc > 0 /\ pc' = pc /\ st = "STORE_FETCH" /\ st' = "FETCH"
          \/ pc > 0 /\ pc' = pc /\ st = "FETCH" /\ st' = "LOAD"
          \/ pc > 0 /\ pc' = pc /\ st = "LOAD" /\ st' = "EXEC"
          \/ pc = 0 /\ pc' = 1 /\ st = "STORE" /\ st' = "STORE_FETCH"
      BY <1>1, <1>2, <1>3, <2>1, <2>5
         DEF OcdEdge, DoFetch, DoLoad, ResetStore, DoStoreFetch, InReset
    <3>3. Here' = Here
      BY <1>2, <3>1, <3>2, FirstPlaces DEF Here
    <3>4. pc = 0 => Here \notin {"due", "detach", "drain"}
      BY <1>2 DEF Here, Place, ProgramNames
    <3>5. Lagging
      BY <1>1 DEF Around, AdsSeen, Ads, Lagging
    <3>8. PlaceInv'
      BY <1>4, <2>2, <3>1, <3>2, <3>3, <3>4, <3>5, QuietPlace DEF Unchanged
    <3>6. ~Stores'
      BY <3>2 DEF Stores
    <3>7. ~stop' /\ (reset' => Here' \in {"reset", "start"})
      BY <1>3, <2>1, <3>1, <3>3
    <3> QED
      BY <1>5, <1>6, <1>7, <2>3, <3>6, <3>7, <3>8 DEF ClockInv
  <2> QED
    BY <1>1, <1>5, <2>1, <2>4, <2>5 DEF OcdEdge
<1> QED
  BY <1>5, <1>8, <1>9

\* The firmware loads a program where the last one has ended, and a break or a reset
\* where the OCD waits for an I/O cycle.
LEMMA RunInv ==
    ASSUME ClockType, ClockInv, NEW p \in ProgramNames, FirmwareRun(p)
    PROVE  ClockType' /\ ClockInv'
<1>1. /\ prog \in ProgramNames /\ pc \in 0 .. Len(Code[prog])
      /\ en \in BOOLEAN /\ ready \in BOOLEAN /\ reset \in BOOLEAN
      /\ ads \in BOOLEAN /\ seen \in BOOLEAN /\ answered \in BOOLEAN
      /\ t \in TStates /\ tick \in 0 .. 3 /\ Len(Code[p]) \in Nat \ {0}
      /\ Len(Code[prog]) \in Nat \ {0}
  BY AllPlaced DEF ClockType
<1>2. /\ prog' = p /\ pc' = 0 /\ st' = "STORE" /\ stop' = FALSE
      /\ UNCHANGED << en, ready, hold, reset, bcRegs, cpuRegs, seen >>
      /\ answered' = (answered \/ (prog = "read_io" /\ p = "start"))
  BY DEF FirmwareRun
<1>3. /\ en' = en /\ ready' = ready /\ hold' = hold /\ reset' = reset
      /\ t' = t /\ tick' = tick /\ ads' = ads /\ seen' = seen
      /\ answered => answered'
  BY <1>2 DEF cpuRegs
<1>4. ClockType'
  <2>1. bcReady' = bcReady /\ kind' = kind /\ since' = since
    BY <1>2 DEF bcRegs, cpuRegs
  <2> QED
    <3>1. prog' \in ProgramNames /\ pc' \in 0 .. Len(Code[prog']) /\ st' \in States
      BY <1>1, <1>2 DEF States
    <3>2. stop' \in BOOLEAN /\ answered' \in BOOLEAN
      BY <1>2
    <3> QED
      BY <1>3, <2>1, <3>1, <3>2 DEF ClockType
<1>5. ~Stores' /\ Here' = Place(p, 0)
  BY <1>2 DEF Stores, InReset, Here
<1>6. PlaceInv /\ (reset => Here \in {"reset", "start"})
  BY DEF ClockInv
<1>7. /\ pc > 0 /\ pc \in 1 .. Len(Code[prog]) /\ st = "EXEC" /\ ~Stores /\ Doing = Op
      /\ Placed(prog, pc)
  <2>1. st = "EXEC"
    BY DEF FirmwareRun, ClockInv
  <2>2. pc > 0
    BY <1>1, <2>1 DEF ClockInv
  <2> QED
    BY <1>1, <2>1, <2>2, AllPlaced DEF Stores, Doing, InReset
<1>8. /\ \/ /\ Here = "off" /\ prog = "blank" /\ p = "reset" /\ Loose
         \/ /\ Here = "reset" /\ p \in {"start", "reset"} /\ reset /\ t = "reset" /\ en
            /\ seen => answered \/ (en /\ ~ready)
         \/ /\ Here = "held" /\ p \in {"read_io", "write_io", "start", "reset"}
            /\ p = "start" => prog = "read_io"
            /\ Held /\ st = "EXEC" /\ t = "T2" /\ ~reset
         \/ /\ Here = "parked" /\ p \in {"get_regs", "set_reg", "cont", "reset"} /\ Parked
            /\ ~reset
         \/ Here = "loose" /\ p \in {"break", "reset"} /\ Loose /\ t # "reset" /\ ~reset
  <2>1. CASE stop
    <3>1. Op = "EXIT" /\ Ends(prog, pc, Here)
      BY <1>7, <2>1 DEF ClockInv, Placed, Op, Here
    <3>2. p \in NextProgram \cup {"reset"} /\ (prog = "reset" => t = "reset")
      BY <2>1 DEF FirmwareRun
    <3>3. CASE prog = "blank" /\ Here = "off"
      <4>1. p = "reset"
        BY <3>2, <3>3 DEF NextProgram, Emulating, Halted
      <4> QED
        BY <1>6, <3>3, <4>1 DEF PlaceInv, AtOff
    <3>4. CASE prog = "reset" /\ Here = "reset" /\ pc = 3
      <4>1. p \in {"start", "reset"} /\ t = "reset"
        BY <3>2, <3>4 DEF NextProgram, Emulating, Halted
      <4>2. reset /\ en /\ (seen => answered \/ (en /\ ~ready))
        BY <1>6, <1>7, <3>4 DEF PlaceInv, AtReset
      <4> QED
        BY <3>4, <4>1, <4>2
    <3>5. CASE prog \in Emulating \cup {"read_io"} /\ Here = "held"
      <4>1. Held /\ ~reset
        BY <1>6, <1>7, <3>5 DEF PlaceInv, AtHeld
      <4>2. t = "T2"
        BY <1>7, <4>1 DEF Held, InCycle
      <4>3. /\ p \in {"read_io", "write_io", "start", "reset"}
            /\ p = "start" => prog = "read_io"
        BY <3>2, <3>5 DEF NextProgram, Emulating, Halted
      <4> QED
        BY <1>7, <3>5, <4>1, <4>2, <4>3
    <3>6. CASE prog \in Halted /\ Here = "parked"
      <4>1. p \in {"get_regs", "set_reg", "cont", "reset"}
        BY <3>2, <3>6 DEF NextProgram, Emulating, Halted
      <4> QED
        BY <1>6, <3>6, <4>1 DEF PlaceInv, AtParked
    <3> QED
      BY <3>1, <3>3, <3>4, <3>5, <3>6 DEF Ends
  <2>2. CASE ~stop
    <3>1. p \in {"break", "reset"} /\ Op = "WAITIO"
      BY <2>2 DEF FirmwareRun
    <3>2. \E to : Leads(Op, Here, to)
      BY <1>7, <3>1 DEF Placed, After, Op, Here
    <3>3. Here = "loose"
      BY <3>1, <3>2 DEF Leads, Inner, Answers
    <3> QED
      BY <1>6, <1>7, <3>1, <3>3 DEF PlaceInv, AtLoose
  <2> QED
    BY <2>1, <2>2
<1>9. /\ Loose => Loose'
      /\ Held /\ t = "T2" /\ st = "EXEC" => Held'
      /\ Parked => Parked'
  BY <1>3 DEF Loose, Held, Parked, InCycle
<1>10. ASSUME p = "reset" PROVE PlaceInv'
  <2>1. Here' = "reset" /\ pc' = 0
    BY <1>2, <1>5, <1>10, FirstPlaces
  <2>2. BeforeReset'
    BY <1>3, <1>8, <1>9 DEF BeforeReset, Held, Loose, Parked
  <2>3. seen => answered \/ (en /\ ~ready)
    <3>1. Parked => ~seen
      BY DEF Parked, ClockInv, InCycle
    <3> QED
      BY <1>8, <3>1 DEF Loose, Held
  <2>4. AtReset'
    BY <1>3, <1>5, <2>1, <2>2, <2>3 DEF AtReset
  <2> QED
    BY <2>1, <2>4 DEF PlaceInv,
       AtOff, AtStart, AtHeld, AtDue, AtBegin, AtDetach, AtLoose, AtDrain, AtParked
<1>11. ASSUME p = "start" PROVE PlaceInv'
  <2>1. Here' = "start"
    BY <1>5, <1>11, FirstPlaces
  <2>2. ASSUME reset, t = "reset", en PROVE AtStart'
    BY <1>1, <1>3, <1>5, <2>2 DEF AtStart
  <2>3. ASSUME prog = "read_io", Held, st = "EXEC", t = "T2", ~reset PROVE AtStart'
    <3>1. answered'
      BY <1>2, <1>11, <2>3
    <3>2. seen /\ en /\ ~ready /\ (ads => tick = 1)
      BY <2>3 DEF Held
    <3>3. seen' /\ en' /\ ~ready' /\ t' = "T2" /\ (ads' => tick' = 1)
      BY <1>1, <1>3, <2>3, <3>2
    <3>4. ~reset'
      BY <1>3, <2>3
    <3> QED
      BY <1>2, <1>11, <3>1, <3>3, <3>4 DEF AtStart, Granted
  <2>4. AtStart'
    BY <1>8, <1>11, <2>2, <2>3
  <2> QED
    BY <2>1, <2>4 DEF PlaceInv,
       AtOff, AtReset, AtHeld, AtDue, AtBegin, AtDetach, AtLoose, AtDrain, AtParked
<1>12. ASSUME p \in {"read_io", "write_io"} PROVE PlaceInv'
  <2>1. Here' = "held"
    BY <1>5, <1>12, FirstPlaces
  <2>2. Held /\ t = "T2" /\ st = "EXEC"
    BY <1>8, <1>12
  <2>3. AtHeld'
    BY <1>5, <1>9, <2>2 DEF AtHeld
  <2> QED
    BY <2>1, <2>3 DEF PlaceInv,
       AtOff, AtReset, AtStart, AtDue, AtBegin, AtDetach, AtLoose, AtDrain, AtParked
<1>13. ASSUME p = "break" PROVE PlaceInv'
  <2>1. Here' = "loose"
    BY <1>5, <1>13, FirstPlaces
  <2>2. Loose /\ t # "reset"
    BY <1>8, <1>13
  <2>3. AtLoose'
    BY <1>3, <1>5, <1>9, <2>2 DEF AtLoose
  <2> QED
    BY <2>1, <2>3 DEF PlaceInv,
       AtOff, AtReset, AtStart, AtHeld, AtDue, AtBegin, AtDetach, AtDrain, AtParked
<1>14. ASSUME p \in {"cont", "get_regs", "set_reg"} PROVE PlaceInv'
  <2>1. Here' = "begin"
    BY <1>5, <1>14, FirstPlaces
  <2>2. Parked
    BY <1>8, <1>14
  <2>3. AtBegin'
    BY <1>2, <1>5, <1>9, <2>2 DEF AtBegin
  <2> QED
    BY <2>1, <2>3 DEF PlaceInv,
       AtOff, AtReset, AtStart, AtHeld, AtDue, AtDetach, AtLoose, AtDrain, AtParked
<1>15. PlaceInv'
  BY <1>8, <1>10, <1>11, <1>12, <1>13, <1>14
<1>16. reset' => Here' \in {"reset", "start"}
  <2>1. reset => p \in {"reset", "start"}
    BY <1>8 DEF ClockInv
  <2> QED
    BY <1>3, <1>5, <2>1, FirstPlaces
<1>17. (seen' => InCycle') /\ (ads' => t' = "T1" \/ (t' \in {"T2", "reset"} /\ tick' <= 1))
  BY <1>3 DEF ClockInv, InCycle
<1> QED
  BY <1>2, <1>4, <1>5, <1>15, <1>16, <1>17 DEF ClockInv

LEMMA ClockInit == Init => ClockType /\ ClockInv
<1> SUFFICES ASSUME Init PROVE ClockType /\ ClockInv
  OBVIOUS
<1>1. Here = "off" /\ ~Stores
  BY PlacesOf DEF Init, Here, Stores, InReset, ProgramNames
<1>2. ClockType
  <2>1. prog \in ProgramNames /\ pc \in 0 .. Len(Code[prog])
    BY AllPlaced DEF Init, ProgramNames
  <2> QED
    <3>1. st \in States /\ t \in TStates /\ tick \in 0 .. 3 /\ kind \in Kinds /\ since \in Nat
      BY DEF Init, States, TStates, Kinds
    <3>2. /\ stop \in BOOLEAN /\ en \in BOOLEAN /\ ready \in BOOLEAN
          /\ hold \in BOOLEAN /\ reset \in BOOLEAN /\ bcReady \in BOOLEAN
          /\ ads \in BOOLEAN /\ seen \in BOOLEAN /\ answered \in BOOLEAN
      BY DEF Init
    <3> QED
      BY <2>1, <3>1, <3>2 DEF ClockType
<1>3. PlaceInv
  BY <1>1 DEF Init, PlaceInv, AtOff, AtReset, AtStart, AtHeld, AtDue, AtBegin, AtDetach, AtLoose,
     AtDrain, AtParked, Loose
<1> QED
  BY <1>1, <1>2, <1>3 DEF Init, ClockInv

LEMMA ClockNext == ClockType /\ ClockInv /\ [Next]_clockVars => ClockType' /\ ClockInv'
<1> SUFFICES ASSUME ClockType, ClockInv, [Next]_clockVars PROVE ClockType' /\ ClockInv'
  OBVIOUS
<1>1. CASE Tick
  BY <1>1, TickInv
<1>2. ASSUME NEW p \in ProgramNames, FirmwareRun(p) PROVE ClockType' /\ ClockInv'
  BY <1>2, RunInv
<1>3. CASE UNCHANGED clockVars
  <2>1. /\ prog' = prog /\ pc' = pc /\ st' = st /\ stop' = stop /\ en' = en /\ ready' = ready
        /\ hold' = hold /\ reset' = reset /\ bcReady' = bcReady /\ t' = t /\ tick' = tick
        /\ kind' = kind /\ since' = since /\ ads' = ads /\ seen' = seen /\ answered' = answered
    BY <1>3 DEF clockVars, ocdRegs, bcRegs, cpuRegs
  <2>2. ClockType'
    BY <2>1 DEF ClockType
  <2>3. Here' = Here /\ Doing' = Doing /\ Stores' = Stores
    BY <2>1 DEF Here, Doing, Op, Stores, InReset
  <2>4. /\ Loose' = Loose /\ BeforeReset' = BeforeReset /\ LetGo' = LetGo /\ Held' = Held
        /\ JustCaught' = JustCaught /\ Open' = Open /\ Parked' = Parked /\ Granted' = Granted
    BY <2>1 DEF Granted, Loose, BeforeReset, LetGo, Ending, Age, Held, InCycle, JustCaught, Open, Parked
  <2>5. PlaceInv' = PlaceInv
    BY <2>1, <2>3, <2>4 DEF PlaceInv,
       AtOff, AtReset, AtStart, AtHeld, AtDue, AtBegin, AtDetach, AtLoose, AtDrain, AtParked
  <2> QED
    BY <2>1, <2>2, <2>3, <2>5 DEF ClockInv, InCycle
<1> QED
  BY <1>1, <1>2, <1>3 DEF Next

-----------------------------------------------------------------------------
(* Theorems *)

\* What the places say of a cycle that ends.
LEMMA EndOfCycle ==
    ASSUME ClockType, ClockInv, CycleEnds, ~reset
    PROVE  /\ en => seen \/ Draining
           /\ seen => answered
<1>1. /\ prog \in ProgramNames /\ pc \in Nat /\ tick \in 0 .. 3
      /\ PlaceInv /\ t = "T2" /\ tick = 3 /\ ReadyPin
  BY AllPlaced DEF ClockType, ClockInv, CycleEnds, LastTick, TicksPerState
<1>2. LetGo => seen /\ en /\ answered
  <2>1. Age \in 1 .. 5
    BY DEF Age, ClockType, States
  <2> QED
    BY <1>1, <2>1 DEF LetGo, Ending
<1>3. ~Held /\ ~JustCaught /\ ~Open /\ ~Parked /\ ~Granted
  BY <1>1 DEF Held, JustCaught, Open, Parked, Granted, ReadyPin
<1> USE DEF PlaceInv
<1>4. CASE Here = "off"
  BY <1>1, <1>4 DEF AtOff, Loose
<1>5. CASE Here = "reset"
  BY <1>1, <1>3, <1>5 DEF AtReset, BeforeReset, Loose, ReadyPin
<1>6. CASE Here = "start"
  BY <1>1, <1>2, <1>3, <1>6 DEF AtStart
<1>7. CASE Here = "held"
  BY <1>1, <1>2, <1>3, <1>7 DEF AtHeld
<1>8. CASE Here = "due"
  BY <1>1, <1>2, <1>3, <1>8 DEF AtDue
<1>9. CASE Here = "begin"
  BY <1>1, <1>3, <1>9 DEF AtBegin
<1>10. CASE Here = "detach"
  BY <1>1, <1>2, <1>3, <1>10 DEF AtDetach, Loose
<1>11. CASE Here = "loose"
  BY <1>1, <1>3, <1>11 DEF AtLoose, Loose
<1>12. CASE Here = "drain"
  <2>1. Draining
    BY <1>1, <1>12, DrainText DEF Here, Draining, InReset
  <2> QED
    BY <1>1, <1>12, <2>1 DEF AtDrain
<1>13. CASE Here = "parked"
  BY <1>1, <1>3, <1>13 DEF AtParked
<1> QED
  BY <1>1, <1>4, <1>5, <1>6, <1>7, <1>8, <1>9, <1>10, <1>11, <1>12, <1>13, PlaceRange DEF Here

\* The reset program answers no cycle: one that ends under it had been given back.
LEMMA EndInReset == ClockType /\ ClockInv /\ CycleEnds /\ reset => (seen => answered)
<1> SUFFICES ASSUME ClockType, ClockInv, CycleEnds, reset PROVE seen => answered
  OBVIOUS
<1>1. t = "T2" /\ ReadyPin /\ PlaceInv /\ Here \in {"reset", "start"}
  BY DEF ClockInv, CycleEnds
<1>2. Here # "start"
  BY <1>1 DEF PlaceInv, AtStart
<1>3. seen => answered \/ (en /\ ~ready)
  BY <1>1, <1>2 DEF PlaceInv, AtReset
<1> QED
  BY <1>1, <1>3 DEF ReadyPin

\* READY# given for one bus cycle is never taken for another: while the OCD answers,
\* a cycle that ends was seen by one of its waits (ocd.v), at every gap.
THEOREM NoCycleSlips == Spec => []NoneSlips
<1>1. ClockType /\ ClockInv => NoneSlips
  BY EndOfCycle DEF NoneSlips
<1> QED
  BY <1>1, ClockInit, ClockNext, PTL DEF Spec

\* A cycle a wait has seen ends when the OCD has answered it or given it back, not by
\* bus_control running along (bus_control.v, top_level.v).
THEOREM CaughtCyclesAreHeld == Spec => []CaughtIsHeld
<1>1. ClockType /\ ClockInv => CaughtIsHeld
  BY EndOfCycle, EndInReset DEF CaughtIsHeld
<1> QED
  BY <1>1, ClockInit, ClockNext, PTL DEF Spec

\* The OCD gives the bus back in no T2 state but a granted write's.
LEMMA Detaching ==
    ASSUME ClockType, ClockInv, Next, t = "T2", en
    PROVE  en' \/ Granted
<1>1. CASE Tick
  <2>1. PICK a \in AdsSeen : OcdEdge(a) /\ BcEdge(a) /\ Around(a)
    BY <1>1, TickParts
  <2>2. CASE st = "EXEC" /\ DoExec(a)
    <3>1. pc > 0 /\ ~Stores /\ Age = 5 /\ tick \in 0 .. 3
      BY <2>2, AllPlaced DEF ClockType, ClockInv, Stores, Age
    <3>2. Op = "DETACH" => Granted
      <4> SUFFICES ASSUME Op = "DETACH" PROVE Granted
        OBVIOUS
      <4>1. PICK to : Leads(Op, Here, to)
        BY <3>1, HereLeads
      <4>2. Here = "detach"
        BY <4>1 DEF Leads, Inner, Answers
      <4>3. LetGo \/ Granted
        BY <3>1, <4>2 DEF ClockInv, PlaceInv, AtDetach
      <4> QED
        BY <3>1, <4>3 DEF LetGo, Ending
    <3> QED
      BY <2>2, <3>2 DEF DoExec
  <2>3. CASE ~(st = "EXEC" /\ DoExec(a))
    BY <2>1, <2>3
       DEF OcdEdge, DoFetch, DoLoad, DoStore, ResetStore, DoStoreFetch, EnAfterStore
  <2> QED
    BY <2>2, <2>3
<1>2. ASSUME NEW p \in ProgramNames, FirmwareRun(p) PROVE en'
  BY <1>2 DEF FirmwareRun
<1> QED
  BY <1>1, <1>2 DEF Next

\* A memory or port that ends a cycle was selected through all of T2, but for a write
\* that start gives back (top_level.v).
THEOREM SelectionIsKept == Spec => SelectedThroughT2
<1>1. ClockType /\ ClockInv /\ [Next]_clockVars =>
        [t = "T2" /\ en /\ ~reset /\ ~CycleEnds =>
            en' \/ (answered /\ prog = "start")]_clockVars
  BY Detaching DEF Granted
<1> QED
  BY <1>1, ClockInit, ClockNext, PTL DEF Spec, SelectedThroughT2

-----------------------------------------------------------------------------
(* While the OCD is deaf *)

\* No I/O cycle is under way.
NoIo == InCycle => kind # "io"

\* The answered cycle, or reset, ends before DETACH: no T state has passed since.
AtGap ==
    Here = "detach" /\ ~Stores /\ t \in {"Ti", "T1"} => since = 0 /\ (t = "T1" => kind # "io")

\* From DETACH until WAITIO is executed.
Deaf ==
    \/ Here = "detach" /\ Stores
    \/ Here = "loose" /\ Doing = "WAITIO" /\ st \in {"STORE_FETCH", "FETCH", "LOAD"}

\* Ticks from the end of that cycle, at most, by the end of the next one.
DeafFor == IF Here = "detach" THEN 6 ELSE 5 + Age

\* One T state passes before the OCD listens again, no second one.
InGap(n) ==
    \/ since = 0 /\ tick >= n - 5
    \/ since = 1 /\ tick <= n - 6

\* The cycle given back has ended since DETACH: the next one is not in T2 yet.
Fresh(n) == t # "T2" /\ tick <= n - 7

DeafInv ==
    /\ AtGap
    /\ Deaf => seen \/ Fresh(DeafFor) \/ (NoIo /\ InGap(DeafFor))
    /\ Here = "loose" /\ Doing = "WAITIO" /\ st = "EXEC" => seen \/ ~(t = "T2" /\ kind = "io")

LEMMA SinceMoves ==
    ASSUME ClockType, CpuEdge
    PROVE  /\ t = "reset" \/ (CycleEnds /\ en) => since' = 0
           /\ tick # 3 /\ t # "reset" => since' = since
           /\ tick = 3 /\ t # "reset" /\ ~(CycleEnds /\ en) /\ since < IoGap => since' = since + 1
<1>1. LastTick <=> tick = 3
  BY DEF LastTick, TicksPerState
<1>2. CycleEnds => tick = 3
  BY <1>1 DEF CycleEnds
<1> QED
  BY <1>1, <1>2 DEF CpuEdge

\* A cycle that is let go is the last one before DETACH.
LEMMA GapKept ==
    ASSUME IoGap >= 2, ClockType, ClockInv, CpuEdge, LetGo, ~reset, Age \in 1 .. 4,
           t \in {"Ti", "T1"} => since = 0 /\ (t = "T1" => kind # "io")
    PROVE  t' \in {"Ti", "T1"} => since' = 0 /\ (t' = "T1" => kind' # "io")
<1>1. /\ en \in BOOLEAN /\ ready \in BOOLEAN /\ hold \in BOOLEAN
      /\ t \in TStates /\ tick \in 0 .. 3 /\ since \in Nat /\ IoGap \in Nat
  BY ClockAssumption DEF ClockType
<1>2. en /\ ~hold /\ Ending
  BY DEF LetGo
<1>3. CASE tick = 3
  <2>1. \/ t = "reset"
        \/ t = "T2" /\ ReadyPin
    BY <1>1, <1>2, <1>3 DEF Ending, ReadyPin
  <2>2. t = "reset" \/ (CycleEnds /\ en)
    BY <1>2, <1>3, <2>1 DEF CycleEnds, LastTick, TicksPerState
  <2>3. since' = 0
    BY <2>2, SinceMoves
  <2>4. t' = "T1" => (kind' = "io" => since' >= IoGap)
    BY <1>1, <1>2, <1>3, <2>1, CpuMoves
  <2> QED
    BY <1>1, <2>3, <2>4
<1>4. CASE tick # 3
  BY <1>1, <1>4, CpuMoves, SinceMoves
<1> QED
  BY <1>3, <1>4

\* The OCD executes DETACH in the first T state after that cycle.
LEMMA GapBegins ==
    ASSUME IoGap >= 2, ClockType, ClockInv, CpuEdge, ~reset,
           t \in {"Ti", "T1"}, since = 0, t = "T1" => kind # "io"
    PROVE  NoIo' /\ ((since' = 0 /\ tick' >= 1) \/ (since' = 1 /\ tick' <= 0))
<1>1. /\ t \in TStates /\ tick \in 0 .. 3 /\ since \in Nat /\ IoGap \in Nat
      /\ ~CycleEnds
  BY ClockAssumption DEF ClockType, CycleEnds
<1>2. CASE tick # 3
  <2>1. t' = t /\ kind' = kind /\ since' = 0 /\ tick' >= 1
    BY <1>1, <1>2, CpuMoves, SinceMoves
  <2> QED
    BY <2>1 DEF NoIo, InCycle
<1>3. CASE tick = 3
  <2>1. since' = 1 /\ tick' = 0
    BY <1>1, <1>3, CpuMoves, SinceMoves
  <2>2. /\ t = "T1" => kind' = kind
        /\ t = "Ti" => t' # "T2" /\ (t' = "T1" => (kind' = "io" => since' >= IoGap))
    BY <1>1, <1>3, CpuMoves
  <2> QED
    BY <1>1, <2>1, <2>2 DEF NoIo, InCycle
<1> QED
  BY <1>2, <1>3

\* No I/O cycle begins so soon.
LEMMA GapGoesOn ==
    ASSUME IoGap >= 2, ClockType, ClockInv, CpuEdge, ~en, ~reset, t # "reset",
           NEW n \in 6 .. 8, NoIo, InGap(n)
    PROVE  NoIo' /\ ((since' = 0 /\ tick' >= n - 4) \/ (since' = 1 /\ tick' <= n - 5))
<1>1. /\ t \in TStates /\ tick \in 0 .. 3 /\ since \in Nat /\ IoGap \in Nat
  BY ClockAssumption DEF ClockType
<1>2. CASE tick # 3
  <2>1. t' = t /\ kind' = kind /\ since' = since /\ tick' = tick + 1
    BY <1>1, <1>2, CpuMoves, SinceMoves
  <2>2. NoIo'
    BY <2>1 DEF NoIo, InCycle
  <2> QED
    BY <1>1, <2>1, <2>2 DEF InGap
<1>3. CASE tick = 3
  <2>1. since = 0
    BY <1>3 DEF InGap
  <2>2. since' = 1 /\ tick' = 0
    BY <1>1, <1>3, <2>1, CpuMoves, SinceMoves
  <2>3. t' = "T1" => kind' # "io"
    BY <1>1, <1>3, <2>2, CpuMoves DEF TStates
  <2>4. t' = "T2" => t \in {"T1", "T2"} /\ kind' = kind
    BY <1>1, <1>3, CpuMoves DEF TStates
  <2>5. NoIo'
    BY <2>3, <2>4 DEF NoIo, InCycle
  <2> QED
    BY <2>2, <2>5
<1> QED
  BY <1>2, <1>3

\* A cycle given back is over before WAITIO, or WAITIO still finds it.
LEMMA GivenGoesOn ==
    ASSUME ClockType, ClockInv, CpuEdge, Passing, Loose, ~reset, t # "reset",
           NEW n \in 6 .. 9, seen \/ Fresh(n)
    PROVE  seen' \/ (t' # "T2" /\ tick' <= n - 6)
<1>1. t \in TStates /\ tick \in 0 .. 3
  BY DEF ClockType
<1>2. CASE Fresh(n)
  <2>1. tick # 3 /\ tick <= n - 7
    BY <1>1, <1>2 DEF Fresh
  <2>2. t' = t /\ tick' = tick + 1
    BY <1>1, <2>1, CpuMoves
  <2> QED
    BY <1>1, <1>2, <2>1, <2>2 DEF Fresh
<1>3. CASE seen
  <2> SUFFICES ASSUME ~seen' PROVE t' # "T2" /\ tick' = 0
    OBVIOUS
  <2>1. tick = 3 /\ CycleEnds
    BY <1>3 DEF Passing
  <2> QED
    BY <1>1, <2>1, CpuMoves DEF CycleEnds
<1> QED
  BY <1>2, <1>3

\* Nothing that WAITIO should see begins unseen before it is executed.
LEMMA DeafGoesOn ==
    ASSUME IoGap >= 2, ClockType, ClockInv, CpuEdge, Passing, Loose, ~reset, t # "reset",
           NEW n \in 6 .. 8, seen \/ Fresh(n) \/ (NoIo /\ InGap(n))
    PROVE  seen' \/ Fresh(n + 1)' \/ (NoIo' /\ InGap(n + 1)')
<1>1. CASE seen \/ Fresh(n)
  <2>1. seen' \/ (t' # "T2" /\ tick' <= n - 6)
    BY <1>1, GivenGoesOn
  <2>2. tick' \in 0 .. 3
    BY CpuMoves
  <2> QED
    BY <2>1, <2>2 DEF Fresh
<1>2. CASE NoIo /\ InGap(n)
  <2>1. NoIo' /\ ((since' = 0 /\ tick' >= n - 4) \/ (since' = 1 /\ tick' <= n - 5))
    BY <1>2, GapGoesOn DEF Loose
  <2> QED
    BY <2>1 DEF InGap
<1> QED
  BY <1>1, <1>2

\* The OCD between two instructions.
LEMMA QuietGap ==
    ASSUME IoGap >= 2, ClockType, ClockInv, DeafInv, CpuEdge, Passing, Unchanged,
           \/ pc > 0 /\ pc' = pc /\ st = "STORE_FETCH" /\ st' = "FETCH"
           \/ pc > 0 /\ pc' = pc /\ st = "FETCH" /\ st' = "LOAD"
           \/ pc > 0 /\ pc' = pc /\ st = "LOAD" /\ st' = "EXEC"
           \/ /\ pc = 0 /\ pc' = 1 /\ st = "STORE" /\ st' = "STORE_FETCH"
              /\ Here \notin {"due", "detach", "drain"}
    PROVE  DeafInv'
<1>1. prog \in ProgramNames /\ t \in TStates /\ tick \in 0 .. 3
  BY DEF ClockType
<1>2. ~Stores' /\ (pc > 0 => ~Stores)
  BY DEF Stores
<1>3. AtGap'
  <2> SUFFICES ASSUME Here = "detach"
               PROVE  t' \in {"Ti", "T1"} => since' = 0 /\ (t' = "T1" => kind' # "io")
    BY DEF AtGap, Unchanged
  <2>1. pc > 0 /\ Age \in 1 .. 4 /\ (LetGo \/ Granted) /\ ~reset
    BY <1>2 DEF ClockInv, PlaceInv, AtDetach, Age
  <2>2. t \in {"Ti", "T1"} => since = 0 /\ (t = "T1" => kind # "io")
    BY <1>2, <2>1 DEF DeafInv, AtGap
  <2>3. Granted => t' = "T2"
    BY <1>1, <2>1, CpuMoves DEF Granted, ReadyPin
  <2> QED
    BY <2>1, <2>2, <2>3, GapKept
<1>4. ASSUME Here = "loose", Doing' = "WAITIO" PROVE pc > 0 /\ Doing = "WAITIO"
  <2>1. CASE pc = 0
    <3>1. prog = "break"
      BY <1>1, <1>4, <2>1 DEF Here, Place, ProgramNames
    <3>2. Op' = "NMI"
      BY <2>1, <3>1, BreakPlaced DEF Op, Unchanged
    <3> QED
      BY <1>4, <2>1, <3>2 DEF Doing
  <2>2. CASE pc > 0
    BY <1>4, <2>2 DEF Doing, Op, InReset, Unchanged
  <2> QED
    BY <2>1, <2>2
<1>5. ASSUME Here = "loose", Doing' = "WAITIO"
      PROVE  IF st' = "EXEC" THEN seen' \/ ~(t' = "T2" /\ kind' = "io")
             ELSE seen' \/ Fresh(DeafFor)' \/ (NoIo' /\ InGap(DeafFor)')
  <2>1. pc > 0 /\ Doing = "WAITIO" /\ ~Stores
    BY <1>2, <1>4, <1>5
  <2>2. Deaf /\ (seen \/ Fresh(DeafFor) \/ (NoIo /\ InGap(DeafFor)))
    BY <1>5, <2>1 DEF DeafInv, Deaf
  <2>3. Loose /\ ~reset /\ t # "reset"
    BY <1>5, <2>1 DEF ClockInv, PlaceInv, AtLoose
  <2>4. CASE st' = "EXEC"
    <3>1. t' = "T2" => t \in {"T1", "T2"} /\ kind' = kind
      BY <1>1, <2>3, CpuMoves DEF TStates
    <3>2. NoIo => ~(t' = "T2" /\ kind' = "io")
      BY <3>1 DEF NoIo, InCycle
    <3>3. DeafFor = 9
      BY <1>5, <2>4 DEF DeafFor, Age
    <3>4. seen \/ Fresh(9) => seen' \/ t' # "T2"
      BY <2>3, GivenGoesOn
    <3> QED
      BY <2>2, <2>4, <3>2, <3>3, <3>4
  <2>5. CASE st' # "EXEC"
    <3>1. DeafFor \in 6 .. 8 /\ DeafFor' = DeafFor + 1
      BY <1>5, <2>1, <2>5 DEF DeafFor, Age, Unchanged
    <3>2. PICK n \in 6 .. 8 : n = DeafFor
      BY <3>1
    <3>3. seen' \/ Fresh(n + 1)' \/ (NoIo' /\ InGap(n + 1)')
      BY <2>2, <2>3, <3>2, DeafGoesOn
    <3>4. DeafFor' = n + 1
      BY <3>1, <3>2
    <3> QED
      BY <2>5, <3>3, <3>4 DEF Fresh, InGap
  <2> QED
    BY <2>4, <2>5
<1>6. Here' = Here
  BY DEF Unchanged
<1> QED
  BY <1>2, <1>3, <1>5, <1>6 DEF DeafInv, Deaf

\* The OCD executes.
LEMMA ExecGap ==
    ASSUME IoGap >= 2, ClockType, ClockInv, DeafInv,
           NEW a \in AdsSeen, Around(a), DoExec(a), st = "EXEC", pc > 0
    PROVE  DeafInv'
<1>1. CpuEdge /\ t \in TStates /\ tick \in 0 .. 3 /\ ~Stores
  BY DEF Around, ClockType, Stores
<1>2. /\ Here' = Here /\ Doing = Op /\ Doing' = Op
      /\ st' = IF ExecWait(a) THEN "EXEC" ELSE "STORE"
      /\ Stores' <=> st' = "STORE"
  BY ExecParts
<1>3. ASSUME Here = "detach" PROVE Stores' /\ (seen' \/ (NoIo' /\ InGap(DeafFor)'))
  <2>1. /\ Op = "EXIT" => Ends(prog, pc, Here)
        /\ Op # "EXIT" => \E to : Leads(Op, Here, to)
    BY HereLeads
  <2>2. Op = "DETACH"
    BY <1>3, <2>1 DEF Leads, Ends
  <2>3. st' = "STORE"
    BY <1>2, <2>2 DEF ExecWait
  <2>8. ~reset /\ (t \in {"Ti", "T1"} \/ Granted)
    <3>1. Age = 5
      BY DEF Age
    <3> QED
      BY <1>1, <1>3, <3>1 DEF ClockInv, PlaceInv, AtDetach, LetGo, Ending
  <2>9. Granted => seen'
    BY <2>2, <2>8, ExecParts DEF Granted, Passing, CycleEnds, ReadyPin, Answers, Waits
  <2> SUFFICES ASSUME t \in {"Ti", "T1"}
               PROVE  Stores' /\ NoIo' /\ InGap(DeafFor)'
    BY <1>2, <2>3, <2>8, <2>9
  <2>4. t \in {"Ti", "T1"} /\ ~reset
    BY <2>8
  <2>5. since = 0 /\ (t = "T1" => kind # "io")
    BY <1>1, <1>3, <2>4 DEF DeafInv, AtGap
  <2>6. NoIo' /\ ((since' = 0 /\ tick' >= 1) \/ (since' = 1 /\ tick' <= 0))
    BY <1>1, <2>4, <2>5, GapBegins
  <2>7. DeafFor' = 6
    BY <1>2, <1>3 DEF DeafFor
  <2> QED
    BY <1>2, <2>3, <2>6, <2>7 DEF InGap
<1>4. ASSUME Here = "loose", Op = "WAITIO", ExecWait(a)
      PROVE  seen' \/ ~(t' = "T2" /\ kind' = "io")
  <2>5. Loose /\ ~reset /\ t # "reset" /\ Passing
    BY <1>1, <1>2, <1>4, ExecParts DEF ClockInv, PlaceInv, AtLoose
  <2>6. seen => seen' \/ t' # "T2"
    BY <1>1, <2>5, GivenGoesOn, 6 \in 6 .. 9
  <2> SUFFICES ASSUME ~seen PROVE ~(t' = "T2" /\ kind' = "io")
    BY <2>6
  <2>1. ~(t = "T2" /\ kind = "io") /\ ~reset /\ ~en
    BY <1>1, <1>2, <1>4, <2>5 DEF DeafInv, Loose
  <2>2. ~(a /\ kind = "io")
    BY <1>4 DEF ExecWait
  <2>3. t' = "T2" => kind' = kind /\ (t = "T2" \/ (t = "T1" /\ tick = 3))
    BY <1>1, <2>1, CpuMoves DEF TStates
  <2>4. t = "T1" /\ tick = 3 => a
    BY AdsKept
  <2> QED
    BY <2>1, <2>2, <2>3, <2>4
<1>5. Here' = "detach" => Stores'
  BY <1>2, <1>3
<1>6. st' \notin {"STORE_FETCH", "FETCH", "LOAD"} /\ (st' = "EXEC" => ExecWait(a))
  BY <1>2
<1> QED
  BY <1>2, <1>3, <1>4, <1>5, <1>6 DEF DeafInv, AtGap, Deaf

\* The OCD stores.
LEMMA StoreGap ==
    ASSUME IoGap >= 2, ClockType, ClockInv, DeafInv,
           NEW a \in AdsSeen, Around(a), DoStore, st = "STORE", pc > 0
    PROVE  DeafInv'
<1>1. CpuEdge /\ t \in TStates /\ tick \in 0 .. 3 /\ (reset => Here \in {"reset", "start"})
  BY DEF Around, ClockType, ClockInv
<1>2. /\ Leads(Op, Here, Here') /\ pc' \in 1 .. Len(Code[prog]) /\ prog' = prog
      /\ Stores /\ ~Stores' /\ st' = "STORE_FETCH" /\ Doing = Op
      /\ Op = "WAITIO" \/ Op' # "WAITIO" \/ Op = "DETACH"
      /\ Passing
  BY StoreParts
<1>3. AtGap'
  <2> SUFFICES ASSUME Here' = "detach"
               PROVE  t' \in {"Ti", "T1"} => since' = 0 /\ (t' = "T1" => kind' # "io")
    BY DEF AtGap
  <2>1. \/ Here = "start"
        \/ Here = "held" /\ Op \in Answers
    BY <1>2 DEF Leads
  <2>2. /\ LetGo \/ Granted
        /\ ~reset /\ t \in {"reset", "T2"}
    BY <1>1, <1>2, <2>1 DEF ClockInv, PlaceInv, AtStart, AtHeld, Granted
  <2>3. Age \in 1 .. 4
    BY DEF Age
  <2>4. Granted => t' = "T2"
    BY <1>1, <2>2, CpuMoves DEF Granted, ReadyPin
  <2> QED
    BY <1>1, <2>2, <2>3, <2>4, GapKept
<1>4. ASSUME Here' = "loose", Doing' = "WAITIO"
      PROVE  seen' \/ Fresh(DeafFor)' \/ (NoIo' /\ InGap(DeafFor)')
  <2>1. Op' = "WAITIO"
    BY <1>4 DEF Doing
  <2>2. Op = "DETACH" /\ Here = "detach"
    BY <1>2, <1>4, <2>1 DEF Leads, Inner, Answers
  <2>3. seen \/ Fresh(6) \/ (NoIo /\ InGap(6))
    BY <1>2, <2>2 DEF DeafInv, Deaf, DeafFor
  <2>4. Loose /\ ~reset /\ t # "reset"
    BY <1>1, <1>2, <2>2 DEF ClockInv, PlaceInv, AtDetach
  <2>5. seen' \/ Fresh(6 + 1)' \/ (NoIo' /\ InGap(6 + 1)')
    BY <1>1, <1>2, <2>3, <2>4, DeafGoesOn, 6 \in 6 .. 8
  <2>6. DeafFor' = 6 + 1
    BY <1>2, <1>4 DEF DeafFor, Age
  <2> QED
    BY <2>5, <2>6 DEF InGap, Fresh
<1> QED
  BY <1>2, <1>3, <1>4 DEF DeafInv, Deaf

LEMMA DeafTick ==
    ASSUME IoGap >= 2, ClockType, ClockInv, DeafInv, Tick
    PROVE  DeafInv'
<1>1. PICK a \in AdsSeen : OcdEdge(a) /\ BcEdge(a) /\ Around(a)
  BY TickParts
<1>2. /\ prog \in ProgramNames /\ pc \in Nat /\ CpuEdge
      /\ pc = 0 => st = "STORE"
  BY <1>1, AllPlaced DEF ClockType, ClockInv, Around
<1>3. CASE st = "EXEC" /\ DoExec(a)
  BY <1>1, <1>2, <1>3, ExecGap
<1>4. CASE st = "STORE" /\ ~InReset /\ DoStore
  BY <1>1, <1>2, <1>4, StoreGap DEF InReset
<1>5. CASE ~(st = "EXEC" /\ DoExec(a)) /\ ~(st = "STORE" /\ ~InReset /\ DoStore)
  <2>1. /\ prog' = prog /\ stop' = stop /\ en' = en /\ ready' = ready /\ hold' = hold
        /\ reset' = reset
    BY <1>1, <1>5 DEF OcdEdge, DoFetch, DoLoad, ResetStore, DoStoreFetch
  <2>2. \/ pc > 0 /\ pc' = pc /\ st = "STORE_FETCH" /\ st' = "FETCH"
        \/ pc > 0 /\ pc' = pc /\ st = "FETCH" /\ st' = "LOAD"
        \/ pc > 0 /\ pc' = pc /\ st = "LOAD" /\ st' = "EXEC"
        \/ pc = 0 /\ pc' = 1 /\ st = "STORE" /\ st' = "STORE_FETCH"
    BY <1>1, <1>2, <1>5 DEF OcdEdge, DoFetch, DoLoad, ResetStore, DoStoreFetch, InReset
  <2>3. Here' = Here
    BY <1>2, <2>1, <2>2, FirstPlaces DEF Here
  <2>4. pc = 0 => Here \notin {"due", "detach", "drain"}
    BY <1>2 DEF Here, Place, ProgramNames
  <2>5. Passing
    <3>1. st # "EXEC" /\ seen \in BOOLEAN /\ answered \in BOOLEAN
      BY <1>1, <1>5 DEF OcdEdge, ClockType
    <3>2. LastTick <=> tick = 3
      BY DEF LastTick, TicksPerState
    <3> QED
      BY <1>1, <3>1, <3>2 DEF Around, Passing
  <2> QED
    BY <1>2, <2>1, <2>2, <2>3, <2>4, <2>5, QuietGap DEF Unchanged
<1> QED
  BY <1>3, <1>4, <1>5

LEMMA DeafNext ==
    ASSUME IoGap >= 2
    PROVE  ClockType /\ ClockInv /\ DeafInv /\ [Next]_clockVars => DeafInv'
<1> SUFFICES ASSUME ClockType, ClockInv, DeafInv, [Next]_clockVars PROVE DeafInv'
  OBVIOUS
<1>1. CASE Tick
  BY <1>1, DeafTick
<1>2. ASSUME NEW p \in ProgramNames, FirmwareRun(p) PROVE DeafInv'
  <2>1. Here' = Place(p, 0) /\ Doing' = "none" /\ ~Stores' /\ st' = "STORE"
    BY <1>2 DEF FirmwareRun, Here, Doing, Stores, InReset
  <2>2. Place(p, 0) # "detach"
    BY DEF Place, ProgramNames
  <2> QED
    BY <2>1, <2>2 DEF DeafInv, AtGap, Deaf
<1>3. CASE UNCHANGED clockVars
  <2>1. /\ prog' = prog /\ pc' = pc /\ st' = st /\ t' = t /\ tick' = tick
        /\ kind' = kind /\ since' = since /\ seen' = seen
    BY <1>3 DEF clockVars, ocdRegs, bcRegs, cpuRegs
  <2>2. Here' = Here /\ Doing' = Doing /\ Stores' = Stores
    BY <2>1 DEF Here, Doing, Op, Stores, InReset
  <2>3. NoIo' = NoIo /\ DeafFor' = DeafFor /\ Deaf' = Deaf
    BY <2>1, <2>2 DEF NoIo, InCycle, DeafFor, Age, Deaf
  <2>4. InGap(DeafFor)' = InGap(DeafFor) /\ Fresh(DeafFor)' = Fresh(DeafFor)
    BY <2>1, <2>3 DEF InGap, Fresh
  <2> QED
    BY <2>1, <2>2, <2>3, <2>4 DEF DeafInv, AtGap
<1> QED
  BY <1>1, <1>2, <1>3 DEF Next

\* Every I/O cycle that ends in emulation was seen.
LEMMA EndOfIo ==
    ASSUME ClockType, ClockInv, DeafInv, CycleEnds, kind = "io", prog \in Emulating, ~reset
    PROVE  seen
<1>1. /\ prog \in ProgramNames /\ pc \in 0 .. Len(Code[prog]) /\ pc \in Nat /\ tick \in 0 .. 3
      /\ st \in States /\ PlaceInv /\ t = "T2" /\ tick = 3 /\ ReadyPin
  BY AllPlaced DEF ClockType, ClockInv, CycleEnds, LastTick, TicksPerState
<1>2. Here \in {"start", "held", "due", "begin", "detach", "loose"}
  BY <1>1 DEF Here, Place, Emulating
<1>3. LetGo => seen
  <2>1. Age \in 1 .. 5
    BY <1>1 DEF Age, States
  <2> QED
    BY <1>1, <2>1 DEF LetGo, Ending
<1>4. ~JustCaught /\ ~Open /\ ~Parked /\ ~NoIo /\ \A n \in Int : ~Fresh(n)
  BY <1>1 DEF JustCaught, Open, Parked, NoIo, InCycle, Fresh
<1> USE DEF PlaceInv
<1>5. CASE Here \in {"start", "held", "due", "begin"}
  BY <1>1, <1>3, <1>4, <1>5 DEF AtStart, AtHeld, AtDue, AtBegin, Held, Granted
<1>6. CASE Here = "detach"
  <2>1. Stores => seen
    BY <1>1, <1>4, <1>6 DEF DeafInv, Deaf, DeafFor
  <2> QED
    BY <1>1, <1>3, <1>6, <2>1 DEF AtDetach, Granted
<1>7. CASE Here = "loose"
  <2>1. pc > 0
    BY <1>1, <1>7 DEF Here, Place, Emulating
  <2>2. Op = "WAITIO" /\ Doing = "WAITIO"
    BY <1>1, <1>7, <2>1, LooseText DEF Here, Op, Doing, InReset, Emulating
  <2>3. seen \/ st = "STORE"
    <3>1. DeafFor \in Int
      BY <1>1, <1>7 DEF DeafFor, Age, States
    <3> QED
      BY <1>1, <1>4, <1>7, <2>2, <3>1 DEF DeafInv, Deaf, States
  <2>4. st = "STORE" => Stores
    BY <2>1 DEF Stores, InReset
  <2> QED
    BY <1>1, <1>4, <1>7, <2>2, <2>3, <2>4 DEF AtLoose, Waits
<1> QED
  BY <1>2, <1>5, <1>6, <1>7

\* In emulation the OCD sees every I/O cycle, though DETACH and WAITIO leave it deaf
\* for ten clocks, when the CPU's next I/O cycle is two T states or more away (ocd.v,
\* ocd_prgm.s).
THEOREM IoCyclesAreCaught ==
    ASSUME IoGap >= 2
    PROVE  Spec => []IoCaught
<1>1. Init => DeafInv
  <2> SUFFICES ASSUME Init PROVE DeafInv
    OBVIOUS
  <2>1. Here = "off"
    BY PlacesOf DEF Init, Here, ProgramNames
  <2> QED
    BY <2>1 DEF DeafInv, AtGap, Deaf
<1>2. ClockType /\ ClockInv /\ DeafInv => IoCaught
  BY EndOfIo DEF IoCaught
<1>3. ClockType /\ ClockInv /\ DeafInv /\ [Next]_clockVars => DeafInv'
  BY DeafNext
<1> QED
  BY <1>1, <1>2, <1>3, ClockInit, ClockNext, PTL DEF Spec
====
