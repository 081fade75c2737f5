---------------------------- MODULE OcdPrograms ----------------------------
(***************************************************************************)
(* The On-Chip Debugger (OCD) programs the supervisor firmware loads:      *)
(* sw/bridge/rtl/supervisor/software/supervisor/ocd_prgm.s, passed through *)
(* the assembler tools/ocd-as (Synth) as the shipped ocd_prgm.h was.       *)
(*                                                                         *)
(* An instruction is a record: op, source register s, destination register *)
(* d and v, the immediate of LDI or the target of a branch.  A program     *)
(* address is the index of an instruction (LDI's immediate word is folded  *)
(* into the instruction), counted from 1.                                  *)
(*                                                                         *)
(* A definition named Slip... is the one after it with a plausible mistake *)
(* in it; nothing refers to it.  PROJECT.json says which property fails    *)
(* when it takes the other's place.                                        *)
(***************************************************************************)
EXTENDS Integers, Sequences

Ins(op, s, d, v) == [op |-> op, s |-> s, d |-> d, v |-> v]

Do(op)       == Ins(op, 0, 0, 0)
To(op, d)    == Ins(op, 0, d, 0)
From(op, s)  == Ins(op, s, 0, 0)
Ldi(d, word) == Ins("LDI", 0, d, word)
Jump(op, pc) == Ins(op, 0, 0, pc)

\* LDI R1, w ; STD R1 ; WAITADS for each word w: answer one CPU read per word.
Serve(words) ==
    [i \in 1 .. 3 * Len(words) |->
        CASE i % 3 = 1 -> Ldi(1, words[(i + 2) \div 3])
          [] i % 3 = 2 -> From("STD", 1)
          [] OTHER     -> Do("WAITADS")]

\* STD r ; WAITADS for each register r.
Drive(rs) ==
    [i \in 1 .. 2 * Len(rs) |->
        IF i % 2 = 1 THEN From("STD", rs[(i + 1) \div 2]) ELSE Do("WAITADS")]

\* LDD r ; READY ; WAITADS for each register r: take what the CPU writes.
Capture(rs) ==
    [i \in 1 .. 3 * Len(rs) |->
        CASE i % 3 = 1 -> To("LDD", rs[(i + 2) \div 3])
          [] i % 3 = 2 -> Do("READY")
          [] OTHER     -> Do("WAITADS")]

\* The common tail: release the bus, wait for an I/O cycle, note its address
\* and direction.
ReleaseUntilIo ==
    << Do("DETACH"), Do("WAITIO"), To("LDAL", 1), To("LDWR", 2), Do("EXIT") >>

-----------------------------------------------------------------------------
\* The README's listing of the reset routine has no ATTACH.
SlipResetDetached == << Do("RESET"), Do("EXIT") >>
PrgmReset   == << Do("RESET"), Do("ATTACH"), Do("EXIT") >>
SlipStartInReset == ReleaseUntilIo
PrgmStart   == << Do("START") >> \o ReleaseUntilIo
SlipReadIoaddr == << To("LDAL", 3), Do("EXIT") >>
PrgmReadIo  == << To("LDD", 3), Do("EXIT") >>
SlipDetachFirst ==
    << Do("DETACH"), From("STD", 3), Do("WAITIO"), To("LDAL", 1), To("LDWR", 2),
       Do("EXIT") >>
PrgmWriteIo == << From("STD", 3) >> \o ReleaseUntilIo

\* Words the break program answers the CPU's table reads with: a 32-bit
\* interrupt gate to 0008:000D0000, a flat code segment.
FakeIdtEntry == << 36352, 13, 0, 8 >>
FakeGdtEntry == << 39424, 207, 65535, 0 >>
NopNop == 37008                            \* 0x9090
IretNop == 37071                           \* 0x90CF
PushaNop == 36960                          \* 0x9060
NopMovEsp == 48272                         \* 0xBC90, OCD_REG_SET_ESP

BreakProtectedMode == 11                   \* label break_protected_mode
BreakRealMode == 57                        \* label break_real_mode

\* Interrupt the CPU, wait for its locked read of the interrupt table.
SlipMaskable == << Do("INT"), Do("WAITLOCK") >>
BreakEntry == << Do("NMI"), Do("WAITLOCK") >>

PrgmBreak ==
    BreakEntry \o
    << To("LDAL", 2), To("LDAH", 3), From("LDCMP", 2),
       Ldi(1, 8), From("CMP", 1), Jump("BNE", BreakProtectedMode),
       From("LDCMP", 3), Jump("BEQ", BreakRealMode) >>
    \o Serve(FakeIdtEntry) \o Serve(FakeGdtEntry)
    \o << Do("READY"), Do("WAITADS") >>
    \o Serve(<< NopNop >>)
    \o Capture(<< 2, 3, 4, 5 >>)
    \o << To("LDD", 6), Do("READY"), Ldi(1, 1), Do("HOLD"), Do("EXIT") >>
    \o << Ldi(1, 0), From("STD", 1), Do("WAITADS"),
          Ldi(1, 53248), From("STD", 1), To("CLR", 1),
          Do("HOLD"), Do("EXIT") >>

\* Registers with the words IRET pops: EIP, CS and its padding, EFLAGS low (the
\* high word, R3, ends the sequence without a wait).
SlipCsBeforeEip == << 4, 0, 5, 6, 2 >>
IretFrame == << 5, 6, 4, 0, 2 >>

\* A prefetch too few is answered: the last word of IRET is left to memory.
SlipPrefetchShort ==
    << Ldi(1, IretNop), Ldi(7, NopNop), Do("WAITADS") >>
    \o Drive(<< 1, 7, 7 >>)
    \o Drive(IretFrame)
    \o << From("STD", 3) >>
    \o ReleaseUntilIo
PrgmCont ==
    << Ldi(1, IretNop), Ldi(7, NopNop), Do("WAITADS") >>
    \o Drive(<< 1, 7, 7, 7 >>)
    \o Drive(IretFrame)
    \o << From("STD", 3) >>
    \o ReleaseUntilIo

PrgmGetRegs ==
    << Ldi(1, PushaNop), Ldi(2, NopNop), Do("WAITADS") >>
    \o Drive(<< 1, 2, 2, 2, 2 >>)
    \o Capture([i \in 1 .. 15 |-> i - 1])
    \o << To("LDD", 15), Do("READY"), Do("HOLD"), Do("EXIT") >>

PrgmSetReg ==
    << Ldi(4, NopNop), Do("WAITADS") >>
    \o Drive(<< 1, 2, 3, 4 >>)
    \o << From("STD", 4), Do("HOLD"), Do("EXIT") >>

-----------------------------------------------------------------------------
\* The opcode the assembler emits for an instruction: every mnemonic gets its
\* own opcode except BNE, which is given BEQ's.
SynthOp(op) == IF op = "BNE" THEN "BEQ" ELSE op

\* The program memory image of a source program.
Synth(source) ==
    [i \in DOMAIN source |-> [source[i] EXCEPT !.op = SynthOp(source[i].op)]]

\* What the program memory can hold.  "blank" is the memory the FPGA powers up
\* with: all zero, and opcode 0 is EXIT.
ProgramNames == { "blank", "reset", "start", "read_io", "write_io",
                  "break", "cont", "get_regs", "set_reg" }

Code ==
    [ blank    |-> << Do("EXIT") >>,
      reset    |-> Synth(PrgmReset),
      start    |-> Synth(PrgmStart),
      read_io  |-> Synth(PrgmReadIo),
      write_io |-> Synth(PrgmWriteIo),
      break    |-> Synth(PrgmBreak),
      cont     |-> Synth(PrgmCont),
      get_regs |-> Synth(PrgmGetRegs),
      set_reg  |-> Synth(PrgmSetReg) ]
=============================================================================
