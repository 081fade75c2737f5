-------------------------------- MODULE Ocd --------------------------------
(***************************************************************************)
(* The On-Chip Debugger of the bridge FPGA (sw/bridge/rtl/ocd.v), one step *)
(* per instruction.  An instruction takes five clocks (fetch, load, exec,  *)
(* store, store_fetch); only exec can repeat, while ExecWait holds.  Two   *)
(* steps cover that: OcdWait is the first exec clock of an instruction     *)
(* that has to wait, whose assignments take effect while it waits;         *)
(* OcdRetire is the last exec clock together with store.                   *)
(*                                                                         *)
(* Active-low pins are modelled by what they mean: ready = TRUE is         *)
(* _ready = 0.  The CPU side of the pins is the argument `pins`.           *)
(***************************************************************************)
EXTENDS OcdPrograms

VARIABLES
    prog,     \* name of the program in OCD memory
    pc,       \* index of the current instruction
    waiting,  \* the instruction has had an exec clock and waits
    stop,     \* status bit the firmware polls; set by EXIT
    en,       \* OCD drives the bus (ocd_en): its ready and data, RAM deselected
    ready, hold, nmi, intr, reset,          \* CPU control pins
    dout,     \* data register driven on the bus while en
    cmpr,     \* compare register
    regs      \* R0 .. R15, shared with the firmware (OCD_REGS)

ocdVars == << prog, pc, waiting, stop, en, ready, hold, nmi, intr, reset,
              dout, cmpr, regs >>

WordSize == 65536
Word == 0 .. WordSize - 1
RegIds == 0 .. 15

Bit(x, i) == (x \div 2^i) % 2

SlipKeepHighBits(x, y) == x + WordSize * y

\* Bitwise or of two words.
WordOr(x, y) ==
    LET upTo[n \in 0 .. 16] ==
            IF n = 0 THEN 0
            ELSE upTo[n - 1] + 2^(n - 1) * (IF Bit(x, n - 1) + Bit(y, n - 1) > 0
                                            THEN 1 ELSE 0)
    IN  upTo[16]

AsWord(b) == IF b THEN 1 ELSE 0

-----------------------------------------------------------------------------
(* Decoding and operands *)

Current == Code[prog][pc]

\* mem_load, LDI apart (its operand is the word that follows it).
LoadsRegister == { "MOV", "LDCMP", "CMP", "STD" }

\* mem_store
StoresRegister == { "LDI", "MOV", "LDD", "LDAL", "LDAH", "LDWR", "LDDC",
                    "LDMIO", "CLR" }

SlipIoNotTaken == { "WAITADS", "WAITLOCK" }
WaitOps == { "WAITADS", "WAITLOCK", "WAITIO" }

\* exec_wait
ExecWait(op, pins) ==
    \/ op = "WAITADS"  /\ ~pins.ads
    \/ op = "WAITLOCK" /\ ~(pins.ads /\ pins.lock)
    \/ op = "WAITIO"   /\ (~pins.ads \/ pins.mio)
    \/ op = "HOLD"     /\ ~pins.hlda
    \/ op = "EXIT"

\* source.  LDAL is gated with both halves of the address, LDAH with neither.
Source(i, pins) ==
    CASE i.op = "LDI"          -> i.v
      [] i.op \in LoadsRegister -> regs[i.s]
      [] i.op = "LDD"          -> pins.din
      [] i.op = "LDAL"         -> WordOr(pins.a % WordSize, pins.a \div WordSize)
      [] i.op = "LDWR"         -> AsWord(pins.wr)
      [] i.op = "LDDC"         -> AsWord(pins.dc)
      [] i.op = "LDMIO"        -> AsWord(pins.mio)
      [] OTHER                 -> 0

-----------------------------------------------------------------------------
(* exec: what every exec clock of instruction i assigns *)

ExecEn(op) == (en \/ op = "ATTACH") /\ op # "DETACH"

AssertsReady == { "READY", "WAITADS", "WAITLOCK", "STD" }

ExecReady(op) == ready \/ op \in AssertsReady

ExecNmi(op) == (nmi \/ op = "NMI") /\ op # "START"

DoExec(i, pins) ==
    /\ stop'  = (stop \/ i.op = "EXIT")
    /\ reset' = ((reset \/ i.op = "RESET") /\ i.op # "START")
    /\ intr'  = ((intr \/ i.op = "INT") /\ i.op # "START")
    /\ hold'  = ((hold \/ i.op = "HOLD")
                    /\ i.op # "START" /\ i.op \notin AssertsReady)
    /\ dout'  = IF i.op = "STD" THEN Source(i, pins) ELSE dout
    /\ cmpr'  = CASE i.op = "LDCMP" -> Source(i, pins)
                  [] i.op = "CMP"   -> AsWord(Source(i, pins) = cmpr)
                  [] OTHER          -> cmpr

\* next_pc after exec.
BranchTaken(op) ==
    \/ op = "BA"
    \/ op = "BEQ" /\ cmpr # 0
    \/ op = "BNE" /\ cmpr = 0

NextPc(i) == IF BranchTaken(i.op) THEN i.v ELSE pc + 1

\* store: a wait that ended takes the bus and withdraws ready and nmi.
DoStore(i, pins) ==
    /\ en'    = (ExecEn(i.op) \/ i.op \in WaitOps)
    /\ ready' = (ExecReady(i.op) /\ i.op \notin WaitOps)
    /\ nmi'   = (ExecNmi(i.op) /\ i.op \notin WaitOps)
    /\ regs'  = IF i.op \in StoresRegister
                THEN [regs EXCEPT ![i.d] = Source(i, pins)] ELSE regs
    /\ pc'    = NextPc(i)

-----------------------------------------------------------------------------
(* Steps *)

OcdWait(pins) ==
    /\ ~waiting
    /\ ExecWait(Current.op, pins)
    /\ DoExec(Current, pins)
    /\ en' = ExecEn(Current.op)
    /\ ready' = ExecReady(Current.op)
    /\ nmi' = ExecNmi(Current.op)
    /\ waiting' = TRUE
    /\ UNCHANGED << prog, pc, regs >>

OcdRetire(pins) ==
    /\ ~ExecWait(Current.op, pins)
    /\ DoExec(Current, pins)
    /\ DoStore(Current, pins)
    /\ waiting' = FALSE
    /\ UNCHANGED prog

\* ocd_run (firmware): reset the OCD, copy the program, release it.  reset_ocd
\* clears stop and the program counter and leaves the pins and en as they were.
OcdRun(p) ==
    /\ prog' = p
    /\ pc' = 1
    /\ waiting' = FALSE
    /\ stop' = FALSE
    /\ UNCHANGED << en, ready, hold, nmi, intr, reset, dout, cmpr >>

\* Power-up of the FPGA: registers and memory are zero, so _ready is asserted
\* and the first instruction is EXIT.
OcdInit ==
    /\ prog = "blank" /\ pc = 1
    /\ waiting = FALSE /\ stop = FALSE
    /\ en = FALSE /\ ready = TRUE /\ hold = FALSE
    /\ nmi = FALSE /\ intr = FALSE /\ reset = FALSE
    /\ dout = 0 /\ cmpr = 0
    /\ regs = [r \in RegIds |-> 0]

OcdTypeOK ==
    /\ prog \in ProgramNames
    /\ pc \in 1 .. Len(Code[prog])
    /\ waiting \in BOOLEAN /\ stop \in BOOLEAN /\ en \in BOOLEAN
    /\ ready \in BOOLEAN /\ hold \in BOOLEAN /\ nmi \in BOOLEAN
    /\ intr \in BOOLEAN /\ reset \in BOOLEAN
    /\ dout \in Word /\ cmpr \in Word
    /\ regs \in [RegIds -> Word]
=============================================================================
