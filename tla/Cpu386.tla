------------------------------ MODULE Cpu386 ------------------------------
(***************************************************************************)
(* The 386SX on the motherboard, as far as the bridge and the OCD programs *)
(* can tell: an external part, modelled from how ocd_prgm.s, ocd.v and     *)
(* bus_control.v use it.  It runs bus cycles (T1 with ADS# asserted, T2    *)
(* until READY#), is stalled by a withheld READY#, floats the bus on HOLD, *)
(* latches a rising edge of NMI and services it between two instructions.  *)
(*                                                                         *)
(* A level is what the CPU is doing: "prog" (the user's program, any bus   *)
(* cycle), "nmi" (table reads and pushes of an NMI), "handler" (fetching   *)
(* the words the OCD injects), "iret" and "pusha" (their stack cycles),    *)
(* "shutdown" (the NMI found no usable gate).  The number of prefetches    *)
(* before an injected instruction's stack cycles is the number ocd_prgm.s  *)
(* supplies.                                                               *)
(***************************************************************************)
EXTENDS Ocd

CONSTANTS
    Ports,       \* I/O ports the program uses
    IoWords,     \* words the program writes to a port
    LockedOps,   \* whether the program issues locked memory cycles (XCHG, ...)
    Contexts     \* register contexts the program can be interrupted in

\* 32-bit registers are pairs << low word, high word >>; gp holds EDI, ESI,
\* EBP, ESP, EBX, EDX, ECX, EAX at 0 .. 7, the order PUSHA's words are read in.
Dword == Word \X Word
ESP == 3
ContextType == [eflags : Dword, cs : Word, eip : Dword, gp : [0 .. 7 -> Dword]]

ASSUME CpuAssumption ==
    /\ Ports \subseteq Word
    /\ IoWords \subseteq Word
    /\ LockedOps \in BOOLEAN
    /\ Contexts \subseteq ContextType
    /\ Contexts # {}

VARIABLES cpu,     \* the CPU
          saved    \* history: the context the last NMI interrupted

Low(d) == d[1]
High(d) == d[2]

\* 32-bit d + n.
AddDword(d, n) ==
    << (Low(d) + n) % WordSize, (High(d) + (Low(d) + n) \div WordSize) % WordSize >>

-----------------------------------------------------------------------------
(* Bus cycles *)

Cycle(mio, wr, lock, a, din) ==
    [mio |-> mio, wr |-> wr, lock |-> lock, a |-> a, din |-> din]
Read(lock, a)  == Cycle(TRUE, FALSE, lock, a, 0)
Push(word)     == Cycle(TRUE, TRUE, FALSE, 0, word)

\* The program's next cycle: memory, locked memory, I/O read, I/O write.  Where
\* in memory is of no interest; 0 stands for any address.
ProgramCycles ==
    { Read(lock, 0) : lock \in {FALSE, LockedOps} }
        \cup { Cycle(FALSE, FALSE, FALSE, p, 0) : p \in Ports }
        \cup { Cycle(FALSE, TRUE, FALSE, p, w) : p \in Ports, w \in IoWords }

\* NMI in protected mode: gate and descriptor reads (the gate's are locked), the
\* descriptor's accessed bit, a prefetch, then EFLAGS, CS, EIP.
NmiProtected(c) ==
    [i \in 1 .. 4 |-> Read(TRUE, 65536 + 2 * i)]
        \o [i \in 1 .. 4 |-> Read(FALSE, 65600 + 2 * i)]
        \o << Push(0), Read(FALSE, 851968) >>
        \o << Push(Low(c.eflags)), Push(High(c.eflags)), Push(c.cs),
              Push(Low(c.eip)), Push(High(c.eip)) >>

\* NMI in real mode: vector 2 of the table at 0, then FLAGS, CS, IP.
NmiReal(c) ==
    << Read(TRUE, 8), Read(TRUE, 10),
       Push(Low(c.eflags)), Push(c.cs), Push(Low(c.eip)) >>

\* The cycles of a level, for the levels that have a fixed sequence.
Microcode(level, mode, c) ==
    CASE level = "nmi" /\ mode = "prot" -> NmiProtected(c)
      [] level = "nmi" /\ mode = "real" -> NmiReal(c)
      [] level = "iret"  -> [i \in 1 .. 6 |-> Read(FALSE, 0)]
      [] level = "pusha" -> [i \in 1 .. 16 |->
                                Push(c.gp[(i - 1) \div 2][1 + ((i - 1) % 2)])]

\* The gate is present and leads to a present code segment.
GateUsable(words) == words[1] = 36352 /\ words[4] # 0 /\ words[5] = 39424

-----------------------------------------------------------------------------
(* Pins the OCD samples *)

InCycle == cpu.phase \in {"T1", "T2"}

Pins == [ ads  |-> cpu.phase = "T1",
          lock |-> InCycle /\ cpu.cur.lock,
          mio  |-> cpu.cur.mio,
          dc   |-> TRUE,
          wr   |-> cpu.cur.wr,
          a    |-> cpu.cur.a,
          din  |-> cpu.cur.din,
          hlda |-> cpu.phase = "held" ]

\* A cycle of the program that wants an I/O port.
IoCycle == InCycle /\ ~cpu.cur.mio

\* READY# as the CPU sees it (top_level: ocd_en ? sv_ready : bc_ready).
\* bus_control answers every cycle after one T2 clock.
ReadySeen == IF en THEN ready ELSE TRUE

\* The word a read cycle returns.  Memory's content is of no interest; an I/O
\* read nobody answers returns 0 (memory_control is deselected).
WordSeen == IF en THEN dout ELSE 0

-----------------------------------------------------------------------------
(* Steps of the CPU *)

ResetCpu(phase) ==
    [phase |-> phase, mode |-> "real", level |-> "prog", cur |-> Read(FALSE, 0),
     k |-> 0, got |-> << >>, fetched |-> << >>, nmi |-> FALSE,
     ctx |-> CHOOSE c \in Contexts : TRUE]

CpuRelease ==
    /\ ~reset /\ cpu.phase = "reset"
    /\ cpu' = [cpu EXCEPT !.phase = "idle"]

\* The program enables protected mode.
CpuEnterProtected ==
    /\ ~reset /\ cpu.phase = "idle" /\ cpu.level = "prog" /\ cpu.mode = "real"
    /\ cpu' = [cpu EXCEPT !.mode = "prot"]

\* An NMI is serviced between two instructions of the program.
CpuTakeNmi ==
    /\ ~reset /\ cpu.phase = "idle" /\ cpu.level = "prog" /\ cpu.nmi
    /\ \E c \in Contexts :
          /\ cpu' = [cpu EXCEPT !.level = "nmi", !.nmi = FALSE, !.ctx = c,
                                !.k = 0, !.got = << >>]
          /\ saved' = c

\* The OCD keeps up with the bus: a cycle starts while the OCD waits for one.
OcdKeepsUp == waiting

StartCycle(c) ==
    /\ ~reset /\ ~hold /\ cpu.phase = "idle"
    /\ OcdKeepsUp
    /\ cpu' = [cpu EXCEPT !.phase = "T1", !.cur = c]

CpuStart ==
    \/ cpu.level = "prog" /\ \E c \in ProgramCycles : StartCycle(c)
    \/ cpu.level = "handler" /\ StartCycle(Read(FALSE, 851968))
    \/ /\ cpu.level \in {"nmi", "iret", "pusha"}
       /\ StartCycle(Microcode(cpu.level, cpu.mode, cpu.ctx)[cpu.k + 1])

\* ADS# lasts long enough for an OCD that waits on it to see it.
CpuT2 ==
    /\ ~reset /\ cpu.phase = "T1"
    /\ ~(waiting /\ Current.op \in WaitOps /\ ~ExecWait(Current.op, Pins))
    /\ cpu' = [cpu EXCEPT !.phase = "T2"]

CpuHold ==
    /\ ~reset /\ hold /\ cpu.phase = "idle"
    /\ cpu' = [cpu EXCEPT !.phase = "held"]

CpuUnhold ==
    /\ ~reset /\ ~hold /\ cpu.phase = "held"
    /\ cpu' = [cpu EXCEPT !.phase = "idle"]

\* Words of an injected instruction whose last one is still to come.
Partial(f) ==
    \/ f[1] = IretNop /\ Len(f) < 4
    \/ f[1] = PushaNop /\ Len(f) < 5
    \/ f[1] = NopMovEsp /\ Len(f) < 3

\* The CPU after the handler fetched words f: what they make it execute.
HandlerFetched(c, f) ==
    CASE f[1] = IretNop /\ Len(f) = 4 ->
            [c EXCEPT !.level = "iret", !.k = 0, !.got = << >>, !.fetched = << >>]
      [] f[1] = PushaNop /\ Len(f) = 5 ->
            [c EXCEPT !.level = "pusha", !.k = 0, !.fetched = << >>]
      [] f[1] = NopMovEsp /\ Len(f) = 3 ->
            [c EXCEPT !.ctx.gp[ESP] = << f[2], f[3] >>, !.fetched = << >>]
      [] Partial(f) -> [c EXCEPT !.fetched = f]
      [] OTHER -> [c EXCEPT !.fetched = << >>]

\* The CPU after the last cycle of a microcode sequence; words is what it read.
MicrocodeDone(c, words) ==
    CASE c.level = "nmi" /\ c.mode = "prot" /\ GateUsable(words) ->
            [c EXCEPT !.level = "handler", !.ctx.gp[ESP] = AddDword(@, -12)]
      [] c.level = "nmi" /\ c.mode = "prot" /\ ~GateUsable(words) ->
            [c EXCEPT !.level = "shutdown"]
      [] c.level = "nmi" /\ c.mode = "real" ->
            [c EXCEPT !.level = "handler", !.ctx.gp[ESP] = AddDword(@, -6)]
      [] c.level = "pusha" ->
            [c EXCEPT !.level = "handler", !.ctx.gp[ESP] = AddDword(@, -32)]
      [] c.level = "iret" ->
            [c EXCEPT !.level = "prog",
                      !.ctx = [c.ctx EXCEPT !.eip = << words[1], words[2] >>,
                                            !.cs = words[3],
                                            !.eflags = << words[5], words[6] >>,
                                            !.gp[ESP] = AddDword(@, 12)]]

\* A cycle of a fixed sequence ended, the last one included.
MicrocodeStep(c, words) ==
    IF c.k + 1 < Len(Microcode(c.level, c.mode, c.ctx))
    THEN [c EXCEPT !.k = @ + 1, !.got = words]
    ELSE MicrocodeDone([c EXCEPT !.k = 0, !.got = << >>], words)

\* READY# is sampled asserted at the end of T2: the cycle is over.
CpuFinish ==
    /\ ~reset /\ cpu.phase = "T2" /\ ReadySeen
    /\ LET c == [cpu EXCEPT !.phase = "idle"]
           words == IF cpu.cur.wr THEN cpu.got ELSE Append(cpu.got, WordSeen)
       IN  cpu' = CASE cpu.level = "prog"    -> c
                    [] cpu.level = "handler" ->
                          HandlerFetched(c, Append(cpu.fetched, WordSeen))
                    [] OTHER                 -> MicrocodeStep(c, words)

\* ADS# lasts two OCD clocks, an OCD instruction five: T1 is over when the OCD
\* executes its next instruction.
T1Over == IF cpu.phase = "T1" /\ ~waiting' THEN [cpu EXCEPT !.phase = "T2"] ELSE cpu

\* The CPU after the OCD drove its pins: RESET acts at once (it is asserted for
\* as long as the host leaves it so), a rising edge of NMI is latched.
OcdPinsDriven ==
    IF reset' THEN ResetCpu("reset")
    ELSE IF ~nmi /\ nmi' /\ cpu.phase # "reset" THEN [T1Over EXCEPT !.nmi = TRUE]
    ELSE T1Over

\* The CPU samples an asserted READY# before the OCD's next instruction: T2 is
\* one clock, an OCD instruction takes two and a half.
ReadySampled == ~(en /\ ready /\ cpu.phase = "T2")

CpuTypeOK ==
    /\ cpu.phase \in {"reset", "idle", "T1", "T2", "held"}
    /\ cpu.mode \in {"real", "prot"}
    /\ cpu.level \in {"prog", "nmi", "handler", "iret", "pusha", "shutdown"}
    /\ cpu.k \in 0 .. 15
    /\ Len(cpu.got) <= 10
    /\ Len(cpu.fetched) <= 4
    /\ cpu.nmi \in BOOLEAN
    /\ cpu.ctx \in ContextType
    /\ saved \in Contexts
=============================================================================
