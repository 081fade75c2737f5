----------------------------- MODULE DebugStack -----------------------------
(***************************************************************************)
(* The bridge's supervisor firmware driving the OCD, and through it the    *)
(* CPU: supervisor.c, main.c's loop, the state-changing commands of        *)
(* proto.c and the LED device of dev.c and led.c.  The firmware is one     *)
(* thread; each ocd_busywait is a place where it spins while the OCD and   *)
(* the CPU go on, so a handler is split there and nowhere else.  The OCD   *)
(* and the CPU interleave freely within the timing Cpu386 names.           *)
(***************************************************************************)
EXTENDS Cpu386

CONSTANTS
    Commands,    \* commands the host sends, a subset of AllCommands
    BreakModes,  \* CPU modes in which the host sends BRK
    HostWords    \* words the host sends with SETIODATA

AllCommands == { "START", "STOP", "BRK", "CONT", "GETREGS", "SETIODATA" }

ASSUME HostAssumption ==
    /\ Commands \subseteq AllCommands
    /\ BreakModes \subseteq {"real", "prot"}
    /\ HostWords \subseteq Word

VARIABLES
    loc,      \* where the firmware is
    status,   \* sv->status
    ioaddr,   \* sv->ioaddr
    iodata,   \* sv->iodata
    sregs,    \* sv->regs: eflags, cs, eip and the eight registers of PUSHA
    led,      \* the LED device's register
    io        \* history: how far the CPU's current I/O cycle has come and the
              \* word a granted read is to get

svVars == << loc, status, ioaddr, iodata, sregs, led >>
cpuVars == << cpu, saved >>
vars == << ocdVars, cpuVars, svVars, io >>

Statuses == { "STOP", "RUNNING", "BRK16", "BRK32", "IOWR", "IORD" }

\* "uart" and "ocd" are the two polls of main's loop, the others the busy-waits.
Locations == { "boot", "uart", "ocd", "init_wait", "stop_wait", "brk_wait",
               "iowr_wait", "regs_wait", "esp_wait" }

LedPort == 16

Io(stage, word) == [stage |-> stage, word |-> word]
NoIo == Io("none", 0)

-----------------------------------------------------------------------------
(* OCD registers as the firmware addresses them (ocd.h) *)

REG_CPU_MODE == 1
REG_EFLAGS == 2
REG_CS == 4
REG_EIP == 5
REG_SET == 1
REG_RVALUE == 2
REG_IOADDR == 1
REG_IOWR == 2
REG_IODATA == 3

GetReg32(id) == << regs[id], regs[id + 1] >>

SetReg32(r, id, d) == [r EXCEPT ![id] = Low(d), ![id + 1] = High(d)]

SlipEspAsPushed(d) == d
EspRun(d) == AddDword(d, 12)
SlipEspAsReported(d) == d
EspBrk(d) == AddDword(d, -12)

-----------------------------------------------------------------------------
(* Devices the supervisor serves itself: the LED *)

\* find_dev succeeds: the list holds the LED, one port wide.
HasDev(port) == port = LedPort

-----------------------------------------------------------------------------
(* The handlers' parts *)

SlipStatusKept(p) == OcdRun(p) /\ UNCHANGED status

\* ocd_run(p); sv_set_status(sv, ST_RUNNING)
Running(p) ==
    /\ OcdRun(p)
    /\ status' = "RUNNING"

\* sv_cont, called with status st, I/O data word and registers r: by the host's
\* CONT and at the end of sv_iobreak.
SvCont(st, word) ==
    \/ /\ st = "BRK32"
       /\ Running("cont")
       /\ regs' = SetReg32(SetReg32([regs EXCEPT ![REG_CS] = sregs.cs],
                                    REG_EFLAGS, sregs.eflags),
                           REG_EIP, sregs.eip)
       /\ UNCHANGED io
    \/ /\ st = "IORD"
       /\ Running("write_io")
       /\ regs' = [regs EXCEPT ![REG_IODATA] = word]
       /\ io' = Io("granted", word)
    \/ /\ st = "IOWR"
       /\ Running("start")
       /\ io' = Io("granted", 0)
       /\ UNCHANGED regs

\* What a refused command, and a poll that finds nothing, leave alone.
dataVars == << ocdVars, status, ioaddr, iodata, sregs, led, io >>

\* After ocd_busywait.
Waited(place) == loc = place /\ stop

Goto(place) == loc' = place

-----------------------------------------------------------------------------
(* Firmware: sv_init and the commands *)

SvInit ==
    /\ loc = "boot"
    /\ OcdRun("reset")
    /\ Goto("init_wait")
    /\ UNCHANGED << regs, status, ioaddr, iodata, sregs, led, io >>

SvInitDone ==
    /\ Waited("init_wait")
    /\ status' = "STOP"
    /\ Goto("uart")
    /\ UNCHANGED << ocdVars, ioaddr, iodata, sregs, led, io >>

Receives(cmd) == loc = "uart" /\ cmd \in Commands

\* A command this status has no use for: the handler returns 1.
Refuse ==
    /\ \/ Receives("START") /\ status # "STOP"
       \/ Receives("BRK") /\ status # "RUNNING"
       \/ Receives("CONT") /\ status \notin {"BRK32", "IORD", "IOWR"}
       \/ Receives("GETREGS") /\ status # "BRK32"
    /\ Goto("ocd")
    /\ UNCHANGED dataVars

NoCommand ==
    /\ loc = "uart"
    /\ Goto("ocd")
    /\ UNCHANGED dataVars

SvStop ==
    /\ Receives("STOP")
    /\ OcdRun("reset")
    /\ Goto("stop_wait")
    /\ UNCHANGED << regs, status, ioaddr, iodata, sregs, led, io >>

SvStopDone ==
    /\ Waited("stop_wait")
    /\ status' = "STOP"
    /\ Goto("ocd")
    /\ UNCHANGED << ocdVars, ioaddr, iodata, sregs, led, io >>

SvStart ==
    /\ Receives("START") /\ status = "STOP"
    /\ Running("start")
    /\ Goto("ocd")
    /\ UNCHANGED << regs, ioaddr, iodata, sregs, led, io >>

\* The OCD has released the CPU.  A command takes milliseconds on the UART, the
\* instructions from START (or an IRET's stack cycles) to WAITIO microseconds.
Released == Current.op \in {"WAITIO", "LDAL", "LDWR", "EXIT"}

SvBrk ==
    /\ Receives("BRK") /\ status = "RUNNING"
    /\ Released /\ cpu.mode \in BreakModes
    /\ OcdRun("break")
    /\ Goto("brk_wait")
    /\ UNCHANGED << regs, status, ioaddr, iodata, sregs, led, io >>

SvBrkDone ==
    /\ Waited("brk_wait")
    /\ sregs' = [sregs EXCEPT !.eflags = GetReg32(REG_EFLAGS),
                              !.cs = regs[REG_CS],
                              !.eip = GetReg32(REG_EIP)]
    /\ status' = IF regs[REG_CPU_MODE] # 0 THEN "BRK32" ELSE "BRK16"
    /\ Goto("ocd")
    /\ UNCHANGED << ocdVars, ioaddr, iodata, led, io >>

HostCont ==
    /\ Receives("CONT")
    /\ SvCont(status, iodata)
    /\ Goto("ocd")
    /\ UNCHANGED << ioaddr, iodata, sregs, led >>

SvSetIoData ==
    /\ Receives("SETIODATA")
    /\ iodata' \in HostWords
    /\ Goto("ocd")
    /\ UNCHANGED << ocdVars, status, ioaddr, sregs, led, io >>

SvGetRegs ==
    /\ Receives("GETREGS") /\ status = "BRK32"
    /\ OcdRun("get_regs")
    /\ Goto("regs_wait")
    /\ UNCHANGED << regs, status, ioaddr, iodata, sregs, led, io >>

\* The registers are in: PUSHA moved ESP, so a second program puts it back.
SvGetRegsRestore ==
    /\ Waited("regs_wait")
    /\ sregs' = [sregs EXCEPT
                    !.gp = [i \in 0 .. 7 |-> IF i = ESP
                                             THEN EspRun(GetReg32(2 * i))
                                             ELSE GetReg32(2 * i)]]
    /\ OcdRun("set_reg")
    /\ regs' = SetReg32([regs EXCEPT ![REG_SET] = NopMovEsp],
                        REG_RVALUE, EspBrk(sregs'.gp[ESP]))
    /\ Goto("esp_wait")
    /\ UNCHANGED << status, ioaddr, iodata, led, io >>

SvGetRegsDone ==
    /\ Waited("esp_wait")
    /\ Goto("ocd")
    /\ UNCHANGED dataVars

-----------------------------------------------------------------------------
(* Firmware: the second poll, sv_iobreak *)

OcdRunning ==
    /\ loc = "ocd" /\ (~stop \/ status # "RUNNING")
    /\ Goto("uart")
    /\ UNCHANGED dataVars

IoBreak == loc = "ocd" /\ stop /\ status = "RUNNING" /\ ioaddr' = regs[REG_IOADDR]

IoBreakWrite ==
    /\ IoBreak /\ regs[REG_IOWR] # 0
    /\ OcdRun("read_io")
    /\ Goto("iowr_wait")
    /\ UNCHANGED << regs, status, iodata, sregs, led, io >>

IoBreakWriteDone ==
    /\ Waited("iowr_wait")
    /\ iodata' = regs[REG_IODATA]
    /\ \/ /\ HasDev(ioaddr)
          /\ led' = iodata' % 256
          /\ SvCont("IOWR", iodata')
       \/ /\ ~HasDev(ioaddr)
          /\ status' = "IOWR" /\ io' = Io("reported", 0)
          /\ UNCHANGED << ocdVars, led >>
    /\ Goto("uart")
    /\ UNCHANGED << ioaddr, sregs >>

IoBreakRead ==
    /\ IoBreak /\ regs[REG_IOWR] = 0
    /\ \/ /\ HasDev(ioaddr')
          /\ iodata' = led
          /\ SvCont("IORD", iodata')
       \/ /\ ~HasDev(ioaddr')
          /\ status' = "IORD" /\ io' = Io("reported", 0)
          /\ UNCHANGED << ocdVars, iodata >>
    /\ Goto("uart")
    /\ UNCHANGED << sregs, led >>

SvHandle ==
    \/ Refuse \/ SvStop \/ SvStart \/ SvBrk \/ HostCont \/ SvSetIoData \/ SvGetRegs

SvContinue ==
    \/ SvInit \/ SvInitDone \/ NoCommand \/ SvStopDone \/ SvBrkDone
    \/ SvGetRegsRestore \/ SvGetRegsDone
    \/ OcdRunning \/ IoBreakWrite \/ IoBreakWriteDone \/ IoBreakRead

Supervisor == (SvHandle \/ SvContinue) /\ UNCHANGED cpuVars

-----------------------------------------------------------------------------
(* OCD and CPU *)

\* The history of an I/O cycle follows the CPU's bus cycles.
IoAfter(c) ==
    CASE c.phase = "T1" /\ ~c.cur.mio -> Io("pending", 0)
      [] c.phase \in {"idle", "reset"} -> NoIo
      [] OTHER -> io

OcdStep ==
    /\ \/ OcdWait(Pins)
       \/ ReadySampled /\ OcdRetire(Pins)
    /\ cpu' = OcdPinsDriven
    /\ io' = IoAfter(cpu')
    /\ UNCHANGED << saved, svVars >>

CpuQuiet == UNCHANGED << ocdVars, svVars >> /\ io' = IoAfter(cpu')

CpuControl == (CpuRelease \/ CpuEnterProtected \/ CpuHold \/ CpuUnhold)
                /\ CpuQuiet /\ UNCHANGED saved
CpuBus     == (CpuStart \/ CpuT2 \/ CpuFinish) /\ CpuQuiet /\ UNCHANGED saved
CpuNmi     == CpuTakeNmi /\ CpuQuiet

Cpu == CpuControl \/ CpuBus \/ CpuNmi

-----------------------------------------------------------------------------
NoDword == << 0, 0 >>

Init ==
    /\ OcdInit
    /\ cpu = ResetCpu("idle")
    /\ saved = cpu.ctx
    /\ loc = "boot"
    /\ status \in Statuses        \* sv is not initialised before sv_init
    /\ ioaddr = 0 /\ iodata = 0
    /\ sregs = [eflags |-> NoDword, cs |-> 0, eip |-> NoDword,
                gp |-> [i \in 0 .. 7 |-> NoDword]]
    /\ led = 0
    /\ io = NoIo

Next == Supervisor \/ OcdStep \/ Cpu

\* The firmware's loop and the OCD's clock never stop; the CPU completes a bus
\* cycle it may complete and services a pending NMI at some instruction
\* boundary, however many cycles its program issues.  Nothing is assumed of the
\* host, nor of the program's choice of cycles.
Fairness ==
    /\ WF_vars(SvContinue /\ UNCHANGED cpuVars)
    /\ WF_vars(OcdStep)
    /\ WF_vars(CpuRelease /\ CpuQuiet /\ UNCHANGED saved)
    /\ WF_vars((CpuHold \/ CpuUnhold) /\ CpuQuiet /\ UNCHANGED saved)
    /\ WF_vars((CpuT2 \/ CpuFinish) /\ CpuQuiet /\ UNCHANGED saved)
    /\ WF_vars(cpu.level # "prog" /\ CpuStart /\ CpuQuiet /\ UNCHANGED saved)
    /\ SF_vars(CpuNmi)

Spec == Init /\ [][Next]_vars
FairSpec == Spec /\ Fairness

-----------------------------------------------------------------------------
(* Type *)

\* The variables keep their types: bus words fit 16 bits, the program counter
\* stays inside the loaded program.
TypeOK ==
    /\ OcdTypeOK
    /\ CpuTypeOK
    /\ loc \in Locations
    /\ status \in Statuses
    /\ ioaddr \in Word /\ iodata \in Word
    /\ sregs \in ContextType
    /\ led \in 0 .. 255
    /\ io \in [stage : {"none", "pending", "reported", "granted"}, word : Word]

-----------------------------------------------------------------------------
(* What the host is told is true.  A status is visible to the host when the
   firmware is back at its polls. *)

AtPoll == loc \in {"uart", "ocd"}

\* STOP: the CPU is held in reset and the OCD has the bus, whatever was going on
\* when sv_stop was called.
StopTruth == AtPoll /\ status = "STOP" => reset /\ en

\* IORD and IOWR: the CPU is stalled in that very I/O cycle, at the address the
\* host reads with GETIOADDR, and the OCD holds it there.
IoTruth ==
    AtPoll /\ status \in {"IORD", "IOWR"} =>
        /\ cpu.phase = "T2" /\ IoCycle
        /\ cpu.cur.a = ioaddr
        /\ cpu.cur.wr = (status = "IOWR")
        /\ en /\ ~ready

\* BRK32: the CPU floats its bus inside the injected handler, in protected mode;
\* the registers sv_brk reported are those the program was interrupted with, and
\* the stack pointer is where the NMI left it, however often GETREGS ran.
BreakTruth ==
    AtPoll /\ status = "BRK32" =>
        /\ cpu.phase = "held" /\ cpu.level = "handler" /\ cpu.mode = "prot"
        /\ cpu.fetched = << >>
        /\ sregs.eflags = saved.eflags /\ sregs.cs = saved.cs
        /\ sregs.eip = saved.eip
        /\ cpu.ctx.gp[ESP] = AddDword(saved.gp[ESP], -12)

-----------------------------------------------------------------------------
(* What a step may never do *)

CycleEnds == cpu.phase = "T2" /\ cpu'.phase = "idle"

\* The CPU is not about to be reset: from power-up until sv_init's reset, and while
\* sv_stop's is on its way, it runs loose and nobody looks.
Attended == loc \notin {"boot", "init_wait", "stop_wait"}

\* An I/O cycle of the program ends only after sv_cont granted it; a read returns
\* the word the supervisor held for it then, though the host may have sent another
\* one since.
IoServed ==
    [][ CycleEnds /\ ~cpu.cur.mio /\ Attended =>
            /\ io.stage = "granted"
            /\ ~cpu.cur.wr => en /\ WordSeen = io.word ]_vars

\* The word and the port of a write are captured whole: when sv_iobreak has read
\* them they are the CPU's.
IoWriteCaptured ==
    [][ loc = "iowr_wait" /\ loc' # loc =>
            iodata' = cpu.cur.din /\ ioaddr = cpu.cur.a ]_vars

\* sv_brk may have taken a captured I/O cycle's program away (README, flaw 2): a break
\* that waits for its NMI then, in a program that does I/O.
BreakTookIo == loc = "brk_wait" /\ cpu.level = "prog" /\ Ports # {}

\* Memory answers none of the cycles of a break, which are the OCD's: the reads of an
\* NMI and of IRET, the handler's fetches, the words pushed.  And the OCD answers no
\* memory cycle of the program, unless a break took one of its I/O cycles.  So each
\* program lets go of the bus at exactly the cycle where the CPU is the program's again.
BusOwner ==
    [][ CycleEnds /\ cpu.cur.mio /\ Attended =>
            /\ cpu.level # "prog" => en
            /\ en => cpu.level # "prog" \/ BreakTookIo ]_vars

\* Returning from a break gives the program the registers it was interrupted
\* with, whatever GETREGS did in between.
DebugTransparent ==
    [][ cpu.level = "iret" /\ cpu'.level = "prog" /\ cpu'.phase # "reset"
            /\ Attended =>
            cpu'.ctx = saved ]_vars

\* GETREGS reports the interrupted program's eight registers.
RegsTruth ==
    [][ loc = "regs_wait" /\ loc' = "esp_wait" => sregs'.gp = saved.gp ]_vars

-----------------------------------------------------------------------------
(* What must happen *)

\* The firmware comes back to its UART poll: no busy-wait on the OCD lasts
\* forever.
LoopAlive == []<>(loc = "uart")

\* An I/O cycle the OCD stalls is reported to the host or served by a device.
IoReported == io.stage = "pending" ~> io.stage # "pending"

\* A started CPU leaves reset, unless it is stopped again.
StartRuns == status = "RUNNING" ~> (cpu.phase # "reset" \/ status = "STOP")
=============================================================================
