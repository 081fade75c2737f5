------------------------------ MODULE OcdClock ------------------------------
(***************************************************************************)
(* The bus at the clock: the OCD's five states (ocd.v), bus_control.v and  *)
(* the multiplexers of top_level.v that ocd_en switches between them.      *)
(* Here is checked what DebugStack takes for granted: that the OCD is      *)
(* waiting when a bus cycle starts, and that switching in the middle of a  *)
(* cycle never shows the CPU a READY# meant for another one.               *)
(*                                                                         *)
(* One oscillator (20 MHz) is the CPU's CLK2 and bus_control's clk; the    *)
(* OCD runs on the PLL's double of it (pll.v, clk1_multiply_by = 2).  A T  *)
(* state of the CPU is two CLK2 periods: four ticks of the OCD.  Every     *)
(* step is one tick and every register takes what it saw before the edge;  *)
(* FirmwareRun, the firmware's reset of the OCD, comes between two ticks.  *)
(*                                                                         *)
(* The CPU's cycles are arbitrary; its pins reach the FPGA up to a tick    *)
(* late.  Data is left out, so a branch of a program may go either way.    *)
(***************************************************************************)
EXTENDS OcdPrograms

CONSTANT IoGap    \* T states, at least, from reset or an answered cycle to an I/O cycle
ASSUME ClockAssumption == IoGap \in Nat

SlipOcdOnCpuClock == 2
TicksPerState == 4
PerClk == 2       \* ticks of the OCD in a clk of bus_control

VARIABLES
    prog, pc, st,                  \* program, instruction and FSM state of the OCD
    stop, en, ready, hold, reset,  \* its outputs (ready means _ready = 0)
    bcReady, bcState,              \* bus_control
    t, tick, kind,                 \* the CPU's T state, tick in it, its cycle
    since,                         \* T states since reset or since the OCD ended a cycle
    ads,                           \* ADS# as the FPGA saw it at the last tick
    seen, answered                 \* history: a wait saw this cycle; READY followed, or
                                   \* start, which gives a written word's cycle back

ocdRegs == << prog, pc, st, stop, en, ready, hold, reset >>
bcRegs == << bcReady, bcState >>
cpuRegs == << t, tick, kind, since, ads >>
clockVars == << ocdRegs, bcRegs, cpuRegs, seen, answered >>

Kinds == {"mem", "locked", "io"}
Op == Code[prog][pc].op
Waits == {"WAITADS", "WAITLOCK", "WAITIO"}

-----------------------------------------------------------------------------
(* What the parts see of each other *)

Ads == t = "T1"
\* The pin may still show the last T state at the first tick of a new one.
AdsSeen == IF tick = 0 THEN {Ads, ads} ELSE {Ads}

\* assign _ready = ocd_en ? sv_ready : bc_ready.
SlipAlwaysBc == bcReady
ReadyPin == IF en THEN ready ELSE bcReady

LastTick == tick = TicksPerState - 1
CycleEnds == t = "T2" /\ LastTick /\ ReadyPin

-----------------------------------------------------------------------------
(* The OCD: what its registers become at an edge *)

\* exec_wait, by what the pins show.
ExecWait(a) ==
    \/ Op = "WAITADS"  /\ ~a
    \/ Op = "WAITLOCK" /\ ~(a /\ kind = "locked")
    \/ Op = "WAITIO"   /\ ~(a /\ kind = "io")
    \/ Op = "HOLD"     /\ t # "Th"
    \/ Op = "EXIT"

DoFetch == st' = "LOAD" /\ UNCHANGED << prog, pc, stop, en, ready, hold, reset >>
DoLoad == st' = "EXEC" /\ UNCHANGED << prog, pc, stop, en, ready, hold, reset >>

AssertsReady == {"READY", "WAITADS", "WAITLOCK", "STD"}
Answers == {"READY", "STD"}

DoExec(a) ==
    /\ en' = ((en \/ Op = "ATTACH") /\ Op # "DETACH")
    /\ stop' = (stop \/ Op = "EXIT")
    /\ reset' = ((reset \/ Op = "RESET") /\ Op # "START")
    /\ ready' = (ready \/ Op \in AssertsReady)
    /\ hold' = ((hold \/ Op = "HOLD") /\ Op \notin AssertsReady \cup {"START"})
    /\ st' = IF ExecWait(a) THEN "EXEC" ELSE "STORE"
    /\ UNCHANGED << prog, pc >>

SlipLeaveReady == ready
ReadyAfterStore == ready /\ Op \notin Waits
EnAfterStore == en \/ Op \in Waits

\* The next instruction; BEQ (and BNE, assembled as it) may branch or not.
DoStore ==
    /\ st' = "STORE_FETCH"
    /\ en' = EnAfterStore
    /\ ready' = ReadyAfterStore
    /\ pc' \in IF Op = "BEQ" THEN {pc + 1, Code[prog][pc].v}
               ELSE {IF Op = "BA" THEN Code[prog][pc].v ELSE pc + 1}
    /\ UNCHANGED << prog, stop, hold, reset >>

\* reset_ocd leaves the machine in store with pc = FF and no instruction.
InReset == pc = 0
ResetStore == st' = "STORE_FETCH" /\ pc' = 1
              /\ UNCHANGED << prog, stop, en, ready, hold, reset >>

DoStoreFetch == st' = "FETCH"
                /\ UNCHANGED << prog, pc, stop, en, ready, hold, reset >>

OcdEdge(a) ==
    \/ st = "FETCH" /\ DoFetch
    \/ st = "LOAD" /\ DoLoad
    \/ st = "EXEC" /\ DoExec(a)
    \/ st = "STORE" /\ ~InReset /\ DoStore
    \/ st = "STORE" /\ InReset /\ ResetStore
    \/ st = "STORE_FETCH" /\ DoStoreFetch

-----------------------------------------------------------------------------
(* bus_control, on every second edge *)

BcEdge(a) ==
    IF (tick + 1) % PerClk # 0 THEN UNCHANGED bcRegs
    ELSE CASE a -> bcReady' = FALSE /\ bcState' = "T1"
           [] ~a /\ bcState = "T1" -> bcReady' = TRUE /\ bcState' = "T2"
           [] OTHER -> UNCHANGED bcRegs

-----------------------------------------------------------------------------
(* The CPU *)

\* After a cycle or an idle state: hold, idle, or a new cycle.
NextState ==
    \/ t' = "Ti" /\ kind' = kind
    \/ hold /\ t' = "Th" /\ kind' = kind
    \/ ~hold /\ t' = "T1" /\ kind' \in Kinds /\ (kind' = "io" => since' >= IoGap)

CpuEdge ==
    /\ tick' = (tick + 1) % TicksPerState
    /\ since' = CASE t = "reset" \/ (CycleEnds /\ en) -> 0
                  [] LastTick /\ t # "reset" /\ ~(CycleEnds /\ en) /\ since < IoGap -> since + 1
                  [] OTHER -> since
    /\ CASE ~LastTick -> UNCHANGED << t, kind >>
         [] LastTick /\ reset -> t' = "reset" /\ kind' = kind
         [] LastTick /\ ~reset /\ t = "reset" -> t' = "Ti" /\ kind' = kind
         [] LastTick /\ ~reset /\ t = "T1" -> t' = "T2" /\ kind' = kind
         [] LastTick /\ ~reset /\ t = "T2" /\ ~ReadyPin -> UNCHANGED << t, kind >>
         [] LastTick /\ ~reset /\ t = "Th" /\ hold -> UNCHANGED << t, kind >>
         [] OTHER -> NextState

Tick ==
    \E a \in AdsSeen :
       /\ OcdEdge(a) /\ BcEdge(a) /\ CpuEdge
       /\ ads' = a
       /\ LET over == LastTick /\ (CycleEnds \/ reset)
              catches == st = "EXEC" /\ Op \in Waits /\ ~ExecWait(a)
          IN  /\ seen' = (~over /\ (seen \/ catches))
              /\ answered' = (~over /\ ~catches /\
                                (answered \/ (st = "EXEC" /\ Op \in Answers)))

-----------------------------------------------------------------------------
(* The firmware: which program it loads when (supervisor.c) *)

Halted == {"break", "get_regs", "set_reg"}
Emulating == {"start", "cont", "write_io"}

\* A read is answered by write_io; the word of a write is taken by read_io, and start
\* gives the bus back.
NextProgram ==
    CASE prog = "blank" -> {"reset"}
      [] prog = "reset" -> {"start"}
      [] prog \in Emulating -> {"read_io", "write_io"}
      [] prog = "read_io" -> {"start"}
      [] prog \in Halted -> {"get_regs", "set_reg", "cont"}

\* ocd_run: when the last program has stopped, or a break or stop while it waits for
\* an I/O cycle.  (What a break does to one it has just caught is DebugStack's.)
FirmwareRun(p) ==
    /\ \/ stop /\ p \in NextProgram \cup {"reset"} /\ (prog = "reset" => t = "reset")
       \/ ~stop /\ p \in {"break", "reset"} /\ st = "EXEC" /\ Op = "WAITIO"
    /\ prog' = p /\ pc' = 0 /\ st' = "STORE" /\ stop' = FALSE
    /\ answered' = (answered \/ (prog = "read_io" /\ p = "start"))
    /\ UNCHANGED << en, ready, hold, reset, bcRegs, cpuRegs, seen >>

Init ==
    /\ prog = "blank" /\ pc = 0 /\ st = "STORE" /\ stop = FALSE
    /\ en = FALSE /\ ready = TRUE /\ hold = FALSE /\ reset = FALSE
    /\ bcReady = TRUE /\ bcState = "IDLE"
    /\ t = "Ti" /\ tick = 0 /\ kind = "mem" /\ since = 0 /\ ads = FALSE
    /\ seen = FALSE /\ answered = FALSE

Next == Tick \/ \E p \in ProgramNames : FirmwareRun(p)

Spec == Init /\ [][Next]_clockVars

-----------------------------------------------------------------------------
(* Properties *)

\* No wait is left before EXIT: the cycles until HOLD takes are nobody's.
Draining == /\ ~InReset
            /\ \E exit \in pc .. Len(Code[prog]) :
                  /\ Code[prog][exit].op = "EXIT"
                  /\ \A i \in pc .. exit : Code[prog][i].op \notin Waits

\* While the OCD answers, every bus cycle it ends is one its waits saw: READY#
\* asserted for a cycle (it stays asserted until the next wait is over, ocd.v:224
\* and 262) is never taken for the following one, which would get the last word
\* again and put every later word of the exchange one cycle off.
NoneSlips == CycleEnds /\ en /\ ~reset => seen \/ Draining

\* A cycle a wait saw ends when the OCD has answered it, or start has given it back
\* with its word read, and in no other way: bus_control, which runs along with every
\* cycle (bus_control.v:49), never ends it before ocd_en has switched READY# over
\* (top_level.v:60).
CaughtIsHeld == CycleEnds /\ seen => answered

\* In emulation no I/O cycle goes by unseen, though the OCD is deaf for the ten
\* clocks of DETACH and WAITIO; true when an I/O cycle does not follow the last
\* one within IoGap states (ocd.v:161, ocd_prgm.s:18-21).
IoCaught == CycleEnds /\ kind = "io" /\ prog \in Emulating /\ ~reset => seen

\* The memory or port that ends a cycle was selected through all of T2: the bus is
\* not given back in the middle of it (top_level.v:68, ocd.v:212), but for a write
\* of the CPU that start gives back, which no device has to answer.
SelectedThroughT2 == [][t = "T2" /\ en /\ ~reset /\ ~CycleEnds =>
                             en' \/ (answered /\ prog = "start")]_clockVars
=============================================================================
