# Verification of LSE-PC

LSE-PC replaces the chipset of a 386SX motherboard by an FPGA bridge.  In the
bridge, an on-chip debugger (OCD) can stall, feed and interrupt the CPU; a
supervisor firmware on a soft core loads programs into the OCD; a host on a
serial line starts, stops and breaks the CPU and emulates its I/O devices; a BIOS
boots the machine.  This directory holds a TLA+ model of the parts with a
behaviour of their own, checked with TLC and, in part, proved with TLAPS.

Contents: 1 inventory, 2 modules, 3 assumptions, 4 runs, 5 fairness, 6 proofs,
7 known flaws, 8 what is not modelled, 9 plan.

## 1. Inventory

Paths are relative to `src/sw`.

| Component | Where | State | Operations |
|---|---|---|---|
| OCD unit | `bridge/rtl/ocd.v`, `supervisor.v` | five-state pipeline, program counter, R0..R15, compare register, data out, pins `en`, READY#, HOLD, NMI, INTR, RESET, status bit `stop` | one per opcode; start and reset from the firmware |
| OCD programs | `bridge/.../supervisor/ocd_prgm.s`, `tools/ocd-as` | none (code) | reset, start, read_io, write_io, break, cont, get_regs, set_esp; the assembler |
| 386SX | motherboard (external) | bus phase, mode, what it is executing, registers | bus cycles, NMI service, HOLD, RESET |
| Bus and memory control | `bridge/rtl/bus_control.v`, `memory_control.v`, `top_level.v` | ready state machine, chip selects | a ready per cycle; READY# and data from the OCD while `en` |
| Supervisor firmware | `bridge/.../supervisor/{main,supervisor,ocd,proto,dev,led}.c` | `struct sv`: status, ioaddr, iodata, registers, devices | the main loop's two polls; eleven commands; sv_iobreak |
| Host link library | `lib/lsepc.c` | a file descriptor, hence a receive queue | ten calls: handshake, frame, answer, time-outs |
| Monitor, device emulation | `monitor/*.c`, `monitor/dev/*.c` | list of devices, serial ports' registers and queues | command line; sysemu loop; dev_read, dev_write |
| BIOS frame allocator | `bios/src/frame_alloc.c` | 256 counts and links, head of the free list | alloc_frame, free_frame, init_frames, frame_stats |
| BIOS file system | `bios/src/fs.c` | table of blocks, free list, directory | fs_recv_cpio, fs_list_dir, fs_print_file, fs_stats |
| BIOS shell | `bios/src/{shell,command}.c`, `strtok_c` | line buffer, position, strtok's place | line editing, cutting into words, finding and calling a command |
| BIOS text | `bios/src/{printf,string}.c` | printf's 64-byte buffer | printf, atoi, itoa |
| BIOS port access | `bios/src/{io,uart}.c` | none | uart_readb, uart_writeb polling the line status |
| BIOS start-up | `bios/src/*.S, idt.c, paging.c` | descriptor and page tables | straight-line set-up |
| Generated and board parts | `internal_ram.v`, `pll.v`, Qsys system, schematics, flashing scripts | | no behaviour of the project's own |

How they interact.

* CPU and OCD share the bus.  While `en` is set the OCD answers the CPU's cycles
  (data and READY#), otherwise memory does.  The OCD samples ADS#, LOCK#, M/IO#,
  W/R#, HLDA, address and data; it drives HOLD, NMI, RESET.
* Firmware and OCD share the OCD's registers and its program memory; the firmware
  starts a program (`ocd_run`) and polls `stop`, in its main loop or spinning in
  `ocd_busywait`.  Nothing else synchronises them.
* Firmware and host share a byte stream each way at 115200 baud.  The firmware
  polls a one-byte receiver, and not at all during a busy-wait.  The host's reads
  give up after one second.
* The file system takes its buffers from the frame allocator; archives come over
  the emulated COM2, `q` to abort over COM1.

What is hard, component by component, and what makes each correct:

* *OCD, programs, CPU, firmware*: three machines interleave, coupled by pins that
  are sampled at the right moment or missed.  A command may arrive between the OCD's
  capture of an I/O cycle and the firmware noticing.  Correct means: what the
  host is told (STOP, IORD, IOWR, BRK32, registers, port, word) is true of the CPU;
  an I/O cycle is served once, with the right word; a break leaves the program
  as it was; no busy-wait lasts forever.
* *Host link*: late answers, lost bytes, repeated handshakes, restarts of the
  monitor.  Correct means: a call returns, with its own answer or an error, and
  no command is executed twice or otherwise than it was sent.
* *Frame allocator*: free-list with stale entries, wrap-around ends the list.
  Correct means: nobody gets a frame somebody else holds; loops end.
* *File system*: an abort at any byte, out of blocks or frames in the middle of a
  file, sizes on a page boundary.  Correct means: chains end and are disjoint,
  no frame leaks into two uses, sizes are as sent.
* *Bus at the clock*: `en` switches two multiplexers on a clock of its own while
  bus_control runs along with every cycle.  Correct means: READY# is for the cycle
  that gets it, memory never answers a cycle the OCD has caught, no I/O cycle
  goes by unseen.
* *Monitor, devices*: one loop polls a status, fetches a port, answers and
  continues; each call may fail and results are ignored; a queue is refilled only
  when empty; a second sysemu in the same process.  Correct means: the bytes typed
  are the bytes read, in order, once; a failure costs no more than a byte; the
  guest is not stalled for ever.
* *Shell*: the line buffer keeps what earlier lines left, strtok_c keeps its place
  between lines.  Correct means: what is on the screen is what is executed, with
  the words typed.
* *Text, archive bytes*: a buffer that fills anywhere in a conversion; prefixes
  that choose a base; padding the receiver does not know of.  Correct means: output
  is what C's printf prints, numbers read back as printed, every file of an archive
  is found with its size.

`PROJECT.json` lists every hazard at its line with the properties that watch it.

## 2. Modules

| Module | Models | Extends |
|---|---|---|
| `OcdPrograms` | `ocd_prgm.s` as the assembler of `ocd-as` emits it | |
| `Ocd` | `ocd.v`, one step per instruction | OcdPrograms |
| `Cpu386` | the 386SX and the bridge's multiplexers | Ocd |
| `DebugStack` | `supervisor.c`, `main.c`, `ocd.c`, the commands' effects, the LED; the whole debug path composed | Cpu386 |
| `MCDebugStack` | register contexts for TLC | DebugStack |
| `DebugStack_proof` | proofs: types of the whole debug path; stop, intercepted I/O, the bus, breaks | DebugStack, Induction_proof |
| `FramePool` | abstract: a pool of frames | |
| `FrameAlloc` | `frame_alloc.c` | instance of FramePool |
| `Induction_proof` | lemmas: induction over a number and over the subsets of an interval, for sets given by name instead of operators | |
| `BiosFs` | `fs.c` over the frame allocator | FrameAlloc |
| `BiosFs_proof` | proofs: the frame allocator, the file system in its frames, a transfer byte by byte | BiosFs, Cpio, Induction_proof |
| `Cpio` | `fs.c` byte by byte: how an archive is cut into files | |
| `BiosText` | `printf.c`, atoi and itoa of `string.c`, numbers in `command.c` | |
| `BiosText_proof` | proofs: the numbers printed and read, the output buffer | BiosText, Induction_proof |
| `MCBios` | one instance of BiosText and Cpio for TLC | BiosText, Cpio |
| `Shell` | `shell.c`, strtok_c, the arguments of `command.c` | |
| `Shell_proof` | proofs: the line run is the line typed and shown | Shell, Induction_proof |
| `OcdClock` | `ocd.v`'s pipeline, `bus_control.v`, `top_level.v`'s multiplexers, clock by clock | OcdPrograms |
| `OcdClock_proof` | proofs: every cycle caught is held, none slips, no I/O cycle is missed | OcdClock |
| `SysEmu` | `cmd_sysemu`, `dev.c`, `serial.c`, against a guest in `io.c` and `uart.c` | |
| `SysEmu_proof` | proofs: searches, streams, damage of failed calls | SysEmu |
| `RemoteCall` | abstract: at-most-once calls | |
| `HostLink` | `lsepc.c` against `proto.c`, byte by byte | instance of RemoteCall |
| `HostLink_proof` | proofs: the three safety properties, the refinement | HostLink |

Definitions named `Slip...` are plausible mistakes, used to show that each
property can fail: every property of a passing run is violated when the definition
that follows the slip is replaced by it (`PROJECT.json`, "mutants").

**OcdPrograms, Ocd.**  A program is a sequence of instructions; labels are indices.
`OcdPrograms` also holds what the assembler does wrong (section 7).  `Ocd` has the
unit's registers and pins as variables.  An instruction takes five clocks, of
which only *exec* can repeat; `OcdWait` is the first exec clock of an instruction
that must wait (its assignments happen then), `OcdRetire` the last exec clock with
*store*.  `WAITxxx` raise and drop READY# and `en` as in `ocd.v`'s `ocd_en` and
`_ready` assignments.  LDI's operand word is folded into the instruction.

**Cpu386.**  `cpu.phase` is the bus state (idle, T1, T2, held, reset), `cpu.level`
what the CPU is executing: the user's program (any cycle at any time), an NMI's
table reads and pushes, the handler whose code the OCD injects, and the stack
cycles of IRET and PUSHA.  A word injected by the OCD is executed when the words
of its instruction are there; `saved` is a history of the context the last NMI
interrupted.

**DebugStack.**  The firmware is a single thread, `loc` its place: the two polls
of the main loop ("uart", "ocd") or one of the busy-waits.  A handler is split at
its busy-waits and nowhere else, since between them the firmware writes registers
while the OCD is stopped or held by a program that cannot proceed; where it is
*not* stopped (sv_brk, sv_stop on a running start program) `OcdRun` replaces the
program at any point of it.  One action per part of a handler: `SvStart`,
`SvStop`/`SvStopDone`, `SvBrk`/`SvBrkDone`, `HostCont`, `SvGetRegs`,
`SvGetRegsRestore`, `SvGetRegsDone`, `SvSetIoData`, `IoBreak`, `IoBreakWrite`,
`IoBreakWriteDone`, `IoBreakRead`.  The commands that only read (ECHO, GETVERSION,
GETSTATUS, GETIOADDR, GETIODATA) change nothing and are properties' vocabulary
instead.  `io` is a history: how far the CPU's current I/O cycle has come.

**FrameAlloc, FramePool.**  One C function is one step; the BIOS is one thread.
`held` (a history) are the frames callers have.  `free_frame` is modelled as
written: it increments the count.

**BiosFs.**  One step is one stretch of fs_recv_cpio between two places where it
may be aborted.  `fs[]` is five functions over block numbers.  The readers
(fs_list_dir, fs_get_file_size, fs_stats) are the operators `Chain`, `Files`,
`FileSize`, `FreeBlocks` the properties are stated with.  When the frames run out
(`OutOfFrames`) the block has already left the free list and been linked to its file
or the directory, without data.  Histories: `expected`
(size in the archive) and `received` (files that came to their end).

**HostLink, RemoteCall.**  `host.at` is the place in a call (handshake, then ACK,
header, data, EOT of the answer), `fw.at` the place in proto_recv, `toSv` and
`toHost` the bytes under way, `rx` the UART's receive register.  Each byte carries
the number of the call it was sent for, which the program does not know and
the properties need.  A time-out loses the bytes a partial read had taken, as
lsepc_read does.  The line loses bytes only while the firmware waits, and then they
are SYNs: no frame of the library is ever cut (`FrameKept`), and it sends no command the
firmware does not know.  The firmware's NAK (`Nack`) is therefore in the model and
never taken: what a host other than the library would meet behind it, the rest of a
frame read byte by byte, is not explored.  RemoteCall says what a caller may rely on;
HostLink implements it under the mapping in `Promise`.

**OcdClock.**  One step is one tick of the OCD's 40 MHz clock.  `OcdEdge` is the
always block of `ocd.v` by FSM state (fetch, load, exec, store, store_fetch),
`BcEdge` bus_control's, on every second tick; `CpuEdge` is a T state of the CPU,
four ticks.  `AdsSeen`: a pin may still show the last T state one tick into the
next.  Every register takes what it saw before the edge, as nonblocking
assignments do.  `Code` is OcdPrograms' translation, so the clock-level module and
the instruction-level one run the same programs.  Words are left out; a branch
goes either way.  `FirmwareRun` loads the programs in the orders `supervisor.c` can.
A write is ended by no word of the OCD: read_io takes its word, and start, which
sv_cont loads for it (`supervisor.c:99`), gives the bus back in the middle of the
write's T2 for bus_control to end.  `CaughtIsHeld` counts it as answered from then on, and
`SelectedThroughT2` excepts it.

**SysEmu.**  `mon.at` is the place in cmd_sysemu's loop, between two library calls;
`devs` the linked list as `dev_register` threads it, `FindDev` its search, with the
ring a second registration makes of it; `port` a serial_data's queue and the bytes
its descriptor still holds.  The guest is uart.c's two polling loops, `GuestIn` and
`GuestOut` its stalled accesses.  `Command` and `Reading` are a library call with
its failures: carried out or not, and a value made of an errno.  Histories: what
was fed, got, written and put out in this session.

**Shell.**  A key is a step with everything ack_cmd and shell_loop do for it.  The
buffer is a function over cells, so that what old lines left behind `pos` is there;
`StrTok`, `Token` and `ExecCmd` cut it up in place as strtok_c does.  `shown` is
what echo and "\b \b" leave on the terminal, `line` what the user means by them.

**BiosText, Cpio.**  A behaviour is one printf (a step per character or conversion),
one atoi (a step per character) or one transfer (a step per byte).  `Conv`,
`Itoa` and `AtoiStep` are the C loops; `Numeral` and `Value` the reference in
closed form.  `index` is atoi's `u8 i`: it wraps at `IndexSize`, and from there on `Read`
finds again what it has read and `ReadEnd` never the NUL.  In `Cpio` the sender
is what `cpio -o` writes, padding included, the receiver `fs.c`'s hunt for magic bytes, header, name and data; blocks are BiosFs's.

## 3. Assumptions

* In DebugStack: a cycle starts only while the OCD waits for one (`OcdKeepsUp`); T1
  is over by the OCD's next instruction (`T1Over`); READY# asserted is seen before
  it (`ReadySampled`).  These are the places where the instruction-level model
  stands for clocks, and what `OcdClock` checks: `NoneSlips` is OcdKeepsUp,
  `CaughtIsHeld` and `SelectedThroughT2` the other two.
* In OcdClock: the oscillator (20 MHz) is the CPU's CLK2 and bus_control's clock,
  the OCD's is twice it (`pll.v`); a T state is two CLK2.  The CPU does not start an
  I/O cycle within `IoGap` = 2 T states of one the OCD ended: executing the next
  instruction takes longer.  The halves of a doubleword or unaligned port access
  follow each other faster and are outside the assumption (section 7, 20).
  `FirmwareRun` replaces a running program only while it waits in WAITIO; what a
  break does to one that has just caught a cycle is DebugStack's.
* RESET acts at once, because it stays asserted.  Power-up: OCD memory is zero,
  which is EXIT; the CPU runs loose until sv_init's reset; sv->status is arbitrary.
  Properties of cycles are therefore stated for `Attended` states, those of
  reported values for `AtPoll` states, the only ones a host can look in.
* Memory contents, memory addresses and data of the user's program are
  immaterial; its choice of cycles is free.
* Link: the line loses nothing and keeps order; only the receiver loses bytes, and
  only while the firmware waits for the OCD, since polling and proto_recv are far
  faster than 87 microseconds a byte.  An Avalon UART overwrites the unread byte.  A
  time-out of a second strikes only when nothing is about to come (`Quiet`).
  Restarting the monitor takes longer than what is on the line.
* SysEmu: a library call is one atomic step, with what RemoteCall promises: executed
  at most once, an answer of its own or an error.  A status error may read as IORD or
  IOWR (EIO and EINTR are 5 and 4).  The descriptors do not block; nobody but the
  guest uses the ports.
* Shell: no line reaches the end of the buffer (`Insert`'s guard), which the code
  does not see to.  Command names are told apart by their first letters, as those
  in `commands[]` can be.
* BiosText: NUL is not printed and printf's result not used, as in the callers; the
  word is scaled to 8 bits, the buffer to 3 characters, so that all lengths of
  a number meet every fill of the buffer.  The word is even, as 2^32 is:
  `Signed` and `Asked` halve it each in its way to tell negative numbers.  `MaxPlaces` are
  enough for it in every base (`PlacesAreEnough`).  atoi's index is scaled to 5 characters.  Cpio: the header is scaled to its magic
  and the two sizes, a byte each; the link is HostLink's and loses nothing.
* BIOS: no interrupt touches the allocator or the file system.  `FrameAlloc` scales
  the width of the links (u8) with NB_FRAMES, as 256 frames wrap at 8 bits.

## 4. Runs

Passing runs:

| Run | Question | Bounds, and why they are enough |
|---|---|---|
| `DebugStack_io` | Is every I/O cycle served, once, with the word it was granted (`IoServed`); is a write captured whole (`IoWriteCaptured`)? | Ports 16 (LED, served by the firmware) and 17 (by the host), one word written by the program, one sent by the host besides the initial 0: words are only copied, so two that differ show a wrong copy. |
| `DebugStack_brk` | Break, get_regs any number of times, cont: are reported registers true (`BreakTruth`, `RegsTruth`), does the program get its context back (`DebugTransparent`), does the firmware always come back to its loop (`LoopAlive`)? | Protected mode; two contexts: all words different, and an ESP that carries and borrows between its halves.  The program does no locked cycle: with them the properties fail, see section 7, 3.  It does no I/O here, to keep the run small; the proofs have both (section 6). |
| `DebugStack_races` | All six commands at any moment of a program that does I/O: types (`TypeOK`), is STOP really reset (`StopTruth`), is a reported I/O cycle really stalled (`IoTruth`), does memory answer none of the cycles of a break and the OCD none of the program's memory cycles (`BusOwner`)? | One port, one context.  No locked cycles: with them the break program takes the program's own reads for the NMI's, `BusOwner` fails and the CPU may end in a shutdown with the firmware waiting (section 7, 3); the other three are proved with them too (section 6). |
| `DebugStack_live` | Is a stalled cycle ever noticed (`IoReported`), does START ever release the CPU (`StartRuns`)? | One host-served port. |
| `FrameAlloc` | Does the list end and hold no frame in use (`ListSound`), do counts tell frames in use (`CountsTruth`), is it a pool (`PoolImplemented`)? | 7 frames, 5 of them allocatable: enough for frees in any order and stale list entries behind and before the head. |
| `BiosFs` | `FilesSound`, `SizesTold`, `FramesOwned`, `DirectoryEnds`, with aborts | 6 blocks, 10 frames: either may run out first.  Two units a page and sizes 0, 1, 2, 3, 5: empty, short, exactly a page, a page and a bit, three blocks. |
| `HostLink` | `PromiseKept`, `AnswerIsMine`, `ExecutedAsSent`, `FrameKept`, `CallReturns` | Four calls: a break that outlasts the time-out, and three more to meet its late answer.  BRK (may wait for ever), GETSTATUS, SETIODATA (arguments).  Payload bytes 0 and 6 (ACK, so that an answer may look like control bytes). |
| `SysEmu` | Do bytes pass in order and whole (`InputKept`, with the types, and `OutputKept`), what does a failed call cost (`DamageBounded`), does a search end (`SearchEnds`), is every stalled access answered (`AccessServed`), does typed input arrive (`InputArrives`)? | Queue of 2, a file of 3 bytes: a refill that leaves some behind, one that finds fewer.  One byte typed, one written; two sessions, one failing call anywhere; monitor restarts and board resets without bound.  360,000 states. |
| `Shell` | Is the line executed the one typed (`RunAsTyped`), is it the one shown (`ShownIsStored`, with the types), are a command's arguments there (`ArgumentsThere`)? | A buffer of 8: three words with blanks around, and a shorter line over a longer one.  Letters m and p: the two commands that require arguments, one and two of them; any other word is not found.  190,000 states. |
| `MCBios` | `PrintedAsAsked`, `NumbersMean`, `FilesAsSent` | Three items in a three-character buffer (a number fills it in every place), words 0, 9, 128, 255 of 8 bits; strings of up to five characters, which is where the index wraps; archives of two files of up to three bytes that are all magic bytes, with names of odd and even size.  164,000 states. |
| `OcdClock` | `NoneSlips`, `CaughtIsHeld`, `IoCaught`, `SelectedThroughT2` | Nothing is bounded but `IoGap`: the OCD's eight programs, every cycle, every phase of the two clocks.  17,600 states. |

`FrameAlloc`, `BiosFs`, `HostLink` and `MCBios` may stop (panic; calls or input used up),
so deadlock is not checked there; it is in the other passing runs.  Types are part of
`InputKept` and `ShownIsStored` where there is no `TypeOK` of its own.

One violation run: `DebugStack_brk_io`, property `IoServed`: a break right after an I/O
cycle was captured ends the cycle unserved (section 7, 2).

## 5. Fairness

`DebugStack!Fairness` is weak fairness on the firmware's own continuation (its
loop and the ends of busy-waits), on the OCD's clock, on the CPU leaving reset,
answering HOLD, finishing a cycle that has its READY# and going on with a fixed
sequence of cycles; and strong fairness on servicing a pending NMI, because the
program may run cycles in between but reaches an instruction boundary again and
again.  Nothing is assumed of the host (it need not send anything) or of the
program (it need not issue an I/O cycle or any cycle).

`HostLink!Fairness` is weak fairness on the library inside a call, on bytes
arriving and being read, and on the answers of commands that do not wait for the
OCD.  BRK need never end; nobody need call again.

`SysEmu!Fairness` is weak fairness on the monitor's loop, which never sleeps or
blocks, and on a guest inside uart.c, which polls.  Nobody need type, start sysemu
or call uart.c; restarts and resets may come at any time.

## 6. Proofs

All are checked by tlapm, for every value of the constants that satisfies the
modules' ASSUMEs: sets of commands, ports, words, contexts and payloads, numbers of
frames, blocks, calls and sessions, sizes of queues and archives.  Nearly every
invariant of section 4 is *not* inductive; what it takes is said for each.

*Debug path.*

* `TypeCorrect`: `Spec => []TypeOK`.  The invariant `TypeInv` adds what the CPU is in
  the middle of: a fixed sequence of cycles with some of it left (`InSequence`), or a
  handler that has read no more injected words than an instruction has (`InHandler`).
  That the OCD's program counter stays in the program loaded needs, for each program,
  that a branch leads into it and that it ends in EXIT; `Loadable` is
  proved of what the assembler emits for each of the OCD's programs (`CodeType`).
* `StopIsReset`: when the firmware polls with status STOP the CPU is in reset and the
  OCD has the bus.  That nothing clears RESET afterwards depends on the OCD's
  program, so `StopInv` says how far the reset program has come (`ResetProgress`)
  during sv_init's and sv_stop's busy-wait and in STOP, and that sv_get_regs's
  busy-waits never see status STOP.
* `IoIsStalled` and `WritesCaptured`: `IoTruth` holds because three programs (start,
  write_io, cont) that end in sv_iobreak stop only behind their WAITIO.  `IoInv` says
  what a program past it has learnt (`Learnt`), that the cycle stays stalled while
  its word is fetched by read_io (`Fetching`), and after it is reported (`Reported`).
* `IoIsServed`: on a host that never sends BRK.  The hypothesis is needed: with BRK the
  code violates `IoServed` (run `DebugStack_brk_io`; section 7, 2).  `CalmInv` is what
  such a host cannot leave: the program runs, no NMI is pending, and in RUNNING the
  OCD is in the first instructions of start or write_io while a cycle it has granted
  is ending.
* `BreaksAreTrue`, `RegistersAreTrue`, `DebugIsTransparent`, `BusHasOneOwner`: for any contexts, with or
  without I/O.  `BreakInv` has the programs of a break in step with the CPU's
  microcode: for each instruction of break, get_regs, set_reg and cont, which cycle of
  the NMI, of the handler or of IRET it goes with, what has been captured by then
  and what the OCD will feed.  Two hypotheses, both needed: no locked cycles, which
  the break program would take for the NMI's (section 7, 3), and breaks in protected
  mode only (section 7, 1).  For the bus `BusInv` adds where the OCD has let it go: where
  a program waits for the next I/O cycle (`LetsGo`), and when a break begins there.  An
  exchange that feeds the CPU a word too few leaves its next cycle to memory:
  `BusHasOneOwner` says that none does.

*Bus at the clock.*

* `NoCycleSlips`, `CaughtCyclesAreHeld`, `SelectionIsKept`: for every gap.  The programs
  are divided into places by what has become of the CPU's cycle (`Place`): held, due,
  given back, drained, parked and so on; `Leads` says how an instruction takes the
  OCD from one to the next, and `AllPlaced` proves it of each instruction the
  assembler emits.  `ClockInv` says for each place and each of the OCD's five states
  what the pins are and how many ticks old the cycle can be: a cycle that was answered is
  over by the next WAITADS because five ticks are more than a T state, and the next one
  is not over because a T1 and a T2 are more than five.  A write given back is `Granted`
  until DETACH and ends behind it, with `en` off (`Loose`).
* `IoCyclesAreCaught`: `DeafInv` follows the CPU from the cycle that ends before DETACH to
  the next WAITIO: one T state passes, no second one; or, behind a write given back, the
  next cycle is not in T2 yet (`Fresh`).  The hypothesis, a gap of two T
  states, is the assumption of section 3; with less it is false (section 7, 20).

*Memory and files.*

* `BiosFs_proof!TypeCorrect` and `CountsTrue`, about FrameAlloc alone: the inductive invariant adds that
  counts never exceed 2: a frame is allocated once and freed at most once, which is
  what keeps the 8-bit counts from wrapping to 0.
* `ListIsSound`: the list is finite and holds no frame in use.  `ListInv` ranks the
  frames of the list so that each link leads to a lower rank; an allocation leads to a
  lower one too, and a free, which never lands on the list (section 7, 4), to none.
  The rank of the head and the number of frames held never exceed the pool together,
  which is why `Links`, a recursive function cut at NbFrames, sees the whole list.
* `ImplementsPool`: the allocator implements `FramePool`: Alloc maps to Take of a frame
  nobody holds, Free to GiveBack, a panic to a stutter.
* `FramesAreOwned`: a data frame belongs to one block and is neither the receive
  buffer's nor the system's.  `FsInv` is the allocator's invariant, the ranges of the
  links, and that the buffer is a held frame exactly while a transfer runs: that is
  what lets free_buff free it without taking a frame from a block.
* `DirectoryIsEnded`, `FilesAreSound`, `SizesAreTold`: blocks are taken in the order of
  their numbers and none is given back, so a file is a row of blocks from its first to
  the one before the next file's.  `TableInv` says so for the directory (`Listed`), the
  files that came to their end (`Received`) and the one coming in (`Receiving`), also
  after an abort in the middle of one.  `FilesSound` is about files that came to their
  end, when the shell is back; a file cut short is section 7, 5.  What a file's size has
  to do with its chain is `SizesTold`.
* `FilesAreFoundAsSent`, of Cpio alone (`CpioSpec`, which BiosText does not touch):
  `StreamLayout` says where each file, and the trailer, lie in the bytes sent; `Follows`
  where the receiver is in them.  Between two files it may be one or two bytes before the
  next magic, padding or a last byte it took for padding, and these bytes are no magic
  (`DataEnd`): a NUL is none, and a content's last byte is none when no content hides
  the next file.  So it never hunts within a content, and takes no trailer for
  data.  `CpioAssumption` asks for a buffer that holds the trailer's name: with less the
  trailer itself is a panic.

*Command line.*

* `ShownLineIsStored`: `Inv` adds that `pos` stays below the last byte.
* `LineIsRunAsTyped`, `ArgumentsAreThere`: ENTER leaves a line in the buffer (`Holds`),
  with anything behind it.  `NextWord` is what one call of strtok_c does with a buffer
  whose words before a cell are cut off (`Cut`): it returns the next word that starts
  there, cuts it off and stops at the one after it.  `TokensTold` chains the calls: the
  one numbered n returns the word of rank n + 1, or nothing when there is none; no word is
  found twice and none is left out.  `WordThere`: when exec_cmd reads a word it is in the
  buffer as it is in the line, since its own end is cut and nothing in it.  The count
  exec_cmd stops at is then the number of words or MaxArgs, and no command may take that
  many: a line cut short is always refused.
* `OutputIsAsAsked`, of BiosText alone (`TextSpec`, which Cpio does not touch): `PrintInv` says that what was put out, with what the buffer will
  send, is what was asked for, while no conversion went astray.  `ConvIs`: the digits
  conv's loop finds, a recursive function, are those of the closed form, since the
  smallest number for which they were not would have a smaller one; `NumberIsNumeral`
  that they are as many.  `PutsSends`: wherever putc empties the buffer within the
  characters of a conversion, what is out and what is in it grow by these.
* `NumbersAreMeant`, of `TextSpec` too: `ReadOf` says for each place of atoi's state what the string is
  that it has read.  The value of a string with one more digit is base times the value
  plus the digit (`ValueSteps`), and the remainder may be taken at each step as well as
  at the end (`RemainderSteps`).  A byte is two digits, the first one 0 below 16
  (`HexByteIs`), and atoi's four steps through them and their prefix give the byte back.
  The string is of any length: `ReadOf` is kept up to one of `IndexSize` characters, and
  there `Wrapped` says that atoi goes round in it or refuses it at its prefix, and returns
  no value (section 7, 18).

*Link.*

* `LinkSound`: `LinkInv`, seven phases with all that is on both lines, in the frame
  parser and in the library in each.  The last two are what happens after a
  time-out: `Abandoned`, where only SYNs can be lost, and `OutOfStep`, where the bytes
  the library takes for SYN never are SYN (section 7, 9), so that no call gets past its
  handshake and no late answer is read as one.
* `ExecutesAsSent`, `AnswersAreMine`, `FramesAreKept` follow, and `KeepsPromise`: each
  step of the link is a step of `RemoteCall` or a stutter; at most once, because a call
  that is still in its handshake is `Fresh`: nothing with its number was executed.

*Monitor.*

* `SearchesEnd`: the invariant `SearchInv` says what the list is after none or one
  sysemu in a monitor; `OneSessionEnds` that a search of the latter ends.
* `InputIsKept`, `OutputIsKept`, `DamageIsBounded`: `EmuInv` has an account of the bytes
  for each place of the loop.  Without a failed call (`NoFaultInv`) what the monitor
  believes of the stalled access is so, and fed bytes are the guest's and the
  queue's; with failed ones (`DamageInv`) the account may be out by the byte the
  failure was about, and once for each kind.

Induction, which the provers cannot do over a predicate, is done over sets
(`Induction_proof`): the set of numbers for which something holds contains 0 and
successors; a recursive function is one that iterates a step, and the only one.

Two slips of the models came to light in these proofs, neither of which changes
a run: a CASE with two arms true at a time, of which TLC takes the first, and a UNION
whose parentheses could be read in two ways; both are written so now that there is
one reading.

Every invariant and every safety property of steps that the passing runs check is
stated by a theorem.  Only model-checked: liveness (`LoopAlive`, `IoReported`,
`StartRuns`, `CallReturns`, `AccessServed`, `InputArrives`), which is outside the proof
system's reach.

## 7. Known flaws of the code

What the modules show the code to do against what it is for.  Number 2 has a violation
run; the other properties are stated so that they say what holds despite these.

Debug path:

1. The assembler emits BEQ's opcode for BNE (`tools/ocd-as/synth.ml:93`) and `ocd.v:173`
   gates LDAL with both halves of the address: the mode test of the break
   program always ends in the protected-mode path, and a break in real mode is
   reported as BRK32.
2. `sv_brk` (`supervisor.c:43`) replaces the start program also when it has just captured
   an I/O cycle.  `en` is set since WAITIO caught it, so that READY# is asserted while the
   break program's WAITLOCK waits (`ocd.v:224`): the cycle ends there, before that
   program has driven any word, with whatever is on the data pins, and the firmware never
   learns of it.  Until the NMI is serviced the OCD answers the program's memory
   cycles in the same way.  `BusOwner` excepts these (`BreakTookIo`).
3. WAITLOCK (`ocd.v:162`) cannot tell the NMI's locked reads from the program's
   own locked instructions: the exchange is then out of step, and the CPU may end in a shutdown
   in the middle of it.

BIOS memory and files:

4. `free_frame` increments ref_cnt (`frame_alloc.c:26`): no frame is ever reused, and
   the allocator panics with frames on the free list.  This is also why
   FramesOwned and PoolImplemented hold so easily.
5. An abort in the middle of a file (`fs.c:199`) leaves the file in the directory with
   its last block linked to the free list.
6. The page directory and table at 0x10000 and 0x11000 (`memory.h`) are frames 16 and 17
   seen through the memory controller's double mapping, but `init_frames`
   reserves frames 0 and 1 (`frame_alloc.c:48`).
7. An empty file (`fs.c:192`) gets neither size nor data; `ls` prints what the block's
   memory held.  `SizesTold` exempts empty files.
8. The receiver does not skip the padding byte behind a name of odd size
   (`fs.c:172`): such a file's content starts with the NUL and lacks its last byte,
   and when that byte is C7 and the size even the next file is not found
   (`fs.c:156` forgets a second C7).  `FilesAsSent` says exactly this.

Link and monitor:

9. After one answer that came later than a second the link never gets in step again
   without a restart of the monitor: the late answer to BRK has five bytes and the
   handshake reads two at a time, so that it is off by one byte from then on.
   The parity is also why no answer is ever taken for another's (`AnswerIsMine`).
10. `lsepc_read` returns a positive errno (`lsepc.c:105`), which callers testing `< 0` take
    for a value: EINTR and EIO are the statuses IOWR and IORD.
11. A read that returns 0 (the device is gone) makes lsepc_read spin for ever.
12. sysemu ignores the results of set_io_data and cont (`monitor.c:135`): a failed one
    costs a byte, which the guest gets wrong or twice (`DamageBounded`).
13. A second `sysemu` registers the same devices again and closes the device list
    to a ring (`monitor.c:119`): a lookup that misses never ends (`SearchEnds`), and
    what the last session left in a queue is delivered to the next.

BIOS shell and text:

14. The shell stores at `pos` without a bound (`shell.c:95`).
15. A command's name alone is never refused for missing arguments (`shell.c:32`); the
    commands' own tests of argc save it (`ArgumentsThere`).
16. printf's `%%` takes an argument (`printf.c:203`), so that those behind it are off by
    one; its result is one short for every number that is not 0; `%c` of a NUL cuts
    the buffer short.
17. itoa of 0 writes no NUL (`string.c`); its one caller has a zeroed buffer.

18. atoi's index is a `u8` (`string.c:117`) and the shell's line has 1024 bytes.  A number of
   256 characters or more is read again from its start: a decimal or octal one for ever,
   one with a prefix is refused at its `x` or `b`.  `NumbersMean` holds for the values
   atoi returns.

Clock level:

19. While a program that ends in HOLD drains, cycles until the HOLD is acknowledged
    are answered by nobody's plan (`Draining`).
20. After DETACH the OCD is deaf for ten clocks, and an I/O cycle that follows a served
    one within less than two T states is answered by bus_control instead:
    `IoCaught` is violated with IoGap 0 and 1.  The second half of a doubleword or
    unaligned port access can be that close.

## 8. Not modelled

* BIOS: start-up, descriptor tables, paging.c and interrupt stubs, straight-line code
  that runs once with nothing beside it; what help, ls, p and stats print; looking a
  file up by name and printing it; memset, strncpy, strlen.
* Monitor: the prompt with its completion, the configuration file and the commands
  that only print; opening and closing the device file.
* Firmware: the answers of GETVERSION and GETREGS in the framing.
* OCD: the timing of its memory port, and a reset of it in the clock a wait ends.
* The assembler's lexer, parser and layout of labels.
* Generated memories, PLL and Qsys system; board files, schematics and scripts.

## 9. Plan

The debug path came first because every other function of the machine passes through
it; then what it serves, then the clock level below it.

1. Done: OcdPrograms, Ocd, Cpu386, DebugStack; FramePool, FrameAlloc; BiosFs;
   RemoteCall, HostLink; OcdClock; SysEmu; Shell, BiosText, Cpio; the proofs of
   section 6.
2. Proofs: none of the properties stated so far is left but liveness.
3. Modules: paging.c's tables as a function of addresses; the layout of labels in
   ocd-as; a refinement from OcdClock to Ocd, with the words.
