------------------------------- MODULE SysEmu -------------------------------
(***************************************************************************)
(* Emulating the PC's serial ports from the host: the monitor's sysemu     *)
(* loop (sw/monitor/monitor.c), its list of devices and its two 16550s     *)
(* (sw/monitor/dev), called through sw/lib/lsepc.c, against a guest that   *)
(* uses them through the BIOS's uart.c.                                    *)
(*                                                                         *)
(* The supervisor is what DebugStack shows of it: a port access stalls the *)
(* guest, status IORD or IOWR, until CONT.  A library call is one step; at *)
(* most MaxFaults of them fail, as RemoteCall allows.  The LED's port is   *)
(* the firmware's and never gets here.  The k-th byte typed is k, the k-th *)
(* of the file 128 + k, the k-th the guest writes in a session k.          *)
(* Definitions named Slip... are the ones after them with a plausible      *)
(* mistake in them.                                                        *)
(***************************************************************************)
EXTENDS Integers, SequencesExt

CONSTANTS
    QueueSize,     \* QUEUE_SIZE
    NbTyped,       \* bound: bytes a user types at COM1's terminal
    FileSize,      \* bytes of the file behind COM2
    MaxWrites,     \* bound: bytes the guest writes in a session
    MaxSessions,   \* bound: times sysemu is started
    MaxFaults      \* bound: library calls that fail

ASSUME EmuAssumption ==
    /\ QueueSize \in Nat \ {0}
    /\ {NbTyped, FileSize} \subseteq 0 .. 127 /\ MaxWrites \in 0 .. 255
    /\ {MaxSessions, MaxFaults} \subseteq Nat

VARIABLES
    guest,     \* at: its place in uart.c; dev, the port it uses
    sv,        \* struct sv: status, ioaddr, iodata
    mon,       \* at: the monitor's place in cmd_sysemu; ioaddr, iodata
    devs,      \* the list of devices: its head and their next
    port,      \* serial_data: the queue from cursor on, and what input_fd holds
    faults,    \* calls that failed, all and in this session
    session,   \* sysemus started, all and in this process; bytes typed
    hist       \* history of the session: bytes fed, got, wrote and put out
emuVars == << guest, sv, mon, devs, port, faults, session, hist >>

Devices == {"com1", "com2"}
Null == "none"
Base(d) == IF d = "com1" THEN 1016 ELSE 760
PortSize == 8

RBR == 0
THR == 0
LSR == 5
THR_READY == 32
DATA_AVL == 1
Odd(n) == n % 2 = 1

Nothing == [d \in Devices |-> << >>]
NoHistory == [fed |-> Nothing, got |-> Nothing, wrote |-> << >>, out |-> Nothing]

Bytes == 0 .. 255
Words == 0 .. 65535

TypeOK ==
    /\ guest \in [at : {"off", "idle", "canrecv", "recv", "cansend", "send"}, dev : Devices]
    /\ sv \in [status : {"STOP", "RUN", "IORD", "IOWR"}, ioaddr : Words, iodata : Words]
    /\ mon \in [at : {"prompt", "stop", "start", "status", "rdaddr", "set", "wraddr",
                      "wrdata", "cont", "lost"}, ioaddr : Words, iodata : Words]
    /\ devs \in [head : Devices \cup {Null}, next : [Devices -> Devices \cup {Null}]]
    /\ \A d \in Devices : /\ port[d] \in [queue : Seq(Bytes), fd : Seq(Bytes)]
                          /\ Len(port[d].queue) <= QueueSize
    /\ faults \in [all : 0 .. MaxFaults, here : 0 .. MaxFaults]
    /\ session \in [all : 0 .. MaxSessions, here : 0 .. MaxSessions, typed : 0 .. NbTyped]
    /\ hist \in [fed : [Devices -> Seq(Bytes)], got : [Devices -> Seq(Bytes)],
                 wrote : Seq(Bytes), out : [Devices -> Seq(Bytes)]]

-----------------------------------------------------------------------------
(* dev.c *)

Answers(d, a) == Base(d) <= a /\ a < Base(d) + PortSize

Further(d, a) == IF d = Null \/ Answers(d, a) THEN d ELSE devs.next[d]

\* Where find_dev is after two steps, one per device.  That is its answer, unless
\* it is a device that does not answer: the list is a ring, the search endless.
FindDev(a) == Further(Further(devs.head, a), a)
Endless(a) == FindDev(a) # Null /\ ~Answers(FindDev(a), a)

SlipHeadFirst(l, d) == [head |-> d, next |-> [l.next EXCEPT ![d] = d]]
\* dev_register.
Register(l, d) == [head |-> d, next |-> [l.next EXCEPT ![d] = l.head]]

-----------------------------------------------------------------------------
(* serial.c *)

SlipRefillAlways(p, offset) ==
    IF p.fd = << >> THEN p
    ELSE [queue |-> << Head(p.fd) >>, fd |-> Tail(p.fd)]
SlipRefillForData(p, offset) ==
    IF p.queue # << >> \/ offset # RBR THEN p ELSE SlipRefillAlways(p, offset)
\* read(input_fd, queue, QUEUE_SIZE), which does not block.
Refill(p, offset) ==
    IF p.queue # << >> THEN p
    ELSE LET n == Min({QueueSize, Len(p.fd)}) IN
         [queue |-> SubSeq(p.fd, 1, n), fd |-> SubSeq(p.fd, n + 1, Len(p.fd))]

SlipStatusTakes(p, offset) == IF offset \in {RBR, LSR} /\ p.queue # << >>
                              THEN [p EXCEPT !.queue = Tail(@)] ELSE p
\* What is left once the register is read.
AfterRead(p, offset) == IF offset = RBR /\ p.queue # << >>
                        THEN [p EXCEPT !.queue = Tail(@)] ELSE p

Register8(p, offset) ==
    CASE offset = RBR -> IF p.queue # << >> THEN Head(p.queue) ELSE 0
      [] offset = LSR -> THR_READY + (IF p.queue # << >> THEN DATA_AVL ELSE 0)
      [] OTHER -> 0

\* dev_read: the byte on the half of the word the address selects.
DevRead(a) ==
    LET d == FindDev(a)
        p == Refill(port[d], a - Base(d))
        r == Register8(p, a - Base(d))
    IN  IF d = Null THEN mon' = [mon EXCEPT !.at = "set", !.ioaddr = a, !.iodata = 0]
                         /\ UNCHANGED port
        ELSE /\ port' = [port EXCEPT ![d] = AfterRead(p, a - Base(d))]
             /\ mon' = [mon EXCEPT !.at = "set", !.ioaddr = a,
                                   !.iodata = IF Odd(a) THEN (r * 256) % 65536 ELSE r]

SlipNoLane(a, w) == (w \div 256) % 256
\* dev_write's byte, of which serial_write puts out one.
LaneOut(a, w) == IF Odd(a) THEN (w \div 256) % 256 ELSE w % 256

DevWrite(a, w) ==
    LET d == FindDev(a) IN
    hist' = IF d # Null /\ a - Base(d) = THR
            THEN [hist EXCEPT !.out[d] = Append(@, LaneOut(a, w))] ELSE hist

-----------------------------------------------------------------------------
(* The guest: uart_readb and uart_writeb *)

GuestAt(at) == [at |-> at, dev |-> "com1"]

Address == Base(guest.dev) + (IF guest.at \in {"canrecv", "cansend"} THEN LSR ELSE RBR)

\* Which of them a program calls is up to it.
GuestReads ==
    /\ guest.at = "idle"
    /\ \E d \in Devices : guest' = [at |-> "canrecv", dev |-> d]
    /\ UNCHANGED << sv, mon, devs, port, faults, session, hist >>

GuestWrites ==
    /\ guest.at = "idle" /\ Len(hist.wrote) < MaxWrites
    /\ guest' = GuestAt("cansend")
    /\ UNCHANGED << sv, mon, devs, port, faults, session, hist >>

\* inb.  The firmware keeps the port and stalls the CPU.
GuestIn ==
    /\ sv.status = "RUN" /\ guest.at \in {"canrecv", "recv", "cansend"}
    /\ sv' = [sv EXCEPT !.status = "IORD", !.ioaddr = Address]
    /\ UNCHANGED << guest, mon, devs, port, faults, session, hist >>

OtherHalf == {255}

\* outb.  The other half of the word is whatever the bus holds.
GuestOut ==
    /\ sv.status = "RUN" /\ guest.at = "send"
    /\ LET byte == Len(hist.wrote) + 1 IN
       /\ hist' = [hist EXCEPT !.wrote = Append(@, byte)]
       /\ \E rest \in OtherHalf :
             sv' = [status |-> "IOWR", ioaddr |-> Address, iodata |-> 256 * rest + byte]
    /\ UNCHANGED << guest, mon, devs, port, faults, session >>

\* The stalled access ends with word w on the bus and the guest goes on.
GoesOn(w) ==
    LET byte == IF Odd(Address) THEN w \div 256 ELSE w % 256
    IN  /\ guest' = CASE guest.at = "canrecv" /\ Odd(byte) -> [guest EXCEPT !.at = "recv"]
                      [] guest.at = "cansend" /\ Odd(byte \div THR_READY) ->
                             [guest EXCEPT !.at = "send"]
                      [] guest.at \in {"recv", "send"} -> GuestAt("idle")
                      [] OTHER -> guest
        /\ hist' = IF guest.at = "recv"
                   THEN [hist EXCEPT !.got[guest.dev] = Append(@, byte)] ELSE hist

-----------------------------------------------------------------------------
(* Library calls: what the supervisor does, and what may fail *)

Works == UNCHANGED faults
Fails == /\ faults.all < MaxFaults
         /\ faults' = [all |-> faults.all + 1, here |-> faults.here + 1]

\* sv_cont: a stalled access goes on, anything else is refused.
SvCont ==
    IF sv.status \in {"IORD", "IOWR"}
    THEN sv' = [sv EXCEPT !.status = "RUN"] /\ GoesOn(sv.iodata)
    ELSE UNCHANGED << sv, guest, hist >>

SvStop == /\ sv' = [sv EXCEPT !.status = "STOP"]
          /\ guest' = GuestAt("off")
          /\ hist' = [hist EXCEPT !.got = Nothing, !.wrote = << >>]

SvStart == IF sv.status = "STOP"
           THEN /\ sv' = [sv EXCEPT !.status = "RUN"]
                /\ guest' = GuestAt("idle")
                /\ UNCHANGED hist
           ELSE UNCHANGED << sv, guest, hist >>

\* A command the supervisor carries out if the call works, and perhaps if not.
Command(effect) ==
    \/ Works /\ effect
    \/ Fails /\ effect
    \/ Fails /\ UNCHANGED << sv, guest, hist >>

\* A call that reads works, or leaves in the caller's hands what failed makes of it.
Reading(value, failed) == { << value, TRUE >> } \cup (failed \X {FALSE})
Outcome(r) == IF r[2] THEN Works ELSE Fails

\* A time-out is -62, 65474 as a port; a read error is positive: status 4 or 5
\* (EINTR, EIO), and then a port or word is what the stack held.
FailedStatus == {"error", "IOWR", "IORD"}
FailedAddr == {65474, Base("com1") + RBR, Base("com2") + RBR, Base("com1") + LSR}
FailedData == {65474, sv.iodata}

-----------------------------------------------------------------------------
(* cmd_sysemu *)

MonStart(at) == [at |-> at, ioaddr |-> 0, iodata |-> 0]
MonAt(at) == mon' = [mon EXCEPT !.at = at]

\* What the files still hold is never read: the next sysemu opens others.
SessionOver == /\ port' = [d \in Devices |-> [port[d] EXCEPT !.fd = << >>]]
               /\ hist' = NoHistory

\* The ports are registered, which opens a new terminal and the file.
Sysemu ==
    /\ mon.at = "prompt" /\ session.all < MaxSessions
    /\ devs' = Register(Register(devs, "com1"), "com2")
    /\ LET file == [k \in 1 .. FileSize |-> 128 + k] IN
       /\ port' = [port EXCEPT !["com2"].fd = file]
       /\ hist' = [NoHistory EXCEPT !.fed = [com1 |-> port["com1"].queue,
                                            com2 |-> port["com2"].queue \o file]]
    /\ session' = [session EXCEPT !.all = @ + 1, !.here = @ + 1]
    /\ faults' = [faults EXCEPT !.here = 0]
    /\ MonAt("stop")
    /\ UNCHANGED << guest, sv >>

\* monitor_exec of stop and start: errors are printed and forgotten.
Stop == mon.at = "stop" /\ Command(SvStop) /\ MonAt("start")
            /\ UNCHANGED << devs, port, session >>
Start == mon.at = "start" /\ Command(SvStart) /\ MonAt("status")
            /\ UNCHANGED << devs, port, session >>

SlipNoWriteCase(st) ==
    CASE st = "IORD" -> "rdaddr" [] st \in {"RUN", "IOWR"} -> "status" [] OTHER -> "prompt"
\* The switch: STOP ends the loop, and so does a status it does not know.
CaseOf(st) == CASE st = "RUN" -> "status" [] st = "IORD" -> "rdaddr"
                [] st = "IOWR" -> "wraddr" [] OTHER -> "prompt"

GetStatus ==
    /\ mon.at = "status"
    /\ \E st \in Reading(sv.status, FailedStatus) :
          /\ Outcome(st)
          /\ MonAt(CaseOf(st[1]))
          /\ IF CaseOf(st[1]) = "prompt" THEN SessionOver ELSE UNCHANGED << port, hist >>
    /\ UNCHANGED << guest, sv, devs, session >>

\* A search that never ends.
Lost(a) == Endless(a) /\ MonAt("lost") /\ UNCHANGED << port, hist >>

RdGetAddr ==
    /\ mon.at = "rdaddr"
    /\ \E a \in Reading(sv.ioaddr, FailedAddr) :
          /\ Outcome(a)
          /\ \/ Lost(a[1])
             \/ ~Endless(a[1]) /\ DevRead(a[1]) /\ UNCHANGED hist
    /\ UNCHANGED << guest, sv, devs, session >>

RdSetData ==
    /\ mon.at = "set" /\ MonAt("cont")
    /\ Command(sv' = [sv EXCEPT !.iodata = mon.iodata] /\ UNCHANGED << guest, hist >>)
    /\ UNCHANGED << devs, port, session >>

WrGetAddr ==
    /\ mon.at = "wraddr"
    /\ \E a \in Reading(sv.ioaddr, FailedAddr) :
          Outcome(a) /\ mon' = [mon EXCEPT !.at = "wrdata", !.ioaddr = a[1]]
    /\ UNCHANGED << guest, sv, devs, port, session, hist >>

WrGetData ==
    /\ mon.at = "wrdata"
    /\ \E w \in Reading(sv.iodata, FailedData) :
          /\ Outcome(w)
          /\ \/ Lost(mon.ioaddr)
             \/ /\ ~Endless(mon.ioaddr) /\ DevWrite(mon.ioaddr, w[1])
                /\ MonAt("cont") /\ UNCHANGED port
    /\ UNCHANGED << guest, sv, devs, session >>

\* lsepc_cont, its result ignored.  The loop starts again; its variables are dead.
Cont == mon.at = "cont" /\ Command(SvCont) /\ mon' = MonStart("status")
            /\ UNCHANGED << devs, port, session >>

-----------------------------------------------------------------------------
(* The user *)

Type ==
    /\ mon.at # "prompt"
    /\ session.typed < NbTyped
    /\ session' = [session EXCEPT !.typed = @ + 1]
    /\ port' = [port EXCEPT !["com1"].fd = Append(@, session.typed + 1)]
    /\ hist' = [hist EXCEPT !.fed["com1"] = Append(@, session.typed + 1)]
    /\ UNCHANGED << guest, sv, mon, devs, faults >>

NoDevices == [head |-> Null, next |-> [d \in Devices |-> Null]]
NoInput == [d \in Devices |-> [queue |-> << >>, fd |-> << >>]]

\* The monitor is killed, at any point, and run again: monitor_init.
Restart ==
    /\ session.here > 0
    /\ mon' = MonStart("prompt")
    /\ devs' = NoDevices /\ port' = NoInput
    /\ session' = [session EXCEPT !.here = 0]
    /\ faults' = [faults EXCEPT !.here = 0]
    /\ hist' = NoHistory
    /\ UNCHANGED << guest, sv >>

\* The board loses its power for a moment: sv_init.
BoardReset ==
    /\ sv' = [status |-> "STOP", ioaddr |-> 0, iodata |-> 0]
    /\ guest' = GuestAt("off")
    /\ UNCHANGED << mon, devs, port, faults, session, hist >>

-----------------------------------------------------------------------------
Init ==
    /\ guest = GuestAt("off")
    /\ sv = [status |-> "STOP", ioaddr |-> 0, iodata |-> 0]
    /\ mon = MonStart("prompt")
    /\ devs = NoDevices /\ port = NoInput
    /\ faults = [all |-> 0, here |-> 0]
    /\ session = [all |-> 0, here |-> 0, typed |-> 0]
    /\ hist = NoHistory

Loop == Stop \/ Start \/ GetStatus \/ RdGetAddr \/ RdSetData \/ WrGetAddr
            \/ WrGetData \/ Cont
Guest == GuestReads \/ GuestWrites \/ GuestIn \/ GuestOut

Next == Loop \/ Guest \/ Sysemu \/ Type \/ Restart \/ BoardReset

Spec == Init /\ [][Next]_emuVars

\* The loop never sleeps, and a guest in uart.c goes on polling; nobody need
\* type, start sysemu or call uart.c.
Fairness == WF_emuVars(Loop) /\ WF_emuVars(GuestIn \/ GuestOut)

FairSpec == Spec /\ Fairness

-----------------------------------------------------------------------------
(* Properties *)

InSession == mon.at \notin {"prompt", "stop", "start"} /\ guest.at # "off"
NoFault == faults.here = 0

\* What the monitor has taken from a queue and not yet handed to the guest.
InHand(d) ==
    IF mon.at \in {"set", "cont"} /\ sv.status = "IORD" /\ mon.ioaddr = Base(d) + RBR
    THEN << mon.iodata >> ELSE << >>

\* What the guest has been stalled on and the monitor not yet put out.
Unwritten == IF sv.status = "IOWR" /\ mon.at # "cont" THEN << Len(hist.wrote) >> ELSE << >>

\* No byte is lost, doubled or out of order between terminal or file and guest,
\* as long as no call fails: what it got, what is on the way, in the queue and still
\* to be read is what was fed (serial_read:45 with its refill, dev_read's lanes,
\* the polling of uart_readb).
InputKept ==
    /\ TypeOK
    /\ InSession /\ NoFault => \A d \in Devices :
        hist.got[d] \o InHand(d) \o port[d].queue \o port[d].fd = hist.fed[d]

\* Nor on the way out (cmd_sysemu:138, serial_write).
OutputKept == InSession /\ NoFault => hist.out["com1"] \o Unwritten = hist.wrote

\* sysemu ignores what set_io_data and cont return, and a failed status or port
\* may look like another one (monitor.c:127-145): a failed call costs at most one
\* byte of a port, lost or made up, and one byte written, lost or repeated.
DamageBounded ==
    InSession =>
    /\ \A d \in Devices :
        LET taken == Len(hist.fed[d]) - Len(port[d].queue) - Len(port[d].fd)
        IN  Len(hist.got[d]) + Len(InHand(d)) - taken \in -faults.here .. faults.here
    /\ Len(hist.out["com1"]) + Len(Unwritten) - Len(hist.wrote)
            \in -faults.here .. faults.here

\* find_dev comes to an end, hit or miss, until sysemu is run a second time in
\* the same monitor and closes the list to a ring (dev_register:40, monitor.c:119).
SearchEnds == mon.at = "lost" => session.here > 1

\* A stalled guest goes on, unless sysemu gave up or is caught in the ring: the
\* loop leaves no access unanswered (monitor.c:127).
Stalled == sv.status \in {"IORD", "IOWR"}
AccessServed == Stalled ~> ~Stalled \/ mon.at \in {"prompt", "lost"}

\* uart_readb does not wait for ever for a byte that is there: the refill happens
\* on any access, so polling LSR finds it (serial.c:51).
Waiting(d) == /\ guest.at = "canrecv" /\ guest.dev = d
              /\ port[d].queue \o port[d].fd # << >>
InputArrives ==
    \A d \in Devices : Waiting(d) ~> guest.at # "canrecv" \/ ~NoFault
                                         \/ mon.at \in {"prompt", "lost"}
=============================================================================
