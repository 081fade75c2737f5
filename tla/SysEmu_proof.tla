---------------------------- MODULE SysEmu_proof ----------------------------
(***************************************************************************)
(* The emulated serial ports of SysEmu, for every queue size, file, number *)
(* of bytes typed and written, of sessions and of failing calls.           *)
(*                                                                         *)
(* First the list of devices: a search of it ends in the first sysemu of a *)
(* monitor.  Then what one step of each action does (lemmas ...Step), and  *)
(* EmuInv, the invariant that InputKept, OutputKept and DamageBounded need:*)
(*    EmuType     types, and what the firmware's status says of the guest; *)
(*    PreInv      what sysemu finds when its loop begins;                  *)
(*    NoFaultInv  without a failed call: what the monitor believes of the  *)
(*                stalled access is so, and the streams are exact;         *)
(*    DamageInv   with failed calls: the accounts of bytes, place by place.*)
(***************************************************************************)
EXTENDS SysEmu, SequenceTheorems, TLAPS

\* The list after the registrations of one sysemu.
OneSession == Register(Register(NoDevices, "com1"), "com2")

Fields ==
    /\ "at" \in DOMAIN mon
    /\ {"all", "here", "typed"} \subseteq DOMAIN session
    /\ session.here \in Nat

\* The list is that of the sysemus run in this monitor, as long as that is none
\* or one, and only the first makes it other than empty.
ListInv ==
    /\ session.here = 0 => devs = NoDevices /\ mon.at = "prompt"
    /\ session.here = 1 => devs = OneSession

SearchInv == Fields /\ ListInv /\ SearchEnds

\* COM2, then COM1, then the end: two steps of find_dev are enough.
LEMMA OneSessionEnds == ASSUME devs = OneSession, NEW a PROVE ~Endless(a)
<1>1. /\ devs.head = "com2" /\ devs.next["com2"] = "com1" /\ devs.next["com1"] = Null
  BY DEF OneSession, Register, NoDevices, Devices, Null
<1>2. Null # "com1" /\ Null # "com2"
  BY DEF Null
<1>3. CASE Answers("com2", a)
  BY <1>1, <1>2, <1>3 DEF Endless, FindDev, Further
<1>4. CASE ~Answers("com2", a)
  BY <1>1, <1>2, <1>4 DEF Endless, FindDev, Further
<1> QED
  BY <1>3, <1>4

\* The loop's own steps end up lost only in a list that is not OneSession.
LEMMA LoopStep ==
    ASSUME SearchInv, Loop
    PROVE  /\ UNCHANGED << session, devs >> /\ mon.at # "prompt"
           /\ "at" \in DOMAIN mon'
           /\ mon'.at = "lost" => \E a : Endless(a)
<1> USE DEF SearchInv, Fields
<1>1. CASE Stop \/ Start \/ RdSetData \/ Cont
  BY <1>1 DEF Stop, Start, RdSetData, Cont, MonAt, MonStart
<1>2. CASE GetStatus
  <2>1. PICK st : MonAt(CaseOf(st))
    BY <1>2 DEF GetStatus
  <2>2. CaseOf(st) \in {"status", "rdaddr", "wraddr", "prompt"}
    BY DEF CaseOf
  <2> QED
    BY <1>2, <2>1, <2>2 DEF GetStatus, MonAt
<1>3. CASE RdGetAddr
  <2>1. PICK a : Lost(a) \/ DevRead(a)
    BY <1>3 DEF RdGetAddr
  <2>2. CASE Lost(a)
    BY <1>3, <2>2 DEF RdGetAddr, Lost, MonAt
  <2>3. CASE DevRead(a)
    <3>1. CASE FindDev(a) = Null
      <4>1. mon' = [mon EXCEPT !.at = "set", !.ioaddr = a, !.iodata = 0]
        BY <2>3, <3>1 DEF DevRead
      <4> QED
        BY <1>3, <4>1 DEF RdGetAddr
    <3>2. CASE FindDev(a) # Null
      <4> DEFINE r == Register8(Refill(port[FindDev(a)], a - Base(FindDev(a))),
                                a - Base(FindDev(a)))
                 w == IF Odd(a) THEN (r * 256) % 65536 ELSE r
      <4>1. mon' = [mon EXCEPT !.at = "set", !.ioaddr = a, !.iodata = w]
        BY <2>3, <3>2 DEF DevRead
      <4> HIDE DEF w
      <4> QED
        BY <1>3, <4>1 DEF RdGetAddr
    <3> QED
      BY <3>1, <3>2
  <2> QED
    BY <2>1, <2>2, <2>3
<1>4. CASE WrGetAddr
  BY <1>4 DEF WrGetAddr
<1>5. CASE WrGetData
  <2>1. Lost(mon.ioaddr) \/ MonAt("cont")
    BY <1>5 DEF WrGetData
  <2> QED
    BY <1>5, <2>1 DEF WrGetData, Lost, MonAt
<1> QED
  BY <1>1, <1>2, <1>3, <1>4, <1>5 DEF Loop

\* Every step keeps the invariant.
LEMMA SearchInvNext == SearchInv /\ [Next]_emuVars => SearchInv'
<1> SUFFICES ASSUME SearchInv, [Next]_emuVars PROVE SearchInv'
  OBVIOUS
<1> USE DEF SearchInv, Fields, ListInv, SearchEnds
<1>1. CASE Loop
  <2>1. /\ session' = session /\ devs' = devs /\ mon.at # "prompt"
        /\ "at" \in DOMAIN mon'
        /\ mon'.at = "lost" => \E a : Endless(a)
    BY <1>1, LoopStep
  <2>2. session.here # 0
    BY <2>1
  <2>3. session.here = 1 => mon'.at # "lost"
    BY <2>1, OneSessionEnds
  <2> QED
    BY <2>1, <2>2, <2>3
<1>2. CASE Guest
  BY <1>2 DEF Guest, GuestReads, GuestWrites, GuestIn, GuestOut
<1>3. CASE Sysemu
  <2>1. session'.here = session.here + 1 /\ mon'.at = "stop" /\ "at" \in DOMAIN mon'
        /\ {"all", "here", "typed"} \subseteq DOMAIN session'
    BY <1>3 DEF Sysemu, MonAt
  <2>2. session.here = 0 => devs' = OneSession
    BY <1>3 DEF Sysemu, OneSession
  <2> QED
    BY <2>1, <2>2
<1>4. CASE Type
  BY <1>4 DEF Type
<1>5. CASE Restart
  BY <1>5 DEF Restart, MonStart
<1>6. CASE BoardReset
  BY <1>6 DEF BoardReset
<1>7. CASE UNCHANGED emuVars
  BY <1>7 DEF emuVars
<1> QED
  BY <1>1, <1>2, <1>3, <1>4, <1>5, <1>6, <1>7 DEF Next

\* A search for a port, hit or miss, comes to an end until sysemu is run a second
\* time in the same monitor, whatever calls fail and whenever the monitor is
\* killed or the board reset (find_dev, dev_register:40).
THEOREM SearchesEnd == Spec => []SearchEnds
<1>1. Init => SearchInv
  BY DEF Init, MonStart, SearchInv, Fields, ListInv, SearchEnds
<1>2. SearchInv => SearchEnds
  BY DEF SearchInv
<1> QED
  BY <1>1, <1>2, SearchInvNext, PTL DEF Spec

LEMMA Between == ASSUME NEW lo \in Int, NEW hi \in Int
   PROVE \A x : x \in lo .. hi <=> x \in Int /\ lo <= x /\ x <= hi
OBVIOUS

LEMMA WordsAre == \A x : x \in Words <=> x \in Int /\ 0 <= x /\ x <= 65535
<1>1. PICK hi \in Int : hi = 65535
  BY SMT
<1>2. Words = 0 .. hi
  BY <1>1, SMT DEF Words
<1>3. \A x : x \in 0 .. hi <=> x \in Int /\ 0 <= x /\ x <= hi
  BY SMT
<1>4. \A x : x \in Words <=> x \in Int /\ 0 <= x /\ x <= hi
  BY <1>2, <1>3
<1> QED
  BY <1>1, <1>4, SMT

LEMMA BytesAre == \A x : x \in Bytes <=> x \in Int /\ 0 <= x /\ x <= 255
<1>1. PICK hi \in Int : hi = 255
  BY SMT
<1>2. Bytes = 0 .. hi
  BY <1>1, SMT DEF Bytes
<1>3. \A x : x \in 0 .. hi <=> x \in Int /\ 0 <= x /\ x <= hi
  BY SMT
<1> QED
  BY <1>1, <1>2, <1>3, SMT

LEMMA Lanes == ASSUME NEW w \in Words
   PROVE /\ w \div 256 \in Bytes /\ w % 256 \in Bytes /\ (w \div 256) % 256 \in Bytes
<1>1. w \in Int /\ 0 <= w /\ w <= 65535
  BY WordsAre
<1>2. w \div 256 \in Int /\ 0 <= w \div 256 /\ w \div 256 <= 255
  BY <1>1, SMT
<1>3. /\ w % 256 \in Int /\ 0 <= w % 256 /\ w % 256 <= 255
  BY <1>1, SMT
<1> QED
  BY <1>2, <1>3, BytesAre, SMT
LEMMA LanesB == ASSUME NEW r \in Bytes
   PROVE /\ r \in Words /\ (r * 256) % 65536 = r * 256 /\ r * 256 \in Words
         /\ (r * 256) \div 256 = r /\ r % 256 = r
BY WordsAre, BytesAre, SMT
LEMMA MinTwo == ASSUME NEW x \in Nat, NEW y \in Nat
  PROVE Min({x,y}) = IF x <= y THEN x ELSE y
<1>1. \E z \in {x,y} : \A t \in {x,y} : z <= t
  OBVIOUS
<1> QED
BY <1>1 DEF Min

-----------------------------------------------------------------------------
(* Types *)

GuestType == [at : {"off", "idle", "canrecv", "recv", "cansend", "send"}, dev : Devices]
SvType == [status : {"STOP", "RUN", "IORD", "IOWR"}, ioaddr : Words, iodata : Words]
Places == {"prompt", "stop", "start", "status", "rdaddr", "set", "wraddr", "wrdata",
           "cont", "lost"}
MonType == [at : Places, ioaddr : Words, iodata : Words]
DevsType == [head : Devices \cup {Null}, next : [Devices -> Devices \cup {Null}]]
QueueType == [queue : Seq(Bytes), fd : Seq(Bytes)]
PortType == [Devices -> QueueType]
FaultsType == [all : 0 .. MaxFaults, here : 0 .. MaxFaults]
SessionType == [all : 0 .. MaxSessions, here : 0 .. MaxSessions, typed : 0 .. NbTyped]
HistType == [fed : [Devices -> Seq(Bytes)], got : [Devices -> Seq(Bytes)],
             wrote : Seq(Bytes), out : [Devices -> Seq(Bytes)]]

Typed ==
    /\ guest \in GuestType /\ sv \in SvType /\ mon \in MonType /\ devs \in DevsType
    /\ port \in PortType /\ \A d \in Devices : Len(port[d].queue) <= QueueSize
    /\ faults \in FaultsType /\ faults.here <= faults.all
    /\ session \in SessionType /\ session.here <= session.all
    /\ hist \in HistType

\* The firmware's word on the guest: stalled where uart.c accesses a port, at that
\* port's address; a write is com1's, and there is room for its byte in the bound.
StatusInv ==
    /\ sv.status = "STOP" <=> guest.at = "off"
    /\ sv.status = "IORD" => guest.at \in {"canrecv", "recv", "cansend"}
    /\ sv.status = "IOWR" => guest.at = "send"
    /\ Stalled => sv.ioaddr = Address
    /\ guest.at \in {"cansend", "send"} =>
          /\ guest.dev = "com1" /\ MaxWrites > 0
          /\ sv.status # "IOWR" => Len(hist.wrote) < MaxWrites

\* The last two devices registered are the first two of the list.
DevsInv == mon.at # "prompt" => devs.head = "com2" /\ devs.next["com2"] = "com1"

EmuType == Typed /\ StatusInv /\ DevsInv

LEMMA TypedIsTypeOK == Typed => TypeOK
BY DEF Typed, TypeOK, GuestType, SvType, MonType, Places, DevsType, QueueType, PortType,
       FaultsType, SessionType, HistType

LEMMA TwoDevices ==
    /\ Devices = {"com1", "com2"} /\ "com1" # "com2" /\ Null \notin Devices
    /\ Base("com1") = 1016 /\ Base("com2") = 760
BY DEF Devices, Base, Null

LEMMA NothingType ==
    /\ Nothing \in [Devices -> Seq(Bytes)] /\ \A d \in Devices : Nothing[d] = << >>
    /\ NoHistory \in HistType
    /\ NoHistory.fed = Nothing /\ NoHistory.got = Nothing /\ NoHistory.out = Nothing
    /\ NoHistory.wrote = << >>
<1>1. << >> \in Seq(Bytes)
  BY EmptySeq
<1>2. Nothing \in [Devices -> Seq(Bytes)] /\ \A d \in Devices : Nothing[d] = << >>
  BY <1>1 DEF Nothing
<1> QED
  BY <1>1, <1>2 DEF NoHistory, HistType

LEMMA AddressType ==
    ASSUME guest \in GuestType
    PROVE  /\ Address \in Words
           /\ guest.at \in {"canrecv", "cansend"} => Odd(Address)
           /\ guest.at \notin {"canrecv", "cansend"} => ~Odd(Address)
           /\ guest.at \in {"canrecv", "cansend"} => Address = Base(guest.dev) + LSR
           /\ guest.at \notin {"canrecv", "cansend"} => Address = Base(guest.dev) + RBR
<1>1. guest.dev \in Devices
  BY DEF GuestType
<1>2. Base(guest.dev) \in {760, 1016}
  BY <1>1, TwoDevices
<1>3. Address = Base(guest.dev) + (IF guest.at \in {"canrecv", "cansend"} THEN 5 ELSE 0)
  BY DEF Address, LSR, RBR
<1>4. Address \in {760, 765, 1016, 1021}
  BY <1>2, <1>3
<1>5. Address \in Words
  BY <1>4, WordsAre
<1> QED
  BY <1>2, <1>3, <1>5 DEF Odd, LSR, RBR

\* What a step of the monitor's place changes.
LEMMA MonAtEffect ==
    ASSUME mon \in MonType, NEW x \in Places, MonAt(x)
    PROVE  mon' \in MonType /\ mon'.at = x /\ mon'.ioaddr = mon.ioaddr /\ mon'.iodata = mon.iodata
<1>1. mon' = [at |-> x, ioaddr |-> mon.ioaddr, iodata |-> mon.iodata]
  BY DEF MonAt, MonType
<1> QED
  BY <1>1 DEF MonType

LEMMA MonStartEffect ==
    ASSUME NEW x \in Places, mon' = MonStart(x)
    PROVE  mon' \in MonType /\ mon'.at = x
<1>1. 0 \in Words
  BY WordsAre
<1> QED
  BY <1>1 DEF MonStart, MonType

LEMMA GuestAtType ==
    ASSUME NEW x \in {"off", "idle", "canrecv", "recv", "cansend", "send"}
    PROVE  GuestAt(x) \in GuestType /\ GuestAt(x).at = x /\ GuestAt(x).dev = "com1"
BY TwoDevices DEF GuestAt, GuestType

LEMMA FaultsEffect ==
    ASSUME faults \in FaultsType, faults.here <= faults.all, Works \/ Fails
    PROVE  /\ faults' \in FaultsType /\ faults'.here <= faults'.all
           /\ faults.here \in Nat /\ faults'.here \in Nat
           /\ Works => faults'.here = faults.here
           /\ Fails => faults'.here = faults.here + 1
<1>1. MaxFaults \in Nat
  BY EmuAssumption
<1> QED
  BY <1>1 DEF FaultsType, Works, Fails

\* stop: the guest is off and its histories start anew.
LEMMA SvStopEffect ==
    ASSUME Typed, SvStop
    PROVE  /\ sv' \in SvType /\ sv'.status = "STOP"
           /\ guest' \in GuestType /\ guest'.at = "off"
           /\ hist' \in HistType /\ hist'.got = Nothing /\ hist'.wrote = << >>
           /\ hist'.fed = hist.fed /\ hist'.out = hist.out
<1>1. /\ sv' = [status |-> "STOP", ioaddr |-> sv.ioaddr, iodata |-> sv.iodata]
      /\ guest' = GuestAt("off")
      /\ hist' = [fed |-> hist.fed, got |-> Nothing, wrote |-> << >>, out |-> hist.out]
  BY DEF SvStop, Typed, SvType, HistType
<1>2. << >> \in Seq(Bytes)
  BY EmptySeq
<1> QED
  BY <1>1, <1>2, NothingType, GuestAtType DEF Typed, SvType, HistType

\* start: a guest that was off begins, any other goes on.
LEMMA SvStartEffect ==
    ASSUME Typed, StatusInv, SvStart
    PROVE  /\ sv' \in SvType /\ guest' \in GuestType /\ hist' = hist
           /\ sv'.status # "STOP" /\ guest'.at # "off"
           /\ \/ sv' = sv /\ guest' = guest /\ guest.at # "off"
              \/ guest.at = "off" /\ guest' = GuestAt("idle") /\ sv'.status = "RUN"
<1>1. CASE sv.status = "STOP"
  <2>1. /\ sv' = [status |-> "RUN", ioaddr |-> sv.ioaddr, iodata |-> sv.iodata]
        /\ guest' = GuestAt("idle") /\ hist' = hist
    BY <1>1 DEF SvStart, Typed, SvType
  <2> QED
    BY <1>1, <2>1, GuestAtType DEF Typed, StatusInv, SvType
<1>2. CASE sv.status # "STOP"
  BY <1>2 DEF SvStart, Typed, StatusInv
<1> QED
  BY <1>1, <1>2

\* The byte a stalled access gives the guest.
GuestByte == IF Odd(Address) THEN sv.iodata \div 256 ELSE sv.iodata % 256

\* cont: a stalled access ends.
LEMMA SvContEffect ==
    ASSUME Typed, StatusInv, SvCont
    PROVE  \/ ~Stalled /\ sv' = sv /\ guest' = guest /\ hist' = hist
           \/ /\ Stalled /\ GuestByte \in Bytes
              /\ sv' \in SvType /\ sv'.status = "RUN"
              /\ guest' \in GuestType /\ guest'.at # "off"
              /\ hist' \in HistType
              /\ hist'.fed = hist.fed /\ hist'.wrote = hist.wrote /\ hist'.out = hist.out
              /\ hist'.got = IF guest.at = "recv"
                             THEN [hist.got EXCEPT ![guest.dev] = Append(@, GuestByte)]
                             ELSE hist.got
              /\ guest.at = "canrecv" =>
                    guest'.dev = guest.dev
                    /\ guest'.at = IF Odd(GuestByte) THEN "recv" ELSE "canrecv"
              /\ guest.at \in {"recv", "send"} => guest' = GuestAt("idle")
              /\ guest.at = "cansend" => guest'.dev = guest.dev /\ guest'.at \in {"cansend", "send"}
              /\ guest.at \in {"canrecv", "recv", "cansend", "send"}
<1>1. CASE ~Stalled
  BY <1>1 DEF SvCont, Stalled
<1>2. CASE Stalled
  <2>1. sv' = [status |-> "RUN", ioaddr |-> sv.ioaddr, iodata |-> sv.iodata] /\ GoesOn(sv.iodata)
    BY <1>2 DEF SvCont, Stalled, Typed, SvType
  <2>2. PICK byte : byte = GuestByte
    OBVIOUS
  <2>3. byte \in Bytes
    BY <2>2, Lanes DEF GuestByte, Typed, SvType
  <2>4. /\ guest' = CASE guest.at = "canrecv" /\ Odd(byte) -> [guest EXCEPT !.at = "recv"]
                      [] guest.at = "cansend" /\ Odd(byte \div THR_READY) ->
                             [guest EXCEPT !.at = "send"]
                      [] guest.at \in {"recv", "send"} -> GuestAt("idle")
                      [] OTHER -> guest
        /\ hist' = IF guest.at = "recv"
                   THEN [hist EXCEPT !.got[guest.dev] = Append(@, byte)] ELSE hist
    BY <2>1, <2>2 DEF GoesOn, GuestByte
  <2>5. guest.at \in {"canrecv", "recv", "cansend", "send"}
    BY <1>2 DEF StatusInv, Stalled
  <2>6. /\ guest = [at |-> guest.at, dev |-> guest.dev] /\ guest.dev \in Devices
    BY DEF Typed, GuestType
  <2>7. \A x : [guest EXCEPT !.at = x] = [at |-> x, dev |-> guest.dev]
    BY <2>6
  <2>8. \/ guest.at = "canrecv" /\ guest' = [at |-> IF Odd(byte) THEN "recv" ELSE "canrecv",
                                           dev |-> guest.dev]
        \/ guest.at = "cansend" /\ \E x \in {"cansend", "send"} :
                                     guest' = [at |-> x, dev |-> guest.dev]
        \/ guest.at \in {"recv", "send"} /\ guest' = GuestAt("idle")
    <3>1. CASE guest.at = "canrecv"
      BY <2>4, <2>6, <2>7, <3>1
    <3>2. CASE guest.at = "cansend"
      BY <2>4, <2>6, <2>7, <3>2
    <3>3. CASE guest.at \in {"recv", "send"}
      BY <2>4, <3>3
    <3> QED
      BY <2>5, <3>1, <3>2, <3>3
  <2>9. guest' \in GuestType /\ guest'.at # "off"
    BY <2>6, <2>8, GuestAtType DEF GuestType
  <2>10. /\ hist' \in HistType
         /\ hist'.fed = hist.fed /\ hist'.wrote = hist.wrote /\ hist'.out = hist.out
         /\ hist'.got = IF guest.at = "recv"
                        THEN [hist.got EXCEPT ![guest.dev] = Append(@, byte)] ELSE hist.got
    <3>1. CASE guest.at = "recv"
      <4>1. PICK g : g = [hist.got EXCEPT ![guest.dev] = Append(@, byte)]
        OBVIOUS
      <4>2. hist' = [fed |-> hist.fed, got |-> g, wrote |-> hist.wrote, out |-> hist.out]
        BY <2>4, <3>1, <4>1 DEF Typed, HistType
      <4>3. hist.got \in [Devices -> Seq(Bytes)]
        BY DEF Typed, HistType
      <4>4. Append(hist.got[guest.dev], byte) \in Seq(Bytes)
        BY <2>3, <2>6, <4>3, AppendProperties
      <4>5. g \in [Devices -> Seq(Bytes)]
        BY <4>1, <4>3, <4>4
      <4> QED
        BY <3>1, <4>1, <4>2, <4>5 DEF Typed, HistType
    <3>2. CASE guest.at # "recv"
      BY <2>4, <3>2 DEF Typed
    <3> QED
      BY <3>1, <3>2
  <2> QED
    BY <1>2, <2>1, <2>2, <2>3, <2>5, <2>8, <2>9, <2>10 DEF Typed, SvType
<1> QED
  BY <1>1, <1>2

-----------------------------------------------------------------------------
(* The inductive invariant *)

\* What is still to be read at a port.
Input(d) == port[d].queue \o port[d].fd

\* At the prompt the files are closed.
\* Between the user's sysemu and its loop, nothing has been got or put out; a guest
\* still running may have written once, and stands there unless it was reset.
PreInv ==
    /\ mon.at = "prompt" => \A d \in Devices : port[d].fd = << >>
    /\ mon.at \in {"stop", "start"} =>
           /\ hist.got = Nothing /\ hist.out = Nothing
           /\ \A d \in Devices : Input(d) = hist.fed[d]
           /\ \/ hist.wrote = << >>
              \/ Len(hist.wrote) = 1 /\ sv.status \in {"IOWR", "STOP"}
           /\ mon.at = "start" /\ NoFault => guest.at = "off" /\ hist.wrote = << >>

\* What the monitor believes of the stalled access is so.
Believes ==
    /\ mon.at \in {"rdaddr", "set"} => sv.status = "IORD"
    /\ mon.at \in {"wraddr", "wrdata"} => sv.status = "IOWR"
    /\ mon.at = "cont" => Stalled
    /\ mon.at \in {"set", "cont"} /\ sv.status = "IORD" => mon.ioaddr = sv.ioaddr
    /\ mon.at = "wrdata" => mon.ioaddr = sv.ioaddr
    /\ mon.at = "cont" /\ sv.status = "IORD" => sv.iodata = mon.iodata

Answering == mon.at \in {"set", "cont"} /\ sv.status = "IORD"

\* A byte waits where the guest was told one does, and the words under way hold
\* the byte on the lane their address selects.
Told ==
    /\ guest.at = "recv" /\ ~Answering => port[guest.dev].queue # << >>
    /\ guest.at = "canrecv" /\ Answering /\ Odd(mon.iodata \div 256)
           => port[guest.dev].queue # << >>
    /\ Answering => mon.iodata = IF Odd(Address) THEN (mon.iodata \div 256) * 256
                                                 ELSE mon.iodata % 256
    /\ sv.status = "IOWR" => sv.iodata % 256 = Len(hist.wrote)

\* Nothing is lost, doubled or out of order.
Exact ==
    /\ Believes /\ Told
    /\ \A d \in Devices : (hist.got[d] \o InHand(d)) \o Input(d) = hist.fed[d]
    /\ hist.out["com1"] \o Unwritten = hist.wrote

NoFaultInv == InSession /\ NoFault => Exact

\* Fault accounting: bytes the guest got more than were taken, bytes put out more
\* than it wrote.
InRange(v) == -faults.here <= v /\ v <= faults.here
Bal(d) == Len(hist.got[d]) + Len(Input(d)) - Len(hist.fed[d])
WBal == Len(hist.out["com1"]) - Len(hist.wrote)

\* The monitor serves an access that is not there, or another one than the guest's.
Misled ==
    \/ mon.at = "rdaddr" /\ sv.status # "IORD"
    \/ mon.at \in {"wraddr", "wrdata"} /\ sv.status # "IOWR"
Mistaken == /\ mon.at \in {"set", "cont"} /\ sv.status # "IOWR"
            /\ ~(sv.status = "IORD" /\ mon.ioaddr = sv.ioaddr)

\* The guest was, or is about to be, told of a byte that is not there.
Deceived(d) ==
    /\ guest.dev = d /\ Input(d) = << >>
    /\ \/ guest.at = "recv"
       \/ /\ guest.at = "canrecv" /\ sv.status = "IORD"
          /\ \/ mon.at = "set" /\ Odd(mon.iodata \div 256)
             \/ mon.at = "cont" /\ Odd(sv.iodata \div 256)

RdInv(d) ==
    /\ InRange(Bal(d) + Len(InHand(d)))
    /\ Misled => InRange(Bal(d) - 1) /\ InRange(Bal(d) + 1)
    /\ Mistaken => InRange(Bal(d)) /\ InRange(Bal(d) + 1)
    /\ Deceived(d) => InRange(Bal(d) + 1)

WrInv ==
    /\ InRange(WBal + Len(Unwritten))
    /\ mon.at \in {"rdaddr", "set", "cont"} /\ sv.status = "RUN" => InRange(WBal - 1)
    /\ mon.at \in {"rdaddr", "set"} /\ sv.status = "IOWR" => InRange(WBal)
    /\ mon.at \in {"wraddr", "wrdata"} /\ sv.status # "IOWR"
          => InRange(WBal + 1) /\ InRange(WBal - 1)
    /\ mon.at = "wrdata" /\ sv.status = "IOWR" /\ mon.ioaddr # sv.ioaddr => InRange(WBal)

DamageInv == InSession => WrInv /\ \A d \in Devices : RdInv(d)

EmuInv == EmuType /\ PreInv /\ NoFaultInv /\ DamageInv
-----------------------------------------------------------------------------
(* Effects of the monitor's steps *)

\* In the list of com2, then com1, a search that ends finds the device that answers.
LEMMA FindsThem ==
    ASSUME devs.head = "com2", devs.next["com2"] = "com1", devs \in DevsType,
           NEW a \in Words, ~Endless(a)
    PROVE  /\ FindDev(a) \in Devices \cup {Null}
           /\ \A d \in Devices : FindDev(a) = d <=> (Base(d) <= a /\ a < Base(d) + 8)
<1>1. "com2" # Null /\ "com1" # Null /\ devs.next["com1"] \in Devices \cup {Null}
  BY TwoDevices DEF DevsType
<1>2. a \in Int
  BY WordsAre
<1>3. /\ Answers("com2", a) <=> (760 <= a /\ a < 760 + 8)
      /\ Answers("com1", a) <=> (1016 <= a /\ a < 1016 + 8)
  BY TwoDevices DEF Answers, PortSize
<1>4. Answers("com2", a) => ~Answers("com1", a)
  BY <1>2, <1>3
<1>5. FindDev(a) = IF Answers("com2", a) THEN "com2"
                   ELSE IF Answers("com1", a) THEN "com1" ELSE devs.next["com1"]
  BY <1>1 DEF FindDev, Further
<1>6. FindDev(a) # Null => Answers(FindDev(a), a)
  BY DEF Endless
<1> QED
  BY <1>1, <1>3, <1>4, <1>5, <1>6, TwoDevices

\* Reading ahead moves bytes from the descriptor to the queue.
LEMMA RefillKeeps ==
    ASSUME NEW p \in QueueType, NEW o
    PROVE  /\ Refill(p, o) \in QueueType
           /\ Refill(p, o).queue \o Refill(p, o).fd = p.queue \o p.fd
           /\ p.queue \o p.fd # << >> => Refill(p, o).queue # << >>
           /\ Len(p.queue) <= QueueSize => Len(Refill(p, o).queue) <= QueueSize
<1>1. p.queue \in Seq(Bytes) /\ p.fd \in Seq(Bytes)
  BY DEF QueueType
<1>2. CASE p.queue # << >>
  BY <1>2 DEF Refill
<1>3. CASE p.queue = << >>
  <2>1. QueueSize \in Nat /\ QueueSize > 0
    BY EmuAssumption
  <2>2. PICK n : n = Min({QueueSize, Len(p.fd)})
    OBVIOUS
  <2>3. /\ n \in Nat /\ n <= QueueSize /\ n <= Len(p.fd)
        /\ p.fd # << >> => n > 0
    BY <1>1, <2>1, <2>2, MinTwo, EmptySeq
  <2>4. Refill(p, o) = [queue |-> SubSeq(p.fd, 1, n), fd |-> SubSeq(p.fd, n + 1, Len(p.fd))]
    BY <1>3, <2>2 DEF Refill
  <2>5. PICK S : S = Bytes
    OBVIOUS
  <2>6. PICK f : f = p.fd
    OBVIOUS
  <2>7. f \in Seq(S)
    BY <1>1, <2>5, <2>6
  <2>8. /\ SubSeq(f, 1, n) \in Seq(S) /\ Len(SubSeq(f, 1, n)) = n
        /\ SubSeq(f, n + 1, Len(f)) \in Seq(S)
    BY <2>3, <2>6, <2>7, SubSeqProperties
  <2>9. SubSeq(f, 1, n) \o SubSeq(f, n + 1, Len(f)) = f
    <3>1. 1 \in 1 .. Len(f) + 1 /\ n \in 1 - 1 .. Len(f) /\ Len(f) \in n .. Len(f)
      BY <2>3, <2>6, <2>7, LenProperties
    <3>2. SubSeq(f, 1, n) \o SubSeq(f, n + 1, Len(f)) = SubSeq(f, 1, Len(f))
      BY <2>7, <3>1, ConcatAdjacentSubSeq
    <3> QED
      BY <2>7, <3>2, SubSeqFull
  <2>10. << >> \o f = f
    BY <2>7
  <2>11. f # << >> => SubSeq(f, 1, n) # << >>
    BY <2>3, <2>6, <2>8, EmptySeq
  <2>12. PICK r : r = Refill(p, o)
    OBVIOUS
  <2>20. PICK A, B : A = SubSeq(f, 1, n) /\ B = SubSeq(f, n + 1, Len(f))
    OBVIOUS
  <2>21. r = [queue |-> A, fd |-> B]
    BY <2>4, <2>6, <2>12, <2>20
  <2>22. r.queue = A /\ r.fd = B
    BY <2>21
  <2>13. r.queue = SubSeq(f, 1, n) /\ r.fd = SubSeq(f, n + 1, Len(f))
         /\ r = [queue |-> r.queue, fd |-> r.fd]
    BY <2>20, <2>21, <2>22
  <2>14. r \in QueueType
    BY <2>5, <2>8, <2>13 DEF QueueType
  <2>15. r.queue \o r.fd = p.queue \o p.fd
    BY <1>3, <2>6, <2>9, <2>10, <2>13
  <2>16. p.queue \o p.fd # << >> => r.queue # << >>
    BY <1>3, <2>6, <2>10, <2>11, <2>13
  <2>17. Len(r.queue) <= QueueSize
    BY <2>3, <2>8, <2>13
  <2> QED
    BY <2>12, <2>14, <2>15, <2>16, <2>17
<1> QED
  BY <1>2, <1>3

\* A queue's first byte, and the rest of what is to be read.
LEMMA TakeFirst ==
    ASSUME NEW q \in Seq(Bytes), NEW f \in Seq(Bytes), q # << >>
    PROVE  /\ Head(q) \in Bytes /\ Tail(q) \in Seq(Bytes) /\ Len(Tail(q)) <= Len(q)
           /\ << Head(q) >> \o (Tail(q) \o f) = q \o f
<1>1. PICK S : S = Bytes
  OBVIOUS
<1>2. q \in Seq(S) /\ f \in Seq(S)
  BY <1>1
<1>3. /\ Head(q) \in S /\ Tail(q) \in Seq(S) /\ Len(Tail(q)) <= Len(q)
      /\ << Head(q) >> \o (Tail(q) \o f) = q \o f
  BY <1>2
<1> QED
  BY <1>1, <1>3

Serial == port \in PortType /\ \A d \in Devices : Len(port[d].queue) <= QueueSize

\* Reading register o of port d leaves queue and descriptor q and gives r: the data
\* register takes a byte off the input, no other does; the line status tells
\* whether one waits.
ReadsAs(d, o, q, r) ==
    /\ q \in QueueType /\ Len(q.queue) <= QueueSize /\ r \in Bytes
    /\ o # 0 => q.queue \o q.fd = Input(d)
    /\ o = 0 /\ Input(d) # << >> => << r >> \o (q.queue \o q.fd) = Input(d)
    /\ o = 0 /\ Input(d) = << >> => q.queue \o q.fd = << >>
    /\ o = 5 /\ Odd(r) => q.queue # << >>

LEMMA RegisterRead ==
    ASSUME Serial, NEW d \in Devices, NEW o \in 0 .. 7
    PROVE  ReadsAs(d, o, AfterRead(Refill(port[d], o), o), Register8(Refill(port[d], o), o))
<1>0. PICK p, q, r : p = Refill(port[d], o) /\ q = AfterRead(p, o) /\ r = Register8(p, o)
  OBVIOUS
<1>00. SUFFICES ReadsAs(d, o, q, r)
  BY <1>0
<1> USE DEF ReadsAs
<1>1. port[d] \in QueueType /\ Len(port[d].queue) <= QueueSize
  BY DEF Serial, PortType
<1>2. /\ p \in QueueType /\ p.queue \o p.fd = Input(d)
      /\ Input(d) # << >> => p.queue # << >>
      /\ Len(p.queue) <= QueueSize
  BY <1>0, <1>1, RefillKeeps DEF Input
<1>3. p = [queue |-> p.queue, fd |-> p.fd] /\ p.queue \in Seq(Bytes) /\ p.fd \in Seq(Bytes)
  BY <1>2 DEF QueueType
<1>4. QueueSize \in Nat
  BY EmuAssumption
<1>5. \A x : x \in {0, 32, 33} => x \in Bytes
  BY BytesAre
<1>6. CASE o = 0 /\ p.queue # << >>
  <2>1. q = [queue |-> Tail(p.queue), fd |-> p.fd]
    BY <1>0, <1>3, <1>6 DEF AfterRead, RBR
  <2>2. r = Head(p.queue)
    BY <1>0, <1>6 DEF Register8, RBR, LSR
  <2>3. PICK h, t : h = Head(p.queue) /\ t = Tail(p.queue)
    OBVIOUS
  <2>4. h \in Bytes /\ t \in Seq(Bytes) /\ Len(t) <= Len(p.queue)
        /\ << h >> \o (t \o p.fd) = p.queue \o p.fd
    BY <1>3, <1>6, <2>3, TakeFirst
  <2>5. Input(d) # << >>
    <3>1. p.queue \o p.fd # << >>
      BY <1>3, <1>6
    <3> QED
      BY <1>2, <3>1
  <2>6. q = [queue |-> t, fd |-> p.fd] /\ q.queue = t /\ q.fd = p.fd /\ r = h
    BY <2>1, <2>2, <2>3
  <2>7. Len(t) \in Nat /\ Len(p.queue) \in Nat
    BY <1>3, <2>4, LenProperties
  <2>8. q \in QueueType
    BY <1>3, <2>4, <2>6 DEF QueueType
  <2>9. Len(q.queue) <= QueueSize
    BY <1>2, <1>4, <2>4, <2>6, <2>7
  <2>10. << r >> \o (q.queue \o q.fd) = Input(d)
    BY <1>2, <2>4, <2>6
  <2>11. r \in Bytes
    BY <2>4, <2>6
  <2>12. o = 0 /\ o # 5
    BY <1>6
  <2> QED
    BY <2>5, <2>8, <2>9, <2>10, <2>11, <2>12
<1>7. CASE o = 0 /\ p.queue = << >>
  <2>1. q = p /\ r = 0
    BY <1>0, <1>7 DEF AfterRead, Register8, RBR, LSR
  <2>2. Input(d) = << >> /\ r \in Bytes
    BY <1>2, <1>5, <1>7, <2>1
  <2> QED
    BY <1>2, <1>7, <2>1, <2>2
<1>8. CASE o # 0
  <2>1. q = p
    BY <1>0, <1>8 DEF AfterRead, RBR
  <2>2. r = IF o = 5 THEN IF p.queue # << >> THEN 33 ELSE 32 ELSE 0
    <3>1. CASE o = 5
      BY <1>0, <1>8, <3>1 DEF Register8, RBR, LSR, THR_READY, DATA_AVL
    <3>2. CASE o # 5
      BY <1>0, <1>8, <3>2 DEF Register8, RBR, LSR
    <3> QED
      BY <3>1, <3>2
  <2>3. ~Odd(32)
    BY DEF Odd
  <2> QED
    BY <1>2, <1>5, <1>8, <2>1, <2>2, <2>3
<1> QED
  BY <1>6, <1>7, <1>8

Listed == devs \in DevsType /\ devs.head = "com2" /\ devs.next["com2"] = "com1"

\* dev_read: what it leaves in the ports and what the monitor then holds.
LEMMA DevReadEffect ==
    ASSUME Serial, Listed, mon \in MonType, NEW a \in Words, ~Endless(a), DevRead(a)
    PROVE  /\ mon' \in MonType /\ mon'.at = "set" /\ mon'.ioaddr = a
           /\ mon'.iodata = IF Odd(a) THEN (mon'.iodata \div 256) * 256
                                      ELSE mon'.iodata % 256
           /\ Serial'
           /\ \A d \in Devices :
                 /\ a # Base(d) => Input(d)' = Input(d)
                 /\ a = Base(d) /\ Input(d) # << >> =>
                       << mon'.iodata >> \o Input(d)' = Input(d)
                 /\ a = Base(d) /\ Input(d) = << >> => Input(d)' = << >>
                 /\ a = Base(d) + LSR /\ Odd(mon'.iodata \div 256) =>
                       port'[d].queue # << >>
<1>1. /\ FindDev(a) \in Devices \cup {Null}
      /\ \A d \in Devices : FindDev(a) = d <=> (Base(d) <= a /\ a < Base(d) + 8)
  BY FindsThem DEF Listed
<1>2. a \in Int /\ \A d \in Devices : Base(d) \in Int
  BY WordsAre, TwoDevices
<1>3. mon = [at |-> mon.at, ioaddr |-> mon.ioaddr, iodata |-> mon.iodata]
  BY DEF MonType
<1>4. CASE FindDev(a) = Null
  <2>1. mon' = [mon EXCEPT !.at = "set", !.ioaddr = a, !.iodata = 0] /\ port' = port
    BY <1>4 DEF DevRead
  <2>2. mon' = [at |-> "set", ioaddr |-> a, iodata |-> 0]
    BY <1>3, <2>1
  <2>3. 0 \in Words /\ 0 \div 256 = 0 /\ 0 % 256 = 0
    BY WordsAre, SMT
  <2>4. \A d \in Devices : ~(Base(d) <= a /\ a < Base(d) + 8)
    BY <1>1, <1>4, TwoDevices
  <2>5. \A d \in Devices : a # Base(d) /\ a # Base(d) + 5
    BY <1>2, <2>4
  <2>6. mon' \in MonType /\ mon'.at = "set" /\ mon'.ioaddr = a /\ mon'.iodata = 0
    BY <2>2, <2>3 DEF MonType, Places
  <2>7. Serial' /\ \A d \in Devices : Input(d)' = Input(d)
    BY <2>1 DEF Serial, Input
  <2> QED
    BY <2>3, <2>5, <2>6, <2>7 DEF LSR
<1>5. CASE FindDev(a) # Null
  <2>1. PICK e \in Devices : e = FindDev(a)
    BY <1>1, <1>5
  <2>2. PICK o : o = a - Base(e)
    OBVIOUS
  <2>3. o \in 0 .. 7 /\ a = Base(e) + o
    BY <1>1, <1>2, <2>1, <2>2
  <2>4. PICK p, q, r : p = Refill(port[e], o) /\ q = AfterRead(p, o) /\ r = Register8(p, o)
    OBVIOUS
  <2>5. /\ q \in QueueType /\ Len(q.queue) <= QueueSize /\ r \in Bytes
        /\ o # 0 => q.queue \o q.fd = Input(e)
        /\ o = 0 /\ Input(e) # << >> => << r >> \o (q.queue \o q.fd) = Input(e)
        /\ o = 0 /\ Input(e) = << >> => q.queue \o q.fd = << >>
        /\ o = 5 /\ Odd(r) => q.queue # << >>
    <3>1. ReadsAs(e, o, q, r)
      BY <2>1, <2>3, <2>4, RegisterRead
    <3> QED
      BY <3>1 DEF ReadsAs
  <2>6. PICK w : w = IF Odd(a) THEN (r * 256) % 65536 ELSE r
    OBVIOUS
  <2>7. /\ port' = [port EXCEPT ![e] = q]
        /\ mon' = [mon EXCEPT !.at = "set", !.ioaddr = a, !.iodata = w]
    BY <1>5, <2>1, <2>2, <2>4, <2>6 DEF DevRead
  <2>8. /\ w \in Words /\ w = IF Odd(a) THEN (w \div 256) * 256 ELSE w % 256
        /\ Odd(a) => w \div 256 = r
        /\ ~Odd(a) => w = r
    <3>1. /\ r \in Words /\ (r * 256) % 65536 = r * 256 /\ r * 256 \in Words
          /\ (r * 256) \div 256 = r /\ r % 256 = r
      BY <2>5, LanesB
    <3>2. CASE Odd(a)
      <4>1. w = r * 256
        BY <2>6, <3>1, <3>2
      <4> QED
        BY <3>1, <3>2, <4>1
    <3>3. CASE ~Odd(a)
      BY <2>6, <3>1, <3>3
    <3> QED
      BY <3>2, <3>3
  <2>9. mon' = [at |-> "set", ioaddr |-> a, iodata |-> w]
    BY <1>3, <2>7
  <2>10. mon' \in MonType /\ mon'.at = "set" /\ mon'.ioaddr = a /\ mon'.iodata = w
    BY <2>8, <2>9 DEF MonType, Places
  <2>11. /\ port' \in PortType
         /\ port'[e] = q /\ \A d \in Devices \ {e} : port'[d] = port[d]
    BY <2>5, <2>7 DEF Serial, PortType
  <2>12. Serial'
    <3>1. \A d \in Devices : Len(port'[d].queue) <= QueueSize
      <4> SUFFICES ASSUME NEW d \in Devices PROVE Len(port'[d].queue) <= QueueSize
        OBVIOUS
      <4>1. CASE d = e
        BY <2>5, <2>11, <4>1
      <4>2. CASE d # e
        BY <2>11, <4>2 DEF Serial
      <4> QED
        BY <4>1, <4>2
    <3> QED
      BY <2>11, <3>1 DEF Serial
  <2>13. Input(e)' = q.queue \o q.fd
    BY <2>11 DEF Input
  <2>14. \A d \in Devices \ {e} : Input(d)' = Input(d)
    BY <2>11 DEF Input
  <2>15. \A d \in Devices \ {e} : a # Base(d) /\ a # Base(d) + 5
    BY <2>3, TwoDevices
  <2>16. /\ a = Base(e) <=> o = 0
         /\ a = Base(e) + 5 <=> o = 5
    BY <1>2, <2>1, <2>3
  <2>17. o = 0 => ~Odd(a)
    BY <2>3, TwoDevices DEF Odd
  <2>18. o = 5 => Odd(a)
    BY <2>3, TwoDevices DEF Odd
  <2>19. /\ a # Base(e) => Input(e)' = Input(e)
         /\ a = Base(e) /\ Input(e) # << >> => << w >> \o Input(e)' = Input(e)
         /\ a = Base(e) /\ Input(e) = << >> => Input(e)' = << >>
         /\ a = Base(e) + 5 /\ Odd(w \div 256) => port'[e].queue # << >>
    <3>1. a # Base(e) => Input(e)' = Input(e)
      BY <2>5, <2>13, <2>16
    <3>2. a = Base(e) /\ Input(e) # << >> => << w >> \o Input(e)' = Input(e)
      BY <2>5, <2>8, <2>13, <2>16, <2>17
    <3>3. a = Base(e) /\ Input(e) = << >> => Input(e)' = << >>
      BY <2>5, <2>13, <2>16
    <3>4. a = Base(e) + 5 /\ Odd(w \div 256) => port'[e].queue # << >>
      BY <2>5, <2>8, <2>11, <2>16, <2>18
    <3> QED
      BY <3>1, <3>2, <3>3, <3>4
  <2>20. mon'.iodata = IF Odd(a) THEN (mon'.iodata \div 256) * 256 ELSE mon'.iodata % 256
    BY <2>8, <2>10
  <2>21. ASSUME NEW d \in Devices
         PROVE  /\ a # Base(d) => Input(d)' = Input(d)
                /\ a = Base(d) /\ Input(d) # << >> => << w >> \o Input(d)' = Input(d)
                /\ a = Base(d) /\ Input(d) = << >> => Input(d)' = << >>
                /\ a = Base(d) + 5 /\ Odd(w \div 256) => port'[d].queue # << >>
    <3>1. CASE d = e
      BY <2>19, <3>1
    <3>2. CASE d # e
      BY <2>14, <2>15, <3>2
    <3> QED
      BY <3>1, <3>2
  <2> QED
    BY <2>10, <2>12, <2>20, <2>21 DEF LSR
<1> QED
  BY <1>4, <1>5

\* dev_write: the byte the word carries for the data register of a port goes out there.
LEMMA DevWriteEffect ==
    ASSUME hist \in HistType, Listed, NEW a \in Words, NEW w \in Words, ~Endless(a),
           DevWrite(a, w)
    PROVE  /\ hist' \in HistType
           /\ hist'.fed = hist.fed /\ hist'.got = hist.got /\ hist'.wrote = hist.wrote
           /\ a = 1016 => hist'.out["com1"] = Append(hist.out["com1"], w % 256)
           /\ a # 1016 => hist'.out["com1"] = hist.out["com1"]
<1>1. /\ FindDev(a) \in Devices \cup {Null}
      /\ \A d \in Devices : FindDev(a) = d <=> (Base(d) <= a /\ a < Base(d) + 8)
  BY FindsThem DEF Listed
<1>2. a \in Int
  BY WordsAre
<1>3. LaneOut(a, w) \in Bytes /\ (a = 1016 => LaneOut(a, w) = w % 256)
  BY Lanes DEF LaneOut, Odd
<1>4. PICK d, b, o : d = FindDev(a) /\ b = LaneOut(a, w)
                    /\ o = [hist.out EXCEPT ![d] = Append(@, b)]
  OBVIOUS
<1>5. /\ hist = [fed |-> hist.fed, got |-> hist.got, wrote |-> hist.wrote, out |-> hist.out]
      /\ hist.out \in [Devices -> Seq(Bytes)]
  BY DEF HistType
<1>6. CASE d # Null /\ a - Base(d) = 0
  <2>1. hist' = [hist EXCEPT !.out[d] = Append(@, b)]
    BY <1>4, <1>6 DEF DevWrite, THR
  <2>2. hist' = [fed |-> hist.fed, got |-> hist.got, wrote |-> hist.wrote, out |-> o]
    BY <1>4, <1>5, <2>1
  <2>3. d \in Devices /\ Append(hist.out[d], b) \in Seq(Bytes)
    BY <1>1, <1>3, <1>4, <1>5, <1>6, AppendProperties
  <2>4. /\ o \in [Devices -> Seq(Bytes)]
        /\ o[d] = Append(hist.out[d], b) /\ \A e \in Devices \ {d} : o[e] = hist.out[e]
    BY <1>4, <1>5, <2>3
  <2>5. hist' \in HistType
    BY <1>5, <2>2, <2>4 DEF HistType
  <2>6. a = Base(d)
    BY <1>2, <1>6, <2>3, TwoDevices
  <2>7. d = "com1" <=> a = 1016
    BY <2>3, <2>6, TwoDevices
  <2>8. hist'.out = o
    BY <2>2
  <2>9. CASE a = 1016
    BY <1>3, <1>4, <2>2, <2>4, <2>5, <2>7, <2>8, <2>9
  <2>10. CASE a # 1016
    <3>1. "com1" \in Devices \ {d}
      BY <2>7, <2>10, TwoDevices
    <3> QED
      BY <2>2, <2>4, <2>5, <2>8, <2>10, <3>1
  <2> QED
    BY <2>9, <2>10
<1>7. CASE d = Null \/ a - Base(d) # 0
  <2>1. hist' = hist
    BY <1>4, <1>7 DEF DevWrite, THR
  <2>2. a # 1016
    <3>1. SUFFICES ASSUME a = 1016 PROVE FALSE
      OBVIOUS
    <3>2. d = "com1"
      BY <1>1, <1>4, <3>1, TwoDevices
    <3> QED
      BY <1>7, <3>1, <3>2, TwoDevices
  <2> QED
    BY <2>1, <2>2
<1> QED
  BY <1>6, <1>7

-----------------------------------------------------------------------------
(* Every step keeps the types, and what else it does, step by step *)

LEMMA SerialOf == Typed => Serial
BY DEF Typed, Serial

LEMMA ListedOf == EmuType /\ mon.at # "prompt" => Listed
BY DEF EmuType, Typed, DevsInv, Listed

\* The conjuncts of the type that hold in the next state together.
LEMMA TypedNext ==
    ASSUME guest' \in GuestType, sv' \in SvType, mon' \in MonType, devs' \in DevsType,
           Serial', faults' \in FaultsType, faults'.here <= faults'.all,
           session' \in SessionType, session'.here <= session'.all, hist' \in HistType
    PROVE  Typed'
BY DEF Typed, Serial

\* What failing calls leave of the status.
LEMMA StatusStays ==
    ASSUME StatusInv, sv' = sv, guest' = guest, hist'.wrote = hist.wrote
    PROVE  StatusInv'
BY DEF StatusInv, Stalled, Address

LEMMA FailedCall ==
    ASSUME Typed, Fails
    PROVE  /\ faults' \in FaultsType /\ faults'.here <= faults'.all
           /\ faults.here \in Nat /\ faults'.here = faults.here + 1
BY FaultsEffect DEF Typed

LEMMA WorkingCall ==
    ASSUME Typed, Works
    PROVE  /\ faults' \in FaultsType /\ faults'.here <= faults'.all
           /\ faults.here \in Nat /\ faults'.here = faults.here
BY FaultsEffect DEF Typed

LEMMA StopStep ==
    ASSUME EmuType, Stop
    PROVE  /\ EmuType' /\ mon.at = "stop" /\ mon'.at = "start" /\ port' = port
           /\ \/ /\ guest'.at = "off" /\ hist'.got = Nothing /\ hist'.wrote = << >>
                 /\ hist'.fed = hist.fed /\ hist'.out = hist.out
              \/ /\ faults.here \in Nat /\ faults'.here = faults.here + 1
                 /\ sv' = sv /\ guest' = guest /\ hist' = hist
<1> USE DEF EmuType
<1>1. /\ mon.at = "stop" /\ MonAt("start")
      /\ devs' = devs /\ port' = port /\ session' = session
  BY DEF Stop
<1>2. mon' \in MonType /\ mon'.at = "start"
  BY <1>1, MonAtEffect DEF Typed, Places
<1>3. DevsInv' /\ Serial'
  BY <1>1, <1>2, SerialOf DEF DevsInv, Serial
<1>4. /\ Works \/ Fails
      /\ SvStop \/ (Fails /\ sv' = sv /\ guest' = guest /\ hist' = hist)
  BY DEF Stop, Command
<1>5. faults' \in FaultsType /\ faults'.here <= faults'.all
  BY <1>4, FailedCall, WorkingCall
<1>6. CASE SvStop
  <2>1. /\ sv' \in SvType /\ sv'.status = "STOP"
        /\ guest' \in GuestType /\ guest'.at = "off"
        /\ hist' \in HistType /\ hist'.got = Nothing /\ hist'.wrote = << >>
        /\ hist'.fed = hist.fed /\ hist'.out = hist.out
    BY <1>6, SvStopEffect
  <2>2. StatusInv'
    BY <2>1 DEF StatusInv, Stalled
  <2>3. Typed'
    BY <1>1, <1>2, <1>3, <1>5, <2>1, TypedNext DEF Typed
  <2> QED
    BY <1>1, <1>2, <1>3, <2>1, <2>2, <2>3
<1>7. CASE Fails /\ sv' = sv /\ guest' = guest /\ hist' = hist
  <2>1. StatusInv'
    BY <1>7, StatusStays
  <2>2. Typed'
    BY <1>1, <1>2, <1>3, <1>5, <1>7, TypedNext DEF Typed
  <2> QED
    BY <1>1, <1>2, <1>3, <1>7, <2>1, <2>2, FailedCall
<1> QED
  BY <1>4, <1>6, <1>7

LEMMA StartStep ==
    ASSUME EmuType, Start
    PROVE  /\ EmuType' /\ mon.at = "start" /\ mon'.at = "status" /\ port' = port
           /\ hist' = hist
           /\ faults.here \in Nat /\ faults'.here \in Nat /\ faults.here <= faults'.here
           /\ \/ sv' = sv /\ guest' = guest /\ guest.at # "off"
              \/ guest.at = "off" /\ guest' = GuestAt("idle") /\ sv'.status = "RUN"
              \/ faults'.here = faults.here + 1 /\ sv' = sv /\ guest' = guest
<1> USE DEF EmuType
<1>1. /\ mon.at = "start" /\ MonAt("status")
      /\ devs' = devs /\ port' = port /\ session' = session
  BY DEF Start
<1>2. mon' \in MonType /\ mon'.at = "status"
  BY <1>1, MonAtEffect DEF Typed, Places
<1>3. DevsInv' /\ Serial'
  BY <1>1, <1>2, SerialOf DEF DevsInv, Serial
<1>4. /\ Works \/ Fails
      /\ SvStart \/ (Fails /\ sv' = sv /\ guest' = guest /\ hist' = hist)
  BY DEF Start, Command
<1>5. /\ faults' \in FaultsType /\ faults'.here <= faults'.all
      /\ faults.here \in Nat /\ faults'.here \in Nat /\ faults.here <= faults'.here
  BY <1>4, FailedCall, WorkingCall
<1>6. CASE SvStart
  <2>1. /\ sv' \in SvType /\ guest' \in GuestType /\ hist' = hist
        /\ \/ sv' = sv /\ guest' = guest /\ guest.at # "off"
           \/ guest.at = "off" /\ guest' = GuestAt("idle") /\ sv'.status = "RUN"
    BY <1>6, SvStartEffect
  <2>2. StatusInv'
    <3>1. CASE sv' = sv /\ guest' = guest
      BY <2>1, <3>1, StatusStays
    <3>2. CASE guest' = GuestAt("idle") /\ sv'.status = "RUN"
      BY <3>2, GuestAtType DEF StatusInv, Stalled
    <3> QED
      BY <2>1, <3>1, <3>2
  <2>3. Typed'
    BY <1>1, <1>2, <1>3, <1>5, <2>1, TypedNext DEF Typed
  <2> QED
    BY <1>1, <1>2, <1>3, <1>5, <2>1, <2>2, <2>3
<1>7. CASE Fails /\ sv' = sv /\ guest' = guest /\ hist' = hist
  <2>1. StatusInv'
    BY <1>7, StatusStays
  <2>2. Typed'
    BY <1>1, <1>2, <1>3, <1>5, <1>7, TypedNext DEF Typed
  <2> QED
    BY <1>1, <1>2, <1>3, <1>5, <1>7, <2>1, <2>2, FailedCall
<1> QED
  BY <1>4, <1>6, <1>7

\* A call that reads gives the value, or something else and is one of those that fail.
LEMMA ReadingIs ==
    ASSUME Typed, NEW v, NEW F, NEW r \in Reading(v, F), Outcome(r)
    PROVE  /\ faults' \in FaultsType /\ faults'.here <= faults'.all
           /\ faults.here \in Nat
           /\ \/ r[1] = v /\ faults'.here = faults.here
              \/ r[1] \in F /\ faults'.here = faults.here + 1
<1>1. r = << v, TRUE >> \/ r \in F \X {FALSE}
  BY DEF Reading
<1>2. CASE r = << v, TRUE >>
  <2>1. r[1] = v /\ Works
    BY <1>2 DEF Outcome
  <2> QED
    BY <2>1, WorkingCall
<1>3. CASE r \in F \X {FALSE}
  <2>1. r[1] \in F /\ r[2] \in {FALSE}
    BY <1>3
  <2>2. Fails
    BY <2>1 DEF Outcome
  <2> QED
    BY <2>1, <2>2, FailedCall
<1> QED
  BY <1>1, <1>2, <1>3

\* The user quits, or the status says so: the histories begin again.
LEMMA SessionOverEffect ==
    ASSUME Typed, SessionOver
    PROVE  /\ Serial' /\ hist' = NoHistory /\ hist' \in HistType
           /\ \A d \in Devices : port'[d].fd = << >>
<1>1. \A d \in Devices : /\ port[d] = [queue |-> port[d].queue, fd |-> port[d].fd]
                        /\ port[d].queue \in Seq(Bytes) /\ Len(port[d].queue) <= QueueSize
  BY DEF Typed, PortType, QueueType
<1>2. port' = [d \in Devices |-> [queue |-> port[d].queue, fd |-> << >>]]
  <2>1. \A d \in Devices : [port[d] EXCEPT !.fd = << >>] = [queue |-> port[d].queue, fd |-> << >>]
    <3> SUFFICES ASSUME NEW d \in Devices
                 PROVE  [port[d] EXCEPT !.fd = << >>] = [queue |-> port[d].queue, fd |-> << >>]
      OBVIOUS
    <3>1. PICK p, q, f : p = port[d] /\ q = p.queue /\ f = p.fd
      OBVIOUS
    <3>2. p = [queue |-> q, fd |-> f]
      BY <1>1, <3>1
    <3>3. [p EXCEPT !.fd = << >>] = [queue |-> q, fd |-> << >>]
      BY <3>2
    <3> QED
      BY <3>1, <3>3
  <2>2. port' = [d \in Devices |-> [port[d] EXCEPT !.fd = << >>]]
    BY DEF SessionOver
  <2> QED
    BY <2>1, <2>2
<1>3. << >> \in Seq(Bytes)
  BY EmptySeq
<1>4. port' \in PortType
  BY <1>1, <1>2, <1>3 DEF PortType, QueueType
<1>5. \A d \in Devices : port'[d].queue = port[d].queue /\ port'[d].fd = << >>
  BY <1>2
<1> QED
  BY <1>1, <1>4, <1>5, NothingType DEF SessionOver, Serial

LEMMA GetStatusStep ==
    ASSUME EmuType, GetStatus
    PROVE  /\ EmuType' /\ mon.at = "status" /\ sv' = sv /\ guest' = guest
           /\ faults.here \in Nat
           /\ mon'.at \in {"prompt", "status", "rdaddr", "wraddr"}
           /\ mon'.at # "prompt" => port' = port /\ hist' = hist
           /\ mon'.at = "prompt" => \A d \in Devices : port'[d].fd = << >>
           /\ \/ /\ faults'.here = faults.here
                 /\ mon'.at = "rdaddr" => sv.status = "IORD"
                 /\ mon'.at = "wraddr" => sv.status = "IOWR"
              \/ faults'.here = faults.here + 1
<1> USE DEF EmuType
<1>1. PICK st \in Reading(sv.status, FailedStatus) :
          /\ Outcome(st) /\ MonAt(CaseOf(st[1]))
          /\ IF CaseOf(st[1]) = "prompt" THEN SessionOver ELSE port' = port /\ hist' = hist
  BY DEF GetStatus
<1>2. /\ mon.at = "status" /\ guest' = guest /\ sv' = sv /\ devs' = devs /\ session' = session
  BY DEF GetStatus
<1>3. PICK s : s = st[1]
  OBVIOUS
<1>4. CaseOf(s) \in {"prompt", "status", "rdaddr", "wraddr"}
      /\ (CaseOf(s) = "rdaddr" => s = "IORD") /\ (CaseOf(s) = "wraddr" => s = "IOWR")
  BY DEF CaseOf
<1>5. mon' \in MonType /\ mon'.at = CaseOf(s)
  BY <1>1, <1>3, <1>4, MonAtEffect DEF Typed, Places
<1>6. /\ faults' \in FaultsType /\ faults'.here <= faults'.all /\ faults.here \in Nat
      /\ \/ s = sv.status /\ faults'.here = faults.here
         \/ s \in FailedStatus /\ faults'.here = faults.here + 1
  BY <1>1, <1>3, ReadingIs
<1>7. Serial' /\ hist' \in HistType /\ (hist'.wrote = hist.wrote \/ hist'.wrote = << >>)
      /\ (mon'.at # "prompt" => port' = port /\ hist' = hist)
      /\ (mon'.at = "prompt" => \A d \in Devices : port'[d].fd = << >>)
  <2>1. CASE CaseOf(s) = "prompt"
    BY <1>1, <1>3, <1>5, <2>1, SessionOverEffect, NothingType
  <2>2. CASE CaseOf(s) # "prompt"
    BY <1>1, <1>3, <1>5, <2>2, SerialOf DEF Typed, Serial
  <2> QED
    BY <2>1, <2>2
<1>8. StatusInv'
  <2>1. MaxWrites > 0 => Len(<< >>) < MaxWrites
    OBVIOUS
  <2> QED
    BY <1>2, <1>7, <2>1 DEF StatusInv, Stalled, Address
<1>9. Typed'
  BY <1>2, <1>5, <1>6, <1>7, TypedNext DEF Typed
<1>10. DevsInv'
  BY <1>2, <1>5 DEF DevsInv
<1>11. mon'.at = "rdaddr" => s = "IORD"
  BY <1>4, <1>5
<1>12. mon'.at = "wraddr" => s = "IOWR"
  BY <1>4, <1>5
<1> QED
  BY <1>2, <1>4, <1>5, <1>6, <1>7, <1>8, <1>9, <1>10, <1>11, <1>12

\* A port's address as a failing call may give it.
LEMMA FailedAddrType == \A a \in FailedAddr : a \in Words
<1>1. \A x : x \in {65474, 1016, 760, 1021} => x \in Words
  BY WordsAre, SMT
<1> QED
  BY <1>1, TwoDevices DEF FailedAddr, RBR, LSR

LEMMA LostEffect ==
    ASSUME mon \in MonType, NEW a, Lost(a)
    PROVE  mon' \in MonType /\ mon'.at = "lost" /\ port' = port /\ hist' = hist
BY MonAtEffect DEF Lost, Places

LEMMA RdGetAddrStep ==
    ASSUME EmuType, RdGetAddr
    PROVE  /\ EmuType' /\ mon.at = "rdaddr" /\ sv' = sv /\ guest' = guest /\ hist' = hist
           /\ faults.here \in Nat
           /\ \/ mon'.ioaddr = sv.ioaddr /\ faults'.here = faults.here
              \/ faults'.here = faults.here + 1
              \/ mon'.at = "lost" /\ faults'.here = faults.here
           /\ \/ mon'.at = "lost" /\ port' = port
              \/ /\ mon'.at = "set"
                 /\ mon'.iodata = IF Odd(mon'.ioaddr) THEN (mon'.iodata \div 256) * 256
                                                     ELSE mon'.iodata % 256
                 /\ \A d \in Devices :
                       /\ mon'.ioaddr # Base(d) => Input(d)' = Input(d)
                       /\ mon'.ioaddr = Base(d) /\ Input(d) # << >> =>
                             << mon'.iodata >> \o Input(d)' = Input(d)
                       /\ mon'.ioaddr = Base(d) /\ Input(d) = << >> => Input(d)' = << >>
                       /\ mon'.ioaddr = Base(d) + LSR /\ Odd(mon'.iodata \div 256) =>
                             port'[d].queue # << >>
<1> USE DEF EmuType
<1>1. PICK r \in Reading(sv.ioaddr, FailedAddr) :
          /\ Outcome(r)
          /\ \/ Lost(r[1])
             \/ ~Endless(r[1]) /\ DevRead(r[1]) /\ hist' = hist
  BY DEF RdGetAddr
<1>2. /\ mon.at = "rdaddr" /\ guest' = guest /\ sv' = sv /\ devs' = devs /\ session' = session
  BY DEF RdGetAddr
<1>3. PICK a : a = r[1]
  OBVIOUS
<1>4. /\ faults' \in FaultsType /\ faults'.here <= faults'.all /\ faults.here \in Nat
      /\ \/ a = sv.ioaddr /\ faults'.here = faults.here
         \/ a \in FailedAddr /\ faults'.here = faults.here + 1
  BY <1>1, <1>3, ReadingIs
<1>5. a \in Words
  BY <1>4, FailedAddrType DEF Typed, SvType
<1>6. Listed /\ Serial /\ mon \in MonType
  BY <1>2, ListedOf, SerialOf DEF Typed
<1>7. CASE Lost(a)
  <2>1. mon' \in MonType /\ mon'.at = "lost" /\ port' = port /\ hist' = hist
    BY <1>6, <1>7, LostEffect
  <2>2. Serial'
    BY <1>6, <2>1 DEF Serial
  <2>3. Typed'
    BY <1>2, <1>4, <2>1, <2>2, TypedNext DEF Typed
  <2>4. StatusInv' /\ DevsInv'
    BY <1>2, <2>1, StatusStays DEF DevsInv
  <2> QED
    BY <1>2, <1>4, <2>1, <2>3, <2>4
<1>8. CASE ~Endless(a) /\ DevRead(a) /\ hist' = hist
  <2>1. /\ mon' \in MonType /\ mon'.at = "set" /\ mon'.ioaddr = a
        /\ mon'.iodata = IF Odd(a) THEN (mon'.iodata \div 256) * 256 ELSE mon'.iodata % 256
        /\ Serial'
        /\ \A d \in Devices :
              /\ a # Base(d) => Input(d)' = Input(d)
              /\ a = Base(d) /\ Input(d) # << >> => << mon'.iodata >> \o Input(d)' = Input(d)
              /\ a = Base(d) /\ Input(d) = << >> => Input(d)' = << >>
              /\ a = Base(d) + LSR /\ Odd(mon'.iodata \div 256) => port'[d].queue # << >>
    BY <1>5, <1>6, <1>8, DevReadEffect
  <2>2. Typed'
    BY <1>2, <1>4, <1>8, <2>1, TypedNext DEF Typed
  <2>3. StatusInv' /\ DevsInv'
    BY <1>2, <1>8, StatusStays DEF DevsInv
  <2> QED
    BY <1>2, <1>4, <1>8, <2>1, <2>2, <2>3
<1> QED
  BY <1>1, <1>3, <1>7, <1>8

LEMMA RdSetDataStep ==
    ASSUME EmuType, RdSetData
    PROVE  /\ EmuType' /\ mon.at = "set" /\ mon'.at = "cont"
           /\ mon'.ioaddr = mon.ioaddr /\ mon'.iodata = mon.iodata
           /\ guest' = guest /\ hist' = hist /\ port' = port
           /\ sv'.status = sv.status /\ sv'.ioaddr = sv.ioaddr
           /\ faults.here \in Nat
           /\ \/ sv'.iodata = mon.iodata /\ faults'.here = faults.here
              \/ faults'.here = faults.here + 1
<1> USE DEF EmuType
<1>1. /\ mon.at = "set" /\ MonAt("cont")
      /\ devs' = devs /\ port' = port /\ session' = session
  BY DEF RdSetData
<1>2. /\ mon' \in MonType /\ mon'.at = "cont"
      /\ mon'.ioaddr = mon.ioaddr /\ mon'.iodata = mon.iodata
  BY <1>1, MonAtEffect DEF Typed, Places
<1>3. DevsInv' /\ Serial'
  BY <1>1, <1>2, SerialOf DEF DevsInv, Serial
<1>4. PICK E \in BOOLEAN : E = (sv' = [sv EXCEPT !.iodata = mon.iodata] /\ guest' = guest /\ hist' = hist)
  OBVIOUS
<1>5. \/ Works /\ E
      \/ Fails /\ (E \/ (sv' = sv /\ guest' = guest /\ hist' = hist))
  BY <1>4 DEF RdSetData, Command
<1>6. mon.iodata \in Words
  BY DEF Typed, MonType
<1>7. E => /\ sv' = [status |-> sv.status, ioaddr |-> sv.ioaddr, iodata |-> mon.iodata]
           /\ guest' = guest /\ hist' = hist
  BY <1>4 DEF Typed, SvType
<1>8. /\ sv' \in SvType /\ sv'.status = sv.status /\ sv'.ioaddr = sv.ioaddr
      /\ guest' = guest /\ hist' = hist
      /\ E => sv'.iodata = mon.iodata
  BY <1>5, <1>6, <1>7 DEF Typed, SvType
<1>9. StatusInv'
  BY <1>8 DEF StatusInv, Stalled, Address
<1>10. /\ faults' \in FaultsType /\ faults'.here <= faults'.all /\ faults.here \in Nat
       /\ \/ E /\ faults'.here = faults.here
          \/ faults'.here = faults.here + 1
  BY <1>5, FailedCall, WorkingCall
<1>11. Typed'
  BY <1>1, <1>2, <1>3, <1>8, <1>10, TypedNext DEF Typed
<1> QED
  BY <1>1, <1>2, <1>3, <1>8, <1>9, <1>10, <1>11

LEMMA WrGetAddrStep ==
    ASSUME EmuType, WrGetAddr
    PROVE  /\ EmuType' /\ mon.at = "wraddr" /\ mon'.at = "wrdata"
           /\ guest' = guest /\ hist' = hist /\ port' = port /\ sv' = sv
           /\ faults.here \in Nat
           /\ \/ mon'.ioaddr = sv.ioaddr /\ faults'.here = faults.here
              \/ faults'.here = faults.here + 1
<1> USE DEF EmuType
<1>1. PICK r \in Reading(sv.ioaddr, FailedAddr) :
          Outcome(r) /\ mon' = [mon EXCEPT !.at = "wrdata", !.ioaddr = r[1]]
  BY DEF WrGetAddr
<1>2. /\ mon.at = "wraddr" /\ guest' = guest /\ sv' = sv /\ devs' = devs /\ session' = session
      /\ hist' = hist /\ port' = port
  BY DEF WrGetAddr
<1>3. PICK a : a = r[1]
  OBVIOUS
<1>4. /\ faults' \in FaultsType /\ faults'.here <= faults'.all /\ faults.here \in Nat
      /\ \/ a = sv.ioaddr /\ faults'.here = faults.here
         \/ a \in FailedAddr /\ faults'.here = faults.here + 1
  BY <1>1, <1>3, ReadingIs
<1>5. a \in Words
  BY <1>4, FailedAddrType DEF Typed, SvType
<1>6. mon' = [at |-> "wrdata", ioaddr |-> a, iodata |-> mon.iodata] /\ mon.iodata \in Words
  BY <1>1, <1>3 DEF Typed, MonType
<1>7. mon' \in MonType /\ mon'.at = "wrdata" /\ mon'.ioaddr = a
  BY <1>5, <1>6 DEF MonType, Places
<1>8. Serial'
  BY <1>2, SerialOf DEF Serial
<1>9. Typed'
  BY <1>2, <1>4, <1>7, <1>8, TypedNext DEF Typed
<1>10. StatusInv' /\ DevsInv'
  BY <1>2, StatusStays DEF DevsInv
<1> QED
  BY <1>2, <1>4, <1>7, <1>9, <1>10

LEMMA WrGetDataStep ==
    ASSUME EmuType, WrGetData
    PROVE  /\ EmuType' /\ mon.at = "wrdata" /\ guest' = guest /\ sv' = sv /\ port' = port
           /\ hist'.fed = hist.fed /\ hist'.got = hist.got /\ hist'.wrote = hist.wrote
           /\ faults.here \in Nat
           /\ faults'.here = faults.here \/ faults'.here = faults.here + 1
           /\ \/ mon'.at = "lost" /\ hist' = hist
              \/ /\ mon'.at = "cont" /\ mon'.ioaddr = mon.ioaddr
                 /\ mon.ioaddr # 1016 => hist'.out["com1"] = hist.out["com1"]
                 /\ mon.ioaddr = 1016 => \E w \in Words :
                       /\ hist'.out["com1"] = Append(hist.out["com1"], w % 256)
                       /\ faults'.here = faults.here => w = sv.iodata
<1> USE DEF EmuType
<1>1. PICK r \in Reading(sv.iodata, FailedData) :
          /\ Outcome(r)
          /\ \/ Lost(mon.ioaddr)
             \/ /\ ~Endless(mon.ioaddr) /\ DevWrite(mon.ioaddr, r[1])
                /\ MonAt("cont") /\ port' = port
  BY DEF WrGetData
<1>2. /\ mon.at = "wrdata" /\ guest' = guest /\ sv' = sv /\ devs' = devs /\ session' = session
  BY DEF WrGetData
<1>3. PICK w : w = r[1]
  OBVIOUS
<1>4. /\ faults' \in FaultsType /\ faults'.here <= faults'.all /\ faults.here \in Nat
      /\ \/ w = sv.iodata /\ faults'.here = faults.here
         \/ w \in FailedData /\ faults'.here = faults.here + 1
  BY <1>1, <1>3, ReadingIs
<1>5. w \in Words
  <2>1. 65474 \in Words
    BY WordsAre, SMT
  <2> QED
    BY <1>4, <2>1 DEF Typed, SvType, FailedData
<1>6. Listed /\ Serial /\ mon \in MonType /\ mon.ioaddr \in Words /\ hist \in HistType
  BY <1>2, ListedOf, SerialOf DEF Typed, MonType
<1>7. CASE Lost(mon.ioaddr)
  <2>1. mon' \in MonType /\ mon'.at = "lost" /\ port' = port /\ hist' = hist
    BY <1>6, <1>7, LostEffect
  <2>2. Serial'
    BY <1>6, <2>1 DEF Serial
  <2>3. Typed'
    BY <1>2, <1>4, <1>6, <2>1, <2>2, TypedNext DEF Typed
  <2>4. StatusInv' /\ DevsInv'
    BY <1>2, <2>1, StatusStays DEF DevsInv
  <2> QED
    BY <1>2, <1>4, <2>1, <2>3, <2>4
<1>8. CASE ~Endless(mon.ioaddr) /\ DevWrite(mon.ioaddr, w) /\ MonAt("cont") /\ port' = port
  <2>1. mon' \in MonType /\ mon'.at = "cont" /\ mon'.ioaddr = mon.ioaddr
    BY <1>6, <1>8, MonAtEffect DEF Places
  <2>2. /\ hist' \in HistType
        /\ hist'.fed = hist.fed /\ hist'.got = hist.got /\ hist'.wrote = hist.wrote
        /\ mon.ioaddr = 1016 => hist'.out["com1"] = Append(hist.out["com1"], w % 256)
        /\ mon.ioaddr # 1016 => hist'.out["com1"] = hist.out["com1"]
    BY <1>5, <1>6, <1>8, DevWriteEffect
  <2>3. Serial'
    BY <1>6, <1>8 DEF Serial
  <2>4. Typed'
    BY <1>2, <1>4, <2>1, <2>2, <2>3, TypedNext DEF Typed
  <2>5. StatusInv' /\ DevsInv'
    BY <1>2, <2>2, StatusStays DEF DevsInv
  <2>6. faults'.here = faults.here => w = sv.iodata
    BY <1>4
  <2>7. mon.ioaddr = 1016 => \E x \in Words :
                       /\ hist'.out["com1"] = Append(hist.out["com1"], x % 256)
                       /\ faults'.here = faults.here => x = sv.iodata
    BY <1>5, <2>2, <2>6
  <2> QED
    BY <1>2, <1>4, <1>8, <2>1, <2>2, <2>4, <2>5, <2>7
<1> QED
  BY <1>1, <1>3, <1>7, <1>8

LEMMA ContStep ==
    ASSUME EmuType, Cont
    PROVE  /\ EmuType' /\ mon.at = "cont" /\ mon'.at = "status" /\ port' = port
           /\ hist'.fed = hist.fed /\ hist'.wrote = hist.wrote /\ hist'.out = hist.out
           /\ faults.here \in Nat
           /\ faults'.here = faults.here \/ faults'.here = faults.here + 1
           /\ \/ ~Stalled /\ sv' = sv /\ guest' = guest /\ hist' = hist
              \/ faults'.here = faults.here + 1 /\ sv' = sv /\ guest' = guest /\ hist' = hist
              \/ /\ Stalled /\ GuestByte \in Bytes
                 /\ sv'.status = "RUN" /\ guest'.at # "off"
                 /\ hist'.got = IF guest.at = "recv"
                                THEN [hist.got EXCEPT ![guest.dev] = Append(@, GuestByte)]
                                ELSE hist.got
                 /\ guest'.at = "recv" =>
                       /\ guest.at = "canrecv" /\ guest'.dev = guest.dev
                       /\ Odd(GuestByte) /\ sv.status = "IORD"
<1> USE DEF EmuType
<1>1. /\ mon.at = "cont" /\ mon' = MonStart("status")
      /\ devs' = devs /\ port' = port /\ session' = session
  BY DEF Cont
<1>2. /\ mon' \in MonType /\ mon'.at = "status"
  BY <1>1, MonStartEffect DEF Places
<1>3. DevsInv' /\ Serial'
  BY <1>1, <1>2, SerialOf DEF DevsInv, Serial
<1>4. /\ Works \/ Fails
      /\ SvCont \/ (Fails /\ sv' = sv /\ guest' = guest /\ hist' = hist)
  BY DEF Cont, Command
<1>5. /\ faults' \in FaultsType /\ faults'.here <= faults'.all /\ faults.here \in Nat
      /\ faults'.here = faults.here \/ faults'.here = faults.here + 1
  BY <1>4, FailedCall, WorkingCall
<1>6. CASE sv' = sv /\ guest' = guest /\ hist' = hist /\ (~Stalled \/ Fails)
  <2>1. StatusInv'
    BY <1>6, StatusStays
  <2>2. Typed'
    BY <1>1, <1>2, <1>3, <1>5, <1>6, TypedNext DEF Typed
  <2>3. ~Stalled \/ faults'.here = faults.here + 1
    BY <1>6, FailedCall
  <2> QED
    BY <1>1, <1>2, <1>3, <1>5, <1>6, <2>1, <2>2, <2>3
<1>7. CASE SvCont /\ Stalled
  <2>1. /\ Stalled /\ GuestByte \in Bytes
        /\ sv' \in SvType /\ sv'.status = "RUN"
        /\ guest' \in GuestType /\ guest'.at # "off"
        /\ hist' \in HistType
        /\ hist'.fed = hist.fed /\ hist'.wrote = hist.wrote /\ hist'.out = hist.out
        /\ hist'.got = IF guest.at = "recv"
                       THEN [hist.got EXCEPT ![guest.dev] = Append(@, GuestByte)]
                       ELSE hist.got
        /\ guest.at = "canrecv" =>
              guest'.dev = guest.dev /\ guest'.at = IF Odd(GuestByte) THEN "recv" ELSE "canrecv"
        /\ guest.at \in {"recv", "send"} => guest' = GuestAt("idle")
        /\ guest.at = "cansend" => guest'.dev = guest.dev /\ guest'.at \in {"cansend", "send"}
        /\ guest.at \in {"canrecv", "recv", "cansend", "send"}
    BY <1>7, SvContEffect
  <2>2. GuestAt("idle").at = "idle"
    BY GuestAtType
  <2>3. guest'.at \in {"cansend", "send"} => guest.at = "cansend" /\ guest'.dev = guest.dev
    BY <2>1, <2>2
  <2>4. guest'.at = "recv" => /\ guest.at = "canrecv" /\ guest'.dev = guest.dev /\ Odd(GuestByte)
                              /\ sv.status = "IORD"
    <3>1. guest'.at = "recv" => guest.at = "canrecv" /\ guest'.dev = guest.dev /\ Odd(GuestByte)
      BY <2>1, <2>2
    <3>2. guest.at = "canrecv" => sv.status = "IORD"
      BY <1>7 DEF StatusInv, Stalled
    <3> QED
      BY <3>1, <3>2
  <2>5. StatusInv'
    <3>1. guest.at = "cansend" => sv.status # "IOWR" /\ guest.dev = "com1" /\ MaxWrites > 0
                                  /\ Len(hist.wrote) < MaxWrites
      BY DEF StatusInv
    <3> QED
      BY <2>1, <2>3, <3>1 DEF StatusInv, Stalled
  <2>6. Typed'
    BY <1>1, <1>2, <1>3, <1>5, <2>1, TypedNext DEF Typed
  <2> QED
    BY <1>1, <1>2, <1>3, <1>5, <2>1, <2>4, <2>5, <2>6
<1>8. CASE SvCont /\ ~Stalled
  BY <1>6, <1>8, SvContEffect
<1> QED
  BY <1>4, <1>6, <1>7, <1>8

\* The guest's own steps leave the monitor and its ports alone.
LEMMA GuestTyped ==
    ASSUME EmuType, guest' \in GuestType, sv' \in SvType, hist' \in HistType, StatusInv',
           UNCHANGED << mon, devs, port, faults, session >>
    PROVE  EmuType'
<1>1. Serial'
  BY SerialOf DEF EmuType, Serial
<1>2. DevsInv'
  BY DEF EmuType, DevsInv
<1> QED
  BY <1>1, <1>2, TypedNext DEF EmuType, Typed

\* uart_readb and uart_writeb are called.
LEMMA GuestCallsStep ==
    ASSUME EmuType, GuestReads \/ GuestWrites
    PROVE  /\ EmuType' /\ UNCHANGED << sv, mon, devs, port, faults, session, hist >>
           /\ guest.at = "idle" /\ guest'.at \in {"canrecv", "cansend"} /\ ~Stalled
<1> USE DEF EmuType
<1>1. /\ UNCHANGED << sv, mon, devs, port, faults, session, hist >> /\ guest.at = "idle"
  BY DEF GuestReads, GuestWrites
<1>2. sv.status = "RUN" /\ ~Stalled
  BY <1>1 DEF StatusInv, Stalled, Typed, SvType
<1>3. CASE GuestReads
  <2>1. PICK d \in Devices : guest' = [at |-> "canrecv", dev |-> d]
    BY <1>3 DEF GuestReads
  <2>2. guest' \in GuestType /\ guest'.at = "canrecv"
    BY <2>1 DEF GuestType
  <2>3. StatusInv'
    BY <1>1, <1>2, <2>2 DEF StatusInv, Stalled
  <2> QED
    BY <1>1, <1>2, <2>2, <2>3, GuestTyped DEF Typed
<1>4. CASE GuestWrites
  <2>1. guest' = GuestAt("cansend") /\ Len(hist.wrote) < MaxWrites
    BY <1>4 DEF GuestWrites
  <2>2. guest' \in GuestType /\ guest'.at = "cansend" /\ guest'.dev = "com1"
    BY <2>1, GuestAtType
  <2>3. Len(hist.wrote) \in Nat
    BY LenProperties DEF Typed, HistType
  <2>4. MaxWrites > 0
    <3>1. PICK hi \in Int : hi = 255 /\ MaxWrites \in 0 .. hi
      BY EmuAssumption
    <3>2. MaxWrites \in Int
      BY <3>1
    <3> QED
      BY <2>1, <2>3, <3>2
  <2>5. StatusInv'
    BY <1>1, <1>2, <2>1, <2>2, <2>4 DEF StatusInv, Stalled
  <2> QED
    BY <1>1, <1>2, <2>2, <2>5, GuestTyped DEF Typed
<1> QED
  BY <1>3, <1>4

LEMMA GuestInStep ==
    ASSUME EmuType, GuestIn
    PROVE  /\ EmuType' /\ UNCHANGED << guest, mon, devs, port, faults, session, hist >>
           /\ sv.status = "RUN" /\ sv'.status = "IORD"
           /\ guest.at \in {"canrecv", "recv", "cansend"}
<1> USE DEF EmuType
<1>1. /\ UNCHANGED << guest, mon, devs, port, faults, session, hist >>
      /\ sv.status = "RUN" /\ guest.at \in {"canrecv", "recv", "cansend"}
  BY DEF GuestIn
<1>2. sv' = [status |-> "IORD", ioaddr |-> Address, iodata |-> sv.iodata]
  BY DEF GuestIn, Typed, SvType
<1>3. Address \in Words
  BY AddressType DEF Typed
<1>4. sv' \in SvType /\ sv'.status = "IORD" /\ sv'.ioaddr = Address
  BY <1>2, <1>3 DEF Typed, SvType
<1>5. StatusInv'
  BY <1>1, <1>4 DEF StatusInv, Stalled, Address
<1> QED
  BY <1>1, <1>4, <1>5, GuestTyped DEF Typed

LEMMA GuestOutStep ==
    ASSUME EmuType, GuestOut
    PROVE  /\ EmuType' /\ UNCHANGED << guest, mon, devs, port, faults, session >>
           /\ sv.status = "RUN" /\ sv'.status = "IOWR" /\ guest.at = "send"
           /\ hist'.fed = hist.fed /\ hist'.got = hist.got /\ hist'.out = hist.out
           /\ hist'.wrote = Append(hist.wrote, Len(hist.wrote) + 1)
           /\ sv'.iodata % 256 = Len(hist.wrote) + 1
<1> USE DEF EmuType
<1>1. /\ UNCHANGED << guest, mon, devs, port, faults, session >>
      /\ sv.status = "RUN" /\ guest.at = "send"
  BY DEF GuestOut
<1>2. PICK b : b = Len(hist.wrote) + 1
  OBVIOUS
<1>3. PICK rest \in OtherHalf :
         sv' = [status |-> "IOWR", ioaddr |-> Address, iodata |-> 256 * rest + b]
  BY <1>2 DEF GuestOut
<1>4. hist' = [hist EXCEPT !.wrote = Append(@, b)]
  BY <1>2 DEF GuestOut
<1>5. b \in Int /\ 1 <= b /\ b <= 255
  <2>1. Len(hist.wrote) \in Nat /\ Len(hist.wrote) < MaxWrites
    BY <1>1, LenProperties DEF Typed, HistType, StatusInv
  <2>2. PICK hi \in Int : hi = 255
    BY SMT
  <2>3. MaxWrites \in 0 .. hi
    BY <2>2, EmuAssumption
  <2>4. MaxWrites \in Int /\ MaxWrites <= hi
    BY <2>3
  <2> QED
    BY <1>2, <2>1, <2>2, <2>4
<1>6. b \in Bytes /\ 256 * rest + b \in Words /\ (256 * rest + b) % 256 = b
  <2>1. rest = 255
    BY <1>3 DEF OtherHalf
  <2> QED
    BY <1>5, <2>1, WordsAre, BytesAre, SMT
<1>7. PICK s : s = Append(hist.wrote, b)
  OBVIOUS
<1>8. hist' = [fed |-> hist.fed, got |-> hist.got, wrote |-> s, out |-> hist.out]
  BY <1>4, <1>7 DEF Typed, HistType
<1>9. s \in Seq(Bytes)
  BY <1>6, <1>7, AppendProperties DEF Typed, HistType
<1>10. hist' \in HistType /\ hist'.fed = hist.fed /\ hist'.got = hist.got
       /\ hist'.out = hist.out /\ hist'.wrote = s
  BY <1>8, <1>9 DEF Typed, HistType
<1>11. Address \in Words
  BY AddressType DEF Typed
<1>12. PICK v : v = 256 * rest + b
  OBVIOUS
<1>13. v \in Words /\ v % 256 = b
  BY <1>6, <1>12
<1>14. sv' = [status |-> "IOWR", ioaddr |-> Address, iodata |-> v]
  BY <1>3, <1>12
<1>15. sv' \in SvType /\ sv'.status = "IOWR" /\ sv'.ioaddr = Address /\ sv'.iodata = v
  BY <1>11, <1>13, <1>14 DEF SvType
<1>16. StatusInv'
  BY <1>1, <1>15 DEF StatusInv, Stalled, Address
<1>17. EmuType'
  BY <1>1, <1>10, <1>15, <1>16, GuestTyped DEF Typed
<1> QED
  BY <1>1, <1>2, <1>7, <1>10, <1>13, <1>15, <1>17

\* How many bytes a file may have.
LEMMA FileType ==
    ASSUME NEW file, file = [k \in 1 .. FileSize |-> 128 + k]
    PROVE  file \in Seq(Bytes)
<1>1. PICK hi \in Int : hi = 127
  BY SMT
<1>2. FileSize \in 0 .. hi
  BY <1>1, EmuAssumption
<1>3. FileSize \in Nat /\ FileSize <= hi
  BY <1>1, <1>2
<1>4. \A k \in 1 .. FileSize : 128 + k \in Int /\ 0 <= 128 + k /\ 128 + k <= 255
  BY <1>1, <1>3
<1>5. \A k \in 1 .. FileSize : 128 + k \in Bytes
  BY <1>4, BytesAre
<1> QED
  BY <1>3, <1>5

\* The command: its two ports are the first in the list, what was not read of the last
\* session's queues is fed again, and the session's histories begin.
LEMMA SysemuStep ==
    ASSUME EmuType, \A d \in Devices : port[d].fd = << >>, Sysemu
    PROVE  /\ EmuType' /\ mon.at = "prompt" /\ mon'.at = "stop"
           /\ hist'.got = Nothing /\ hist'.out = Nothing /\ hist'.wrote = << >>
           /\ \A d \in Devices : Input(d)' = hist'.fed[d]
<1> USE DEF EmuType
<1>1. PICK file : /\ file = [k \in 1 .. FileSize |-> 128 + k]
                  /\ port' = [port EXCEPT !["com2"].fd = file]
                  /\ hist' = [NoHistory EXCEPT !.fed = [com1 |-> port["com1"].queue,
                                                       com2 |-> port["com2"].queue \o file]]
  BY DEF Sysemu
<1>2. /\ mon.at = "prompt" /\ session.all < MaxSessions /\ MonAt("stop")
      /\ devs' = Register(Register(devs, "com1"), "com2")
      /\ session' = [session EXCEPT !.all = @ + 1, !.here = @ + 1]
      /\ faults' = [faults EXCEPT !.here = 0] /\ guest' = guest /\ sv' = sv
  BY DEF Sysemu
<1>3. file \in Seq(Bytes)
  BY <1>1, FileType
<1>4. mon' \in MonType /\ mon'.at = "stop"
  BY <1>2, MonAtEffect DEF Typed, Places
<1>5. /\ devs' \in DevsType /\ devs'.head = "com2" /\ devs'.next["com2"] = "com1"
  <2>1. devs.next \in [Devices -> Devices \cup {Null}] /\ devs.head \in Devices \cup {Null}
    BY DEF Typed, DevsType
  <2>2. PICK n : n = [devs.next EXCEPT !["com1"] = devs.head]
    OBVIOUS
  <2>3. PICK m : m = [n EXCEPT !["com2"] = "com1"]
    OBVIOUS
  <2>4. devs' = [head |-> "com2", next |-> m]
    BY <1>2, <2>2, <2>3 DEF Register
  <2>5. m \in [Devices -> Devices \cup {Null}] /\ m["com2"] = "com1"
    BY <2>1, <2>2, <2>3, TwoDevices
  <2> QED
    BY <2>4, <2>5, TwoDevices DEF DevsType
<1>6. PICK q1, q2, q : q1 = port["com1"].queue /\ q2 = port["com2"].queue /\ q = q2 \o file
  OBVIOUS
<1>7. /\ q1 \in Seq(Bytes) /\ q2 \in Seq(Bytes) /\ Len(q1) <= QueueSize /\ Len(q2) <= QueueSize
      /\ port["com1"] = [queue |-> q1, fd |-> << >>] /\ port["com2"] = [queue |-> q2, fd |-> << >>]
  BY <1>6, TwoDevices DEF Typed, PortType, QueueType
<1>8. q \in Seq(Bytes)
  BY <1>3, <1>6, <1>7, ConcatProperties
<1>9. port'["com1"] = port["com1"] /\ port'["com2"] = [queue |-> q2, fd |-> file]
      /\ port' = [d \in Devices |-> port'[d]]
  <2>1. PICK p : p = [port["com2"] EXCEPT !.fd = file]
    OBVIOUS
  <2>2. p = [queue |-> q2, fd |-> file]
    BY <1>7, <2>1
  <2>3. port' = [port EXCEPT !["com2"] = p]
    BY <1>1, <2>1
  <2> QED
    BY <2>2, <2>3, TwoDevices DEF Typed, PortType
<1>10. << >> \in Seq(Bytes)
  BY EmptySeq
<1>11. [queue |-> q1, fd |-> << >>] \in QueueType /\ [queue |-> q2, fd |-> file] \in QueueType
  BY <1>3, <1>7, <1>10 DEF QueueType
<1>12. Serial'
  <2>1. \A d \in Devices : port'[d] \in QueueType /\ Len(port'[d].queue) <= QueueSize
    BY <1>7, <1>9, <1>11, TwoDevices
  <2> QED
    BY <1>9, <2>1 DEF Serial, PortType
<1>13. PICK f : f = [com1 |-> q1, com2 |-> q]
  OBVIOUS
<1>14. f \in [Devices -> Seq(Bytes)] /\ f["com1"] = q1 /\ f["com2"] = q
  BY <1>7, <1>8, <1>13, TwoDevices
<1>15. hist' = [fed |-> f, got |-> Nothing, wrote |-> << >>, out |-> Nothing]
  BY <1>1, <1>6, <1>13 DEF NoHistory
<1>16. /\ hist' \in HistType /\ hist'.fed = f /\ hist'.got = Nothing /\ hist'.wrote = << >>
       /\ hist'.out = Nothing
  BY <1>10, <1>14, <1>15, NothingType DEF HistType
<1>17. Input("com1")' = q1 /\ Input("com2")' = q
  <2>1. q1 \o << >> = q1
    BY <1>7
  <2> QED
    BY <1>6, <1>7, <1>9, <2>1 DEF Input
<1>18. \A d \in Devices : Input(d)' = hist'.fed[d]
  BY <1>14, <1>16, <1>17, TwoDevices
<1>19. faults' \in FaultsType /\ faults'.here <= faults'.all
  <2>1. faults.all \in 0 .. MaxFaults /\ MaxFaults \in Nat
    BY EmuAssumption DEF Typed, FaultsType
  <2>2. faults' = [all |-> faults.all, here |-> 0]
    BY <1>2 DEF Typed, FaultsType
  <2> QED
    BY <2>1, <2>2 DEF FaultsType
<1>20. session' \in SessionType /\ session'.here <= session'.all
  <2>1. /\ session.all \in 0 .. MaxSessions /\ MaxSessions \in Nat /\ session.here \in Nat
        /\ session.here <= session.all
    BY EmuAssumption DEF Typed, SessionType
  <2>2. session' = [all |-> session.all + 1, here |-> session.here + 1, typed |-> session.typed]
    BY <1>2 DEF Typed, SessionType
  <2>3. session.typed \in 0 .. NbTyped
    BY DEF Typed, SessionType
  <2> QED
    BY <1>2, <2>1, <2>2, <2>3 DEF SessionType
<1>21. Typed'
  BY <1>2, <1>4, <1>5, <1>12, <1>16, <1>19, <1>20, TypedNext DEF Typed
<1>22. StatusInv'
  <2>1. MaxWrites > 0 => Len(<< >>) < MaxWrites
    OBVIOUS
  <2> QED
    BY <1>2, <1>16, <2>1 DEF StatusInv, Stalled, Address
<1>23. DevsInv'
  BY <1>5 DEF DevsInv
<1> QED
  BY <1>2, <1>4, <1>16, <1>18, <1>21, <1>22, <1>23

\* A key: fed, and waiting in the terminal.
LEMMA TypeStep ==
    ASSUME EmuType, Type
    PROVE  /\ EmuType' /\ UNCHANGED << guest, sv, mon, faults >> /\ mon.at # "prompt"
           /\ hist'.got = hist.got /\ hist'.out = hist.out /\ hist'.wrote = hist.wrote
           /\ \A d \in Devices : port'[d].queue = port[d].queue
           /\ \A d \in Devices : \E x \in Seq(Bytes) :
                 Input(d)' = Input(d) \o x /\ hist'.fed[d] = hist.fed[d] \o x
<1> USE DEF EmuType
<1>1. /\ UNCHANGED << guest, sv, mon, devs, faults >> /\ mon.at # "prompt"
      /\ session.typed < NbTyped /\ session' = [session EXCEPT !.typed = @ + 1]
  BY DEF Type
<1>2. PICK k : k = session.typed + 1
  OBVIOUS
<1>3. /\ port' = [port EXCEPT !["com1"].fd = Append(@, k)]
      /\ hist' = [hist EXCEPT !.fed["com1"] = Append(@, k)]
  BY <1>2 DEF Type
<1>4. /\ NbTyped \in Nat /\ session.typed \in 0 .. NbTyped /\ NbTyped <= 127
  <2>1. PICK hi \in Int : hi = 127
    BY SMT
  <2>2. NbTyped \in 0 .. hi
    BY <2>1, EmuAssumption
  <2> QED
    BY <2>1, <2>2 DEF Typed, SessionType
<1>5. k \in Bytes
  <2>1. k \in Int /\ 0 <= k /\ k <= 255
    BY <1>1, <1>2, <1>4
  <2> QED
    BY <2>1, BytesAre
<1>6. session' \in SessionType /\ session'.here <= session'.all
  <2>1. session' = [all |-> session.all, here |-> session.here, typed |-> k]
    BY <1>1, <1>2 DEF Typed, SessionType
  <2>2. k \in 0 .. NbTyped
    BY <1>1, <1>2, <1>4
  <2> QED
    BY <2>1, <2>2 DEF Typed, SessionType
<1>7. PICK q, f, g : q = port["com1"].queue /\ f = port["com1"].fd /\ g = Append(f, k)
  OBVIOUS
<1>8. /\ q \in Seq(Bytes) /\ f \in Seq(Bytes) /\ port["com1"] = [queue |-> q, fd |-> f]
      /\ Len(q) <= QueueSize
  BY <1>7, TwoDevices DEF Typed, PortType, QueueType
<1>9. PICK one : one = << k >>
  OBVIOUS
<1>10. g \in Seq(Bytes) /\ g = f \o one /\ one \in Seq(Bytes)
  BY <1>5, <1>7, <1>8, <1>9, AppendProperties, AppendIsConcat
<1>11. /\ port'["com1"] = [queue |-> q, fd |-> g] /\ port'["com2"] = port["com2"]
       /\ port' = [d \in Devices |-> port'[d]]
  <2>1. PICK p : p = [port["com1"] EXCEPT !.fd = Append(@, k)]
    OBVIOUS
  <2>2. p = [queue |-> q, fd |-> g]
    BY <1>7, <1>8, <2>1
  <2>3. port' = [port EXCEPT !["com1"] = p]
    BY <1>3, <2>1
  <2> QED
    BY <2>2, <2>3, TwoDevices DEF Typed, PortType
<1>12. [queue |-> q, fd |-> g] \in QueueType
  BY <1>8, <1>10 DEF QueueType
<1>13. Serial'
  <2>1. port["com2"] \in QueueType /\ Len(port["com2"].queue) <= QueueSize
    BY TwoDevices DEF Typed, PortType
  <2>2. \A d \in Devices : port'[d] \in QueueType /\ Len(port'[d].queue) <= QueueSize
    BY <1>8, <1>11, <1>12, <2>1, TwoDevices
  <2> QED
    BY <1>11, <2>2 DEF Serial, PortType
<1>14. PICK h, h1 : h = hist.fed["com1"] /\ h1 = [hist.fed EXCEPT !["com1"] = Append(h, k)]
  OBVIOUS
<1>15. hist.fed \in [Devices -> Seq(Bytes)] /\ h \in Seq(Bytes)
  BY <1>14, TwoDevices DEF Typed, HistType
<1>16. Append(h, k) \in Seq(Bytes) /\ Append(h, k) = h \o one
  BY <1>5, <1>9, <1>15, AppendProperties, AppendIsConcat
<1>17. /\ h1 \in [Devices -> Seq(Bytes)] /\ h1["com1"] = h \o one
       /\ h1["com2"] = hist.fed["com2"]
  BY <1>14, <1>15, <1>16, TwoDevices
<1>18. hist' = [fed |-> h1, got |-> hist.got, wrote |-> hist.wrote, out |-> hist.out]
  BY <1>3, <1>14 DEF Typed, HistType
<1>19. /\ hist' \in HistType /\ hist'.fed = h1 /\ hist'.got = hist.got
       /\ hist'.wrote = hist.wrote /\ hist'.out = hist.out
  BY <1>17, <1>18 DEF Typed, HistType
<1>20. Typed'
  BY <1>1, <1>6, <1>13, <1>19, TypedNext DEF Typed
<1>21. StatusInv' /\ DevsInv'
  BY <1>1, <1>19, StatusStays DEF DevsInv
<1>22. \A d \in Devices : port'[d].queue = port[d].queue
  BY <1>7, <1>11, TwoDevices
<1>23. Input("com1")' = Input("com1") \o one /\ hist'.fed["com1"] = hist.fed["com1"] \o one
  <2>1. q \o (f \o one) = (q \o f) \o one
    BY <1>8, <1>10, ConcatAssociative
  <2>2. port'["com1"].queue = q /\ port'["com1"].fd = g
    BY <1>11
  <2>3. Input("com1") = q \o f /\ Input("com1")' = q \o g
    BY <1>7, <2>2 DEF Input
  <2>4. Input("com1")' = Input("com1") \o one
    BY <1>10, <2>1, <2>3
  <2> QED
    BY <1>14, <1>17, <1>19, <2>4
<1>24. Input("com2")' = Input("com2") \o << >> /\ hist'.fed["com2"] = hist.fed["com2"] \o << >>
  <2>1. hist.fed["com2"] \in Seq(Bytes) /\ Input("com2") \in Seq(Bytes)
    BY <1>15, TwoDevices, ConcatProperties DEF Typed, PortType, QueueType, Input
  <2>2. PICK x, y : x = hist.fed["com2"] /\ y = Input("com2")
    OBVIOUS
  <2>3. x \o << >> = x /\ y \o << >> = y
    BY <2>1, <2>2, ConcatEmptySeq
  <2> QED
    BY <1>11, <1>17, <1>19, <2>2, <2>3 DEF Input
<1>25. << >> \in Seq(Bytes)
  BY EmptySeq
<1>26. \A d \in Devices : \E x \in Seq(Bytes) :
                 Input(d)' = Input(d) \o x /\ hist'.fed[d] = hist.fed[d] \o x
  <2> SUFFICES ASSUME NEW d \in Devices
               PROVE  \E x \in Seq(Bytes) :
                         Input(d)' = Input(d) \o x /\ hist'.fed[d] = hist.fed[d] \o x
    OBVIOUS
  <2>1. CASE d = "com1"
    BY <1>10, <1>23, <2>1
  <2>2. CASE d = "com2"
    BY <1>24, <1>25, <2>2
  <2> QED
    BY <2>1, <2>2, TwoDevices
<1> QED
  BY <1>1, <1>19, <1>20, <1>21, <1>22, <1>26

LEMMA RestartStep ==
    ASSUME EmuType, Restart
    PROVE  EmuType' /\ mon'.at = "prompt" /\ \A d \in Devices : port'[d].fd = << >>
<1> USE DEF EmuType
<1>1. /\ mon' = MonStart("prompt") /\ devs' = NoDevices /\ port' = NoInput
      /\ session' = [session EXCEPT !.here = 0] /\ faults' = [faults EXCEPT !.here = 0]
      /\ hist' = NoHistory /\ guest' = guest /\ sv' = sv
  BY DEF Restart
<1>2. mon' \in MonType /\ mon'.at = "prompt"
  BY <1>1, MonStartEffect DEF Places
<1>3. devs' \in DevsType
  BY <1>1 DEF NoDevices, DevsType
<1>4. << >> \in Seq(Bytes) /\ Len(<< >>) = 0 /\ QueueSize \in Nat
  BY EmptySeq, EmuAssumption
<1>5. [queue |-> << >>, fd |-> << >>] \in QueueType
  BY <1>4 DEF QueueType
<1>6. port' = [d \in Devices |-> [queue |-> << >>, fd |-> << >>]]
  BY <1>1 DEF NoInput
<1>7. Serial' /\ \A d \in Devices : port'[d].fd = << >>
  <2>1. \A d \in Devices : port'[d] = [queue |-> << >>, fd |-> << >>]
    BY <1>6
  <2>2. port' \in PortType
    BY <1>5, <1>6 DEF PortType
  <2> QED
    BY <1>4, <2>1, <2>2 DEF Serial
<1>8. faults' \in FaultsType /\ faults'.here <= faults'.all
  <2>1. faults.all \in 0 .. MaxFaults /\ MaxFaults \in Nat
    BY EmuAssumption DEF Typed, FaultsType
  <2>2. faults' = [all |-> faults.all, here |-> 0]
    BY <1>1 DEF Typed, FaultsType
  <2> QED
    BY <2>1, <2>2 DEF FaultsType
<1>9. session' \in SessionType /\ session'.here <= session'.all
  <2>1. session.all \in 0 .. MaxSessions /\ MaxSessions \in Nat /\ session.typed \in 0 .. NbTyped
    BY EmuAssumption DEF Typed, SessionType
  <2>2. session' = [all |-> session.all, here |-> 0, typed |-> session.typed]
    BY <1>1 DEF Typed, SessionType
  <2> QED
    BY <2>1, <2>2 DEF SessionType
<1>10. hist' \in HistType /\ hist'.wrote = << >>
  BY <1>1, NothingType
<1>11. StatusInv'
  BY <1>1, <1>4, <1>10 DEF StatusInv, Stalled, Address
<1>12. DevsInv'
  BY <1>2 DEF DevsInv
<1>13. Typed'
  BY <1>1, <1>2, <1>3, <1>7, <1>8, <1>9, <1>10, TypedNext DEF Typed
<1> QED
  BY <1>2, <1>7, <1>11, <1>12, <1>13

LEMMA BoardResetStep ==
    ASSUME EmuType, BoardReset
    PROVE  /\ EmuType' /\ guest'.at = "off" /\ sv'.status = "STOP"
           /\ UNCHANGED << mon, devs, port, faults, session, hist >>
<1> USE DEF EmuType
<1>1. /\ sv' = [status |-> "STOP", ioaddr |-> 0, iodata |-> 0] /\ guest' = GuestAt("off")
      /\ UNCHANGED << mon, devs, port, faults, session, hist >>
  BY DEF BoardReset
<1>2. 0 \in Words
  BY WordsAre
<1>3. sv' \in SvType /\ sv'.status = "STOP"
  BY <1>1, <1>2 DEF SvType
<1>4. guest' \in GuestType /\ guest'.at = "off"
  BY <1>1, GuestAtType
<1>5. StatusInv'
  BY <1>3, <1>4 DEF StatusInv, Stalled
<1> QED
  BY <1>1, <1>3, <1>4, <1>5, GuestTyped DEF Typed

LEMMA StutterStep ==
    ASSUME EmuType, UNCHANGED emuVars
    PROVE  /\ EmuType' /\ PreInv = PreInv' /\ NoFaultInv = NoFaultInv' /\ DamageInv = DamageInv'
<1>1. UNCHANGED << guest, sv, mon, devs, port, faults, session, hist >>
  BY DEF emuVars
<1>2. EmuType'
  BY <1>1, StatusStays, SerialOf, TypedNext DEF EmuType, Typed, DevsInv, Serial
<1>3. PreInv = PreInv'
  BY <1>1 DEF PreInv, NoFault, Input
<1>4. NoFaultInv = NoFaultInv'
  BY <1>1 DEF NoFaultInv, Exact, NoFault, InSession, Believes, Told, Answering, Address, Stalled, InHand,
              Input, Unwritten
<1>5. DamageInv = DamageInv'
  BY <1>1 DEF DamageInv, InSession, WrInv, WBal, Unwritten, RdInv, InRange, Bal, Input,
              InHand, Misled, Mistaken, Deceived
<1> QED
  BY <1>2, <1>3, <1>4, <1>5

LEMMA EmuTypeInit == Init => EmuType /\ PreInv /\ NoFaultInv /\ DamageInv
<1> SUFFICES ASSUME Init PROVE EmuType /\ PreInv /\ NoFaultInv /\ DamageInv
  OBVIOUS
<1>1. /\ guest = GuestAt("off") /\ sv = [status |-> "STOP", ioaddr |-> 0, iodata |-> 0]
      /\ mon = MonStart("prompt") /\ devs = NoDevices /\ port = NoInput
      /\ faults = [all |-> 0, here |-> 0]
      /\ session = [all |-> 0, here |-> 0, typed |-> 0] /\ hist = NoHistory
  BY DEF Init
<1>2. 0 \in Words
  BY WordsAre
<1>3. << >> \in Seq(Bytes) /\ Len(<< >>) = 0 /\ QueueSize \in Nat
      /\ MaxFaults \in Nat /\ MaxSessions \in Nat
  BY EmptySeq, EmuAssumption
<1>4. NbTyped \in Nat
  <2>1. PICK hi \in Int : hi = 127
    BY SMT
  <2>2. NbTyped \in 0 .. hi
    BY <2>1, EmuAssumption
  <2> QED
    BY <2>1, <2>2
<1>5. guest \in GuestType /\ guest.at = "off" /\ sv \in SvType /\ sv.status = "STOP"
  BY <1>1, <1>2, GuestAtType DEF SvType
<1>6. mon \in MonType /\ mon.at = "prompt"
  BY <1>1, <1>2 DEF MonStart, MonType, Places
<1>7. devs \in DevsType
  BY <1>1 DEF NoDevices, DevsType
<1>8. [queue |-> << >>, fd |-> << >>] \in QueueType
  BY <1>3 DEF QueueType
<1>9. /\ \A d \in Devices : port[d] = [queue |-> << >>, fd |-> << >>]
      /\ port \in PortType
  BY <1>1, <1>8 DEF NoInput, PortType
<1>10. \A d \in Devices : port[d].queue = << >> /\ port[d].fd = << >>
  BY <1>9
<1>11. faults \in FaultsType /\ faults.here <= faults.all
  BY <1>1, <1>3 DEF FaultsType
<1>12. session \in SessionType /\ session.here <= session.all
  BY <1>1, <1>3, <1>4 DEF SessionType
<1>13. Typed
  BY <1>1, <1>3, <1>5, <1>6, <1>7, <1>9, <1>10, <1>11, <1>12, NothingType DEF Typed
<1>14. StatusInv /\ DevsInv
  BY <1>5, <1>6 DEF StatusInv, DevsInv, Stalled
<1>15. PreInv /\ NoFaultInv /\ DamageInv
  BY <1>6, <1>10 DEF PreInv, NoFaultInv, DamageInv, InSession
<1> QED
  BY <1>13, <1>14, <1>15 DEF EmuType

\* The loop's steps, the guest's and the user's that leave the places before it alone.
LEMMA PreInvNext ==
    ASSUME EmuType, PreInv, Next
    PROVE  EmuType' /\ PreInv'
<1>1. CASE Stop
  <2>1. EmuType' /\ mon.at = "stop" /\ mon'.at = "start" /\ port' = port
    BY <1>1, StopStep
  <2>2. CASE /\ guest'.at = "off" /\ hist'.got = Nothing /\ hist'.wrote = << >>
             /\ hist'.fed = hist.fed /\ hist'.out = hist.out
    BY <2>1, <2>2 DEF PreInv, Input
  <2>3. CASE /\ faults.here \in Nat /\ faults'.here = faults.here + 1
             /\ sv' = sv /\ guest' = guest /\ hist' = hist
    <3>1. ~NoFault'
      BY <2>3 DEF NoFault
    <3>2. \A d \in Devices : Input(d)' = Input(d)
      BY <2>1 DEF Input
    <3> QED
      BY <2>1, <2>3, <3>1, <3>2 DEF PreInv
  <2> QED
    BY <1>1, <2>1, <2>2, <2>3, StopStep
<1>2. CASE Start
  BY <1>2, StartStep DEF PreInv
<1>3. CASE GetStatus
  BY <1>3, GetStatusStep DEF PreInv
<1>4. CASE RdGetAddr
  BY <1>4, RdGetAddrStep DEF PreInv
<1>5. CASE RdSetData
  BY <1>5, RdSetDataStep DEF PreInv
<1>6. CASE WrGetAddr
  BY <1>6, WrGetAddrStep DEF PreInv
<1>7. CASE WrGetData
  BY <1>7, WrGetDataStep DEF PreInv
<1>8. CASE Cont
  BY <1>8, ContStep DEF PreInv
<1>9. CASE GuestReads \/ GuestWrites
  BY <1>9, GuestCallsStep DEF PreInv, Input, NoFault
<1>10. CASE GuestIn
  <2>1. /\ EmuType' /\ UNCHANGED << guest, mon, devs, port, faults, session, hist >>
        /\ sv.status = "RUN"
    BY <1>10, GuestInStep
  <2>2. Len(hist.wrote) = 1 => sv.status # "RUN" \/ mon.at \notin {"stop", "start"}
        \/ hist.wrote = << >>
    BY DEF PreInv
  <2> QED
    BY <2>1 DEF PreInv, Input, NoFault
<1>11. CASE GuestOut
  <2>1. /\ EmuType' /\ UNCHANGED << guest, mon, devs, port, faults, session >>
        /\ sv.status = "RUN" /\ sv'.status = "IOWR" /\ guest.at = "send"
        /\ hist'.fed = hist.fed /\ hist'.got = hist.got /\ hist'.out = hist.out
        /\ hist'.wrote = Append(hist.wrote, Len(hist.wrote) + 1)
    BY <1>11, GuestOutStep
  <2>2. hist.wrote = << >> => Len(hist'.wrote) = 1
    BY <2>1
  <2> QED
    BY <2>1, <2>2 DEF PreInv, Input, NoFault
<1>12. CASE Sysemu
  <2>1. mon.at = "prompt"
    BY <1>12 DEF Sysemu
  <2>2. \A d \in Devices : port[d].fd = << >>
    BY <2>1 DEF PreInv
  <2> QED
    BY <1>12, <2>2, SysemuStep DEF PreInv
<1>13. CASE Type
  <2>1. /\ EmuType' /\ UNCHANGED << guest, sv, mon, faults >> /\ mon.at # "prompt"
        /\ hist'.got = hist.got /\ hist'.out = hist.out /\ hist'.wrote = hist.wrote
        /\ \A d \in Devices : \E x \in Seq(Bytes) :
                 Input(d)' = Input(d) \o x /\ hist'.fed[d] = hist.fed[d] \o x
    BY <1>13, TypeStep
  <2>2. \A d \in Devices : Input(d) = hist.fed[d] => Input(d)' = hist'.fed[d]
    BY <2>1
  <2> QED
    BY <2>1, <2>2 DEF PreInv, NoFault
<1>14. CASE Restart
  BY <1>14, RestartStep DEF PreInv
<1>15. CASE BoardReset
  BY <1>15, BoardResetStep DEF PreInv, Input, NoFault
<1> QED
  BY <1>1, <1>2, <1>3, <1>4, <1>5, <1>6, <1>7, <1>8, <1>9, <1>10, <1>11, <1>12, <1>13, <1>14,
     <1>15 DEF Next, Loop, Guest

LEMMA SeqsOf ==
    ASSUME EmuType
    PROVE  /\ hist.wrote \in Seq(Bytes) /\ hist.out["com1"] \in Seq(Bytes)
           /\ \A d \in Devices : /\ hist.got[d] \in Seq(Bytes) /\ hist.fed[d] \in Seq(Bytes)
                                 /\ Input(d) \in Seq(Bytes)
                                 /\ port[d].queue \in Seq(Bytes)
           /\ sv.iodata \in Words /\ mon.iodata \in Words /\ guest.dev \in Devices
<1>1. \A d \in Devices : port[d] \in QueueType
  BY DEF EmuType, Typed, PortType
<1>2. \A d \in Devices : Input(d) \in Seq(Bytes)
  BY <1>1, ConcatProperties DEF Input, QueueType
<1> QED
  BY <1>1, <1>2, TwoDevices DEF EmuType, Typed, HistType, SvType, MonType, QueueType, GuestType

\* An input is there as soon as a byte is in the queue.
LEMMA QueueInInput ==
    ASSUME EmuType, NEW d \in Devices
    PROVE  port[d].queue # << >> => Input(d) # << >>
<1>1. port[d].queue \in Seq(Bytes) /\ port[d].fd \in Seq(Bytes)
  BY DEF EmuType, Typed, PortType, QueueType
<1>2. PICK S, q, f : S = Bytes /\ q = port[d].queue /\ f = port[d].fd
  OBVIOUS
<1>3. q \in Seq(S) /\ f \in Seq(S)
  BY <1>1, <1>2
<1>4. q \o f = << >> => q = << >>
  BY <1>3, ConcatEqualIffEmpty
<1> QED
  BY <1>2, <1>4 DEF Input

\* The monitor's places alone change: nothing is in its hands before or after.
LEMMA PlaceExact ==
    ASSUME Exact, Believes', UNCHANGED << guest, sv, port, hist >>,
           mon.at \notin {"set", "cont"}, mon'.at \notin {"set", "cont"}
    PROVE  Exact'
<1>1. Told'
  BY DEF Exact, Told, Answering, Address
<1>2. \A d \in Devices : InHand(d)' = InHand(d) /\ Input(d)' = Input(d)
  BY DEF InHand, Input
<1>3. Unwritten' = Unwritten
  BY DEF Unwritten
<1> QED
  BY <1>1, <1>2, <1>3 DEF Exact

\* In the first steps of the loop nothing has happened yet.
LEMMA ExactStart ==
    ASSUME EmuType, PreInv, Start, InSession', NoFault'
    PROVE  Exact'
<1>1. /\ EmuType' /\ mon.at = "start" /\ mon'.at = "status" /\ port' = port
      /\ hist' = hist
      /\ faults.here \in Nat /\ faults'.here \in Nat /\ faults.here <= faults'.here
      /\ \/ sv' = sv /\ guest' = guest /\ guest.at # "off"
         \/ guest.at = "off" /\ guest' = GuestAt("idle") /\ sv'.status = "RUN"
         \/ faults'.here = faults.here + 1 /\ sv' = sv /\ guest' = guest
  BY StartStep
<1>2. faults.here = 0 /\ faults'.here # faults.here + 1
  BY <1>1 DEF NoFault
<1>3. guest.at = "off" /\ hist.wrote = << >> /\ hist.out = Nothing /\ hist.got = Nothing
      /\ \A d \in Devices : Input(d) = hist.fed[d]
  BY <1>1, <1>2 DEF PreInv, NoFault
<1>4. guest'.at = "idle" /\ sv'.status = "RUN"
  BY <1>1, <1>2, <1>3, GuestAtType
<1>5. Believes' /\ Told'
  BY <1>1, <1>4 DEF Believes, Told, Answering
<1>6. (hist.out["com1"] \o Unwritten)' = hist'.wrote
  <2>1. Unwritten' = << >>
    BY <1>4 DEF Unwritten
  <2>2. hist'.out["com1"] = << >> /\ hist'.wrote = << >>
    BY <1>1, <1>3, NothingType, TwoDevices
  <2> QED
    BY <2>1, <2>2
<1>7. \A d \in Devices : ((hist.got[d] \o InHand(d)) \o Input(d))' = hist'.fed[d]
  <2> SUFFICES ASSUME NEW d \in Devices
               PROVE  ((hist.got[d] \o InHand(d)) \o Input(d))' = hist'.fed[d]
    OBVIOUS
  <2>1. InHand(d)' = << >>
    BY <1>1 DEF InHand
  <2>2. hist'.got[d] = << >> /\ Input(d)' = Input(d)
    BY <1>1, <1>3, NothingType DEF Input
  <2>3. PICK x : x = Input(d)
    OBVIOUS
  <2>4. (<< >> \o << >>) \o x = x
    BY <2>3, SeqsOf
  <2> QED
    BY <1>1, <1>3, <2>1, <2>2, <2>3, <2>4
<1> QED
  BY <1>5, <1>6, <1>7 DEF Exact

LEMMA ExactGetStatus ==
    ASSUME EmuType, Exact, NoFault, GetStatus, InSession', NoFault'
    PROVE  Exact'
<1>1. /\ mon.at = "status" /\ sv' = sv /\ guest' = guest
      /\ mon'.at \in {"prompt", "status", "rdaddr", "wraddr"}
      /\ mon'.at # "prompt" => port' = port /\ hist' = hist
      /\ \/ /\ faults'.here = faults.here
            /\ mon'.at = "rdaddr" => sv.status = "IORD"
            /\ mon'.at = "wraddr" => sv.status = "IOWR"
         \/ faults'.here = faults.here + 1
  BY GetStatusStep
<1>2. faults'.here # faults.here + 1
  BY DEF NoFault
<1>3. mon'.at # "prompt"
  BY DEF InSession
<1>4. Believes'
  BY <1>1, <1>2, <1>3 DEF Believes
<1> QED
  BY <1>1, <1>3, <1>4, PlaceExact

LEMMA ExactWrGetAddr ==
    ASSUME EmuType, Exact, NoFault, WrGetAddr, InSession', NoFault'
    PROVE  Exact'
<1>1. /\ mon.at = "wraddr" /\ mon'.at = "wrdata"
      /\ guest' = guest /\ hist' = hist /\ port' = port /\ sv' = sv
      /\ mon'.ioaddr = sv.ioaddr \/ faults'.here = faults.here + 1
  BY WrGetAddrStep
<1>2. faults'.here # faults.here + 1
  BY DEF NoFault
<1>3. Believes'
  BY <1>1, <1>2 DEF Exact, Believes
<1> QED
  BY <1>1, <1>3, PlaceExact

\* The read register's byte goes from the input into the monitor's hands.
LEMMA ExactRdGetAddr ==
    ASSUME EmuType, Exact, NoFault, RdGetAddr, InSession', NoFault'
    PROVE  Exact'
<1>1. /\ EmuType' /\ mon.at = "rdaddr" /\ sv' = sv /\ guest' = guest /\ hist' = hist
      /\ \/ mon'.ioaddr = sv.ioaddr
         \/ faults'.here = faults.here + 1
         \/ mon'.at = "lost"
      /\ \/ mon'.at = "lost" /\ port' = port
         \/ /\ mon'.at = "set"
            /\ mon'.iodata = IF Odd(mon'.ioaddr) THEN (mon'.iodata \div 256) * 256
                                                ELSE mon'.iodata % 256
            /\ \A d \in Devices :
                  /\ mon'.ioaddr # Base(d) => Input(d)' = Input(d)
                  /\ mon'.ioaddr = Base(d) /\ Input(d) # << >> =>
                        << mon'.iodata >> \o Input(d)' = Input(d)
                  /\ mon'.ioaddr = Base(d) /\ Input(d) = << >> => Input(d)' = << >>
                  /\ mon'.ioaddr = Base(d) + LSR /\ Odd(mon'.iodata \div 256) =>
                        port'[d].queue # << >>
  BY RdGetAddrStep
<1>2. faults'.here # faults.here + 1
  BY DEF NoFault
<1>3. CASE mon'.at = "lost"
  <2>1. Believes'
    BY <1>3 DEF Believes
  <2> QED
    BY <1>1, <1>3, <2>1, PlaceExact
<1>4. CASE mon'.at = "set"
  <2>1. /\ sv.status = "IORD" /\ mon'.ioaddr = sv.ioaddr /\ sv.ioaddr = Address
        /\ guest.at \in {"canrecv", "recv", "cansend"}
    BY <1>1, <1>2, <1>4 DEF Exact, Believes, EmuType, StatusInv, Stalled
  <2>2. /\ guest.at \in {"canrecv", "cansend"} => Odd(Address) /\ Address = Base(guest.dev) + LSR
        /\ guest.at \notin {"canrecv", "cansend"} => Address = Base(guest.dev) + RBR
    BY AddressType DEF EmuType, Typed
  <2>3. guest.dev \in Devices
    BY DEF EmuType, Typed, GuestType
  <2>4. Believes'
    BY <1>1, <1>4, <2>1 DEF Believes, Stalled
  <2>5. Told'
    <3>1. Answering' /\ Address' = Address /\ sv'.status # "IOWR"
      BY <1>1, <1>4, <2>1 DEF Answering, Address
    <3>2. guest.at = "canrecv" /\ Odd(mon'.iodata \div 256) => port'[guest.dev].queue # << >>
      BY <1>1, <1>4, <2>1, <2>2, <2>3
    <3> QED
      BY <1>1, <1>4, <2>1, <3>1, <3>2 DEF Told
  <2>6. \A d \in Devices : InHand(d) = << >>
    BY <1>1 DEF InHand
  <2>7. \A d \in Devices : InHand(d)' = IF mon'.ioaddr = Base(d) THEN << mon'.iodata >> ELSE << >>
    BY <1>1, <1>4, <2>1, TwoDevices DEF InHand, RBR
  <2>8. ASSUME NEW d \in Devices
        PROVE  ((hist.got[d] \o InHand(d)) \o Input(d))' = hist'.fed[d]
    <3>1. (hist.got[d] \o InHand(d)) \o Input(d) = hist.fed[d]
      BY DEF Exact
    <3>2. PICK S, g, x, y : S = Bytes /\ g = hist.got[d] /\ x = Input(d) /\ y = Input(d)'
      OBVIOUS
    <3>3. g \in Seq(S) /\ x \in Seq(S) /\ y \in Seq(S)
      <4>1. Input(d)' \in Seq(Bytes)
        BY <1>1, ConcatProperties DEF EmuType, Typed, PortType, QueueType, Input
      <4> QED
        BY <3>2, <4>1, SeqsOf
    <3>4. g \o x = hist.fed[d]
      <4>1. g \o << >> = g
        BY <3>3
      <4> QED
        BY <2>6, <3>1, <3>2, <4>1
    <3>5. CASE mon'.ioaddr # Base(d)
      <4>1. y = x
        BY <1>1, <1>4, <3>2, <3>5
      <4>2. InHand(d)' = << >>
        BY <2>7, <3>5
      <4>3. (g \o << >>) \o y = g \o x
        BY <3>3, <4>1
      <4> QED
        BY <1>1, <3>2, <3>4, <4>2, <4>3
    <3>6. CASE mon'.ioaddr = Base(d)
      <4>1. guest.at = "recv" /\ guest.dev = d
        <5>1. LSR = 5 /\ RBR = 0
          BY DEF LSR, RBR
        <5>2. ~Odd(Base(d))
          BY TwoDevices DEF Odd
        <5>3. guest.at = "recv"
          BY <2>1, <2>2, <3>6, <5>2
        <5>4. Base(guest.dev) = Base(d)
          BY <2>1, <2>2, <2>3, <3>6, <5>1, <5>3, TwoDevices
        <5> QED
          BY <2>3, <5>3, <5>4, TwoDevices
      <4>2. port[d].queue # << >>
        BY <1>1, <4>1 DEF Exact, Told, Answering
      <4>3. x # << >>
        BY <3>2, <4>2, QueueInInput
      <4>4. PICK one : one = << mon'.iodata >>
        OBVIOUS
      <4>5. one \o y = x
        BY <1>1, <1>4, <3>2, <3>6, <4>3, <4>4
      <4>6. mon'.iodata \in S
        <5>1. ~Odd(mon'.ioaddr)
          BY <3>6, TwoDevices DEF Odd
        <5>2. mon'.iodata \in Words
          BY <1>1 DEF EmuType, Typed, MonType
        <5>3. mon'.iodata % 256 \in Bytes
          BY <5>2, Lanes
        <5> QED
          BY <1>1, <1>4, <3>2, <5>1, <5>3
      <4>7. one \in Seq(S)
        BY <4>4, <4>6
      <4>8. (g \o one) \o y = g \o x
        <5>1. y \in Seq(S)
          BY <3>3
        <5>2. (g \o one) \o y = g \o (one \o y)
          BY <3>3, <4>7, <5>1, ConcatAssociative
        <5> QED
          BY <4>5, <5>2
      <4>9. InHand(d)' = one
        BY <2>7, <3>6, <4>4
      <4> QED
        BY <1>1, <3>2, <3>4, <4>8, <4>9
    <3> QED
      BY <3>5, <3>6
  <2>9. Unwritten' = Unwritten
    BY <1>1, <2>1 DEF Unwritten
  <2> QED
    BY <1>1, <2>4, <2>5, <2>8, <2>9 DEF Exact
<1> QED
  BY <1>1, <1>3, <1>4

LEMMA ExactRdSetData ==
    ASSUME EmuType, Exact, NoFault, RdSetData, InSession', NoFault'
    PROVE  Exact'
<1>1. /\ EmuType' /\ mon.at = "set" /\ mon'.at = "cont"
      /\ mon'.ioaddr = mon.ioaddr /\ mon'.iodata = mon.iodata
      /\ guest' = guest /\ hist' = hist /\ port' = port
      /\ sv'.status = sv.status /\ sv'.ioaddr = sv.ioaddr
      /\ sv'.iodata = mon.iodata \/ faults'.here = faults.here + 1
  BY RdSetDataStep
<1>2. faults'.here # faults.here + 1
  BY DEF NoFault
<1>3. sv.status = "IORD" /\ mon.ioaddr = sv.ioaddr
  BY <1>1 DEF Exact, Believes
<1>4. Believes'
  BY <1>1, <1>2, <1>3 DEF Believes, Stalled
<1>5. Told'
  BY <1>1, <1>3 DEF Exact, Told, Answering, Address
<1>6. \A d \in Devices : InHand(d)' = InHand(d) /\ Input(d)' = Input(d)
  BY <1>1 DEF InHand, Input
<1>7. Unwritten' = Unwritten
  BY <1>1, <1>3 DEF Unwritten
<1> QED
  BY <1>1, <1>4, <1>5, <1>6, <1>7 DEF Exact

\* The byte written goes from the word the supervisor kept to the terminal.
LEMMA ExactWrGetData ==
    ASSUME EmuType, Exact, NoFault, WrGetData, InSession', NoFault'
    PROVE  Exact'
<1>1. /\ EmuType' /\ mon.at = "wrdata" /\ guest' = guest /\ sv' = sv /\ port' = port
      /\ hist'.fed = hist.fed /\ hist'.got = hist.got /\ hist'.wrote = hist.wrote
      /\ \/ mon'.at = "lost" /\ hist' = hist
         \/ /\ mon'.at = "cont" /\ mon'.ioaddr = mon.ioaddr
            /\ mon.ioaddr # 1016 => hist'.out["com1"] = hist.out["com1"]
            /\ mon.ioaddr = 1016 => \E w \in Words :
                  /\ hist'.out["com1"] = Append(hist.out["com1"], w % 256)
                  /\ faults'.here = faults.here => w = sv.iodata
  BY WrGetDataStep
<1>2. CASE mon'.at = "lost" /\ hist' = hist
  <2>1. Believes'
    BY <1>2 DEF Believes
  <2> QED
    BY <1>1, <1>2, <2>1, PlaceExact
<1>3. CASE mon'.at = "cont"
  <2>1. sv.status = "IOWR" /\ mon.ioaddr = sv.ioaddr /\ sv.ioaddr = Address
        /\ guest.at = "send" /\ guest.dev = "com1"
    BY <1>1 DEF Exact, Believes, EmuType, StatusInv, Stalled
  <2>2. mon.ioaddr = 1016
    <3>1. Address = Base("com1") + RBR
      BY <2>1, AddressType DEF EmuType, Typed
    <3> QED
      BY <2>1, <3>1, TwoDevices DEF RBR
  <2>3. hist'.out["com1"] = Append(hist.out["com1"], Len(hist.wrote))
    <3>1. faults'.here = faults.here
      BY DEF NoFault
    <3>2. sv.iodata % 256 = Len(hist.wrote)
      BY <2>1 DEF Exact, Told
    <3> QED
      BY <1>1, <1>3, <2>2, <3>1, <3>2
  <2>4. hist.out["com1"] \o << Len(hist.wrote) >> = hist.wrote
    BY <1>1, <2>1 DEF Exact, Unwritten
  <2>5. hist'.out["com1"] \o << >> = hist'.wrote
    <3>1. PICK S, x, y, n : /\ S = Bytes /\ x = hist.out["com1"] /\ y = hist'.out["com1"]
                            /\ n = Len(hist.wrote)
      OBVIOUS
    <3>2. x \in Seq(S) /\ hist.wrote \in Seq(S)
      BY <3>1, SeqsOf
    <3>3. n \in S
      <4>1. n = sv.iodata % 256
        BY <2>1, <3>1 DEF Exact, Told
      <4> QED
        BY <3>1, <4>1, SeqsOf, Lanes
    <3>4. Append(x, n) = x \o << n >>
      BY <3>2, <3>3, AppendIsConcat
    <3>5. y = hist.wrote
      BY <2>3, <2>4, <3>1, <3>4
    <3>6. y \o << >> = y
      BY <3>2, <3>5, ConcatEmptySeq
    <3> QED
      BY <1>1, <3>1, <3>5, <3>6
  <2>6. Believes'
    BY <1>1, <1>3, <2>1 DEF Believes, Stalled
  <2>7. Told'
    BY <1>1, <2>1 DEF Exact, Told, Answering, Address
  <2>8. \A d \in Devices : InHand(d)' = InHand(d) /\ Input(d)' = Input(d)
    BY <1>1, <2>1 DEF InHand, Input
  <2>9. Unwritten' = << >>
    BY <1>3 DEF Unwritten
  <2> QED
    BY <1>1, <2>5, <2>6, <2>7, <2>8, <2>9 DEF Exact
<1> QED
  BY <1>1, <1>2, <1>3

\* The stalled access ends: a byte read has arrived.
LEMMA ExactCont ==
    ASSUME EmuType, Exact, NoFault, Cont, InSession', NoFault'
    PROVE  Exact'
<1>1. /\ EmuType' /\ mon.at = "cont" /\ mon'.at = "status" /\ port' = port
      /\ hist'.fed = hist.fed /\ hist'.wrote = hist.wrote /\ hist'.out = hist.out
      /\ \/ ~Stalled
         \/ faults'.here = faults.here + 1
         \/ /\ Stalled /\ GuestByte \in Bytes
            /\ sv'.status = "RUN" /\ guest'.at # "off"
            /\ hist'.got = IF guest.at = "recv"
                           THEN [hist.got EXCEPT ![guest.dev] = Append(@, GuestByte)]
                           ELSE hist.got
            /\ guest'.at = "recv" =>
                  /\ guest.at = "canrecv" /\ guest'.dev = guest.dev
                  /\ Odd(GuestByte) /\ sv.status = "IORD"
  BY ContStep
<1>2. Stalled /\ faults'.here # faults.here + 1
  BY <1>1 DEF NoFault, Exact, Believes
<1>3. /\ GuestByte \in Bytes /\ sv'.status = "RUN"
      /\ hist'.got = IF guest.at = "recv"
                     THEN [hist.got EXCEPT ![guest.dev] = Append(@, GuestByte)]
                     ELSE hist.got
      /\ guest'.at = "recv" =>
            /\ guest.at = "canrecv" /\ guest'.dev = guest.dev
            /\ Odd(GuestByte) /\ sv.status = "IORD"
  BY <1>1, <1>2
<1>4. Believes'
  BY <1>1 DEF Believes
<1>5. guest.dev \in Devices
  BY SeqsOf
<1>6. /\ guest.at \in {"canrecv", "cansend"} => Odd(Address) /\ Address = Base(guest.dev) + LSR
      /\ guest.at \notin {"canrecv", "cansend"} => ~Odd(Address) /\ Address = Base(guest.dev) + RBR
  BY AddressType DEF EmuType, Typed
<1>7. Told'
  <2>1. ~Answering'
    BY <1>1 DEF Answering
  <2>2. guest'.at = "recv" => port'[guest'.dev].queue # << >>
    <3> SUFFICES ASSUME guest'.at = "recv" PROVE port[guest.dev].queue # << >>
      BY <1>1, <1>3
    <3>1. /\ guest.at = "canrecv" /\ sv.status = "IORD" /\ Odd(GuestByte)
          /\ sv.iodata = mon.iodata
      BY <1>1, <1>3 DEF Exact, Believes
    <3>2. GuestByte = mon.iodata \div 256
      BY <1>6, <3>1 DEF GuestByte
    <3> QED
      BY <1>1, <3>1, <3>2 DEF Exact, Told, Answering
  <2> QED
    BY <1>3, <2>1, <2>2 DEF Told
<1>8. Unwritten' = Unwritten
  BY <1>1, <1>3 DEF Unwritten
<1>9. ASSUME NEW d \in Devices
      PROVE  ((hist.got[d] \o InHand(d)) \o Input(d))' = hist'.fed[d]
  <2>1. (hist.got[d] \o InHand(d)) \o Input(d) = hist.fed[d]
    BY DEF Exact
  <2>2. InHand(d)' = << >> /\ Input(d)' = Input(d)
    BY <1>1 DEF InHand, Input
  <2>3. PICK S, g, h : S = Bytes /\ g = hist.got[d] /\ h = hist'.got[d]
    OBVIOUS
  <2>4. g \in Seq(S) /\ h \in Seq(S) /\ hist.got \in [Devices -> Seq(Bytes)]
    <3>1. hist'.got[d] \in Seq(Bytes)
      BY <1>1 DEF EmuType, Typed, HistType
    <3> QED
      BY <2>3, <3>1, SeqsOf DEF EmuType, Typed, HistType
  <2>5. h = g \o InHand(d)
    <3>1. CASE guest.at = "recv" /\ guest.dev = d
      <4>1. sv.status = "IORD" /\ mon.ioaddr = sv.ioaddr /\ sv.iodata = mon.iodata
        BY <1>1, <1>2, <3>1 DEF EmuType, StatusInv, Stalled, Exact, Believes
      <4>2. sv.ioaddr = Address /\ ~Odd(Address) /\ Address = Base(d) + RBR
        BY <1>2, <1>6, <3>1 DEF EmuType, StatusInv
      <4>3. Base(d) + RBR = Base(d)
        BY TwoDevices DEF RBR
      <4>4. InHand(d) = << mon.iodata >>
        BY <1>1, <4>1, <4>2 DEF InHand
      <4>5. GuestByte = mon.iodata
        <5>1. GuestByte = mon.iodata % 256
          BY <4>1, <4>2 DEF GuestByte
        <5>2. mon.iodata = mon.iodata % 256
          BY <1>1, <4>1, <4>2 DEF Exact, Told, Answering
        <5> QED
          BY <5>1, <5>2
      <4>6. h = Append(g, GuestByte)
        BY <1>3, <2>3, <2>4, <3>1
      <4>7. PICK b : b = GuestByte
        OBVIOUS
      <4>8. b \in S
        BY <1>3, <2>3, <4>7
      <4>9. Append(g, b) = g \o << b >>
        BY <2>4, <4>8, AppendIsConcat
      <4> QED
        BY <4>4, <4>5, <4>6, <4>7, <4>9
    <3>2. CASE ~(guest.at = "recv" /\ guest.dev = d)
      <4>1. h = g
        BY <1>3, <1>5, <2>3, <2>4, <3>2
      <4>2. InHand(d) = << >>
        <5>1. SUFFICES ASSUME sv.status = "IORD", mon.ioaddr = Base(d) + RBR
                       PROVE  FALSE
          BY DEF InHand
        <5>2. Address = Base(d) + RBR
          BY <1>1, <1>2, <5>1 DEF EmuType, StatusInv, Exact, Believes
        <5>3. ~Odd(Address)
          BY <5>2, TwoDevices DEF Odd, RBR
        <5>4. guest.at = "recv"
          BY <1>6, <5>1, <5>3 DEF EmuType, StatusInv
        <5>5. Base(guest.dev) = Base(d)
          BY <1>5, <1>6, <5>2, <5>4, TwoDevices DEF RBR
        <5> QED
          BY <1>5, <3>2, <5>4, <5>5, TwoDevices
      <4> QED
        BY <2>4, <4>1, <4>2, ConcatEmptySeq
    <3> QED
      BY <3>1, <3>2
  <2>6. h \o << >> = h
    BY <2>4, ConcatEmptySeq
  <2> QED
    BY <1>1, <2>1, <2>2, <2>3, <2>5, <2>6
<1> QED
  BY <1>1, <1>4, <1>7, <1>8, <1>9 DEF Exact

LEMMA ExactGuestCalls ==
    ASSUME EmuType, Exact, GuestReads \/ GuestWrites
    PROVE  Exact'
<1>1. /\ EmuType' /\ UNCHANGED << sv, mon, devs, port, faults, session, hist >>
      /\ guest'.at \in {"canrecv", "cansend"} /\ ~Stalled
  BY GuestCallsStep
<1>2. sv.status \notin {"IORD", "IOWR"}
  BY <1>1 DEF Stalled
<1>3. Believes'
  BY <1>1 DEF Exact, Believes, Stalled
<1>4. Told'
  BY <1>1, <1>2 DEF Told, Answering
<1>5. \A d \in Devices : InHand(d)' = InHand(d) /\ Input(d)' = Input(d)
  BY <1>1 DEF InHand, Input
<1>6. Unwritten' = Unwritten
  BY <1>1 DEF Unwritten
<1> QED
  BY <1>1, <1>3, <1>4, <1>5, <1>6 DEF Exact

LEMMA ExactGuestIn ==
    ASSUME EmuType, Exact, GuestIn
    PROVE  Exact'
<1>1. /\ EmuType' /\ UNCHANGED << guest, mon, devs, port, faults, session, hist >>
      /\ sv.status = "RUN" /\ sv'.status = "IORD"
      /\ guest.at \in {"canrecv", "recv", "cansend"}
  BY GuestInStep
<1>2. mon.at \notin {"rdaddr", "set", "wraddr", "wrdata", "cont"}
  BY <1>1 DEF Exact, Believes, Stalled
<1>3. Believes'
  BY <1>1, <1>2 DEF Believes
<1>4. Told'
  BY <1>1, <1>2 DEF Exact, Told, Answering
<1>5. \A d \in Devices : InHand(d)' = InHand(d) /\ Input(d)' = Input(d)
  BY <1>1, <1>2 DEF InHand, Input
<1>6. Unwritten' = Unwritten
  BY <1>1 DEF Unwritten
<1> QED
  BY <1>1, <1>3, <1>4, <1>5, <1>6 DEF Exact

LEMMA ExactGuestOut ==
    ASSUME EmuType, Exact, GuestOut
    PROVE  Exact'
<1>1. /\ EmuType' /\ UNCHANGED << guest, mon, devs, port, faults, session >>
      /\ sv.status = "RUN" /\ sv'.status = "IOWR" /\ guest.at = "send"
      /\ hist'.fed = hist.fed /\ hist'.got = hist.got /\ hist'.out = hist.out
      /\ hist'.wrote = Append(hist.wrote, Len(hist.wrote) + 1)
      /\ sv'.iodata % 256 = Len(hist.wrote) + 1
  BY GuestOutStep
<1>2. mon.at \notin {"rdaddr", "set", "wraddr", "wrdata", "cont"}
  BY <1>1 DEF Exact, Believes, Stalled
<1>3. Believes'
  BY <1>1, <1>2 DEF Believes
<1>4. PICK S, x, n : S = Bytes /\ x = hist.wrote /\ n = Len(hist.wrote) + 1
  OBVIOUS
<1>5. x \in Seq(S)
  BY <1>4, SeqsOf
<1>6. n \in S
  BY <1>1, <1>4, SeqsOf, Lanes DEF EmuType, Typed, SvType
<1>7. Append(x, n) = x \o << n >> /\ Len(Append(x, n)) = n
  BY <1>4, <1>5, <1>6, AppendIsConcat, AppendProperties
<1>8. Told'
  BY <1>1, <1>2, <1>4, <1>7 DEF Exact, Told, Answering
<1>9. \A d \in Devices : InHand(d)' = InHand(d) /\ Input(d)' = Input(d)
  BY <1>1, <1>2 DEF InHand, Input
<1>10. hist.out["com1"] = hist.wrote
  <2>1. hist.out["com1"] \o << >> = hist.wrote
    BY <1>1 DEF Exact, Unwritten
  <2>2. PICK o : o = hist.out["com1"]
    OBVIOUS
  <2>3. o \in Seq(S)
    BY <1>4, <2>2, SeqsOf
  <2>4. o \o << >> = o
    BY <2>3, ConcatEmptySeq
  <2> QED
    BY <2>1, <2>2, <2>4
<1>11. Unwritten' = << n >>
  BY <1>1, <1>2, <1>4, <1>7 DEF Unwritten
<1> QED
  BY <1>1, <1>3, <1>4, <1>7, <1>8, <1>9, <1>10, <1>11 DEF Exact

LEMMA ExactType ==
    ASSUME EmuType, Exact, Type
    PROVE  Exact'
<1>1. /\ EmuType' /\ UNCHANGED << guest, sv, mon, faults >> /\ mon.at # "prompt"
      /\ hist'.got = hist.got /\ hist'.out = hist.out /\ hist'.wrote = hist.wrote
      /\ \A d \in Devices : port'[d].queue = port[d].queue
      /\ \A d \in Devices : \E x \in Seq(Bytes) :
            Input(d)' = Input(d) \o x /\ hist'.fed[d] = hist.fed[d] \o x
  BY TypeStep
<1>2. Believes'
  BY <1>1 DEF Exact, Believes, Stalled
<1>3. Told'
  BY <1>1, SeqsOf DEF Exact, Told, Answering, Address
<1>4. Unwritten' = Unwritten
  BY <1>1 DEF Unwritten
<1>5. ASSUME NEW d \in Devices
      PROVE  ((hist.got[d] \o InHand(d)) \o Input(d))' = hist'.fed[d]
  <2>1. PICK x \in Seq(Bytes) : Input(d)' = Input(d) \o x /\ hist'.fed[d] = hist.fed[d] \o x
    BY <1>1
  <2>2. InHand(d)' = InHand(d)
    BY <1>1 DEF InHand
  <2>3. (hist.got[d] \o InHand(d)) \o Input(d) = hist.fed[d]
    BY DEF Exact
  <2>4. PICK S, g, i : S = Words /\ g = hist.got[d] \o InHand(d) /\ i = Input(d)
    OBVIOUS
  <2>5. \A z : z \in Bytes => z \in S
    BY <2>4, LanesB
  <2>6. \A s : s \in Seq(Bytes) => s \in Seq(S)
    BY <2>5, SeqMonotonic
  <2>7. x \in Seq(S) /\ i \in Seq(S) /\ hist.got[d] \in Seq(S)
    BY <2>1, <2>4, <2>6, SeqsOf
  <2>8. InHand(d) \in Seq(S)
    <3>1. << >> \in Seq(S)
      BY EmptySeq
    <3>2. << mon.iodata >> \in Seq(S)
      BY <2>4, SeqsOf
    <3> QED
      BY <3>1, <3>2 DEF InHand
  <2>9. g \in Seq(S)
    BY <2>4, <2>7, <2>8, ConcatProperties
  <2>10. g \o (i \o x) = (g \o i) \o x
    BY <2>7, <2>9, ConcatAssociative
  <2> QED
    BY <1>1, <2>1, <2>2, <2>3, <2>4, <2>10
<1> QED
  BY <1>1, <1>2, <1>3, <1>4, <1>5 DEF Exact

\* Without a failing call every byte is where it belongs after every step.
LEMMA NoFaultInvNext ==
    ASSUME EmuType, PreInv, NoFaultInv, Next
    PROVE  NoFaultInv'
<1> SUFFICES ASSUME InSession', NoFault' PROVE Exact'
  BY DEF NoFaultInv
<1>1. CASE Stop
  BY <1>1, StopStep DEF InSession
<1>2. CASE Start
  BY <1>2, ExactStart
<1>3. CASE Sysemu
  <2>1. mon'.at = "stop"
    BY <1>3, SysemuStep DEF Sysemu, PreInv
  <2> QED
    BY <2>1 DEF InSession
<1>4. CASE Restart
  BY <1>4, RestartStep DEF InSession
<1>5. CASE BoardReset
  BY <1>5, BoardResetStep DEF InSession
<1>6. CASE GetStatus \/ RdGetAddr \/ WrGetAddr
  <2>1. /\ mon.at \in {"status", "rdaddr", "wraddr"} /\ guest' = guest /\ faults.here \in Nat
        /\ faults'.here \in {faults.here, faults.here + 1}
    BY <1>6, GetStatusStep, RdGetAddrStep, WrGetAddrStep
  <2>2. NoFault
    BY <2>1 DEF NoFault
  <2>3. InSession
    BY <2>1 DEF InSession
  <2> QED
    BY <1>6, <2>2, <2>3, ExactGetStatus, ExactRdGetAddr, ExactWrGetAddr DEF NoFaultInv
<1>7. CASE RdSetData \/ WrGetData
  <2>1. /\ mon.at \in {"set", "wrdata"} /\ guest' = guest /\ faults.here \in Nat
        /\ faults'.here \in {faults.here, faults.here + 1}
    BY <1>7, RdSetDataStep, WrGetDataStep
  <2>2. NoFault
    BY <2>1 DEF NoFault
  <2>3. InSession
    BY <2>1 DEF InSession
  <2> QED
    BY <1>7, <2>2, <2>3, ExactRdSetData, ExactWrGetData DEF NoFaultInv
<1>8. CASE Cont
  <2>1. /\ mon.at = "cont" /\ faults.here \in Nat
        /\ faults'.here \in {faults.here, faults.here + 1}
        /\ guest' = guest \/ Stalled
    BY <1>8, ContStep
  <2>2. NoFault
    BY <2>1 DEF NoFault
  <2>3. Stalled => guest.at # "off"
    BY DEF EmuType, StatusInv, Stalled
  <2>4. InSession
    BY <2>1, <2>3 DEF InSession
  <2> QED
    BY <1>8, <2>2, <2>4, ExactCont DEF NoFaultInv
<1>9. CASE Guest
  <2>1. /\ mon' = mon /\ faults' = faults /\ guest.at # "off"
    BY <1>9, GuestCallsStep, GuestInStep, GuestOutStep DEF Guest
  <2>2. InSession /\ NoFault
    BY <2>1 DEF InSession, NoFault
  <2> QED
    BY <1>9, <2>2, ExactGuestCalls, ExactGuestIn, ExactGuestOut DEF NoFaultInv, Guest
<1>10. CASE Type
  <2>1. /\ mon' = mon /\ faults' = faults /\ guest' = guest
    BY <1>10, TypeStep
  <2>2. InSession /\ NoFault
    BY <2>1 DEF InSession, NoFault
  <2> QED
    BY <1>10, <2>2, ExactType DEF NoFaultInv
<1> QED
  BY <1>1, <1>2, <1>3, <1>4, <1>5, <1>6, <1>7, <1>8, <1>9, <1>10 DEF Next, Loop

\* The byte in the monitor's hands is of port d; a byte written is not put out yet.
Holds(d) == mon.at \in {"set", "cont"} /\ sv.status = "IORD" /\ mon.ioaddr = Base(d)
Owes == sv.status = "IOWR" /\ mon.at # "cont"

LEMMA HandLen ==
    /\ \A d \in Devices : Len(InHand(d)) = IF Holds(d) THEN 1 ELSE 0
    /\ Len(Unwritten) = IF Owes THEN 1 ELSE 0
<1>1. /\ \A x : Len(<< x >>) = 1
      /\ Len(<< >>) = 0
  OBVIOUS
<1>2. \A d \in Devices : Base(d) + RBR = Base(d)
  BY TwoDevices DEF RBR
<1> QED
  BY <1>1, <1>2 DEF InHand, Unwritten, Holds, Owes

LEMMA HandLenNext ==
    /\ \A d \in Devices : Len(InHand(d)') = IF Holds(d)' THEN 1 ELSE 0
    /\ Len(Unwritten') = IF Owes' THEN 1 ELSE 0
<1>1. /\ \A x : Len(<< x >>) = 1
      /\ Len(<< >>) = 0
  OBVIOUS
<1>2. \A d \in Devices : Base(d) + RBR = Base(d)
  BY TwoDevices DEF RBR
<1> QED
  BY <1>1, <1>2 DEF InHand, Unwritten, Holds, Owes

\* The accounts, with the hands counted.
RdSum(d) ==
    /\ Holds(d) => InRange(Bal(d) + 1)
    /\ ~Holds(d) => InRange(Bal(d))
    /\ Misled => InRange(Bal(d) - 1) /\ InRange(Bal(d) + 1)
    /\ Mistaken => InRange(Bal(d)) /\ InRange(Bal(d) + 1)
    /\ Deceived(d) => InRange(Bal(d) + 1)
WrSum ==
    /\ Owes => InRange(WBal + 1)
    /\ ~Owes => InRange(WBal)
    /\ mon.at \in {"rdaddr", "set", "cont"} /\ sv.status = "RUN" => InRange(WBal - 1)
    /\ mon.at \in {"rdaddr", "set"} /\ sv.status = "IOWR" => InRange(WBal)
    /\ mon.at \in {"wraddr", "wrdata"} /\ sv.status # "IOWR"
          => InRange(WBal + 1) /\ InRange(WBal - 1)
    /\ mon.at = "wrdata" /\ sv.status = "IOWR" /\ mon.ioaddr # sv.ioaddr => InRange(WBal)
Sums == WrSum /\ \A d \in Devices : RdSum(d)

LEMMA CountsAre ==
    ASSUME EmuType
    PROVE  /\ faults.here \in Nat /\ WBal \in Int /\ \A d \in Devices : Bal(d) \in Int
           /\ \A d \in Devices : /\ Len(hist.got[d]) \in Nat /\ Len(Input(d)) \in Nat
                                 /\ Len(hist.fed[d]) \in Nat
           /\ Len(hist.out["com1"]) \in Nat /\ Len(hist.wrote) \in Nat
<1>1. \A d \in Devices : /\ Len(hist.got[d]) \in Nat /\ Len(Input(d)) \in Nat
                         /\ Len(hist.fed[d]) \in Nat
  BY SeqsOf, LenProperties
<1>2. Len(hist.out["com1"]) \in Nat /\ Len(hist.wrote) \in Nat
  BY SeqsOf, LenProperties
<1>3. faults.here \in Nat
  BY EmuAssumption DEF EmuType, Typed, FaultsType
<1> QED
  BY <1>1, <1>2, <1>3 DEF Bal, WBal

LEMMA SumsAre ==
    ASSUME EmuType PROVE  Sums <=> WrInv /\ \A d \in Devices : RdInv(d)
<1>1. \A d \in Devices : Bal(d) \in Int
  BY CountsAre
<1>2. WBal \in Int
  BY CountsAre
<1>3. \A d \in Devices : RdSum(d) <=> RdInv(d)
  <2> SUFFICES ASSUME NEW d \in Devices PROVE RdSum(d) <=> RdInv(d)
    OBVIOUS
  <2>1. InRange(Bal(d) + Len(InHand(d))) <=> (Holds(d) => InRange(Bal(d) + 1))
                                             /\ (~Holds(d) => InRange(Bal(d)))
    <3>1. CASE Holds(d)
      BY <3>1, HandLen
    <3>2. CASE ~Holds(d)
      <4>1. Bal(d) + 0 = Bal(d)
        BY <1>1
      <4> QED
        BY <3>2, <4>1, HandLen
    <3> QED
      BY <3>1, <3>2
  <2> QED
    BY <2>1 DEF RdSum, RdInv
<1>4. WrSum <=> WrInv
  <2>1. InRange(WBal + Len(Unwritten)) <=> (Owes => InRange(WBal + 1))
                                           /\ (~Owes => InRange(WBal))
    <3>1. CASE Owes
      BY <3>1, HandLen
    <3>2. CASE ~Owes
      <4>1. WBal + 0 = WBal
        BY <1>2
      <4> QED
        BY <3>2, <4>1, HandLen
    <3> QED
      BY <3>1, <3>2
  <2> QED
    BY <2>1 DEF WrSum, WrInv
<1> QED
  BY <1>3, <1>4 DEF Sums

LEMMA CountsStay ==
    ASSUME hist' = hist, port' = port
    PROVE  WBal' = WBal /\ \A d \in Devices : Bal(d)' = Bal(d) /\ Input(d)' = Input(d)
BY DEF WBal, Bal, Input

LEMMA SumsStart ==
    ASSUME EmuType, PreInv, Start, InSession'
    PROVE  Sums'
<1>1. /\ EmuType' /\ mon.at = "start" /\ mon'.at = "status" /\ port' = port
      /\ hist' = hist
      /\ faults.here \in Nat /\ faults'.here \in Nat /\ faults.here <= faults'.here
      /\ \/ sv' = sv /\ guest' = guest /\ guest.at # "off"
         \/ guest.at = "off" /\ guest' = GuestAt("idle") /\ sv'.status = "RUN"
         \/ faults'.here = faults.here + 1 /\ sv' = sv /\ guest' = guest
  BY StartStep
<1>2. /\ hist.got = Nothing /\ hist.out = Nothing
      /\ \A d \in Devices : Input(d) = hist.fed[d]
      /\ \/ hist.wrote = << >>
         \/ Len(hist.wrote) = 1 /\ sv.status \in {"IOWR", "STOP"}
      /\ faults.here = 0 => guest.at = "off" /\ hist.wrote = << >>
  BY <1>1 DEF PreInv, NoFault
<1>3. Len(<< >>) = 0
  OBVIOUS
<1>4. \A d \in Devices : Bal(d)' = 0
  <2> SUFFICES ASSUME NEW d \in Devices PROVE Bal(d)' = 0
    OBVIOUS
  <2>1. Bal(d)' = Bal(d)
    BY <1>1, CountsStay
  <2>2. Len(hist.got[d]) = 0 /\ Input(d) = hist.fed[d] /\ Len(hist.fed[d]) \in Nat
    BY <1>2, <1>3, NothingType, CountsAre
  <2> QED
    BY <2>1, <2>2 DEF Bal
<1>5. WBal' = -Len(hist.wrote) /\ Len(hist.wrote) \in Nat
  <2>1. Len(hist.out["com1"]) = 0
    BY <1>2, <1>3, NothingType, TwoDevices
  <2> QED
    BY <1>1, <2>1, CountsStay, CountsAre DEF WBal
<1>6. guest'.at # "off"
  BY DEF InSession
<1>7. GuestAt("idle").at = "idle"
  BY GuestAtType
<1>8. faults'.here = 0 => guest'.at = "idle"
  BY <1>1, <1>2, <1>6, <1>7
<1>9. ~Misled' /\ ~Mistaken' /\ \A d \in Devices : ~Holds(d)'
  BY <1>1 DEF Misled, Mistaken, Holds
<1>10. ASSUME NEW d \in Devices PROVE RdSum(d)'
  <2>1. Deceived(d)' => faults'.here > 0
    <3>1. Deceived(d)' => guest'.at = "recv"
      BY <1>1 DEF Deceived
    <3> QED
      BY <1>1, <1>8, <3>1
  <2> QED
    BY <1>1, <1>4, <1>9, <2>1 DEF RdSum, InRange
<1>11. WrSum'
  <2>1. CASE sv'.status = "IOWR"
    <3>1. Owes' /\ Len(hist.wrote) <= 1
      <4>1. hist.wrote = << >> => Len(hist.wrote) = 0
        BY <1>3
      <4>2. Len(hist.wrote) = 0 \/ Len(hist.wrote) = 1
        BY <1>2, <4>1
      <4>3. Len(hist.wrote) <= 1
        <5>1. PICK n \in Nat : n = Len(hist.wrote)
          BY <1>5
        <5>2. n = 0 \/ n = 1
          BY <4>2, <5>1
        <5>3. n <= 1
          BY <5>2
        <5> QED
          BY <5>1, <5>3
      <4> QED
        BY <1>1, <2>1, <4>3 DEF Owes
    <3>2. faults'.here > 0
      <4>1. guest'.at = "send"
        BY <1>1, <2>1 DEF EmuType, StatusInv
      <4> QED
        BY <1>1, <1>8, <4>1
    <3> QED
      BY <1>1, <1>5, <3>1, <3>2 DEF WrSum, InRange
  <2>2. CASE sv'.status # "IOWR"
    <3>1. ~Owes'
      BY <2>2 DEF Owes
    <3>2. Len(hist.wrote) = 0 \/ (Len(hist.wrote) = 1 /\ faults.here > 0)
      <4>1. CASE faults.here = 0
        BY <1>2, <1>3, <4>1
      <4>2. CASE faults.here # 0
        BY <1>1, <1>2, <1>3, <4>2
      <4> QED
        BY <4>1, <4>2
    <3>3. PICK n : n = Len(hist.wrote)
      OBVIOUS
    <3>4. WBal' = -n /\ (n = 0 \/ (n = 1 /\ faults'.here > 0))
      BY <1>1, <1>5, <3>2, <3>3
    <3>5. InRange(WBal)'
      BY <1>1, <3>4 DEF InRange
    <3> QED
      BY <1>1, <2>2, <3>1, <3>5 DEF WrSum
  <2> QED
    BY <2>1, <2>2
<1> QED
  BY <1>10, <1>11 DEF Sums

LEMMA SumsGetStatus ==
    ASSUME EmuType, Sums, GetStatus, InSession'
    PROVE  Sums'
<1>1. /\ mon.at = "status" /\ sv' = sv /\ guest' = guest /\ faults.here \in Nat
      /\ mon'.at \in {"prompt", "status", "rdaddr", "wraddr"}
      /\ mon'.at # "prompt" => port' = port /\ hist' = hist
      /\ \/ /\ faults'.here = faults.here
            /\ mon'.at = "rdaddr" => sv.status = "IORD"
            /\ mon'.at = "wraddr" => sv.status = "IOWR"
         \/ faults'.here = faults.here + 1
  BY GetStatusStep
<1>2. mon'.at # "prompt"
  BY DEF InSession
<1>3. WBal' = WBal /\ \A d \in Devices : Bal(d)' = Bal(d) /\ Input(d)' = Input(d)
  BY <1>1, <1>2, CountsStay
<1>4. WBal \in Int /\ \A d \in Devices : Bal(d) \in Int
  BY CountsAre
<1>5. ~Mistaken' /\ \A d \in Devices : ~Holds(d) /\ ~Holds(d)'
  BY <1>1 DEF Mistaken, Holds
<1>6. Misled' => faults'.here = faults.here + 1
  BY <1>1 DEF Misled
<1>7. Owes' = Owes
  BY <1>1 DEF Owes
<1>8. \A d \in Devices : Deceived(d)' => Deceived(d)
  BY <1>1, <1>3 DEF Deceived
<1>9. ASSUME NEW d \in Devices PROVE RdSum(d)'
  BY <1>1, <1>3, <1>4, <1>5, <1>6, <1>8 DEF Sums, RdSum, InRange
<1>10. WrSum'
  BY <1>1, <1>2, <1>3, <1>4, <1>7 DEF Sums, WrSum, InRange, Owes
<1> QED
  BY <1>9, <1>10 DEF Sums

\* Steps of the monitor alone, that neither take nor give a byte.
LEMMA SumsRdSetData ==
    ASSUME EmuType, Sums, RdSetData
    PROVE  Sums'
<1>1. /\ EmuType' /\ mon.at = "set" /\ mon'.at = "cont"
      /\ mon'.ioaddr = mon.ioaddr /\ mon'.iodata = mon.iodata
      /\ guest' = guest /\ hist' = hist /\ port' = port
      /\ sv'.status = sv.status /\ sv'.ioaddr = sv.ioaddr
      /\ faults.here \in Nat
      /\ \/ sv'.iodata = mon.iodata /\ faults'.here = faults.here
         \/ faults'.here = faults.here + 1
  BY RdSetDataStep
<1>2. WBal' = WBal /\ \A d \in Devices : Bal(d)' = Bal(d) /\ Input(d)' = Input(d)
  BY <1>1, CountsStay
<1>3. WBal \in Int /\ \A d \in Devices : Bal(d) \in Int
  BY CountsAre
<1>4. ~Misled' /\ (Mistaken' <=> Mistaken) /\ \A d \in Devices : Holds(d)' <=> Holds(d)
  BY <1>1 DEF Misled, Mistaken, Holds
<1>5. ASSUME NEW d \in Devices PROVE RdSum(d)'
  <2>1. Deceived(d)' => Deceived(d) \/ (faults'.here = faults.here + 1 /\ ~Mistaken)
                        \/ Mistaken
    BY <1>1, <1>2 DEF Deceived
  <2>2. CASE Deceived(d)' /\ ~Deceived(d) /\ ~Mistaken
    <3>1. InRange(Bal(d)) \/ InRange(Bal(d) + 1)
      BY DEF Sums, RdSum
    <3>2. faults'.here = faults.here + 1
      BY <2>1, <2>2
    <3> QED
      BY <1>1, <1>2, <1>3, <1>4, <3>2 DEF Sums, RdSum, InRange
  <2>3. CASE ~(Deceived(d)' /\ ~Deceived(d) /\ ~Mistaken)
    BY <1>1, <1>2, <1>3, <1>4, <2>3 DEF Sums, RdSum, InRange
  <2> QED
    BY <2>2, <2>3
<1>6. WrSum'
  BY <1>1, <1>2, <1>3 DEF Sums, WrSum, InRange, Owes
<1> QED
  BY <1>5, <1>6 DEF Sums

LEMMA SumsWrGetAddr ==
    ASSUME EmuType, Sums, WrGetAddr
    PROVE  Sums'
<1>1. /\ mon.at = "wraddr" /\ mon'.at = "wrdata"
      /\ guest' = guest /\ hist' = hist /\ port' = port /\ sv' = sv
      /\ faults.here \in Nat
      /\ \/ mon'.ioaddr = sv.ioaddr /\ faults'.here = faults.here
         \/ faults'.here = faults.here + 1
  BY WrGetAddrStep
<1>2. WBal' = WBal /\ \A d \in Devices : Bal(d)' = Bal(d) /\ Input(d)' = Input(d)
  BY <1>1, CountsStay
<1>3. WBal \in Int /\ \A d \in Devices : Bal(d) \in Int
  BY CountsAre
<1>4. /\ Misled' <=> Misled
      /\ ~Mistaken' /\ \A d \in Devices : ~Holds(d)' /\ ~Holds(d)
  BY <1>1 DEF Misled, Mistaken, Holds
<1>5. ASSUME NEW d \in Devices PROVE RdSum(d)'
  <2>1. Deceived(d)' => Deceived(d)
    BY <1>1, <1>2 DEF Deceived
  <2> QED
    BY <1>1, <1>2, <1>3, <1>4, <2>1 DEF Sums, RdSum, InRange
<1>6. WrSum'
  BY <1>1, <1>2, <1>3 DEF Sums, WrSum, InRange, Owes
<1> QED
  BY <1>5, <1>6 DEF Sums

\* A byte read for nobody, or for another one, is in the accounts from the start.
LEMMA SumsRdGetAddr ==
    ASSUME EmuType, Sums, RdGetAddr
    PROVE  Sums'
<1>1. /\ EmuType' /\ mon.at = "rdaddr" /\ sv' = sv /\ guest' = guest /\ hist' = hist
      /\ faults.here \in Nat
      /\ \/ mon'.ioaddr = sv.ioaddr /\ faults'.here = faults.here
         \/ faults'.here = faults.here + 1
         \/ mon'.at = "lost" /\ faults'.here = faults.here
      /\ \/ mon'.at = "lost" /\ port' = port
         \/ /\ mon'.at = "set"
            /\ \A d \in Devices :
                  /\ mon'.ioaddr # Base(d) => Input(d)' = Input(d)
                  /\ mon'.ioaddr = Base(d) /\ Input(d) # << >> =>
                        << mon'.iodata >> \o Input(d)' = Input(d)
                  /\ mon'.ioaddr = Base(d) /\ Input(d) = << >> => Input(d)' = << >>
                  /\ mon'.ioaddr = Base(d) + LSR /\ Odd(mon'.iodata \div 256) =>
                        port'[d].queue # << >>
  BY RdGetAddrStep
<1>2. WBal \in Int /\ \A d \in Devices : Bal(d) \in Int
  BY CountsAre
<1>3. WBal' = WBal
  BY <1>1 DEF WBal
<1>4. WrSum'
  BY <1>1, <1>2, <1>3 DEF Sums, WrSum, InRange, Owes
<1>5. CASE mon'.at = "lost" /\ port' = port
  <2>1. \A d \in Devices : Bal(d)' = Bal(d) /\ Input(d)' = Input(d)
    BY <1>1, <1>5, CountsStay
  <2>2. ~Misled' /\ ~Mistaken' /\ \A d \in Devices : ~Holds(d)' /\ ~Holds(d)
    BY <1>1, <1>5 DEF Misled, Mistaken, Holds
  <2>3. ASSUME NEW d \in Devices PROVE RdSum(d)'
    <3>1. Deceived(d)' => Deceived(d)
      BY <1>1, <1>5, <2>1 DEF Deceived
    <3> QED
      BY <1>1, <1>2, <2>1, <2>2, <3>1 DEF Sums, RdSum, InRange
  <2> QED
    BY <1>4, <2>3 DEF Sums
<1>6. CASE mon'.at = "set"
  <2>1. ASSUME NEW d \in Devices PROVE RdSum(d)'
    <3>1. /\ mon'.ioaddr # Base(d) => Input(d)' = Input(d)
          /\ mon'.ioaddr = Base(d) /\ Input(d) # << >> =>
                << mon'.iodata >> \o Input(d)' = Input(d)
          /\ mon'.ioaddr = Base(d) /\ Input(d) = << >> => Input(d)' = << >>
          /\ mon'.ioaddr = Base(d) + LSR /\ Odd(mon'.iodata \div 256) =>
                port'[d].queue # << >>
      BY <1>1, <1>6
    <3>2. ~Holds(d) /\ InRange(Bal(d))
      BY <1>1 DEF Sums, RdSum, Holds
    <3>3. Misled <=> sv.status # "IORD"
      BY <1>1 DEF Misled
    <3>4. ~Misled'
      BY <1>6 DEF Misled
    <3>5. /\ Holds(d)' <=> sv.status = "IORD" /\ mon'.ioaddr = Base(d)
          /\ Mistaken' <=> sv.status # "IOWR"
                           /\ ~(sv.status = "IORD" /\ mon'.ioaddr = sv.ioaddr)
      BY <1>1, <1>6 DEF Holds, Mistaken
    <3>6. Input(d) # << >> /\ mon'.ioaddr = Base(d) => Bal(d)' = Bal(d) - 1
      <4> SUFFICES ASSUME Input(d) # << >>, mon'.ioaddr = Base(d) PROVE Bal(d)' = Bal(d) - 1
        OBVIOUS
      <4>1. PICK S, i, x, b : S = Words /\ i = Input(d) /\ x = Input(d)' /\ b = mon'.iodata
        OBVIOUS
      <4>2. Input(d)' \in Seq(Bytes)
        BY <1>1, ConcatProperties DEF EmuType, Typed, PortType, QueueType, Input
      <4>3. \A z : z \in Bytes => z \in S
        BY <4>1, LanesB
      <4>4. x \in Seq(S)
        BY <4>1, <4>2, <4>3, SeqMonotonic
      <4>5. b \in S
        BY <1>1, <4>1 DEF EmuType, Typed, MonType
      <4>6. << b >> \o x = i
        BY <3>1, <4>1
      <4>7. Len(i) = Len(x) + 1 /\ Len(x) \in Nat
        <5>1. << b >> \in Seq(S) /\ Len(<< b >>) = 1
          BY <4>5
        <5>2. Len(<< b >> \o x) = Len(<< b >>) + Len(x) /\ Len(x) \in Nat
          BY <4>4, <5>1, ConcatProperties, LenProperties
        <5> QED
          BY <4>6, <5>1, <5>2
      <4>8. Bal(d)' = Len(hist.got[d]) + Len(x) - Len(hist.fed[d])
        BY <1>1, <4>1 DEF Bal
      <4>9. Bal(d) = Len(hist.got[d]) + Len(i) - Len(hist.fed[d])
        BY <4>1 DEF Bal
      <4>10. Len(hist.got[d]) \in Nat /\ Len(hist.fed[d]) \in Nat
        BY CountsAre
      <4> QED
        <5>1. PICK g \in Nat, f \in Nat, n \in Nat :
                 g = Len(hist.got[d]) /\ f = Len(hist.fed[d]) /\ n = Len(x)
          BY <4>7, <4>10
        <5>2. Bal(d)' = g + n - f /\ Bal(d) = g + (n + 1) - f
          BY <4>7, <4>8, <4>9, <5>1
        <5> QED
          BY <5>2
    <3>7. ~(Input(d) # << >> /\ mon'.ioaddr = Base(d)) =>
             Bal(d)' = Bal(d) /\ Input(d)' = Input(d)
      BY <1>1, <3>1 DEF Bal
    <3>8. CASE Input(d) # << >> /\ mon'.ioaddr = Base(d)
      <4>1. Deceived(d)' => InRange(Bal(d) + 1)'
        BY <1>1, <1>2, <3>2, <3>6, <3>8 DEF InRange
      <4>2. sv.status # "IORD" => InRange(Bal(d) - 1)
        BY <3>3 DEF Sums, RdSum
      <4>3. InRange(Bal(d) + 1)' /\ (sv.status # "IORD" => InRange(Bal(d))')
        BY <1>1, <1>2, <3>2, <3>6, <3>8, <4>2 DEF InRange
      <4>4. Mistaken' => InRange(Bal(d))'
        <5>1. Mistaken' => sv.status # "IORD" \/ faults'.here = faults.here + 1
          BY <1>1, <1>6, <3>5
        <5>2. faults'.here = faults.here + 1 => InRange(Bal(d))'
          BY <1>1, <1>2, <3>2, <3>6, <3>8 DEF InRange
        <5> QED
          BY <4>3, <5>1, <5>2
      <4>5. ~Holds(d)' => InRange(Bal(d))'
        BY <3>5, <3>8, <4>3
      <4> QED
        BY <3>4, <4>3, <4>4, <4>5 DEF RdSum
    <3>9. CASE ~(Input(d) # << >> /\ mon'.ioaddr = Base(d))
      <4>1. Bal(d)' = Bal(d) /\ Input(d)' = Input(d)
        BY <3>7, <3>9
      <4>2. InRange(Bal(d))'
        BY <1>1, <1>2, <3>2, <4>1 DEF InRange
      <4>3. Mistaken' \/ faults'.here = faults.here + 1 => InRange(Bal(d) + 1)'
        <5>1. Mistaken' => sv.status # "IORD" \/ faults'.here = faults.here + 1
          BY <1>1, <1>6, <3>5
        <5>2. sv.status # "IORD" => InRange(Bal(d) + 1)
          BY <3>3 DEF Sums, RdSum
        <5>3. sv.status # "IORD" => InRange(Bal(d) + 1)'
          BY <1>1, <1>2, <4>1, <5>2 DEF InRange
        <5>4. faults'.here = faults.here + 1 => InRange(Bal(d) + 1)'
          BY <1>1, <1>2, <3>2, <4>1 DEF InRange
        <5> QED
          BY <5>1, <5>3, <5>4
      <4>4. Holds(d)' \/ Deceived(d)' => InRange(Bal(d) + 1)'
        <5> SUFFICES ASSUME Holds(d)' \/ Deceived(d)', sv.status = "IORD" \/ guest.at = "recv",
                            ~Mistaken', faults'.here # faults.here + 1
                     PROVE  InRange(Bal(d) + 1)'
          BY <1>1, <4>3 DEF Holds, Deceived
        <5>1. CASE Deceived(d)
          BY <1>1, <1>2, <4>1, <5>1 DEF Sums, RdSum, InRange
        <5>2. CASE ~Deceived(d)
          <6>1. mon'.ioaddr = sv.ioaddr
            BY <1>1, <1>6
          <6>2. Input(d) = << >>
            BY <3>5, <3>9, <4>1 DEF Deceived
          <6>3. guest.at # "recv" \/ guest.dev # d
            BY <5>2, <6>2 DEF Deceived
          <6>4. sv.status = "IORD" \/ sv.status = "IOWR"
            BY <3>5, <6>1
          <6>5. sv.ioaddr = Address
            BY <6>4 DEF EmuType, StatusInv, Stalled
          <6>6. guest.dev \in Devices
            BY SeqsOf
          <6>7. /\ guest.at \in {"canrecv", "cansend"} => Odd(Address) /\ Address = Base(guest.dev) + LSR
                /\ guest.at \notin {"canrecv", "cansend"} => ~Odd(Address) /\ Address = Base(guest.dev) + RBR
            BY AddressType DEF EmuType, Typed
          <6>8. CASE Holds(d)'
            <7>1. sv.status = "IORD" /\ Address = Base(d)
              BY <3>5, <6>1, <6>5, <6>8
            <7>2. guest.at \in {"canrecv", "recv", "cansend"}
              BY <7>1 DEF EmuType, StatusInv
            <7>3. ~Odd(Address)
              BY <7>1, TwoDevices DEF Odd
            <7>4. guest.at = "recv"
              BY <6>7, <7>2, <7>3
            <7>5. Base(guest.dev) = Base(d)
              BY <6>6, <6>7, <7>1, <7>4, TwoDevices DEF RBR
            <7> QED
              BY <6>3, <6>6, <7>4, <7>5, TwoDevices
          <6>9. CASE Deceived(d)'
            <7>1. guest.at = "canrecv" /\ guest.dev = d /\ Odd(mon'.iodata \div 256)
              BY <1>1, <1>6, <6>3, <6>9 DEF Deceived
            <7>2. mon'.ioaddr = Base(d) + LSR
              BY <6>1, <6>5, <6>7, <7>1
            <7>3. port'[d].queue # << >>
              BY <3>1, <7>1, <7>2
            <7>4. Input(d)' # << >>
              <8>1. port'[d].queue \in Seq(Bytes) /\ port'[d].fd \in Seq(Bytes)
                BY <1>1 DEF EmuType, Typed, PortType, QueueType
              <8>2. PICK S, q, f : S = Bytes /\ q = port'[d].queue /\ f = port'[d].fd
                OBVIOUS
              <8>3. q \in Seq(S) /\ f \in Seq(S)
                BY <8>1, <8>2
              <8>4. q \o f = << >> => q = << >>
                BY <8>3, ConcatEqualIffEmpty
              <8> QED
                BY <7>3, <8>2, <8>4 DEF Input
            <7> QED
              BY <4>1, <6>2, <7>4
          <6> QED
            BY <6>8, <6>9
        <5> QED
          BY <5>1, <5>2
      <4> QED
        BY <3>4, <4>2, <4>3, <4>4 DEF RdSum
    <3> QED
      BY <3>8, <3>9
  <2> QED
    BY <1>4, <2>1 DEF Sums
<1> QED
  BY <1>1, <1>5, <1>6

LEMMA LongerByOne ==
    ASSUME NEW s \in Seq(Bytes), NEW b \in Bytes
    PROVE  Len(Append(s, b)) = Len(s) + 1 /\ Len(s) \in Nat
<1>1. PICK S : S = Bytes
  OBVIOUS
<1>2. s \in Seq(S) /\ b \in S
  BY <1>1
<1> QED
  BY <1>2, AppendProperties, LenProperties

LEMMA SumsWrGetData ==
    ASSUME EmuType, Sums, WrGetData
    PROVE  Sums'
<1>1. /\ mon.at = "wrdata" /\ guest' = guest /\ sv' = sv /\ port' = port
      /\ hist'.fed = hist.fed /\ hist'.got = hist.got /\ hist'.wrote = hist.wrote
      /\ faults.here \in Nat
      /\ faults'.here = faults.here \/ faults'.here = faults.here + 1
      /\ \/ mon'.at = "lost" /\ hist' = hist
         \/ /\ mon'.at = "cont" /\ mon'.ioaddr = mon.ioaddr
            /\ mon.ioaddr # 1016 => hist'.out["com1"] = hist.out["com1"]
            /\ mon.ioaddr = 1016 => \E w \in Words :
                  /\ hist'.out["com1"] = Append(hist.out["com1"], w % 256)
                  /\ faults'.here = faults.here => w = sv.iodata
  BY WrGetDataStep
<1>2. WBal \in Int /\ \A d \in Devices : Bal(d) \in Int
  BY CountsAre
<1>3. \A d \in Devices : Bal(d)' = Bal(d) /\ Input(d)' = Input(d)
  BY <1>1 DEF Bal, Input
<1>4. ASSUME NEW d \in Devices PROVE RdSum(d)'
  <2>1. ~Holds(d) /\ ~Misled' /\ (Misled <=> sv.status # "IOWR")
    BY <1>1 DEF Holds, Misled
  <2>2. Mistaken' => sv.status # "IOWR"
    BY <1>1 DEF Mistaken
  <2>3. Holds(d)' => sv.status = "IORD"
    BY <1>1 DEF Holds
  <2>4. Deceived(d)' => Deceived(d) \/ sv.status = "IORD"
    BY <1>1, <1>3 DEF Deceived
  <2> QED
    BY <1>1, <1>2, <1>3, <2>1, <2>2, <2>3, <2>4 DEF Sums, RdSum, InRange
<1>5. CASE mon'.at = "lost" /\ hist' = hist
  <2>1. WBal' = WBal
    BY <1>5 DEF WBal
  <2>2. WrSum'
    BY <1>1, <1>2, <1>5, <2>1 DEF Sums, WrSum, InRange, Owes
  <2> QED
    BY <1>4, <2>2 DEF Sums
<1>6. CASE mon'.at = "cont"
  <2>1. mon.ioaddr = 1016 => WBal' = WBal + 1
    <3> SUFFICES ASSUME mon.ioaddr = 1016 PROVE WBal' = WBal + 1
      OBVIOUS
    <3>1. PICK w \in Words : hist'.out["com1"] = Append(hist.out["com1"], w % 256)
      BY <1>1, <1>6
    <3>2. PICK b : b = w % 256
      OBVIOUS
    <3>3. b \in Bytes
      BY <3>1, <3>2, Lanes
    <3>4. Len(hist'.out["com1"]) = Len(hist.out["com1"]) + 1
      BY <3>1, <3>2, <3>3, LongerByOne, SeqsOf
    <3>5. PICK o \in Nat, n \in Nat : o = Len(hist.out["com1"]) /\ n = Len(hist.wrote)
      BY CountsAre
    <3>6. WBal' = (o + 1) - n /\ WBal = o - n
      BY <1>1, <3>4, <3>5 DEF WBal
    <3> QED
      BY <3>6
  <2>2. mon.ioaddr # 1016 => WBal' = WBal
    BY <1>1, <1>6 DEF WBal
  <2>3. sv.status = "IOWR" => sv.ioaddr = 1016
    <3> SUFFICES ASSUME sv.status = "IOWR" PROVE sv.ioaddr = 1016
      OBVIOUS
    <3>1. sv.ioaddr = Address /\ guest.at = "send" /\ guest.dev = "com1"
      BY DEF EmuType, StatusInv, Stalled
    <3>2. Address = Base("com1") + RBR
      BY <3>1, AddressType DEF EmuType, Typed
    <3> QED
      BY <3>1, <3>2, TwoDevices DEF RBR
  <2>4. ~Owes'
    BY <1>6 DEF Owes
  <2>7. WrSum'
    <3>1. ASSUME sv.status = "IOWR" PROVE WrSum'
      <4>1. Owes
        BY <1>1, <3>1 DEF Owes
      <4>2. InRange(WBal + 1)
        BY <4>1 DEF Sums, WrSum
      <4>3. mon.ioaddr # 1016 => InRange(WBal)
        BY <1>1, <2>3, <3>1 DEF Sums, WrSum
      <4>4. InRange(WBal)'
        BY <1>1, <1>2, <2>1, <2>2, <4>2, <4>3 DEF InRange
      <4> QED
        BY <1>1, <1>6, <2>4, <3>1, <4>4 DEF WrSum
    <3>2. ASSUME sv.status # "IOWR" PROVE WrSum'
      <4>1. ~Owes /\ InRange(WBal)
        BY <3>2 DEF Owes, Sums, WrSum
      <4>2. InRange(WBal + 1) /\ InRange(WBal - 1)
        BY <1>1, <3>2 DEF Sums, WrSum
      <4>3. InRange(WBal)' /\ InRange(WBal - 1)'
        <5>1. CASE WBal' = WBal
          BY <1>1, <1>2, <4>1, <4>2, <5>1 DEF InRange
        <5>2. CASE WBal' = WBal + 1
          BY <1>1, <1>2, <4>1, <4>2, <5>2 DEF InRange
        <5> QED
          BY <2>1, <2>2, <5>1, <5>2
      <4> QED
        BY <1>1, <1>6, <2>4, <4>3 DEF WrSum
    <3> QED
      BY <3>1, <3>2
  <2> QED
    BY <1>4, <2>7 DEF Sums
<1> QED
  BY <1>1, <1>5, <1>6

\* A byte arrives at the guest: it was in the monitor's hands, or is accounted for.
LEMMA SumsCont ==
    ASSUME EmuType, Sums, Cont
    PROVE  Sums'
<1>1. /\ EmuType' /\ mon.at = "cont" /\ mon'.at = "status" /\ port' = port
      /\ hist'.fed = hist.fed /\ hist'.wrote = hist.wrote /\ hist'.out = hist.out
      /\ faults.here \in Nat
      /\ faults'.here = faults.here \/ faults'.here = faults.here + 1
      /\ \/ ~Stalled /\ sv' = sv /\ guest' = guest /\ hist' = hist
         \/ faults'.here = faults.here + 1 /\ sv' = sv /\ guest' = guest /\ hist' = hist
         \/ /\ Stalled /\ GuestByte \in Bytes
            /\ sv'.status = "RUN" /\ guest'.at # "off"
            /\ hist'.got = IF guest.at = "recv"
                           THEN [hist.got EXCEPT ![guest.dev] = Append(@, GuestByte)]
                           ELSE hist.got
            /\ guest'.at = "recv" =>
                  /\ guest.at = "canrecv" /\ guest'.dev = guest.dev
                  /\ Odd(GuestByte) /\ sv.status = "IORD"
  BY ContStep
<1>2. WBal \in Int /\ \A d \in Devices : Bal(d) \in Int
  BY CountsAre
<1>3. WBal' = WBal /\ \A d \in Devices : Input(d)' = Input(d)
  BY <1>1 DEF WBal, Input
<1>4. ~Owes
  BY <1>1 DEF Owes
<1>5. ~Misled' /\ ~Mistaken' /\ \A d \in Devices : ~Holds(d)'
  BY <1>1 DEF Misled, Mistaken, Holds
<1>6. CASE /\ sv' = sv /\ guest' = guest /\ hist' = hist
           /\ ~Stalled \/ faults'.here = faults.here + 1
  <2>1. \A d \in Devices : Bal(d)' = Bal(d)
    BY <1>1, <1>6, CountsStay
  <2>2. ASSUME NEW d \in Devices PROVE RdSum(d)'
    <3>1. Holds(d) => Stalled
      BY DEF Holds, Stalled
    <3>2. Deceived(d)' => Deceived(d)
      BY <1>1, <1>3, <1>6 DEF Deceived
    <3>3. InRange(Bal(d))'
      <4>1. CASE Holds(d)
        <5>1. faults'.here = faults.here + 1
          BY <1>6, <3>1, <4>1
        <5> QED
          BY <1>1, <1>2, <2>1, <4>1, <5>1 DEF Sums, RdSum, InRange
      <4>2. CASE ~Holds(d)
        BY <1>1, <1>2, <2>1, <4>2 DEF Sums, RdSum, InRange
      <4> QED
        BY <4>1, <4>2
    <3>4. Deceived(d)' => InRange(Bal(d) + 1)'
      BY <1>1, <1>2, <2>1, <3>2 DEF Sums, RdSum, InRange
    <3> QED
      BY <1>5, <3>3, <3>4 DEF RdSum
  <2>3. WrSum'
    <3>1. Owes' => Stalled
      BY <1>6 DEF Owes, Stalled
    <3>2. Owes' => InRange(WBal + 1)'
      BY <1>1, <1>2, <1>3, <1>4, <1>6, <3>1 DEF Sums, WrSum, InRange
    <3>3. InRange(WBal)'
      BY <1>1, <1>2, <1>3, <1>4 DEF Sums, WrSum, InRange
    <3> QED
      BY <1>1, <3>2, <3>3 DEF WrSum
  <2> QED
    BY <2>2, <2>3 DEF Sums
<1>7. CASE /\ Stalled /\ GuestByte \in Bytes
           /\ sv'.status = "RUN" /\ guest'.at # "off"
           /\ hist'.got = IF guest.at = "recv"
                          THEN [hist.got EXCEPT ![guest.dev] = Append(@, GuestByte)]
                          ELSE hist.got
           /\ guest'.at = "recv" =>
                 /\ guest.at = "canrecv" /\ guest'.dev = guest.dev
                 /\ Odd(GuestByte) /\ sv.status = "IORD"
  <2>1. ~Owes'
    BY <1>7 DEF Owes
  <2>2. WrSum'
    <3>1. InRange(WBal)'
      BY <1>1, <1>2, <1>3, <1>4 DEF Sums, WrSum, InRange
    <3> QED
      BY <1>1, <2>1, <3>1 DEF WrSum
  <2>3. /\ sv.ioaddr = Address /\ guest.dev \in Devices
        /\ sv.status = "IORD" => guest.at \in {"canrecv", "recv", "cansend"}
        /\ sv.status = "IOWR" => guest.at = "send"
        /\ sv.status = "IORD" \/ sv.status = "IOWR"
    BY <1>7, SeqsOf DEF EmuType, StatusInv, Stalled
  <2>4. /\ guest.at \in {"canrecv", "cansend"} => Odd(Address) /\ Address = Base(guest.dev) + LSR
        /\ guest.at \notin {"canrecv", "cansend"} => ~Odd(Address) /\ Address = Base(guest.dev) + RBR
    BY AddressType DEF EmuType, Typed
  <2>5. ASSUME NEW d \in Devices PROVE RdSum(d)'
    <3>1. CASE guest.at = "recv" /\ guest.dev = d
      <4>1. Bal(d)' = Bal(d) + 1
        <5>1. hist'.got[d] = Append(hist.got[d], GuestByte)
          BY <1>7, <2>3, <3>1 DEF EmuType, Typed, HistType
        <5>2. Len(hist'.got[d]) = Len(hist.got[d]) + 1
          BY <1>7, <5>1, SeqsOf, LongerByOne
        <5>3. PICK g \in Nat, i \in Nat, f \in Nat :
                 g = Len(hist.got[d]) /\ i = Len(Input(d)) /\ f = Len(hist.fed[d])
          BY CountsAre
        <5>4. Bal(d)' = (g + 1) + i - f /\ Bal(d) = g + i - f
          BY <1>1, <1>3, <5>2, <5>3 DEF Bal
        <5> QED
          BY <5>4
      <4>2. sv.status = "IORD" /\ Address = Base(d)
        BY <2>3, <2>4, <3>1, TwoDevices DEF RBR
      <4>3. InRange(Bal(d) + 1)
        <5>1. CASE mon.ioaddr = sv.ioaddr
          <6>1. Holds(d)
            BY <1>1, <2>3, <4>2, <5>1 DEF Holds
          <6> QED
            BY <6>1 DEF Sums, RdSum
        <5>2. CASE mon.ioaddr # sv.ioaddr
          <6>1. Mistaken
            BY <1>1, <4>2, <5>2 DEF Mistaken
          <6> QED
            BY <6>1 DEF Sums, RdSum
        <5> QED
          BY <5>1, <5>2
      <4>4. InRange(Bal(d))'
        BY <1>1, <1>2, <4>1, <4>3 DEF InRange
      <4>5. ~Deceived(d)'
        <5>1. guest'.at # "recv"
          BY <1>7, <3>1
        <5> QED
          BY <1>1, <5>1 DEF Deceived
      <4> QED
        BY <1>5, <4>4, <4>5 DEF RdSum
    <3>2. CASE ~(guest.at = "recv" /\ guest.dev = d)
      <4>1. Bal(d)' = Bal(d)
        <5>1. hist'.got[d] = hist.got[d]
          BY <1>7, <2>3, <3>2 DEF EmuType, Typed, HistType
        <5> QED
          BY <1>1, <1>3, <5>1 DEF Bal
      <4>2. InRange(Bal(d))
        <5>1. CASE Holds(d)
          <6>1. Mistaken
            <7> SUFFICES ASSUME mon.ioaddr = sv.ioaddr PROVE FALSE
              BY <1>1, <5>1 DEF Holds, Mistaken
            <7>1. sv.status = "IORD" /\ Address = Base(d)
              BY <2>3, <5>1 DEF Holds
            <7>2. ~Odd(Address)
              BY <7>1, TwoDevices DEF Odd
            <7>3. guest.at = "recv"
              BY <2>3, <2>4, <7>1, <7>2
            <7>4. Base(guest.dev) = Base(d)
              BY <2>3, <2>4, <7>1, <7>3, TwoDevices DEF RBR
            <7> QED
              BY <2>3, <3>2, <7>3, <7>4, TwoDevices
          <6> QED
            BY <6>1 DEF Sums, RdSum
        <5>2. CASE ~Holds(d)
          BY <5>2 DEF Sums, RdSum
        <5> QED
          BY <5>1, <5>2
      <4>3. InRange(Bal(d))'
        BY <1>1, <1>2, <4>1, <4>2 DEF InRange
      <4>4. Deceived(d)' => Deceived(d)
        <5> SUFFICES ASSUME Deceived(d)' PROVE Deceived(d)
          OBVIOUS
        <5>1. guest'.at = "recv" /\ guest'.dev = d /\ Input(d) = << >>
          BY <1>1, <1>3 DEF Deceived
        <5>2. guest.at = "canrecv" /\ guest.dev = d /\ Odd(GuestByte) /\ sv.status = "IORD"
          BY <1>7, <5>1
        <5>3. GuestByte = sv.iodata \div 256
          BY <2>4, <5>2 DEF GuestByte
        <5> QED
          BY <1>1, <5>1, <5>2, <5>3 DEF Deceived
      <4>5. Deceived(d)' => InRange(Bal(d) + 1)'
        BY <1>1, <1>2, <4>1, <4>4 DEF Sums, RdSum, InRange
      <4> QED
        BY <1>5, <4>3, <4>5 DEF RdSum
    <3> QED
      BY <3>1, <3>2
  <2> QED
    BY <2>2, <2>5 DEF Sums
<1> QED
  BY <1>1, <1>6, <1>7

\* The guest calls uart.c, or is stalled on a read.
LEMMA SumsGuestCalls ==
    ASSUME EmuType, Sums, GuestReads \/ GuestWrites
    PROVE  Sums'
<1>1. /\ UNCHANGED << sv, mon, devs, port, faults, session, hist >>
      /\ guest'.at \in {"canrecv", "cansend"} /\ ~Stalled
  BY GuestCallsStep
<1>2. WBal' = WBal /\ \A d \in Devices : Bal(d)' = Bal(d)
  BY <1>1, CountsStay
<1>3. ASSUME NEW d \in Devices PROVE RdSum(d)'
  <2>1. ~Deceived(d)'
    BY <1>1 DEF Deceived, Stalled
  <2>2. (Holds(d)' <=> Holds(d)) /\ (Misled' <=> Misled) /\ (Mistaken' <=> Mistaken)
    BY <1>1 DEF Holds, Misled, Mistaken
  <2> QED
    BY <1>1, <1>2, <2>1, <2>2 DEF Sums, RdSum, InRange
<1>4. WrSum'
  BY <1>1, <1>2 DEF Sums, WrSum, InRange, Owes
<1> QED
  BY <1>3, <1>4 DEF Sums

LEMMA SumsGuestIn ==
    ASSUME EmuType, Sums, GuestIn
    PROVE  Sums'
<1>1. /\ UNCHANGED << guest, mon, devs, port, faults, session, hist >>
      /\ sv.status = "RUN" /\ sv'.status = "IORD"
  BY GuestInStep
<1>2. WBal' = WBal /\ \A d \in Devices : Bal(d)' = Bal(d) /\ Input(d)' = Input(d)
  BY <1>1, CountsStay
<1>3. ASSUME NEW d \in Devices PROVE RdSum(d)'
  <2>1. ~Holds(d) /\ InRange(Bal(d))
    BY <1>1 DEF Sums, RdSum, Holds
  <2>2. Mistaken <=> mon.at \in {"set", "cont"}
    BY <1>1 DEF Mistaken
  <2>3. /\ Holds(d)' => Mistaken
        /\ Mistaken' => Mistaken
        /\ Misled' => Misled
        /\ Deceived(d)' => Deceived(d) \/ Mistaken
    BY <1>1, <1>2, <2>2 DEF Holds, Mistaken, Misled, Deceived
  <2>4. /\ Mistaken => InRange(Bal(d) + 1)
        /\ Misled => InRange(Bal(d) - 1) /\ InRange(Bal(d) + 1)
        /\ Deceived(d) => InRange(Bal(d) + 1)
    BY DEF Sums, RdSum
  <2>5. /\ InRange(Bal(d))' <=> InRange(Bal(d))
        /\ InRange(Bal(d) + 1)' <=> InRange(Bal(d) + 1)
        /\ InRange(Bal(d) - 1)' <=> InRange(Bal(d) - 1)
    BY <1>1, <1>2 DEF InRange
  <2> QED
    BY <2>1, <2>3, <2>4, <2>5 DEF RdSum
<1>4. WrSum'
  BY <1>1, <1>2 DEF Sums, WrSum, InRange, Owes
<1> QED
  BY <1>3, <1>4 DEF Sums

\* The guest writes a byte, which the monitor owes from then on.
LEMMA SumsGuestOut ==
    ASSUME EmuType, Sums, GuestOut
    PROVE  Sums'
<1>1. /\ UNCHANGED << guest, mon, devs, port, faults, session >>
      /\ sv.status = "RUN" /\ sv'.status = "IOWR" /\ guest.at = "send"
      /\ hist'.fed = hist.fed /\ hist'.got = hist.got /\ hist'.out = hist.out
      /\ hist'.wrote = Append(hist.wrote, Len(hist.wrote) + 1)
  BY GuestOutStep
<1>2. \A d \in Devices : Bal(d)' = Bal(d) /\ Input(d)' = Input(d)
  BY <1>1 DEF Bal, Input
<1>3. WBal \in Int /\ faults.here \in Nat
  BY CountsAre
<1>4. WBal' = WBal - 1
  <2>1. PICK s, b, n : s = hist.wrote /\ b = Len(hist.wrote) + 1 /\ n = Len(hist.wrote)
    OBVIOUS
  <2>2. s \in Seq(Bytes) /\ n \in Nat
    BY <2>1, SeqsOf, CountsAre
  <2>3. PICK S : S = Bytes \cup {b}
    OBVIOUS
  <2>4. s \in Seq(S) /\ b \in S
    BY <2>2, <2>3, SeqMonotonic
  <2>5. Len(Append(s, b)) = Len(s) + 1
    BY <2>4, AppendProperties
  <2>6. PICK o \in Nat : o = Len(hist.out["com1"])
    BY CountsAre
  <2>7. WBal = o - n /\ WBal' = o - (n + 1)
    BY <1>1, <2>1, <2>5, <2>6 DEF WBal
  <2> QED
    BY <2>2, <2>7
<1>5. ASSUME NEW d \in Devices PROVE RdSum(d)'
  <2>1. ~Holds(d) /\ ~Holds(d)' /\ InRange(Bal(d))
    BY <1>1 DEF Sums, RdSum, Holds
  <2>2. (Misled' => Misled) /\ ~Mistaken' /\ ~Deceived(d)'
    BY <1>1 DEF Misled, Mistaken, Deceived
  <2> QED
    BY <1>1, <1>2, <2>1, <2>2 DEF Sums, RdSum, InRange
<1>6. WrSum'
  <2>1. ~Owes /\ InRange(WBal) /\ (Owes' <=> mon.at # "cont")
    BY <1>1 DEF Owes, Sums, WrSum
  <2>2. mon.at \in {"rdaddr", "set", "cont", "wrdata"} => InRange(WBal - 1)
    BY <1>1 DEF Sums, WrSum
  <2>3. InRange(WBal + 1)' /\ (InRange(WBal - 1) => InRange(WBal)')
    BY <1>1, <1>3, <1>4, <2>1 DEF InRange
  <2> QED
    BY <1>1, <2>1, <2>2, <2>3 DEF WrSum
<1> QED
  BY <1>5, <1>6 DEF Sums

\* A byte typed is fed and waits to be read.
LEMMA SumsType ==
    ASSUME EmuType, Sums, Type
    PROVE  Sums'
<1>1. /\ EmuType' /\ UNCHANGED << guest, sv, mon, faults >>
      /\ hist'.got = hist.got /\ hist'.out = hist.out /\ hist'.wrote = hist.wrote
      /\ \A d \in Devices : \E x \in Seq(Bytes) :
            Input(d)' = Input(d) \o x /\ hist'.fed[d] = hist.fed[d] \o x
  BY TypeStep
<1>2. WBal' = WBal
  BY <1>1 DEF WBal
<1>3. ASSUME NEW d \in Devices
      PROVE  Bal(d)' = Bal(d) /\ (Input(d)' = << >> => Input(d) = << >>)
  <2>1. PICK x \in Seq(Bytes) : Input(d)' = Input(d) \o x /\ hist'.fed[d] = hist.fed[d] \o x
    BY <1>1
  <2>2. PICK S, i, f : S = Bytes /\ i = Input(d) /\ f = hist.fed[d]
    OBVIOUS
  <2>3. i \in Seq(S) /\ f \in Seq(S) /\ x \in Seq(S)
    BY <2>1, <2>2, SeqsOf
  <2>4. /\ Len(i \o x) = Len(i) + Len(x) /\ Len(f \o x) = Len(f) + Len(x)
        /\ i \o x = << >> => i = << >>
    BY <2>3, ConcatProperties, ConcatEqualIffEmpty
  <2>5. PICK g \in Nat, m \in Nat, n \in Nat, k \in Nat :
           g = Len(hist.got[d]) /\ m = Len(i) /\ n = Len(f) /\ k = Len(x)
    BY <2>2, <2>3, CountsAre, LenProperties
  <2>6. Bal(d) = g + m - n /\ Bal(d)' = g + (m + k) - (n + k)
    BY <1>1, <2>1, <2>2, <2>4, <2>5 DEF Bal
  <2>7. Bal(d)' = Bal(d)
    <3>1. g + (m + k) - (n + k) = g + m - n
      OBVIOUS
    <3> QED
      BY <2>6, <3>1
  <2> QED
    BY <2>1, <2>2, <2>4, <2>7
<1>4. ASSUME NEW d \in Devices PROVE RdSum(d)'
  <2>1. Deceived(d)' => Deceived(d)
    BY <1>1, <1>3 DEF Deceived
  <2>2. (Holds(d)' <=> Holds(d)) /\ (Misled' <=> Misled) /\ (Mistaken' <=> Mistaken)
    BY <1>1 DEF Holds, Misled, Mistaken
  <2> QED
    BY <1>1, <1>3, <2>1, <2>2 DEF Sums, RdSum, InRange
<1>5. WrSum'
  BY <1>1, <1>2 DEF Sums, WrSum, InRange, Owes
<1> QED
  BY <1>4, <1>5 DEF Sums

LEMMA SumsAreNext ==
    ASSUME EmuType' PROVE  Sums' => WrInv' /\ \A d \in Devices : RdInv(d)'
<1>1. \A d \in Devices : Bal(d)' \in Int
  <2>1. \A d \in Devices : /\ hist'.got[d] \in Seq(Bytes) /\ hist'.fed[d] \in Seq(Bytes)
                           /\ port'[d].queue \in Seq(Bytes) /\ port'[d].fd \in Seq(Bytes)
    BY DEF EmuType, Typed, HistType, PortType, QueueType
  <2>2. \A d \in Devices : Input(d)' \in Seq(Bytes)
    BY <2>1, ConcatProperties DEF Input
  <2>3. \A d \in Devices : /\ Len(hist'.got[d]) \in Nat /\ Len(hist'.fed[d]) \in Nat
                           /\ Len(Input(d)') \in Nat
    BY <2>1, <2>2, LenProperties
  <2> QED
    BY <2>3 DEF Bal
<1>2. WBal' + 0 = WBal'
  <2>1. hist'.out["com1"] \in Seq(Bytes) /\ hist'.wrote \in Seq(Bytes)
    BY TwoDevices DEF EmuType, Typed, HistType
  <2>2. Len(hist'.out["com1"]) \in Nat /\ Len(hist'.wrote) \in Nat
    BY <2>1, LenProperties
  <2> QED
    BY <2>2 DEF WBal
<1>3. ASSUME Sums', NEW d \in Devices PROVE RdInv(d)'
  <2>1. CASE Holds(d)'
    <3>1. Len(InHand(d)') = 1
      BY <2>1, HandLenNext
    <3> QED
      BY <1>3, <2>1, <3>1 DEF Sums, RdSum, RdInv
  <2>2. CASE ~Holds(d)'
    <3>1. Len(InHand(d)') = 0
      BY <2>2, HandLenNext
    <3>2. Bal(d)' + 0 = Bal(d)'
      BY <1>1
    <3> QED
      BY <1>3, <2>2, <3>1, <3>2 DEF Sums, RdSum, RdInv
  <2> QED
    BY <2>1, <2>2
<1>4. ASSUME Sums' PROVE WrInv'
  <2>1. CASE Owes'
    <3>1. Len(Unwritten') = 1
      BY <2>1, HandLenNext
    <3> QED
      BY <1>4, <2>1, <3>1 DEF Sums, WrSum, WrInv
  <2>2. CASE ~Owes'
    <3>1. Len(Unwritten') = 0
      BY <2>2, HandLenNext
    <3> QED
      BY <1>2, <1>4, <2>2, <3>1 DEF Sums, WrSum, WrInv
  <2> QED
    BY <2>1, <2>2
<1> QED
  BY <1>3, <1>4

LEMMA DamageInvNext ==
    ASSUME EmuType, PreInv, DamageInv, Next
    PROVE  DamageInv'
<1>0. EmuType'
  BY PreInvNext
<1> SUFFICES ASSUME InSession' PROVE Sums'
  BY <1>0, SumsAreNext DEF DamageInv
<1>00. InSession => Sums
  BY SumsAre DEF DamageInv
<1>1. CASE Stop
  BY <1>1, StopStep DEF InSession
<1>2. CASE Start
  BY <1>2, SumsStart
<1>3. CASE Sysemu
  <2>1. mon'.at = "stop"
    BY <1>3, SysemuStep DEF Sysemu, PreInv
  <2> QED
    BY <2>1 DEF InSession
<1>4. CASE Restart
  BY <1>4, RestartStep DEF InSession
<1>5. CASE BoardReset
  BY <1>5, BoardResetStep DEF InSession
<1>6. CASE GetStatus \/ RdGetAddr \/ WrGetAddr
  <2>1. mon.at \in {"status", "rdaddr", "wraddr"} /\ guest' = guest
    BY <1>6, GetStatusStep, RdGetAddrStep, WrGetAddrStep
  <2>2. Sums
    BY <1>00, <2>1 DEF InSession
  <2> QED
    BY <1>6, <2>2, SumsGetStatus, SumsRdGetAddr, SumsWrGetAddr
<1>7. CASE RdSetData \/ WrGetData
  <2>1. mon.at \in {"set", "wrdata"} /\ guest' = guest
    BY <1>7, RdSetDataStep, WrGetDataStep
  <2>2. Sums
    BY <1>00, <2>1 DEF InSession
  <2> QED
    BY <1>7, <2>2, SumsRdSetData, SumsWrGetData
<1>8. CASE Cont
  <2>1. mon.at = "cont" /\ (guest' = guest \/ Stalled)
    BY <1>8, ContStep
  <2>2. Stalled => guest.at # "off"
    BY DEF EmuType, StatusInv, Stalled
  <2>3. Sums
    BY <1>00, <2>1, <2>2 DEF InSession
  <2> QED
    BY <1>8, <2>3, SumsCont
<1>9. CASE Guest
  <2>1. mon' = mon /\ guest.at # "off"
    BY <1>9, GuestCallsStep, GuestInStep, GuestOutStep DEF Guest
  <2>2. Sums
    BY <1>00, <2>1 DEF InSession
  <2> QED
    BY <1>9, <2>2, SumsGuestCalls, SumsGuestIn, SumsGuestOut DEF Guest
<1>10. CASE Type
  <2>1. mon' = mon /\ guest' = guest
    BY <1>10, TypeStep
  <2>2. Sums
    BY <1>00, <2>1 DEF InSession
  <2> QED
    BY <1>10, <2>2, SumsType
<1> QED
  BY <1>1, <1>2, <1>3, <1>4, <1>5, <1>6, <1>7, <1>8, <1>9, <1>10 DEF Next, Loop

LEMMA EmuInvariant == Spec => []EmuInv
<1>1. Init => EmuInv
  BY EmuTypeInit DEF EmuInv
<1>2. EmuInv /\ [Next]_emuVars => EmuInv'
  <2> SUFFICES ASSUME EmuInv, [Next]_emuVars PROVE EmuInv'
    OBVIOUS
  <2>1. EmuType /\ PreInv /\ NoFaultInv /\ DamageInv
    BY DEF EmuInv
  <2>2. CASE Next
    <3>1. EmuType' /\ PreInv' /\ NoFaultInv' /\ DamageInv'
      BY <2>1, <2>2, PreInvNext, NoFaultInvNext, DamageInvNext
    <3> QED
      BY <3>1 DEF EmuInv
  <2>3. CASE UNCHANGED emuVars
    <3>1. EmuType' /\ PreInv' /\ NoFaultInv' /\ DamageInv'
      BY <2>1, <2>3, StutterStep
    <3> QED
      BY <3>1 DEF EmuInv
  <2> QED
    BY <2>2, <2>3
<1> QED
  BY <1>1, <1>2, PTL DEF Spec

\* No byte fed to a port is lost, doubled or out of order on its way to the guest,
\* and every variable keeps its type, as long as no call fails: dev_read and the
\* refill of serial_read, with the loop of cmd_sysemu, for queues, files and
\* terminals of any length.
THEOREM InputIsKept == Spec => []InputKept
<1>1. EmuInv => InputKept
  <2> SUFFICES ASSUME EmuInv PROVE InputKept
    OBVIOUS
  <2>0. EmuType /\ NoFaultInv
    BY DEF EmuInv
  <2>1. TypeOK
    BY <2>0, TypedIsTypeOK DEF EmuType
  <2>2. ASSUME InSession, NoFault, NEW d \in Devices
        PROVE  hist.got[d] \o InHand(d) \o port[d].queue \o port[d].fd = hist.fed[d]
    <3>1. (hist.got[d] \o InHand(d)) \o (port[d].queue \o port[d].fd) = hist.fed[d]
      BY <2>0, <2>2 DEF NoFaultInv, Exact, Input
    <3>2. PICK S, g, h, q, f : /\ S = Words /\ g = hist.got[d] /\ h = InHand(d)
                               /\ q = port[d].queue /\ f = port[d].fd
      OBVIOUS
    <3>3. g \in Seq(Bytes) /\ q \in Seq(Bytes) /\ f \in Seq(Bytes)
      BY <2>0, <3>2 DEF EmuType, Typed, HistType, PortType, QueueType
    <3>4. \A b : b \in Bytes => b \in S
      BY <3>2, LanesB
    <3>5. g \in Seq(S) /\ q \in Seq(S) /\ f \in Seq(S)
      BY <3>3, <3>4, SeqMonotonic
    <3>6. h \in Seq(S)
      <4>1. mon.iodata \in S
        BY <2>0, <3>2, SeqsOf
      <4>2. << mon.iodata >> \in Seq(S) /\ << >> \in Seq(S)
        BY <4>1
      <4> QED
        BY <3>2, <4>2 DEF InHand
    <3>7. g \o h \in Seq(S)
      BY <3>5, <3>6, ConcatProperties
    <3>8. ((g \o h) \o q) \o f = (g \o h) \o (q \o f)
      BY <3>5, <3>7, ConcatAssociative
    <3> QED
      BY <3>1, <3>2, <3>8
  <2> QED
    BY <2>1, <2>2 DEF InputKept
<1> QED
  BY <1>1, EmuInvariant, PTL

\* Nor is a byte the guest writes lost, doubled or out of order on its way out
\* (serial_write and the write half of cmd_sysemu's loop), for any number of them.
THEOREM OutputIsKept == Spec => []OutputKept
<1>1. EmuInv => OutputKept
  BY DEF EmuInv, NoFaultInv, Exact, OutputKept
<1> QED
  BY <1>1, EmuInvariant, PTL

\* A call that fails, its result ignored by cmd_sysemu, costs at most one byte of each
\* port and one byte written, however many fail and wherever in the loop.
THEOREM DamageIsBounded == Spec => []DamageBounded
<1>1. EmuInv => DamageBounded
  <2> SUFFICES ASSUME EmuInv, InSession PROVE
        /\ \A d \in Devices :
             Len(hist.got[d]) + Len(InHand(d))
                 - (Len(hist.fed[d]) - Len(port[d].queue) - Len(port[d].fd))
                 \in -faults.here .. faults.here
        /\ Len(hist.out["com1"]) + Len(Unwritten) - Len(hist.wrote)
                 \in -faults.here .. faults.here
    BY DEF DamageBounded
  <2>0. EmuType
    BY DEF EmuInv
  <2>1. WrInv /\ \A d \in Devices : RdInv(d)
    BY DEF EmuInv, DamageInv
  <2>2. PICK fh \in Nat : fh = faults.here
    BY <2>0, CountsAre
  <2>3. ASSUME NEW d \in Devices
        PROVE  Len(hist.got[d]) + Len(InHand(d))
                 - (Len(hist.fed[d]) - Len(port[d].queue) - Len(port[d].fd))
                 \in -faults.here .. faults.here
    <3>1. PICK S, q, f : S = Bytes /\ q = port[d].queue /\ f = port[d].fd
      OBVIOUS
    <3>2. q \in Seq(S) /\ f \in Seq(S)
      BY <2>0, <3>1 DEF EmuType, Typed, PortType, QueueType
    <3>3. Len(q \o f) = Len(q) + Len(f) /\ Len(q) \in Nat /\ Len(f) \in Nat
      BY <3>2, ConcatProperties, LenProperties
    <3>4. Len(InHand(d)) \in Nat
      BY HandLen
    <3>5. PICK g \in Nat, h \in Nat, n \in Nat, a \in Nat, b \in Nat :
             /\ g = Len(hist.got[d]) /\ h = Len(InHand(d)) /\ n = Len(hist.fed[d])
             /\ a = Len(q) /\ b = Len(f)
      BY <2>0, <3>3, <3>4, CountsAre
    <3>6. Bal(d) = g + (a + b) - n
      BY <3>1, <3>3, <3>5 DEF Bal, Input
    <3>7. InRange(Bal(d) + h)
      BY <2>1, <3>5 DEF RdInv
    <3>8. -fh <= g + (a + b) - n + h /\ g + (a + b) - n + h <= fh
      BY <2>2, <3>6, <3>7 DEF InRange
    <3>9. g + h - (n - a - b) \in -fh .. fh
      BY <3>8
    <3> QED
      BY <2>2, <3>1, <3>5, <3>9
  <2>4. Len(hist.out["com1"]) + Len(Unwritten) - Len(hist.wrote)
                 \in -faults.here .. faults.here
    <3>1. Len(Unwritten) \in Nat
      BY HandLen
    <3>2. PICK o \in Nat, u \in Nat, n \in Nat :
             o = Len(hist.out["com1"]) /\ u = Len(Unwritten) /\ n = Len(hist.wrote)
      BY <2>0, <3>1, CountsAre
    <3>3. InRange(o - n + u)
      BY <2>1, <3>2 DEF WrInv, WBal
    <3>4. -fh <= o - n + u /\ o - n + u <= fh
      BY <2>2, <3>3 DEF InRange
    <3>5. o + u - n \in -fh .. fh
      BY <3>4
    <3> QED
      BY <2>2, <3>2, <3>5
  <2> QED
    BY <2>3, <2>4
<1> QED
  BY <1>1, EmuInvariant, PTL
=============================================================================
