--------------------------- MODULE HostLink_proof ---------------------------
(***************************************************************************)
(* The serial link of HostLink, for every set of commands, every payload   *)
(* alphabet and any number of calls.                                       *)
(*                                                                         *)
(* LinkInv says that the link is always in one of seven phases, and in     *)
(* each of them exactly what is on both lines, in the firmware's frame     *)
(* parser and in the library:                                              *)
(*    AtRest, Asking, Sending, Working, Answering   the course of a call;  *)
(*    Abandoned   the library's time-out struck while the firmware waited  *)
(*                for the OCD: what arrives now is lost, and is only SYNs; *)
(*    OutOfStep   the late answer has an odd number of bytes, so that the  *)
(*                pairs the library reads never are SYN ACK: each call     *)
(*                fails before its frame is sent, until lsepc_init.        *)
(***************************************************************************)
EXTENDS HostLink, SequenceTheorems, TLAPS

Places == {"idle", "sync", "ack", "hdr", "data", "eot"}
Spots == {"poll", "soh", "cmd", "stx", "args", "eot", "busy"}

Stamped == [b : Nat, n : Nat]
HostRec == [at : Places, n : 0 .. MaxCalls, cmd : 0 .. 11, args : Seq(Payloads),
            try : Nat, size : Nat, got : Seq(Stamped), result : {"none", "ok", "error"}]
FwRec == [at : Spots, cmd : Nat, args : Seq(Nat), from : Seq(Nat)]
DoneRec == [from : SUBSET Nat, what : Seq(Nat)]

\* A call under way is one of the user's, with the arguments it takes.
CallOk == host.at # "idle" => host.n \in Calls /\ host.cmd \in Cmds
                              /\ Len(host.args) = ArgSize(host.cmd)
LineType == toSv \in Seq(Stamped) /\ toHost \in Seq(Stamped) /\ rx \in Seq(Stamped)
HistType == /\ sent \in [Calls -> Seq(Nat)] /\ answers \in [Calls -> Seq(Payloads)]
            /\ done \in Seq(DoneRec)

LinkType == host \in HostRec /\ CallOk /\ fw \in FwRec /\ LineType /\ HistType

\* The call the library is in has not been executed.
Fresh == \A i \in DOMAIN done : done[i].from # {host.n}
Executed(m) == \E i \in DOMAIN done : done[i].from = {m}

\* Neither a call nor anything on the way.
AtRest == host.at = "idle" /\ toSv = << >> /\ rx = << >> /\ toHost = << >> /\ fw = Poll

\* The handshake of a call, with no other on the way.
Asking ==
    /\ host.at = "sync" /\ rx = << >> /\ fw = Poll
    /\ \/ toSv = Bytes(<< SYN >>, 0) /\ toHost = << >>
       \/ toSv = << >> /\ toHost = Bytes(<< SYN, ACK >>, 0)

\* What the firmware has read of the call's frame, and what is left of it.
HasRead(left) ==
    \/ fw = Poll /\ left = << ENQ, SOH, host.cmd, STX >> \o (host.args \o << EOT >>)
    \/ fw.at = "soh" /\ left = << SOH, host.cmd, STX >> \o (host.args \o << EOT >>)
    \/ fw.at = "cmd" /\ left = << host.cmd, STX >> \o (host.args \o << EOT >>)
    \/ /\ fw.at = "stx" /\ left = << STX >> \o (host.args \o << EOT >>)
       /\ fw.cmd = host.cmd
    \/ /\ fw.at = "args" /\ fw.cmd = host.cmd
       /\ \E rest \in Seq(Payloads) : /\ rest # << >> /\ fw.args \o rest = host.args
                                      /\ left = rest \o << EOT >>
    \/ fw.at = "eot" /\ fw.cmd = host.cmd /\ fw.args = host.args /\ left = << EOT >>
Sending ==
    /\ host.at = "ack" /\ rx = << >> /\ toHost = << >> /\ Fresh
    /\ sent[host.n] = << host.cmd >> \o host.args
    /\ fw.at \in {"poll", "soh", "cmd", "stx"} => fw.args = << >>
    /\ fw.at # "poll" => fw.from # << >>
    /\ \A i \in DOMAIN fw.from : fw.from[i] = host.n
    /\ \E left \in Seq(Nat) : HasRead(left) /\ toSv = Bytes(left, host.n)

\* The firmware executes a call it has not answered.
Busy == /\ fw.at = "busy" /\ fw.from # << >> /\ fw.from[1] \in 1 .. host.n
        /\ Executed(fw.from[1]) /\ answers[fw.from[1]] = << >>
Working ==
    /\ host.at = "ack" /\ rx = << >> /\ toSv = << >> /\ toHost = << >>
    /\ Busy /\ fw.from[1] = host.n /\ fw.cmd = host.cmd /\ fw.args = host.args

\* The call's answer is on the way, or some of it is read.
Told == answers[host.n]
Answering ==
    /\ rx = << >> /\ toSv = << >> /\ fw = Poll
    /\ Told # << >> /\ Len(Told) <= AnswerSize(host.cmd)
    /\ \/ host.at = "ack"
          /\ toHost = Bytes(<< ACK, Len(Told), STX >> \o (Told \o << EOT >>), host.n)
       \/ /\ host.at = "hdr" /\ host.got = Bytes(<< ACK >>, host.n)
          /\ toHost = Bytes(<< Len(Told), STX >> \o (Told \o << EOT >>), host.n)
       \/ /\ host.at = "data" /\ host.got = Bytes(<< ACK, Len(Told), STX >>, host.n)
          /\ host.size = Len(Told)
          /\ toHost = Bytes(Told \o << EOT >>, host.n)
       \/ /\ host.at = "eot" /\ host.got = Bytes(<< ACK, Len(Told), STX >> \o Told, host.n)
          /\ toHost = Bytes(<< EOT >>, host.n)

\* Only SYNs are on the way to the supervisor.
Syns(q) == \A i \in DOMAIN q : q[i] = Byte(SYN, 0)
OnlySyns == Syns(rx) /\ Syns(toSv) /\ Len(rx) <= 1

\* The firmware waits for the OCD in a call that has timed out.
Abandoned ==
    /\ host.at \in {"idle", "sync"} /\ (host.at = "sync" => Fresh) /\ host.result # "ok"
    /\ OnlySyns /\ toHost = << >>
    /\ Busy /\ Waits(fw.cmd) /\ (host.at = "sync" => fw.from[1] < host.n)

\* A late answer has put the handshakes out of step: where the library looks for
\* SYN there never is one, and it fails until it is reopened.
OutOfStep ==
    /\ host.at \in {"idle", "sync"} /\ host.result # "ok"
    /\ OnlySyns /\ fw = Poll
    /\ \E k \in Nat : /\ Len(toHost) = 2 * k + 1
                      /\ host.at = "sync" => k + Len(rx) + Len(toSv) > 0
    /\ \A k \in Nat : k + k + 1 \in DOMAIN toHost => toHost[k + k + 1].b # SYN

\* Each call executed was made and sent, and only those are answered.
HistoryInv ==
    /\ \A i \in DOMAIN done : \E m \in Calls :
          m <= host.n /\ done[i].from = {m} /\ done[i].what = sent[m]
    /\ \A m \in Calls : answers[m] # << >> => Executed(m)
    /\ host.at = "sync" => Fresh
    /\ host.result = "ok" =>
          /\ host.at = "idle" /\ AtRest /\ host.n \in Calls /\ Data = answers[host.n]
          /\ \A i \in DOMAIN host.got : host.got[i].n = host.n

LinkInv == /\ LinkType /\ HistoryInv
           /\ AtRest \/ Asking \/ Sending \/ Working \/ Answering \/ Abandoned \/ OutOfStep
-----------------------------------------------------------------------------
(* Bytes of a call *)

LEMMA BytesAre ==
    ASSUME NEW s \in Seq(Nat), NEW n \in Nat
    PROVE  /\ Bytes(s, n) \in Seq(Stamped) /\ Len(Bytes(s, n)) = Len(s) /\ Len(s) \in Nat
           /\ \A i \in 1 .. Len(s) : Bytes(s, n)[i] = Byte(s[i], n)
<1>1. Len(s) \in Nat /\ \A i \in 1 .. Len(s) : s[i] \in Nat
  BY LenProperties, ElementOfSeq
<1>2. PICK k \in Nat : k = Len(s)
  BY <1>1
<1>3. Bytes(s, n) = [i \in 1 .. k |-> Byte(s[i], n)]
  BY <1>2 DEF Bytes
<1>4. \A i \in 1 .. k : Byte(s[i], n) \in Stamped
  BY <1>1, <1>2 DEF Byte, Stamped
<1>5. Bytes(s, n) \in [1 .. k -> Stamped]
  BY <1>3, <1>4
<1>6. Bytes(s, n) \in Seq(Stamped) /\ Len(Bytes(s, n)) = k
  BY <1>2, <1>5
<1> QED
  BY <1>1, <1>2, <1>3, <1>6

LEMMA BytesEqual ==
    ASSUME NEW s \in Seq(Nat), NEW n \in Nat, NEW q \in Seq(Stamped),
           Len(q) = Len(s), \A i \in 1 .. Len(s) : q[i] = Byte(s[i], n)
    PROVE  q = Bytes(s, n)
<1>1. PICK S, t : S = Stamped /\ t = Bytes(s, n)
  OBVIOUS
<1>2. t \in Seq(S) /\ Len(t) = Len(s) /\ \A i \in 1 .. Len(s) : t[i] = Byte(s[i], n)
  BY <1>1, BytesAre
<1>3. q \in Seq(S)
  BY <1>1
<1>4. \A i \in 1 .. Len(q) : q[i] = t[i]
  BY <1>2
<1>5. q = t
  BY <1>2, <1>3, <1>4, SeqEqual
<1> QED
  BY <1>1, <1>5

LEMMA BytesJoin ==
    ASSUME NEW a \in Seq(Nat), NEW c \in Seq(Nat), NEW n \in Nat
    PROVE  Bytes(a, n) \o Bytes(c, n) = Bytes(a \o c, n)
<1>1. PICK S, u, v, s : /\ S = Stamped /\ u = Bytes(a, n) /\ v = Bytes(c, n)
                        /\ s = a \o c
  OBVIOUS
<1>2. /\ u \in Seq(S) /\ Len(u) = Len(a) /\ \A i \in 1 .. Len(a) : u[i] = Byte(a[i], n)
      /\ v \in Seq(S) /\ Len(v) = Len(c) /\ \A i \in 1 .. Len(c) : v[i] = Byte(c[i], n)
      /\ Len(a) \in Nat /\ Len(c) \in Nat
  BY <1>1, BytesAre
<1>21. u \in Seq(S) /\ v \in Seq(S)
  BY <1>2
<1>3. /\ u \o v \in Seq(S) /\ Len(u \o v) = Len(u) + Len(v)
      /\ \A i \in 1 .. Len(u) + Len(v) : (u \o v)[i] =
                     IF i <= Len(u) THEN u[i] ELSE v[i - Len(u)]
  BY <1>21, ConcatProperties
<1>4. /\ s \in Seq(Nat) /\ Len(s) = Len(a) + Len(c)
      /\ \A i \in 1 .. Len(a) + Len(c) : s[i] =
                     IF i <= Len(a) THEN a[i] ELSE c[i - Len(a)]
  BY <1>1, ConcatProperties
<1>5. ASSUME NEW i \in 1 .. Len(s) PROVE (u \o v)[i] = Byte(s[i], n)
  <2>1. CASE i <= Len(a)
    BY <1>2, <1>3, <1>4, <2>1
  <2>2. CASE ~(i <= Len(a))
    <3>1. i - Len(a) \in 1 .. Len(c)
      BY <1>2, <1>4, <2>2
    <3> QED
      BY <1>2, <1>3, <1>4, <2>2, <3>1
  <2> QED
    BY <2>1, <2>2
<1>51. PICK w : w = u \o v
  OBVIOUS
<1>52. /\ w \in Seq(Stamped) /\ s \in Seq(Nat) /\ Len(w) = Len(s)
       /\ \A i \in 1 .. Len(s) : w[i] = Byte(s[i], n)
  BY <1>1, <1>2, <1>3, <1>4, <1>5, <1>51
<1>6. u \o v = Bytes(s, n)
  BY <1>51, <1>52, BytesEqual
<1> QED
  BY <1>1, <1>6

\* Taking the first bytes of a message, and what is left.
LEMMA SeqSplit ==
    ASSUME NEW S, NEW a \in Seq(S), NEW c \in Seq(S)
    PROVE  /\ SubSeq(a \o c, 1, Len(a)) = a
           /\ SubSeq(a \o c, Len(a) + 1, Len(a \o c)) = c
           /\ Len(a \o c) >= Len(a)
<1>1. /\ a \o c \in Seq(S) /\ Len(a \o c) = Len(a) + Len(c)
      /\ \A i \in 1 .. Len(a) + Len(c) : (a \o c)[i] =
                     IF i <= Len(a) THEN a[i] ELSE c[i - Len(a)]
  BY ConcatProperties
<1>2. Len(a) \in Nat /\ Len(c) \in Nat
  BY LenProperties
<1>3. PICK s, k, m : s = a \o c /\ k = Len(a) /\ m = Len(c)
  OBVIOUS
<1>4. /\ s \in Seq(S) /\ Len(s) = k + m /\ k \in Nat /\ m \in Nat
      /\ \A i \in 1 .. k + m : s[i] = IF i <= k THEN a[i] ELSE c[i - k]
  BY <1>1, <1>2, <1>3
<1>5. \A i \in 1 .. k + m : s[i] \in S
  BY <1>4, ElementOfSeq
<1>6. SubSeq(s, 1, k) = a
  <2>1. /\ SubSeq(s, 1, k) \in Seq(S) /\ Len(SubSeq(s, 1, k)) = k
        /\ \A i \in 1 .. k : SubSeq(s, 1, k)[i] = s[i]
    <3>1. \A i \in 1 .. k : s[i] \in S
      BY <1>4, <1>5
    <3>2. /\ SubSeq(s, 1, k) \in Seq(S)
          /\ Len(SubSeq(s, 1, k)) = IF 1 <= k THEN k - 1 + 1 ELSE 0
          /\ \A i \in 1 .. k - 1 + 1 : SubSeq(s, 1, k)[i] = s[1 + i - 1]
      BY <1>4, <3>1, SubSeqProperties
    <3> QED
      BY <1>4, <3>2
  <2>2. \A i \in 1 .. k : SubSeq(s, 1, k)[i] = a[i]
    BY <1>4, <2>1
  <2> QED
    BY <1>3, <2>1, <2>2, SeqEqual
<1>7. SubSeq(s, k + 1, k + m) = c
  <2>1. /\ SubSeq(s, k + 1, k + m) \in Seq(S) /\ Len(SubSeq(s, k + 1, k + m)) = m
        /\ \A i \in 1 .. m : SubSeq(s, k + 1, k + m)[i] = s[k + i]
    <3>1. \A i \in k + 1 .. k + m : s[i] \in S
      BY <1>4, <1>5
    <3>2. /\ SubSeq(s, k + 1, k + m) \in Seq(S)
          /\ Len(SubSeq(s, k + 1, k + m)) = IF k + 1 <= k + m THEN (k + m) - (k + 1) + 1 ELSE 0
          /\ \A i \in 1 .. (k + m) - (k + 1) + 1 :
                SubSeq(s, k + 1, k + m)[i] = s[(k + 1) + i - 1]
      BY <1>4, <3>1, SubSeqProperties
    <3> QED
      BY <1>4, <3>2
  <2>2. \A i \in 1 .. m : SubSeq(s, k + 1, k + m)[i] = c[i]
    <3> SUFFICES ASSUME NEW i \in 1 .. m PROVE SubSeq(s, k + 1, k + m)[i] = c[i]
      OBVIOUS
    <3>1. k + i \in 1 .. k + m /\ ~(k + i <= k) /\ (k + i) - k = i
      BY <1>4
    <3> QED
      BY <1>4, <2>1, <3>1
  <2> QED
    BY <1>3, <2>1, <2>2, SeqEqual
<1>8. Len(s) = k + m
  BY <1>4
<1> QED
  BY <1>2, <1>3, <1>6, <1>7, <1>8

LEMMA JoinThree ==
    ASSUME NEW a \in Seq(Nat), NEW b \in Seq(Nat), NEW c \in Seq(Nat)
    PROVE  (a \o b) \o c = a \o (b \o c)
BY ConcatAssociative

LEMMA BytesSplit ==
    ASSUME NEW a \in Seq(Nat), NEW c \in Seq(Nat), NEW n \in Nat
    PROVE  /\ SubSeq(Bytes(a \o c, n), 1, Len(a)) = Bytes(a, n)
           /\ SubSeq(Bytes(a \o c, n), Len(a) + 1, Len(Bytes(a \o c, n))) = Bytes(c, n)
           /\ Len(Bytes(a \o c, n)) >= Len(a)
<1>1. PICK S, u, v : S = Stamped /\ u = Bytes(a, n) /\ v = Bytes(c, n)
  OBVIOUS
<1>2. u \in Seq(S) /\ v \in Seq(S) /\ Len(u) = Len(a) /\ Bytes(a \o c, n) = u \o v
  BY <1>1, BytesAre, BytesJoin
<1>3. /\ SubSeq(u \o v, 1, Len(u)) = u
      /\ SubSeq(u \o v, Len(u) + 1, Len(u \o v)) = v
      /\ Len(u \o v) >= Len(u)
  BY <1>2, SeqSplit
<1> QED
  BY <1>1, <1>2, <1>3

LEMMA BytesOne ==
    ASSUME NEW x \in Nat, NEW c \in Seq(Nat), NEW n \in Nat
    PROVE  /\ Bytes(<< x >> \o c, n) # << >> /\ Head(Bytes(<< x >> \o c, n)) = Byte(x, n)
           /\ Tail(Bytes(<< x >> \o c, n)) = Bytes(c, n)
           /\ Bytes(<< x >> \o c, n)[1] = Byte(x, n)
           /\ Len(Bytes(<< x >> \o c, n)) >= 1
<1>0. PICK q : q = Bytes(<< x >> \o c, n)
  OBVIOUS
<1>1. << x >> \in Seq(Nat) /\ Len(<< x >>) = 1 /\ << x >>[1] = x
  OBVIOUS
<1>2. PICK s : s = << x >> \o c
  OBVIOUS
<1>3. s \in Seq(Nat) /\ Len(s) = 1 + Len(c) /\ s[1] = x /\ Len(c) \in Nat
  BY <1>1, <1>2, ConcatProperties, LenProperties
<1>4. PICK S : S = Stamped
  OBVIOUS
<1>31. /\ Bytes(s, n) \in Seq(Stamped) /\ Len(Bytes(s, n)) = Len(s)
       /\ \A i \in 1 .. Len(s) : Bytes(s, n)[i] = Byte(s[i], n)
  BY <1>3, BytesAre
<1>32. 1 \in 1 .. Len(s)
  BY <1>3
<1>5. q \in Seq(S) /\ Len(q) = 1 + Len(c) /\ q[1] = Byte(x, n)
  BY <1>0, <1>2, <1>3, <1>31, <1>32, <1>4
<1>6. q # << >>
  BY <1>3, <1>5, EmptySeq
<1>61. PICK a : a = << x >>
  OBVIOUS
<1>62. a \in Seq(Nat) /\ Len(a) = 1 /\ q = Bytes(a \o c, n)
  BY <1>0, <1>1, <1>61
<1>620. a \in Seq(Nat)
  BY <1>62
<1>621. /\ SubSeq(Bytes(a \o c, n), 1, Len(a)) = Bytes(a, n)
        /\ SubSeq(Bytes(a \o c, n), Len(a) + 1, Len(Bytes(a \o c, n))) = Bytes(c, n)
  BY <1>620, BytesSplit
<1>63. /\ SubSeq(q, 1, Len(a)) = Bytes(a, n) /\ SubSeq(q, Len(a) + 1, Len(q)) = Bytes(c, n)
  BY <1>62, <1>621
<1>7. SubSeq(q, 1, 1) = Bytes(<< x >>, n) /\ SubSeq(q, 2, Len(q)) = Bytes(c, n)
  BY <1>61, <1>62, <1>63
<1>8. Tail(q) = Bytes(c, n)
  BY <1>5, <1>6, <1>7, TailIsSubSeq
<1>9. Head(q) = q[1]
  BY <1>5, <1>6
<1>10. Len(q) >= 1
  BY <1>3, <1>5
<1> QED
  BY <1>0, <1>5, <1>6, <1>7, <1>8, <1>9, <1>10

LEMMA ValuesOf ==
    ASSUME NEW s \in Seq(Nat), NEW n \in Nat PROVE Values(Bytes(s, n)) = s
<1>1. /\ Len(Bytes(s, n)) = Len(s) /\ Len(s) \in Nat
      /\ \A i \in 1 .. Len(s) : Bytes(s, n)[i] = Byte(s[i], n)
  BY BytesAre
<1>2. \A i \in 1 .. Len(s) : Bytes(s, n)[i].b = s[i]
  <2>1. \A x : Byte(x, n).b = x
    BY DEF Byte
  <2> QED
    BY <1>1, <2>1
<1>3. Values(Bytes(s, n)) = [i \in 1 .. Len(s) |-> s[i]]
  BY <1>1, <1>2 DEF Values
<1>4. s = [i \in 1 .. Len(s) |-> s[i]]
  BY LenProperties
<1> QED
  BY <1>3, <1>4

LEMMA EmptyBytes == ASSUME NEW n \in Nat PROVE Bytes(<< >>, n) = << >>
<1>1. << >> \in Seq(Nat) /\ Len(<< >>) = 0
  BY EmptySeq
<1>2. PICK S, q : S = Stamped /\ q = Bytes(<< >>, n)
  OBVIOUS
<1>3. q \in Seq(S) /\ Len(q) = 0
  BY <1>1, <1>2, BytesAre
<1>4. q = << >>
  BY <1>3, EmptySeq
<1> QED
  BY <1>2, <1>4

-----------------------------------------------------------------------------
(* Constants, the handshake's bytes, reading a part of a line *)

LEMMA Constants ==
    /\ MaxCalls \in Nat /\ Payloads \subseteq Nat /\ Cmds \subseteq 1 .. 11
    /\ \A n \in Calls : n \in Nat /\ 1 <= n /\ n <= MaxCalls
    /\ \A c : ArgSize(c) \in {0, 1, 2} /\ AnswerSize(c) \in {1, 2}
BY LinkAssumption DEF KnownCmds, Calls, ArgSize, AnswerSize

LEMMA PayloadSeq == ASSUME NEW s \in Seq(Payloads) PROVE s \in Seq(Nat)
BY Constants, SeqMonotonic

LEMMA Marks ==
    /\ {SOH, STX, EOT, ENQ, ACK, NAK, SYN} \subseteq Nat
    /\ SYN # ACK /\ SYN # STX /\ SYN # EOT
BY DEF SOH, STX, EOT, ENQ, ACK, NAK, SYN

LEMMA PollType == Poll \in FwRec /\ Poll.at = "poll" /\ Poll.args = << >> /\ Poll.from = << >>
<1>1. << >> \in Seq(Nat)
  BY EmptySeq
<1> QED
  BY <1>1 DEF Poll, FwRec, Spots

\* A handshake's bytes.
LEMMA SynBytes ==
    /\ Bytes(<< SYN >>, 0) \in Seq(Stamped) /\ Len(Bytes(<< SYN >>, 0)) = 1
    /\ Bytes(<< SYN >>, 0)[1] = Byte(SYN, 0) /\ Head(Bytes(<< SYN >>, 0)) = Byte(SYN, 0)
    /\ Tail(Bytes(<< SYN >>, 0)) = << >> /\ Bytes(<< SYN >>, 0) # << >>
    /\ Bytes(<< SYN, ACK >>, 0) \in Seq(Stamped) /\ Len(Bytes(<< SYN, ACK >>, 0)) = 2
    /\ Bytes(<< SYN, ACK >>, 0)[1] = Byte(SYN, 0) /\ Bytes(<< SYN, ACK >>, 0)[2] = Byte(ACK, 0)
    /\ Values(Bytes(<< SYN, ACK >>, 0)) = << SYN, ACK >>
<1>1. PICK s, q : s = << SYN >> /\ q = Bytes(s, 0)
  OBVIOUS
<1>2. s \in Seq(Nat) /\ Len(s) = 1 /\ s[1] = SYN
  BY <1>1, Marks
<1>3. /\ q \in Seq(Stamped) /\ Len(q) = 1 /\ q[1] = Byte(SYN, 0)
  <2>1. /\ q \in Seq(Stamped) /\ Len(q) = Len(s) /\ \A i \in 1 .. Len(s) : q[i] = Byte(s[i], 0)
    BY <1>1, <1>2, BytesAre
  <2> QED
    BY <1>2, <2>1
<1>4. PICK S : S = Stamped
  OBVIOUS
<1>5. q \in Seq(S) /\ q # << >>
  BY <1>3, <1>4, EmptySeq
<1>6. Head(q) = q[1]
  BY <1>5
<1>7. Tail(q) = << >>
  <2>1. Tail(q) \in Seq(S) /\ Len(Tail(q)) = 0
    BY <1>3, <1>5, HeadTailProperties
  <2> QED
    BY <2>1, EmptySeq
<1>8. PICK t, r : t = << SYN, ACK >> /\ r = Bytes(t, 0)
  OBVIOUS
<1>9. t \in Seq(Nat) /\ Len(t) = 2 /\ t[1] = SYN /\ t[2] = ACK
  BY <1>8, Marks
<1>10. /\ r \in Seq(Stamped) /\ Len(r) = 2 /\ r[1] = Byte(SYN, 0) /\ r[2] = Byte(ACK, 0)
       /\ Values(r) = t
  <2>1. /\ r \in Seq(Stamped) /\ Len(r) = Len(t) /\ \A i \in 1 .. Len(t) : r[i] = Byte(t[i], 0)
        /\ Values(r) = t
    BY <1>8, <1>9, BytesAre, ValuesOf
  <2> QED
    BY <1>9, <2>1
<1> QED
  BY <1>1, <1>3, <1>5, <1>6, <1>7, <1>8, <1>10

LEMMA Takes ==
    ASSUME NEW k \in Nat, Reads(k), toHost \in Seq(Stamped)
    PROVE  /\ Taken(k) \in Seq(Stamped) /\ AfterTaking(k) \in Seq(Stamped)
           /\ Len(Taken(k)) = k /\ \A i \in 1 .. k : Taken(k)[i] = toHost[i]
           /\ Len(AfterTaking(k)) = Len(toHost) - k /\ Len(toHost) \in Nat
           /\ \A i \in 1 .. Len(toHost) - k : AfterTaking(k)[i] = toHost[k + i]
<1>1. PICK S, q, m : S = Stamped /\ q = toHost /\ m = Len(toHost)
  OBVIOUS
<1>2. q \in Seq(S) /\ m = Len(q) /\ m \in Nat /\ m >= k
  BY <1>1, LenProperties DEF Reads
<1>3. \A i \in 1 .. m : q[i] \in S
  BY <1>2, ElementOfSeq
<1>4. /\ SubSeq(q, 1, k) \in Seq(S)
      /\ Len(SubSeq(q, 1, k)) = IF 1 <= k THEN k - 1 + 1 ELSE 0
      /\ \A i \in 1 .. k - 1 + 1 : SubSeq(q, 1, k)[i] = q[1 + i - 1]
  <2>1. \A i \in 1 .. k : q[i] \in S
    BY <1>2, <1>3
  <2> QED
    BY <2>1, SubSeqProperties
<1>5. /\ SubSeq(q, k + 1, m) \in Seq(S)
      /\ Len(SubSeq(q, k + 1, m)) = IF k + 1 <= m THEN m - (k + 1) + 1 ELSE 0
      /\ \A i \in 1 .. m - (k + 1) + 1 : SubSeq(q, k + 1, m)[i] = q[(k + 1) + i - 1]
  <2>1. \A i \in k + 1 .. m : q[i] \in S
    BY <1>2, <1>3
  <2> QED
    BY <1>2, <2>1, SubSeqProperties
<1>6. Taken(k) = SubSeq(q, 1, k) /\ AfterTaking(k) = SubSeq(q, k + 1, m)
  BY <1>1, <1>2 DEF Taken, AfterTaking
<1>7. PICK u, v : u = SubSeq(q, 1, k) /\ v = SubSeq(q, k + 1, m)
  OBVIOUS
<1>8. u \in Seq(S) /\ Len(u) = k /\ \A i \in 1 .. k : u[i] = q[i]
  BY <1>4, <1>7
<1>9. v \in Seq(S) /\ Len(v) = m - k /\ \A i \in 1 .. m - k : v[i] = q[k + i]
  BY <1>2, <1>5, <1>7
<1> QED
  BY <1>1, <1>2, <1>6, <1>7, <1>8, <1>9

\* Reading the first part of a message.
LEMMA TakesPart ==
    ASSUME NEW a \in Seq(Nat), NEW c \in Seq(Nat), NEW n \in Nat,
           toHost = Bytes(a \o c, n)
    PROVE  /\ Reads(Len(a)) /\ Taken(Len(a)) = Bytes(a, n)
           /\ AfterTaking(Len(a)) = Bytes(c, n)
BY BytesSplit DEF Reads, Taken, AfterTaking

\* The history stays true when it does not change, nor what was sent.
LEMMA HistoryStays ==
    ASSUME HistoryInv, done' = done, answers' = answers, sent' = sent, host'.n = host.n,
           host'.at = "sync" => host.at = "sync", host'.result # "ok"
    PROVE  HistoryInv'
<1>1. (\A m \in Calls : answers[m] # << >> => Executed(m))'
  BY DEF HistoryInv, Executed
<1> QED
  BY <1>1 DEF HistoryInv, Fresh

LEMMA HostSame ==
    ASSUME LinkType, host' = host PROVE host' \in HostRec /\ CallOk'
BY DEF LinkType, CallOk

-----------------------------------------------------------------------------
(* The library: a call begins *)

\* A SYN more on the line.
LEMMA WriteSyn ==
    ASSUME toSv \in Seq(Stamped), Write(<< SYN >>, 0)
    PROVE  /\ toSv' \in Seq(Stamped) /\ Len(toSv') = Len(toSv) + 1 /\ Len(toSv) \in Nat
           /\ toSv = << >> => toSv' = Bytes(<< SYN >>, 0)
           /\ Syns(toSv) => Syns(toSv')
<1>1. PICK S, q, s : S = Stamped /\ q = toSv /\ s = Bytes(<< SYN >>, 0)
  OBVIOUS
<1>2. q \in Seq(S) /\ s \in Seq(S) /\ Len(s) = 1 /\ s[1] = Byte(SYN, 0)
  BY <1>1, SynBytes
<1>3. toSv' = q \o s
  BY <1>1 DEF Write
<1>4. /\ q \o s \in Seq(S) /\ Len(q \o s) = Len(q) + Len(s) /\ Len(q) \in Nat
      /\ \A i \in 1 .. Len(q) + Len(s) : (q \o s)[i] =
                     IF i <= Len(q) THEN q[i] ELSE s[i - Len(q)]
  BY <1>2, ConcatProperties, LenProperties
<1>5. q = << >> => q \o s = s
  BY <1>2
<1>6. ASSUME Syns(q) PROVE Syns(q \o s)
  <2>1. PICK r, m : r = q \o s /\ m = Len(q)
    OBVIOUS
  <2>2. DOMAIN r = 1 .. m + 1 /\ DOMAIN q = 1 .. m
    BY <1>2, <1>4, <2>1, LenProperties
  <2>3. ASSUME NEW i \in 1 .. m + 1 PROVE r[i] = Byte(SYN, 0)
    <3>1. CASE i <= m
      BY <1>2, <1>4, <1>6, <2>1, <2>2, <3>1 DEF Syns
    <3>2. CASE ~(i <= m)
      <4>1. i - m = 1
        BY <1>4, <2>1, <3>2
      <4> QED
        BY <1>2, <1>4, <2>1, <3>2, <4>1
    <3> QED
      BY <3>1, <3>2
  <2> QED
    BY <2>1, <2>2, <2>3 DEF Syns
<1>7. Len(q \o s) = Len(q) + 1
  BY <1>2, <1>4
<1> QED
  BY <1>1, <1>2, <1>3, <1>4, <1>5, <1>6, <1>7

LEMMA CallType ==
    ASSUME LinkType, Call
    PROVE  /\ LinkType' /\ host.at = "idle" /\ host'.at = "sync" /\ host'.n = host.n + 1
           /\ host'.n \in Calls /\ host.n \in Nat
           /\ host'.result = "none" /\ Write(<< SYN >>, 0)
           /\ UNCHANGED << rx, fw, toHost, sent, done, answers >>
<1>1. PICK c \in Cmds, a \in UNION { [1 .. k -> Payloads] : k \in 0 .. 2 } :
          /\ Len(a) = ArgSize(c)
          /\ host' = [at |-> "sync", n |-> host.n + 1, cmd |-> c, args |-> a,
                      try |-> 1, size |-> 0, got |-> << >>, result |-> "none"]
  BY DEF Call
<1>2. host.at = "idle" /\ host.n < MaxCalls /\ Write(<< SYN >>, 0)
      /\ UNCHANGED << rx, fw, toHost, sent, done, answers >>
  BY DEF Call
<1>3. host.n \in Nat /\ host.n <= MaxCalls /\ MaxCalls \in Nat
  BY Constants DEF LinkType, HostRec
<1>4. a \in Seq(Payloads)
  <2>1. PICK k \in 0 .. 2 : a \in [1 .. k -> Payloads]
    OBVIOUS
  <2>2. k \in Nat
    OBVIOUS
  <2> QED
    BY <2>1, <2>2
<1>5. host.n + 1 \in Calls /\ host.n + 1 \in 0 .. MaxCalls
  BY <1>2, <1>3 DEF Calls
<1>6. << >> \in Seq(Stamped)
  BY EmptySeq
<1>7. c \in 0 .. 11
  BY Constants
<1>8. host' \in HostRec
  BY <1>1, <1>4, <1>5, <1>6, <1>7 DEF HostRec, Places
<1>9. CallOk'
  BY <1>1, <1>5 DEF CallOk
<1>10. LineType' /\ HistType' /\ fw' \in FwRec
  <2>1. toSv' \in Seq(Stamped)
    BY <1>2, WriteSyn DEF LinkType, LineType
  <2> QED
    BY <1>2, <2>1 DEF LinkType, LineType, HistType
<1> QED
  BY <1>1, <1>2, <1>3, <1>5, <1>8, <1>9, <1>10 DEF LinkType

LEMMA CallStep ==
    ASSUME LinkInv, Call
    PROVE  LinkInv'
<1>1. /\ LinkType' /\ host.at = "idle" /\ host'.at = "sync" /\ host'.n = host.n + 1
      /\ host'.n \in Calls /\ host.n \in Nat
      /\ host'.result = "none" /\ Write(<< SYN >>, 0)
      /\ UNCHANGED << rx, fw, toHost, sent, done, answers >>
  BY CallType DEF LinkInv
<1>2. HistoryInv
  BY DEF LinkInv
<1>3. ASSUME NEW i \in DOMAIN done
      PROVE  \E m \in Calls : m <= host.n /\ m <= host'.n /\ done[i].from = {m}
                              /\ done[i].what = sent[m] /\ m # host'.n
  <2>1. PICK m \in Calls : m <= host.n /\ done[i].from = {m} /\ done[i].what = sent[m]
    BY <1>2 DEF HistoryInv
  <2>2. m <= host'.n /\ m # host'.n
    BY <1>1, <2>1, Constants
  <2> QED
    BY <2>1, <2>2
<1>4. Fresh'
  BY <1>1, <1>3 DEF Fresh
<1>5. HistoryInv'
  BY <1>1, <1>2, <1>3, <1>4 DEF HistoryInv, Executed
<1>6. AtRest \/ Abandoned \/ OutOfStep
  BY <1>1 DEF LinkInv, Asking, Sending, Working, Answering
<1>7. /\ Len(toSv') = Len(toSv) + 1 /\ Len(toSv) \in Nat
      /\ toSv = << >> => toSv' = Bytes(<< SYN >>, 0)
      /\ Syns(toSv) => Syns(toSv')
  BY <1>1, WriteSyn DEF LinkInv, LinkType, LineType
<1>8. CASE AtRest
  <2>1. Asking'
    BY <1>1, <1>7, <1>8 DEF AtRest, Asking
  <2> QED
    BY <1>1, <1>5, <2>1 DEF LinkInv
<1>9. CASE Abandoned
  <2>1. Busy'
    <3>1. fw.from[1] \in 1 .. host'.n
      BY <1>1, <1>9 DEF Abandoned, Busy
    <3> QED
      BY <1>1, <1>9, <3>1 DEF Abandoned, Busy, Executed
  <2>2. fw.from[1] < host'.n
    BY <1>1, <1>9 DEF Abandoned, Busy
  <2>3. Abandoned'
    BY <1>1, <1>4, <1>7, <1>9, <2>1, <2>2 DEF Abandoned, OnlySyns
  <2> QED
    BY <1>1, <1>5, <2>3 DEF LinkInv
<1>10. CASE OutOfStep
  <2>1. PICK k \in Nat : Len(toHost) = 2 * k + 1
    BY <1>10 DEF OutOfStep
  <2>2. Len(rx) \in Nat
    BY LenProperties DEF LinkInv, LinkType, LineType
  <2>3. k + Len(rx) + Len(toSv') > 0
    BY <1>7, <2>2
  <2>4. OutOfStep'
    BY <1>1, <1>7, <1>10, <2>1, <2>3 DEF OutOfStep, OnlySyns
  <2> QED
    BY <1>1, <1>5, <2>4 DEF LinkInv
<1> QED
  BY <1>6, <1>8, <1>9, <1>10

\* A step that changes of the library's state its place, attempt and bytes only.
LEMMA HostMoves ==
    ASSUME LinkType, host.at # "idle", NEW at \in Places, NEW try \in Nat, NEW size \in Nat,
           NEW got \in Seq(Stamped), NEW result \in {"none", "ok", "error"},
           host' = [host EXCEPT !.at = at, !.try = try, !.size = size, !.got = got,
                                !.result = result]
    PROVE  /\ host' \in HostRec /\ CallOk' /\ host'.n = host.n /\ host'.cmd = host.cmd
           /\ host'.args = host.args /\ host'.at = at /\ host'.got = got /\ host'.size = size
           /\ host'.result = result /\ host'.try = try
BY DEF LinkType, HostRec, CallOk

LEMMA ReturnedStep ==
    ASSUME LinkType, host.at # "idle", NEW r \in {"ok", "error"}, Returned(r)
    PROVE  /\ host' \in HostRec /\ CallOk' /\ host'.n = host.n /\ host'.got = host.got
           /\ host'.at = "idle" /\ host'.result = r
BY DEF LinkType, HostRec, CallOk, Returned, Places

-----------------------------------------------------------------------------
(* The library: the handshake succeeds *)

LEMMA FrameIs ==
    ASSUME LinkType, host.at # "idle"
    PROVE  /\ host.args \in Seq(Nat) /\ host.cmd \in Nat /\ host.n \in Nat /\ host.n \in Calls
           /\ host.args \o << EOT >> \in Seq(Nat) /\ << host.cmd >> \o host.args \in Seq(Nat)
           /\ Frame = << ENQ, SOH, host.cmd, STX >> \o (host.args \o << EOT >>)
           /\ Frame \in Seq(Nat)
           /\ << SOH, host.cmd, STX >> \o (host.args \o << EOT >>) \in Seq(Nat)
           /\ << host.cmd, STX >> \o (host.args \o << EOT >>) \in Seq(Nat)
           /\ << STX >> \o (host.args \o << EOT >>) \in Seq(Nat)
<1>1. host.args \in Seq(Nat) /\ host.cmd \in Nat /\ host.n \in Calls
  BY PayloadSeq DEF LinkType, HostRec, CallOk
<1>2. /\ << EOT >> \in Seq(Nat) /\ << ENQ, SOH, host.cmd, STX >> \in Seq(Nat)
      /\ << SOH, host.cmd, STX >> \in Seq(Nat) /\ << host.cmd, STX >> \in Seq(Nat)
      /\ << STX >> \in Seq(Nat) /\ << host.cmd >> \in Seq(Nat)
  BY <1>1, Marks
<1>3. PICK f, g, h, k, a, e, l :
         /\ f = << ENQ, SOH, host.cmd, STX >> /\ g = << SOH, host.cmd, STX >>
         /\ h = << host.cmd, STX >> /\ k = << STX >> /\ a = host.args /\ e = << EOT >>
         /\ l = << host.cmd >>
  OBVIOUS
<1>4. /\ f \in Seq(Nat) /\ g \in Seq(Nat) /\ h \in Seq(Nat) /\ k \in Seq(Nat)
      /\ a \in Seq(Nat) /\ e \in Seq(Nat) /\ l \in Seq(Nat)
  BY <1>1, <1>2, <1>3
<1>5. a \o e \in Seq(Nat) /\ l \o a \in Seq(Nat)
  BY <1>4, ConcatProperties
<1>6. /\ f \o (a \o e) \in Seq(Nat) /\ g \o (a \o e) \in Seq(Nat)
      /\ h \o (a \o e) \in Seq(Nat) /\ k \o (a \o e) \in Seq(Nat)
  BY <1>4, <1>5, ConcatProperties
<1>41. f \in Seq(Nat)
  BY <1>4
<1>42. a \in Seq(Nat)
  BY <1>4
<1>43. e \in Seq(Nat)
  BY <1>4
<1>7. (f \o a) \o e = f \o (a \o e)
  BY <1>41, <1>42, <1>43, JoinThree
<1>8. Frame = (f \o a) \o e
  BY <1>3 DEF Frame
<1> QED
  BY <1>1, <1>3, <1>5, <1>6, <1>7, <1>8, Constants

LEMMA SyncedType ==
    ASSUME LinkInv, Synced
    PROVE  /\ LinkType' /\ host.at = "sync" /\ Fresh /\ host.n \in Calls
           /\ rx = << >> /\ fw = Poll /\ toHost' = << >>
           /\ toSv' = Bytes(Frame, host.n)
           /\ UNCHANGED << rx, fw, done, answers >>
           /\ host' = [host EXCEPT !.at = "ack"]
           /\ sent' = [sent EXCEPT ![host.n] = << host.cmd >> \o host.args]
           /\ host'.at = "ack" /\ host'.n = host.n /\ host'.cmd = host.cmd
           /\ host'.args = host.args /\ host'.result = host.result
<1>1. /\ host.at = "sync" /\ Reads(2) /\ SyncOk /\ toHost' = AfterTaking(2)
      /\ SendFrame /\ UNCHANGED << rx, fw, done, answers >>
  BY DEF Synced
<1>2. LinkType /\ HistoryInv /\ Fresh
  BY <1>1 DEF LinkInv, HistoryInv
<1>3. /\ Taken(2) \in Seq(Stamped) /\ Len(Taken(2)) = 2 /\ Taken(2)[1] = toHost[1]
      /\ AfterTaking(2) \in Seq(Stamped) /\ Len(AfterTaking(2)) = Len(toHost) - 2
      /\ Len(toHost) \in Nat
  <2>1. 2 \in Nat /\ 1 \in 1 .. 2
    OBVIOUS
  <2>2. toHost \in Seq(Stamped)
    BY <1>2 DEF LinkType, LineType
  <2> QED
    BY <1>1, <2>1, <2>2, Takes
<1>4. toHost[1].b = SYN
  <2>1. Values(Taken(2))[1] = Taken(2)[1].b
    BY <1>3 DEF Values
  <2>2. << SYN, ACK >>[1] = SYN
    OBVIOUS
  <2> QED
    BY <1>1, <1>3, <2>1, <2>2 DEF SyncOk
<1>5. Asking
  <2>1. Asking \/ Abandoned \/ OutOfStep
    BY <1>1 DEF LinkInv, AtRest, Sending, Working, Answering
  <2>2. toHost # << >>
    BY <1>1 DEF Reads
  <2>3. ~OutOfStep
    <3> SUFFICES ASSUME OutOfStep PROVE FALSE
      OBVIOUS
    <3>1. DOMAIN toHost = 1 .. Len(toHost)
      BY <1>2, LenProperties DEF LinkType, LineType
    <3>2. 0 \in Nat /\ 0 + 0 + 1 \in DOMAIN toHost
      BY <1>1, <1>3, <3>1 DEF Reads
    <3>3. toHost[0 + 0 + 1].b # SYN
      BY <3>2 DEF OutOfStep
    <3> QED
      BY <1>4, <3>3
  <2> QED
    BY <2>1, <2>2, <2>3 DEF Abandoned
<1>6. rx = << >> /\ fw = Poll /\ toSv = << >> /\ toHost = Bytes(<< SYN, ACK >>, 0)
  BY <1>1, <1>5 DEF Asking, Reads
<1>7. toHost' = << >>
  <2>1. Len(toHost) = 2
    BY <1>6, SynBytes
  <2>2. PICK S, q : S = Stamped /\ q = toHost'
    OBVIOUS
  <2>3. q \in Seq(S) /\ Len(q) = 0
    BY <1>1, <1>3, <2>1, <2>2
  <2> QED
    BY <2>2, <2>3, EmptySeq
<1>8. Frame \in Seq(Nat) /\ host.n \in Calls /\ host.n \in Nat
      /\ << host.cmd >> \o host.args \in Seq(Nat)
  BY <1>1, <1>2, FrameIs
<1>9. toSv' = Bytes(Frame, host.n) /\ Bytes(Frame, host.n) \in Seq(Stamped)
  <2>1. PICK S, q : S = Stamped /\ q = Bytes(Frame, host.n)
    OBVIOUS
  <2>2. q \in Seq(S)
    BY <1>8, <2>1, BytesAre
  <2>3. << >> \o q = q
    BY <2>2, ConcatEmptySeq
  <2> QED
    BY <1>1, <1>6, <2>1, <2>2, <2>3 DEF SendFrame, Write
<1>10. /\ host' = [host EXCEPT !.at = "ack"]
       /\ sent' = [sent EXCEPT ![host.n] = << host.cmd >> \o host.args]
  BY <1>1 DEF SendFrame
<1>11. host' \in HostRec /\ CallOk'
       /\ host'.at = "ack" /\ host'.n = host.n /\ host'.cmd = host.cmd
       /\ host'.args = host.args /\ host'.result = host.result
  BY <1>1, <1>2, <1>10 DEF LinkType, HostRec, CallOk, Places
<1>12. sent' \in [Calls -> Seq(Nat)]
  BY <1>2, <1>8, <1>10 DEF LinkType, HistType
<1>13. fw' \in FwRec /\ LineType' /\ HistType'
  <2>1. << >> \in Seq(Stamped)
    BY EmptySeq
  <2> QED
    BY <1>1, <1>2, <1>7, <1>9, <1>12, <2>1 DEF LinkType, LineType, HistType
<1> QED
  BY <1>1, <1>2, <1>6, <1>7, <1>8, <1>9, <1>10, <1>11, <1>13 DEF LinkType

LEMMA SyncedStep ==
    ASSUME LinkInv, Synced
    PROVE  LinkInv'
<1>1. /\ LinkType' /\ host.at = "sync" /\ Fresh /\ host.n \in Calls
      /\ rx = << >> /\ fw = Poll /\ toHost' = << >>
      /\ toSv' = Bytes(Frame, host.n)
      /\ UNCHANGED << rx, fw, done, answers >>
      /\ sent' = [sent EXCEPT ![host.n] = << host.cmd >> \o host.args]
      /\ host'.at = "ack" /\ host'.n = host.n /\ host'.cmd = host.cmd
      /\ host'.args = host.args /\ host'.result = host.result
  BY SyncedType
<1>2. LinkType /\ HistoryInv /\ sent \in [Calls -> Seq(Nat)]
  BY DEF LinkInv, LinkType, HistType
<1>3. sent'[host.n] = << host.cmd >> \o host.args
      /\ \A m \in Calls : m # host.n => sent'[m] = sent[m]
  BY <1>1, <1>2
<1>4. Fresh'
  BY <1>1 DEF Fresh
<1>5. HistoryInv'
  <2>1. host.result # "ok"
    BY <1>1, <1>2 DEF HistoryInv
  <2>2. \A i \in DOMAIN done' : \E m \in Calls :
          m <= host'.n /\ done'[i].from = {m} /\ done'[i].what = sent'[m]
    <3> SUFFICES ASSUME NEW i \in DOMAIN done
                 PROVE  \E m \in Calls : m <= host.n /\ done[i].from = {m}
                                         /\ done[i].what = sent'[m]
      BY <1>1
    <3>1. PICK m \in Calls : m <= host.n /\ done[i].from = {m} /\ done[i].what = sent[m]
      BY <1>2 DEF HistoryInv
    <3>2. m # host.n
      BY <1>1, <3>1 DEF Fresh
    <3> QED
      BY <1>3, <3>1, <3>2
  <2> QED
    BY <1>1, <1>2, <1>4, <2>1, <2>2 DEF HistoryInv, Executed
<1>6. Sending'
  <2>1. /\ Frame = << ENQ, SOH, host.cmd, STX >> \o (host.args \o << EOT >>)
        /\ Frame \in Seq(Nat)
    BY <1>1, <1>2, FrameIs
  <2>2. PICK f : f = Frame
    OBVIOUS
  <2>3. HasRead(f)'
    BY <1>1, <2>1, <2>2 DEF HasRead
  <2>4. f \in Seq(Nat) /\ toSv' = Bytes(f, host'.n)
    BY <1>1, <2>1, <2>2
  <2>5. \E left \in Seq(Nat) : HasRead(left)' /\ toSv' = Bytes(left, host'.n)
    BY <2>3, <2>4
  <2>6. fw' = Poll /\ fw'.args = << >> /\ fw'.at = "poll" /\ fw'.from = << >>
    BY <1>1, PollType
  <2>7. \A i \in DOMAIN fw'.from : fw'.from[i] = host'.n
    BY <2>6
  <2> QED
    BY <1>1, <1>3, <1>4, <2>5, <2>6, <2>7 DEF Sending
<1> QED
  BY <1>1, <1>5, <1>6 DEF LinkInv

-----------------------------------------------------------------------------
(* The library: the handshake fails *)

LEMMA OutOfStepHead ==
    ASSUME LinkInv, OutOfStep
    PROVE  \E k \in Nat : /\ Len(toHost) = k + k + 1 /\ DOMAIN toHost = 1 .. k + k + 1
                          /\ host.at = "sync" => k + Len(rx) + Len(toSv) > 0
                          /\ \A j \in Nat : j <= k => toHost[j + j + 1].b # SYN
<1>1. PICK k \in Nat : Len(toHost) = 2 * k + 1
                       /\ (host.at = "sync" => k + Len(rx) + Len(toSv) > 0)
  BY DEF OutOfStep
<1>2. Len(toHost) = k + k + 1
  BY <1>1
<1>3. DOMAIN toHost = 1 .. k + k + 1
  BY <1>2, LenProperties DEF LinkInv, LinkType, LineType
<1>4. ASSUME NEW j \in Nat, j <= k PROVE toHost[j + j + 1].b # SYN
  <2>1. j + j + 1 \in 1 .. k + k + 1
    BY <1>4
  <2>2. j + j + 1 \in DOMAIN toHost
    BY <1>3, <2>1
  <2> QED
    BY <2>2 DEF OutOfStep
<1> QED
  BY <1>1, <1>2, <1>3, <1>4

\* A failed handshake: another SYN, or the call returns.
LEMMA NotSyncedType ==
    ASSUME LinkInv, NotSynced
    PROVE  /\ LinkType' /\ host.at = "sync" /\ Fresh /\ HistoryInv'
           /\ host'.n = host.n /\ host'.result # "ok"
           /\ UNCHANGED << rx, fw, sent, done, answers >>
           /\ \/ host'.at = "sync" /\ Write(<< SYN >>, 0)
              \/ host'.at = "idle" /\ toSv' = toSv
           /\ \/ Reads(2) /\ ~SyncOk /\ toHost' = AfterTaking(2)
              \/ TimesOut(2)
<1>1. /\ host.at = "sync" /\ UNCHANGED << rx, fw, done, answers >>
      /\ \/ Reads(2) /\ ~SyncOk /\ toHost' = AfterTaking(2)
         \/ TimesOut(2)
      /\ TryAgain \/ GiveUp
  BY DEF NotSynced
<1>2. LinkType /\ HistoryInv /\ Fresh /\ host.result # "ok"
  BY <1>1 DEF LinkInv, HistoryInv
<1>3. toHost' \in Seq(Stamped)
  <2>1. CASE Reads(2) /\ toHost' = AfterTaking(2)
    <3>1. toHost \in Seq(Stamped) /\ 2 \in Nat
      BY <1>2 DEF LinkType, LineType
    <3> QED
      BY <2>1, <3>1, Takes
  <2>2. CASE TimesOut(2)
    BY <2>2, EmptySeq DEF TimesOut
  <2> QED
    BY <1>1, <2>1, <2>2
<1>4. sent' = sent
  BY <1>1 DEF TryAgain, GiveUp
<1>5. CASE TryAgain
  <2>1. host' = [host EXCEPT !.try = host.try + 1] /\ Write(<< SYN >>, 0)
    BY <1>5 DEF TryAgain
  <2>2. /\ host' \in HostRec /\ CallOk' /\ host'.at = "sync" /\ host'.n = host.n
        /\ host'.result = host.result
    <3>1. host.try + 1 \in Nat
      BY <1>2 DEF LinkType, HostRec
    <3> QED
      BY <1>1, <1>2, <2>1, <3>1 DEF LinkType, HostRec, CallOk
  <2>3. toSv' \in Seq(Stamped)
    BY <1>2, <2>1, WriteSyn DEF LinkType, LineType
  <2>4. LinkType'
    BY <1>1, <1>2, <1>3, <1>4, <2>2, <2>3 DEF LinkType, LineType, HistType
  <2>5. HistoryInv'
    BY <1>1, <1>2, <1>4, <2>2, HistoryStays
  <2> QED
    BY <1>1, <1>2, <1>4, <2>1, <2>2, <2>4, <2>5
<1>6. CASE GiveUp
  <2>1. Returned("error") /\ toSv' = toSv
    BY <1>6 DEF GiveUp
  <2>2. /\ host' \in HostRec /\ CallOk' /\ host'.at = "idle" /\ host'.n = host.n
        /\ host'.result = "error"
    BY <1>1, <1>2, <2>1, ReturnedStep
  <2>3. LinkType'
    BY <1>1, <1>2, <1>3, <1>4, <2>1, <2>2 DEF LinkType, LineType, HistType
  <2>4. HistoryInv'
    BY <1>1, <1>2, <1>4, <2>2, HistoryStays
  <2> QED
    BY <1>1, <1>2, <1>4, <2>1, <2>2, <2>3, <2>4
<1> QED
  BY <1>1, <1>5, <1>6

LEMMA NotSyncedStep ==
    ASSUME LinkInv, NotSynced
    PROVE  LinkInv'
<1>1. /\ LinkType' /\ host.at = "sync" /\ Fresh /\ HistoryInv'
      /\ host'.n = host.n /\ host'.result # "ok"
      /\ UNCHANGED << rx, fw, sent, done, answers >>
      /\ \/ host'.at = "sync" /\ Write(<< SYN >>, 0)
         \/ host'.at = "idle" /\ toSv' = toSv
      /\ \/ Reads(2) /\ ~SyncOk /\ toHost' = AfterTaking(2)
         \/ TimesOut(2)
  BY NotSyncedType
<1>2. LinkType /\ toSv \in Seq(Stamped) /\ toHost \in Seq(Stamped)
      /\ Len(rx) \in Nat /\ Len(toSv) \in Nat
  BY LenProperties DEF LinkInv, LinkType, LineType
<1>3. /\ Write(<< SYN >>, 0) => Len(toSv') = Len(toSv) + 1
      /\ Syns(toSv) => Syns(toSv')
  BY <1>1, <1>2, WriteSyn
<1>4. Asking \/ Abandoned \/ OutOfStep
  BY <1>1 DEF LinkInv, AtRest, Sending, Working, Answering
<1>5. ~Asking
  <2> SUFFICES ASSUME Asking PROVE FALSE
    OBVIOUS
  <2>1. CASE toSv = Bytes(<< SYN >>, 0) /\ toHost = << >>
    <3>1. toSv # << >>
      BY <2>1, SynBytes
    <3>2. ~Reads(2)
      <4>1. Len(toHost) = 0
        BY <2>1
      <4> QED
        BY <4>1 DEF Reads
    <3> QED
      BY <1>1, <3>1, <3>2 DEF TimesOut, Quiet
  <2>2. CASE toSv = << >> /\ toHost = Bytes(<< SYN, ACK >>, 0)
    <3>1. Reads(2)
      BY <2>2, SynBytes DEF Reads
    <3>2. SyncOk
      <4>1. PICK S, q : S = Stamped /\ q = toHost
        OBVIOUS
      <4>2. q \in Seq(S) /\ Len(q) = 2
        BY <1>2, <2>2, <4>1, SynBytes
      <4>3. SubSeq(q, 1, 2) = q
        BY <4>2, SubSeqFull
      <4> QED
        BY <2>2, <4>1, <4>3, SynBytes DEF SyncOk, Taken
    <3> QED
      BY <1>1, <3>1, <3>2 DEF TimesOut
  <2> QED
    BY <2>1, <2>2 DEF Asking
<1>6. CASE Abandoned
  <2>1. ~Reads(2)
    <3>1. Len(toHost) = 0
      BY <1>6 DEF Abandoned
    <3> QED
      BY <3>1 DEF Reads
  <2>2. toHost' = << >>
    BY <1>1, <2>1 DEF TimesOut
  <2>3. Busy' /\ Fresh'
    BY <1>1, <1>6 DEF Abandoned, Busy, Executed, Fresh
  <2>4. Abandoned'
    BY <1>1, <1>3, <1>6, <2>2, <2>3 DEF Abandoned, OnlySyns
  <2> QED
    BY <1>1, <2>4 DEF LinkInv
<1>7. CASE OutOfStep
  <2>1. PICK k \in Nat : /\ Len(toHost) = k + k + 1 /\ DOMAIN toHost = 1 .. k + k + 1
                         /\ host.at = "sync" => k + Len(rx) + Len(toSv) > 0
                         /\ \A j \in Nat : j <= k => toHost[j + j + 1].b # SYN
    BY <1>7, OutOfStepHead
  <2>2. Reads(2)
    <3> SUFFICES ASSUME TimesOut(2), ~Reads(2) PROVE FALSE
      BY <1>1
    <3>1. rx = << >> /\ toSv = << >>
      BY <1>7, PollType DEF TimesOut, Quiet, OutOfStep
    <3>2. Len(rx) = 0 /\ Len(toSv) = 0
      BY <3>1
    <3>3. k > 0
      BY <1>1, <2>1, <3>2
    <3>4. Len(toHost) >= 2
      BY <2>1, <3>3
    <3> QED
      BY <3>4 DEF Reads
  <2>3. k > 0
    <3>1. k + k + 1 >= 2
      BY <2>1, <2>2 DEF Reads
    <3> QED
      BY <3>1
  <2>4. /\ toHost' \in Seq(Stamped) /\ Len(toHost') = Len(toHost) - 2
        /\ \A i \in 1 .. Len(toHost) - 2 : toHost'[i] = toHost[2 + i]
    <3>1. toHost' = AfterTaking(2)
      BY <1>1, <2>2 DEF TimesOut
    <3>2. 2 \in Nat
      OBVIOUS
    <3> QED
      BY <1>2, <2>2, <3>1, <3>2, Takes
  <2>5. PICK m \in Nat : k = m + 1
    BY <2>3
  <2>6. Len(toHost') = 2 * m + 1 /\ DOMAIN toHost' = 1 .. m + m + 1
    <3>1. Len(toHost') = m + m + 1
      BY <2>1, <2>4, <2>5
    <3> QED
      BY <2>4, <3>1, LenProperties
  <2>7. host'.at = "sync" => m + Len(rx') + Len(toSv') > 0
    BY <1>1, <1>2, <1>3
  <2>8. ASSUME NEW j \in Nat, j + j + 1 \in DOMAIN toHost' PROVE toHost'[j + j + 1].b # SYN
    <3>1. j + j + 1 <= m + m + 1
      BY <2>6, <2>8
    <3>2. j + 1 \in Nat /\ j + 1 <= k /\ j + j + 1 \in 1 .. Len(toHost) - 2
      BY <2>1, <2>5, <3>1
    <3>3. toHost'[j + j + 1] = toHost[2 + (j + j + 1)]
      BY <2>4, <3>2
    <3>4. 2 + (j + j + 1) = (j + 1) + (j + 1) + 1
      OBVIOUS
    <3>5. toHost[(j + 1) + (j + 1) + 1].b # SYN
      BY <2>1, <3>2
    <3> QED
      BY <3>3, <3>4, <3>5
  <2>9. OutOfStep'
    BY <1>1, <1>3, <1>7, <2>6, <2>7, <2>8 DEF OutOfStep, OnlySyns
  <2> QED
    BY <1>1, <2>9 DEF LinkInv
<1> QED
  BY <1>4, <1>5, <1>6, <1>7

-----------------------------------------------------------------------------
(* The library: the answer *)

LEMMA TupleJoin ==
    ASSUME NEW a \in Nat, NEW k \in Nat, NEW c \in Nat PROVE << a >> \o << k, c >> = << a, k, c >>
<1>1. PICK u, v, w : u = << a >> /\ v = << k, c >> /\ w = << a, k, c >>
  OBVIOUS
<1>2. /\ u \in Seq(Nat) /\ Len(u) = 1 /\ u[1] = a
      /\ v \in Seq(Nat) /\ Len(v) = 2 /\ v[1] = k /\ v[2] = c
      /\ w \in Seq(Nat) /\ Len(w) = 3 /\ w[1] = a /\ w[2] = k /\ w[3] = c
  BY <1>1
<1>3. u \in Seq(Nat) /\ v \in Seq(Nat)
  BY <1>2
<1>4. /\ u \o v \in Seq(Nat) /\ Len(u \o v) = Len(u) + Len(v)
      /\ \A i \in 1 .. Len(u) + Len(v) : (u \o v)[i] =
                     IF i <= Len(u) THEN u[i] ELSE v[i - Len(u)]
  BY <1>3, ConcatProperties
<1>5. PICK s : s = u \o v
  OBVIOUS
<1>6. s \in Seq(Nat) /\ Len(s) = 3 /\ s[1] = u[1] /\ s[2] = v[1] /\ s[3] = v[2]
  BY <1>2, <1>4, <1>5
<1>7. \A i \in 1 .. Len(s) : s[i] = w[i]
  BY <1>2, <1>6
<1>8. s = w
  BY <1>2, <1>6, <1>7, SeqEqual
<1> QED
  BY <1>1, <1>5, <1>8

LEMMA NotEmptyStream ==
    ASSUME NEW q \in Seq(Stamped) PROVE Len(q) \in Nat /\ (q = << >> <=> Len(q) = 0)
<1>1. PICK S : S = Stamped
  OBVIOUS
<1>2. q \in Seq(S)
  BY <1>1
<1> QED
  BY <1>2, LenProperties, EmptySeq

\* A frame under way has its EOT still to come.
LEMMA FrameLeft ==
    ASSUME LinkType, host.at # "idle", NEW left \in Seq(Nat), HasRead(left)
    PROVE  left # << >>
<1>1. /\ host.args \o << EOT >> \in Seq(Nat) /\ << EOT >> \in Seq(Nat)
  BY FrameIs, Marks
<1>2. ASSUME NEW a \in Seq(Nat), NEW c \in Seq(Nat), a # << >> PROVE a \o c # << >>
  BY <1>2, ConcatEqualIffEmpty
<1>3. /\ << ENQ, SOH, host.cmd, STX >> \in Seq(Nat) /\ << SOH, host.cmd, STX >> \in Seq(Nat)
      /\ << host.cmd, STX >> \in Seq(Nat) /\ << STX >> \in Seq(Nat)
  BY FrameIs, Marks
<1>4. /\ << ENQ, SOH, host.cmd, STX >> # << >> /\ << SOH, host.cmd, STX >> # << >>
      /\ << host.cmd, STX >> # << >> /\ << STX >> # << >> /\ << EOT >> # << >>
  OBVIOUS
<1>5. ASSUME NEW rest \in Seq(Payloads), rest # << >> PROVE rest \o << EOT >> # << >>
  BY <1>1, <1>2, <1>5, PayloadSeq
<1> QED
  BY <1>1, <1>2, <1>3, <1>4, <1>5 DEF HasRead

\* What the library reads is either nothing or the call's answer.
LEMMA NothingYet ==
    ASSUME LinkInv, host.at \in {"ack", "hdr", "data", "eot"}
    PROVE  \/ Answering
           \/ /\ host.at = "ack" /\ toHost = << >> /\ ~Reads(1) /\ rx = << >>
              /\ Quiet => Working /\ Waits(fw.cmd)
<1>1. Sending \/ Working \/ Answering
  BY DEF LinkInv, AtRest, Asking, Abandoned, OutOfStep
<1>2. toHost = << >> => ~Reads(1)
  <2>1. Len(<< >>) = 0
    OBVIOUS
  <2> QED
    BY <2>1 DEF Reads
<1>3. CASE Sending
  <2>1. PICK left \in Seq(Nat) : HasRead(left) /\ toSv = Bytes(left, host.n)
    BY <1>3 DEF Sending
  <2>2. LinkType /\ host.n \in Nat
    BY FrameIs DEF LinkInv
  <2>3. left # << >>
    BY <2>1, <2>2, FrameLeft
  <2>4. Len(toSv) = Len(left) /\ toSv \in Seq(Stamped)
    BY <2>1, <2>2, BytesAre
  <2>5. Len(left) # 0
    BY <2>3, EmptySeq
  <2>6. toSv # << >>
    BY <2>4, <2>5, NotEmptyStream
  <2> QED
    BY <1>2, <1>3, <2>6 DEF Sending, Quiet
<1>4. CASE Working
  BY <1>2, <1>4 DEF Working, Busy, Quiet
<1> QED
  BY <1>1, <1>3, <1>4

LEMMA ToldIs ==
    ASSUME LinkInv, Answering
    PROVE  /\ host.n \in Calls /\ host.n \in Nat /\ Told \in Seq(Payloads) /\ Told \in Seq(Nat)
           /\ Len(Told) \in Nat /\ Len(Told) >= 1 /\ Told \o << EOT >> \in Seq(Nat)
           /\ << EOT >> \in Seq(Nat)
<1>1. host.n \in Calls /\ host.n \in Nat
  BY FrameIs DEF LinkInv, LinkType, CallOk, Answering, AtRest, Constants
<1>2. Told \in Seq(Payloads)
  BY <1>1 DEF LinkInv, LinkType, HistType, Told
<1>3. Told \in Seq(Nat)
  BY <1>2, PayloadSeq
<1>4. Told # << >>
  BY DEF Answering
<1>5. Len(Told) \in Nat \ {0}
  BY <1>3, <1>4, EmptySeq
<1>6. Len(Told) >= 1
  BY <1>5
<1>7. << EOT >> \in Seq(Nat)
  BY Marks
<1>8. Told \o << EOT >> \in Seq(Nat)
  BY <1>3, <1>7, ConcatProperties
<1> QED
  BY <1>1, <1>2, <1>3, <1>5, <1>6, <1>7, <1>8

\* A step of Recv touches the library and what it has not read only.
LEMMA RecvFrame ==
    ASSUME LinkInv, host' \in HostRec, CallOk', host'.n = host.n, toHost' \in Seq(Stamped),
           UNCHANGED << toSv, rx, fw, sent, done, answers >>
    PROVE  /\ LinkType'
           /\ host'.at # "sync" /\ host'.result # "ok" => HistoryInv'
<1>1. LinkType'
  BY DEF LinkInv, LinkType, LineType, HistType
<1>2. host'.at # "sync" /\ host'.result # "ok" => HistoryInv'
  BY HistoryStays DEF LinkInv
<1> QED
  BY <1>1, <1>2

LEMMA RecvAckStep ==
    ASSUME LinkInv, RecvAck, UNCHANGED << toSv, rx, fw, sent, done, answers >>
    PROVE  LinkInv' /\ host'.at = "hdr" /\ host'.n = host.n
<1>1. /\ host.at = "ack" /\ Reads(1) /\ toHost' = AfterTaking(1)
      /\ IF Head(toHost).b = ACK THEN host' = [host EXCEPT !.at = "hdr", !.got = Taken(1)]
                ELSE Returned("error")
  BY DEF RecvAck
<1>2. Answering
  BY <1>1, NothingYet
<1>3. /\ host.n \in Calls /\ host.n \in Nat /\ Told \in Seq(Nat)
      /\ Len(Told) \in Nat /\ Told \o << EOT >> \in Seq(Nat)
  BY <1>2, ToldIs
<1>4. toHost = Bytes(<< ACK, Len(Told), STX >> \o (Told \o << EOT >>), host.n)
  BY <1>1, <1>2 DEF Answering
<1>5. PICK x, y, z, r, n : /\ x = << ACK >> /\ y = << Len(Told), STX >>
                           /\ z = << ACK, Len(Told), STX >> /\ r = Told \o << EOT >>
                           /\ n = host.n
  OBVIOUS
<1>6. /\ x \in Seq(Nat) /\ y \in Seq(Nat) /\ r \in Seq(Nat) /\ z = x \o y /\ n \in Nat
      /\ Len(x) = 1
  <2>1. x \in Seq(Nat) /\ y \in Seq(Nat)
    BY <1>3, <1>5, Marks
  <2>2. z = x \o y
    BY <1>3, <1>5, Marks, TupleJoin
  <2> QED
    BY <1>3, <1>5, <2>1, <2>2
<1>7. y \o r \in Seq(Nat) /\ z \o r = x \o (y \o r)
  <2>1. x \in Seq(Nat)
    BY <1>6
  <2>2. y \in Seq(Nat)
    BY <1>6
  <2>3. r \in Seq(Nat)
    BY <1>6
  <2>4. (x \o y) \o r = x \o (y \o r)
    BY <2>1, <2>2, <2>3, JoinThree
  <2> QED
    BY <1>6, <2>2, <2>3, <2>4, ConcatProperties
<1>8. toHost = Bytes(<< ACK >> \o (y \o r), n) /\ ACK \in Nat
  BY <1>4, <1>5, <1>7, Marks
<1>9. PICK c : c = y \o r
  OBVIOUS
<1>100. n \in Nat /\ c \in Seq(Nat) /\ x \in Seq(Nat)
  BY <1>6, <1>7, <1>9
<1>10. Head(toHost) = Byte(ACK, n)
  <2>1. ACK \in Nat /\ c \in Seq(Nat) /\ n \in Nat
    BY <1>8, <1>100
  <2>2. Head(Bytes(<< ACK >> \o c, n)) = Byte(ACK, n)
    BY <2>1, BytesOne
  <2> QED
    BY <1>8, <1>9, <2>2
<1>11. Head(toHost).b = ACK
  BY <1>10 DEF Byte
<1>12. Taken(1) = Bytes(<< ACK >>, n) /\ AfterTaking(1) = Bytes(c, n)
  <2>1. toHost = Bytes(x \o c, n)
    BY <1>5, <1>8, <1>9
  <2>2. Taken(Len(x)) = Bytes(x, n) /\ AfterTaking(Len(x)) = Bytes(c, n)
    BY <1>100, <2>1, TakesPart
  <2> QED
    BY <1>5, <1>6, <2>2
<1>13. host' = [host EXCEPT !.at = "hdr", !.got = Taken(1)]
  BY <1>1, <1>11
<1>14. Bytes(<< ACK >>, n) \in Seq(Stamped) /\ Bytes(c, n) \in Seq(Stamped)
  BY <1>5, <1>6, <1>7, <1>9, BytesAre
<1>15. /\ host' \in HostRec /\ CallOk' /\ host'.n = host.n /\ host'.cmd = host.cmd
       /\ host'.at = "hdr" /\ host'.got = Bytes(<< ACK >>, n) /\ host'.result = host.result
  BY <1>1, <1>12, <1>13, <1>14 DEF LinkInv, LinkType, HostRec, CallOk, Places
<1>16. host.result # "ok"
  BY <1>1 DEF LinkInv, HistoryInv
<1>17. LinkType' /\ HistoryInv'
  BY <1>1, <1>12, <1>14, <1>15, <1>16, RecvFrame
<1>18. Told' = Told
  BY <1>15 DEF Told
<1>19. Answering'
  BY <1>1, <1>2, <1>5, <1>9, <1>12, <1>15, <1>18 DEF Answering
<1> QED
  BY <1>15, <1>17, <1>19 DEF LinkInv

LEMMA RecvHdrStep ==
    ASSUME LinkInv, RecvHdr, UNCHANGED << toSv, rx, fw, sent, done, answers >>
    PROVE  LinkInv' /\ host'.at = "data" /\ host'.n = host.n
<1>1. /\ host.at = "hdr" /\ Reads(2) /\ toHost' = AfterTaking(2)
      /\ IF toHost[2].b = STX /\ toHost[1].b <= AnswerSize(host.cmd)
         THEN host' = [host EXCEPT !.at = "data", !.size = toHost[1].b,
                                   !.got = host.got \o Taken(2)]
         ELSE Returned("error")
  BY DEF RecvHdr
<1>2. Answering
  BY <1>1, NothingYet
<1>3. /\ host.n \in Calls /\ host.n \in Nat /\ Told \in Seq(Nat)
      /\ Len(Told) \in Nat /\ Told \o << EOT >> \in Seq(Nat)
  BY <1>2, ToldIs
<1>4. /\ toHost = Bytes(<< Len(Told), STX >> \o (Told \o << EOT >>), host.n)
      /\ host.got = Bytes(<< ACK >>, host.n) /\ Len(Told) <= AnswerSize(host.cmd)
  BY <1>1, <1>2 DEF Answering
<1>5. PICK x, y, z, r, n : /\ x = << ACK >> /\ y = << Len(Told), STX >>
                           /\ z = << ACK, Len(Told), STX >> /\ r = Told \o << EOT >>
                           /\ n = host.n
  OBVIOUS
<1>6. /\ x \in Seq(Nat) /\ y \in Seq(Nat) /\ r \in Seq(Nat) /\ z = x \o y /\ n \in Nat
      /\ Len(y) = 2 /\ y[1] = Len(Told) /\ y[2] = STX
  <2>1. x \in Seq(Nat) /\ y \in Seq(Nat) /\ Len(y) = 2 /\ y[1] = Len(Told) /\ y[2] = STX
    BY <1>3, <1>5, Marks
  <2>2. z = x \o y
    BY <1>3, <1>5, Marks, TupleJoin
  <2> QED
    BY <1>3, <1>5, <2>1, <2>2
<1>60. x \in Seq(Nat) /\ y \in Seq(Nat) /\ r \in Seq(Nat) /\ n \in Nat
  BY <1>6
<1>7. Reads(2) /\ Taken(2) = Bytes(y, n) /\ AfterTaking(2) = Bytes(r, n)
  <2>1. toHost = Bytes(y \o r, n)
    BY <1>4, <1>5
  <2>2. Reads(Len(y)) /\ Taken(Len(y)) = Bytes(y, n) /\ AfterTaking(Len(y)) = Bytes(r, n)
    BY <1>60, <2>1, TakesPart
  <2> QED
    BY <1>6, <2>2
<1>8. toHost[1] = Byte(Len(Told), n) /\ toHost[2] = Byte(STX, n)
  <2>1. /\ Len(Bytes(y, n)) = Len(y) /\ \A i \in 1 .. Len(y) : Bytes(y, n)[i] = Byte(y[i], n)
    BY <1>6, BytesAre
  <2>2. \A i \in 1 .. 2 : Taken(2)[i] = toHost[i]
    <3>1. toHost \in Seq(Stamped) /\ 2 \in Nat
      BY DEF LinkInv, LinkType, LineType
    <3> QED
      BY <1>7, <3>1, Takes
  <2> QED
    BY <1>6, <1>7, <2>1, <2>2
<1>9. toHost[2].b = STX /\ toHost[1].b = Len(Told)
  BY <1>8 DEF Byte
<1>10. host' = [host EXCEPT !.at = "data", !.size = Len(Told), !.got = host.got \o Taken(2)]
  BY <1>1, <1>4, <1>9
<1>11. host.got \o Taken(2) = Bytes(z, n)
  <2>1. Bytes(x, n) \o Bytes(y, n) = Bytes(x \o y, n)
    BY <1>60, BytesJoin
  <2> QED
    BY <1>4, <1>5, <1>6, <1>7, <2>1
<1>12. Bytes(z, n) \in Seq(Stamped) /\ Bytes(r, n) \in Seq(Stamped)
  <2>1. z \in Seq(Nat)
    BY <1>3, <1>5, Marks
  <2> QED
    BY <1>6, <2>1, BytesAre
<1>13. /\ host' \in HostRec /\ CallOk' /\ host'.n = host.n /\ host'.cmd = host.cmd
       /\ host'.at = "data" /\ host'.got = Bytes(z, n) /\ host'.result = host.result
       /\ host'.size = Len(Told)
  BY <1>1, <1>3, <1>10, <1>11, <1>12 DEF LinkInv, LinkType, HostRec, CallOk, Places
<1>14. host.result # "ok"
  BY <1>1 DEF LinkInv, HistoryInv
<1>15. LinkType' /\ HistoryInv'
  BY <1>1, <1>7, <1>12, <1>13, <1>14, RecvFrame
<1>16. Told' = Told
  BY <1>13 DEF Told
<1>17. Answering'
  BY <1>1, <1>2, <1>5, <1>7, <1>13, <1>16 DEF Answering
<1> QED
  BY <1>13, <1>15, <1>17 DEF LinkInv

LEMMA RecvDataStep ==
    ASSUME LinkInv, RecvData, UNCHANGED << toSv, rx, fw, sent, done, answers >>
    PROVE  LinkInv' /\ host'.at = "eot" /\ host'.n = host.n
<1>1. /\ host.at = "data" /\ toHost' = AfterTaking(host.size)
      /\ host' = [host EXCEPT !.at = "eot", !.got = host.got \o Taken(host.size)]
  BY DEF RecvData
<1>2. Answering
  BY <1>1, NothingYet
<1>3. /\ host.n \in Calls /\ host.n \in Nat /\ Told \in Seq(Nat)
      /\ Len(Told) \in Nat /\ << EOT >> \in Seq(Nat)
  BY <1>2, ToldIs
<1>4. /\ toHost = Bytes(Told \o << EOT >>, host.n) /\ host.size = Len(Told)
      /\ host.got = Bytes(<< ACK, Len(Told), STX >>, host.n)
  BY <1>1, <1>2 DEF Answering
<1>5. PICK z, e, n, p : /\ z = << ACK, Len(Told), STX >> /\ e = << EOT >> /\ n = host.n
                        /\ p = Told
  OBVIOUS
<1>6. z \in Seq(Nat) /\ e \in Seq(Nat) /\ n \in Nat /\ p \in Seq(Nat)
  BY <1>3, <1>5, Marks
<1>7. Taken(host.size) = Bytes(p, n) /\ AfterTaking(host.size) = Bytes(e, n)
  <2>1. toHost = Bytes(p \o e, n) /\ host.size = Len(p)
    BY <1>4, <1>5
  <2>2. Reads(Len(p)) /\ Taken(Len(p)) = Bytes(p, n) /\ AfterTaking(Len(p)) = Bytes(e, n)
    BY <1>6, <2>1, TakesPart
  <2> QED
    BY <2>1, <2>2
<1>8. host.got \o Taken(host.size) = Bytes(z \o p, n)
  <2>1. z \in Seq(Nat) /\ p \in Seq(Nat) /\ n \in Nat
    BY <1>6
  <2>2. Bytes(z, n) \o Bytes(p, n) = Bytes(z \o p, n)
    BY <2>1, BytesJoin
  <2> QED
    BY <1>4, <1>5, <1>7, <2>2
<1>9. Bytes(z \o p, n) \in Seq(Stamped) /\ Bytes(e, n) \in Seq(Stamped)
  <2>1. z \o p \in Seq(Nat)
    BY <1>6, ConcatProperties
  <2> QED
    BY <1>6, <2>1, BytesAre
<1>10. /\ host' \in HostRec /\ CallOk' /\ host'.n = host.n /\ host'.cmd = host.cmd
       /\ host'.at = "eot" /\ host'.got = Bytes(z \o p, n) /\ host'.result = host.result
  BY <1>1, <1>8, <1>9 DEF LinkInv, LinkType, HostRec, CallOk, Places
<1>11. host.result # "ok"
  BY <1>1 DEF LinkInv, HistoryInv
<1>12. LinkType' /\ HistoryInv'
  BY <1>1, <1>7, <1>9, <1>10, <1>11, RecvFrame
<1>13. Told' = Told
  BY <1>10 DEF Told
<1>14. Answering'
  BY <1>1, <1>2, <1>5, <1>7, <1>10, <1>13 DEF Answering
<1> QED
  BY <1>10, <1>12, <1>14 DEF LinkInv

-----------------------------------------------------------------------------
(* The library: the time-out, the end of the answer *)

LEMMA MaxOfOne == ASSUME NEW m \in Int PROVE Max({m}) = m
BY DEF Max

LEMMA MaxWithOne == ASSUME NEW k \in Nat, k >= 1 PROVE Max({1, k}) = k
<1>1. k \in {1, k} /\ \A y \in {1, k} : k >= y
  OBVIOUS
<1>2. \A x \in {1, k} : (\A y \in {1, k} : x >= y) => x = k
  OBVIOUS
<1> QED
  BY <1>1, <1>2 DEF Max

\* The bytes the library wants next are there once the call is answered.
LEMMA AnsweringReads == ASSUME LinkInv, Answering PROVE Reads(Wanted)
<1>1. /\ host.n \in Nat /\ Told \in Seq(Nat) /\ Len(Told) \in Nat /\ Len(Told) >= 1
      /\ Told \o << EOT >> \in Seq(Nat) /\ << EOT >> \in Seq(Nat)
  BY ToldIs
<1>2. PICK n, p, e, r, k : /\ n = host.n /\ p = Told /\ e = << EOT >> /\ r = p \o e
                           /\ k = Len(p)
  OBVIOUS
<1>3. n \in Nat /\ p \in Seq(Nat) /\ e \in Seq(Nat) /\ r \in Seq(Nat) /\ k \in Nat /\ k >= 1
      /\ Len(e) = 1
  BY <1>1, <1>2
<1>31. p \in Seq(Nat) /\ e \in Seq(Nat)
  BY <1>3
<1>4. Len(r) = k + 1
  BY <1>2, <1>3, <1>31, ConcatProperties
<1>5. ASSUME NEW z \in Seq(Nat) PROVE Len(Bytes(z \o r, n)) = Len(z) + (k + 1) /\ Len(z) \in Nat
  <2>1. z \o r \in Seq(Nat) /\ Len(z \o r) = Len(z) + Len(r)
    BY <1>3, ConcatProperties
  <2>2. Len(Bytes(z \o r, n)) = Len(z \o r)
    BY <1>3, <2>1, BytesAre
  <2> QED
    BY <1>4, <2>1, <2>2, LenProperties
<1>6. Len(Bytes(r, n)) = k + 1 /\ Len(Bytes(e, n)) = 1
  BY <1>3, <1>4, BytesAre
<1>7. CASE host.at = "ack" /\ toHost = Bytes(<< ACK, k, STX >> \o r, n)
  <2>1. << ACK, k, STX >> \in Seq(Nat)
    BY <1>3, Marks
  <2>2. PICK m : m = Len(toHost)
    OBVIOUS
  <2>3. m = Len(<< ACK, k, STX >>) + (k + 1) /\ Len(<< ACK, k, STX >>) \in Nat
    BY <1>5, <1>7, <2>1, <2>2
  <2>4. m >= 1
    BY <1>3, <2>3
  <2>5. Wanted = 1
    BY <1>7 DEF Wanted
  <2> QED
    BY <2>2, <2>4, <2>5 DEF Reads
<1>8. CASE host.at = "hdr" /\ toHost = Bytes(<< k, STX >> \o r, n)
  <2>1. << k, STX >> \in Seq(Nat) /\ Len(<< k, STX >>) = 2
    BY <1>3, Marks
  <2>2. PICK m : m = Len(toHost)
    OBVIOUS
  <2>3. m = Len(<< k, STX >>) + (k + 1)
    BY <1>5, <1>8, <2>1, <2>2
  <2>4. m >= 2
    BY <1>3, <2>1, <2>3
  <2>5. Wanted = 2
    BY <1>8 DEF Wanted
  <2> QED
    BY <2>2, <2>4, <2>5 DEF Reads
<1>9. CASE host.at = "data" /\ host.size = k /\ toHost = Bytes(r, n)
  <2>1. Wanted = k
    BY <1>3, <1>9, MaxWithOne DEF Wanted
  <2>2. Len(toHost) >= k
    BY <1>3, <1>6, <1>9
  <2> QED
    BY <2>1, <2>2 DEF Reads
<1>10. CASE host.at = "eot" /\ toHost = Bytes(e, n)
  <2>1. Wanted = 1
    BY <1>10 DEF Wanted
  <2>2. Len(toHost) = 1
    BY <1>6, <1>10
  <2> QED
    BY <2>1, <2>2 DEF Reads
<1> QED
  BY <1>2, <1>7, <1>8, <1>9, <1>10 DEF Answering

LEMMA RecvTimeoutStep ==
    ASSUME LinkInv, RecvTimeout, UNCHANGED << toSv, rx, fw, sent, done, answers >>
    PROVE  LinkInv' /\ host'.at = "idle" /\ host'.n = host.n /\ host'.result = "error"
<1>1. /\ host.at \in {"ack", "hdr", "data", "eot"} /\ ~Reads(Wanted) /\ Quiet
      /\ toHost' = << >> /\ Returned("error")
  BY DEF RecvTimeout, TimesOut
<1>2. Working /\ Waits(fw.cmd) /\ host.at = "ack"
  BY <1>1, NothingYet, AnsweringReads
<1>3. LinkType /\ host.result # "ok"
  BY <1>2 DEF LinkInv, HistoryInv
<1>4. /\ host' \in HostRec /\ CallOk' /\ host'.n = host.n /\ host'.at = "idle"
      /\ host'.result = "error"
  BY <1>1, <1>2, <1>3, ReturnedStep
<1>5. toHost' \in Seq(Stamped)
  BY <1>1, EmptySeq
<1>6. LinkType' /\ HistoryInv'
  BY <1>4, <1>5, RecvFrame
<1>7. Abandoned'
  <2>1. Busy'
    BY <1>2, <1>4 DEF Working, Busy, Executed
  <2>2. OnlySyns'
    <3>1. rx' = << >> /\ toSv' = << >>
      BY <1>2 DEF Working
    <3>2. Len(<< >>) = 0 /\ DOMAIN << >> = {}
      OBVIOUS
    <3> QED
      BY <3>1, <3>2 DEF OnlySyns, Syns
  <2> QED
    BY <1>1, <1>2, <1>4, <2>1, <2>2 DEF Abandoned
<1> QED
  BY <1>4, <1>6, <1>7 DEF LinkInv

\* The library takes what it has read as the answer of the call.
LEMMA DataIsTold ==
    ASSUME LinkInv, Answering, host.at = "eot"
    PROVE  Data = Told /\ \A i \in DOMAIN host.got : host.got[i].n = host.n
<1>1. host.n \in Nat /\ Told \in Seq(Nat) /\ Len(Told) \in Nat
  BY ToldIs
<1>2. PICK z, p, n : z = << ACK, Len(Told), STX >> /\ p = Told /\ n = host.n
  OBVIOUS
<1>3. z \in Seq(Nat) /\ p \in Seq(Nat) /\ Len(z) = 3 /\ n \in Nat
  BY <1>1, <1>2, Marks
<1>31. z \in Seq(Nat) /\ p \in Seq(Nat)
  BY <1>3
<1>4. host.got = Bytes(z \o p, n)
  BY <1>2 DEF Answering
<1>5. PICK s : s = z \o p
  OBVIOUS
<1>6. s \in Seq(Nat)
  BY <1>31, <1>5, ConcatProperties
<1>7. /\ Bytes(s, n) \in Seq(Stamped) /\ Len(Bytes(s, n)) = Len(s) /\ Len(s) \in Nat
      /\ \A i \in 1 .. Len(s) : Bytes(s, n)[i] = Byte(s[i], n)
  BY <1>3, <1>6, BytesAre
<1>8. Values(host.got) = s
  BY <1>3, <1>4, <1>5, <1>6, ValuesOf
<1>9. SubSeq(z \o p, Len(z) + 1, Len(z \o p)) = p
  BY <1>31, SeqSplit
<1>10. Data = p
  <2>1. Len(host.got) = Len(s)
    BY <1>4, <1>5, <1>7
  <2>2. SubSeq(s, 4, Len(s)) = p
    BY <1>3, <1>5, <1>9
  <2> QED
    BY <1>8, <2>1, <2>2 DEF Data
<1>11. ASSUME NEW i \in DOMAIN host.got PROVE host.got[i].n = host.n
  <2>1. DOMAIN host.got = 1 .. Len(s)
    BY <1>4, <1>5, <1>7, LenProperties
  <2>2. host.got[i] = Byte(s[i], n)
    BY <1>4, <1>5, <1>7, <2>1
  <2> QED
    BY <1>2, <2>2 DEF Byte
<1> QED
  BY <1>2, <1>10, <1>11

LEMMA RecvEotStep ==
    ASSUME LinkInv, RecvEot, UNCHANGED << toSv, rx, fw, sent, done, answers >>
    PROVE  /\ LinkInv' /\ host'.at = "idle" /\ host'.n = host.n
           /\ \/ host'.result = "ok" /\ Data' = Told
              \/ host'.result = "error"
<1>1. /\ host.at = "eot" /\ Reads(1) /\ toHost' = AfterTaking(1)
      /\ host' = [host EXCEPT !.at = "idle", !.result = IF Accepts THEN "ok" ELSE "error"]
  BY DEF RecvEot
<1>2. Answering
  BY <1>1, NothingYet
<1>3. /\ host.n \in Calls /\ host.n \in Nat
  BY <1>2, ToldIs
<1>4. Len(toHost) = 1 /\ toHost \in Seq(Stamped)
  <2>1. toHost = Bytes(<< EOT >>, host.n)
    BY <1>1, <1>2 DEF Answering
  <2>2. << EOT >> \in Seq(Nat) /\ Len(<< EOT >>) = 1
    BY Marks
  <2> QED
    BY <1>3, <2>1, <2>2, BytesAre
<1>5. toHost' = << >> /\ toHost' \in Seq(Stamped)
  <2>1. AfterTaking(1) \in Seq(Stamped) /\ Len(AfterTaking(1)) = Len(toHost) - 1
    BY <1>1, <1>4, Takes
  <2> QED
    BY <1>1, <1>4, <2>1, NotEmptyStream
<1>6. PICK r \in {"ok", "error"} : r = IF Accepts THEN "ok" ELSE "error"
  OBVIOUS
<1>7. /\ host' \in HostRec /\ CallOk' /\ host'.n = host.n /\ host'.got = host.got
      /\ host'.at = "idle" /\ host'.result = r
  <2>1. Returned(r)
    BY <1>1, <1>6 DEF Returned
  <2>2. LinkType /\ host.at # "idle"
    BY <1>1 DEF LinkInv
  <2> QED
    BY <2>1, <2>2, ReturnedStep
<1>8. LinkType' /\ (r # "ok" => HistoryInv')
  BY <1>5, <1>7, RecvFrame
<1>9. AtRest'
  BY <1>2, <1>5, <1>7, PollType DEF Answering, AtRest, Poll
<1>10. Data = Told /\ \A i \in DOMAIN host.got : host.got[i].n = host.n
  BY <1>1, <1>2, DataIsTold
<1>11. Data' = Told /\ Told' = Told /\ \A i \in DOMAIN host'.got : host'.got[i].n = host'.n
  BY <1>7, <1>10 DEF Data, Told
<1>12. HistoryInv'
  <2>1. /\ \A i \in DOMAIN done' : \E m \in Calls :
              m <= host'.n /\ done'[i].from = {m} /\ done'[i].what = sent'[m]
        /\ (\A m \in Calls : answers[m] # << >> => Executed(m))'
    BY <1>7 DEF LinkInv, HistoryInv, Executed
  <2> QED
    BY <1>3, <1>7, <1>9, <1>11, <2>1 DEF HistoryInv, Told
<1> QED
  BY <1>6, <1>7, <1>8, <1>9, <1>11, <1>12 DEF LinkInv

-----------------------------------------------------------------------------
(* The library is opened again; a byte is lost *)

LEMMA StreamTail ==
    ASSUME NEW q \in Seq(Stamped), q # << >>
    PROVE  /\ Head(q) = q[1] /\ Head(q) \in Stamped /\ Tail(q) \in Seq(Stamped)
           /\ Len(q) \in Nat /\ Len(q) >= 1 /\ Len(Tail(q)) = Len(q) - 1
           /\ \A i \in 1 .. Len(Tail(q)) : Tail(q)[i] = q[i + 1]
           /\ Syns(q) => Head(q) = Byte(SYN, 0) /\ Syns(Tail(q))
<1>1. PICK S : S = Stamped
  OBVIOUS
<1>2. q \in Seq(S)
  BY <1>1
<1>3. Head(q) = q[1] /\ Len(q) \in Nat /\ Len(q) # 0 /\ DOMAIN q = 1 .. Len(q)
  BY <1>2, EmptySeq, LenProperties
<1>4. /\ Head(q) \in S /\ Tail(q) \in Seq(S) /\ Len(Tail(q)) = Len(q) - 1
      /\ \A i \in 1 .. Len(Tail(q)) : Tail(q)[i] = q[i + 1]
  BY <1>2, HeadTailProperties
<1>5. PICK t, k : t = Tail(q) /\ k = Len(q)
  OBVIOUS
<1>6. DOMAIN t = 1 .. k - 1 /\ k \in Nat /\ k >= 1
  <2>1. t \in Seq(S) /\ Len(t) = k - 1
    BY <1>4, <1>5
  <2> QED
    BY <1>3, <1>5, <2>1, LenProperties
<1>7. ASSUME Syns(q) PROVE Head(q) = Byte(SYN, 0) /\ Syns(t)
  <2>1. 1 \in DOMAIN q
    BY <1>3
  <2>2. ASSUME NEW i \in DOMAIN t PROVE t[i] = Byte(SYN, 0)
    <3>1. i \in 1 .. Len(t) /\ i + 1 \in 1 .. k
      BY <1>3, <1>4, <1>5, <1>6
    <3>2. i + 1 \in DOMAIN q
      BY <1>3, <1>5, <3>1
    <3>3. t[i] = q[i + 1]
      BY <1>4, <1>5, <3>1
    <3> QED
      BY <1>7, <3>2, <3>3 DEF Syns
  <2> QED
    BY <1>3, <1>7, <2>1, <2>2 DEF Syns
<1> QED
  BY <1>1, <1>3, <1>4, <1>5, <1>6, <1>7

\* Nothing on a line and nothing in the register is only SYNs.
LEMMA NoSyns == Syns(<< >>) /\ Len(<< >>) = 0
<1>1. DOMAIN << >> = {} /\ Len(<< >>) = 0
  OBVIOUS
<1> QED
  BY <1>1 DEF Syns

LEMMA ReopenStep ==
    ASSUME LinkInv, Reopen
    PROVE  /\ LinkInv' /\ host'.at = "idle" /\ host'.n = host.n /\ host'.result # "ok"
           /\ UNCHANGED << done, answers >>
<1>1. /\ host.at # "idle" \/ toHost # << >>
      /\ Quiet /\ toHost' = << >>
      /\ IF host.at = "idle" THEN UNCHANGED host ELSE Returned("error")
      /\ UNCHANGED << toSv, rx, fw, sent, done, answers >>
  BY DEF Reopen
<1>2. LinkType /\ HistoryInv /\ ~AtRest
  BY <1>1 DEF LinkInv, AtRest
<1>3. /\ host' \in HostRec /\ CallOk' /\ host'.n = host.n /\ host'.at = "idle"
      /\ host'.result # "ok"
  <2>1. CASE host.at = "idle"
    BY <1>1, <1>2, <2>1, HostSame DEF HistoryInv
  <2>2. CASE host.at # "idle"
    BY <1>1, <1>2, <2>2, ReturnedStep
  <2> QED
    BY <2>1, <2>2
<1>4. LinkType'
  BY <1>1, <1>2, <1>3, EmptySeq DEF LinkType, LineType, HistType
<1>5. HistoryInv'
  BY <1>1, <1>2, <1>3, HistoryStays
<1>6. Quiet /\ rx = << >> /\ toSv = << >> /\ fw = Poll => AtRest'
  BY <1>1, <1>3, PollType DEF AtRest, Poll
<1>7. Quiet => toSv = << >> /\ (fw = Poll => rx = << >>)
  BY PollType DEF Quiet
<1>8. ASSUME Busy, Waits(fw.cmd), OnlySyns PROVE Abandoned'
  <2>1. Busy'
    BY <1>1, <1>3, <1>8 DEF Busy, Executed
  <2>2. OnlySyns'
    BY <1>1, <1>8 DEF OnlySyns
  <2> QED
    BY <1>1, <1>3, <1>8, <2>1, <2>2 DEF Abandoned
<1>9. CASE host.at \in {"ack", "hdr", "data", "eot"}
  <2>1. CASE Answering
    BY <1>1, <1>3, <1>4, <1>5, <1>6, <2>1 DEF Answering, LinkInv
  <2>2. CASE Working /\ Waits(fw.cmd)
    BY <1>1, <1>3, <1>4, <1>5, <1>8, <2>2, NoSyns DEF Working, OnlySyns, LinkInv
  <2> QED
    BY <1>1, <1>9, <2>1, <2>2, NothingYet
<1>10. CASE host.at \notin {"ack", "hdr", "data", "eot"}
  <2>1. CASE Asking \/ OutOfStep
    <3>1. fw = Poll
      BY <2>1 DEF Asking, OutOfStep
    <3>2. AtRest'
      BY <1>1, <1>6, <1>7, <3>1
    <3> QED
      BY <1>1, <1>3, <1>4, <1>5, <3>2 DEF LinkInv
  <2>2. CASE Abandoned
    BY <1>1, <1>3, <1>4, <1>5, <1>8, <2>2 DEF Abandoned, LinkInv
  <2> QED
    BY <1>2, <1>10, <2>1, <2>2 DEF LinkInv, Sending, Working, Answering
<1> QED
  BY <1>9, <1>10

\* Where the firmware waits for the OCD with bytes coming in.
LEMMA BusyIsAbandoned ==
    ASSUME LinkInv, fw.at = "busy", toSv # << >> PROVE Abandoned
<1>1. fw # Poll
  BY PollType
<1>2. ~Sending
  BY PollType DEF Sending, HasRead
<1> QED
  BY <1>1, <1>2 DEF LinkInv, AtRest, Asking, Working, Answering, OutOfStep

LEMMA OverrunStep ==
    ASSUME LinkInv, Overrun
    PROVE  /\ LinkInv' /\ Syns(rx) /\ UNCHANGED << host, done, answers >>
<1>1. /\ toSv # << >> /\ rx' = << Head(toSv) >> /\ toSv' = Tail(toSv)
      /\ UNCHANGED << host, fw, toHost, sent, done, answers >>
  BY DEF Overrun
<1>2. Abandoned
  BY BusyIsAbandoned DEF Overrun
<1>3. LinkType /\ HistoryInv /\ toSv \in Seq(Stamped) /\ host.result # "ok"
  BY <1>2 DEF LinkInv, LinkType, LineType, Abandoned
<1>4. /\ Head(toSv) \in Stamped /\ Tail(toSv) \in Seq(Stamped)
      /\ Syns(toSv) => Head(toSv) = Byte(SYN, 0) /\ Syns(Tail(toSv))
  BY <1>1, <1>3, StreamTail
<1>5. Syns(toSv) /\ Syns(rx)
  BY <1>2 DEF Abandoned, OnlySyns
<1>6. OnlySyns' /\ rx' \in Seq(Stamped)
  <2>1. PICK x : x = Head(toSv)
    OBVIOUS
  <2>2. rx' = << x >> /\ x \in Stamped /\ x = Byte(SYN, 0)
    BY <1>1, <1>4, <1>5, <2>1
  <2>3. << x >> \in Seq(Stamped) /\ Len(<< x >>) = 1 /\ \A i \in DOMAIN << x >> : << x >>[i] = x
    BY <2>2
  <2> QED
    BY <1>1, <1>4, <1>5, <2>2, <2>3 DEF OnlySyns, Syns
<1>7. LinkType'
  BY <1>1, <1>3, <1>4, <1>6, HostSame DEF LinkType, LineType, HistType
<1>8. HistoryInv'
  BY <1>1, <1>3, HistoryStays
<1>9. Abandoned'
  BY <1>1, <1>2, <1>6 DEF Abandoned, Busy, Executed, Fresh
<1> QED
  BY <1>1, <1>5, <1>7, <1>8, <1>9 DEF LinkInv

LEMMA LinkInit == Init => LinkInv
<1> SUFFICES ASSUME Init PROVE LinkInv
  OBVIOUS
<1>1. /\ host = [at |-> "idle", n |-> 0, cmd |-> 0, args |-> << >>, try |-> 0,
                 size |-> 0, got |-> << >>, result |-> "none"]
      /\ toSv = << >> /\ rx = << >> /\ fw = Poll /\ toHost = << >>
      /\ sent = [n \in Calls |-> << >>] /\ done = << >> /\ answers = [n \in Calls |-> << >>]
  BY DEF Init, NotSent
<1>2. /\ << >> \in Seq(Nat) /\ << >> \in Seq(Payloads) /\ << >> \in Seq(Stamped)
      /\ << >> \in Seq(DoneRec) /\ DOMAIN << >> = {}
  BY EmptySeq
<1>3. host \in HostRec /\ host.at = "idle" /\ host.result = "none"
  BY <1>1, <1>2, Constants DEF HostRec, Places
<1>4. LinkType
  BY <1>1, <1>2, <1>3, PollType DEF LinkType, CallOk, LineType, HistType
<1>5. AtRest
  BY <1>1, <1>3 DEF AtRest
<1>6. HistoryInv
  <2>1. \A m \in Calls : answers[m] = << >>
    BY <1>1
  <2> QED
    BY <1>1, <1>2, <1>3, <2>1 DEF HistoryInv
<1> QED
  BY <1>4, <1>5, <1>6 DEF LinkInv

-----------------------------------------------------------------------------
(* Reading the first byte of a message *)

\* Reading the first element of a message of several parts.
LEMMA TailOfJoin ==
    ASSUME NEW S, NEW s \in Seq(S), NEW r \in Seq(S), s # << >>
    PROVE  /\ Tail(s \o r) = Tail(s) \o r /\ (s \o r)[1] = s[1] /\ s \o r # << >>
           /\ Tail(s) \in Seq(S) /\ s[1] \in S
<1>1. PICK k, m, t, u : k = Len(s) /\ m = Len(r) /\ t = Tail(s) /\ u = s \o r
  OBVIOUS
<1>2. k \in Nat /\ k # 0 /\ m \in Nat
  BY <1>1, EmptySeq, LenProperties
<1>3. /\ t \in Seq(S) /\ Len(t) = k - 1 /\ \A i \in 1 .. k - 1 : t[i] = s[i + 1]
  BY <1>1, HeadTailProperties
<1>4. /\ u \in Seq(S) /\ Len(u) = k + m
      /\ \A i \in 1 .. k + m : u[i] = IF i <= k THEN s[i] ELSE r[i - k]
  BY <1>1, ConcatProperties
<1>5. u # << >> /\ 1 \in 1 .. k + m /\ 1 \in 1 .. k
  <2>1. Len(u) # 0
    BY <1>2, <1>4
  <2>2. u # << >>
    BY <1>4, <2>1, EmptySeq
  <2> QED
    BY <1>2, <2>2
<1>6. PICK v, w : v = Tail(u) /\ w = t \o r
  OBVIOUS
<1>7. v \in Seq(S) /\ Len(v) = k + m - 1 /\ \A i \in 1 .. k + m - 1 : v[i] = u[i + 1]
  <2>1. Len(v) = Len(u) - 1 /\ v \in Seq(S) /\ \A i \in 1 .. Len(v) : v[i] = u[i + 1]
    BY <1>4, <1>5, <1>6, HeadTailProperties
  <2>2. Len(v) = k + m - 1
    BY <1>2, <1>4, <2>1
  <2> QED
    BY <2>1, <2>2
<1>8. /\ w \in Seq(S) /\ Len(w) = k - 1 + m
      /\ \A i \in 1 .. k - 1 + m : w[i] = IF i <= k - 1 THEN t[i] ELSE r[i - (k - 1)]
  <2>1. /\ w \in Seq(S) /\ Len(w) = Len(t) + Len(r)
        /\ \A i \in 1 .. Len(t) + Len(r) : w[i] = IF i <= Len(t) THEN t[i] ELSE r[i - Len(t)]
    BY <1>3, <1>6, ConcatProperties
  <2> QED
    BY <1>1, <1>3, <2>1
<1>9. ASSUME NEW i \in 1 .. k + m - 1 PROVE v[i] = w[i]
  <2>1. v[i] = u[i + 1] /\ i + 1 \in 1 .. k + m
    BY <1>2, <1>7
  <2>2. u[i + 1] = IF i + 1 <= k THEN s[i + 1] ELSE r[i + 1 - k]
    <3>1. PICK j \in 1 .. k + m : j = i + 1
      BY <2>1
    <3>2. u[j] = IF j <= k THEN s[j] ELSE r[j - k]
      BY <1>4
    <3>3. i \in Int /\ k \in Int
      BY <1>2
    <3> QED
      BY <3>1, <3>2, <3>3
  <2>3. i \in 1 .. k - 1 + m
    BY <1>2
  <2>4. w[i] = IF i <= k - 1 THEN t[i] ELSE r[i - (k - 1)]
    BY <1>8, <2>3
  <2>5. CASE i <= k - 1
    <3>1. i + 1 <= k /\ i \in 1 .. k - 1
      BY <1>2, <2>5
    <3> QED
      BY <1>3, <2>1, <2>2, <2>4, <3>1
  <2>6. CASE ~(i <= k - 1)
    <3>1. ~(i + 1 <= k) /\ i + 1 - k = i - (k - 1)
      BY <1>2, <2>6
    <3> QED
      BY <2>1, <2>2, <2>4, <2>6, <3>1
  <2> QED
    BY <2>5, <2>6
<1>10. v = w
  <2>1. Len(v) = Len(w) /\ \A i \in 1 .. Len(v) : v[i] = w[i]
    BY <1>2, <1>7, <1>8, <1>9
  <2> QED
    BY <1>7, <1>8, <2>1, SeqEqual
<1>11. u[1] = s[1]
  BY <1>2, <1>4, <1>5
<1>12. s[1] \in S
  BY <1>1, <1>5, ElementOfSeq
<1> QED
  BY <1>1, <1>3, <1>5, <1>6, <1>10, <1>11, <1>12

LEMMA BytesTail ==
    ASSUME NEW s \in Seq(Nat), NEW n \in Nat, s # << >>
    PROVE  /\ Bytes(s, n) # << >> /\ Head(Bytes(s, n)) = Byte(s[1], n)
           /\ Tail(Bytes(s, n)) = Bytes(Tail(s), n) /\ Tail(s) \in Seq(Nat) /\ s[1] \in Nat
<1>1. PICK q, t : q = Bytes(s, n) /\ t = Tail(s)
  OBVIOUS
<1>2. /\ q \in Seq(Stamped) /\ Len(q) = Len(s) /\ Len(s) \in Nat
      /\ \A i \in 1 .. Len(s) : q[i] = Byte(s[i], n)
  BY <1>1, BytesAre
<1>3. Len(s) # 0 /\ \A i \in 1 .. Len(s) : s[i] \in Nat
  BY EmptySeq, ElementOfSeq
<1>4. q # << >> /\ 1 \in 1 .. Len(s)
  BY <1>2, <1>3, NotEmptyStream
<1>5. /\ Head(q) = q[1] /\ Tail(q) \in Seq(Stamped) /\ Len(Tail(q)) = Len(q) - 1
      /\ \A i \in 1 .. Len(Tail(q)) : Tail(q)[i] = q[i + 1]
  BY <1>2, <1>4, StreamTail
<1>6. t \in Seq(Nat) /\ Len(t) = Len(s) - 1 /\ \A i \in 1 .. Len(t) : t[i] = s[i + 1]
  BY <1>1, HeadTailProperties
<1>7. PICK u, k : u = Tail(q) /\ k = Len(t)
  OBVIOUS
<1>8. u \in Seq(Stamped) /\ Len(u) = k /\ Len(s) = k + 1 /\ k \in Nat
      /\ \A i \in 1 .. k : u[i] = q[i + 1] /\ t[i] = s[i + 1]
  <2>1. k = Len(s) - 1 /\ Len(q) = Len(s) /\ Len(s) \in Nat /\ Len(s) # 0
    BY <1>2, <1>3, <1>6, <1>7
  <2>2. Len(s) = k + 1 /\ k \in Nat
    BY <2>1
  <2>3. u \in Seq(Stamped) /\ Len(u) = k /\ \A i \in 1 .. k : u[i] = q[i + 1]
    BY <1>5, <1>7, <2>1
  <2>4. \A i \in 1 .. k : t[i] = s[i + 1]
    BY <1>6, <1>7
  <2> QED
    BY <2>2, <2>3, <2>4
<1>9. ASSUME NEW i \in 1 .. k PROVE u[i] = Byte(t[i], n)
  <2>1. i + 1 \in 1 .. Len(s)
    BY <1>8
  <2> QED
    BY <1>2, <1>8, <2>1
<1>10. u = Bytes(t, n)
  BY <1>6, <1>7, <1>8, <1>9, BytesEqual
<1> QED
  BY <1>1, <1>2, <1>3, <1>4, <1>5, <1>6, <1>7, <1>10

LEMMA FrameTails ==
    ASSUME NEW a \in Nat, NEW b \in Nat, NEW c \in Nat, NEW d \in Nat
    PROVE  /\ Tail(<< a, b, c, d >>) = << b, c, d >> /\ Tail(<< a, b, c >>) = << b, c >>
           /\ Tail(<< a, b >>) = << b >> /\ Tail(<< a >>) = << >>
           /\ << a, b, c, d >>[1] = a /\ << a, b, c >>[1] = a /\ << a, b >>[1] = a
           /\ << a >>[1] = a
           /\ << a, b, c, d >> # << >> /\ << a, b, c >> # << >> /\ << a, b >> # << >>
           /\ << a >> # << >>
OBVIOUS

-----------------------------------------------------------------------------
(* The firmware reads a frame *)

\* The byte the firmware reads, and what it leaves.
LEMMA GetCharIs ==
    ASSUME LinkInv, GetChar
    PROVE  /\ Asking \/ Sending \/ OutOfStep
           /\ fw.at # "busy"
           /\ rx = << >> => /\ toSv # << >> /\ toSv' = Tail(toSv) /\ rx' = << >>
                            /\ Input = Head(toSv)
           /\ rx # << >> => rx' = << >> /\ toSv' = toSv /\ Input = rx[1]
<1>1. /\ fw.at # "busy"
      /\ \/ rx # << >> /\ rx' = << >> /\ UNCHANGED toSv
         \/ rx = << >> /\ toSv # << >> /\ toSv' = Tail(toSv) /\ UNCHANGED rx
  BY DEF GetChar
<1>2. ~AtRest /\ ~Working /\ ~Answering /\ ~Abandoned
  BY <1>1 DEF AtRest, Working, Answering, Abandoned, Busy
<1> QED
  BY <1>1, <1>2 DEF LinkInv, Input

\* The numbers of the bytes read so far, and the next one's.
LEMMA AppendFrom ==
    ASSUME NEW f \in Seq(Nat), NEW n \in Nat, \A i \in DOMAIN f : f[i] = n
    PROVE  /\ Append(f, n) \in Seq(Nat) /\ Append(f, n) # << >>
           /\ \A i \in DOMAIN Append(f, n) : Append(f, n)[i] = n
           /\ ToSet(f) \cup {n} = {n}
<1>1. PICK k, g : k = Len(f) /\ g = Append(f, n)
  OBVIOUS
<1>2. k \in Nat /\ DOMAIN f = 1 .. k
  BY <1>1, LenProperties
<1>3. /\ g \in Seq(Nat) /\ Len(g) = k + 1
      /\ \A i \in 1 .. k : g[i] = f[i] /\ g[k + 1] = n
  <2>1. g \in Seq(Nat) /\ Len(g) = Len(f) + 1 /\ g[Len(f) + 1] = n
        /\ \A i \in 1 .. Len(f) : g[i] = f[i]
    BY <1>1
  <2> QED
    BY <1>1, <2>1
<1>4. g # << >> /\ DOMAIN g = 1 .. k + 1
  <2>1. Len(g) # 0
    BY <1>2, <1>3
  <2> QED
    BY <1>3, <2>1, EmptySeq, LenProperties
<1>5. g[k + 1] = n
  BY <1>1, <1>2
<1>6. ASSUME NEW i \in 1 .. k + 1 PROVE g[i] = n
  <2>1. CASE i \in 1 .. k
    BY <1>2, <1>3, <2>1
  <2>2. CASE i = k + 1
    BY <1>5, <2>2
  <2> QED
    BY <1>2, <2>1, <2>2
<1>7. ToSet(f) \cup {n} = {n}
  BY DEF ToSet
<1> QED
  BY <1>1, <1>3, <1>4, <1>6, <1>7

\* The firmware reads a byte of the call's frame.
LEMMA SendingReads ==
    ASSUME LinkInv, Sending, GetChar, NEW left \in Seq(Nat), HasRead(left),
           toSv = Bytes(left, host.n)
    PROVE  /\ left # << >> /\ Tail(left) \in Seq(Nat) /\ left[1] \in Nat
           /\ Input = Byte(left[1], host.n) /\ Input.b = left[1] /\ Input.n = host.n
           /\ toSv' = Bytes(Tail(left), host.n) /\ rx' = << >>
           /\ toSv' \in Seq(Stamped)
<1>1. rx = << >> /\ host.at = "ack" /\ LinkType
  BY DEF Sending, LinkInv
<1>2. host.n \in Nat
  BY <1>1, FrameIs
<1>3. left # << >>
  BY <1>1, FrameLeft
<1>4. /\ Head(Bytes(left, host.n)) = Byte(left[1], host.n)
      /\ Tail(Bytes(left, host.n)) = Bytes(Tail(left), host.n)
      /\ Tail(left) \in Seq(Nat) /\ left[1] \in Nat
  BY <1>2, <1>3, BytesTail
<1>5. toSv' = Tail(toSv) /\ rx' = << >> /\ Input = Head(toSv)
  BY <1>1, GetCharIs
<1>6. Bytes(Tail(left), host.n) \in Seq(Stamped)
  BY <1>2, <1>4, BytesAre
<1>7. Byte(left[1], host.n).b = left[1] /\ Byte(left[1], host.n).n = host.n
  BY DEF Byte
<1> QED
  BY <1>3, <1>4, <1>5, <1>6, <1>7

\* It has read it, and the frame goes on.
LEMMA SendingStays ==
    ASSUME LinkInv, Sending, UNCHANGED << host, toHost, sent, done, answers >>,
           rx' = << >>, fw' \in FwRec, NEW left \in Seq(Nat), HasRead(left)',
           toSv' = Bytes(left, host.n), toSv' \in Seq(Stamped),
           fw'.at \in {"poll", "soh", "cmd", "stx"} => fw'.args = << >>,
           fw'.from # << >>, \A i \in DOMAIN fw'.from : fw'.from[i] = host.n
    PROVE  LinkInv'
<1>1. LinkType /\ HistoryInv /\ host.result # "ok"
  BY DEF LinkInv, HistoryInv, Sending
<1>2. LinkType'
  BY <1>1, HostSame, EmptySeq DEF LinkType, LineType, HistType
<1>3. HistoryInv'
  BY <1>1, HistoryStays
<1>4. Fresh'
  BY DEF Sending, Fresh
<1>5. \E l \in Seq(Nat) : HasRead(l)' /\ toSv' = Bytes(l, host'.n)
  OBVIOUS
<1>6. Sending'
  BY <1>4, <1>5 DEF Sending
<1> QED
  BY <1>2, <1>3, <1>6 DEF LinkInv

LEMMA SendingHas ==
    ASSUME LinkInv, Sending, NEW left \in Seq(Nat), HasRead(left)
    PROVE  /\ fw.at \in {"poll", "soh", "cmd", "stx"} => fw.args = << >>
           /\ fw.at \in {"poll", "soh", "cmd", "stx", "args", "eot"}
           /\ fw \in FwRec /\ fw.from \in Seq(Nat) /\ fw.args \in Seq(Nat)
           /\ \A i \in DOMAIN fw.from : fw.from[i] = host.n
           /\ host.n \in Nat /\ host.cmd \in KnownCmds /\ host.cmd \in Nat
           /\ Len(host.args) = ArgSize(host.cmd) /\ host.args \in Seq(Nat)
           /\ host.args \o << EOT >> \in Seq(Nat) /\ << EOT >> \in Seq(Nat)
<1>1. LinkType /\ host.at = "ack"
  BY DEF LinkInv, Sending
<1>2. /\ host.n \in Nat /\ host.cmd \in Nat /\ host.args \in Seq(Nat)
      /\ host.args \o << EOT >> \in Seq(Nat) /\ << EOT >> \in Seq(Nat)
  BY <1>1, FrameIs, Marks
<1>3. host.cmd \in KnownCmds /\ Len(host.args) = ArgSize(host.cmd)
  BY <1>1, LinkAssumption DEF LinkType, CallOk
<1>4. fw \in FwRec /\ fw.from \in Seq(Nat) /\ fw.args \in Seq(Nat)
  BY <1>1 DEF LinkType, FwRec
<1>5. fw.at \in {"poll", "soh", "cmd", "stx", "args", "eot"}
  BY PollType DEF HasRead
<1> QED
  BY <1>2, <1>3, <1>4, <1>5 DEF Sending

LEMMA PollByteStep ==
    ASSUME LinkInv, Sending, GetChar, PollByte, UNCHANGED << host, sent, done, answers >>
    PROVE  LinkInv'
<1>1. PICK left \in Seq(Nat) : HasRead(left) /\ toSv = Bytes(left, host.n)
  BY DEF Sending
<1>2. /\ host.n \in Nat /\ host.cmd \in Nat /\ host.args \o << EOT >> \in Seq(Nat)
      /\ fw \in FwRec
  BY <1>1, SendingHas
<1>3. PICK r : r = host.args \o << EOT >>
  OBVIOUS
<1>4. fw = Poll /\ left = << ENQ, SOH, host.cmd, STX >> \o r
  BY <1>1, <1>3 DEF HasRead, PollByte
<1>5. /\ Input.b = left[1] /\ Input.n = host.n /\ rx' = << >>
      /\ toSv' = Bytes(Tail(left), host.n) /\ toSv' \in Seq(Stamped)
      /\ Tail(left) \in Seq(Nat)
  BY <1>1, SendingReads
<1>6. PICK f, g : f = << ENQ, SOH, host.cmd, STX >> /\ g = << SOH, host.cmd, STX >>
  OBVIOUS
<1>7. f \in Seq(Nat) /\ Tail(f) = g /\ f[1] = ENQ /\ f # << >>
  BY <1>2, <1>6, Marks, FrameTails
<1>8. Tail(left) = g \o r /\ left[1] = ENQ
  <2>1. f \in Seq(Nat) /\ r \in Seq(Nat) /\ f # << >>
    BY <1>2, <1>3, <1>7
  <2>2. Tail(f \o r) = Tail(f) \o r /\ (f \o r)[1] = f[1]
    BY <2>1, TailOfJoin
  <2> QED
    BY <1>4, <1>6, <1>7, <2>2
<1>9. Input.b = ENQ /\ ENQ # SYN
  BY <1>5, <1>8 DEF ENQ, SYN
<1>10. fw' = [fw EXCEPT !.at = "soh", !.from = << host.n >>] /\ toHost' = toHost
  BY <1>5, <1>9 DEF PollByte
<1>11. << host.n >> \in Seq(Nat) /\ << host.n >> # << >>
       /\ \A i \in DOMAIN << host.n >> : << host.n >>[i] = host.n
  BY <1>2
<1>12. /\ fw' \in FwRec /\ fw'.at = "soh" /\ fw'.args = << >> /\ fw'.from = << host.n >>
  BY <1>2, <1>4, <1>10, <1>11, PollType DEF FwRec, Spots
<1>13. HasRead(Tail(left))'
  BY <1>3, <1>6, <1>8, <1>12 DEF HasRead
<1> QED
  BY <1>5, <1>10, <1>11, <1>12, <1>13, SendingStays

\* A byte of the frame's middle, up to the arguments.
LEMMA HeadByteStep ==
    ASSUME LinkInv, Sending, GetChar, UNCHANGED << host, sent, done, answers >>,
           \/ fw.at = "soh" /\ Expect(Input.b = SOH, "cmd")
           \/ CmdByte
    PROVE  LinkInv'
<1>1. PICK left \in Seq(Nat) : HasRead(left) /\ toSv = Bytes(left, host.n)
  BY DEF Sending
<1>2. /\ host.n \in Nat /\ host.cmd \in Nat /\ host.args \o << EOT >> \in Seq(Nat)
      /\ fw \in FwRec /\ fw.from \in Seq(Nat) /\ \A i \in DOMAIN fw.from : fw.from[i] = host.n
      /\ fw.at \in {"poll", "soh", "cmd", "stx"} => fw.args = << >>
  BY <1>1, SendingHas
<1>3. PICK r, n : r = host.args \o << EOT >> /\ n = host.n
  OBVIOUS
<1>4. /\ Input.b = left[1] /\ Input.n = n /\ rx' = << >> /\ left[1] \in Nat
      /\ toSv' = Bytes(Tail(left), host.n) /\ toSv' \in Seq(Stamped)
      /\ Tail(left) \in Seq(Nat)
  BY <1>1, <1>3, SendingReads
<1>5. PICK f, g, h, k : /\ f = << SOH, host.cmd, STX >> /\ g = << host.cmd, STX >>
                        /\ h = << STX >> /\ k = Append(fw.from, n)
  OBVIOUS
<1>6. /\ f \in Seq(Nat) /\ Tail(f) = g /\ f[1] = SOH /\ f # << >>
      /\ g \in Seq(Nat) /\ Tail(g) = h /\ g[1] = host.cmd /\ g # << >>
  BY <1>2, <1>5, Marks, FrameTails
<1>7. ASSUME NEW s \in Seq(Nat), s # << >> PROVE Tail(s \o r) = Tail(s) \o r /\ (s \o r)[1] = s[1]
  <2>1. r \in Seq(Nat)
    BY <1>2, <1>3
  <2> QED
    BY <1>7, <2>1, TailOfJoin
<1>8. k \in Seq(Nat) /\ k # << >> /\ \A i \in DOMAIN k : k[i] = host.n
  BY <1>2, <1>3, <1>5, AppendFrom
<1>9. CASE fw.at = "soh" /\ Expect(Input.b = SOH, "cmd")
  <2>1. left = f \o r
    BY <1>1, <1>3, <1>5, <1>9, PollType DEF HasRead
  <2>2. Tail(left) = g \o r /\ left[1] = SOH
    BY <1>6, <1>7, <2>1
  <2>3. fw' = [fw EXCEPT !.at = "cmd", !.from = k] /\ toHost' = toHost
    BY <1>4, <1>5, <1>9, <2>2 DEF Expect
  <2>4. fw' \in FwRec /\ fw'.at = "cmd" /\ fw'.args = << >> /\ fw'.from = k
    BY <1>2, <1>8, <1>9, <2>3 DEF FwRec, Spots
  <2>5. HasRead(Tail(left))'
    BY <1>3, <1>5, <2>2, <2>4 DEF HasRead
  <2> QED
    BY <1>4, <1>8, <2>3, <2>4, <2>5, SendingStays
<1>10. CASE CmdByte
  <2>0. fw.at = "cmd" /\ toHost' = toHost
    BY <1>10 DEF CmdByte
  <2>1. left = g \o r
    BY <1>1, <1>3, <1>5, <2>0, PollType DEF HasRead
  <2>2. Tail(left) = h \o r /\ left[1] = host.cmd
    BY <1>6, <1>7, <2>1
  <2>3. fw' = [fw EXCEPT !.at = "stx", !.cmd = host.cmd, !.from = k]
    BY <1>4, <1>5, <1>10, <2>2 DEF CmdByte
  <2>4. /\ fw' \in FwRec /\ fw'.at = "stx" /\ fw'.args = << >> /\ fw'.from = k
        /\ fw'.cmd = host.cmd
    BY <1>2, <1>8, <2>0, <2>3 DEF FwRec, Spots
  <2>5. HasRead(Tail(left))'
    BY <1>3, <1>5, <2>2, <2>4 DEF HasRead
  <2> QED
    BY <1>4, <1>8, <2>0, <2>4, <2>5, SendingStays
<1> QED
  BY <1>9, <1>10

LEMMA StxByteStep ==
    ASSUME LinkInv, Sending, GetChar, UNCHANGED << host, sent, done, answers >>,
           fw.at = "stx",
           Expect(Input.b = STX /\ fw.cmd \in KnownCmds,
                  IF ArgSize(fw.cmd) = 0 THEN "eot" ELSE "args")
    PROVE  LinkInv'
<1>1. PICK left \in Seq(Nat) : HasRead(left) /\ toSv = Bytes(left, host.n)
  BY DEF Sending
<1>2. /\ host.n \in Nat /\ host.cmd \in KnownCmds /\ host.args \o << EOT >> \in Seq(Nat)
      /\ fw \in FwRec /\ fw.from \in Seq(Nat) /\ \A i \in DOMAIN fw.from : fw.from[i] = host.n
      /\ fw.at \in {"poll", "soh", "cmd", "stx"} => fw.args = << >>
      /\ Len(host.args) = ArgSize(host.cmd) /\ host.args \in Seq(Nat)
  BY <1>1, SendingHas
<1>3. PICK r, n, h, k : /\ r = host.args \o << EOT >> /\ n = host.n /\ h = << STX >>
                        /\ k = Append(fw.from, n)
  OBVIOUS
<1>4. left = h \o r /\ fw.cmd = host.cmd
  BY <1>1, <1>3, PollType DEF HasRead
<1>5. /\ Input.b = left[1] /\ Input.n = n /\ rx' = << >>
      /\ toSv' = Bytes(Tail(left), host.n) /\ toSv' \in Seq(Stamped)
      /\ Tail(left) \in Seq(Nat)
  BY <1>1, <1>3, SendingReads
<1>6. Tail(left) = r /\ left[1] = STX
  <2>1. h \in Seq(Nat) /\ h # << >> /\ h[1] = STX /\ Tail(h) = << >>
    BY <1>3, Marks, FrameTails
  <2>2. r \in Seq(Nat)
    BY <1>2, <1>3
  <2>3. Tail(h \o r) = Tail(h) \o r /\ (h \o r)[1] = h[1]
    BY <2>1, <2>2, TailOfJoin
  <2>4. << >> \o r = r
    BY <2>2, ConcatEmptySeq
  <2> QED
    BY <1>4, <2>1, <2>3, <2>4
<1>7. k \in Seq(Nat) /\ k # << >> /\ \A i \in DOMAIN k : k[i] = host.n
  BY <1>2, <1>3, AppendFrom
<1>8. PICK at : at = IF ArgSize(host.cmd) = 0 THEN "eot" ELSE "args"
  OBVIOUS
<1>9. fw' = [fw EXCEPT !.at = at, !.from = k] /\ toHost' = toHost
  BY <1>2, <1>3, <1>4, <1>5, <1>6, <1>8 DEF Expect
<1>10. /\ fw' \in FwRec /\ fw'.at = at /\ fw'.args = << >> /\ fw'.from = k
       /\ fw'.cmd = host.cmd
  BY <1>2, <1>4, <1>7, <1>8, <1>9 DEF FwRec, Spots
<1>11. HasRead(Tail(left))'
  <2>1. CASE ArgSize(host.cmd) = 0
    <3>1. host.args = << >>
      BY <1>2, <2>1, EmptySeq
    <3>2. r = << EOT >>
      <4>1. << EOT >> \in Seq(Nat)
        BY Marks
      <4> QED
        BY <1>3, <3>1, <4>1, ConcatEmptySeq
    <3> QED
      BY <1>6, <1>8, <1>10, <2>1, <3>1, <3>2 DEF HasRead
  <2>2. CASE ArgSize(host.cmd) # 0
    <3>1. host.args # << >>
      <4>1. Len(<< >>) = 0
        OBVIOUS
      <4> QED
        BY <1>2, <2>2, <4>1
    <3>2. host.args \in Seq(Payloads)
      BY DEF LinkInv, LinkType, HostRec
    <3>3. << >> \o host.args = host.args
      BY <1>2, ConcatEmptySeq
    <3>4. \E rest \in Seq(Payloads) : /\ rest # << >> /\ fw'.args \o rest = host'.args
                                      /\ Tail(left) = rest \o << EOT >>
      BY <1>3, <1>6, <1>10, <3>1, <3>2, <3>3
    <3>5. fw'.at = "args" /\ fw'.cmd = host'.cmd
      BY <1>8, <1>10, <2>2
    <3> QED
      BY <3>4, <3>5 DEF HasRead
  <2> QED
    BY <2>1, <2>2
<1>12. fw'.at \in {"poll", "soh", "cmd", "stx"} => fw'.args = << >>
  BY <1>10
<1> QED
  BY <1>5, <1>7, <1>9, <1>10, <1>11, <1>12, SendingStays

\* The first of the arguments still to come joins those already here.
LEMMA ArgJoins ==
    ASSUME NEW S, NEW a \in Seq(S), NEW rest \in Seq(S), rest # << >>
    PROVE  /\ Append(a, rest[1]) \in Seq(S)
           /\ Append(a, rest[1]) \o Tail(rest) = a \o rest
           /\ Tail(rest) \in Seq(S) /\ rest[1] \in S
           /\ Len(Append(a, rest[1])) + Len(Tail(rest)) = Len(a \o rest)
           /\ Len(Tail(rest)) \in Nat /\ Len(Append(a, rest[1])) \in Nat
<1>1. /\ rest[1] \in S /\ Tail(rest) \in Seq(S)
  BY TailOfJoin
<1>2. PICK x, h, t : x = rest[1] /\ h = << x >> /\ t = Tail(rest)
  OBVIOUS
<1>3. h \in Seq(S) /\ t \in Seq(S) /\ x \in S /\ Len(h) = 1 /\ h[1] = x
  BY <1>1, <1>2
<1>31. h \in Seq(S) /\ t \in Seq(S)
  BY <1>3
<1>4. h \o t = rest
  <2>1. /\ h \o t \in Seq(S) /\ Len(h \o t) = Len(h) + Len(t)
        /\ \A i \in 1 .. Len(h) + Len(t) : (h \o t)[i] = IF i <= Len(h) THEN h[i] ELSE t[i - Len(h)]
    BY <1>31, ConcatProperties
  <2>2. PICK w, m : w = h \o t /\ m = Len(rest)
    OBVIOUS
  <2>3. m \in Nat /\ Len(t) = m - 1 /\ \A i \in 1 .. m - 1 : t[i] = rest[i + 1]
    BY <1>2, <2>2, HeadTailProperties, LenProperties
  <2>4. /\ w \in Seq(S) /\ Len(w) = m
        /\ \A i \in 1 .. m : w[i] = IF i <= 1 THEN h[i] ELSE t[i - 1]
    BY <1>3, <2>1, <2>2, <2>3
  <2>5. ASSUME NEW i \in 1 .. m PROVE w[i] = rest[i]
    <3>1. CASE i = 1
      BY <1>2, <1>3, <2>4, <3>1
    <3>2. CASE i # 1
      <4>1. ~(i <= 1) /\ i - 1 \in 1 .. m - 1 /\ (i - 1) + 1 = i
        BY <2>3, <3>2
      <4>2. t[i - 1] = rest[(i - 1) + 1]
        BY <2>3, <4>1
      <4>3. w[i] = t[i - 1]
        BY <2>4, <4>1
      <4> QED
        BY <4>1, <4>2, <4>3
    <3> QED
      BY <3>1, <3>2
  <2>6. w = rest
    BY <2>2, <2>4, <2>5, SeqEqual
  <2> QED
    BY <2>2, <2>6
<1>5. Append(a, x) = a \o h /\ Append(a, x) \in Seq(S)
  BY <1>2, <1>3, AppendIsConcat
<1>6. (a \o h) \o t = a \o (h \o t)
  BY <1>31, ConcatAssociative
<1>7. Append(a, x) \o t = a \o rest
  BY <1>4, <1>5, <1>6
<1>8. PICK g : g = Append(a, x)
  OBVIOUS
<1>9. g \in Seq(S) /\ t \in Seq(S)
  BY <1>3, <1>5, <1>8
<1>10. Len(g \o t) = Len(g) + Len(t) /\ Len(g) \in Nat /\ Len(t) \in Nat
  BY <1>9, ConcatProperties, LenProperties
<1> QED
  BY <1>1, <1>2, <1>5, <1>7, <1>8, <1>10

LEMMA ArgByteStep ==
    ASSUME LinkInv, Sending, GetChar, UNCHANGED << host, sent, done, answers >>, ArgByte
    PROVE  LinkInv'
<1>1. PICK left \in Seq(Nat) : HasRead(left) /\ toSv = Bytes(left, host.n)
  BY DEF Sending
<1>2. /\ host.n \in Nat /\ fw \in FwRec /\ fw.from \in Seq(Nat)
      /\ \A i \in DOMAIN fw.from : fw.from[i] = host.n
      /\ Len(host.args) = ArgSize(host.cmd) /\ host.args \in Seq(Nat) /\ fw.args \in Seq(Nat)
      /\ << EOT >> \in Seq(Nat)
  BY <1>1, SendingHas
<1>3. fw.at = "args" /\ toHost' = toHost
  BY DEF ArgByte
<1>4. PICK rest \in Seq(Payloads) : /\ rest # << >> /\ fw.args \o rest = host.args
                                    /\ left = rest \o << EOT >> /\ fw.cmd = host.cmd
  BY <1>1, <1>3, PollType DEF HasRead
<1>5. rest \in Seq(Nat)
  BY PayloadSeq
<1>6. PICK e, n, k, g, t, a : /\ e = << EOT >> /\ n = host.n /\ k = Append(fw.from, n)
                           /\ a = fw.args /\ g = Append(a, rest[1]) /\ t = Tail(rest)
  OBVIOUS
<1>7. Tail(left) = t \o e /\ left[1] = rest[1]
  <2>1. e \in Seq(Nat)
    BY <1>2, <1>6
  <2>2. Tail(rest \o e) = Tail(rest) \o e /\ (rest \o e)[1] = rest[1]
    BY <1>4, <1>5, <2>1, TailOfJoin
  <2> QED
    BY <1>4, <1>6, <2>2
<1>8. /\ Input.b = left[1] /\ Input.n = n /\ rx' = << >>
      /\ toSv' = Bytes(Tail(left), host.n) /\ toSv' \in Seq(Stamped)
      /\ Tail(left) \in Seq(Nat)
  BY <1>1, <1>6, SendingReads
<1>9. k \in Seq(Nat) /\ k # << >> /\ \A i \in DOMAIN k : k[i] = host.n
  BY <1>2, <1>6, AppendFrom
<1>10. /\ g \in Seq(Nat) /\ g \o t = host.args /\ Len(g) + Len(t) = Len(host.args)
       /\ Len(g) \in Nat /\ Len(t) \in Nat /\ t \in Seq(Nat)
  <2>1. a \in Seq(Nat) /\ rest \in Seq(Nat) /\ rest # << >>
    BY <1>2, <1>4, <1>5, <1>6
  <2>2. /\ Append(a, rest[1]) \in Seq(Nat) /\ Append(a, rest[1]) \o Tail(rest) = a \o rest
        /\ Tail(rest) \in Seq(Nat)
        /\ Len(Append(a, rest[1])) + Len(Tail(rest)) = Len(a \o rest)
        /\ Len(Tail(rest)) \in Nat /\ Len(Append(a, rest[1])) \in Nat
    BY <2>1, ArgJoins
  <2> QED
    BY <1>4, <1>6, <2>2
<1>11. t \in Seq(Payloads)
  BY <1>4, <1>6, TailOfJoin
<1>12. PICK at : at = IF Len(g) = ArgSize(host.cmd) THEN "eot" ELSE "args"
  OBVIOUS
<1>13. fw' = [fw EXCEPT !.args = g, !.from = k, !.at = at]
  BY <1>4, <1>6, <1>7, <1>8, <1>12 DEF ArgByte
<1>14. /\ fw' \in FwRec /\ fw'.at = at /\ fw'.args = g /\ fw'.from = k /\ fw'.cmd = host.cmd
  BY <1>2, <1>4, <1>9, <1>10, <1>12, <1>13 DEF FwRec, Spots
<1>15. HasRead(Tail(left))'
  <2>1. CASE t = << >>
    <3>1. Len(t) = 0
      BY <2>1
    <3>2. g = host.args
      BY <1>10, <2>1, ConcatEmptySeq
    <3>3. at = "eot"
      BY <1>2, <1>12, <3>2
    <3>4. Tail(left) = << EOT >>
      <4>1. e \in Seq(Nat)
        BY <1>2, <1>6
      <4> QED
        BY <1>6, <1>7, <2>1, <4>1, ConcatEmptySeq
    <3> QED
      BY <1>14, <3>2, <3>3, <3>4 DEF HasRead
  <2>2. CASE t # << >>
    <3>1. Len(t) # 0
      BY <1>10, <2>2, EmptySeq
    <3>2. at = "args"
      BY <1>2, <1>10, <1>12, <3>1
    <3>3. \E l \in Seq(Payloads) : /\ l # << >> /\ fw'.args \o l = host'.args
                                   /\ Tail(left) = l \o << EOT >>
      BY <1>6, <1>7, <1>10, <1>11, <1>14, <2>2
    <3> QED
      BY <1>14, <3>2, <3>3 DEF HasRead
  <2> QED
    BY <2>1, <2>2
<1>16. fw'.at \in {"poll", "soh", "cmd", "stx"} => fw'.args = << >>
  BY <1>12, <1>14
<1> QED
  BY <1>3, <1>8, <1>9, <1>14, <1>15, <1>16, SendingStays

-----------------------------------------------------------------------------
(* The firmware answers SYN, and executes *)

\* The firmware answers a SYN.
LEMMA SynAnswered ==
    ASSUME LinkInv, FrameByte, fw = Poll, Input = Byte(SYN, 0)
    PROVE  /\ toHost' = toHost \o Bytes(<< SYN, ACK >>, 0) /\ fw' = fw
           /\ UNCHANGED << host, sent, done, answers >>
<1>1. Input.b = SYN /\ SYN # ENQ
  BY DEF Byte, SYN, ENQ
<1>2. fw.at = "poll"
  BY PollType
<1>3. PollByte
  BY <1>2 DEF FrameByte, CmdByte, ArgByte
<1> QED
  BY <1>1, <1>3 DEF PollByte, FrameByte, PutChars

LEMMA AskingByte ==
    ASSUME LinkInv, Asking, GetChar, FrameByte
    PROVE  LinkInv'
<1>1. toSv = Bytes(<< SYN >>, 0) /\ toHost = << >> /\ rx = << >>
      /\ toSv' = Tail(toSv) /\ rx' = << >> /\ Input = Head(toSv)
  BY GetCharIs DEF Asking
<1>2. Input = Byte(SYN, 0) /\ toSv' = << >>
  BY <1>1, SynBytes
<1>3. /\ toHost' = toHost \o Bytes(<< SYN, ACK >>, 0) /\ fw' = fw
      /\ UNCHANGED << host, sent, done, answers >>
  BY <1>2, SynAnswered DEF Asking
<1>4. toHost' = Bytes(<< SYN, ACK >>, 0) /\ toHost' \in Seq(Stamped)
  <2>1. PICK S, q : S = Stamped /\ q = Bytes(<< SYN, ACK >>, 0)
    OBVIOUS
  <2>2. q \in Seq(S)
    BY <2>1, SynBytes
  <2>3. << >> \o q = q
    BY <2>2, ConcatEmptySeq
  <2> QED
    BY <1>1, <1>3, <2>1, <2>2, <2>3
<1>5. LinkType /\ HistoryInv /\ host.result # "ok"
  BY DEF LinkInv, HistoryInv, Asking
<1>6. LinkType'
  BY <1>1, <1>2, <1>3, <1>4, <1>5, HostSame, EmptySeq DEF LinkType, LineType, HistType
<1>7. HistoryInv'
  BY <1>3, <1>5, HistoryStays
<1>8. Asking'
  BY <1>1, <1>2, <1>3, <1>4, PollType DEF Asking, Poll
<1> QED
  BY <1>6, <1>7, <1>8 DEF LinkInv

LEMMA OutOfStepByte ==
    ASSUME LinkInv, OutOfStep, GetChar, FrameByte
    PROVE  LinkInv'
<1>1. /\ LinkType /\ HistoryInv /\ host.result # "ok" /\ fw = Poll
      /\ Syns(rx) /\ Syns(toSv) /\ Len(rx) <= 1
      /\ toSv \in Seq(Stamped) /\ rx \in Seq(Stamped) /\ toHost \in Seq(Stamped)
  BY DEF LinkInv, LinkType, LineType, OutOfStep, OnlySyns
<1>2. /\ Input = Byte(SYN, 0) /\ rx' = << >> /\ Syns(toSv') /\ toSv' \in Seq(Stamped)
  <2>1. CASE rx = << >>
    <3>1. toSv # << >> /\ toSv' = Tail(toSv) /\ rx' = << >> /\ Input = Head(toSv)
      BY <2>1, GetCharIs
    <3> QED
      BY <1>1, <3>1, StreamTail
  <2>2. CASE rx # << >>
    <3>1. rx' = << >> /\ toSv' = toSv /\ Input = rx[1]
      BY <2>2, GetCharIs
    <3>2. Head(rx) = Byte(SYN, 0) /\ Head(rx) = rx[1]
      BY <1>1, <2>2, StreamTail
    <3> QED
      BY <1>1, <3>1, <3>2
  <2> QED
    BY <2>1, <2>2
<1>3. /\ toHost' = toHost \o Bytes(<< SYN, ACK >>, 0) /\ fw' = fw
      /\ UNCHANGED << host, sent, done, answers >>
  BY <1>1, <1>2, SynAnswered
<1>4. PICK k \in Nat : /\ Len(toHost) = k + k + 1 /\ DOMAIN toHost = 1 .. k + k + 1
                       /\ \A j \in Nat : j <= k => toHost[j + j + 1].b # SYN
  BY OutOfStepHead
<1>5. PICK S, q, t, u, m : /\ S = Stamped /\ q = Bytes(<< SYN, ACK >>, 0) /\ t = toHost
                           /\ u = toHost' /\ m = k + k + 1
  OBVIOUS
<1>6. q \in Seq(S) /\ t \in Seq(S) /\ Len(q) = 2 /\ q[2] = Byte(ACK, 0) /\ Len(t) = m
  BY <1>1, <1>4, <1>5, SynBytes
<1>61. q \in Seq(S) /\ t \in Seq(S)
  BY <1>6
<1>7. /\ u \in Seq(S) /\ Len(u) = m + 2
      /\ \A i \in 1 .. m + 2 : u[i] = IF i <= m THEN t[i] ELSE q[i - m]
  <2>1. u = t \o q
    BY <1>3, <1>5
  <2>2. /\ t \o q \in Seq(S) /\ Len(t \o q) = Len(t) + Len(q)
        /\ \A i \in 1 .. Len(t) + Len(q) : (t \o q)[i] = IF i <= Len(t) THEN t[i] ELSE q[i - Len(t)]
    BY <1>61, ConcatProperties
  <2> QED
    BY <1>6, <2>1, <2>2
<1>8. m + 2 = 2 * (k + 1) + 1 /\ k + 1 \in Nat /\ m \in Nat
  BY <1>5
<1>9. ASSUME NEW j \in Nat, j + j + 1 \in DOMAIN u PROVE u[j + j + 1].b # SYN
  <2>1. j + j + 1 \in 1 .. m + 2 /\ j + j + 1 <= k + k + 3
    <3>1. DOMAIN u = 1 .. m + 2
      BY <1>7, <1>8, LenProperties
    <3> QED
      BY <1>5, <1>9, <3>1
  <2>2. CASE j <= k
    <3>1. j + j + 1 <= m
      BY <1>5, <2>2
    <3>2. u[j + j + 1] = t[j + j + 1]
      <4>1. PICK i \in 1 .. m + 2 : i = j + j + 1
        BY <2>1
      <4>2. i <= m /\ u[i] = IF i <= m THEN t[i] ELSE q[i - m]
        BY <1>7, <3>1, <4>1
      <4> QED
        BY <4>1, <4>2
    <3> QED
      BY <1>4, <1>5, <2>2, <3>2
  <2>3. CASE ~(j <= k)
    <3>1. j = k + 1
      BY <2>1, <2>3
    <3>2. j + j + 1 = m + 2
      BY <1>5, <3>1
    <3>3. u[m + 2] = q[2]
      <4>1. PICK i \in 1 .. m + 2 : i = m + 2
        BY <1>8
      <4>2. ~(i <= m) /\ i - m = 2
        BY <1>8, <4>1
      <4>3. u[i] = IF i <= m THEN t[i] ELSE q[i - m]
        BY <1>7
      <4> QED
        BY <4>1, <4>2, <4>3
    <3>4. q[2].b # SYN
      BY <1>6, Marks DEF Byte
    <3> QED
      BY <3>2, <3>3, <3>4
  <2> QED
    BY <2>2, <2>3
<1>10. OutOfStep'
  <2>1. \E l \in Nat : /\ Len(toHost') = 2 * l + 1
                       /\ host'.at = "sync" => l + Len(rx') + Len(toSv') > 0
    <3>1. Len(rx') = 0 /\ Len(toSv') \in Nat
      BY <1>2, NotEmptyStream
    <3>2. (k + 1) + Len(rx') + Len(toSv') > 0
      BY <3>1
    <3>3. Len(toHost') = 2 * (k + 1) + 1
      BY <1>5, <1>7, <1>8
    <3> QED
      BY <1>8, <3>2, <3>3
  <2>2. \A j \in Nat : j + j + 1 \in DOMAIN toHost' => toHost'[j + j + 1].b # SYN
    BY <1>5, <1>9
  <2>3. OnlySyns'
    BY <1>2, NoSyns DEF OnlySyns
  <2> QED
    BY <1>1, <1>3, <2>1, <2>2, <2>3, PollType DEF OutOfStep, Poll
<1>11. LinkType'
  <2>1. toHost' \in Seq(Stamped)
    BY <1>5, <1>7
  <2> QED
    BY <1>1, <1>2, <1>3, <2>1, HostSame, EmptySeq DEF LinkType, LineType, HistType
<1>12. HistoryInv'
  BY <1>1, <1>3, HistoryStays
<1> QED
  BY <1>10, <1>11, <1>12 DEF LinkInv

LEMMA FrameByteStep ==
    ASSUME LinkInv, FrameByte
    PROVE  LinkInv' /\ rx' = << >> /\ UNCHANGED << host, done, answers >>
<1>1. GetChar /\ UNCHANGED << host, sent, done, answers >>
  BY DEF FrameByte
<1>2. rx' = << >>
  BY <1>1, GetCharIs
<1>3. CASE Sending
  <2>1. PICK left \in Seq(Nat) : HasRead(left) /\ toSv = Bytes(left, host.n)
    BY <1>3 DEF Sending
  <2>2. ~(fw.at = "eot" /\ Input.b # EOT)
    <3> SUFFICES ASSUME fw.at = "eot", Input.b # EOT PROVE FALSE
      OBVIOUS
    <3>1. left = << EOT >>
      BY <2>1, PollType DEF HasRead
    <3>2. Input.b = left[1]
      BY <1>1, <1>3, <2>1, SendingReads
    <3> QED
      BY <3>1, <3>2
  <2>3. CASE PollByte
    BY <1>1, <1>2, <1>3, <2>3, PollByteStep
  <2>4. CASE (fw.at = "soh" /\ Expect(Input.b = SOH, "cmd")) \/ CmdByte
    BY <1>1, <1>2, <1>3, <2>4, HeadByteStep
  <2>5. CASE fw.at = "stx" /\ Expect(Input.b = STX /\ fw.cmd \in KnownCmds,
                                     IF ArgSize(fw.cmd) = 0 THEN "eot" ELSE "args")
    BY <1>1, <1>2, <1>3, <2>5, StxByteStep
  <2>6. CASE ArgByte
    BY <1>1, <1>2, <1>3, <2>6, ArgByteStep
  <2>7. LinkInv'
    BY <2>2, <2>3, <2>4, <2>5, <2>6 DEF FrameByte
  <2> QED
    BY <1>1, <1>2, <2>7
<1>4. CASE Asking
  BY <1>1, <1>2, <1>4, AskingByte
<1>5. CASE OutOfStep
  BY <1>1, <1>2, <1>5, OutOfStepByte
<1> QED
  BY <1>1, <1>3, <1>4, <1>5, GetCharIs

LEMMA ExecuteStep ==
    ASSUME LinkInv, Execute
    PROVE  /\ LinkInv' /\ rx' = << >> /\ UNCHANGED << host, answers >>
           /\ host.n \in Calls /\ Fresh
           /\ \E w : done' = Append(done, [from |-> {host.n}, what |-> w])
<1>1. /\ GetChar /\ fw.at = "eot" /\ Input.b = EOT
      /\ done' = Append(done, [from |-> ToSet(fw.from) \cup {Input.n}, what |-> Request])
      /\ fw' = [fw EXCEPT !.at = "busy", !.from = << Input.n >>]
      /\ UNCHANGED << host, toHost, sent, answers >>
  BY DEF Execute
<1>2. Sending
  BY <1>1, GetCharIs, PollType DEF Asking, OutOfStep
<1>3. PICK left \in Seq(Nat) : HasRead(left) /\ toSv = Bytes(left, host.n)
  BY <1>2 DEF Sending
<1>4. left = << EOT >> /\ fw.cmd = host.cmd /\ fw.args = host.args
  BY <1>1, <1>3, PollType DEF HasRead
<1>5. /\ host.n \in Nat /\ fw \in FwRec /\ fw.from \in Seq(Nat)
      /\ \A i \in DOMAIN fw.from : fw.from[i] = host.n
  BY <1>2, <1>3, SendingHas
<1>6. LinkType /\ HistoryInv /\ host.at = "ack" /\ Fresh /\ host.result # "ok"
      /\ sent[host.n] = << host.cmd >> \o host.args /\ toHost = << >>
  BY <1>2 DEF LinkInv, Sending, HistoryInv
<1>7. host.n \in Calls /\ << host.cmd >> \o host.args \in Seq(Nat) /\ 1 <= host.n
  BY <1>6, FrameIs, Constants
<1>8. Input.n = host.n /\ toSv' = Bytes(Tail(left), host.n) /\ rx' = << >>
  BY <1>1, <1>2, <1>3, SendingReads
<1>9. toSv' = << >>
  <2>1. EOT \in Nat
    BY Marks
  <2>2. Tail(left) = << >>
    BY <1>4, <2>1, FrameTails
  <2> QED
    BY <1>5, <1>8, <2>2, EmptyBytes
<1>10. ToSet(fw.from) \cup {Input.n} = {host.n}
  BY <1>5, <1>8, AppendFrom
<1>11. PICK d : d = [from |-> {host.n}, what |-> << host.cmd >> \o host.args]
  OBVIOUS
<1>12. d \in DoneRec /\ d.from = {host.n} /\ d.what = sent[host.n]
  BY <1>5, <1>6, <1>7, <1>11 DEF DoneRec
<1>13. done' = Append(done, d)
  BY <1>1, <1>4, <1>10, <1>11 DEF Request
<1>14. PICK S, k, f, e : S = DoneRec /\ k = Len(done) /\ f = done /\ e = done'
  OBVIOUS
<1>15. f \in Seq(S) /\ k = Len(f) /\ e = Append(f, d) /\ d \in S
  BY <1>6, <1>12, <1>13, <1>14 DEF LinkType, HistType
<1>16. /\ e \in Seq(S) /\ DOMAIN e = 1 .. k + 1 /\ e[k + 1] = d /\ k \in Nat
       /\ DOMAIN f = 1 .. k /\ \A i \in 1 .. k : e[i] = f[i]
  <2>1. e \in Seq(S) /\ Len(e) = Len(f) + 1 /\ e[Len(f) + 1] = d
        /\ \A i \in 1 .. Len(f) : e[i] = f[i]
    BY <1>15
  <2>2. k \in Nat /\ DOMAIN f = 1 .. k
    BY <1>15, LenProperties
  <2>3. DOMAIN e = 1 .. Len(e)
    BY <2>1, LenProperties
  <2> QED
    BY <1>15, <2>1, <2>2, <2>3
<1>17. ASSUME NEW i \in DOMAIN done'
       PROVE  \E m \in Calls : m <= host.n /\ done'[i].from = {m} /\ done'[i].what = sent[m]
  <2>1. i \in 1 .. k + 1
    BY <1>14, <1>16
  <2>2. CASE i \in 1 .. k
    <3>1. i \in DOMAIN done /\ done'[i] = done[i]
      BY <1>14, <1>16, <2>2
    <3> QED
      BY <1>6, <3>1 DEF HistoryInv
  <2>3. CASE i = k + 1
    <3>1. done'[i] = d
      BY <1>14, <1>16, <2>3
    <3>2. host.n <= host.n
      BY <1>5
    <3> QED
      BY <1>7, <1>12, <3>1, <3>2
  <2> QED
    BY <1>16, <2>1, <2>2, <2>3
<1>18. Executed(host.n)' /\ \A m \in Calls : Executed(m) => Executed(m)'
  <2>1. k + 1 \in DOMAIN done' /\ done'[k + 1].from = {host.n}
    BY <1>12, <1>14, <1>16
  <2>2. \A i \in DOMAIN done : i \in DOMAIN done' /\ done'[i] = done[i]
    BY <1>14, <1>16
  <2> QED
    BY <1>1, <2>1, <2>2 DEF Executed
<1>19. answers[host.n] = << >>
  BY <1>6, <1>7 DEF HistoryInv, Fresh, Executed
<1>20. << host.n >> \in Seq(Nat) /\ << host.n >>[1] = host.n /\ << host.n >> # << >>
  BY <1>5
<1>21. /\ fw' \in FwRec /\ fw'.at = "busy" /\ fw'.from = << host.n >> /\ fw'.cmd = host.cmd
       /\ fw'.args = host.args
  BY <1>1, <1>4, <1>5, <1>8, <1>20 DEF FwRec, Spots
<1>22. LinkType'
  BY <1>1, <1>6, <1>8, <1>9, <1>14, <1>16, <1>21, HostSame, EmptySeq
     DEF LinkType, LineType, HistType
<1>23. HistoryInv'
  <2>1. (\A m \in Calls : answers[m] # << >> => Executed(m))'
    BY <1>1, <1>6, <1>18 DEF HistoryInv
  <2> QED
    BY <1>1, <1>6, <1>17, <2>1 DEF HistoryInv
<1>24. Working'
  <2>1. host.n \in 1 .. host.n
    BY <1>5, <1>7
  <2> QED
    BY <1>1, <1>6, <1>8, <1>9, <1>18, <1>19, <1>20, <1>21, <2>1 DEF Working, Busy
<1> QED
  BY <1>1, <1>6, <1>7, <1>8, <1>11, <1>13, <1>22, <1>23, <1>24 DEF LinkInv

-----------------------------------------------------------------------------
(* The firmware answers *)

\* What a command may answer: a byte or two, no more than the library asks for.
LEMMA AnswerIs ==
    ASSUME NEW c, NEW a, NEW p \in AnswersTo(c, a),
           c \in {CMD_ECHO, CMD_SETIODATA} => a \in Seq(Payloads) /\ Len(a) = ArgSize(c)
    PROVE  /\ p \in Seq(Payloads) /\ p # << >> /\ Len(p) <= AnswerSize(c) /\ Len(p) >= 1
           /\ Len(p) \in Nat /\ (Waits(c) => Len(p) = 1)
           /\ p \in UNION { [1 .. k -> Payloads] : k \in {1, 2} }
<1>1. PICK k \in {1, 2} : p \in [1 .. k -> Payloads] /\ k <= AnswerSize(c) /\ (Waits(c) => k = 1)
  <2>1. CASE c \in {CMD_ECHO, CMD_SETIODATA}
    <3>1. p = a /\ a \in Seq(Payloads) /\ Len(a) = ArgSize(c)
      BY <2>1 DEF AnswersTo
    <3>2. ArgSize(c) \in {1, 2} /\ ArgSize(c) <= AnswerSize(c) /\ ~Waits(c)
      BY <2>1 DEF ArgSize, AnswerSize, Waits, CMD_ECHO, CMD_SETIODATA, CMD_GETIODATA,
                  CMD_GETIOADDR, CMD_BRK
    <3>3. a \in [1 .. Len(a) -> Payloads]
      BY <3>1, LenProperties
    <3> QED
      BY <3>1, <3>2, <3>3
  <2>2. CASE c \notin {CMD_ECHO, CMD_SETIODATA}
    <3>1. p \in [1 .. AnswerSize(c) -> Payloads]
      BY <2>2 DEF AnswersTo
    <3>2. AnswerSize(c) \in {1, 2} /\ (Waits(c) => AnswerSize(c) = 1)
      BY DEF AnswerSize, Waits, CMD_BRK, CMD_SETIODATA, CMD_GETIODATA, CMD_GETIOADDR
    <3>3. AnswerSize(c) <= AnswerSize(c)
      BY <3>2
    <3> QED
      BY <3>1, <3>2, <3>3
  <2> QED
    BY <2>1, <2>2
<1>2. p \in Seq(Payloads) /\ Len(p) = k /\ k \in Nat
  BY <1>1
<1>3. p # << >>
  <2>1. Len(p) # 0
    BY <1>1, <1>2
  <2> QED
    BY <1>2, <2>1, EmptySeq
<1>4. k >= 1 /\ AnswerSize(c) \in Nat
  BY <1>1 DEF AnswerSize
<1> QED
  BY <1>1, <1>2, <1>3, <1>4

\* The answer on an empty line.
LEMMA AnswerSent ==
    ASSUME NEW p \in Seq(Nat), NEW n \in Nat, toHost = << >>,
           PutChars(Bytes(<< ACK, Len(p), STX >> \o p \o << EOT >>, n))
    PROVE  /\ toHost' = Bytes(<< ACK, Len(p), STX >> \o (p \o << EOT >>), n)
           /\ toHost' \in Seq(Stamped) /\ Len(toHost') = Len(p) + 4 /\ Len(p) \in Nat
           /\ toHost'[1].b = ACK /\ toHost'[3].b = STX /\ toHost'[Len(p) + 4].b = EOT
<1>1. Len(p) \in Nat
  BY LenProperties
<1>2. PICK z, e, k : z = << ACK, Len(p), STX >> /\ e = << EOT >> /\ k = Len(p)
  OBVIOUS
<1>3. /\ z \in Seq(Nat) /\ e \in Seq(Nat) /\ k \in Nat /\ Len(z) = 3 /\ Len(e) = 1
      /\ z[1] = ACK /\ z[3] = STX /\ e[1] = EOT
  BY <1>1, <1>2, Marks
<1>31. z \in Seq(Nat)
  BY <1>3
<1>32. e \in Seq(Nat)
  BY <1>3
<1>4. (z \o p) \o e = z \o (p \o e)
  <2>1. p \in Seq(Nat)
    OBVIOUS
  <2> QED
    BY <1>31, <1>32, <2>1, JoinThree
<1>5. PICK r, s : r = p \o e /\ s = z \o r
  OBVIOUS
<1>6. /\ r \in Seq(Nat) /\ Len(r) = k + 1
      /\ \A i \in 1 .. k + 1 : r[i] = IF i <= k THEN p[i] ELSE e[i - k]
  <2>1. /\ p \o e \in Seq(Nat) /\ Len(p \o e) = Len(p) + Len(e)
        /\ \A i \in 1 .. Len(p) + Len(e) : (p \o e)[i] = IF i <= Len(p) THEN p[i] ELSE e[i - Len(p)]
    BY <1>32, ConcatProperties
  <2> QED
    BY <1>2, <1>3, <1>5, <2>1
<1>7. /\ s \in Seq(Nat) /\ Len(s) = 3 + (k + 1)
      /\ \A i \in 1 .. 3 + (k + 1) : s[i] = IF i <= 3 THEN z[i] ELSE r[i - 3]
  <2>1. r \in Seq(Nat)
    BY <1>6
  <2>2. /\ z \o r \in Seq(Nat) /\ Len(z \o r) = Len(z) + Len(r)
        /\ \A i \in 1 .. Len(z) + Len(r) : (z \o r)[i] = IF i <= Len(z) THEN z[i] ELSE r[i - Len(z)]
    BY <1>31, <2>1, ConcatProperties
  <2> QED
    BY <1>3, <1>5, <1>6, <2>2
<1>8. r[k + 1] = EOT
  <2>1. PICK i \in 1 .. k + 1 : i = k + 1
    BY <1>3
  <2>2. ~(i <= k) /\ i - k = 1
    BY <1>3, <2>1
  <2>3. r[i] = IF i <= k THEN p[i] ELSE e[i - k]
    BY <1>6
  <2> QED
    BY <1>3, <2>1, <2>2, <2>3
<1>9. s[1] = ACK /\ s[3] = STX
  <2>1. 1 \in 1 .. 3 + (k + 1) /\ 3 \in 1 .. 3 + (k + 1)
    BY <1>3
  <2>2. s[1] = z[1] /\ s[3] = z[3]
    BY <1>7, <2>1
  <2> QED
    BY <1>3, <2>2
<1>10. s[k + 4] = EOT
  <2>1. PICK i \in 1 .. 3 + (k + 1) : i = k + 4
    BY <1>3
  <2>2. ~(i <= 3) /\ i - 3 = k + 1
    BY <1>3, <2>1
  <2>3. s[i] = IF i <= 3 THEN z[i] ELSE r[i - 3]
    BY <1>7
  <2> QED
    BY <1>8, <2>1, <2>2, <2>3
<1>11. PICK q : q = Bytes(s, n)
  OBVIOUS
<1>12. q \in Seq(Stamped) /\ Len(q) = Len(s) /\ \A i \in 1 .. Len(s) : q[i] = Byte(s[i], n)
  BY <1>7, <1>11, BytesAre
<1>13. Len(q) = k + 4 /\ 1 \in 1 .. Len(s) /\ 3 \in 1 .. Len(s) /\ k + 4 \in 1 .. Len(s)
  BY <1>3, <1>7, <1>12
<1>14. \A i \in 1 .. Len(s) : q[i].b = s[i]
  <2>1. \A x : Byte(x, n).b = x
    BY DEF Byte
  <2> QED
    BY <1>12, <2>1
<1>15. toHost' = q
  <2>1. toHost' = toHost \o q
    BY <1>2, <1>4, <1>5, <1>11 DEF PutChars
  <2>2. PICK S : S = Stamped
    OBVIOUS
  <2>3. q \in Seq(S)
    BY <1>12, <2>2
  <2> QED
    BY <2>1, <2>3, ConcatEmptySeq
<1>16. q[1].b = ACK /\ q[3].b = STX /\ q[k + 4].b = EOT
  BY <1>9, <1>10, <1>13, <1>14
<1> QED
  BY <1>1, <1>2, <1>5, <1>11, <1>12, <1>13, <1>15, <1>16

LEMMA AnswerStep ==
    ASSUME LinkInv, Answer
    PROVE  /\ LinkInv' /\ UNCHANGED << host, rx, done >>
           /\ \E p \in UNION { [1 .. k -> Payloads] : k \in {1, 2} }, n \in Calls :
                 /\ Executed(n) /\ answers[n] = << >> /\ answers' = [answers EXCEPT ![n] = p]
<1>1. PICK p \in AnswersTo(fw.cmd, fw.args) :
         /\ PutChars(Bytes(<< ACK, Len(p), STX >> \o p \o << EOT >>, fw.from[1]))
         /\ answers' = [answers EXCEPT ![fw.from[1]] = p]
  BY DEF Answer
<1>2. /\ fw.at = "busy" /\ fw' = Poll /\ UNCHANGED << host, toSv, rx, sent, done >>
  BY DEF Answer
<1>3. Working \/ Abandoned
  <2>1. fw # Poll
    BY <1>2, PollType
  <2>2. ~Sending
    BY <1>2, PollType DEF Sending, HasRead
  <2> QED
    BY <2>1, <2>2 DEF LinkInv, AtRest, Asking, Answering, OutOfStep
<1>4. Busy /\ toHost = << >> /\ LinkType /\ HistoryInv /\ host.result # "ok"
  BY <1>3 DEF Working, Abandoned, LinkInv, HistoryInv
<1>5. PICK n : n = fw.from[1]
  OBVIOUS
<1>6. n \in Calls /\ n \in Nat /\ n \in 1 .. host.n /\ Executed(n) /\ answers[n] = << >>
  <2>1. n \in 1 .. host.n /\ host.n \in 0 .. MaxCalls
    BY <1>4, <1>5 DEF Busy, LinkType, HostRec
  <2> QED
    BY <1>4, <1>5, <2>1, Constants DEF Busy, Calls
<1>7. /\ p \in Seq(Payloads) /\ p # << >> /\ Len(p) <= AnswerSize(fw.cmd) /\ Len(p) >= 1
      /\ Len(p) \in Nat /\ (Waits(fw.cmd) => Len(p) = 1)
      /\ p \in UNION { [1 .. k -> Payloads] : k \in {1, 2} }
  <2>1. fw.cmd \in {CMD_ECHO, CMD_SETIODATA} =>
              fw.args \in Seq(Payloads) /\ Len(fw.args) = ArgSize(fw.cmd)
    <3>1. CASE Working
      BY <1>4, <3>1 DEF Working, LinkType, HostRec, CallOk
    <3>2. CASE Abandoned
      BY <3>2 DEF Abandoned, Waits, CMD_BRK, CMD_ECHO, CMD_SETIODATA
    <3> QED
      BY <1>3, <3>1, <3>2
  <2> QED
    BY <2>1, AnswerIs
<1>8. p \in Seq(Nat)
  BY <1>7, PayloadSeq
<1>9. /\ toHost' = Bytes(<< ACK, Len(p), STX >> \o (p \o << EOT >>), n)
      /\ toHost' \in Seq(Stamped) /\ Len(toHost') = Len(p) + 4
      /\ toHost'[1].b = ACK /\ toHost'[3].b = STX /\ toHost'[Len(p) + 4].b = EOT
  BY <1>1, <1>4, <1>5, <1>6, <1>8, AnswerSent
<1>10. answers' = [answers EXCEPT ![n] = p]
  BY <1>1, <1>5
<1>11. LinkType'
  <2>1. answers' \in [Calls -> Seq(Payloads)]
    BY <1>4, <1>6, <1>7, <1>10 DEF LinkType, HistType
  <2> QED
    BY <1>2, <1>4, <1>9, <2>1, HostSame, PollType DEF LinkType, LineType, HistType
<1>12. HistoryInv'
  <2>1. ASSUME NEW m \in Calls, answers'[m] # << >> PROVE Executed(m)
    <3>1. CASE m = n
      BY <1>6, <3>1
    <3>2. CASE m # n
      <4>1. answers'[m] = answers[m]
        BY <1>4, <1>10, <3>2 DEF LinkType, HistType
      <4> QED
        BY <1>4, <2>1, <4>1 DEF HistoryInv
    <3> QED
      BY <3>1, <3>2
  <2>2. (\A m \in Calls : answers[m] # << >> => Executed(m))'
    BY <1>2, <2>1 DEF Executed
  <2> QED
    BY <1>2, <1>4, <2>2 DEF HistoryInv, Fresh
<1>13. CASE Working
  <2>1. n = host.n /\ fw.cmd = host.cmd /\ host.at = "ack"
    BY <1>5, <1>13 DEF Working
  <2>2. Told' = p
    BY <1>2, <1>4, <1>6, <1>10, <2>1 DEF Told, LinkType, HistType
  <2>3. Answering'
    BY <1>2, <1>7, <1>9, <1>13, <2>1, <2>2, PollType DEF Answering, Working, Poll
  <2> QED
    BY <1>2, <1>6, <1>7, <1>10, <1>11, <1>12, <2>3 DEF LinkInv
<1>14. CASE Abandoned
  <2>1. Len(p) = 1
    BY <1>7, <1>14 DEF Abandoned
  <2>2. Len(toHost') = 5 /\ toHost'[1].b # SYN /\ toHost'[3].b # SYN /\ toHost'[5].b # SYN
    <3>1. Len(p) + 4 = 5
      BY <2>1
    <3> QED
      BY <1>9, <3>1, Marks DEF ACK, STX, EOT, SYN
  <2>3. ASSUME NEW j \in Nat, j + j + 1 \in DOMAIN toHost' PROVE toHost'[j + j + 1].b # SYN
    <3>1. j + j + 1 <= 5
      <4>1. DOMAIN toHost' = 1 .. 5
        BY <1>9, <2>2, LenProperties
      <4> QED
        BY <2>3, <4>1
    <3>2. j + j + 1 = 1 \/ j + j + 1 = 3 \/ j + j + 1 = 5
      BY <3>1
    <3> QED
      BY <2>2, <3>2
  <2>4. \E k \in Nat : /\ Len(toHost') = 2 * k + 1
                       /\ host'.at = "sync" => k + Len(rx') + Len(toSv') > 0
    <3>1. Len(rx') \in Nat /\ Len(toSv') \in Nat
      BY <1>11, NotEmptyStream DEF LinkType, LineType
    <3>2. 2 + Len(rx') + Len(toSv') > 0 /\ 5 = 2 * 2 + 1 /\ 2 \in Nat
      BY <3>1
    <3> QED
      BY <2>2, <3>2
  <2>5. OutOfStep'
    BY <1>2, <1>4, <1>14, <2>3, <2>4, PollType DEF OutOfStep, Abandoned, OnlySyns, Poll
  <2> QED
    BY <1>2, <1>6, <1>7, <1>10, <1>11, <1>12, <2>5 DEF LinkInv
<1> QED
  BY <1>3, <1>13, <1>14

-----------------------------------------------------------------------------
(* The theorems *)

LEMMA LinkNext == LinkInv /\ [Next]_linkVars => LinkInv'
<1> SUFFICES ASSUME LinkInv, [Next]_linkVars PROVE LinkInv'
  OBVIOUS
<1>1. CASE Call
  BY <1>1, CallStep
<1>2. CASE Synced \/ NotSynced
  BY <1>2, SyncedStep, NotSyncedStep
<1>3. CASE Recv
  <2>1. UNCHANGED << toSv, rx, fw, sent, done, answers >>
    BY <1>3 DEF Recv
  <2>2. RecvAck \/ RecvHdr \/ RecvData \/ RecvEot \/ RecvTimeout
    BY <1>3 DEF Recv
  <2> QED
    BY <2>1, <2>2, RecvAckStep, RecvHdrStep, RecvDataStep, RecvEotStep, RecvTimeoutStep
<1>4. CASE Reopen
  BY <1>4, ReopenStep
<1>5. CASE LineStep
  BY <1>5, OverrunStep, FrameByteStep, ExecuteStep DEF LineStep
<1>6. CASE Answer
  BY <1>6, AnswerStep
<1>7. CASE UNCHANGED linkVars
  <2>1. LinkType'
    BY <1>7, HostSame DEF linkVars, LinkInv, LinkType, LineType, HistType
  <2>2. HistoryInv'
    BY <1>7 DEF linkVars, LinkInv, HistoryInv, Executed, Fresh, AtRest, Data, Poll
  <2>3. /\ AtRest => AtRest'
        /\ Asking => Asking'
        /\ Working => Working'
        /\ Answering => Answering'
    BY <1>7 DEF linkVars, AtRest, Asking, Working, Answering, Busy, Executed, Told, Poll
  <2>4. Sending => Sending'
    BY <1>7 DEF linkVars, Sending, HasRead, Fresh, Poll
  <2>5. Abandoned => Abandoned'
    BY <1>7 DEF linkVars, Abandoned, Busy, Executed, OnlySyns, Fresh
  <2>6. OutOfStep => OutOfStep'
    BY <1>7 DEF linkVars, OutOfStep, OnlySyns, Poll
  <2> QED
    BY <2>1, <2>2, <2>3, <2>4, <2>5, <2>6 DEF LinkInv
<1> QED
  BY <1>1, <1>2, <1>3, <1>4, <1>5, <1>6, <1>7 DEF Next, HostStep

\* The invariant of the link holds in every state of the specification.
THEOREM LinkSound == Spec => []LinkInv
<1> QED
  BY LinkInit, LinkNext, PTL DEF Spec

\* Whatever the firmware executes, it executes as the host sent it: all bytes of
\* the frame come from one call, and command and arguments are that call's
\* (proto_recv:155, which reads to EOT without knowing where a frame ends).
THEOREM ExecutesAsSent == Spec => []ExecutedAsSent
<1>1. LinkInv => ExecutedAsSent
  BY DEF LinkInv, HistoryInv, ExecutedAsSent
<1> QED
  BY <1>1, LinkSound, PTL

\* Every byte of an answer the library accepts was sent for the call it returns
\* from (lsepc_recv_resp:179), also after calls that timed out.
THEOREM AnswersAreMine == Spec => []AnswerIsMine
<1>1. LinkInv => AnswerIsMine
  BY DEF LinkInv, HistoryInv, AnswerIsMine
<1> QED
  BY <1>1, LinkSound, PTL

\* The receiver that nobody empties while the firmware waits for the OCD
\* (main.c:26, ocd.c:64) overwrites SYNs only, never a byte of a frame.
THEOREM FramesAreKept == Spec => FrameKept
<1>1. LinkInv /\ [Next]_linkVars
         => [rx # << >> /\ rx' # << >> /\ rx' # rx => rx[1].n = 0]_linkVars
  <2> SUFFICES ASSUME LinkInv, [Next]_linkVars, rx # << >>, rx' # << >>, rx' # rx
               PROVE  rx[1].n = 0
    OBVIOUS
  <2>1. LineStep
    BY DEF Next, Call, HostStep, Synced, NotSynced, Recv, Reopen, Answer, linkVars
  <2>2. Overrun
    BY <2>1, FrameByteStep, ExecuteStep DEF LineStep
  <2>3. Syns(rx)
    BY <2>2, OverrunStep
  <2>4. Head(rx) = Byte(SYN, 0) /\ Head(rx) = rx[1]
    <3>1. rx \in Seq(Stamped)
      BY DEF LinkInv, LinkType, LineType
    <3> QED
      BY <2>3, <3>1, StreamTail
  <2> QED
    BY <2>4 DEF Byte
<1> QED
  BY <1>1, LinkSound, PTL DEF Spec, FrameKept
-----------------------------------------------------------------------------
(* The promise of RemoteCall *)

Recorded == [i \in DOMAIN done |-> Max(done[i].from)]
ReturnedData == IF host.at = "idle" /\ host.result = "ok" THEN Data ELSE << >>

LEMMA RecordedIs ==
    ASSUME LinkInv
    PROVE  /\ Recorded \in Seq(Nat)
           /\ \A m \in Calls : m \in ToSet(Recorded) <=> Executed(m)
<1>1. PICK k : k = Len(done)
  OBVIOUS
<1>2. k \in Nat /\ DOMAIN done = 1 .. k
  BY <1>1, LenProperties DEF LinkInv, LinkType, HistType
<1>3. \A i \in DOMAIN done : \E m \in Calls : done[i].from = {m} /\ Max(done[i].from) = m
  BY MaxOfOne, Constants DEF LinkInv, HistoryInv
<1>4. \A i \in 1 .. k : Max(done[i].from) \in Nat
  BY <1>2, <1>3, Constants
<1>5. Recorded = [i \in 1 .. k |-> Max(done[i].from)]
  BY <1>2 DEF Recorded
<1>6. Recorded \in Seq(Nat)
  BY <1>2, <1>4, <1>5
<1>7. DOMAIN Recorded = DOMAIN done /\ \A i \in DOMAIN done : Recorded[i] = Max(done[i].from)
  BY DEF Recorded
<1>8. ASSUME NEW m \in Calls PROVE m \in ToSet(Recorded) <=> Executed(m)
  <2>1. m \in ToSet(Recorded) <=> \E i \in DOMAIN done : Max(done[i].from) = m
    BY <1>7 DEF ToSet
  <2>2. ASSUME NEW i \in DOMAIN done PROVE Max(done[i].from) = m <=> done[i].from = {m}
    BY <1>3
  <2> QED
    BY <2>1, <2>2 DEF Executed
<1> QED
  BY <1>6, <1>8

LEMMA RecordedGrows ==
    ASSUME LinkInv, NEW n \in Calls, NEW w, done' = Append(done, [from |-> {n}, what |-> w])
    PROVE  Recorded' = Append(Recorded, n)
<1>1. PICK k, d : k = Len(done) /\ d = [from |-> {n}, what |-> w]
  OBVIOUS
<1>2. k \in Nat /\ DOMAIN done = 1 .. k /\ done \in Seq(DoneRec)
  BY <1>1, LenProperties DEF LinkInv, LinkType, HistType
<1>3. DOMAIN done' = 1 .. k + 1 /\ done'[k + 1] = d /\ \A i \in 1 .. k : done'[i] = done[i]
  <2>1. done' = Append(done, d)
    BY <1>1
  <2>2. PICK S, f, g : S = DoneRec /\ f = done /\ g = done'
    OBVIOUS
  <2>3. g = Append(f, d) /\ f \in Seq(S)
    BY <1>1, <1>2, <2>1, <2>2
  <2>4. Len(g) = Len(f) + 1 /\ g[Len(f) + 1] = d /\ (\A i \in 1 .. Len(f) : g[i] = f[i])
        /\ DOMAIN g = 1 .. Len(g)
    BY <2>3
  <2> QED
    BY <1>1, <1>2, <2>2, <2>4
<1>4. Max({n}) = n
  BY MaxOfOne, Constants
<1>5. Recorded \in Seq(Nat) /\ DOMAIN Recorded = 1 .. k /\ Len(Recorded) = k
  <2>1. Recorded \in Seq(Nat) /\ DOMAIN Recorded = 1 .. k
    BY <1>2, RecordedIs DEF Recorded
  <2> QED
    BY <1>2, <2>1, LenProperties
<1>6. Recorded' = [i \in 1 .. k + 1 |-> Max(done'[i].from)]
  BY <1>3 DEF Recorded
<1>7. \A i \in 1 .. k : Max(done'[i].from) = Recorded[i]
  BY <1>2, <1>3 DEF Recorded
<1>8. Max(done'[k + 1].from) = n
  BY <1>1, <1>3, <1>4
<1>9. PICK r, v, u : r = Recorded /\ v = Append(r, n) /\ u = Recorded'
  OBVIOUS
<1>10. r \in Seq(Nat) /\ Len(r) = k /\ n \in Nat
  BY <1>5, <1>9, Constants
<1>11. v \in Seq(Nat) /\ Len(v) = k + 1 /\ v[k + 1] = n /\ \A i \in 1 .. k : v[i] = r[i]
  <2>1. v \in Seq(Nat) /\ Len(v) = Len(r) + 1 /\ v[Len(r) + 1] = n
        /\ \A i \in 1 .. Len(r) : v[i] = r[i]
    BY <1>9, <1>10
  <2> QED
    BY <1>10, <2>1
<1>12. \A i \in 1 .. k + 1 : Max(done'[i].from) = v[i]
  <2> SUFFICES ASSUME NEW i \in 1 .. k + 1 PROVE Max(done'[i].from) = v[i]
    OBVIOUS
  <2>1. CASE i \in 1 .. k
    BY <1>7, <1>9, <1>11, <2>1
  <2>2. CASE i = k + 1
    BY <1>8, <1>11, <2>2
  <2> QED
    BY <1>2, <2>1, <2>2
<1>13. u = [i \in 1 .. k + 1 |-> v[i]]
  BY <1>6, <1>9, <1>12
<1>14. v = [i \in 1 .. k + 1 |-> v[i]]
  <2>1. v \in [1 .. Len(v) -> Nat]
    BY <1>11, LenProperties
  <2> QED
    BY <1>11, <2>1
<1> QED
  BY <1>9, <1>13, <1>14

\* A step in which neither the call nor the history changes.
LEMMA Stutters ==
    ASSUME host'.n = host.n, (host'.at = "idle") = (host.at = "idle"), done' = done,
           answers' = answers, ReturnedData' = ReturnedData
    PROVE  UNCHANGED Promise!rpcVars
BY DEF Promise!rpcVars, ReturnedData

\* A step of the library in which the call goes on or fails.
LEMMA GoesOnOrFails ==
    ASSUME LinkInv, host.at # "idle", host'.n = host.n, host'.result # "ok", done' = done,
           answers' = answers
    PROVE  [Promise!Next]_(Promise!rpcVars)
<1>1. ReturnedData = << >> /\ ReturnedData' = << >>
  BY DEF ReturnedData
<1>2. CASE host'.at = "idle"
  <2>1. Promise!Return
    BY <1>1, <1>2 DEF Promise!Return, ReturnedData
  <2> QED
    BY <2>1 DEF Promise!Next
<1>3. CASE host'.at # "idle"
  <2>1. (host'.at = "idle") = (host.at = "idle")
    BY <1>3
  <2> QED
    BY <1>1, <2>1, Stutters
<1> QED
  BY <1>2, <1>3

LEMMA PromiseStep == LinkInv /\ [Next]_linkVars => [Promise!Next]_(Promise!rpcVars)
<1> SUFFICES ASSUME LinkInv, [Next]_linkVars PROVE [Promise!Next]_(Promise!rpcVars)
  OBVIOUS
<1>0. /\ LinkType /\ HistoryInv /\ host.n \in Nat
      /\ LinkInv' /\ (host'.result = "ok" => host'.at = "idle")
      /\ (host.result = "ok" => host.at = "idle")
  <2>1. LinkInv'
    BY LinkNext
  <2>2. host'.result = "ok" => host'.at = "idle"
    BY <2>1 DEF LinkInv, HistoryInv
  <2>3. host.n \in Nat
    <3>1. host.n \in 0 .. MaxCalls
      BY DEF LinkInv, LinkType, HostRec
    <3> QED
      BY <3>1, Constants
  <2> QED
    BY <2>1, <2>2, <2>3 DEF LinkInv, HistoryInv
<1>1. CASE Call
  <2>1. /\ host.at = "idle" /\ host'.at = "sync" /\ host'.n = host.n + 1
        /\ UNCHANGED << done, answers >> /\ host.n < MaxCalls
    BY <1>0, <1>1, CallType DEF Call
  <2>2. Promise!Open
    BY <2>1 DEF Promise!Open, Recorded
  <2> QED
    BY <2>2 DEF Promise!Next
<1>2. CASE Synced
  <2>1. /\ host.at = "sync" /\ host'.at = "ack" /\ host'.n = host.n
        /\ UNCHANGED << done, answers >>
    BY <1>2, SyncedType
  <2> QED
    BY <1>0, <2>1, GoesOnOrFails
<1>3. CASE NotSynced
  <2>1. /\ host.at = "sync" /\ host'.n = host.n /\ host'.result # "ok"
        /\ UNCHANGED << done, answers >>
    BY <1>3, NotSyncedType
  <2> QED
    BY <2>1, GoesOnOrFails
<1>4. CASE Recv
  <2>1. UNCHANGED << toSv, rx, fw, sent, done, answers >>
    BY <1>4 DEF Recv
  <2>2. host.at # "idle"
    BY <1>4 DEF Recv, RecvAck, RecvHdr, RecvData, RecvEot, RecvTimeout
  <2>3. CASE RecvAck \/ RecvHdr \/ RecvData
    <3>1. host'.at # "idle" /\ host'.n = host.n
      BY <2>1, <2>3, RecvAckStep, RecvHdrStep, RecvDataStep
    <3> QED
      BY <1>0, <2>1, <2>2, <3>1, GoesOnOrFails
  <2>4. CASE RecvTimeout
    <3>1. host'.n = host.n /\ host'.result = "error"
      BY <2>1, <2>4, RecvTimeoutStep
    <3> QED
      BY <2>1, <2>2, <3>1, GoesOnOrFails
  <2>5. CASE RecvEot
    <3>1. /\ host'.at = "idle" /\ host'.n = host.n
          /\ \/ host'.result = "ok" /\ Data' = Told
             \/ host'.result = "error"
      BY <2>1, <2>5, RecvEotStep
    <3>2. CASE host'.result = "error"
      BY <2>1, <2>2, <3>1, <3>2, GoesOnOrFails
    <3>3. CASE host'.result = "ok" /\ Data' = Told
      <4>1. Promise!Return
        BY <2>1, <2>2, <3>1, <3>3 DEF Promise!Return, Told, Recorded
      <4> QED
        BY <4>1 DEF Promise!Next
    <3> QED
      BY <3>1, <3>2, <3>3
  <2> QED
    BY <1>4, <2>3, <2>4, <2>5 DEF Recv
<1>5. CASE Reopen
  <2>1. host'.at = "idle" /\ host'.n = host.n /\ host'.result # "ok"
        /\ UNCHANGED << done, answers >>
    BY <1>5, ReopenStep
  <2>2. CASE host.at = "idle"
    <3>1. host' = host
      BY <1>5, <2>2 DEF Reopen
    <3>2. ReturnedData' = ReturnedData
      BY <3>1 DEF ReturnedData, Data
    <3> QED
      BY <2>1, <3>1, <3>2, Stutters
  <2>3. CASE host.at # "idle"
    BY <2>1, <2>3, GoesOnOrFails
  <2> QED
    BY <2>2, <2>3
<1>6. CASE Overrun \/ FrameByte
  <2>1. UNCHANGED << host, done, answers >>
    BY <1>6, OverrunStep, FrameByteStep
  <2>2. ReturnedData' = ReturnedData
    BY <2>1 DEF ReturnedData, Data
  <2> QED
    BY <2>1, <2>2, Stutters
<1>7. CASE Execute
  <2>1. PICK w : /\ done' = Append(done, [from |-> {host.n}, what |-> w])
                 /\ UNCHANGED << host, answers >> /\ host.n \in Calls /\ Fresh
    BY <1>7, ExecuteStep
  <2>2. Recorded' = Append(Recorded, host.n)
    BY <2>1, RecordedGrows
  <2>3. host.n \notin ToSet(Recorded)
    BY <2>1, RecordedIs DEF Fresh, Executed
  <2>4. host.n \in 1 .. host.n
    BY <1>0, <2>1, Constants
  <2>5. ReturnedData' = ReturnedData
    BY <2>1 DEF ReturnedData, Data
  <2>6. Promise!ToSet(Recorded) = ToSet(Recorded)
    BY DEF Promise!ToSet, ToSet
  <2>7. \E m \in 1 .. host.n : m \notin Promise!ToSet(Recorded) /\ Recorded' = Append(Recorded, m)
    BY <2>2, <2>3, <2>4, <2>6
  <2>8. Promise!Execute
    BY <2>1, <2>5, <2>7 DEF Promise!Execute, Recorded, ReturnedData
  <2> QED
    BY <2>8 DEF Promise!Next
<1>8. CASE Answer
  <2>1. /\ UNCHANGED << host, rx, done >>
        /\ \E p \in UNION { [1 .. k -> Payloads] : k \in {1, 2} }, n \in Calls :
              /\ Executed(n) /\ answers[n] = << >> /\ answers' = [answers EXCEPT ![n] = p]
    BY <1>8, AnswerStep
  <2>2. PICK p \in UNION { [1 .. k -> Payloads] : k \in {1, 2} }, n \in Calls :
           /\ Executed(n) /\ answers[n] = << >> /\ answers' = [answers EXCEPT ![n] = p]
    BY <2>1
  <2>3. n \in ToSet(Recorded)
    BY <2>2, RecordedIs
  <2>4. Recorded' = Recorded /\ ReturnedData' = ReturnedData
    BY <2>1 DEF Recorded, ReturnedData, Data
  <2>5. Promise!ToSet(Recorded) = ToSet(Recorded)
    BY DEF Promise!ToSet, ToSet
  <2>6. n \in Promise!ToSet(Recorded)
    BY <2>3, <2>5
  <2>7. Promise!Answer
    BY <2>1, <2>2, <2>4, <2>6 DEF Promise!Answer, Recorded, ReturnedData
  <2> QED
    BY <2>7 DEF Promise!Next
<1>9. CASE UNCHANGED linkVars
  <2>1. UNCHANGED << host, done, answers >> /\ ReturnedData' = ReturnedData
    BY <1>9 DEF linkVars, ReturnedData, Data
  <2> QED
    BY <2>1, Stutters
<1> QED
  BY <1>1, <1>2, <1>3, <1>4, <1>5, <1>6, <1>7, <1>8, <1>9 DEF Next, HostStep, LineStep

LEMMA PromiseInit == Init => Promise!Init
<1> SUFFICES ASSUME Init PROVE Promise!Init
  OBVIOUS
<1>1. /\ host.at = "idle" /\ host.n = 0 /\ host.result = "none" /\ done = << >>
      /\ answers = [n \in Calls |-> << >>]
  BY DEF Init
<1>2. [i \in DOMAIN done |-> Max(done[i].from)] = << >>
  BY <1>1
<1> QED
  BY <1>1, <1>2 DEF Promise!Init, Calls

\* The library keeps its promise to its user (lsepc.c:258-361 over proto_recv):
\* the link, with its retried handshakes, late answers and lost bytes, is the
\* remote call of RemoteCall, which executes a call at most once and returns to a
\* call that succeeds the answer to its own execution.
THEOREM KeepsPromise == Spec => PromiseKept
<1> QED
  BY PromiseInit, PromiseStep, LinkSound, PTL DEF Spec, PromiseKept, Promise!Spec
=============================================================================
