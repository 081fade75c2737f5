------------------------------ MODULE HostLink ------------------------------
(***************************************************************************)
(* The serial link between the host library sw/lib/lsepc.c and the         *)
(* supervisor's proto.c, byte by byte: the SYN handshake before every      *)
(* command, the framed command, the framed answer, the one-second          *)
(* time-outs of lsepc_read, and the firmware's polled receiver, which      *)
(* loses bytes while a command makes it wait for the OCD.                  *)
(*                                                                         *)
(* A byte carries the number of the call it belongs to, 0 for none: a      *)
(* history the program does not have.  Payload bytes are any of Payloads.  *)
(* Definitions named Slip... are the ones after them with a plausible      *)
(* mistake in them.                                                        *)
(***************************************************************************)
EXTENDS Integers, SequencesExt

CONSTANTS
    Cmds,        \* commands the user of the library issues
    Payloads,    \* bytes an argument or an answer may hold
    MaxCalls     \* bound: number of calls

SOH == 1
STX == 2
EOT == 4
ENQ == 5
ACK == 6
NAK == 21
SYN == 22

CMD_ECHO == 2
CMD_START == 3
CMD_STOP == 4
CMD_BRK == 5
CMD_CONT == 6
CMD_GETSTATUS == 7
CMD_SETIODATA == 9
CMD_GETIODATA == 10
CMD_GETIOADDR == 11
KnownCmds == 1 .. 11
SingleCmds == {CMD_START, CMD_STOP, CMD_BRK, CMD_CONT}

SYNC_FAILS == 3

ASSUME LinkAssumption ==
    /\ Cmds \subseteq KnownCmds
    /\ Payloads \subseteq 0 .. 255 /\ Payloads # {}
    /\ MaxCalls \in Nat

\* arg_size of proto_cmds[], and the size of the answer (that of GETVERSION's
\* string and of GETREGS's structure are irrelevant here: no call issues them).
ArgSize(c) == CASE c = CMD_ECHO -> 1 [] c = CMD_SETIODATA -> 2 [] OTHER -> 0
AnswerSize(c) ==
    IF c \in {CMD_SETIODATA, CMD_GETIODATA, CMD_GETIOADDR} THEN 2 ELSE 1

\* Commands whose handler waits for the OCD, for as long as the CPU likes.
Waits(c) == c = CMD_BRK

VARIABLES
    host,      \* the library: at, the call's number n and command, attempt, size
    toSv,      \* bytes on their way to the supervisor
    rx,        \* the UART's receive register: no byte or one
    fw,        \* the firmware: at, the command and the arguments received so far
    toHost,    \* bytes the host has not read
    sent,      \* history: command and arguments of each call whose frame was sent
    done,      \* history: what the firmware executed, in order
    answers    \* history: answer of each call the firmware executed
linkVars == << host, toSv, rx, fw, toHost, sent, done, answers >>

Byte(b, n) == [b |-> b, n |-> n]
Bytes(s, n) == [i \in 1 .. Len(s) |-> Byte(s[i], n)]
Values(s) == [i \in 1 .. Len(s) |-> s[i].b]

Calls == 1 .. MaxCalls
NotSent == << >>

-----------------------------------------------------------------------------
(* Host: lsepc_read *)

\* size bytes are there, and are taken.
Reads(size) == Len(toHost) >= size
Taken(size) == SubSeq(toHost, 1, size)
AfterTaking(size) == SubSeq(toHost, size + 1, Len(toHost))

\* No byte is about to come: one takes 87 microseconds and the time-out is
\* a second, so it strikes only while the firmware waits for the OCD or for a byte.
Quiet == /\ toSv = << >>
         /\ IF fw.at = "busy" THEN Waits(fw.cmd) ELSE rx = << >>

\* The time-out strikes: the bytes read before it are gone.
SlipNoTimeOut(size) == FALSE
TimesOut(size) == ~Reads(size) /\ Quiet /\ toHost' = << >>

-----------------------------------------------------------------------------
(* Host: a call *)

Returned(result) == host' = [host EXCEPT !.at = "idle", !.result = result]

Write(s, n) == toSv' = toSv \o Bytes(s, n)

\* lsepc_sync's write.
Call ==
    /\ host.at = "idle" /\ host.n < MaxCalls
    /\ \E c \in Cmds, a \in UNION { [1 .. k -> Payloads] : k \in 0 .. 2 } :
          /\ Len(a) = ArgSize(c)
          /\ host' = [at |-> "sync", n |-> host.n + 1, cmd |-> c, args |-> a,
                      try |-> 1, size |-> 0, got |-> << >>, result |-> "none"]
    /\ Write(<< SYN >>, 0)
    /\ UNCHANGED << rx, fw, toHost, sent, done, answers >>

SlipArgsReversed == << ENQ, SOH, host.cmd, STX >> \o Reverse(host.args) \o << EOT >>
Frame == << ENQ, SOH, host.cmd, STX >> \o host.args \o << EOT >>

SendFrame ==
    /\ Write(Frame, host.n)
    /\ sent' = [sent EXCEPT ![host.n] = << host.cmd >> \o host.args]
    /\ host' = [host EXCEPT !.at = "ack"]

\* SYN and ACK: the supervisor is there.
SlipAnyTwoBytes == TRUE
SyncOk == Values(Taken(2)) = << SYN, ACK >>

Synced ==
    /\ host.at = "sync" /\ Reads(2) /\ SyncOk
    /\ toHost' = AfterTaking(2)
    /\ SendFrame
    /\ UNCHANGED << rx, fw, done, answers >>

\* Anything else or nothing: try again, three times in all.
TryAgain ==
    /\ host.try < SYNC_FAILS
    /\ host' = [host EXCEPT !.try = @ + 1]
    /\ Write(<< SYN >>, 0)
    /\ UNCHANGED sent

SlipSendAnyway == host.try = SYNC_FAILS /\ SendFrame
GiveUp == host.try = SYNC_FAILS /\ Returned("error") /\ UNCHANGED << toSv, sent >>

NotSynced ==
    /\ host.at = "sync"
    /\ \/ Reads(2) /\ ~SyncOk /\ toHost' = AfterTaking(2)
       \/ TimesOut(2)
    /\ TryAgain \/ GiveUp
    /\ UNCHANGED << rx, fw, done, answers >>

\* What lsepc_recv_resp reads at each place.
Wanted ==
    CASE host.at = "ack" -> 1 [] host.at = "hdr" -> 2
      [] host.at = "data" -> Max({1, host.size}) [] OTHER -> 1


RecvAck ==
    /\ host.at = "ack" /\ Reads(1)
    /\ toHost' = AfterTaking(1)
    /\ IF Head(toHost).b = ACK THEN host' = [host EXCEPT !.at = "hdr", !.got = Taken(1)]
                ELSE Returned("error")

RecvHdr ==
    /\ host.at = "hdr" /\ Reads(2)
    /\ toHost' = AfterTaking(2)
    /\ IF toHost[2].b = STX /\ toHost[1].b <= AnswerSize(host.cmd)
       THEN host' = [host EXCEPT !.at = "data", !.size = toHost[1].b,
                                 !.got = @ \o Taken(2)]
       ELSE Returned("error")

\* select wants a byte in the queue even for a size of 0, which takes none.
RecvData ==
    /\ host.at = "data" /\ Reads(Wanted)
    /\ toHost' = AfterTaking(host.size)
    /\ host' = [host EXCEPT !.at = "eot", !.got = @ \o Taken(host.size)]

\* The answer as the API functions return it.
Data == SubSeq(Values(host.got), 4, Len(host.got))

\* lsepc_set_io_data wants its word back, lsepc_single_cmd a zero.
Accepts == /\ Head(toHost).b = EOT
           /\ host.cmd = CMD_SETIODATA => Data = host.args
           /\ host.cmd \in SingleCmds => Data = << 0 >>

RecvEot ==
    /\ host.at = "eot" /\ Reads(1)
    /\ toHost' = AfterTaking(1)
    /\ host' = [host EXCEPT !.at = "idle", !.result = IF Accepts THEN "ok" ELSE "error"]

RecvTimeout ==
    /\ host.at \in {"ack", "hdr", "data", "eot"}
    /\ TimesOut(Wanted)
    /\ Returned("error")

Recv == (RecvAck \/ RecvHdr \/ RecvData \/ RecvEot \/ RecvTimeout)
            /\ UNCHANGED << toSv, rx, fw, sent, done, answers >>

\* The monitor ends, at any point, and is started again, which takes longer than
\* what is on the line: lsepc_init flushes what the host has received.
Reopen ==
    /\ host.at # "idle" \/ toHost # << >>
    /\ Quiet
    /\ toHost' = << >>
    /\ IF host.at = "idle" THEN UNCHANGED host ELSE Returned("error")
    /\ UNCHANGED << toSv, rx, fw, sent, done, answers >>

-----------------------------------------------------------------------------
(* Firmware: proto_handle and proto_recv, one byte at a time *)

Poll == [at |-> "poll", cmd |-> 0, args |-> << >>, from |-> << >>]

\* The next byte: the register's, or the line's when the register is empty.  A
\* firmware that does not wait for the OCD keeps up with the line.
Input == IF rx # << >> THEN rx[1] ELSE Head(toSv)
GetChar ==
    /\ fw.at # "busy"
    /\ \/ rx # << >> /\ rx' = << >> /\ UNCHANGED toSv
       \/ rx = << >> /\ toSv # << >> /\ toSv' = Tail(toSv) /\ UNCHANGED rx

\* A byte arrives while the firmware does not look: it overwrites the last one.
Overrun ==
    /\ fw.at = "busy" /\ Waits(fw.cmd) /\ toSv # << >>
    /\ rx' = << Head(toSv) >> /\ toSv' = Tail(toSv)
    /\ UNCHANGED << host, fw, toHost, sent, done, answers >>

PutChars(s) == toHost' = toHost \o s

Nack == PutChars(<< Byte(NAK, 0) >>) /\ fw' = Poll

\* The byte is what the frame needs here: go on at place at.
Expect(ok, at) ==
    \/ ok /\ fw' = [fw EXCEPT !.at = at, !.from = Append(@, Input.n)] /\ UNCHANGED toHost
    \/ ~ok /\ Nack

PollByte ==
    /\ fw.at = "poll"
    /\ \/ Input.b = ENQ /\ fw' = [fw EXCEPT !.at = "soh", !.from = << Input.n >>] /\ UNCHANGED toHost
       \/ Input.b = SYN /\ PutChars(Bytes(<< SYN, ACK >>, 0)) /\ UNCHANGED fw
       \/ Input.b \notin {ENQ, SYN} /\ Nack

CmdByte ==
    /\ fw.at = "cmd"
    /\ fw' = [fw EXCEPT !.at = "stx", !.cmd = Input.b, !.from = Append(@, Input.n)]
    /\ UNCHANGED toHost

ArgByte ==
    /\ fw.at = "args"
    /\ LET args == Append(fw.args, Input.b)
       IN  fw' = [fw EXCEPT !.args = args, !.from = Append(@, Input.n),
                            !.at = IF Len(args) = ArgSize(fw.cmd) THEN "eot" ELSE "args"]
    /\ UNCHANGED toHost

FrameByte ==
    /\ GetChar
    /\ \/ PollByte
       \/ fw.at = "soh" /\ Expect(Input.b = SOH, "cmd")
       \/ CmdByte
       \/ fw.at = "stx" /\ Expect(Input.b = STX /\ fw.cmd \in KnownCmds,
                                  IF ArgSize(fw.cmd) = 0 THEN "eot" ELSE "args")
       \/ ArgByte
       \/ fw.at = "eot" /\ Input.b # EOT /\ Nack
    /\ UNCHANGED << host, sent, done, answers >>

\* The whole frame is there: the callback runs.
Request == << fw.cmd >> \o fw.args
Execute ==
    /\ GetChar
    /\ fw.at = "eot" /\ Input.b = EOT
    /\ done' = Append(done, [from |-> ToSet(fw.from) \cup {Input.n}, what |-> Request])
    /\ fw' = [fw EXCEPT !.at = "busy", !.from = << Input.n >>]
    /\ UNCHANGED << host, toHost, sent, answers >>

\* What a callback answers: ECHO and SETIODATA their argument, the others anything.
AnswersTo(c, args) ==
    IF c \in {CMD_ECHO, CMD_SETIODATA} THEN { args } ELSE [1 .. AnswerSize(c) -> Payloads]

\* proto_ack, when the callback is done.
Answer ==
    /\ fw.at = "busy"
    /\ \E p \in AnswersTo(fw.cmd, fw.args) :
          LET n == fw.from[1] IN
          /\ PutChars(Bytes(<< ACK, Len(p), STX >> \o p \o << EOT >>, n))
          /\ answers' = [answers EXCEPT ![n] = p]
    /\ fw' = Poll
    /\ UNCHANGED << host, toSv, rx, sent, done >>

-----------------------------------------------------------------------------
Init ==
    /\ host = [at |-> "idle", n |-> 0, cmd |-> 0, args |-> << >>, try |-> 0,
               size |-> 0, got |-> << >>, result |-> "none"]
    /\ toSv = << >> /\ rx = << >> /\ fw = Poll /\ toHost = << >>
    /\ sent = [n \in Calls |-> NotSent]
    /\ done = << >>
    /\ answers = [n \in Calls |-> << >>]

HostStep == Synced \/ NotSynced \/ Recv
LineStep == Overrun \/ FrameByte \/ Execute

Next == Call \/ HostStep \/ Reopen \/ LineStep \/ Answer

Spec == Init /\ [][Next]_linkVars

\* The library goes on in a call, bytes arrive, the firmware reads what arrived
\* and ends every command that does not wait for the OCD; one that does need not
\* end, and nobody need call or reopen.
Fairness ==
    /\ WF_linkVars(HostStep)
    /\ WF_linkVars(LineStep)
    /\ WF_linkVars(Answer /\ ~Waits(fw.cmd))

FairSpec == Spec /\ Fairness

-----------------------------------------------------------------------------
(* Properties *)

\* The library keeps its promise to its user (lsepc.c:258-361 over proto_recv):
\* no command takes effect twice although SYN is retried, and a successful call
\* never returns the answer to an earlier one that came after its time-out.
Promise == INSTANCE RemoteCall WITH
    Answers <- UNION { [1 .. k -> Payloads] : k \in {1, 2} }, Nothing <- << >>,
    n <- host.n, open <- host.at # "idle",
    executed <- [i \in DOMAIN done |-> Max(done[i].from)],
    answer <- answers,
    result <- IF host.at = "idle" /\ host.result = "ok" THEN Data ELSE << >>
PromiseKept == Promise!Spec

\* Whatever the firmware executes, it executes as the host sent it: command and
\* arguments come from the bytes of one call's frame, and all of them
\* (proto_recv:155 reads to EOT without knowing where a frame ends).
ExecutedAsSent ==
    \A i \in DOMAIN done :
       \E n \in Calls : done[i].from = {n} /\ done[i].what = sent[n]

\* Every byte of an accepted answer, the header's and the data's, was sent for
\* that call (lsepc_recv_resp:179 after a late answer or stray NAKs).
AnswerIsMine ==
    host.result = "ok" => \A i \in DOMAIN host.got : host.got[i].n = host.n

\* The receiver loses SYNs only: no byte of a frame is overwritten while
\* ocd_busywait keeps main's loop from the UART (main.c:26, ocd.c:64).
FrameKept ==
    [][rx # << >> /\ rx' # << >> /\ rx' # rx => rx[1].n = 0]_linkVars

\* A call returns, whatever the supervisor does (lsepc_read:85, lsepc_getsync:135).
CallReturns == host.at # "idle" ~> host.at = "idle"
=============================================================================
