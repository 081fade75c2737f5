------------------------------- MODULE Shell -------------------------------
(***************************************************************************)
(* The BIOS's command line: the editor of sw/bios/src/shell.c, strtok_c of *)
(* string.c, which cuts the line up in place, and what the commands of     *)
(* command.c take for their arguments.  A key is one step, with all the    *)
(* shell does before it reads the next one.                                *)
(*                                                                         *)
(* A command's name is its first letter.  The last byte of the buffer is   *)
(* never stored to: shell.c has no check of its own, so that this bound is *)
(* the user's.  Definitions named Slip... are the ones after them with a    *)
(* plausible mistake in them.                                              *)
(***************************************************************************)
EXTENDS Integers, SequencesExt

CONSTANTS
    BufSize,      \* BUF_SIZE
    MaxArgs,      \* COMMAND_MAX_ARGS
    Letters       \* printable characters the user types besides the blank

BLANK == " "
DEL == "DEL"            \* and BACKSPACE, which the shell treats alike
ENTER == "ENTER"
CTRL_C == "^C"
UNPRINTABLE == "unprintable"
NUL == "NUL"
Printable == Letters \cup {BLANK}
Keys == Printable \cup {DEL, ENTER, CTRL_C, UNPRINTABLE}
NotBlank == (Keys \cup {NUL}) \ {BLANK}

\* min_args and max_args of commands[].
Commands == [help |-> << 0, 1 >>, memory |-> << 2, 2 >>, ls |-> << 0, 1 >>,
             p |-> << 1, 1 >>, recvfs |-> << 0, 0 >>, stats |-> << 0, 0 >>]
NameOf(c) == CASE c = "help" -> "h" [] c = "memory" -> "m" [] c = "ls" -> "l"
               [] c = "p" -> "p" [] c = "recvfs" -> "r" [] OTHER -> "s"
MinArgs(c) == Commands[c][1]
MostArgs(c) == Commands[c][2]

\* exec_cmd stops cutting at MaxArgs words; no command may take that many.
ASSUME ShellAssumption ==
    /\ BufSize \in Nat \ {0, 1}
    /\ MaxArgs \in Nat /\ \A c \in DOMAIN Commands : MostArgs(c) + 1 < MaxArgs
    /\ Letters \cap {BLANK, DEL, ENTER, CTRL_C, UNPRINTABLE, NUL} = {}

VARIABLES
    buffer, pos,
    shown,      \* the terminal's line behind the prompt
    line,       \* history: the line as its typist sees it
    ran         \* history: the line last entered, and what came of it
shellVars == << buffer, pos, shown, line, ran >>

Cells == 0 .. BufSize - 1
Null == -1
NotRun == [line |-> << >>, out |-> << "nothing" >>]

TypeOK ==
    /\ buffer \in [Cells -> Keys \cup {NUL}] /\ buffer[BufSize - 1] = NUL
    /\ pos \in Cells
    /\ {shown, line, ran.line} \subseteq Seq(Printable)

-----------------------------------------------------------------------------
(* string.c *)

First(b, i, chars) == Min({ j \in i .. BufSize - 1 : b[j] \in chars })

\* The string at i.
Str(b, i) == LET end == First(b, i, {NUL})
             IN  [k \in 1 .. end - i |-> b[i + k - 1]]

EndWord(b, end) == [b EXCEPT ![end] = NUL]

\* strtok_c from run: the word's place, the buffer cut behind it, where to go on.
StrTok(b, run) ==
    LET res == First(b, run, NotBlank)
        end == First(b, res, {BLANK, NUL})
        rest == First(b, end, NotBlank)
    IN  [res |-> res,
         buf |-> IF b[end] = NUL THEN b ELSE EndWord(b, end),
         last |-> IF b[rest] = NUL THEN Null ELSE rest]

-----------------------------------------------------------------------------
(* shell.c *)

\* The calls exec_cmd makes, one with the buffer and then with NULL.
Token(b) ==
    LET at[n \in 0 .. MaxArgs] ==
            IF n = 0 THEN StrTok(b, 0)
            ELSE IF at[n - 1].last = Null THEN [at[n - 1] EXCEPT !.res = Null]
            ELSE StrTok(at[n - 1].buf, at[n - 1].last)
    IN  at

SlipNoMinimum(c, nb) == FALSE
TooFew(c, nb) == nb # 1 /\ nb - 1 < MinArgs(c)

\* exec_cmd: the words are read by the command, when the whole line is cut up.
ExecCmd(b) ==
    LET token == Token(b)
        nb == Min({ n \in 1 .. MaxArgs : token[n].res = Null } \cup {MaxArgs})
        name == Str(token[0].buf, token[0].res)
        argv == [k \in 1 .. nb |-> Str(token[nb].buf, token[k - 1].res)]
        found == { c \in DOMAIN Commands : << NameOf(c) >> = name }
    IN  IF found = {} THEN [buf |-> token[0].buf, out |-> << "not found" >>]
        ELSE LET c == CHOOSE x \in found : TRUE IN
             [buf |-> token[nb].buf,
              out |-> IF TooFew(c, nb) THEN << "not enough" >>
                      ELSE IF nb - 1 > MostArgs(c) THEN << "too much" >>
                      ELSE << c, argv >>]

\* ack_cmd, the byte read being at pos.
Stored(key) == [buffer EXCEPT ![pos] = key]

SlipEndNotMarked == buffer
EndedLine == [buffer EXCEPT ![pos] = NUL]

Enter ==
    /\ pos' = 0 /\ shown' = << >> /\ line' = << >>
    /\ LET done == ExecCmd(EndedLine) IN
       IF pos = 0
       THEN buffer' = EndedLine /\ ran' = NotRun
       ELSE buffer' = done.buf /\ ran' = [line |-> line, out |-> done.out]

SlipPastPrompt == TRUE
MayErase == pos > 0

\* The terminal goes back, overwrites with a blank and goes back.
Delete ==
    /\ buffer' = Stored(DEL) /\ ran' = NotRun
    /\ IF MayErase
       THEN pos' = pos - 1 /\ shown' = IF shown = << >> THEN << >> ELSE Front(shown)
       ELSE UNCHANGED << pos, shown >>
    /\ line' = IF line = << >> THEN << >> ELSE Front(line)

Abandon ==
    /\ buffer' = Stored(CTRL_C) /\ ran' = NotRun
    /\ pos' = 0 /\ shown' = << >> /\ line' = << >>

Insert(key) ==
    /\ pos + 1 < BufSize - 1
    /\ buffer' = Stored(key) /\ ran' = NotRun
    /\ pos' = pos + 1
    /\ shown' = Append(shown, key) /\ line' = Append(line, key)

Ignore == buffer' = Stored(UNPRINTABLE) /\ ran' = NotRun /\ UNCHANGED << pos, shown, line >>

-----------------------------------------------------------------------------
Init ==
    /\ buffer = [i \in Cells |-> NUL]
    /\ pos = 0 /\ shown = << >> /\ line = << >> /\ ran = NotRun

Next == Enter \/ Delete \/ Abandon \/ Ignore \/ \E key \in Printable : Insert(key)

Spec == Init /\ [][Next]_shellVars

-----------------------------------------------------------------------------
(* Properties *)

\* The words of a line, from where they start.
Starts(l) == { i \in 1 .. Len(l) : l[i] # BLANK /\ (i = 1 \/ l[i - 1] = BLANK) }
WordAt(l, i) ==
    SubSeq(l, i, Max({ j \in i .. Len(l) : \A k \in i .. j : l[k] # BLANK }))
Rank(l, i) == Cardinality({ j \in Starts(l) : j <= i })
Words(l) == [k \in 1 .. Cardinality(Starts(l)) |->
                WordAt(l, CHOOSE i \in Starts(l) : Rank(l, i) = k)]

\* What is executed is the line as last edited, cut at its blanks, whatever earlier
\* longer lines left in the buffer or in strtok_c's static pointer (exec_cmd:17,
\* ack_cmd:52, strtok_c:48); or it is refused for the number of its words.
RunAsTyped ==
    LET w == Words(ran.line)
        out == ran.out[1]
    IN  /\ out \in DOMAIN Commands =>
              w[1] = << NameOf(out) >> /\ ran.out[2] = w
        /\ out = "not enough" \/ out = "too much" =>
              \E c \in DOMAIN Commands :
                 w[1] = << NameOf(c) >> /\ Len(w) - 1 \notin MinArgs(c) .. MostArgs(c)
        /\ out = "not found" =>
              w = << >> \/ \A c \in DOMAIN Commands : w[1] # << NameOf(c) >>

\* What the terminal shows behind the prompt is what ENTER would execute
\* (ack_cmd:65-80: echo, "\b \b" and pos go together).
ShownIsStored == /\ TypeOK
                 /\ shown = [k \in 1 .. pos |-> buffer[k - 1]] /\ shown = line

\* Arguments a callback reads for its argc, as command.c has it.
Reads(c, argc) == CASE c \in {"help", "ls", "p"} -> IF argc > 1 THEN {1} ELSE {}
                    [] c = "memory" -> IF argc = 1 THEN {} ELSE {1, 2}
                    [] OTHER -> {}

\* No command reads an argument that was not typed, although exec_cmd lets a line of
\* the name alone pass below min_args (shell.c:32, command.c:9-26, 111-184).
ArgumentsThere ==
    ran.out[1] \in DOMAIN Commands =>
        \A i \in Reads(ran.out[1], Len(ran.out[2])) : i + 1 <= Len(Words(ran.line))
=============================================================================
