------------------------------ MODULE BiosText ------------------------------
(***************************************************************************)
(* Text and numbers in the BIOS: printf.c, which collects characters in a  *)
(* small buffer and writes it out over uart.c when it is full, and         *)
(* string.c's atoi and itoa, with which the memory command (command.c)     *)
(* reads its arguments and prints bytes.                                   *)
(*                                                                         *)
(* The BIOS is one thread.  `job' tells what it is in: vprintf, one step   *)
(* per character or conversion of the format, or atoi, one step per        *)
(* character of its string.  Left out are printf's return value, used by   *)
(* nobody, and NUL characters, which no caller prints.  Definitions named  *)
(* Slip... are the ones after them with a plausible mistake in them.       *)
(***************************************************************************)
EXTENDS Integers, SequencesExt

CONSTANTS
    BufSize,      \* BUF_SIZE of printf.c
    Modulus,      \* 2^32
    IndexSize,    \* 2^8: what fits atoi's index
    Numbers,      \* arguments of a printf
    MaxItems,     \* bound: length of a format, in characters and conversions
    MaxDigits,    \* bound: length of a string given to atoi
    MaxPlaces     \* enough places for any number in any base

ASSUME TextAssumption ==
    /\ BufSize \in Nat \ {0}
    /\ Modulus \in Nat /\ Modulus >= 256 /\ Modulus % 2 = 0
    /\ IndexSize \in Nat /\ IndexSize > 4
    /\ Numbers \subseteq 0 .. Modulus - 1 /\ Numbers # {}
    /\ MaxItems \in Nat /\ MaxDigits \in Nat /\ MaxPlaces \in Nat

VARIABLES
    job,
    args,     \* printf's arguments
    taken,    \* how many of them va_arg has taken
    buff,     \* s_file: the characters up to pos
    out,      \* what the port was given since the call
    want,     \* history: what C's printf prints, newlines made CR LF
    asked,    \* history: conversions so far, and whether one took a wrong argument
    str,      \* atoi: what it has read of its string
    index,    \* atoi: i
    val       \* atoi: where in the number it is, base and *res
printVars == << args, taken, buff, out, want, asked >>
atoiVars == << str, index, val >>
textVars == << job, printVars, atoiVars >>

-----------------------------------------------------------------------------
(* Numbers *)

Digits == << "0", "1", "2", "3", "4", "5", "6", "7", "8", "9",
             "a", "b", "c", "d", "e", "f" >>

\* The loop of conv and itoa, last digit first, and the loop or reverse after it.
SlipDigitsAsFound(dig) == dig
MostFirst(dig) == Reverse(dig)
Conv(n, base) ==
    LET dig[m \in 0 .. n] ==
            IF m = 0 THEN << >> ELSE << Digits[(m % base) + 1] >> \o dig[m \div base]
    IN  MostFirst(dig[n])

\* printnbr_base.
Number(n, base) == IF n = 0 THEN << "0" >> ELSE Conv(n, base)

\* print_int with INT_SIGNED: the word as a signed number.
Signed(v) ==
    IF v < Modulus \div 2 THEN Number(v, 10)
    ELSE << "-" >> \o Number((-v) % Modulus, 10)

-----------------------------------------------------------------------------
(* printf.c *)

Newline == "\n"
\* uart_write.
Crlf(s) == FlattenSeq([i \in 1 .. Len(s) |->
                          IF s[i] = Newline THEN << "\r", Newline >> ELSE << s[i] >>])

Full(b) == Len(b) = BufSize

Fflush(f) == [buff |-> << >>, out |-> f.out \o Crlf(f.buff)]

Putc(f, c) == LET g == [f EXCEPT !.buff = Append(@, c)]
              IN  IF Full(g.buff) THEN Fflush(g) ELSE g

\* Characters s go to the file.
Puts(s) == LET f == FoldLeft(Putc, [buff |-> buff, out |-> out], s)
           IN  buff' = f.buff /\ out' = f.out

\* A string and a character an argument may stand for.
StringAt(v) == SubSeq(<< "a", Newline, "b", "c" >>, 1, v % 5)
CharAt(v) == IF v = 0 THEN Newline ELSE "c"

\* formats[] and special_char: what a conversion makes of argument v.
Formatted(ch, v) ==
    CASE ch \in {"d", "i"} -> Signed(v)
      [] ch = "u" -> Number(v, 10)
      [] ch = "o" -> Number(v, 8)
      [] ch = "x" -> Number(v, 16)
      [] ch = "p" -> << "0", "x" >> \o Number(v, 16)
      [] ch = "s" -> StringAt(v)
      [] ch = "c" -> << CharAt(v) >>
      [] ch = "%" -> << "%" >>
      [] OTHER -> << "%", ch >>
Conversions == {"d", "u", "o", "x", "p", "s", "c", "%", "q"}

\* What C asks for, number by number in closed form; %% takes no argument.
Power(b, k) == FoldLeft(LAMBDA p, i : p * b, 1, [i \in 1 .. k |-> i])
\* MaxPlaces: a word has that many digits at most.
ASSUME PlacesAreEnough == \A b \in {8, 10, 16} : Modulus <= Power(b, MaxPlaces)
Numeral(n, b) ==
    LET k == Min({ j \in 1 .. MaxPlaces : n < Power(b, j) })
    IN  [i \in 1 .. k |-> Digits[((n \div Power(b, k - i)) % b) + 1]]
Asked(ch, v) ==
    CASE ch = "d" -> IF 2 * v >= Modulus THEN << "-" >> \o Numeral(Modulus - v, 10)
                     ELSE Numeral(v, 10)
      [] ch = "u" -> Numeral(v, 10)
      [] ch = "o" -> Numeral(v, 8)
      [] ch = "x" -> Numeral(v, 16)
      [] ch = "p" -> << "0", "x" >> \o Numeral(v, 16)
      [] OTHER -> Formatted(ch, v)

Printing == job = "printf" /\ asked.items < MaxItems

\* A plain character of the format.
Plain(c) ==
    /\ Printing
    /\ Puts(<< c >>)
    /\ want' = want \o Crlf(<< c >>)
    /\ asked' = [asked EXCEPT !.items = @ + 1]
    /\ UNCHANGED << job, args, taken, atoiVars >>

\* '%' and the character behind it; va_arg comes first, whatever that is.
Special(ch) ==
    /\ Printing
    /\ Puts(Formatted(ch, args[taken + 1]))
    /\ taken' = taken + 1
    /\ want' = want \o Crlf(Asked(ch, args[asked.convs + 1]))
    /\ asked' = [items |-> asked.items + 1,
                 convs |-> IF ch = "%" THEN asked.convs ELSE asked.convs + 1,
                 astray |-> asked.astray \/ (ch # "%" /\ taken # asked.convs)]
    /\ UNCHANGED << job, args, atoiVars >>

\* close_buffered_output, and the call is over.
Close ==
    /\ job = "printf"
    /\ LET f == Fflush([buff |-> buff, out |-> out]) IN buff' = f.buff /\ out' = f.out
    /\ job' = "printed"
    /\ UNCHANGED << args, taken, want, asked, atoiVars >>

-----------------------------------------------------------------------------
(* string.c *)

NotDigit == 99
\* The characters' cases in atoi; a capital letter is the same digit.
DigitOf(c) == IF \E d \in 1 .. 16 : Digits[d] = c
              THEN (CHOOSE d \in 1 .. 16 : Digits[d] = c) - 1
              ELSE NotDigit

SlipAnyDigit(n, base) == n < 16
DigitOk(n, base) == n < base

\* The next character: the prefix, then a digit.  A bad one ends the call.
AtoiStep(v, c) ==
    CASE v.at = "start" /\ c = "0" -> [at |-> "zero", base |-> 8, res |-> 0]
      [] v.at = "zero" /\ c = "x" -> [v EXCEPT !.at = "digits", !.base = 16]
      [] v.at = "zero" /\ c = "b" -> [v EXCEPT !.at = "digits", !.base = 2]
      [] OTHER ->
            IF DigitOk(DigitOf(c), v.base)
            THEN [v EXCEPT !.at = "digits",
                           !.res = (v.res * v.base + DigitOf(c)) % Modulus]
            ELSE [v EXCEPT !.at = "error"]

AtoiStart == [at |-> "start", base |-> 10, res |-> 0]
Atoi(s) == FoldLeft(AtoiStep, AtoiStart, s)

Characters == {"0", "1", "7", "9", "b", "x", "f", "g"}

\* atoi looks at str[i]: a character it has not seen before or, once its index of
\* eight bits has wrapped, one it has read already.
Read(c) ==
    /\ job = "atoi" /\ val.at # "error"
    /\ \/ index = Len(str) /\ Len(str) < MaxDigits /\ str' = Append(str, c)
       \/ index < Len(str) /\ c = str[index + 1] /\ UNCHANGED str
    /\ val' = AtoiStep(val, c)
    /\ index' = (index + 1) % IndexSize
    /\ UNCHANGED << job, printVars >>

\* str[i] is the string's NUL: atoi returns 0.
ReadEnd ==
    /\ job = "atoi" /\ val.at # "error" /\ index = Len(str)
    /\ job' = "read"
    /\ UNCHANGED << printVars, atoiVars >>

NUL == "NUL"
\* itoa into a buffer, capitals as small letters: no NUL is put behind a 0.
Itoa(n, base, b) ==
    LET s == IF n = 0 THEN << "0" >> ELSE Append(Conv(n, base), NUL)
    IN  [i \in 1 .. Len(b) |-> IF i <= Len(s) THEN s[i] ELSE b[i]]

\* memory's byte: its buffer was zero and gets a 0 in front of a single digit.
Padded(b) == IF b[2] = NUL THEN << "0", b[1] >> ELSE SubSeq(b, 1, 2)
HexByte(n) == Padded(Itoa(n, 16, << NUL, NUL, NUL >>))

-----------------------------------------------------------------------------
TextInit ==
    /\ job \in {"printf", "atoi"}
    /\ args \in [1 .. MaxItems -> Numbers]
    /\ job = "atoi" => args = [i \in 1 .. MaxItems |-> CHOOSE n \in Numbers : TRUE]
    /\ taken = 0 /\ buff = << >> /\ out = << >> /\ want = << >>
    /\ asked = [items |-> 0, convs |-> 0, astray |-> FALSE]
    /\ str = << >> /\ index = 0 /\ val = AtoiStart

TextNext ==
    \/ \E c \in {"A", Newline} : Plain(c)
    \/ \E ch \in Conversions : Special(ch)
    \/ Close
    \/ \E c \in Characters : Read(c)
    \/ ReadEnd

TextSpec == TextInit /\ [][TextNext]_textVars

-----------------------------------------------------------------------------
(* Properties *)

\* What comes out is what C's printf prints, wherever the buffer happens to fill up
\* (putc:60, fflush:45, whose NUL needs the byte behind it) and whatever each number's
\* loop finds (conv:72); until a conversion behind a %%, which takes an argument of
\* its own here (vprintf:203).
PrintedAsAsked ==
    /\ Len(buff) < BufSize
    /\ ~asked.astray => /\ out \o Crlf(buff) = want
                        /\ job = "printed" => out = want

\* What a number's string means: its digits, by their places.
Value(s, base) ==
    FoldLeft(LAMBDA sum, i : sum + DigitOf(s[i]) * Power(base, Len(s) - i),
             0, [i \in 1 .. Len(s) |-> i])
Body == IF val.base \in {2, 16} THEN SubSeq(str, 3, Len(str)) ELSE str
Meaning == Value(Body, val.base)

\* What atoi returns is the value of what was typed, modulo the word, and it refuses
\* what is not a number of its base, or is as long as its index counts (atoi:110,
\* called by memory:148): a string of IndexSize characters is never returned from.
AtoiMeans ==
    /\ job = "read" =>
          /\ val.res = Meaning % Modulus
          /\ \A i \in 1 .. Len(Body) : DigitOf(Body[i]) < val.base
    /\ val.at = "error" =>
          Len(str) = IndexSize \/ \E i \in 1 .. Len(Body) : DigitOf(Body[i]) >= val.base
    /\ \A i \in 1 .. Len(Body) - 1 : DigitOf(Body[i]) < val.base

\* What the memory command prints is two digits, read back as the same byte.
ReadBack ==
    val.at = "digits" =>
       /\ Atoi(<< "0", "x" >> \o HexByte(val.res % 256)).res = val.res % 256
       /\ Len(HexByte(val.res % 256)) = 2

\* itoa's and atoi's ideas of a number agree, with each other and with what its digits
\* say (string.c:89-153, command.c:148, 167-174).
NumbersMean == AtoiMeans /\ ReadBack
=============================================================================
