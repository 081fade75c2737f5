-------------------------------- MODULE Cpio --------------------------------
(***************************************************************************)
(* How fs_recv_cpio (fs.c) finds files in the bytes that `cpio -o' sends:  *)
(* BiosFs takes each file as given and follows its blocks; here the blocks *)
(* are left out and the bytes are followed.  cpio's old binary format puts *)
(* a NUL behind a name or a content of odd size; the receiver does not     *)
(* know.  It looks for the magic bytes C7 71 after every file.             *)
(*                                                                         *)
(* One step receives one byte.  A header is its magic, a name size and a   *)
(* file size, a byte each: the fields the receiver does not look at are    *)
(* left out.  All numbers are scaled to that.                              *)
(***************************************************************************)
EXTENDS Integers, SequencesExt, FiniteSetsExt

CONSTANTS
    MAGIC0, MAGIC1,   \* C7 and 71
    NameSizes,        \* sizes of names, NUL included
    ContentBytes,     \* what files contain
    MaxFiles, MaxSize,
    NameLimit         \* PAGE_SIZE less the header

NulByte == 0
Letter == 5           \* any other byte: of a name
TrailerByte == 6      \* of the name TRAILER!!!

ASSUME CpioAssumption ==
    /\ MaxFiles \in Nat /\ MaxSize \in Nat
    /\ NameLimit \in Nat /\ NameLimit >= 3        \* the trailer's name fits
    /\ MAGIC0 # MAGIC1 /\ {MAGIC0, MAGIC1} \cap {NulByte, Letter, TrailerByte} = {}
    /\ {MAGIC0, MAGIC1} \cup ContentBytes \subseteq Nat
    /\ NameSizes \subseteq 2 .. NameLimit

VARIABLES
    archive,     \* the files sent: name size and content
    stream,      \* bytes not yet received
    at,          \* where fs_recv_cpio is, "shell" when it is not running
    hdr,         \* header bytes received, magic included
    name,        \* bytes of the name received
    due,         \* bytes of the file still to come
    files        \* what was stored: name size and content
cpioVars == << archive, stream, at, hdr, name, due, files >>

-----------------------------------------------------------------------------
(* The sender *)

Contents == UNION { [1 .. n -> ContentBytes] : n \in 0 .. MaxSize }
Entries == [name : NameSizes, content : Contents]
Pad(n) == IF n % 2 = 1 THEN << NulByte >> ELSE << >>
NameBytes(n, byte) == Append([i \in 1 .. n - 1 |-> byte], NulByte)

Sent(n, byte, content) ==
    << MAGIC0, MAGIC1, n, Len(content) >> \o NameBytes(n, byte) \o Pad(n)
        \o content \o Pad(Len(content))
Stream(entries) ==
    FlattenSeq([i \in 1 .. Len(entries) |->
                   Sent(entries[i].name, Letter, entries[i].content)])
        \o Sent(3, TrailerByte, << >>)

-----------------------------------------------------------------------------
(* The receiver *)

HeaderSize == 4
Receives == stream # << >> /\ stream' = Tail(stream)
Byte == Head(stream)

\* The first byte of the magic; a second byte that does not fit is dropped, be it
\* the first one again.
HuntMagic0 ==
    /\ at = "magic0" /\ Receives
    /\ at' = IF Byte = MAGIC0 THEN "magic1" ELSE "magic0"
    /\ UNCHANGED << archive, hdr, name, due, files >>

HuntMagic1 ==
    /\ at = "magic1" /\ Receives
    /\ IF Byte = MAGIC1 THEN at' = "header" /\ hdr' = << MAGIC0, MAGIC1 >>
       ELSE at' = "magic0" /\ UNCHANGED hdr
    /\ UNCHANGED << archive, name, due, files >>

IsTrailer(n) == n = NameBytes(3, TrailerByte)

SlipCountsPadding(h) == h[4] + (h[4] % 2)
SizeIn(h) == h[4]

\* The name is complete: the transfer is over, or a file begins.
NameEnd(h, n) ==
    IF IsTrailer(n)
    THEN at' = "shell" /\ UNCHANGED << due, files >>
    ELSE /\ at' = IF SizeIn(h) = 0 THEN "magic0" ELSE "data"
         /\ due' = SizeIn(h)
         /\ files' = Append(files, [name |-> h[3], content |-> << >>])

\* A header that takes its bytes from elsewhere may have any name size; with none
\* the name is what the buffer held.
RecvHeaderByte ==
    /\ at = "header" /\ Receives
    /\ hdr' = Append(hdr, Byte)
    /\ CASE Len(hdr') < HeaderSize -> UNCHANGED << at, due, files, name >>
         [] Len(hdr') = HeaderSize /\ hdr'[3] > NameLimit ->
               at' = "panic" /\ UNCHANGED << due, files, name >>
         [] Len(hdr') = HeaderSize /\ hdr'[3] = 0 ->
               NameEnd(hdr', name) /\ UNCHANGED name
         [] OTHER -> at' = "name" /\ name' = << >> /\ UNCHANGED << due, files >>
    /\ UNCHANGED archive

RecvNameByte ==
    /\ at = "name" /\ Receives
    /\ name' = Append(name, Byte)
    /\ IF Len(name') = hdr[3] THEN NameEnd(hdr, name')
       ELSE UNCHANGED << at, due, files >>
    /\ UNCHANGED << archive, hdr >>

RecvDataByte ==
    /\ at = "data" /\ Receives
    /\ files' = [files EXCEPT ![Len(files)].content = Append(@, Byte)]
    /\ due' = due - 1
    /\ at' = IF due' = 0 THEN "magic0" ELSE "data"
    /\ UNCHANGED << archive, hdr, name >>

CpioStep == HuntMagic0 \/ HuntMagic1 \/ RecvHeaderByte \/ RecvNameByte \/ RecvDataByte

CpioInit ==
    /\ archive \in UNION { [1 .. n -> Entries] : n \in 0 .. MaxFiles }
    /\ stream = Stream(archive)
    /\ at = "magic0" /\ hdr = << >> /\ name = << >> /\ due = 0 /\ files = << >>

CpioSpec == CpioInit /\ [][CpioStep]_cpioVars

-----------------------------------------------------------------------------
(* Properties *)

Odd(n) == n % 2 = 1

\* What becomes of a file: behind a name of odd size it is the padding and all of
\* the content but its last byte.
Stored(e) ==
    IF Odd(e.name) /\ e.content # << >>
    THEN [e EXCEPT !.content = << NulByte >> \o Front(e.content)] ELSE e

\* That last byte is where the next magic is looked for: C7 C7 71 is missed.
HidesNext(e) ==
    /\ Odd(e.name) /\ e.content # << >> /\ ~Odd(Len(e.content))
    /\ Last(e.content) = MAGIC0
Benign == \A i \in DOMAIN archive : ~HidesNext(archive[i])

\* The files of an archive are found one by one and kept with their sizes, and with
\* their contents when their names have even sizes, whatever magic bytes the
\* contents have; behind a name of odd size the content is one byte off.  Only a
\* file behind such a content of even size that ends in C7 is not found.  The
\* trailer ends the transfer with every file in the table; it is not taken for data,
\* and no data is taken for it (fs.c:156-162, 172-192).
FilesAsSent ==
    Benign =>
       /\ Len(files) <= Len(archive) /\ at # "panic"
       /\ \A i \in DOMAIN files :
             LET e == Stored(archive[i])
             IN  /\ files[i].name = e.name
                 /\ IF i = Len(files) /\ at = "data"
                    THEN IsStrictPrefix(files[i].content, e.content)
                    ELSE files[i] = e
       /\ at = "shell" => Len(files) = Len(archive)
       /\ stream = << >> => at = "shell"
=============================================================================
