------------------------------- MODULE BiosFs -------------------------------
(***************************************************************************)
(* The BIOS's file system, sw/bios/src/fs.c: a table of blocks linked into *)
(* a free list, a directory and one chain per file, filled by fs_recv_cpio *)
(* from an archive on COM2 that the user may abort from COM1.  Data frames *)
(* and the receive buffer come from the frame allocator (FrameAlloc).      *)
(*                                                                         *)
(* One step is one stretch of fs_recv_cpio between two places where it     *)
(* waits for a byte and may be aborted: the header with the name, the data *)
(* of one block.  Sizes count in units of which PageUnits make a page.     *)
(***************************************************************************)
EXTENDS FrameAlloc, FiniteSetsExt

CONSTANTS NbBlocks,      \* FS_NB_BLOCKS
          PageUnits,     \* PAGE_SIZE
          FileSizes,     \* sizes of the files in the archives
          Aborting       \* whether the user presses q

ASSUME FsAssumption ==
    /\ NbFrames > 4
    /\ NbBlocks \in Nat /\ NbBlocks > 1
    /\ PageUnits \in Nat \ {0}
    /\ FileSizes \subseteq Nat
    /\ Aborting \in BOOLEAN

VARIABLES
    type, dnext, bnext, size, data,      \* fs[]
    first_free_block,
    stage,      \* where fs_recv_cpio is, "shell" when it is not running
    buff,       \* frame of the receive buffer
    b,          \* block being filled
    left,       \* units of the file still to come
    expected,   \* history: size the archive gave for each file's first block
    received    \* history: first blocks of the files received to their end

fsVars == << type, dnext, bnext, size, data, first_free_block, stage, buff, b,
             left, expected, received >>
allVars == << frameVars, fsVars >>

Blocks == 0 .. NbBlocks - 1
Directory == 0

\* What init_fs leaves in a block's size: the frame is not cleared.
Garbage == PageUnits + 1
NoFrame == -1

TYPE_FREE == 0
TYPE_DIR == 1
TYPE_INODE == 2
TYPE_DBLK == 2

SlipWholePage(m, n) == m
\* MIN
Smaller(m, n) == IF m < n THEN m ELSE n

-----------------------------------------------------------------------------
(* Pieces of fs_recv_cpio *)

\* alloc_frame hands out frame f.
TakesFrame(f) == AllocFrame /\ f = Found

\* A block number of the free list; the list is left as fs_find_free_block leaves it.
FreeBlock == first_free_block
TakesBlock == first_free_block # 0 /\ first_free_block' = bnext[first_free_block]

\* The first or next data frame of block nb, n units to go.
BeginData(nb, n) ==
    /\ TakesFrame(Found)
    /\ data' = [data EXCEPT ![nb] = Found]
    /\ size' = [size EXCEPT ![nb] = Smaller(PageUnits, n)]
    /\ b' = nb /\ left' = n
    /\ stage' = "data"

SlipBufferNotTaken ==
    /\ stage = "shell"
    /\ buff' = first_free_frame
    /\ stage' = "header"
    /\ UNCHANGED << frameVars, type, dnext, bnext, size, data, first_free_block, b,
                    left, expected, received >>

\* The buffer's frame.
RecvStart ==
    /\ stage = "shell"
    /\ TakesFrame(Found)
    /\ buff' = Found
    /\ stage' = "header"
    /\ UNCHANGED << type, dnext, bnext, size, data, first_free_block, b, left,
                    expected, received >>

SlipHeadMovedFirst(nb) == nb
\* fs[b].dnext = fs[0].next, before fs[0].next = b.
DirectoryNext(nb) == bnext[Directory]

\* A header and a name: the file gets a block, which will head the directory.
BeginFile(nb, n) ==
    /\ stage = "header" /\ TakesBlock
    /\ type' = [type EXCEPT ![nb] = TYPE_INODE]
    /\ dnext' = [dnext EXCEPT ![nb] = DirectoryNext(nb)]
    /\ expected' = [expected EXCEPT ![nb] = n]
    /\ UNCHANGED buff

\* It heads the directory, and has data to come.
BeginLongFile(nb, n) ==
    /\ BeginFile(nb, n) /\ n > 0
    /\ bnext' = [bnext EXCEPT ![Directory] = nb]
    /\ UNCHANGED received

\* An empty file is finished at once, its size and data as the block had them.
RecvHeader(nb, n) ==
    \/ BeginLongFile(nb, n) /\ BeginData(nb, n)
    \/ /\ BeginFile(nb, n) /\ n = 0
       /\ bnext' = [bnext EXCEPT ![Directory] = nb, ![nb] = 0]
       /\ received' = received \cup {nb}
       /\ UNCHANGED << frameVars, size, data, b, left, stage >>

\* The block is full and the file goes on in another one.
BeginBlock(nb) ==
    /\ stage = "data" /\ left > PageUnits /\ TakesBlock
    /\ bnext' = [bnext EXCEPT ![b] = nb]
    /\ type' = [type EXCEPT ![nb] = TYPE_DBLK]
    /\ UNCHANGED << dnext, buff, expected, received >>

RecvNextBlock(nb) == BeginBlock(nb) /\ BeginData(nb, left - PageUnits)

SlipChainNotEnded ==
    /\ stage = "data" /\ left <= PageUnits
    /\ left' = 0
    /\ stage' = "header"
    /\ received' = received \cup {bnext[Directory]}
    /\ UNCHANGED << frameVars, type, dnext, bnext, size, data, first_free_block,
                    buff, b, expected >>

\* The file is complete.
RecvFileDone ==
    /\ stage = "data" /\ left <= PageUnits
    /\ bnext' = [bnext EXCEPT ![b] = 0]
    /\ left' = 0
    /\ stage' = "header"
    /\ received' = received \cup {bnext[Directory]}
    /\ UNCHANGED << frameVars, type, dnext, size, data, first_free_block, buff, b,
                    expected >>

\* Label free_buff.
FreeBuff ==
    /\ FreeFrame(buff) /\ held' = held \ {buff}
    /\ stage' = "shell" /\ buff' = NoFrame /\ left' = 0
    /\ UNCHANGED << panicked, type, dnext, bnext, size, data, first_free_block, b,
                    expected, received >>

RecvTrailer == stage = "header" /\ FreeBuff

RecvAbort == Aborting /\ stage \in {"header", "data"} /\ FreeBuff

\* panic in alloc_frame: there is no frame for the buffer, or for the data of a block
\* that is taken and linked already.
OutOfFrames ==
    /\ AllocPanic /\ stage' = "panic"
    /\ \/ /\ stage = "shell"
          /\ UNCHANGED << type, dnext, bnext, first_free_block, buff, b, expected, received >>
       \/ (\E n \in FileSizes : BeginLongFile(FreeBlock, n)) /\ b' = FreeBlock
       \/ BeginBlock(FreeBlock) /\ b' = FreeBlock
    /\ UNCHANGED << size, data, left >>

\* panic in fs_find_free_block.
OutOfBlocks ==
    /\ stage = "header" \/ (stage = "data" /\ left > PageUnits)
    /\ first_free_block = 0
    /\ stage' = "panic"
    /\ UNCHANGED << frameVars, type, dnext, bnext, size, data, first_free_block,
                    buff, b, left, expected, received >>

-----------------------------------------------------------------------------
\* Frames taken before init_fs returns: the IDT's and the block table's.
IdtFrame == 2
TableFrame == 3

\* init_frames, setup_minimal_idt and init_fs have run.
FsInit ==
    /\ ref_cnt = [i \in Frames |-> IF i \in Reserved \cup {IdtFrame, TableFrame}
                                   THEN 1 ELSE 0]
    /\ next = [i \in Frames |-> U8(i + 1)]
    /\ first_free_frame = 4
    /\ held = {IdtFrame, TableFrame}
    /\ panicked = FALSE
    /\ type = [i \in Blocks |-> IF i = Directory THEN TYPE_DIR ELSE TYPE_FREE]
    /\ dnext = [i \in Blocks |-> 0]
    /\ bnext = [i \in Blocks |->
                    IF i \in {Directory, NbBlocks - 1} THEN 0 ELSE i + 1]
    /\ size = [i \in Blocks |-> IF i = Directory THEN 0 ELSE Garbage]
    /\ data = [i \in Blocks |-> NoFrame]
    /\ first_free_block = 1
    /\ stage = "shell" /\ buff = NoFrame /\ b = 0 /\ left = 0
    /\ expected = [i \in Blocks |-> 0]
    /\ received = {}

FsNext ==
    \/ RecvStart
    \/ \E n \in FileSizes : RecvHeader(FreeBlock, n)
    \/ RecvNextBlock(FreeBlock)
    \/ RecvFileDone \/ RecvTrailer \/ RecvAbort
    \/ OutOfFrames \/ OutOfBlocks

FsSpec == FsInit /\ [][FsNext]_allVars

-----------------------------------------------------------------------------
(* Reading the table, as fs_stats, fs_list_dir and fs_get_file_size do *)

\* The blocks met from i along a link field, i included, 0 excluded.
Chain(link, i) ==
    LET met[n \in 0 .. NbBlocks] ==
            IF n = 0 THEN {i} ELSE LET s == met[n - 1]
                                      IN  s \cup { link[x] : x \in s \ {0} }
    IN  met[NbBlocks] \ {0}

\* A chain that ends: its last block's link is 0.
Ends(link, i) == i = 0 \/ \E x \in Chain(link, i) : link[x] = 0

Files == Chain(dnext, bnext[Directory])

\* fs_get_file_size of a file whose chain ends.
FileSize(f) == MapThenSumSet(LAMBDA x : size[x], Chain(bnext, f))

FreeBlocks == Chain(bnext, first_free_block)

AtShell == stage = "shell"

\* The table keeps these files: their chains end, no two share a block, and none
\* of their blocks is free.
Kept(files) ==
    /\ \A f \in files : Ends(bnext, f)
    /\ \A f, g \in files : f # g => Chain(bnext, f) \cap Chain(bnext, g) = {}
    /\ \A f \in files : Chain(bnext, f) \cap FreeBlocks = {}

\* Back at the shell, every file that was received to its end is kept, whatever
\* was aborted before or after it; and if no file was cut short, no block is lost.
FilesSound ==
    AtShell =>
        /\ Kept(received)
        /\ Files = received =>
              (UNION { Chain(bnext, f) : f \in Files }) \cup FreeBlocks
                  = Blocks \ {Directory}

\* The size `ls` adds up for a file received to its end is the size the archive
\* gave, and stays so.  Empty files are left out: their size is whatever the
\* block held.
SizesTold ==
    AtShell => \A f \in received : expected[f] > 0 => FileSize(f) = expected[f]

\* A data frame belongs to one block and to nothing else, and the allocator knows
\* it is in use: receiving, finishing or aborting never gives one away.
FramesOwned ==
    \A x \in Blocks : data[x] # NoFrame =>
        /\ data[x] \in held \ {buff, IdtFrame, TableFrame}
        /\ \A y \in Blocks \ {x} : data[y] # data[x]

\* The directory stays a list of file blocks even while a file is received and
\* after an abort: `ls` ends.
DirectoryEnds == Ends(dnext, bnext[Directory]) /\ \A f \in Files : type[f] = TYPE_INODE
=============================================================================
