----------------------------- MODULE FrameAlloc -----------------------------
(***************************************************************************)
(* The BIOS page frame allocator, sw/bios/src/frame_alloc.c.  The BIOS is  *)
(* one thread that takes no interrupt here, so each function is one step.  *)
(*                                                                         *)
(* The C code has 256 frames and 8-bit links: the last frame's link wraps  *)
(* to 0, which ends the list.  NbFrames scales both at once.  Definitions  *)
(* named Slip... are the ones after them with a plausible mistake in them. *)
(***************************************************************************)
EXTENDS Integers

CONSTANT NbFrames       \* NB_FRAMES, and the range of u8

ASSUME FrameAssumption == NbFrames \in Nat /\ NbFrames > 2

VARIABLES ref_cnt, next,        \* frames[]
          first_free_frame,
          held,                 \* history: frames callers hold
          panicked              \* panic("No memory available") was called

frameVars == << ref_cnt, next, first_free_frame, held, panicked >>

Frames == 0 .. NbFrames - 1

\* The frames callers may get: 0 and 1 are taken by init_frames.
Pool == 2 .. NbFrames - 1

U8(n) == n % NbFrames

\* The loop of alloc_frame after n iterations: it follows the list until its end
\* or a frame with no references.
Iteration ==
    LET at[n \in 0 .. NbFrames] ==
            IF n = 0 THEN first_free_frame
            ELSE LET i == at[n - 1]
                 IN  IF i = 0 \/ ref_cnt[i] = 0 THEN i ELSE next[i]
    IN  at

Found == Iteration[NbFrames]

AllocFrame ==
    /\ ~panicked
    /\ Found \in Frames \ {0} /\ ref_cnt[Found] = 0
    /\ ref_cnt' = [ref_cnt EXCEPT ![Found] = U8(@ + 1)]
    /\ first_free_frame' = next[Found]
    /\ held' = held \cup {Found}
    /\ UNCHANGED << next, panicked >>

\* The loop reached the end of the list.
AllocPanic ==
    /\ ~panicked
    /\ Found = 0
    /\ panicked' = TRUE
    /\ UNCHANGED << ref_cnt, next, first_free_frame, held >>

SlipHeadFirst(f) ==
    /\ ref_cnt' = [ref_cnt EXCEPT ![f] = U8(@ + 1)]
    /\ first_free_frame' = f
    /\ next' = [next EXCEPT ![f] = f]

\* free_frame increments the count, as alloc_frame does.
FreeFrame(f) ==
    /\ ref_cnt' = [ref_cnt EXCEPT ![f] = U8(@ + 1)]
    /\ next' = [next EXCEPT ![f] = first_free_frame]
    /\ first_free_frame' = f

\* A caller frees a frame it holds.
Free ==
    /\ ~panicked
    /\ \E f \in held : FreeFrame(f) /\ held' = held \ {f}
    /\ UNCHANGED panicked

-----------------------------------------------------------------------------
SlipOneReserved == { 0 }
\* Frames init_frames takes: page directory and page table.
Reserved == { 0, 1 }

SlipNoPageTable ==
    /\ ref_cnt = [i \in Frames |-> IF i = 0 THEN 1 ELSE 0]
    /\ next = [i \in Frames |-> U8(i + 1)]
    /\ first_free_frame = 1
InitFrames ==
    /\ ref_cnt = [i \in Frames |-> IF i \in Reserved THEN 1 ELSE 0]
    /\ next = [i \in Frames |-> U8(i + 1)]
    /\ first_free_frame = 2

Init ==
    /\ InitFrames
    /\ held = {}
    /\ panicked = FALSE

Next == AllocFrame \/ AllocPanic \/ Free

Spec == Init /\ [][Next]_frameVars

-----------------------------------------------------------------------------
TypeOK ==
    /\ ref_cnt \in [Frames -> Frames]
    /\ next \in [Frames -> Frames]
    /\ first_free_frame \in Frames
    /\ held \subseteq Frames
    /\ panicked \in BOOLEAN

\* The counts tell the frames in use: a frame a caller holds has one reference
\* and the frames of the page tables keep theirs, so alloc_frame cannot hand out
\* either.
CountsTruth ==
    /\ held \subseteq Pool
    /\ \A f \in held : ref_cnt[f] = 1
    /\ ref_cnt[0] # 0 /\ ref_cnt[1] # 0

\* The list after n links.
Links ==
    LET at[n \in 0 .. NbFrames] ==
            IF n = 0 THEN first_free_frame
            ELSE LET i == at[n - 1] IN IF i = 0 THEN 0 ELSE next[i]
    IN  at

FreeList == { Links[n] : n \in 0 .. NbFrames } \ {0}

\* The list of free frames ends (the loops of alloc_frame and frame_stats end)
\* and no frame in use is on it, after any sequence of calls.
ListSound ==
    /\ Links[NbFrames] = 0
    /\ FreeList \cap (held \cup {0, 1}) = {}

\* Callers get what an allocator promises.
ThePool == INSTANCE FramePool
PoolImplemented == ThePool!PoolSpec
=============================================================================
