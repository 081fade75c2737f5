----------------------------- MODULE FramePool -----------------------------
(***************************************************************************)
(* What a page frame allocator promises its callers: a frame it hands out  *)
(* belongs to the pool and to nobody else until it is given back.          *)
(***************************************************************************)
CONSTANT Pool
VARIABLE held      \* frames handed out and not given back

PoolInit == held = {}
Take == \E f \in Pool \ held : held' = held \cup {f}
GiveBack == \E f \in held : held' = held \ {f}
PoolSpec == PoolInit /\ [][Take \/ GiveBack]_held
=============================================================================
