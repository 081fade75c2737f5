---------------------------- MODULE MCDebugStack ----------------------------
(* Values of DebugStack's constants for TLC. *)
EXTENDS DebugStack

\* A context whose ESP borrows and carries between its words, and one whose
\* words are all different.
LowEsp ==
    [eflags |-> << 514, 0 >>, cs |-> 8, eip |-> << 33000, 15 >>,
     gp |-> [i \in 0 .. 7 |-> IF i = 3 THEN << 4, 1 >> ELSE << 0, 0 >>]]
Distinct ==
    [eflags |-> << 71, 3 >>, cs |-> 16, eip |-> << 4096, 49152 >>,
     gp |-> [i \in 0 .. 7 |-> << 100 + i, 200 + i >>]]

OneContext == { Distinct }
TwoContexts == { LowEsp, Distinct }
=============================================================================
