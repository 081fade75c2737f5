------------------------------- MODULE MCBios -------------------------------
(***************************************************************************)
(* The BIOS's byte by byte routines in one instance: a behaviour            *)
(* is one call of printf or atoi (BiosText), or one transfer (Cpio).       *)
(***************************************************************************)
EXTENDS BiosText, Cpio

TextOver ==
    /\ job = "printed" /\ args = [i \in 1 .. MaxItems |-> CHOOSE n \in Numbers : TRUE]
    /\ taken = 0 /\ buff = << >> /\ out = << >> /\ want = << >>
    /\ asked = [items |-> 0, convs |-> 0, astray |-> FALSE]
    /\ str = << >> /\ index = 0 /\ val = AtoiStart

NoTransfer ==
    /\ archive = << >> /\ stream = << >> /\ at = "shell"
    /\ hdr = << >> /\ name = << >> /\ due = 0 /\ files = << >>

Init == (TextInit /\ NoTransfer) \/ (CpioInit /\ TextOver)

Next ==
    \/ TextNext /\ UNCHANGED cpioVars
    \/ CpioStep /\ UNCHANGED textVars

Spec == Init /\ [][Next]_<< textVars, cpioVars >>
=============================================================================
