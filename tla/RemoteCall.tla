----------------------------- MODULE RemoteCall -----------------------------
(***************************************************************************)
(* What the user of sw/lib/lsepc.c may rely on: calls are made one at a    *)
(* time; each is executed by the supervisor at most once, perhaps only     *)
(* after it has failed for the user, and is answered once; a call that     *)
(* succeeds returns the answer to its own execution.                       *)
(***************************************************************************)
EXTENDS Integers, SequencesExt

CONSTANTS MaxCalls,   \* number of calls
          Answers,    \* what an execution may answer
          Nothing     \* no answer

VARIABLES n,          \* number of calls made so far
          open,       \* the last of them has not returned
          executed,   \* calls the supervisor executed, in its order
          answer,     \* what it answered to each call
          result      \* what the last call returned, Nothing if it failed
rpcVars == << n, open, executed, answer, result >>

Init ==
    /\ n = 0 /\ ~open /\ executed = << >> /\ result = Nothing
    /\ answer = [m \in 1 .. MaxCalls |-> Nothing]

Open ==
    /\ ~open /\ n < MaxCalls
    /\ n' = n + 1 /\ open' = TRUE /\ result' = Nothing
    /\ UNCHANGED << executed, answer >>

Execute ==
    /\ \E m \in 1 .. n : /\ m \notin ToSet(executed)
                         /\ executed' = Append(executed, m)
    /\ UNCHANGED << n, open, answer, result >>

Answer ==
    /\ \E m \in ToSet(executed), a \in Answers :
          answer[m] = Nothing /\ answer' = [answer EXCEPT ![m] = a]
    /\ UNCHANGED << n, open, executed, result >>

Return ==
    /\ open /\ open' = FALSE
    /\ result' \in {Nothing, answer[n]}
    /\ UNCHANGED << n, executed, answer >>

Next == Open \/ Execute \/ Answer \/ Return

Spec == Init /\ [][Next]_rpcVars
=============================================================================
