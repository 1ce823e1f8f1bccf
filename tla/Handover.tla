------------------------------ MODULE Handover ------------------------------
(***************************************************************************)
(* What a pair of signals promises the two threads at its ends: thread a   *)
(* hands something over, thread b works on it, thread a takes it back, over*)
(* and over.  Every access to what is handed over knows of every access    *)
(* before it, so nothing is read before it is written, and everything that *)
(* was handed over is eventually returned.                                 *)
(***************************************************************************)
EXTENDS Integers

CONSTANTS
    a, b,       \* the two threads
    Rounds      \* bound: how often something is handed over

VARIABLES
    accesses,   \* how many accesses there have been
    known       \* how many of them a thread knew of after its own last one

vars == <<accesses, known>>

Init == accesses = 0 /\ known = [t \in {a, b} |-> 0]

Access(t) ==
    /\ accesses' = accesses + 1
    /\ known' = [known EXCEPT ![t] = accesses + 1]

Submit  == accesses % 3 = 0 /\ accesses < 3 * Rounds /\ Access(a)
Process == accesses % 3 = 1 /\ Access(b)
Collect == accesses % 3 = 2 /\ Access(a)

Next == Submit \/ Process \/ Collect

\* Nobody has to hand over anything.
Spec == Init /\ [][Next]_vars /\ WF_vars(Process) /\ WF_vars(Collect)

==============================================================================
