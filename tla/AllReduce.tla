------------------------------ MODULE AllReduce ------------------------------
(***************************************************************************)
(* What task_context::synchronize, reduce and reduce_transform promise to  *)
(* the threads of a task (include/patton/thread_squad.hpp): the threads    *)
(* meet, and nobody leaves a meeting before everybody has come.  Meetings  *)
(* are numbered; a thread that has entered meeting k and not left it yet   *)
(* has entered[t] = k and left[t] = k - 1.                                 *)
(***************************************************************************)
EXTENDS Integers

CONSTANT NumThreads

VARIABLES
    width,      \* how many threads take part
    meetings,   \* how many meetings they hold
    entered,
    left

vars == <<width, meetings, entered, left>>

Thread      == 0 .. NumThreads-1
Participant == 0 .. width-1

Everybody(f, k) == \A t \in Participant : f[t] >= k

Init ==
    /\ width = 0 /\ meetings = 0
    /\ entered = [t \in Thread |-> 0]
    /\ left = [t \in Thread |-> 0]

\* All meetings are over, and the threads start afresh on another task.
Start ==
    /\ Everybody(left, meetings)
    /\ width' \in 1 .. NumThreads
    /\ meetings' \in Nat
    /\ entered' = [t \in Thread |-> 0]
    /\ left' = [t \in Thread |-> 0]

Enter(t) ==
    /\ entered[t] = left[t] /\ entered[t] < meetings
    /\ entered' = [entered EXCEPT ![t] = entered[t] + 1]
    /\ UNCHANGED <<width, meetings, left>>

Leave(t) ==
    /\ left[t] < entered[t]
    /\ Everybody(entered, entered[t])
    /\ left' = [left EXCEPT ![t] = entered[t]]
    /\ UNCHANGED <<width, meetings, entered>>

Next == Start \/ \E t \in Participant : Enter(t) \/ Leave(t)

Spec ==
    /\ Init /\ [][Next]_vars
    /\ \A t \in Thread : WF_vars(t \in Participant /\ (Enter(t) \/ Leave(t)))

==============================================================================
