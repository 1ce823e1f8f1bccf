------------------------------ MODULE ForkJoin ------------------------------
(***************************************************************************)
(* What a thread squad promises its owner, without threads, signals or     *)
(* trees: a call runs the task once for each of its first `width` thread   *)
(* indices, in any order, returns only when all of them are done, and does *)
(* return.  A call that asks for a join leaves no squad behind.            *)
(***************************************************************************)
EXTENDS Integers

CONSTANT NumThreads

VARIABLES
    phase,      \* "ready" for a call, "busy" with one, or "gone"
    width,      \* concurrency of the current task
    closing,    \* the current call is the last one
    done        \* thread indices that have executed the current task

vars == <<phase, width, closing, done>>

Init == phase = "ready" /\ width = 0 /\ closing = FALSE /\ done = {}

Call(c, j) ==
    /\ phase = "ready"
    /\ phase' = "busy" /\ width' = c /\ closing' = j
    /\ UNCHANGED done

\* A squad that never forked a thread can be given up without running anything.
GiveUp == phase = "ready" /\ phase' = "gone" /\ UNCHANGED <<width, closing, done>>

Execute(t) ==
    /\ phase = "busy"
    /\ t \in 0 .. width-1 /\ t \notin done
    /\ done' = done \cup {t}
    /\ UNCHANGED <<phase, width, closing>>

Return ==
    /\ phase = "busy"
    /\ done = 0 .. width-1
    /\ phase' = IF closing THEN "gone" ELSE "ready"
    /\ width' = 0 /\ closing' = FALSE /\ done' = {}

Next ==
    \/ \E c \in 0 .. NumThreads, j \in BOOLEAN : Call(c, j)
    \/ GiveUp
    \/ \E t \in 0 .. NumThreads-1 : Execute(t)
    \/ Return

\* Every participant gets to run, and the call returns.
Spec ==
    /\ Init /\ [][Next]_vars
    /\ \A t \in 0 .. NumThreads-1 : WF_vars(Execute(t))
    /\ WF_vars(Return)

==============================================================================
