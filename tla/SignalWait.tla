----------------------------- MODULE SignalWait -----------------------------
(***************************************************************************)
(* How one thread waits for another: detail::wait, reset and               *)
(* set_and_notify (src/src/thread_squad.cpp:311-436), down to the single   *)
(* load, store, wait and notification, on weakly ordered memory.           *)
(*                                                                         *)
(* Threads a and b use a pair of flags as notify_thread, task_wait,        *)
(* task_signal_completion and wait_for_thread do (a superordinate and b its*)
(* subordinate), or synchronize_collect, collect_from_thread and           *)
(* broadcast_to_thread (a subordinate and b its superordinate).  A flag is *)
(* named after the thread that waits for it.                               *)
(*                                                                         *)
(* Memory is that of the C++ release/acquire fragment: a flag is the       *)
(* sequence of the values it was given, a thread has a view, that is, how  *)
(* far it has got with every flag, and may read any value not older than   *)
(* that.  A release store takes the storing thread's view along, and an    *)
(* acquire load that reads it adds that to the loading thread's view.      *)
(***************************************************************************)
EXTENDS Integers, Sequences

CONSTANTS
    a, b,           \* the two threads
    Rounds,         \* bound: how often a hands something over to b
    SpinLimit       \* bound: the number of loads in a spinning loop

ASSUME SignalAssumption == a # b /\ Rounds \in Nat /\ SpinLimit \in Nat

Thread == {a, b}
Other(t) == IF t = a THEN b ELSE a

VARIABLES
    mem,            \* all stores to a flag, in modification order
    view,           \* how much every thread knows of the stores and accesses
    accesses,       \* how often what is handed over was accessed
    known,          \* how many accesses a thread knew of after its own last one
    spin,           \* thread_squad::params::spin_wait
    tries,          \* the loads left in a thread's spinning loop
    pc

vars == <<mem, view, accesses, known, spin, tries, pc>>

Old == 0            \* T{ }
New == 1            \* toggle_value(T{ })

NoView == [flag |-> [f \in Thread |-> 1], accesses |-> 0]

Init ==
    /\ mem = [f \in Thread |-> << [val |-> Old, view |-> NoView] >>]
    /\ view = [t \in Thread |-> NoView]
    /\ accesses = 0 /\ known = [t \in Thread |-> 0]
    /\ spin \in BOOLEAN
    /\ tries = [t \in Thread |-> 0]
    /\ pc = [t \in Thread |-> IF t = a THEN "idle" ELSE "begin"]

Goto(t, l) == pc' = [pc EXCEPT ![t] = l]

----------------------------------------------------------------------------
(* Memory.                                                                 *)

Join(v, w) ==
    LET Later(m, n) == IF m < n THEN n ELSE m
    IN  [flag |-> [f \in Thread |-> Later(v.flag[f], w.flag[f])],
         accesses |-> Later(v.accesses, w.accesses)]

\* The stores to flag f that thread t may read from.
Visible(t, f) == view[t].flag[f] .. Len(mem[f])

Seeing(t, f, i) == [view[t] EXCEPT !.flag[f] = i]

LoadRelaxed(t, f, i) == view' = [view EXCEPT ![t] = Seeing(t, f, i)]
LoadAcquire(t, f, i) ==
    view' = [view EXCEPT ![t] = Join(Seeing(t, f, i), mem[f][i].view)]

Store(t, f, val, takenAlong) ==
    /\ mem' = [mem EXCEPT ![f] = Append(@, [val |-> val, view |-> takenAlong])]
    /\ LoadRelaxed(t, f, Len(mem[f]) + 1)

StoreRelaxed(t, f, val) == Store(t, f, val, NoView)

StoreRelease(t, f, val) == Store(t, f, val, Seeing(t, f, Len(mem[f]) + 1))

\* An access to what is handed over is no atomic operation: a thread that is not
\* synchronized with the accesses before it may miss some of them.
Access(t) ==
    /\ accesses' = accesses + 1
    /\ \E n \in view[t].accesses .. accesses : known' = [known EXCEPT ![t] = n + 1]
    /\ view' = [view EXCEPT ![t].accesses = accesses + 1]
    /\ UNCHANGED <<mem, spin, tries>>

----------------------------------------------------------------------------
(* What is handed over.                                                    *)

Submit  == pc[a] = "idle" /\ accesses < 3 * Rounds /\ Access(a) /\ Goto(a, "reset")
Process == pc[b] = "access" /\ Access(b) /\ Goto(b, "reset")
Collect == pc[a] = "access" /\ Access(a) /\ Goto(a, "idle")

----------------------------------------------------------------------------
(* reset and set_and_notify.                                               *)

\* A thread resets the flag it is going to wait for before it sets the other one.
Reset(t) ==
    /\ pc[t] = "reset"
    /\ StoreRelaxed(t, t, Old)
    /\ Goto(t, "check")
    /\ UNCHANGED <<accesses, known, spin, tries>>

\* The load for the assertion that the flag changes; the program ends if it fails.
Check(t) ==
    /\ pc[t] = "check"
    /\ \E i \in Visible(t, Other(t)) :
           /\ LoadRelaxed(t, Other(t), i)
           /\ Goto(t, IF mem[Other(t)][i].val = New THEN "terminated" ELSE "set")
    /\ UNCHANGED <<mem, accesses, known, spin, tries>>

\* Mistake: the flag is set with a relaxed store.
SetRelaxed(t) ==
    /\ pc[t] = "set"
    /\ StoreRelaxed(t, Other(t), New)
    /\ Goto(t, "notify")
    /\ UNCHANGED <<accesses, known, spin, tries>>

Set(t) ==
    /\ pc[t] = "set"
    /\ StoreRelease(t, Other(t), New)
    /\ Goto(t, "notify")
    /\ UNCHANGED <<accesses, known, spin, tries>>

Woken(t) == IF pc[t] = "asleep" THEN "wait" ELSE pc[t]

\* notify_one; the flag has one thread waiting for it at most.
Notify(t) ==
    /\ pc[t] = "notify"
    /\ pc' = [pc EXCEPT ![t] = "begin", ![Other(t)] = Woken(Other(t))]
    /\ UNCHANGED <<mem, view, accesses, known, spin, tries>>

----------------------------------------------------------------------------
(* wait.                                                                   *)

\* Whether the loop spins is decided by the parameters of the squad.  The loops of
\* wait_equal_exponential_backoff and wait_equal_smt differ in their number of loads
\* and in what they do in between.
Begin(t) ==
    /\ pc[t] = "begin"
    /\ IF spin THEN Goto(t, "spin") ELSE Goto(t, "wait")
    /\ tries' = [tries EXCEPT ![t] = IF spin THEN SpinLimit ELSE 0]
    /\ UNCHANGED <<mem, view, accesses, known, spin>>

Spin(t) ==
    /\ pc[t] = "spin" /\ tries[t] > 0
    /\ \E i \in Visible(t, t) :
           /\ LoadRelaxed(t, t, i)
           /\ IF mem[t][i].val # Old
              THEN Goto(t, "acquire") /\ tries' = [tries EXCEPT ![t] = 0]
              ELSE UNCHANGED pc /\ tries' = [tries EXCEPT ![t] = @ - 1]
    /\ UNCHANGED <<mem, accesses, known, spin>>

GiveUp(t) ==
    /\ pc[t] = "spin" /\ tries[t] = 0
    /\ Goto(t, "wait")
    /\ UNCHANGED <<mem, view, accesses, known, spin, tries>>

\* Mistake: the value is there, so nothing else is loaded.
AcquireNot(t) ==
    /\ pc[t] = "acquire"
    /\ Goto(t, "access")
    /\ UNCHANGED <<mem, view, accesses, known, spin, tries>>

\* The load whose value nobody looks at.
Acquire(t) ==
    /\ pc[t] = "acquire"
    /\ \E i \in Visible(t, t) : LoadAcquire(t, t, i)
    /\ Goto(t, "access")
    /\ UNCHANGED <<mem, accesses, known, spin, tries>>

\* std::atomic::wait: load and compare ...
Wait(t) ==
    /\ pc[t] = "wait"
    /\ \E i \in Visible(t, t) :
           /\ LoadAcquire(t, t, i)
           /\ Goto(t, IF mem[t][i].val # Old THEN "access" ELSE "block")
    /\ UNCHANGED <<mem, accesses, known, spin, tries>>

\* Mistake: going to sleep without comparing again.
BlockAlways(t) ==
    /\ pc[t] = "block"
    /\ LoadRelaxed(t, t, Len(mem[t]))
    /\ Goto(t, "asleep")
    /\ UNCHANGED <<mem, accesses, known, spin, tries>>

\* ... then let the system compare the newest value and put the thread to sleep ...
Block(t) ==
    /\ pc[t] = "block"
    /\ LoadRelaxed(t, t, Len(mem[t]))
    /\ Goto(t, IF mem[t][Len(mem[t])].val = Old THEN "asleep" ELSE "wait")
    /\ UNCHANGED <<mem, accesses, known, spin, tries>>

\* ... which may wake it up for no reason.
WakeSpuriously(t) ==
    /\ pc[t] = "asleep"
    /\ Goto(t, "wait")
    /\ UNCHANGED <<mem, view, accesses, known, spin, tries>>

----------------------------------------------------------------------------

Step(t) ==
    \/ Reset(t) \/ Check(t) \/ Set(t) \/ Notify(t)
    \/ Begin(t) \/ Spin(t) \/ GiveUp(t) \/ Acquire(t) \/ Wait(t) \/ Block(t)

Next ==
    \/ Submit \/ Process \/ Collect
    \/ \E t \in Thread : Step(t) \/ WakeSpuriously(t)

\* The system runs every thread that is not asleep; it wakes up nobody on its own.
Spec ==
    /\ Init /\ [][Next]_vars
    /\ WF_vars(Process) /\ WF_vars(Collect)
    /\ \A t \in Thread : WF_vars(Step(t))

----------------------------------------------------------------------------

\* set_and_notify's assertion that the flag changes holds, on weakly ordered memory,
\* too: the relaxed store of the reset is known wherever the flag is set next.
FlagsAreReset == \A t \in Thread : pc[t] # "terminated"

\* The stores to a flag come from both threads, but every store follows the one
\* before: no reset can end up after the setting it was meant to precede.
StoresAreOrdered ==
    \A t \in Thread :
        /\ pc[t] = "reset" => view[t].flag[t] = Len(mem[t])
        /\ pc[t] = "set" => view[t].flag[Other(t)] = Len(mem[Other(t)])

\* The pair of signals keeps its promise: task, results and synchronization data are
\* seen completely by the thread that waited for them, no wait returns early, and none
\* sleeps through its notification.
Promise == INSTANCE Handover
KeepsHandover == Promise!Spec

==============================================================================
