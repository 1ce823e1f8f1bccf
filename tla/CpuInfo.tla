------------------------------- MODULE CpuInfo -------------------------------
(***************************************************************************)
(* The lock-free lazy initialization behind physical_concurrency() and     *)
(* physical_core_ids() (src/src/cpuinfo.cpp, the Linux branch).  Any number*)
(* of threads may make the first call at the same time: each one parses    *)
(* /proc/cpuinfo into a vector of its own, and one vector is kept.         *)
(*                                                                         *)
(* One action is one access to an atomic variable.  The atomics are        *)
(* modelled sequentially consistent although the code uses relaxed loads,  *)
(* so whatever goes wrong here goes wrong on every machine.                *)
(***************************************************************************)
EXTENDS Integers

CONSTANTS
    Thread,
    Cores,      \* how many distinct cores /proc/cpuinfo lists
    Null        \* the null pointer; a vector is named after the thread that filled it

\* How many that is, and what their ids are, is module ProcCpuinfo's subject.  A machine
\* whose /proc/cpuinfo lists no core ids at all is left out: there Cores is 0, contrary to
\* what is expected of it (SomeCoreIsFound), and the code cannot tell that from "not
\* initialized".
ASSUME CoresAssumption == Cores \in Nat \ {0} /\ Null \notin Thread

VARIABLES
    physical_concurrency,   \* the atomic count, 0 until initialized
    core_thread_ids_ptr,    \* the atomic pointer
    core_thread_ids,        \* whose vector the static variable holds
    alive,                  \* the vectors that have not been destroyed
    pc,                     \* where every thread is
    call,                   \* which of the two functions it has called (last)
    count,                  \* its local physicalConcurrency
    ptr                     \* its local coreThreadIdsPtr

vars == <<physical_concurrency, core_thread_ids_ptr, core_thread_ids, alive, pc, call,
          count, ptr>>

global == <<physical_concurrency, core_thread_ids_ptr, core_thread_ids, alive>>
local  == <<call, count, ptr>>

Init ==
    /\ physical_concurrency = 0 /\ core_thread_ids_ptr = Null
    /\ core_thread_ids = Null /\ alive = {}
    /\ pc = [t \in Thread |-> "done"] /\ call = [t \in Thread |-> "none"]
    /\ count = [t \in Thread |-> 0] /\ ptr = [t \in Thread |-> Null]

Goto(t, l) == pc' = [pc EXCEPT ![t] = l]

----------------------------------------------------------------------------
(* The two functions, up to init_cpu_info.                                 *)

Call(t, f) ==
    /\ pc[t] = "done"
    /\ call' = [call EXCEPT ![t] = f]
    /\ count' = [count EXCEPT ![t] = physical_concurrency]
    /\ ptr' = [ptr EXCEPT ![t] = Null]
    /\ Goto(t, IF f = "physical_core_ids" THEN "loadPtr"
               ELSE IF physical_concurrency = 0 THEN "guard" ELSE "done")
    /\ UNCHANGED global

LoadPtr(t) ==
    /\ pc[t] = "loadPtr"
    /\ ptr' = [ptr EXCEPT ![t] = core_thread_ids_ptr]
    /\ Goto(t, IF count[t] = 0 \/ core_thread_ids_ptr = Null THEN "guard" ELSE "done")
    /\ UNCHANGED <<global, call, count>>

----------------------------------------------------------------------------
(* init_cpu_info.                                                          *)

\* initFunc runs only if the count is still 0, whatever the caller found missing.
Guard(t) ==
    /\ pc[t] = "guard"
    /\ Goto(t, IF physical_concurrency = 0 THEN "parse" ELSE "reload")
    /\ UNCHANGED <<global, local>>

\* Parsing fills a local vector; then the count is published ...
Parse(t) ==
    /\ pc[t] = "parse"
    /\ alive' = alive \cup {t}
    /\ physical_concurrency' = Cores
    /\ Goto(t, "publish")
    /\ UNCHANGED <<core_thread_ids_ptr, core_thread_ids, local>>

\* Mistake: the pointer is stored without looking.
PublishAlways(t) ==
    /\ pc[t] = "publish"
    /\ core_thread_ids_ptr' = t
    /\ Goto(t, "keep")
    /\ UNCHANGED <<alive, physical_concurrency, core_thread_ids, local>>

\* ... then the pointer, by compare_exchange_strong.  A thread that comes too late
\* destroys its vector on the way out.
Publish(t) ==
    /\ pc[t] = "publish"
    /\ \/ /\ core_thread_ids_ptr = Null
          /\ core_thread_ids_ptr' = t
          /\ Goto(t, "keep")
          /\ UNCHANGED alive
       \/ /\ core_thread_ids_ptr # Null
          /\ alive' = alive \ {t}
          /\ Goto(t, "reload")
          /\ UNCHANGED core_thread_ids_ptr
    /\ UNCHANGED <<physical_concurrency, core_thread_ids, local>>

\* The winner moves its vector to the static variable; the elements stay where they
\* are.  A vector that was there before would be destroyed.
Keep(t) ==
    /\ pc[t] = "keep"
    /\ core_thread_ids' = t
    /\ alive' = alive \ {core_thread_ids}
    /\ Goto(t, "reload")
    /\ UNCHANGED <<physical_concurrency, core_thread_ids_ptr, local>>

----------------------------------------------------------------------------
(* The two functions, after init_cpu_info.                                 *)

\* Mistake: the caller goes on with what it has read before.
ReloadNot(t) ==
    /\ pc[t] = "reload"
    /\ Goto(t, "done")
    /\ UNCHANGED <<global, local>>

Reload(t) ==
    /\ pc[t] = "reload"
    /\ count' = [count EXCEPT ![t] = physical_concurrency]
    /\ Goto(t, IF call[t] = "physical_core_ids" THEN "reloadPtr" ELSE "done")
    /\ UNCHANGED <<global, call, ptr>>

ReloadPtr(t) ==
    /\ pc[t] = "reloadPtr"
    /\ ptr' = [ptr EXCEPT ![t] = core_thread_ids_ptr]
    /\ Goto(t, "done")
    /\ UNCHANGED <<global, call, count>>

----------------------------------------------------------------------------

Next ==
    \E t \in Thread :
        \/ \E f \in {"physical_concurrency", "physical_core_ids"} : Call(t, f)
        \/ LoadPtr(t) \/ Guard(t) \/ Parse(t) \/ Publish(t) \/ Keep(t)
        \/ Reload(t) \/ ReloadPtr(t)

Spec == Init /\ [][Next]_vars

----------------------------------------------------------------------------

Returned(t, f) == pc[t] = "done" /\ call[t] = f

\* Both functions know the number of cores when they return, no matter who else was
\* initializing: physical_concurrency() never reports 0, and the span has that size.
CountIsKnown ==
    \A t \in Thread : pc[t] = "done" /\ call[t] # "none" => count[t] = Cores

\* A span that was handed out is never left dangling: the vector it points into is
\* the one that is kept, also when another thread lost the race or comes later.
SpansStayValid ==
    \A t \in Thread : Returned(t, "physical_core_ids") /\ ptr[t] # Null =>
        ptr[t] \in alive

\* "Returns a list of thread ids, where each thread is situated on a distinct physical
\* core" (include/patton/thread.hpp:24), on a system that supports thread affinity: the
\* span of physical_concurrency() elements points to elements.
SpanPointsToIds ==
    \A t \in Thread : Returned(t, "physical_core_ids") /\ count[t] > 0 => ptr[t] # Null

==============================================================================
