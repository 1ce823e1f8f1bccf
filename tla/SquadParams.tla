----------------------------- MODULE SquadParams -----------------------------
(***************************************************************************)
(* From the parameters of a thread squad to the number of its threads and  *)
(* the hardware threads they are pinned to: thread_squad::check_params and *)
(* create, the constructor of thread_squad_impl and get_hardware_thread_id *)
(* (include/patton/thread_squad.hpp, src/thread_squad.cpp; Linux).         *)
(*                                                                         *)
(* p is a thread_squad::params, h is std::thread::hardware_concurrency(),  *)
(* which may be 0 and need not exceed all hardware thread ids.             *)
(***************************************************************************)
EXTENDS Integers, Sequences, FiniteSetsExt    \* Min

Params(nums, ids, length) ==
    [num_threads : nums, max_num_hardware_threads : nums,
     pin_to_hardware_threads : BOOLEAN,
     hardware_thread_mappings : UNION { [1 .. k -> ids] : k \in 0 .. length }]

\* Mistake: the number of mappings is compared with the default of 0, too.
check_paramsLoose(p) ==
    /\ p.num_threads >= 0 /\ p.max_num_hardware_threads >= 0
    /\ p.num_threads = 0 \/ p.max_num_hardware_threads <= p.num_threads

check_params(p) ==
    /\ p.num_threads >= 0 /\ p.max_num_hardware_threads >= 0
    /\ p.num_threads = 0 \/ p.max_num_hardware_threads <= p.num_threads
    /\ p.hardware_thread_mappings # << >> =>
           /\ p.max_num_hardware_threads <= Len(p.hardware_thread_mappings)
           /\ p.num_threads <= Len(p.hardware_thread_mappings)

\* Mistake: the number of mappings is no default.
createUnmapped(p, h) ==
    LET max == IF p.max_num_hardware_threads # 0 THEN p.max_num_hardware_threads ELSE h
    IN  [p EXCEPT !.num_threads = IF @ = 0 THEN h ELSE @,
                  !.max_num_hardware_threads = Min({max, h})]

\* The parameters with placeholders replaced.
create(p, h) ==
    LET max == IF p.max_num_hardware_threads # 0 THEN p.max_num_hardware_threads
               ELSE IF p.hardware_thread_mappings # << >>
               THEN Len(p.hardware_thread_mappings)
               ELSE h
    IN  [p EXCEPT !.num_threads = IF @ = 0 THEN h ELSE @,
                  !.max_num_hardware_threads = Min({max, h})]

\* What get_hardware_thread_id expects of the parameters.
MayPin(q) ==
    /\ q.max_num_hardware_threads > 0
    /\ \/ q.hardware_thread_mappings = << >>
       \/ q.max_num_hardware_threads <= Len(q.hardware_thread_mappings)

get_hardware_thread_id(t, q) ==
    LET subidx == t % q.max_num_hardware_threads
    IN  IF q.hardware_thread_mappings # << >>
        THEN q.hardware_thread_mappings[subidx + 1]
        ELSE subidx

\* The hardware threads the squad's threads are pinned to by the constructor.
CoreAffinity(q) == [t \in 0 .. q.num_threads - 1 |-> get_hardware_thread_id(t, q)]

\* What narrow_failfast expects of a hardware thread id, and cpu_set when a thread with
\* that affinity is forked.
MayFork(id, h) == id >= 0 /\ id < h

----------------------------------------------------------------------------

\* A squad can be created and run: it has a thread to start with, and neither the
\* constructor nor the forking of its threads runs into an expectation.
Works(p, h) ==
    LET q == create(p, h)
    IN  /\ q.num_threads > 0
        /\ q.pin_to_hardware_threads =>
               MayPin(q) /\ \A t \in DOMAIN CoreAffinity(q) : MayFork(CoreAffinity(q)[t], h)

\* The hardware threads a user asks for, by the documentation of thread_squad::params,
\* in the order in which threads are assigned to them; the placeholders resolved.
Allowed(p, h) ==
    LET listed == IF p.hardware_thread_mappings = << >>
                  THEN [k \in 1 .. h |-> k - 1]
                  ELSE p.hardware_thread_mappings
        limit  == IF p.max_num_hardware_threads = 0 THEN Len(listed)
                  ELSE p.max_num_hardware_threads
    IN  SubSeq(listed, 1, Min({limit, Len(listed), h}))

\* Parameters that thread_squad's constructor accepts work on every machine that has
\* the hardware threads they name: later expectations fail only if the number of
\* hardware threads is not known although it is needed, or if a thread is to be pinned
\* to a hardware thread whose id is not below that number.  And the threads are spread
\* over as many of the hardware threads allowed as possible.
AcceptedParamsWork(p, h) ==
    LET q    == create(p, h)
        n    == IF p.num_threads = 0 THEN h ELSE p.num_threads
        used == { Allowed(p, h)[k] : k \in 1 .. Min({n, Len(Allowed(p, h))}) }
    IN  check_params(p) =>
        /\ Works(p, h) <=>
               IF p.pin_to_hardware_threads
               THEN h > 0 /\ used \subseteq 0 .. h-1
               ELSE n > 0
        /\ p.pin_to_hardware_threads /\ Works(p, h) =>
               { CoreAffinity(q)[t] : t \in 0 .. n-1 } = used

==============================================================================
