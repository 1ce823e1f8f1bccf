----------------------------- MODULE ThreadSquad -----------------------------
(***************************************************************************)
(* The fork-join engine of patton::thread_squad (src/src/thread_squad.cpp):*)
(* the thread that owns the squad, called Main here and -1 in the code,    *)
(* hands tasks to thread 0, which passes them down the wake-up tree; every *)
(* thread runs its share, waits for its subordinates, merges their results *)
(* into its own and signals completion to its superordinate.               *)
(*                                                                         *)
(* One action is one access to a signal shared by two threads, together    *)
(* with the thread-private work up to the next one.  Atomic operations are *)
(* sequentially consistent here; every reset is followed by a release      *)
(* store of the same thread to the flag its reader waits on.               *)
(***************************************************************************)
EXTENDS Integers, Sequences, FiniteSets

CONSTANTS
    NumThreads,     \* threads in the squad
    ToSub,          \* ToSub[t][c]: whom to_subthreads(t, c, _) visits, in order
    FromSub,        \* FromSub[t][c]: whom from_subthreads(t, c, _) visits
    PassMax,        \* where next_pass clamps; numeric_limits<int>::max()
    MaxRuns         \* bound: how many tasks the owner submits

Thread == 0 .. NumThreads-1
Main   == -1
Agent  == Thread \cup {Main}

ASSUME BoundsAssumption ==
    /\ NumThreads \in Nat \ {0}
    /\ PassMax \in Nat \ {0}
    /\ MaxRuns \in Nat
    /\ ToSub   \in [Thread -> [0 .. NumThreads -> Seq(Thread)]]
    /\ FromSub \in [Thread -> [0 .. NumThreads -> Seq(Thread)]]

\* What task_ can point to: nothing, or a task, numbered so that two tasks of the
\* same concurrency can be told apart.  Task 0 is the null pointer.
Task   == [id : 0 .. MaxRuns+1, concurrency : 0 .. NumThreads, join : BOOLEAN]
NoTask == [id |-> 0, concurrency |-> 0, join |-> FALSE]

VARIABLES
    pc,             \* where every agent is
    todo,           \* the threads left to visit in an agent's current loop
    avail,          \* signalTaskAvailable_
    processed,      \* signalTaskProcessed_
    handle,         \* osThread_.have_thread_handle()
    pass,           \* pass_
    joinRequested,  \* run_thread's local variable
    ref,            \* the task run_thread's local reference is bound to
    task,           \* task_
    slot,           \* the task's subthreadData_: contributions reduced so far
    runs            \* tasks submitted so far

vars == <<pc, todo, avail, processed, handle, pass, joinRequested, ref, task,
          slot, runs>>

signals == <<avail, processed>>
locals  == <<pass, joinRequested, ref>>
shared  == <<task, slot, runs>>

\* run_thread has a program counter from its start to its return; a thread that was
\* never forked is at "none", one that has returned at "exited".  "idle" and "freed"
\* belong to the owner: between two calls, and after the squad was destroyed.
Label == {"none", "notifyReset", "notifySet", "fork", "taskWait", "run", "waitSub",
          "signalReset", "signalSet", "joinBegin", "join", "exited",
          "idle", "release", "freed"}

LoopLabel == {"notifyReset", "notifySet", "fork", "waitSub", "join"}

Init ==
    /\ pc = [a \in Agent |-> IF a = Main THEN "idle" ELSE "none"]
    /\ todo = [a \in Agent |-> << >>]
    /\ avail = [t \in Thread |-> 0]
    /\ processed = [t \in Thread |-> 0]
    /\ handle = [t \in Thread |-> FALSE]
    /\ pass = [t \in Thread |-> 0]
    /\ joinRequested = [t \in Thread |-> FALSE]
    /\ ref = [t \in Thread |-> 0]
    /\ task = NoTask
    /\ slot = [t \in Thread |-> << >>]
    /\ runs = 0

----------------------------------------------------------------------------
(* Loops over subordinate threads.                                         *)

\* The thread the agent's loop has come to.
Target(a) == Head(todo[a])

\* Agent a enters a loop over the threads in list, or skips it.
EnterLoop(a, list, loop, after) ==
    /\ todo' = [todo EXCEPT ![a] = list]
    /\ pc' = [pc EXCEPT ![a] = IF list = << >> THEN after ELSE loop]

\* Agent a is done with the first thread of its loop.
Continue(a, loop, after) == EnterLoop(a, Tail(todo[a]), loop, after)

\* Mistake: the first pass, which wakes up everybody, waits for the participants only.
NumThreadsForTaskEarly(t) ==
    IF task = NoTask \/ task.join THEN NumThreads ELSE task.concurrency

\* Mistake: every task goes to all threads.
NumThreadsForTaskAll(t) == NumThreads

\* thread_data::num_threads_for_task
NumThreadsForTask(t) ==
    IF pass[t] = 0 \/ task = NoTask \/ task.join
    THEN NumThreads
    ELSE task.concurrency

\* Where a worker goes after notifying (and, in its first pass, forking) everybody:
\* in the first pass its own task is still to be waited for.
AfterNotify(t) == IF pass[t] = 0 THEN "taskWait" ELSE "run"

----------------------------------------------------------------------------
(* The owner: thread_squad::run and transform_reduce on lvalues (j = FALSE) *)
(* and rvalues (j = TRUE), and the deleter of the squad.                    *)

\* thread_squad_impl::run up to the first access to a signal.  Without work to do
\* the call returns at once, and the squad of an rvalue is freed.
Submit(c, j, id) ==
    LET haveWork == c # 0 \/ (j /\ handle[0])
    IN  /\ pc[Main] = "idle"
        /\ IF haveWork
           THEN /\ task' = [id |-> id, concurrency |-> c, join |-> j]
                /\ slot' = [t \in Thread |-> << >>]
                /\ EnterLoop(Main, <<0>>, "notifyReset", "notifyReset")
           ELSE /\ pc' = [pc EXCEPT ![Main] = IF j THEN "freed" ELSE "idle"]
                /\ UNCHANGED <<task, slot, todo>>
        /\ UNCHANGED <<signals, handle, locals>>

\* A concurrency of -1 has already been replaced by the number of threads.
Run(c, j) ==
    /\ runs < MaxRuns
    /\ runs' = runs + 1
    /\ Submit(c, j, runs + 1)

\* thread_squad_impl_deleter runs a no-op task that asks the threads to join.
Destroy == Submit(0, TRUE, runs + 1) /\ UNCHANGED runs

\* release_task, and the squad is deleted if the task asked for a join.
Release ==
    /\ pc[Main] = "release"
    /\ task' = NoTask
    /\ EnterLoop(Main, << >>, "idle", IF task.join THEN "freed" ELSE "idle")
    /\ UNCHANGED <<signals, handle, locals, slot, runs>>

\* The squad is gone; its owner goes on without it.
Freed == pc[Main] = "freed" /\ UNCHANGED vars

----------------------------------------------------------------------------
(* Handing a task on: notify_thread, fork_thread.                          *)

\* Mistake: signalTaskProcessed_ keeps the value of the last pass.
NotifyResetForgotten(a) ==
    /\ pc[a] = "notifyReset"
    /\ pc' = [pc EXCEPT ![a] = "notifySet"]
    /\ UNCHANGED <<todo, signals, handle, locals, shared>>

NotifyReset(a) ==
    /\ pc[a] = "notifyReset"
    /\ processed' = [processed EXCEPT ![Target(a)] = 0]
    /\ pc' = [pc EXCEPT ![a] = "notifySet"]
    /\ UNCHANGED <<todo, avail, handle, locals, shared>>

\* set_and_notify(signalTaskAvailable_), after which the owner forks thread 0 if
\* there is no thread yet, and a worker its subordinates in its first pass.
NotifySet(a) ==
    /\ pc[a] = "notifySet"
    /\ avail' = [avail EXCEPT ![Target(a)] = 1]
    /\ \/ /\ IF a = Main THEN ~handle[0] ELSE pass[a] = 0
          /\ pc' = [pc EXCEPT ![a] = "fork"]
          /\ UNCHANGED todo
       \/ /\ a = Main /\ handle[0]
          /\ pc' = [pc EXCEPT ![Main] = "waitSub"]
          /\ UNCHANGED todo
       \/ /\ a # Main /\ pass[a] # 0
          /\ Continue(a, "notifyReset", AfterNotify(a))
    /\ UNCHANGED <<processed, handle, locals, shared>>

\* os_thread::fork; the new thread starts in notify_and_fork_subthreads.
Fork(a) ==
    LET u      == Target(a)
        kids   == ToSub[u][NumThreads]
        start  == IF kids = << >> THEN "taskWait" ELSE "notifyReset"
        rest   == IF a = Main THEN todo[a] ELSE Tail(todo[a])
        goOn   == IF a = Main THEN "waitSub"
                  ELSE IF rest = << >> THEN AfterNotify(a) ELSE "notifyReset"
    IN  /\ pc[a] = "fork"
        /\ handle' = [handle EXCEPT ![u] = TRUE]
        /\ todo' = [todo EXCEPT ![a] = rest, ![u] = kids]
        /\ pc' = [pc EXCEPT ![a] = goOn, ![u] = start]
        /\ UNCHANGED <<signals, locals, shared>>

----------------------------------------------------------------------------
(* A worker's pass: the body of the loop of run_thread.                    *)

\* Executing the task's function leaves a result in the thread's slot: its own index.
Transformed(t) == [slot EXCEPT ![t] = Append(slot[t], t)]

\* Mistake: the subordinate's results are put before the thread's own.
MergedBefore(t, u) == [slot EXCEPT ![t] = slot[u] \o slot[t], ![u] = << >>]

\* Merging moves the results of u to those of t, which they are reduced with.
Merged(t, u) == [slot EXCEPT ![t] = slot[t] \o slot[u], ![u] = << >>]

\* Mistake: a task that asks for a join is handed to its participants only.
TaskWaitParticipants(t) ==
    /\ pc[t] = "taskWait"
    /\ avail[t] = 1
    /\ ref' = [ref EXCEPT ![t] = task.id]
    /\ joinRequested' = [joinRequested EXCEPT ![t] = task.join]
    /\ EnterLoop(t, IF pass[t] = 0 THEN << >> ELSE ToSub[t][task.concurrency],
                 "notifyReset", "run")
    /\ UNCHANGED <<signals, handle, pass, shared>>

\* task_wait, then notify_subthreads unless this is the first pass.
TaskWait(t) ==
    /\ pc[t] = "taskWait"
    /\ avail[t] = 1
    /\ ref' = [ref EXCEPT ![t] = task.id]
    /\ joinRequested' = [joinRequested EXCEPT ![t] = task.join]
    /\ EnterLoop(t, IF pass[t] = 0 THEN << >> ELSE ToSub[t][NumThreadsForTask(t)],
                 "notifyReset", "run")
    /\ UNCHANGED <<signals, handle, pass, shared>>

\* Mistake: one thread too many takes part.
TaskRunOneMore(t) ==
    /\ pc[t] = "run"
    /\ slot' = IF t <= task.concurrency THEN Transformed(t) ELSE slot
    /\ EnterLoop(t, FromSub[t][NumThreadsForTask(t)], "waitSub", "signalReset")
    /\ UNCHANGED <<signals, handle, locals, task, runs>>

\* task_run, then wait_for_subthreads.
TaskRun(t) ==
    /\ pc[t] = "run"
    /\ slot' = IF t < task.concurrency THEN Transformed(t) ELSE slot
    /\ EnterLoop(t, FromSub[t][NumThreadsForTask(t)], "waitSub", "signalReset")
    /\ UNCHANGED <<signals, handle, locals, task, runs>>

\* Mistake: the wait is over before the subordinate is done.
WaitSubNot(t) ==
    LET u == Target(t)
    IN  /\ pc[t] = "waitSub"
        /\ slot' = IF u < task.concurrency THEN Merged(t, u) ELSE slot
        /\ Continue(t, "waitSub", "signalReset")
        /\ UNCHANGED <<signals, handle, locals, task, runs>>

\* wait_for_thread called by a worker: the results of a participant are merged.
WaitSub(t) ==
    LET u == Target(t)
    IN  /\ pc[t] = "waitSub"
        /\ processed[u] = 1
        /\ slot' = IF u < task.concurrency THEN Merged(t, u) ELSE slot
        /\ Continue(t, "waitSub", "signalReset")
        /\ UNCHANGED <<signals, handle, locals, task, runs>>

\* Mistake: signalTaskAvailable_ is left set.
SignalResetForgotten(t) ==
    /\ pc[t] = "signalReset"
    /\ ref' = [ref EXCEPT ![t] = 0]
    /\ pc' = [pc EXCEPT ![t] = "signalSet"]
    /\ UNCHANGED <<todo, signals, handle, pass, joinRequested, shared>>

\* task_signal_completion.  The reference to the task is out of scope by now.
SignalReset(t) ==
    /\ pc[t] = "signalReset"
    /\ avail' = [avail EXCEPT ![t] = 0]
    /\ ref' = [ref EXCEPT ![t] = 0]
    /\ pc' = [pc EXCEPT ![t] = "signalSet"]
    /\ UNCHANGED <<todo, processed, handle, pass, joinRequested, shared>>

\* Mistake: the pass counter is not clamped.
SignalSetUnclamped(t) ==
    /\ pc[t] = "signalSet"
    /\ processed' = [processed EXCEPT ![t] = 1]
    /\ pass' = [pass EXCEPT ![t] = pass[t] + 1]
    /\ pc' = [pc EXCEPT ![t] = IF joinRequested[t] THEN "joinBegin" ELSE "taskWait"]
    /\ UNCHANGED <<todo, avail, handle, joinRequested, ref, shared>>

\* ... and next_pass, which clamps instead of overflowing.
SignalSet(t) ==
    /\ pc[t] = "signalSet"
    /\ processed' = [processed EXCEPT ![t] = 1]
    /\ pass' = [pass EXCEPT ![t] = IF pass[t] < PassMax THEN pass[t] + 1 ELSE pass[t]]
    /\ pc' = [pc EXCEPT ![t] = IF joinRequested[t] THEN "joinBegin" ELSE "taskWait"]
    /\ UNCHANGED <<todo, avail, handle, joinRequested, ref, shared>>

\* Mistake: a thread returns without joining its subordinates.
JoinBeginNot(t) ==
    /\ pc[t] = "joinBegin"
    /\ EnterLoop(t, << >>, "join", "exited")
    /\ UNCHANGED <<signals, handle, locals, shared>>

\* join_subthreads looks at task_ once more, after completion was signaled.
JoinBegin(t) ==
    /\ pc[t] = "joinBegin"
    /\ EnterLoop(t, FromSub[t][NumThreadsForTask(t)], "join", "exited")
    /\ UNCHANGED <<signals, handle, locals, shared>>

----------------------------------------------------------------------------
(* The owner's end of a task: wait_for_thread(-1, 0) and join_thread.      *)

MainWait ==
    /\ pc[Main] = "waitSub"
    /\ processed[Target(Main)] = 1
    /\ pc' = [pc EXCEPT ![Main] = IF task.join THEN "join" ELSE "release"]
    /\ UNCHANGED <<todo, signals, handle, locals, shared>>

\* os_thread::join returns when the thread has returned.
Join(a) ==
    /\ pc[a] = "join"
    /\ pc[Target(a)] = "exited"
    /\ handle' = [handle EXCEPT ![Target(a)] = FALSE]
    /\ Continue(a, "join", IF a = Main THEN "release" ELSE "exited")
    /\ UNCHANGED <<signals, locals, shared>>

----------------------------------------------------------------------------

Worker(t) ==
    \/ TaskWait(t) \/ TaskRun(t) \/ WaitSub(t)
    \/ SignalReset(t) \/ SignalSet(t) \/ JoinBegin(t)

\* Every step of an agent that is in the middle of something.
Step(a) ==
    \/ NotifyReset(a) \/ NotifySet(a) \/ Fork(a) \/ Join(a)
    \/ a \in Thread /\ Worker(a)
    \/ a = Main /\ (MainWait \/ Release)

\* What the owner does of its own accord.
Call ==
    \/ \E c \in 0 .. NumThreads, j \in BOOLEAN : Run(c, j)
    \/ Destroy

Next == Call \/ (\E a \in Agent : Step(a)) \/ Freed

Spec == Init /\ [][Next]_vars

\* The operating system keeps running every thread that can run, and a waiting
\* thread sees a flag that stays set: the wait loops spin, yield or sleep on a
\* futex whose wake-up std::atomic::notify_one guarantees.  Nothing obliges the
\* owner to submit another task.
FairSpec == Spec /\ \A a \in Agent : WF_vars(Step(a))

----------------------------------------------------------------------------
(* What the engine has to keep to.                                         *)

TypeOK ==
    /\ pc \in [Agent -> Label]
    /\ todo \in [Agent -> Seq(Thread)]
    /\ avail \in [Thread -> 0 .. 1]
    /\ processed \in [Thread -> 0 .. 1]
    /\ handle \in [Thread -> BOOLEAN]
    /\ pass \in [Thread -> 0 .. PassMax]
    /\ joinRequested \in [Thread -> BOOLEAN]
    /\ ref \in [Thread -> 0 .. MaxRuns+1]
    /\ task \in Task
    /\ slot \in [Thread -> Seq(Thread)]
    /\ runs \in 0 .. MaxRuns
    /\ \A a \in Agent : pc[a] \in LoopLabel => todo[a] # << >>

\* No assertion of thread_squad.cpp can fail: set_and_notify never finds the flag
\* already set (line 414), a thread is forked only without and joined only with a
\* handle (os_thread::fork, join), and task_wait never wakes up without a task (line
\* 665).
AssertionsHold ==
    /\ \A a \in Agent :
        /\ pc[a] = "notifySet" => avail[Target(a)] = 0
        /\ pc[a] = "fork" => ~handle[Target(a)]
        /\ pc[a] = "join" => handle[Target(a)]
    /\ \A t \in Thread :
        /\ pc[t] = "signalSet" => processed[t] = 0
        /\ pc[t] = "taskWait" /\ avail[t] = 1 => task # NoTask

\* Between the moment a worker binds its reference to the task and the moment it
\* signals completion, and when it looks at task_ again before joining, the task
\* object on the owner's stack is still the one it was woken up for ("must not be
\* referenced after signaling completion!", run_thread).
NoDanglingTask ==
    \A t \in Thread :
        /\ ref[t] # 0 => ref[t] = task.id
        /\ pc[t] \in {"run", "waitSub", "signalReset"} => ref[t] # 0
        /\ pc[t] \in {"joinBegin", "join"} => task.join

\* When a call is about to return, every participant has executed the task exactly
\* once, and everything they produced has reached data[0] in the order of the
\* thread indices, which is what transform_reduce hands to its caller; and no thread
\* that is about to execute a transform has a result already.
ResultComplete ==
    /\ pc[Main] = "release" =>
        slot = [t \in Thread |-> IF t = 0
                                 THEN [k \in 1 .. task.concurrency |-> k - 1]
                                 ELSE << >>]
    /\ \A t \in 0 .. task.concurrency-1 : pc[t] = "run" => slot[t] = << >>

\* A call does not return while a thread still works for it: between two calls all
\* threads sleep, and no stale signal is left that could wake one up.
QuiescentBetweenCalls ==
    pc[Main] = "idle" =>
        \A t \in Thread : pc[t] \in {"none", "taskWait"} /\ avail[t] = 0

\* The squad's memory is freed only when no thread of it is alive and no handle is
\* left to join.
NothingLeftBehind ==
    pc[Main] = "freed" =>
        \A t \in Thread : pc[t] \in {"none", "exited"} /\ ~handle[t]

\* Once the threads exist, a thread beyond the concurrency of a task sleeps through
\* it: it is neither notified nor waited for.
SpareThreadsSleep ==
    pass[0] # 0 /\ task # NoTask /\ ~task.join =>
        \A t \in task.concurrency .. NumThreads-1 : pc[t] = "taskWait" /\ avail[t] = 0

\* Every call returns (test-thread_squad.cpp, "no deadlocks").
CallsReturn == pc[Main] \notin {"idle", "freed"} ~> pc[Main] \in {"idle", "freed"}

\* The engine implements the fork-join promise.  A participant has executed the
\* task when its contribution is in some slot; merging moves it, and is invisible.
Promise == INSTANCE ForkJoin WITH
    phase   <- IF pc[Main] = "idle" THEN "ready"
               ELSE IF pc[Main] = "freed" THEN "gone" ELSE "busy",
    width   <- task.concurrency,
    closing <- task.join,
    done    <- IF task = NoTask THEN {}
               ELSE UNION { {slot[t][k] : k \in 1 .. Len(slot[t])} : t \in Thread }

KeepsPromise == Promise!Spec

==============================================================================
