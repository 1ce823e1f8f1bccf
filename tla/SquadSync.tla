------------------------------ MODULE SquadSync ------------------------------
(***************************************************************************)
(* Synchronization of the threads that execute one task:                   *)
(* task_context::synchronize, reduce and reduce_transform, and             *)
(* synchronize_collect / synchronize_broadcast of the squad.  Contributions*)
(* travel up the wake-up tree and the result travels down, through signals *)
(* of their own and through a pointer, syncData_, to an object on the stack*)
(* of the subordinate thread.                                              *)
(*                                                                         *)
(* One action is one access to a shared signal with the private work that  *)
(* follows it.  The signals outlive the task: what one task leaves in them *)
(* is what the next one, of another concurrency, starts with.              *)
(***************************************************************************)
EXTENDS Integers, Sequences

CONSTANTS
    NumThreads,
    ToSub,          \* as in ThreadSquad
    FromSub,
    Plans           \* bound: the sequences of operations a task may perform

Thread == 0 .. NumThreads-1
Kind   == {"synchronize", "reduce", "reduce_transform"}

ASSUME PlansAssumption ==
    /\ NumThreads \in Nat \ {0}
    /\ Plans \subseteq Seq(Kind)

VARIABLES
    width,          \* concurrency of the current task
    plan,           \* the operations its threads perform
    at,             \* where every thread is; at "work" between two operations
    left,           \* the subordinates left to visit in a thread's loop
    op,             \* the operation a thread is in, or has last been in
    collecting,     \* signalCollecting_
    broadcasting,   \* signalBroadcasting_
    syncData,       \* syncData_: 0, or the operation whose data it points to
    value,          \* data.value of a thread's synchronizer
    result          \* data.result; << >> is an empty std::optional

vars == <<width, plan, at, left, op, collecting, broadcasting, syncData, value,
          result>>

job     == <<width, plan>>
signals == <<collecting, broadcasting>>
data    == <<value, result>>

Init ==
    /\ width = 0 /\ plan = << >>
    /\ at = [t \in Thread |-> "work"]
    /\ left = [t \in Thread |-> << >>]
    /\ op = [t \in Thread |-> 0]
    /\ collecting = [t \in Thread |-> 0]
    /\ broadcasting = [t \in Thread |-> 0]
    /\ syncData = [t \in Thread |-> 0]
    /\ value = [t \in Thread |-> << >>]
    /\ result = [t \in Thread |-> << >>]

----------------------------------------------------------------------------

Target(t)  == Head(left[t])
KindOf(t)  == plan[op[t]]

\* Thread t goes to p with the threads in list to visit, or past p when there is
\* none.
Visit(t, p, list, past) ==
    /\ left' = [left EXCEPT ![t] = list]
    /\ at' = [at EXCEPT ![t] = IF list = << >> THEN past ELSE p]

\* Every participant of the last task is through: the squad runs another one.
Finished(t) == at[t] = "work" /\ op[t] = Len(plan)

StartTask(c, p) ==
    /\ \A t \in 0 .. width-1 : Finished(t)
    /\ width' = c /\ plan' = p
    /\ op' = [t \in Thread |-> 0]
    /\ value' = [t \in Thread |-> << >>]
    /\ result' = [t \in Thread |-> << >>]
    /\ UNCHANGED <<at, left, signals, syncData>>

\* The call of synchronize, reduce or reduce_transform: the synchronizer holds the
\* thread's own contribution, its index, and the thread starts collecting.
Enter(t) ==
    /\ t < width /\ at[t] = "work" /\ op[t] < Len(plan)
    /\ op' = [op EXCEPT ![t] = op[t] + 1]
    /\ value' = [value EXCEPT ![t] = <<t>>]
    /\ result' = [result EXCEPT ![t] = << >>]
    /\ at' = [at EXCEPT ![t] = "collect"]
    /\ left' = [left EXCEPT ![t] = FromSub[t][width]]
    /\ UNCHANGED <<job, signals, syncData>>

\* Mistake: the subordinate's value becomes the left operand.
CollectPrepending(t) ==
    LET u == Target(t)
    IN  /\ at[t] = "collect" /\ left[t] # << >>
        /\ collecting[u] = 1
        /\ value' = IF KindOf(t) = "synchronize" THEN value
                    ELSE [value EXCEPT ![t] = value[u] \o value[t]]
        /\ left' = [left EXCEPT ![t] = Tail(left[t])]
        /\ UNCHANGED <<job, at, op, signals, syncData, result>>

\* collect_from_thread: wait for the subordinate, and reduce what it points to.  A
\* plain synchronize has no data: its collect does nothing.
Collect(t) ==
    LET u == Target(t)
    IN  /\ at[t] = "collect" /\ left[t] # << >>
        /\ collecting[u] = 1
        /\ value' = IF KindOf(t) = "synchronize" THEN value
                    ELSE [value EXCEPT ![t] = value[t] \o value[u]]
        /\ left' = [left EXCEPT ![t] = Tail(left[t])]
        /\ UNCHANGED <<job, at, op, signals, syncData, result>>

\* Mistake: signalBroadcasting_ keeps its value from the last operation.
ExposeOnly(t) ==
    /\ at[t] = "collect" /\ left[t] = << >> /\ t > 0
    /\ syncData' = [syncData EXCEPT ![t] = IF KindOf(t) = "synchronize" THEN 0 ELSE op[t]]
    /\ at' = [at EXCEPT ![t] = "signalCollecting"]
    /\ UNCHANGED <<job, left, op, signals, data>>

\* The superordinate is given access to the synchronizer; sync_data of a plain
\* synchronize is a null pointer.
Expose(t) ==
    /\ at[t] = "collect" /\ left[t] = << >> /\ t > 0
    /\ syncData' = [syncData EXCEPT ![t] = IF KindOf(t) = "synchronize" THEN 0 ELSE op[t]]
    /\ broadcasting' = [broadcasting EXCEPT ![t] = 0]
    /\ at' = [at EXCEPT ![t] = "signalCollecting"]
    /\ UNCHANGED <<job, left, op, collecting, data>>

SignalCollecting(t) ==
    /\ at[t] = "signalCollecting"
    /\ collecting' = [collecting EXCEPT ![t] = 1]
    /\ at' = [at EXCEPT ![t] = "awaitBroadcast"]
    /\ UNCHANGED <<job, left, op, broadcasting, syncData, data>>

\* Mistake: the synchronizer leaves the scope before the result has arrived.
AwaitBroadcastNot(t) ==
    /\ at[t] = "awaitBroadcast"
    /\ syncData' = [syncData EXCEPT ![t] = 0]
    /\ Visit(t, "broadcast", ToSub[t][width], "work")
    /\ UNCHANGED <<job, op, signals, data>>

\* Mistake: syncData_ is left dangling.
AwaitBroadcastDangling(t) ==
    /\ at[t] = "awaitBroadcast"
    /\ broadcasting[t] = 1
    /\ Visit(t, "broadcast", ToSub[t][width], "work")
    /\ UNCHANGED <<job, op, signals, syncData, data>>

AwaitBroadcast(t) ==
    /\ at[t] = "awaitBroadcast"
    /\ broadcasting[t] = 1
    /\ syncData' = [syncData EXCEPT ![t] = 0]
    /\ Visit(t, "broadcast", ToSub[t][width], "work")
    /\ UNCHANGED <<job, op, signals, data>>

\* Thread 0 has everything: transformFunc runs, and the way down begins.
Transform(t) ==
    /\ at[t] = "collect" /\ left[t] = << >> /\ t = 0
    /\ result' = IF KindOf(t) = "reduce_transform"
                 THEN [result EXCEPT ![t] = value[t]] ELSE result
    /\ Visit(t, "broadcast", ToSub[t][width], "work")
    /\ UNCHANGED <<job, op, signals, syncData, value>>

\* Mistake: nobody withdraws the subordinate's signal.
BroadcastOnly(t) ==
    LET u == Target(t)
    IN  /\ at[t] = "broadcast"
        /\ value' = IF KindOf(t) = "reduce" THEN [value EXCEPT ![u] = value[t]] ELSE value
        /\ result' = IF KindOf(t) = "reduce_transform"
                     THEN [result EXCEPT ![u] = result[t]] ELSE result
        /\ at' = [at EXCEPT ![t] = "signalBroadcasting"]
        /\ UNCHANGED <<job, left, op, signals, syncData>>

\* broadcast_to_thread: hand the result over, and withdraw the subordinate's signal
\* on its behalf ...
Broadcast(t) ==
    LET u == Target(t)
    IN  /\ at[t] = "broadcast"
        /\ value' = IF KindOf(t) = "reduce" THEN [value EXCEPT ![u] = value[t]] ELSE value
        /\ result' = IF KindOf(t) = "reduce_transform"
                     THEN [result EXCEPT ![u] = result[t]] ELSE result
        /\ collecting' = [collecting EXCEPT ![u] = 0]
        /\ at' = [at EXCEPT ![t] = "signalBroadcasting"]
        /\ UNCHANGED <<job, left, op, broadcasting, syncData>>

\* Mistake: only one subordinate is let go.
SignalBroadcastingOnce(t) ==
    /\ at[t] = "signalBroadcasting"
    /\ broadcasting' = [broadcasting EXCEPT ![Target(t)] = 1]
    /\ Visit(t, "broadcast", << >>, "work")
    /\ UNCHANGED <<job, op, collecting, syncData, data>>

\* ... then let it go.  After the last one the operation returns.
SignalBroadcasting(t) ==
    /\ at[t] = "signalBroadcasting"
    /\ broadcasting' = [broadcasting EXCEPT ![Target(t)] = 1]
    /\ Visit(t, "broadcast", Tail(left[t]), "work")
    /\ UNCHANGED <<job, op, collecting, syncData, data>>

----------------------------------------------------------------------------

Step(t) ==
    \/ Enter(t) \/ Collect(t) \/ Expose(t) \/ SignalCollecting(t)
    \/ AwaitBroadcast(t) \/ Transform(t) \/ Broadcast(t) \/ SignalBroadcasting(t)

Next ==
    \/ \E c \in 1 .. NumThreads, p \in Plans : StartTask(c, p)
    \/ \E t \in Thread : Step(t)

Spec == Init /\ [][Next]_vars

\* Threads keep running, and "it is the responsibility of the task to ensure that
\* synchronization operations [...] are executed by all participating threads
\* unconditionally and in the same order" (thread_squad.hpp).
FairSpec == Spec /\ \A t \in Thread : WF_vars(Step(t))

----------------------------------------------------------------------------

\* set_and_notify never finds the flag already set (thread_squad.cpp:414): neither by
\* an earlier operation nor by an earlier task; and a result is there before it is
\* handed on or returned (std::optional::value would throw, and terminate).
SyncAssertionsHold ==
    \A t \in Thread :
        /\ at[t] = "signalCollecting" => collecting[t] = 0
        /\ at[t] = "signalBroadcasting" => broadcasting[Target(t)] = 0
        /\ at[t] \in {"broadcast", "work"} /\ op[t] > 0
              /\ KindOf(t) = "reduce_transform" => result[t] # << >>

\* Whenever a thread reads or writes through the pointer of a subordinate, the
\* pointer leads to the synchronizer of the same operation, which its owner has not
\* left yet.
SyncDataLive ==
    \A t \in Thread :
        /\ \/ at[t] = "collect" /\ left[t] # << >> /\ collecting[Target(t)] = 1
           \/ at[t] = "broadcast"
        /\ KindOf(t) # "synchronize"
        => /\ syncData[Target(t)] = op[t] /\ op[Target(t)] = op[t]
           /\ at[Target(t)] = "awaitBroadcast"

\* Every participant gets the contributions of all participants, reduced in the order
\* of the thread indices, however the operations before went.
EverybodyGetsTheReduction ==
    \A t \in 0 .. width-1 :
        at[t] = "work" /\ op[t] > 0 =>
            LET inOrder == [k \in 1 .. width |-> k - 1]
            IN  /\ KindOf(t) = "reduce" => value[t] = inOrder
                /\ KindOf(t) = "reduce_transform" => result[t] = inOrder

\* A task leaves nothing behind that could confuse the next one.
NothingPending ==
    (\A t \in 0 .. width-1 : Finished(t)) =>
        \A t \in Thread : collecting[t] = 0 /\ syncData[t] = 0

\* Every synchronization comes to an end.
SynchronizationEnds == \A t \in Thread : at[t] = "collect" ~> at[t] = "work"

\* Threads meet in the operations, and only leave them together.
Meeting == INSTANCE AllReduce WITH
    meetings <- Len(plan),
    entered  <- op,
    left     <- [t \in Thread |-> IF at[t] = "work" THEN op[t] ELSE op[t] - 1]

KeepsMeeting == Meeting!Spec

==============================================================================
