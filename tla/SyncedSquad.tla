----------------------------- MODULE SyncedSquad -----------------------------
(***************************************************************************)
(* The fork-join engine running tasks that synchronize: ThreadSquad and    *)
(* SquadSync on the same tree and the same task.  A thread is inside       *)
(* task_.execute while it is at "run"; there it may have to wait for       *)
(* threads that the engine has still to wake up, and the engine waits for  *)
(* threads that wait in a synchronization.                                 *)
(***************************************************************************)
EXTENDS ThreadSquad

CONSTANT Plans    \* bound: the sequences of operations a task may perform

VARIABLES plan, at, left, op, collecting, broadcasting, syncData, value, result

syncVars == <<plan, at, left, op, collecting, broadcasting, syncData, value, result>>
allVars  == <<vars, syncVars>>

Sync == INSTANCE SquadSync WITH width <- task.concurrency

ASSUME PlanAssumption == Plans \subseteq Seq(Sync!Kind)

SyncedInit == Init /\ Sync!Init

\* Mistake: execute returns whatever the thread has still to do.
ExecutedAlready(t) == TRUE

\* Thread t has performed all its operations, and execute may return.
Executed(t) == t < task.concurrency => Sync!Finished(t)

\* A step of the engine.  execute must have returned before the thread leaves "run".
EngineStep(a) ==
    /\ a \in Thread /\ pc[a] = "run" => Executed(a)
    /\ Step(a)
    /\ UNCHANGED syncVars

\* A step of a synchronization, which only a thread that executes the task can take.
SyncStep(t) ==
    /\ pc[t] = "run"
    /\ UNCHANGED vars
    /\ Sync!Step(t)

\* The owner submits a function that performs the operations of some plan.
SyncedCall ==
    \/ \E c \in 1 .. NumThreads, j \in BOOLEAN, p \in Plans :
            Run(c, j) /\ Sync!StartTask(c, p)
    \/ \E j \in BOOLEAN : Run(0, j) /\ UNCHANGED syncVars
    \/ Destroy /\ UNCHANGED syncVars

SyncedStep(a) == EngineStep(a) \/ (a \in Thread /\ SyncStep(a))

SyncedNext ==
    \/ SyncedCall
    \/ \E a \in Agent : SyncedStep(a)
    \/ Freed /\ UNCHANGED syncVars

\* Every thread that can run keeps running (see ThreadSquad).
SyncedSpec ==
    /\ SyncedInit /\ [][SyncedNext]_allVars
    /\ \A a \in Agent : WF_allVars(SyncedStep(a))

----------------------------------------------------------------------------

\* Neither engine nor synchronization ever trips over a signal the other one, an
\* earlier task or an earlier pass has left behind.
NoAssertionFails == AssertionsHold /\ Sync!SyncAssertionsHold /\ Sync!SyncDataLive

\* Waking up threads hierarchically and letting them wait for each other goes
\* together: every call returns, also in the pass that creates the threads
\* (test-thread_squad.cpp, "synchronization").
SyncedCallsReturn == CallsReturn

\* By the time a call returns every participant has performed every operation of the
\* task and nobody is inside one.
EverybodySynchronized ==
    pc[Main] = "release" =>
        \A t \in Thread : /\ at[t] = "work"
                          /\ t < task.concurrency => op[t] = Len(plan)
                          /\ collecting[t] = 0 /\ syncData[t] = 0

==============================================================================
