--------------------------- MODULE ThreadSquadInv ---------------------------
(***************************************************************************)
(* The inductive invariant of the fork-join engine.  It describes every    *)
(* edge of the wake-up tree: what state a thread may be in, given where    *)
(* its superordinate is.                                                   *)
(***************************************************************************)
EXTENDS ThreadSquad, Blocks

CONSTANT BlockSize  \* numSubthreads_ of every thread: how many threads its block has

\* The threads to_subthreads and from_subthreads visit form a tree rooted at thread
\* 0 in which superordinates have smaller indices, the same tree for every task.
\* thread_squad.cpp relies on it and establishes it for every squad whose blocks
\* nest, in particular for at most 64 threads (MCSquadTree).
ASSUME TreeAssumption ==
    /\ \A t \in Thread, c \in 0 .. NumThreads :
        /\ IsInjective(ToSub[t][c]) /\ IsInjective(FromSub[t][c])
        /\ Range(FromSub[t][c]) = Range(ToSub[t][c])
        /\ Range(ToSub[t][c]) = { u \in Range(ToSub[t][NumThreads]) : u < c }
        /\ \A u \in Range(ToSub[t][c]) : t < u
    /\ \A u \in Thread \ {0} : \E t \in Thread : u \in Range(ToSub[t][NumThreads])
    /\ \A t1, t2 \in Thread :
        t1 # t2 => Range(ToSub[t1][NumThreads]) \cap Range(ToSub[t2][NumThreads]) = {}

\* from_subthreads visits the blocks that make up the caller's, in order.
ASSUME BlockAssumption ==
    /\ BlockSize \in [Thread -> 1 .. NumThreads] /\ BlockSize[0] = NumThreads
    /\ \A t \in Thread : \A c \in t+1 .. NumThreads :
           Covers(BlockSize, t, FromSub[t][c], c)

----------------------------------------------------------------------------

\* The subordinates of a thread, those that take part in the current pass, and those
\* its current loop has still to visit.
Kids(t)  == Range(ToSub[t][NumThreads])
Part(t)  == { u \in Kids(t) : u < NumThreadsForTask(t) }
Ahead(a) == Range(todo[a])

(* The states of a thread as its superordinate sees them.                  *)

\* Not yet forked.
Fresh(u) == pc[u] = "none" /\ ~handle[u] /\ avail[u] = 0 /\ pass[u] = 0

\* Waiting for a task it has not been notified of.
Asleep(u) == pc[u] = "taskWait" /\ handle[u] /\ avail[u] = 0 /\ pass[u] # 0

\* Done with its last task, and not yet joined.
Leaving(u) == pc[u] \in {"joinBegin", "join", "exited"} /\ handle[u] /\ avail[u] = 0

\* Joined.
Left(u) == pc[u] = "exited" /\ ~handle[u] /\ avail[u] = 0

\* Notified, and not yet done.
Active(u) ==
    /\ handle[u] /\ processed[u] = 0
    /\ \/ /\ pc[u] \in {"notifyReset", "notifySet", "fork", "taskWait", "run",
                        "waitSub", "signalReset"}
          /\ avail[u] = 1
       \/ pc[u] = "signalSet" /\ avail[u] = 0

\* Notified for the first time, and about to be forked.
Armed(u) == /\ pc[u] = "none" /\ ~handle[u] /\ pass[u] = 0
            /\ avail[u] = 1 /\ processed[u] = 0

\* Where a thread ends up after the current task.
Parked(u) == IF task.join THEN Leaving(u) ELSE Asleep(u)

\* Notified, and to be waited for.
Engaged(u) == Active(u) \/ (processed[u] = 1 /\ Parked(u))

----------------------------------------------------------------------------

\* The owner and thread 0.
RootEdge ==
    /\ pc[Main] \in LoopLabel => todo[Main] = <<0>>
    /\ pc[Main] \in {"idle", "notifyReset"} => Fresh(0) \/ Asleep(0)
    /\ pc[Main] = "notifySet" => (Fresh(0) \/ Asleep(0)) /\ processed[0] = 0
    /\ pc[Main] = "fork" => Armed(0)
    /\ pc[Main] = "waitSub" => Engaged(0)
    /\ pc[Main] = "join" => Leaving(0)
    /\ pc[Main] = "release" => IF task.join THEN Left(0) ELSE Asleep(0)
    /\ pc[Main] = "freed" => Fresh(0) \/ Left(0)

\* The first pass of thread t, and a thread that has not been forked.
FirstPassEdge(t) ==
    /\ pc[t] = "none" => \A u \in Kids(t) : Fresh(u)
    /\ pc[t] \in {"notifyReset", "notifySet", "fork"} /\ pass[t] = 0 =>
        /\ Ahead(t) \subseteq Kids(t)
        /\ \A u \in Kids(t) \ Ahead(t) : Engaged(u)
        /\ \A u \in Ahead(t) : u # Target(t) => Fresh(u)
        /\ IF pc[t] = "fork" THEN Armed(Target(t)) ELSE Fresh(Target(t))
    /\ pc[t] = "taskWait" /\ pass[t] = 0 => \A u \in Kids(t) : Engaged(u)

\* A flag is raised only after its counterpart was lowered.
LoweredFirst(t) == pc[t] = "notifySet" => processed[Target(t)] = 0

\* Thread t between two tasks, and handing on a task in a later pass.
LaterPassEdge(t) ==
    /\ pc[t] = "taskWait" /\ pass[t] # 0 => \A u \in Kids(t) : Asleep(u)
    /\ pc[t] \in {"notifyReset", "notifySet"} /\ pass[t] # 0 =>
        /\ Ahead(t) \subseteq Part(t)
        /\ \A u \in Ahead(t) : Asleep(u)
        /\ \A u \in Part(t) \ Ahead(t) : Engaged(u)
        /\ \A u \in Kids(t) \ Part(t) : Asleep(u)

\* Thread t running its share of a task and waiting for the others.
TaskEdge(t) ==
    /\ pc[t] = "run" =>
        /\ \A u \in Part(t) : Engaged(u)
        /\ \A u \in Kids(t) \ Part(t) : Asleep(u)
    /\ pc[t] = "waitSub" =>
        /\ Ahead(t) \subseteq Part(t)
        /\ \A u \in Ahead(t) : Engaged(u)
        /\ \A u \in Kids(t) \ Ahead(t) : Parked(u)
    /\ pc[t] \in {"signalReset", "signalSet"} => \A u \in Kids(t) : Parked(u)

\* Thread t joining its subordinates.
JoinEdge(t) ==
    /\ pc[t] = "joinBegin" => \A u \in Kids(t) : Leaving(u)
    /\ pc[t] = "join" =>
        /\ Ahead(t) \subseteq Kids(t)
        /\ \A u \in Ahead(t) : Leaving(u)
        /\ \A u \in Kids(t) \ Ahead(t) : Left(u)
    /\ pc[t] = "exited" => \A u \in Kids(t) : Left(u)

Edges(t) ==
    /\ FirstPassEdge(t) /\ LoweredFirst(t) /\ LaterPassEdge(t)
    /\ TaskEdge(t) /\ JoinEdge(t)

\* The states of a thread are those its superordinate knows.
Shape(t) == Fresh(t) \/ Armed(t) \/ Asleep(t) \/ Active(t) \/ Leaving(t) \/ Left(t)

\* What a thread knows by itself.
Local(t) ==
    /\ IsInjective(todo[t])
    /\ pc[t] = "fork" => pass[t] = 0
    /\ pc[t] \in {"joinBegin", "join", "exited"} => pass[t] # 0
    /\ pc[t] = "none" => pass[t] = 0
    /\ pc[t] = "signalSet" => joinRequested[t] = task.join
    /\ \/ pc[t] \in {"run", "waitSub", "signalReset"}
       \/ pc[t] \in {"notifyReset", "notifySet"} /\ pass[t] # 0
       => ref[t] = task.id /\ joinRequested[t] = task.join
    /\ pc[t] \in {"none", "fork", "taskWait", "signalSet", "joinBegin", "join", "exited"}
       => ref[t] = 0
    /\ pc[t] \in {"notifyReset", "notifySet"} /\ pass[t] = 0 => ref[t] = 0
    /\ pc[t] \in {"joinBegin", "join"} => task.join
    /\ pc[t] \notin {"idle", "release", "freed"}

\* The task pointer and the owner.
TaskHeld ==
    /\ pc[Main] \in {"idle", "freed"} <=> task = NoTask
    /\ task # NoTask => task.id # 0
    /\ pc[Main] \in {"idle", "notifyReset", "notifySet", "fork", "waitSub", "join",
                     "release", "freed"}
    /\ pc[Main] = "join" => task.join

IInv ==
    /\ TypeOK
    /\ TaskHeld
    /\ RootEdge
    /\ \A t \in Thread : Shape(t) /\ Local(t) /\ Edges(t)


(* What the passes and the concurrency of a task add to it.                *)

\* A thread is past its first pass only when its subordinates are, a task that asks
\* for no join has participants, and no thread has returned while such a task runs.
SpareInv ==
    /\ \A t \in Thread : \A u \in Kids(t) : pass[t] # 0 => pass[u] # 0
    /\ task # NoTask /\ ~task.join => task.concurrency # 0
    /\ task # NoTask /\ ~task.join => \A t \in Thread : pc[t] # "exited"


(* Where the results of a task are.                                        *)

\* One past the last participant in the block of thread t, and the first of thread x and
\* the end of the participants.
End(t)    == BlockEnd(BlockSize, t, task.concurrency)
Before(x) == IF x < task.concurrency THEN x ELSE task.concurrency

\* The subordinates that have been notified and whose results are still to be fetched.
Pending(t) ==
    IF pc[t] \in {"notifyReset", "notifySet", "fork"} THEN Kids(t) \ Ahead(t)
    ELSE IF pc[t] = "run" \/ (pc[t] = "taskWait" /\ pass[t] = 0) THEN Kids(t)
    ELSE IF pc[t] = "waitSub" THEN Ahead(t)
    ELSE {}

\* Waiting for the next task, or past its last one.
BetweenTasks(t) == pc[t] \in {"taskWait", "joinBegin", "join", "exited"}
AtRest(t)       == BetweenTasks(t) /\ (pc[t] = "taskWait" => avail[t] = 0)

\* While thread t is busy with a task, its slot holds what it has got so far.
OwnData(t) ==
    /\ pc[t] \in {"none", "notifyReset", "notifySet", "fork", "run"} => slot[t] = << >>
    /\ pc[t] = "waitSub" =>
        /\ slot[t] = Interval(t, Before(Target(t)))
        /\ Chained(BlockSize, todo[t], NumThreadsForTask(t),
                   BlockEnd(BlockSize, t, NumThreadsForTask(t)))
    /\ pc[t] \in {"signalReset", "signalSet"} => slot[t] = Interval(t, End(t))

\* Afterwards it holds the results of the whole block until they are fetched.
EdgeData(t, u) ==
    u < task.concurrency /\ BetweenTasks(u) =>
        slot[u] = IF u \in Pending(t) /\ processed[u] = 1
                  THEN Interval(u, End(u)) ELSE << >>

RootData ==
    0 < task.concurrency /\ BetweenTasks(0) =>
        slot[0] = IF \/ pc[Main] = "waitSub" /\ processed[0] = 1
                     \/ pc[Main] \in {"join", "release"}
                  THEN Interval(0, End(0)) ELSE << >>

\* Whoever has handed over results is at rest, and has handed them to where those of its
\* superordinate are.
Handed(t) ==
    \A x \in Range(slot[t]) :
        /\ x >= t
        /\ x # t => AtRest(x) /\ \A p \in Thread : x \in Kids(p) => p \in Range(slot[t])

DataInv ==
    task # NoTask =>
        /\ RootData
        /\ \A t \in Thread :
            /\ IF t < task.concurrency THEN OwnData(t) ELSE slot[t] = << >>
            /\ \A u \in Kids(t) : EdgeData(t, u)
            /\ Handed(t)

==============================================================================
