---------------------------- MODULE SquadSyncInv ----------------------------
(***************************************************************************)
(* The inductive invariant of the synchronization within a task.  It       *)
(* describes every edge of the wake-up tree, and what the thread at its    *)
(* upper end knows of the block at its lower end.                          *)
(***************************************************************************)
EXTENDS SquadSync, Blocks

CONSTANT BlockSize  \* numSubthreads_ of every thread: how many threads its block has

\* What thread_squad.cpp relies on of to_subthreads and from_subthreads, and establishes
\* for every squad whose blocks nest (MCSquadTree): they visit the same subordinates,
\* every thread but the first has one superordinate, and from_subthreads visits blocks
\* that follow one another and make up the caller's.
ASSUME TreeAssumption ==
    /\ ToSub   \in [Thread -> [0 .. NumThreads -> Seq(Thread)]]
    /\ FromSub \in [Thread -> [0 .. NumThreads -> Seq(Thread)]]
    /\ \A t \in Thread, c \in 0 .. NumThreads :
        /\ IsInjective(ToSub[t][c]) /\ IsInjective(FromSub[t][c])
        /\ Range(FromSub[t][c]) = Range(ToSub[t][c])
        /\ Range(ToSub[t][c]) = { u \in Range(ToSub[t][NumThreads]) : u < c }
        /\ \A u \in Range(ToSub[t][c]) : t < u
    /\ \A u \in Thread \ {0} : \E t \in Thread : u \in Range(ToSub[t][NumThreads])
    /\ \A t1, t2 \in Thread :
        t1 # t2 => Range(ToSub[t1][NumThreads]) \cap Range(ToSub[t2][NumThreads]) = {}
    /\ BlockSize \in [Thread -> 1 .. NumThreads] /\ BlockSize[0] = NumThreads
    /\ \A t \in Thread : \A c \in t+1 .. NumThreads :
        Covers(BlockSize, t, FromSub[t][c], c)

----------------------------------------------------------------------------

Label == {"work", "collect", "signalCollecting", "awaitBroadcast", "broadcast",
          "signalBroadcasting"}

Types ==
    /\ width \in 0 .. NumThreads
    /\ plan \in Seq(Kind)
    /\ at \in [Thread -> Label]
    /\ left \in [Thread -> Seq(Thread)]
    /\ op \in [Thread -> Nat]
    /\ collecting \in [Thread -> {0, 1}]
    /\ broadcasting \in [Thread -> {0, 1}]
    /\ syncData \in [Thread -> Nat]
    /\ value \in [Thread -> Seq(Thread)]
    /\ result \in [Thread -> Seq(Thread)]

\* The subordinates of a thread that take part, and those its loop has still to visit.
Part(t)  == { u \in Range(ToSub[t][NumThreads]) : u < width }
Ahead(t) == Range(left[t])

(* The states of a thread as its superordinate sees them.                  *)

\* It waits in operation k for the result, after it gave its contribution.
Arrived(u, k) == /\ at[u] = "awaitBroadcast" /\ op[u] = k
                 /\ collecting[u] = 1 /\ broadcasting[u] = 0

\* The same once its signal was withdrawn.
Withdrawn(u, k) == /\ at[u] = "awaitBroadcast" /\ op[u] = k
                   /\ collecting[u] = 0 /\ broadcasting[u] = 0

\* Let go in operation k, and not out of it yet.
Going(u, k) == /\ at[u] \in {"awaitBroadcast", "broadcast", "signalBroadcasting"}
               /\ op[u] = k /\ collecting[u] = 0
               /\ at[u] = "awaitBroadcast" => broadcasting[u] = 1

\* Past operation k - 1, and not yet at the point of operation k where it waits.
Coming(u, k) ==
    /\ collecting[u] = 0
    /\ \/ at[u] = "work" /\ op[u] = k - 1
       \/ at[u] = "collect" /\ op[u] = k
       \/ at[u] = "signalCollecting" /\ op[u] = k /\ broadcasting[u] = 0

\* What has to be expected before operation k.
Due(u, k) == Going(u, k-1) \/ Coming(u, k) \/ Arrived(u, k)

----------------------------------------------------------------------------

\* What a thread knows by itself.
Local(t) ==
    /\ IsInjective(left[t])
    /\ op[t] <= Len(plan)
    /\ t >= width => op[t] = 0
    /\ at[t] # "work" => t < width /\ op[t] > 0
    /\ syncData[t] = IF /\ at[t] \in {"signalCollecting", "awaitBroadcast"}
                        /\ KindOf(t) # "synchronize"
                     THEN op[t] ELSE 0

\* Nobody waits for the root, nor for a thread that does not take part.
NotWaitedFor(t) ==
    t = 0 \/ t >= width =>
        /\ at[t] \notin {"signalCollecting", "awaitBroadcast"}
        /\ collecting[t] = 0

\* Thread t and its subordinates.
Edge(t) ==
    /\ at[t] = "work" => \A u \in Part(t) : Due(u, op[t] + 1)
    /\ at[t] = "collect" =>
        /\ Ahead(t) \subseteq Part(t)
        /\ Chained(BlockSize, left[t], width, BlockEnd(BlockSize, t, width))
        /\ \A u \in Ahead(t) : Due(u, op[t])
        /\ \A u \in Part(t) \ Ahead(t) : Arrived(u, op[t])
    /\ at[t] \in {"signalCollecting", "awaitBroadcast"} =>
        \A u \in Part(t) : Arrived(u, op[t])
    /\ at[t] \in {"broadcast", "signalBroadcasting"} =>
        /\ left[t] # << >> /\ Ahead(t) \subseteq Part(t)
        /\ \A u \in Ahead(t) :
               IF at[t] = "signalBroadcasting" /\ u = Target(t)
               THEN Withdrawn(u, op[t]) ELSE Arrived(u, op[t])
        /\ \A u \in Part(t) \ Ahead(t) : Due(u, op[t] + 1)

\* How far thread t has got in collecting its block.
Reached(t) == IF at[t] = "collect" /\ left[t] # << >> THEN Target(t)
              ELSE BlockEnd(BlockSize, t, width)

\* On the way up a thread holds the contributions of the part of its block that it has
\* reached, all of which is in the operation.
Gathered(t) ==
    \/ at[t] \in {"collect", "signalCollecting"}
    \/ at[t] = "awaitBroadcast" /\ collecting[t] = 1
    => /\ KindOf(t) # "synchronize" => value[t] = Interval(t, Reached(t))
       /\ \A v \in t .. Reached(t) - 1 : op[v] >= op[t]

\* On the way down it has the result, and everybody is in the operation.
Served(t) ==
    /\ op[t] > 0
    /\ \/ at[t] \in {"broadcast", "signalBroadcasting", "work"}
       \/ at[t] = "awaitBroadcast" /\ collecting[t] = 0
    => /\ KindOf(t) = "reduce" => value[t] = Interval(0, width)
       /\ KindOf(t) = "reduce_transform" => result[t] = Interval(0, width)
       /\ \A v \in 0 .. width-1 : op[v] >= op[t]

IInv ==
    /\ Types
    /\ \A t \in Thread :
           Local(t) /\ NotWaitedFor(t) /\ Edge(t) /\ Gathered(t) /\ Served(t)

==============================================================================
