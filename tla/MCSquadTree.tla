----------------------------- MODULE MCSquadTree -----------------------------
(***************************************************************************)
(* Evaluates the wake-up tree for squads of the sizes in Sizes and every   *)
(* concurrency such a squad can be asked for.  A state is one pair (n, c); *)
(* the steps only walk through the concurrencies.                          *)
(***************************************************************************)
EXTENDS SquadTree, Blocks, FiniteSets

CONSTANT Sizes

\* One, two and three levels of a tree of breadth 8: full, nearly full and barely
\* started ones.  8 and 64 are the last sizes with one and two levels; with three,
\* 72 have blocks that do not divide evenly, 73 to 80 have not.
MCSizes   == 1 .. 80
MCUneven  == {65}

VARIABLES n, c
treeVars == <<n, c>>

TreeInit == n \in Sizes /\ c = 0

MoreConcurrency == c < n /\ c' = c + 1 /\ UNCHANGED n
Finished        == c = n /\ UNCHANGED treeVars

TreeNext == MoreConcurrency \/ Finished
TreeSpec == TreeInit /\ [][TreeNext]_treeVars

----------------------------------------------------------------------------
\* Below the root, every block is cut into blocks of equal size: the strides
\* ceil(n/8), ceil(n/64), ... divide each other.  It is so whenever n <= 64.
BlocksNest ==
    LET nest[stride \in 1 .. n] ==
            \/ stride = 1
            \/ /\ stride % NextSubstride(stride) = 0
               /\ nest[NextSubstride(stride)]
    IN  nest[NextSubstride(n)]

\* Every thread except thread 0 that takes part in a task of concurrency c is
\* notified by exactly one other participant, exactly once, and nobody notifies a
\* thread outside the task (thread_squad_impl::to_subthreads).  signalTaskAvailable_
\* is "set to 1 by controlling thread" (thread_squad.cpp:581), of which a thread has
\* one; a second one would run into set_and_notify's assertion or fork the thread
\* again, a missing one would leave it asleep.
NotifiedExactlyOnce ==
    LET lists    == [t \in 0 .. n-1 |-> ToSubthreads(n, t, c)]
        notified == FlattenSeq([t \in 1 .. c |-> lists[t-1]])
    IN  /\ \A t \in 0 .. n-1 : Range(lists[t]) \subseteq (t+1) .. (c-1)
        /\ Len(notified) = Cardinality(1 .. c-1)
        /\ Range(notified) = 1 .. c-1

\* numSubthreads_ records the stride of a block, not the number of threads in it,
\* so the last, shorter block of a block reaches into the next one.  Exactly the
\* squads whose blocks nest are free of that.
NotifiedExactlyOnceIffBlocksNest ==
    /\ BlocksNest => NotifiedExactlyOnce
    /\ c = n /\ NotifiedExactlyOnce => BlocksNest

\* All traversals agree on who is subordinate to whom.  The thread that forks u in the
\* first pass (concurrency n) is the thread that notifies it in every later task,
\* whatever its concurrency: an os_thread handle is only ever touched by one thread, and
\* pass 0 and later passes agree on who waits for whom (thread_squad.cpp:1069-1070).  And
\* from_subthreads visits exactly the threads to_subthreads visited: whoever was notified
\* is waited for, whoever was forked is joined, and nobody else.
TraversalsAgree ==
    \A t \in 0 .. n-1 :
        LET notified == ToSubthreads(n, t, c)
            awaited  == FromSubthreads(n, t, c)
        IN  /\ notified = SelectSeq(ToSubthreads(n, t, n), LAMBDA u : u < c)
            /\ Range(awaited) = Range(notified) /\ Len(awaited) = Len(notified)

\* Merging in the order of from_subthreads, every subtree merged before it is
\* waited for, combines the contributions of 0 .. c-1 from left to right: a
\* reduction whose operator is associative but not commutative comes out right.  It does
\* because every thread visits the blocks that its own consists of one after another.
MergesInThreadOrder ==
    LET merged[t \in 0 .. n-1] ==
            FoldLeft(LAMBDA acc, u : acc \o merged[u], <<t>>, FromSubthreads(n, t, c))
        size == NumSubthreads(n)
    IN  BlocksNest /\ c > 0 =>
            /\ merged[0] = Interval(0, c)
            /\ size[0] = n
            /\ \A t \in 0 .. c-1 : Covers(size, t, FromSubthreads(n, t, c), c)

==============================================================================
