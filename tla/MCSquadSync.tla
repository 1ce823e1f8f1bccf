----------------------------- MODULE MCSquadSync -----------------------------
EXTENDS SquadSyncInv
CONSTANT TreeBreadth
Tree == INSTANCE SquadTree
MCToSub == [t \in 0 .. NumThreads-1 |->
                [c \in 0 .. NumThreads |-> Tree!ToSubthreads(NumThreads, t, c)]]
MCBlockSize == Tree!NumSubthreads(NumThreads)
MCFromSub == [t \in 0 .. NumThreads-1 |->
                [c \in 0 .. NumThreads |-> Tree!FromSubthreads(NumThreads, t, c)]]
\* Every operation after every other one, within a task and across tasks.
MCPlans == {<<"synchronize", "reduce">>,
            <<"reduce", "reduce_transform">>,
            <<"reduce_transform", "synchronize">>,
            <<"reduce">>}
==============================================================================
