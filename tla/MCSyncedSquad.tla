---------------------------- MODULE MCSyncedSquad ----------------------------
EXTENDS SyncedSquad
CONSTANT TreeBreadth
Tree == INSTANCE SquadTree
MCToSub == [t \in 0 .. NumThreads-1 |->
                [c \in 0 .. NumThreads |-> Tree!ToSubthreads(NumThreads, t, c)]]
MCFromSub == [t \in 0 .. NumThreads-1 |->
                [c \in 0 .. NumThreads |-> Tree!FromSubthreads(NumThreads, t, c)]]
MCPlans == {<<"synchronize", "reduce_transform">>, <<"reduce">>}
==============================================================================
