--------------------------- MODULE MCThreadSquad ---------------------------
EXTENDS ThreadSquadInv
CONSTANT TreeBreadth
Tree == INSTANCE SquadTree
MCToSub == [t \in 0 .. NumThreads-1 |->
                [c \in 0 .. NumThreads |-> Tree!ToSubthreads(NumThreads, t, c)]]
MCBlockSize == Tree!NumSubthreads(NumThreads)
MCFromSub == [t \in 0 .. NumThreads-1 |->
                [c \in 0 .. NumThreads |-> Tree!FromSubthreads(NumThreads, t, c)]]
==============================================================================
