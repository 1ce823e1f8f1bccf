------------------------------- MODULE Blocks -------------------------------
(***************************************************************************)
(* The blocks of consecutive threads that the wake-up tree is made of, in  *)
(* the vocabulary of the inductive invariants: a thread is responsible for *)
(* its block, which starts with itself and of which numSubthreads_ records *)
(* the size, and from_subthreads visits the blocks it consists of in order.*)
(***************************************************************************)
EXTENDS Integers, Sequences, Functions

\* The threads from a up to b, b not included.
Interval(a, b) == [k \in 1 .. b - a |-> a + k - 1]

\* One past the last thread of the block of thread t that takes part in a task of
\* concurrency c.
BlockEnd(size, t, c) == IF t + size[t] < c THEN t + size[t] ELSE c

\* The blocks of the threads in s follow one another, and the last one ends at e.
Chained(size, s, c, e) ==
    \A i \in 1 .. Len(s) : BlockEnd(size, s[i], c) = IF i = Len(s) THEN e ELSE s[i+1]

\* s consists of a thread and of the blocks in list.
Covers(size, t, list, c) ==
    /\ IF list = << >> THEN BlockEnd(size, t, c) = t + 1 ELSE list[1] = t + 1
    /\ Chained(size, list, c, BlockEnd(size, t, c))

==============================================================================
