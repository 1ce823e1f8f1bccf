------------------------------ MODULE SquadTree ------------------------------
(***************************************************************************)
(* The wake-up tree of a thread squad: thread_squad_impl::init fixes, once *)
(* per squad, how many threads every thread is responsible for, and        *)
(* to_subthreads / from_subthreads enumerate the threads one thread        *)
(* notifies, forks, waits for, joins, collects from and broadcasts to.     *)
(*                                                                         *)
(* Everything here is a pure function of the squad size n, so that the     *)
(* module can be evaluated for many sizes in one run.  Recursion is        *)
(* written as recursive functions.                                         *)
(***************************************************************************)
EXTENDS Integers, Sequences, SequencesExt

CONSTANT TreeBreadth        \* static constexpr int treeBreadth = 8

\* With a breadth of 1 the strides would never shrink to 1.
ASSUME TreeBreadthAssumption == TreeBreadth \in Nat \ {0, 1}

----------------------------------------------------------------------------

\* Mistake: a division that rounds down and then adds one.
NextSubstrideOffByOne(stride) == stride \div TreeBreadth + 1

\* How far apart the direct subordinates of a block of `stride` threads are.
NextSubstride(stride) == (stride + (TreeBreadth - 1)) \div TreeBreadth

\* Mistake: recording the innermost block that starts at a thread.
NumSubthreadsInnermost(n) == [i \in 0 .. n-1 |-> IF i = 0 THEN n ELSE 1]

\* numSubthreads_ as the constructor's init(0, n, n) leaves it.  The assignment
\* threadData_[first].numSubthreads_ = stride runs after the recursive calls, so
\* it is the outermost block starting at a thread that counts.
NumSubthreads(n) ==
    LET outermost[i \in 0 .. n-1, first \in 0 .. n-1, stride \in 1 .. n] ==
            IF i = first
            THEN stride
            ELSE LET substride == NextSubstride(stride)
                 IN  outermost[i, first + ((i - first) \div substride) * substride,
                               substride]
    IN  [i \in 0 .. n-1 |-> outermost[i, 0, n]]

----------------------------------------------------------------------------

\* The loop  for (int i = from; i < last; i += step)  as the sequence of its i.
Steps(from, last, step) ==
    [k \in 1 .. (IF from < last THEN (last - from + step - 1) \div step ELSE 0)
        |-> from + (k - 1) * step]

MinOf(a, b) == IF a < b THEN a ELSE b

\* Mistake: the block nearest to the caller is not taken out of the next round.
ToSubthreadsUnclipped(n, t, c) ==
    LET from[stride \in 1 .. n, last \in 0 .. n] ==
            IF stride = 1
            THEN << >>
            ELSE LET substride == NextSubstride(stride)
                 IN  Steps(t + substride, last, substride) \o from[substride, last]
        stride0 == NumSubthreads(n)[t]
    IN  from[stride0, MinOf(t + stride0, c)]

\* Mistake: cutting the block of thread t off after c - 1 threads.
ToSubthreadsOffByOne(n, t, c) ==
    LET from[stride \in 1 .. n, last \in -1 .. n] ==
            IF stride = 1
            THEN << >>
            ELSE LET substride == NextSubstride(stride)
                 IN  Steps(t + substride, last, substride)
                        \o from[substride, MinOf(t + substride, last)]
        stride0 == NumSubthreads(n)[t]
    IN  from[stride0, MinOf(t + stride0, c - 1)]

\* The targets of to_subthreads(t, c, func), in the order func is called:
\* farthest blocks first, so that large subtrees start early.
ToSubthreads(n, t, c) ==
    LET from[stride \in 1 .. n, last \in 0 .. n] ==
            IF stride = 1
            THEN << >>
            ELSE LET substride == NextSubstride(stride)
                 IN  Steps(t + substride, last, substride)
                        \o from[substride, MinOf(t + substride, last)]
        stride0 == NumSubthreads(n)[t]
    IN  from[stride0, MinOf(t + stride0, c)]

\* Mistake: waiting for the threads in the order they were notified.
FromSubthreadsOutsideIn(n, t, c) == ToSubthreads(n, t, c)

\* The targets of from_subthreads(t, c, func), in the order func is called:
\* nearest blocks first.
FromSubthreads(n, t, c) ==
    LET upTo[stride \in 1 .. n, last \in 0 .. n] ==
            LET substride == NextSubstride(stride)
            IN  (IF stride = 1
                 THEN << >>
                 ELSE upTo[substride, MinOf(t + substride, last)])
                    \o Steps(t + substride, last, substride)
        stride0 == NumSubthreads(n)[t]
    IN  upTo[stride0, MinOf(t + stride0, c)]

==============================================================================
