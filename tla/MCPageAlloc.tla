----------------------------- MODULE MCPageAlloc -----------------------------
EXTENDS PageAlloc, TLC
\* Threads are interchangeable.
Symmetry == Permutations(Thread)
==============================================================================
