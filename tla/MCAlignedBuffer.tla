--------------------------- MODULE MCAlignedBuffer ---------------------------
EXTENDS AlignedBuffer, TLC
\* Buffers of one type are interchangeable, and so are blocks.
Symmetry == Permutations(Elements) \cup Permutations(Rows) \cup Permutations(Arrays) \cup
            Permutations(Block)
==============================================================================
