---------------------------- MODULE AlignedAdaptor ----------------------------
(***************************************************************************)
(* aligned_allocator_adaptor (include/patton/detail/memory.hpp): aligned   *)
(* memory from an allocator that does not align.  The adaptor asks for more*)
(* memory than its user, and lays out, from the first aligned address, the *)
(* user's data, a trap of two words for out-of-bounds writes and a pointer *)
(* to what it was given.                                                   *)
(***************************************************************************)
EXTENDS Arithmetic

CONSTANTS
    Limit,          \* std::numeric_limits<std::size_t>::max()
    PointerSize, WordSize

ASSUME AdaptorAssumption ==
    Limit \in Nat /\ PointerSize \in Nat \ {0} /\ WordSize \in Nat \ {0}

\* Mistake: no room for the trap.
NbAllocNoTrap(nbData, a) == Wrap(nbData + a + PointerSize - 1, Limit)

\* The size to ask the underlying allocator for, and to return to it.
NbAlloc(nbData, a) == Wrap(nbData + a + PointerSize - 1 + 2 * WordSize, Limit)

\* allocate(n) throws before anything is allocated.
Rejected(n, size, a) ==
    \/ n >= Limit \div size
    \/ NbAlloc(n * size, a) < n * size

\* std::align: the first address that is aligned; space is what is left from there.
Aligned(mem, a)             == Ceil(mem, a)
SpaceLeft(mem, nbData, a)   == NbAlloc(nbData, a) - (Aligned(mem, a) - mem)

\* std::align finds enough space, and so does the expectation after it.
Fits(mem, nbData, a) == SpaceLeft(mem, nbData, a) >= nbData + PointerSize

\* Where allocate stores the pointer to mem and deallocate looks for it.
PointerAt(data, nbData) == data + nbData + 2 * WordSize

----------------------------------------------------------------------------

\* Wherever the memory comes from and however the sizes round: the user's data are
\* aligned, data, trap and pointer are within the memory allocated, the expectation
\* never fails, and allocate gives up only if the sizes do not fit std::size_t.
AdaptorStaysInside(n, size, a) ==
    IF Rejected(n, size, a)
    THEN n * size + size + a + PointerSize + 2 * WordSize > Limit
    ELSE LET nbData == n * size
             end    == NbAlloc(nbData, a)
         IN  \A mem \in 1 .. Limit + 1 - end :
                 LET data == Aligned(mem, a)
                 IN  /\ data % a = 0 /\ mem <= data
                     /\ Fits(mem, nbData, a)
                     /\ PointerAt(data, nbData) + PointerSize <= mem + end

==============================================================================
