------------------------------ MODULE Alignment ------------------------------
(***************************************************************************)
(* Alignments and what allocators promise about them:                      *)
(* provides_static_alignment, provides_dynamic_alignment and               *)
(* alignment_in_bytes (include/patton/memory.hpp, detail/memory.hpp,       *)
(* src/src/memory.cpp).                                                    *)
(*                                                                         *)
(* An alignment is a std::size_t, a set of bits here: bitwise or is union. *)
(* The topmost three bits are not sizes but names of sizes, which the      *)
(* hardware decides on at runtime.                                         *)
(***************************************************************************)
EXTENDS Integers, FiniteSetsExt    \* Max

CONSTANTS
    Width,          \* the number of bits of std::size_t
    Interference    \* the bit that is std::hardware_constructive_interference_size

ASSUME AlignmentAssumption ==
    Width \in Nat /\ Width > 4 /\ Interference \in 0 .. Width - 4

\* The comparison x >= y of numbers: the highest bit in which they differ is one of x.
AtLeast(x, y) == \A i \in y \ x : \E j \in x \ y : j > i

large_page_alignment == {Width - 1}
page_alignment       == {Width - 2}
cache_line_alignment == {Width - 3}
special_alignments   == large_page_alignment \cup page_alignment \cup cache_line_alignment

\* All bits below the highest one are set, one is added and the sum shifted right: the
\* highest bit remains, unless the addition overflows.
floor_2p(x) == IF x = {} \/ Width - 1 \in x THEN {} ELSE {Max(x)}

raw_alignment_in_bytes(x) == IF floor_2p(x) = {} THEN {0} ELSE floor_2p(x)

----------------------------------------------------------------------------
(* What is known at compile time.                                          *)

\* Mistake: special alignments are not compared.
provides_static_alignmentBasic(provided, requested) ==
    LET basic == (provided \ special_alignments) \cup
                 (IF provided \cap special_alignments # {} THEN {Interference} ELSE {})
    IN  AtLeast(raw_alignment_in_bytes(basic),
                raw_alignment_in_bytes(requested \ special_alignments))

provides_static_alignment(provided, requested) ==
    LET basic == (provided \ special_alignments) \cup
                 (IF provided \cap special_alignments # {} THEN {Interference} ELSE {})
    IN  /\ AtLeast(raw_alignment_in_bytes(basic),
                   raw_alignment_in_bytes(requested \ special_alignments))
        /\ AtLeast(provided \cap special_alignments, requested \cap special_alignments)

\* Whether aligned_allocator_adaptor aligns, or leaves it to the allocator it adapts, one
\* that says nothing of alignment here.
NeedAlignment(alignment, own, most) ==
    ~provides_static_alignment(most, alignment \cup own)

\* What the allocators promise about the memory they return.  own is alignof(T), most is
\* alignof(std::max_align_t).  Any other allocator promises what aligned_allocator_traits
\* assumes.
Provides(allocator, alignment, own, most, requested) ==
    CASE allocator = "aligned" -> provides_static_alignment(alignment \cup own, requested)
      [] allocator \in {"page", "large_page"} ->
             provides_static_alignment(page_alignment, requested)
      [] allocator = "adaptor" /\ NeedAlignment(alignment, own, most) ->
             provides_static_alignment(alignment, requested)
      [] OTHER -> provides_static_alignment(most, requested)

----------------------------------------------------------------------------
(* What is known at runtime.  hw holds the sizes of cache lines, pages and *)
(* large pages, as sets of bits; large pages have no size if there are none*)

Hardware(bits) ==
    { hw \in [cache_line : { {i} : i \in bits }, page : { {i} : i \in bits },
              large_page : { {i} : i \in bits } \cup { {} }] :
          /\ AtLeast(hw.page, hw.cache_line)
          /\ hw.large_page = {} \/ AtLeast(hw.large_page, hw.page) }

\* Mistake: asking for large pages where there are none asks for nothing.
lookup_special_alignmentsLarge(x, hw) ==
    ((x \ special_alignments)
        \cup (IF x \cap large_page_alignment # {} THEN hw.large_page ELSE {})
        \cup (IF x \cap page_alignment # {} THEN hw.page ELSE {})
        \cup (IF x \cap cache_line_alignment # {} THEN hw.cache_line ELSE {}))

lookup_special_alignments(x, hw) ==
    ((x \ special_alignments)
        \cup (IF x \cap large_page_alignment # {} THEN hw.large_page ELSE {})
        \cup (IF x \cap (large_page_alignment \cup page_alignment) # {}
              THEN hw.page ELSE {})
        \cup (IF x \cap cache_line_alignment # {} THEN hw.cache_line ELSE {}))

alignment_in_bytes(x, hw) ==
    LET floor == floor_2p(lookup_special_alignments(x, hw))
    IN  IF floor = {} THEN {0} ELSE floor

provides_dynamic_alignment(provided, requested, hw) ==
    AtLeast(alignment_in_bytes(provided, hw), alignment_in_bytes(requested, hw))

\* The alignment of the memory the allocators return.
Returns(allocator, alignment, own, most, hw) ==
    CASE \/ allocator = "aligned"
         \/ allocator = "adaptor" /\ NeedAlignment(alignment, own, most) ->
             alignment_in_bytes(alignment \cup own, hw)
      [] allocator \in {"page", "large_page"} -> hw.page
      [] OTHER -> most

----------------------------------------------------------------------------

\* Memory that is aligned to x is aligned to y: for powers of two, which have one bit, y
\* divides x if it is not larger.
Satisfies(x, y) == \A i \in x, j \in y : j <= i

\* Whoever is told at compile time that an allocator provides an alignment can rely on
\* it on every machine whose cache lines are as long as
\* std::hardware_constructive_interference_size says (detail/memory.hpp:91), whatever
\* the sizes of its pages, and whether it has large pages or not; and
\* provides_dynamic_alignment agrees.
PromisesAreKept(allocator, alignment, own, most, requested, hw) ==
    AtLeast(hw.cache_line, {Interference})
        /\ Provides(allocator, alignment, own, most, requested) =>
    /\ Satisfies(Returns(allocator, alignment, own, most, hw),
                 alignment_in_bytes(requested, hw))
    /\ allocator = "aligned" =>
           provides_dynamic_alignment(alignment \cup own, requested, hw)

\* "Multiple alignment requirements can be combined using bitmask operations"
\* (memory.hpp:180): memory aligned for two alignments combined is aligned for each, and
\* for a special alignment that is the size the hardware reports.
CombinedSatisfiesEach(x, y, hw) ==
    LET combined == alignment_in_bytes(x \cup y, hw)
    IN  /\ Satisfies(combined, alignment_in_bytes(x, hw))
        /\ Satisfies(combined, alignment_in_bytes(y, hw))
        /\ large_page_alignment \subseteq x /\ hw.large_page # {} =>
               Satisfies(combined, hw.large_page)
        /\ (large_page_alignment \cup page_alignment) \cap x # {} =>
               Satisfies(combined, hw.page)
        /\ special_alignments \cap x # {} => Satisfies(combined, hw.cache_line)

==============================================================================
