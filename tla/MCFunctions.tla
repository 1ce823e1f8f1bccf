----------------------------- MODULE MCFunctions -----------------------------
(***************************************************************************)
(* The functions of the library.  The pure ones are evaluated over bounded *)
(* inputs: a state is one input of one function; the wake-up tree's are    *)
(* the pairs (n, c) of MCSquadTree.  Those that find something out about   *)
(* the hardware when they are first called are called by several threads;  *)
(* the number of cores and the three sizes have no state in common.        *)
(***************************************************************************)
EXTENDS MCSquadTree, MCProcCpuinfo, SquadParams, Alignment, AlignedAdaptor, CpuInfo, LazyInit

allVars == <<treeVars, input, vars, lazyVars>>

\* Hardware thread ids that are negative, in range and out of range, on machines of up
\* to three hardware threads, and one that does not know how many it has.
ParamsInputs ==
    [of : {"params"}, p : Params(-1 .. 4, -1 .. 2, 3), h : 0 .. 3]

\* Sizes of 8, 16 and 32 bytes for cache lines and pages, and for large pages if any;
\* alignments from 1 to 32 bytes, combined with each other and with the special ones.
MCHardwareSizes == Hardware(3 .. 5)
Specials    == SUBSET special_alignments
Simple      == { {i} : i \in 0 .. 5 } \cup { {} }
Combined    == { x \cup y : x, y \in Simple }
AlignmentInputs ==
    [of : {"alignment"}, allocator : {"aligned", "adaptor"},
     alignment : { x \cup y : x \in Combined, y \in Specials },
     requested : { x \cup y : x \in Simple, y \in Specials }]
    \cup
    [of : {"alignment"}, allocator : {"page", "large_page", "other"},
     alignment : {{}}, requested : { x \cup y : x \in Simple, y \in Specials }]

\* Sets of bits compare as the numbers they stand for do, and powers of two divide each
\* other as their bits say.
Bytes(x) == SumSet({ 2^i : i \in x })
ASSUME BitsAreNumbers ==
    /\ \A x, y \in SUBSET (0 .. 4) : AtLeast(x, y) <=> Bytes(x) >= Bytes(y)
    /\ \A i, j \in 0 .. 9 : Satisfies({i}, {j}) <=> Bytes({i}) % Bytes({j}) = 0

\* Numbers of seven bits; pointers of two bytes, words of one.
MCLimit == 127
AdaptorInputs ==
    [of : {"adaptor"}, n : 0 .. MCLimit, size : {1, 3, 4}, a : {1, 2, 4, 16, 32}]

\* All numbers of five bits.
ArithmeticInputs == [of : {"arithmetic"}, x : 0 .. 31, d : 0 .. 31]

Inputs == ParamsInputs \cup CpuinfoInputs \cup AlignmentInputs \cup AdaptorInputs
              \cup ArithmeticInputs

\* Machines with and without large pages, one whose page size and one whose large page
\* size does not fit, and one that does not tell the size of its cache lines.
MCMachines ==
    { [cache_line |-> m[1], page |-> m[2], large_page |-> m[3]] :
          m \in { <<2, 4, 8>>, <<2, 4, 0>>, <<2, 3, 6>>, <<2, 4, 6>>, <<Unknown, 4, 0>> } }
AnyMachine == CHOOSE m \in Machines : TRUE

\* A behaviour is about the tree, the number of cores, the sizes, or one input.
FunctionsInit ==
    /\ input \in Inputs \cup { [of |-> s] : s \in {"tree", "cores", "sizes"} }
    /\ IF input.of = "tree" THEN TreeInit ELSE n = 1 /\ c = 0
    /\ Init /\ LazyInit
    /\ input.of = "sizes" \/ machine = AnyMachine

\* There is nothing left to do, or the program was ended since the sizes do not fit.
Done ==
    /\ input \in Inputs \/ ended
    /\ UNCHANGED allVars

FunctionsNext ==
    \/ input.of = "tree"  /\ TreeNext /\ UNCHANGED <<input, vars, lazyVars>>
    \/ input.of = "cores" /\ Next     /\ UNCHANGED <<input, treeVars, lazyVars>>
    \/ input.of = "sizes" /\ LazyNext /\ UNCHANGED <<input, treeVars, vars>>
    \/ Done
FunctionsSpec == FunctionsInit /\ [][FunctionsNext]_allVars

\* The threads are interchangeable, and no liveness is checked.
Symmetry == Permutations(Thread)

----------------------------------------------------------------------------

\* AcceptedParamsWork: what thread_squad's constructor accepts can be pinned and forked.
ParamsWork == input.of = "params" => AcceptedParamsWork(input.p, input.h)

\* PromisesAreKept: what allocators say about alignment at compile time holds at runtime.
AllocatorsKeepPromises ==
    input.of = "alignment" =>
        \A hw \in MCHardwareSizes, own \in {{0}, {2}} :
            PromisesAreKept(input.allocator, input.alignment, own, {4}, input.requested, hw)

\* CombinedSatisfiesEach: alignments can be combined (alignment_in_bytes).
AlignmentsCombine ==
    input.of = "alignment" =>
        \A hw \in MCHardwareSizes :
            CombinedSatisfiesEach(input.requested, input.alignment, hw)

\* AdaptorStaysInside: the adaptor's own data stay within the memory it allocated.
AdaptorIsSound ==
    input.of = "adaptor" => AdaptorStaysInside(input.n, input.size, input.a)

\* ExactUpToTheLimit: sizes are computed exactly or not at all.
ArithmeticIsExact ==
    input.of = "arithmetic" => ExactUpToTheLimit(input.x, input.d, 31)

==============================================================================
