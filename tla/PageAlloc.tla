------------------------------ MODULE PageAlloc ------------------------------
(***************************************************************************)
(* page_alloc, page_free, large_page_alloc and large_page_free on Linux,   *)
(* and the trap they set behind the data to detect writes out of bounds    *)
(* (src/memory.cpp).  One action is one system call or the access to the   *)
(* trap; threads allocate and free at the same time.                       *)
(*                                                                         *)
(* A call that throws before it reaches mmap leaves no trace: the size     *)
(* overflows, or there are no large pages.                                 *)
(***************************************************************************)
EXTENDS Arithmetic, FiniteSets

CONSTANTS
    Thread,
    PageSize, LargePageSize,    \* in bytes; 0 if there are no large pages
    Word, MaxTraps,             \* sizeof(std::uint32_t), maxTrapCount
    NumPages, SmallSizes,       \* bounds: address space, sizes asked of page_alloc
    LargeSizes                  \* and of large_page_alloc

Page == 0 .. NumPages-1
Size == [page |-> SmallSizes, largePage |-> LargeSizes]
Kind == DOMAIN Size

ASSUME PageAssumption ==
    /\ {PageSize, Word, MaxTraps} \subseteq Nat \ {0} /\ NumPages \in Nat
    /\ LargePageSize \in Nat /\ LargePageSize % PageSize = 0
    /\ SmallSizes \cup LargeSizes \subseteq Nat

VARIABLES
    pages,      \* for every page whether it is mapped, and madvise's advice
    pattern,    \* the addresses that hold a part of the trap's data pattern
    stray,      \* history: where users wrote behind the end of an allocation
    allocs,     \* what users have allocated
    call        \* what every thread is doing

vars == <<pages, pattern, stray, allocs, call>>

Failed == -1    \* MAP_FAILED

Idle == [op |-> "idle"]

Init ==
    /\ pages = [p \in Page |-> "unmapped"]
    /\ pattern = {} /\ stray = {} /\ allocs = {}
    /\ call = [t \in Thread |-> Idle]

----------------------------------------------------------------------------

Bytes(addr, n) == addr .. addr + n - 1

\* The pages mmap, madvise and munmap work on: those that the bytes are in.
Span(addr, n) == { b \div PageSize : b \in Bytes(addr, n) }

\* fullSizeR.value
Full(a) == Ceil(a.size, IF a.kind = "page" THEN PageSize ELSE LargePageSize)

Least(x, y) == IF x < y THEN x ELSE y

\* Where the trap of an allocation is: in whole words that fit behind the data.
Trap(a) == Bytes(a.addr + a.size, Word * Least(MaxTraps, (Full(a) - a.size) \div Word))

\* Behind the data but still in the pages of the allocation.
Slack(a) == Bytes(a.addr + a.size, Full(a) - a.size)

Advise(a, advice) ==
    pages' = [p \in Page |-> IF p \in Span(a.addr, Full(a)) THEN advice ELSE pages[p]]

\* What munmap does to n bytes; of MAP_FAILED it refuses to unmap anything.
Unmapped(a, n) ==
    LET gone == IF a.addr = Failed THEN {} ELSE Span(a.addr, n)
    IN  /\ pages' = [p \in Page |-> IF p \in gone THEN "unmapped" ELSE pages[p]]
        /\ pattern' = { b \in pattern : b \div PageSize \notin gone }
        /\ stray' = IF a.addr = Failed THEN stray ELSE stray \ Slack(a)

----------------------------------------------------------------------------

\* mmap maps unused pages anywhere, or it fails; for a length of 0 it does.
Mmap(t, a) ==
    /\ call[t] = Idle
    /\ a.kind = "largePage" => LargePageSize # 0
    /\ IF a.addr = Failed
       THEN UNCHANGED pages
       ELSE /\ Full(a) > 0 /\ a.addr % PageSize = 0
            /\ \A p \in Span(a.addr, Full(a)) : p \in Page /\ pages[p] = "unmapped"
            /\ Advise(a, "default")
    /\ call' = [call EXCEPT ![t] = [op |-> "madvise", a |-> a]]
    /\ UNCHANGED <<pattern, stray, allocs>>

\* Mistake: failing to give advice is not taken seriously.
MadviseUnchecked(t) ==
    /\ call[t].op = "madvise"
    /\ \/ /\ call[t].a.addr # Failed
          /\ Advise(call[t].a, IF call[t].a.kind = "page" THEN "nohugepage" ELSE "hugepage")
       \/ UNCHANGED pages
    /\ call' = [call EXCEPT ![t].op = "trap"]
    /\ UNCHANGED <<pattern, stray, allocs>>

\* posix_assert(data != nullptr), which MAP_FAILED passes, and madvise, which may fail and
\* does fail for MAP_FAILED.
Madvise(t) ==
    /\ call[t].op = "madvise"
    /\ \/ /\ call[t].a.addr # Failed
          /\ Advise(call[t].a, IF call[t].a.kind = "page" THEN "nohugepage" ELSE "hugepage")
          /\ call' = [call EXCEPT ![t].op = "trap"]
       \/ call' = [call EXCEPT ![t].op = "undo"] /\ UNCHANGED pages
    /\ UNCHANGED <<pattern, stray, allocs>>

\* Mistake: the exception is thrown right away.
UndoNot(t) ==
    /\ call[t].op = "undo"
    /\ call' = [call EXCEPT ![t] = Idle]
    /\ UNCHANGED <<pages, pattern, stray, allocs>>

\* madvise failed: everything is unmapped, and an exception thrown.
Undo(t) ==
    /\ call[t].op = "undo"
    /\ Unmapped(call[t].a, Full(call[t].a))
    /\ call' = [call EXCEPT ![t] = Idle]
    /\ UNCHANGED allocs

\* set_out_of_bounds_write_trap, and return.
SetTrap(t) ==
    /\ call[t].op = "trap"
    /\ pattern' = pattern \cup Trap(call[t].a)
    /\ allocs' = allocs \cup {call[t].a}
    /\ call' = [call EXCEPT ![t] = Idle]
    /\ UNCHANGED <<pages, stray>>

\* The user of an allocation writes a byte of its data or, by mistake, one behind it;
\* never a byte of the pattern.  Bound: one byte behind it per allocation.
Write(a, b) ==
    /\ b \in Slack(a) => stray \cap Slack(a) = {}
    /\ pattern' = pattern \ {b}
    /\ stray' = stray \cup ({b} \cap Slack(a))
    /\ UNCHANGED <<pages, allocs, call>>

\* Mistake: the end is sought at the end of the page, not of the large page.
FreeByPage(t, a) ==
    /\ call[t] = Idle
    /\ allocs' = allocs \ {a}
    /\ LET intact == Trap([a EXCEPT !.kind = "page"]) \subseteq pattern
       IN  call' = [call EXCEPT ![t] = [op |-> IF intact THEN "munmap" ELSE "failfast",
                                        a |-> a]]
    /\ UNCHANGED <<pages, pattern, stray>>

\* check_out_of_bounds_write_trap; gsl_FailFast ends the program.
Free(t, a) ==
    /\ call[t] = Idle
    /\ allocs' = allocs \ {a}
    /\ LET intact == Trap(a) \subseteq pattern
       IN  call' = [call EXCEPT ![t] = [op |-> IF intact THEN "munmap" ELSE "failfast",
                                        a |-> a]]
    /\ UNCHANGED <<pages, pattern, stray>>

\* munmap with the size asked for.
Munmap(t) ==
    /\ call[t].op = "munmap"
    /\ Unmapped(call[t].a, call[t].a.size)
    /\ call' = [call EXCEPT ![t] = Idle]
    /\ UNCHANGED allocs

----------------------------------------------------------------------------

Requests ==
    UNION { [kind : {k}, size : Size[k], addr : { p * PageSize : p \in Page } \cup {Failed}]
            : k \in Kind }

Running == \A t \in Thread : call[t].op # "failfast"

Next ==
    /\ Running
    /\ \/ \E t \in Thread :
              \/ \E a \in Requests : Mmap(t, a)
              \/ Madvise(t) \/ Undo(t) \/ SetTrap(t) \/ Munmap(t)
              \/ \E a \in allocs : Free(t, a)
       \/ \E a \in allocs : \E b \in Bytes(a.addr, Full(a)) : Write(a, b)

Spec == Init /\ [][Next]_vars

----------------------------------------------------------------------------

\* Allocations that pages belong to: those of users and those being made or given back.
Held == allocs \cup { call[t].a : t \in { t \in Thread : call[t] # Idle } }

HeldPages(as) == UNION { Span(a.addr, Full(a)) : a \in { a \in as : a.addr # Failed } }

\* What a user was given is mapped to its last byte and shared with nobody, MAP_FAILED is
\* never given to a user, and pages are advised as asked for.
AllocationsAreMapped ==
    \A a \in allocs :
        /\ a.addr # Failed
        /\ \A p \in Span(a.addr, Full(a)) :
               pages[p] = IF a.kind = "page" THEN "nohugepage" ELSE "hugepage"
        /\ \A o \in Held \ {a} : Span(a.addr, Full(a)) \cap HeldPages({o}) = {}

\* page_free and large_page_free stop the program only if somebody wrote behind the data,
\* and they always do if it was the byte next to it and there was room for a trap.
TrapIsReliable ==
    \A t \in Thread :
        /\ call[t].op = "failfast" => stray \cap Slack(call[t].a) # {}
        /\ call[t].op = "munmap" /\ Word <= Cardinality(Slack(call[t].a))
               => call[t].a.addr + call[t].a.size \notin stray

\* page_alloc and page_free leave no page mapped that nobody holds, whatever fails.
SmallPagesAreReturned ==
    \A p \in Page : pages[p] \in {"default", "nohugepage"} => p \in HeldPages(Held)

\* The same for large pages: large_page_alloc unmaps all it has mapped when it fails
\* (src/memory.cpp:88), so that large_page_free should do so, too.
LargePagesAreReturned ==
    \A p \in Page : pages[p] = "hugepage" => p \in HeldPages(Held)

==============================================================================
