--------------------------- MODULE PageAlloc_proofs ---------------------------
(***************************************************************************)
(* Proofs about page_alloc, page_free, large_page_alloc and large_page_free*)
(* for any page sizes, size of the trap and number of threads.             *)
(***************************************************************************)
EXTENDS PageAlloc, AlignedAdaptor, Basics_proofs, FiniteSetTheorems

----------------------------------------------------------------------------
(* The inductive invariant.                                                *)

Allocation == [kind : {"page", "largePage"}, size : Nat, addr : Nat \cup {Failed}]

Busy == {"madvise", "undo", "trap", "munmap", "failfast"}

Types ==
    /\ pages \in [Page -> {"unmapped", "default", "nohugepage", "hugepage"}]
    /\ allocs \subseteq Allocation
    /\ call \in [Thread -> {Idle} \cup [op : Busy, a : Allocation]]

PagesOf(a) == Span(a.addr, Full(a))
Advice(a)  == IF a.kind = "page" THEN "nohugepage" ELSE "hugepage"

\* There is a page size for it.
HasPageSize(a) == a.kind = "largePage" => LargePageSize # 0

\* What mmap did not fail for.
Sound(a) ==
    a.addr \in Nat /\ a.addr % PageSize = 0 /\ Full(a) > 0 /\ HasPageSize(a)

\* Pages are mapped for what the thread works on.
Owns(t) == call[t].op \in Busy /\ call[t].a.addr # Failed

Sizes ==
    /\ \A a \in allocs : Sound(a)
    /\ \A t \in Thread : Owns(t) => Sound(call[t].a)
    /\ \A t \in Thread : call[t].op \in {"trap", "munmap", "failfast"} => Owns(t)

Disjoint(a, b) == PagesOf(a) \cap PagesOf(b) = {}

\* No page belongs to two allocations, of users or in the making.
Apart ==
    /\ \A a, b \in allocs : a # b => Disjoint(a, b)
    /\ \A a \in allocs, t \in Thread : Owns(t) => Disjoint(a, call[t].a)
    /\ \A s, t \in Thread : s # t /\ Owns(s) /\ Owns(t) => Disjoint(call[s].a, call[t].a)

\* Everyone's pages are mapped and advised as far as the call has come.
Advised ==
    /\ \A a \in allocs : \A p \in PagesOf(a) : p \in Page /\ pages[p] = Advice(a)
    /\ \A t \in Thread : Owns(t) =>
           \A p \in PagesOf(call[t].a) :
               /\ p \in Page
               /\ pages[p] = IF call[t].op \in {"madvise", "undo"} THEN "default"
                             ELSE Advice(call[t].a)

\* A byte was written astray only behind an allocation that a user has or gives back.
StrayIsHeld ==
    \A b \in stray :
        \/ \E a \in allocs : b \in Slack(a)
        \/ \E t \in Thread : call[t].op \in {"munmap", "failfast"} /\ b \in Slack(call[t].a)

\* What is missing from a user's trap was written over, nothing is missing when it was
\* found to be intact, and nobody has written yet where the trap is to be set.
Trapped ==
    /\ pattern \cap stray = {}
    /\ \A a \in allocs : Trap(a) \subseteq pattern \cup stray
    /\ \A t \in Thread :
        /\ call[t].op = "munmap" => Trap(call[t].a) \cap stray = {}
        /\ call[t].op = "failfast" => stray \cap Slack(call[t].a) # {}
        /\ Owns(t) /\ call[t].op \in {"madvise", "undo", "trap"} =>
               Slack(call[t].a) \cap stray = {}

\* Small pages are mapped only for someone.
IsHeld(p) ==
    \/ \E a \in allocs : a.addr # Failed /\ p \in PagesOf(a)
    \/ \E t \in Thread : Owns(t) /\ p \in PagesOf(call[t].a)

SmallAreHeld == \A p \in Page : pages[p] \in {"default", "nohugepage"} => IsHeld(p)

PageInv ==
    /\ Types /\ Sizes /\ Apart /\ Advised /\ SmallAreHeld
    /\ StrayIsHeld /\ Trapped

----------------------------------------------------------------------------
(* Bytes, pages and the trap.                                              *)

\* What try_ceili computes is a multiple of the page size that is not smaller.
LEMMA FullFacts ==
    ASSUME NEW a \in Allocation, HasPageSize(a)
    PROVE  /\ Full(a) \in Nat /\ a.size <= Full(a)
           /\ a.kind = "page" => Full(a) % PageSize = 0 /\ Full(a) < a.size + PageSize
  <1> DEFINE d == IF a.kind = "page" THEN PageSize ELSE LargePageSize
  <1>1. d \in Nat \ {0} /\ a.size \in Nat BY PageAssumption DEF Allocation, HasPageSize
  <1>2. Full(a) = Ceil(a.size, d) BY DEF Full
  <1>3. a.kind = "page" => d = PageSize OBVIOUS
  <1> HIDE DEF d
  <1>4. CASE a.size = 0
    <2>1. 0 % d = 0 BY <1>1
    <2> QED BY <1>1, <1>2, <1>3, <1>4, <2>1 DEF Ceil
  <1>5. CASE a.size # 0
    <2> DEFINE dx == d - ((a.size - 1) % d) - 1
    <2>1. dx \in 0 .. d-1 /\ IsCeiling(a.size + dx, a.size, d) BY <1>1, <1>5, CeilingOf
    <2>2. (a.size - 1) % d \in 0 .. d-1 BY <1>1, <1>5
    <2>3. Ceil(a.size, d) = a.size + dx BY <1>1, <1>5, <2>2 DEF Ceil
    <2> HIDE DEF dx
    <2> QED BY <1>1, <1>2, <1>3, <2>1, <2>3 DEF IsCeiling
  <1> QED BY <1>4, <1>5

\* The page of every byte of an allocation is one of its pages.
LEMMA PageOfByte ==
    ASSUME NEW a, NEW b \in Bytes(a.addr, Full(a))
    PROVE  b \div PageSize \in PagesOf(a)
BY DEF PagesOf, Span

\* What is behind the data is in the pages of the allocation, too.
LEMMA SlackIsInside ==
    ASSUME NEW a \in Allocation, Sound(a), NEW b \in Slack(a)
    PROVE  b \in Bytes(a.addr, Full(a)) /\ b \div PageSize \in PagesOf(a)
  <1>1. Full(a) \in Nat /\ a.size <= Full(a) /\ a.size \in Nat /\ a.addr \in Nat
    BY FullFacts DEF Sound, Allocation
  <1>2. b \in Bytes(a.addr, Full(a)) BY <1>1 DEF Slack, Bytes
  <1> QED BY <1>2, PageOfByte

\* Allocations that share no page share no byte behind the data.
LEMMA SlacksApart ==
    ASSUME NEW a \in Allocation, NEW b \in Allocation, Sound(a), Sound(b), Disjoint(a, b)
    PROVE  Slack(a) \cap Slack(b) = {}
BY SlackIsInside DEF Disjoint

\* The trap fits behind the data, and covers the byte next to them if one word fits.
LEMMA TrapFacts ==
    ASSUME NEW a \in Allocation, Sound(a)
    PROVE  /\ Trap(a) \subseteq Slack(a)
           /\ Word <= Cardinality(Slack(a)) => a.addr + a.size \in Trap(a)
  <1> DEFINE room  == Full(a) - a.size
             words == room \div Word
             count == Least(MaxTraps, words)
             start == a.addr + a.size
  <1>1. room \in Nat /\ start \in Nat
    <2>1. Full(a) \in Nat /\ a.size <= Full(a) BY FullFacts DEF Sound
    <2>2. a.size \in Nat /\ a.addr \in Nat BY DEF Allocation, Sound
    <2> QED BY <2>1, <2>2
  <1>2. Word \in Nat \ {0} /\ MaxTraps \in Nat \ {0} BY PageAssumption
  <1>3. Trap(a) = start .. start + Word * count - 1
    BY DEF Trap, Bytes
  <1>4. Slack(a) = start .. start + room - 1 BY DEF Slack, Bytes
  <1> HIDE DEF room, start
  <1>5. words \in Nat /\ Word * words <= room
    <2>1. room \div Word \in Nat /\ room % Word \in 0 .. Word-1
          /\ room = Word * (room \div Word) + (room % Word)
      BY <1>1, <1>2, DivMod
    <2>2. Word * words \in Int BY <1>2, <2>1
    <2> QED BY <2>1, <2>2, <1>1, <1>2
  <1>6. count \in Nat /\ count <= words BY <1>2, <1>5 DEF Least
  <1>7. Word * count <= Word * words BY <1>2, <1>5, <1>6, TimesMono
  <1>8. Word * count \in Nat /\ Word * words \in Nat BY <1>2, <1>5, <1>6
  <1>9. Word * count <= room BY <1>1, <1>5, <1>7, <1>8
  <1>10. Trap(a) \subseteq Slack(a) BY <1>1, <1>3, <1>4, <1>8, <1>9
  <1>11. ASSUME Word <= Cardinality(Slack(a)) PROVE start \in Trap(a)
    <2>1. Cardinality(start .. start + room - 1) = room
      <3>1. Cardinality(start .. start + room - 1) =
                IF start <= start + room - 1 THEN (start + room - 1) - start + 1 ELSE 0
        BY <1>1, FS_Interval
      <3> QED BY <3>1, <1>1
    <2>2. Word <= room BY <2>1, <1>4, <1>11
    <2>3. words >= 1
      <3>1. room = Word * words + (room % Word) /\ room % Word \in 0 .. Word-1
        BY <1>1, <1>2, DivMod
      <3>2. words # 0
        <4> SUFFICES ASSUME words = 0 PROVE FALSE OBVIOUS
        <4>1. Word * words = 0 BY <1>2
        <4> QED BY <3>1, <4>1, <2>2, <1>1, <1>2
      <3> QED BY <3>2, <1>5
    <2>4. count >= 1 BY <2>3, <1>2, <1>5 DEF Least
    <2>5. Word * 1 <= Word * count BY <2>4, <1>2, <1>6, TimesMono
    <2> QED BY <2>5, <1>1, <1>2, <1>3, <1>8
  <1> QED BY <1>10, <1>11 DEF start

\* The pages that the bytes asked for are in belong to the allocation.
LEMMA SpanOfSize ==
    ASSUME NEW a \in Allocation, Sound(a)
    PROVE  Span(a.addr, a.size) \subseteq PagesOf(a)
  <1>1. Full(a) \in Nat /\ a.size <= Full(a) /\ a.size \in Nat /\ a.addr \in Nat
    BY FullFacts DEF Sound, Allocation
  <1> QED BY <1>1 DEF Span, PagesOf, Bytes

\* page_free unmaps all pages of an allocation, although it names only the bytes asked
\* for: the last of them is in the last page.
LEMMA SpanOfSmall ==
    ASSUME NEW a \in Allocation, Sound(a), a.kind = "page"
    PROVE  Span(a.addr, a.size) = PagesOf(a)
  <1> DEFINE full == Full(a)
             size == a.size
             addr == a.addr
             d    == PageSize
  <1>1. /\ full \in Nat /\ size <= full /\ full % d = 0 /\ full < size + d /\ full > 0
        /\ size \in Nat /\ addr \in Nat /\ addr % d = 0 /\ d \in Nat \ {0}
    BY FullFacts, PageAssumption DEF Sound, Allocation
  <1> HIDE DEF full, size, addr, d
  <1>2. ASSUME NEW b \in Bytes(addr, full) PROVE b \div d \in Span(addr, size)
    <2>1. b \in addr .. addr + full - 1 BY <1>1 DEF Bytes
    <2> DEFINE q == b \div d
    <2>2. b \in Nat BY <1>1, <2>1
    <2>3. q \in Nat /\ b % d \in 0 .. d-1 /\ b = d * q + (b % d)
      BY <1>1, <2>2, DivMod
    <2>4. d * q \in Nat BY <1>1, <2>3
    <2>5. addr = d * (addr \div d) /\ addr \div d \in Nat
      <3>1. addr = d * (addr \div d) + (addr % d) /\ addr \div d \in Nat BY <1>1, DivMod
      <3>2. d * (addr \div d) \in Nat BY <1>1, <3>1
      <3> QED BY <3>1, <3>2, <1>1
    <2>6. full = d * (full \div d) /\ full \div d \in Nat
      <3>1. full = d * (full \div d) + (full % d) /\ full \div d \in Nat BY <1>1, DivMod
      <3>2. d * (full \div d) \in Nat BY <1>1, <3>1
      <3> QED BY <3>1, <3>2, <1>1
    \* Everything is a multiple of the page size, so that the page starts before the end.
    <2> HIDE DEF q
    <2>7. addr \div d <= q
      <3> SUFFICES ASSUME q + 1 <= addr \div d PROVE FALSE BY <2>3, <2>5
      <3>0. q + 1 \in Nat BY <2>3
      <3>1. d * (q + 1) <= d * (addr \div d) BY <1>1, <2>5, <3>0, TimesMono
      <3>2. d * (q + 1) = d * q + d BY <1>1, <2>3
      <3> QED BY <3>1, <3>2, <2>1, <2>3, <2>4, <2>5, <1>1
    <2>8. addr <= d * q BY <2>5, <2>7, <2>3, <1>1, TimesMono
    <2>9. q + 1 <= addr \div d + full \div d
      <3> SUFFICES ASSUME addr \div d + full \div d <= q PROVE FALSE BY <2>3, <2>5, <2>6
      <3>1. d * (addr \div d + full \div d) <= d * q BY <1>1, <2>3, <2>5, <2>6, TimesMono
      <3>2. d * (addr \div d + full \div d) = d * (addr \div d) + d * (full \div d)
        BY <1>1, <2>5, <2>6
      <3> QED BY <3>1, <3>2, <2>1, <2>3, <2>4, <2>5, <2>6, <1>1
    <2>10. d * q + d <= addr + full
      <3>0. q + 1 \in Nat /\ addr \div d + full \div d \in Nat BY <2>3, <2>5, <2>6
      <3>1. d * (q + 1) <= d * (addr \div d + full \div d) BY <1>1, <2>9, <3>0, TimesMono
      <3>2. d * (addr \div d + full \div d) = d * (addr \div d) + d * (full \div d)
        BY <1>1, <2>5, <2>6
      <3>3. d * (q + 1) = d * q + d BY <1>1, <2>3
      <3> QED BY <3>1, <3>2, <3>3, <2>5, <2>6
    <2>11. d * q < addr + size BY <2>10, <2>4, <1>1
    <2>12. d * q \in Bytes(addr, size) BY <2>8, <2>11, <2>4, <1>1 DEF Bytes
    <2>13. (d * q) \div d = q
      <3> DEFINE u == (d * q) \div d
      <3>1. u \in Nat /\ d * q = d * u + ((d * q) % d) BY <1>1, <2>4, DivMod
      <3>2. (d * q) % d = 0 BY <1>1, <2>3, MultipleMod
      <3>3. d * q = d * u BY <3>1, <3>2, <1>1
      <3> HIDE DEF u
      <3>4. ASSUME NEW m \in Nat, NEW n \in Nat, m + 1 <= n PROVE d * m < d * n
        <4>1. d * (m + 1) <= d * n BY <3>4, <1>1, TimesMono
        <4>2. d * (m + 1) = d * m + d BY <1>1
        <4>3. d * m \in Nat /\ d * n \in Nat BY <1>1
        <4> QED BY <4>1, <4>2, <4>3, <1>1
      <3>5. ~(u + 1 <= q) /\ ~(q + 1 <= u) BY <3>1, <3>3, <3>4, <2>3, <2>4
      <3>6. u = q BY <3>5, <3>1, <2>3
      <3> QED BY <3>6 DEF u
    <2> QED BY <2>12, <2>13 DEF Span, d, q
  <1>3. PagesOf(a) \subseteq Span(a.addr, a.size) BY <1>2 DEF PagesOf, Span, full, size, addr, d
  <1> QED BY <1>3, SpanOfSize

----------------------------------------------------------------------------
(* The steps.                                                              *)

LEMMA PageInit == Init => PageInv
  <1> SUFFICES ASSUME Init PROVE PageInv OBVIOUS
  <1>1. \A t \in Thread : call[t].op = "idle" /\ ~Owns(t) BY DEF Init, Idle, Owns, Busy
  <1>2. Types BY DEF Init, Types
  <1>3. Sizes /\ Apart /\ Advised BY <1>1 DEF Init, Sizes, Apart, Advised
  <1>4. SmallAreHeld BY DEF Init, SmallAreHeld
  <1>5. StrayIsHeld /\ Trapped BY <1>1 DEF Init, StrayIsHeld, Trapped
  <1> QED BY <1>2, <1>3, <1>4, <1>5 DEF PageInv

\* What a thread works on is an allocation.
LEMMA CallTypes ==
    ASSUME Types, NEW t \in Thread, call[t].op \in Busy
    PROVE  call[t] \in [op : Busy, a : Allocation] /\ call[t].a \in Allocation
BY DEF Types, Idle, Busy

\* What the other threads do is not affected.
LEMMA OthersGoOn ==
    ASSUME Types, NEW t \in Thread, NEW c, call' = [call EXCEPT ![t] = c]
    PROVE  /\ call'[t] = c
           /\ \A s \in Thread \ {t} : call'[s] = call[s] /\ (Owns(s)' <=> Owns(s))
BY DEF Types, Owns

\* Undo and Munmap: pages of the thread's allocation are unmapped, of small pages all.
LEMMA GivenBack ==
    ASSUME PageInv, NEW t \in Thread, call[t].op \in {"undo", "munmap"}, NEW n,
           Owns(t) => LET a == call[t].a
                      IN  /\ Span(a.addr, n) \subseteq PagesOf(a)
                          /\ \A p \in PagesOf(a) : pages[p] \in {"default", "nohugepage"} =>
                                 p \in Span(a.addr, n),
           Unmapped(call[t].a, n), call' = [call EXCEPT ![t] = Idle], UNCHANGED allocs
    PROVE  PageInv'
  <1> DEFINE a    == call[t].a
             gone == IF Owns(t) THEN Span(a.addr, n) ELSE {}
  <1>0. Types /\ Sizes /\ Apart /\ Advised /\ SmallAreHeld /\ StrayIsHeld /\ Trapped
    BY DEF PageInv
  <1>1. /\ call'[t] = Idle
        /\ \A s \in Thread \ {t} : call'[s] = call[s] /\ (Owns(s)' <=> Owns(s))
    BY <1>0, OthersGoOn
  <1>2. ~Owns(t)' /\ call'[t].op = "idle" BY <1>1 DEF Owns, Idle, Busy
  <1>3. call[t].op \in Busy /\ a \in Allocation BY <1>0, CallTypes DEF Busy
  <1>4. /\ pages' = [p \in Page |-> IF p \in gone THEN "unmapped" ELSE pages[p]]
        /\ pattern' = { b \in pattern : b \div PageSize \notin gone }
        /\ stray' = IF Owns(t) THEN stray \ Slack(a) ELSE stray
    BY <1>3 DEF Unmapped, Owns
  <1>5. /\ gone \subseteq PagesOf(a)
        /\ Owns(t) => \A p \in PagesOf(a) \ gone : pages[p] \notin {"default", "nohugepage"}
        /\ ~Owns(t) => gone = {}
    OBVIOUS
  <1>6. Owns(t) => Sound(a) BY <1>0 DEF Sizes
  <1>7. call[t].op = "munmap" => Owns(t) BY <1>0 DEF Sizes
  <1> HIDE DEF gone
  \* The pages unmapped are nobody else's.
  <1>8. /\ \A x \in allocs : PagesOf(x) \cap gone = {} /\ (Owns(t) => Disjoint(x, a))
        /\ \A s \in Thread \ {t} : Owns(s) =>
               PagesOf(call[s].a) \cap gone = {} /\ (Owns(t) => Disjoint(call[s].a, a))
    BY <1>0, <1>5 DEF Apart, Disjoint
  <1>9. Types'
    <2>1. pages' \in [Page -> {"unmapped", "default", "nohugepage", "hugepage"}]
      BY <1>0, <1>4 DEF Types
    <2> QED BY <2>1, <1>0 DEF Types
  <1>10. Sizes'
    BY <1>0, <1>1, <1>2 DEF Sizes
  <1>11. Apart'
    BY <1>0, <1>1, <1>2 DEF Apart
  <1>12. Advised'
    <2>1. ASSUME NEW x \in allocs, NEW p \in PagesOf(x) PROVE p \in Page /\ pages'[p] = Advice(x)
      BY <2>1, <1>0, <1>4, <1>8 DEF Advised
    <2>2. ASSUME NEW s \in Thread, Owns(s)', NEW p \in PagesOf(call'[s].a)
          PROVE  /\ p \in Page
                 /\ pages'[p] = IF call'[s].op \in {"madvise", "undo"} THEN "default"
                                ELSE Advice(call'[s].a)
      <3>1. s # t /\ call'[s] = call[s] /\ Owns(s) BY <2>2, <1>1, <1>2
      <3> QED BY <2>2, <3>1, <1>0, <1>4, <1>8 DEF Advised
    <2> QED BY <2>1, <2>2 DEF Advised
  <1>13. SmallAreHeld'
    <2> SUFFICES ASSUME NEW p \in Page, pages'[p] \in {"default", "nohugepage"}
                 PROVE  IsHeld(p)'
      BY DEF SmallAreHeld
    <2>1. p \notin gone /\ pages[p] \in {"default", "nohugepage"} BY <1>4
    <2>2. IsHeld(p) BY <2>1, <1>0 DEF SmallAreHeld
    <2>3. ASSUME NEW s \in Thread, Owns(s), p \in PagesOf(call[s].a)
          PROVE  s # t
      BY <2>1, <2>3, <1>5
    <2> QED BY <2>2, <2>3, <1>1 DEF IsHeld
  <1>14. StrayIsHeld'
    <2> SUFFICES ASSUME NEW b \in stray'
                 PROVE  \/ \E x \in allocs : b \in Slack(x)
                        \/ \E s \in Thread : /\ call'[s].op \in {"munmap", "failfast"}
                                             /\ b \in Slack(call'[s].a)
      BY DEF StrayIsHeld
    <2>1. b \in stray /\ (Owns(t) => b \notin Slack(a)) BY <1>4
    <2>2. ASSUME NEW s \in Thread, call[s].op \in {"munmap", "failfast"}, b \in Slack(call[s].a)
          PROVE  s # t
      BY <2>1, <2>2, <1>7
    <2> QED BY <2>1, <2>2, <1>0, <1>1 DEF StrayIsHeld
  <1>15. Trapped'
    <2>1. pattern' \subseteq pattern /\ stray' \subseteq stray BY <1>4
    <2>2. ASSUME NEW x \in Allocation, Sound(x), Owns(t) => Disjoint(x, a), NEW b \in Slack(x), b \in stray
          PROVE  b \in stray'
      BY <2>2, <1>3, <1>4, <1>6, SlacksApart
    <2>3. ASSUME NEW x \in allocs, NEW b \in Trap(x) PROVE b \in pattern' \cup stray'
      <3>1. x \in Allocation /\ Sound(x) BY <1>0 DEF Types, Sizes
      <3>2. b \in Slack(x) BY <3>1, TrapFacts
      <3>3. b \in pattern \cup stray BY <1>0 DEF Trapped
      <3>4. b \div PageSize \notin gone BY <3>1, <3>2, <1>8, SlackIsInside
      <3> QED BY <3>1, <3>2, <3>3, <3>4, <1>4, <1>8, <2>2
    <2>4. ASSUME NEW s \in Thread, call'[s].op # "idle" PROVE s # t /\ call'[s] = call[s] /\ (Owns(s)' <=> Owns(s))
      BY <2>4, <1>1, <1>2
    <2>5. ASSUME NEW s \in Thread, call'[s].op = "failfast"
          PROVE  stray' \cap Slack(call'[s].a) # {}
      <3>1. s # t /\ call'[s] = call[s] /\ call[s].op = "failfast" BY <2>4, <2>5
      <3>2. Owns(s) /\ Sound(call[s].a) BY <3>1, <1>0 DEF Sizes
      <3>3. call[s].a \in Allocation BY <3>1, <1>0, CallTypes DEF Busy
      <3>4. PICK b \in stray : b \in Slack(call[s].a) BY <3>1, <1>0 DEF Trapped
      <3> QED BY <3>1, <3>2, <3>3, <3>4, <1>8, <2>2
    <2>6. \A s \in Thread :
            /\ call'[s].op = "munmap" => Trap(call'[s].a) \cap stray' = {}
            /\ Owns(s)' /\ call'[s].op \in {"madvise", "undo", "trap"} =>
                   Slack(call'[s].a) \cap stray' = {}
      <3> SUFFICES ASSUME NEW s \in Thread
                   PROVE  /\ call'[s].op = "munmap" => Trap(call'[s].a) \cap stray' = {}
                          /\ Owns(s)' /\ call'[s].op \in {"madvise", "undo", "trap"} =>
                                 Slack(call'[s].a) \cap stray' = {}
        OBVIOUS
      <3> QED BY <2>1, <2>4, <1>0 DEF Trapped
    <2>7. pattern' \cap stray' = {} BY <2>1, <1>0 DEF Trapped
    <2> QED BY <2>3, <2>5, <2>6, <2>7 DEF Trapped
  <1> QED BY <1>9, <1>10, <1>11, <1>12, <1>13, <1>14, <1>15 DEF PageInv

\* Undo unmaps everything there is.
LEMMA UndoStep == ASSUME PageInv, NEW t \in Thread, Undo(t) PROVE PageInv'
  <1>1. call[t].op = "undo" /\ Unmapped(call[t].a, Full(call[t].a)) BY DEF Undo
  <1>2. call' = [call EXCEPT ![t] = Idle] /\ UNCHANGED allocs BY DEF Undo
  <1> QED BY <1>1, <1>2, GivenBack DEF PagesOf

\* What munmap leaves mapped of a large page is not a small one.
LEMMA MunmapStep == ASSUME PageInv, NEW t \in Thread, Munmap(t) PROVE PageInv'
  <1> DEFINE a == call[t].a
  <1>1. call[t].op = "munmap" /\ Unmapped(a, a.size) BY DEF Munmap
  <1>2. call' = [call EXCEPT ![t] = Idle] /\ UNCHANGED allocs BY DEF Munmap
  <1>3. a \in Allocation BY <1>1, CallTypes DEF PageInv, Busy
  <1>4. Owns(t) /\ Sound(a) BY <1>1 DEF PageInv, Sizes
  <1>5. Span(a.addr, a.size) \subseteq PagesOf(a) BY <1>3, <1>4, SpanOfSize
  <1>6. ASSUME NEW p \in PagesOf(a), pages[p] \in {"default", "nohugepage"}
        PROVE  p \in Span(a.addr, a.size)
    <2>1. pages[p] = Advice(a) BY <1>1, <1>4 DEF PageInv, Advised
    <2>2. a.kind = "page" BY <2>1, <1>6 DEF Advice
    <2> QED BY <2>2, <1>3, <1>4, SpanOfSmall
  <1> QED BY <1>1, <1>2, <1>5, <1>6, GivenBack

\* What is asked for is an allocation.
LEMMA RequestsTyped == Requests \subseteq Allocation
  <1> SUFFICES ASSUME NEW k \in Kind,
                      NEW a \in [kind : {k}, size : Size[k],
                                 addr : { p * PageSize : p \in Page } \cup {Failed}]
               PROVE  a \in Allocation
    BY DEF Requests
  <1>1. Kind = {"page", "largePage"} /\ k \in Kind BY DEF Kind, Size
  <1>2. Size[k] \subseteq Nat BY <1>1, PageAssumption DEF Size
  <1>3. PageSize \in Nat /\ NumPages \in Nat BY PageAssumption
  <1>4. \A p \in Page : p * PageSize \in Nat BY <1>3 DEF Page
  <1> QED BY <1>1, <1>2, <1>4 DEF Allocation

\* Only the thread that maps pages changes hands.
LEMMA MmapStep ==
    ASSUME PageInv, NEW t \in Thread, NEW a \in Requests, Mmap(t, a)
    PROVE  PageInv'
  <1>0. Types /\ Sizes /\ Apart /\ Advised /\ SmallAreHeld /\ StrayIsHeld /\ Trapped
    BY DEF PageInv
  <1> DEFINE c == [op |-> "madvise", a |-> a]
  <1>1. /\ call[t] = Idle /\ call' = [call EXCEPT ![t] = c] /\ HasPageSize(a)
        /\ UNCHANGED <<pattern, stray, allocs>>
    BY DEF Mmap, HasPageSize
  <1>2. /\ call'[t] = c
        /\ \A s \in Thread \ {t} : call'[s] = call[s] /\ (Owns(s)' <=> Owns(s))
    BY <1>0, <1>1, OthersGoOn
  <1>3. a \in Allocation /\ ~Owns(t) BY <1>1, RequestsTyped DEF Owns, Idle, Busy
  <1>4. Owns(t)' <=> a.addr # Failed BY <1>2 DEF Owns, Busy
  <1>5. CASE a.addr = Failed
    <2>1. UNCHANGED pages /\ ~Owns(t)' BY <1>4, <1>5 DEF Mmap
    <2>2. Types' BY <1>0, <1>1, <1>3, <2>1 DEF Types, Busy
    <2>3. Sizes' BY <1>0, <1>1, <1>2, <2>1 DEF Sizes
    <2>4. Apart' BY <1>0, <1>1, <1>2, <2>1 DEF Apart
    <2>5. Advised' BY <1>0, <1>1, <1>2, <2>1 DEF Advised
    <2>6. SmallAreHeld' BY <1>0, <1>1, <1>2, <1>3, <2>1 DEF SmallAreHeld, IsHeld
    <2>7. StrayIsHeld' BY <1>0, <1>1, <1>2, <2>1 DEF StrayIsHeld, Idle
    <2>8. Trapped' BY <1>0, <1>1, <1>2, <2>1 DEF Trapped
    <2> QED BY <2>2, <2>3, <2>4, <2>5, <2>6, <2>7, <2>8 DEF PageInv
  <1>6. CASE a.addr # Failed
    <2>1. /\ Full(a) > 0 /\ a.addr % PageSize = 0
          /\ \A p \in PagesOf(a) : p \in Page /\ pages[p] = "unmapped"
          /\ pages' = [p \in Page |-> IF p \in PagesOf(a) THEN "default" ELSE pages[p]]
      BY <1>6 DEF Mmap, Advise, PagesOf
    <2>2. Sound(a) /\ Owns(t)' BY <1>1, <1>3, <1>4, <1>6, <2>1 DEF Sound, Allocation
    \* The pages were nobody's.
    <2>3. /\ \A x \in allocs : Disjoint(x, a)
          /\ \A s \in Thread : Owns(s) => Disjoint(call[s].a, a)
      BY <1>0, <2>1 DEF Advised, Advice, Disjoint
    <2>4. Types'
      <3>1. pages' \in [Page -> {"unmapped", "default", "nohugepage", "hugepage"}]
        BY <1>0, <2>1 DEF Types
      <3> QED BY <3>1, <1>0, <1>1, <1>3 DEF Types, Busy
    <2>5. Sizes' BY <1>0, <1>1, <1>2, <2>2 DEF Sizes
    <2>6. Apart'
      <3>1. \A s \in Thread : s # t /\ Owns(s)' => Owns(s) /\ Disjoint(call'[s].a, a)
        BY <1>2, <2>3
      <3> QED BY <3>1, <1>0, <1>1, <1>2, <2>3 DEF Apart, Disjoint
    <2>7. Advised'
      <3>1. ASSUME NEW x \in allocs, NEW p \in PagesOf(x)
            PROVE  p \in Page /\ pages'[p] = Advice(x)
        BY <3>1, <1>0, <2>1, <2>3 DEF Advised, Disjoint
      <3>2. ASSUME NEW s \in Thread, Owns(s)', NEW p \in PagesOf(call'[s].a)
            PROVE  /\ p \in Page
                   /\ pages'[p] = IF call'[s].op \in {"madvise", "undo"} THEN "default"
                                  ELSE Advice(call'[s].a)
        <4>1. CASE s = t BY <4>1, <3>2, <1>2, <2>1
        <4>2. CASE s # t BY <4>2, <3>2, <1>0, <1>2, <2>1, <2>3 DEF Advised, Disjoint
        <4> QED BY <4>1, <4>2
      <3> QED BY <3>1, <3>2, <1>1 DEF Advised
    <2>8. SmallAreHeld'
      <3> SUFFICES ASSUME NEW p \in Page, pages'[p] \in {"default", "nohugepage"}
                   PROVE  IsHeld(p)'
        BY DEF SmallAreHeld
      <3>1. CASE p \in PagesOf(a) BY <3>1, <1>2, <2>2 DEF IsHeld
      <3>2. CASE p \notin PagesOf(a)
        <4>1. IsHeld(p) BY <3>2, <2>1, <1>0 DEF SmallAreHeld
        <4> QED BY <4>1, <1>1, <1>2, <1>3 DEF IsHeld
      <3> QED BY <3>1, <3>2
    <2>9. StrayIsHeld' BY <1>0, <1>1, <1>2 DEF StrayIsHeld, Idle
    <2>10. Slack(a) \cap stray = {}
      <3> SUFFICES ASSUME NEW b \in stray PROVE b \notin Slack(a) OBVIOUS
      <3>1. CASE \E x \in allocs : b \in Slack(x)
        <4>1. PICK x \in allocs : b \in Slack(x) BY <3>1
        <4>2. x \in Allocation /\ Sound(x) BY <1>0 DEF Types, Sizes
        <4> QED BY <4>1, <4>2, <1>3, <2>2, <2>3, SlacksApart
      <3>2. CASE \E s \in Thread : call[s].op \in {"munmap", "failfast"} /\ b \in Slack(call[s].a)
        <4>1. PICK s \in Thread : call[s].op \in {"munmap", "failfast"} /\ b \in Slack(call[s].a)
          BY <3>2
        <4>2. Owns(s) /\ Sound(call[s].a) BY <4>1, <1>0 DEF Sizes
        <4>3. call[s].a \in Allocation BY <4>1, <1>0, CallTypes DEF Busy
        <4> QED BY <4>1, <4>2, <4>3, <1>3, <2>2, <2>3, SlacksApart
      <3> QED BY <3>1, <3>2, <1>0 DEF StrayIsHeld
    <2>11. Trapped' BY <1>0, <1>1, <1>2, <2>10 DEF Trapped
    <2> QED BY <2>4, <2>5, <2>6, <2>7, <2>8, <2>9, <2>11 DEF PageInv
  <1> QED BY <1>5, <1>6

\* Advice is given on the thread's own pages, or nothing changes but what it does next.
LEMMA MadviseStep == ASSUME PageInv, NEW t \in Thread, Madvise(t) PROVE PageInv'
  <1>0. Types /\ Sizes /\ Apart /\ Advised /\ SmallAreHeld /\ StrayIsHeld /\ Trapped
    BY DEF PageInv
  <1> DEFINE a == call[t].a
             c == [op |-> IF call'[t].op = "trap" THEN "trap" ELSE "undo", a |-> a]
             advised == IF call'[t].op = "trap" THEN PagesOf(a) ELSE {}
  <1>1. call[t].op = "madvise" /\ UNCHANGED <<pattern, stray, allocs>> BY DEF Madvise
  <1>2. call[t] \in [op : Busy, a : Allocation] /\ a \in Allocation
    BY <1>0, <1>1, CallTypes DEF Busy
  <1>3. /\ call' = [call EXCEPT ![t] = c]
        /\ call'[t].op = "trap" => a.addr # Failed
        /\ pages' = [p \in Page |-> IF p \in advised THEN Advice(a) ELSE pages[p]]
    <2>1. CASE /\ a.addr # Failed /\ call' = [call EXCEPT ![t].op = "trap"]
               /\ Advise(a, IF a.kind = "page" THEN "nohugepage" ELSE "hugepage")
      <3>0. [call[t] EXCEPT !.op = "trap"] = [op |-> "trap", a |-> a] BY <1>2
      <3>1. call' = [call EXCEPT ![t] = [op |-> "trap", a |-> a]] BY <2>1, <3>0
      <3>2. call'[t].op = "trap" BY <3>1, <1>0 DEF Types
      <3> QED BY <2>1, <3>1, <3>2 DEF Advise, Advice, PagesOf
    <2>2. CASE call' = [call EXCEPT ![t].op = "undo"] /\ UNCHANGED pages
      <3>0. [call[t] EXCEPT !.op = "undo"] = [op |-> "undo", a |-> a] BY <1>2
      <3>1. call' = [call EXCEPT ![t] = [op |-> "undo", a |-> a]] BY <2>2, <3>0
      <3>2. call'[t].op = "undo" BY <3>1, <1>0 DEF Types
      <3> QED BY <2>2, <3>1, <3>2, <1>0 DEF Types
    <2> QED BY <2>1, <2>2 DEF Madvise
  <1>4. /\ call'[t] = c /\ call'[t].a = a /\ call'[t].op \in {"trap", "undo"}
        /\ \A s \in Thread \ {t} : call'[s] = call[s] /\ (Owns(s)' <=> Owns(s))
    BY <1>0, <1>3, OthersGoOn
  <1>5. (Owns(t)' <=> Owns(t)) /\ (call'[t].op = "trap" => Owns(t))
    BY <1>1, <1>3, <1>4 DEF Owns, Busy
  <1> HIDE DEF a, c
  <1>6. \A s \in Thread : call'[s].a = call[s].a /\ (Owns(s)' <=> Owns(s))
    BY <1>4, <1>5 DEF a
  <1>7. Owns(t) => advised \subseteq PagesOf(a) /\ \A p \in PagesOf(a) : p \in Page
    BY <1>0 DEF Advised, a
  <1>8. ~Owns(t) => advised = {} BY <1>5
  <1>9. /\ \A x \in allocs : PagesOf(x) \cap advised = {}
        /\ \A s \in Thread \ {t} : Owns(s) => PagesOf(call[s].a) \cap advised = {}
    BY <1>0, <1>7, <1>8 DEF Apart, Disjoint, a
  <1>10. Types'
    <2>1. pages' \in [Page -> {"unmapped", "default", "nohugepage", "hugepage"}]
      BY <1>0, <1>3 DEF Types, Advice
    <2>2. c \in [op : Busy, a : Allocation] BY <1>2 DEF c, Busy
    <2> QED BY <2>1, <2>2, <1>0, <1>1, <1>3 DEF Types
  <1>11. Sizes' BY <1>0, <1>1, <1>4, <1>5, <1>6 DEF Sizes
  <1>12. Apart' BY <1>0, <1>1, <1>6 DEF Apart
  <1>13. Advised'
    <2>1. ASSUME NEW x \in allocs, NEW p \in PagesOf(x)
          PROVE  p \in Page /\ pages'[p] = Advice(x)
      BY <2>1, <1>0, <1>3, <1>9 DEF Advised
    <2>2. ASSUME NEW s \in Thread, Owns(s)', NEW p \in PagesOf(call'[s].a)
          PROVE  /\ p \in Page
                 /\ pages'[p] = IF call'[s].op \in {"madvise", "undo"} THEN "default"
                                ELSE Advice(call'[s].a)
      <3>1. CASE s # t BY <3>1, <2>2, <1>0, <1>3, <1>4, <1>9 DEF Advised
      <3>2. CASE s = t /\ call'[t].op = "trap"
        BY <3>2, <2>2, <1>3, <1>4, <1>5, <1>7
      <3>3. CASE s = t /\ call'[t].op = "undo"
        BY <3>3, <2>2, <1>0, <1>1, <1>3, <1>4, <1>5 DEF Advised, a
      <3> QED BY <3>1, <3>2, <3>3, <1>4
    <2> QED BY <2>1, <2>2, <1>1 DEF Advised
  <1>14. SmallAreHeld'
    <2> SUFFICES ASSUME NEW p \in Page, pages'[p] \in {"default", "nohugepage"}
                 PROVE  IsHeld(p)'
      BY DEF SmallAreHeld
    <2>1. CASE p \in advised BY <2>1, <1>4, <1>5, <1>7, <1>8 DEF IsHeld
    <2>2. CASE p \notin advised
      <3>1. IsHeld(p) BY <2>2, <1>0, <1>3 DEF SmallAreHeld
      <3> QED BY <3>1, <1>1, <1>6 DEF IsHeld
    <2> QED BY <2>1, <2>2
  <1>15. StrayIsHeld'
    <2>1. \A s \in Thread : call[s].op \in {"munmap", "failfast"} => call'[s] = call[s]
      BY <1>1, <1>4
    <2> QED BY <2>1, <1>0, <1>1 DEF StrayIsHeld
  <1>16. Trapped' BY <1>0, <1>1, <1>4, <1>5, <1>6 DEF Trapped
  <1> QED BY <1>10, <1>11, <1>12, <1>13, <1>14, <1>15, <1>16 DEF PageInv

\* What the thread made is the user's.
LEMMA SetTrapStep == ASSUME PageInv, NEW t \in Thread, SetTrap(t) PROVE PageInv'
  <1>0. Types /\ Sizes /\ Apart /\ Advised /\ SmallAreHeld /\ StrayIsHeld /\ Trapped
    BY DEF PageInv
  <1> DEFINE a == call[t].a
  <1>1. /\ call[t].op = "trap" /\ UNCHANGED <<pages, stray>>
        /\ pattern' = pattern \cup Trap(a) /\ allocs' = allocs \cup {a}
        /\ call' = [call EXCEPT ![t] = Idle]
    BY DEF SetTrap
  <1>2. a \in Allocation /\ Owns(t) /\ Sound(a)
    BY <1>0, <1>1, CallTypes DEF Busy, Sizes
  <1>3. /\ call'[t] = Idle /\ call'[t].op = "idle" /\ ~Owns(t)'
        /\ \A s \in Thread \ {t} : call'[s] = call[s] /\ (Owns(s)' <=> Owns(s))
    <2>1. /\ call'[t] = Idle
          /\ \A s \in Thread \ {t} : call'[s] = call[s] /\ (Owns(s)' <=> Owns(s))
      BY <1>0, <1>1, OthersGoOn
    <2> QED BY <2>1 DEF Owns, Idle, Busy
  <1>4. /\ \A x \in allocs : Disjoint(x, a) /\ Disjoint(a, x)
        /\ \A s \in Thread \ {t} : Owns(s) => Disjoint(a, call[s].a)
    BY <1>0, <1>2 DEF Apart, Disjoint
  <1>5. Trap(a) \subseteq Slack(a) /\ Slack(a) \cap stray = {}
    BY <1>0, <1>1, <1>2, TrapFacts DEF Trapped
  <1>6. \A p \in PagesOf(a) : p \in Page /\ pages[p] = Advice(a)
    BY <1>0, <1>1, <1>2 DEF Advised
  <1> HIDE DEF a
  <1>7. Types' BY <1>0, <1>1, <1>2 DEF Types
  <1>8. Sizes' BY <1>0, <1>1, <1>2, <1>3 DEF Sizes
  <1>9. Apart' BY <1>0, <1>1, <1>3, <1>4 DEF Apart
  <1>10. Advised'
    <2>1. \A x \in allocs' : \A p \in PagesOf(x) : p \in Page /\ pages'[p] = Advice(x)
      BY <1>0, <1>1, <1>6 DEF Advised
    <2>2. ASSUME NEW s \in Thread, Owns(s)', NEW p \in PagesOf(call'[s].a)
          PROVE  /\ p \in Page
                 /\ pages'[p] = IF call'[s].op \in {"madvise", "undo"} THEN "default"
                                ELSE Advice(call'[s].a)
      BY <2>2, <1>0, <1>1, <1>3 DEF Advised
    <2> QED BY <2>1, <2>2 DEF Advised
  <1>11. SmallAreHeld'
    <2> SUFFICES ASSUME NEW p \in Page, IsHeld(p) PROVE IsHeld(p)'
      BY <1>0, <1>1 DEF SmallAreHeld
    <2>1. CASE \E x \in allocs : x.addr # Failed /\ p \in PagesOf(x) BY <2>1, <1>1 DEF IsHeld
    <2>2. CASE \E s \in Thread : Owns(s) /\ p \in PagesOf(call[s].a)
      <3>1. PICK s \in Thread : Owns(s) /\ p \in PagesOf(call[s].a) BY <2>2
      <3>2. CASE s = t BY <3>1, <3>2, <1>1, <1>2 DEF IsHeld, Owns, a
      <3>3. CASE s # t BY <3>1, <3>3, <1>3 DEF IsHeld
      <3> QED BY <3>2, <3>3
    <2> QED BY <2>1, <2>2 DEF IsHeld
  <1>12. StrayIsHeld'
    <2>1. \A s \in Thread : call[s].op \in {"munmap", "failfast"} => call'[s] = call[s]
      BY <1>1, <1>3
    <2> QED BY <2>1, <1>0, <1>1 DEF StrayIsHeld
  <1>13. Trapped'
    <2>1. pattern' \cap stray' = {} BY <1>0, <1>1, <1>5 DEF Trapped
    <2>2. \A x \in allocs' : Trap(x) \subseteq pattern' \cup stray' BY <1>0, <1>1 DEF Trapped
    <2> QED BY <2>1, <2>2, <1>0, <1>1, <1>3 DEF Trapped
  <1> QED BY <1>7, <1>8, <1>9, <1>10, <1>11, <1>12, <1>13 DEF PageInv

\* The user's allocation becomes the thread's, and what the check finds is true of it.
LEMMA FreeStep ==
    ASSUME PageInv, NEW t \in Thread, NEW a \in allocs, Free(t, a)
    PROVE  PageInv'
  <1>0. Types /\ Sizes /\ Apart /\ Advised /\ SmallAreHeld /\ StrayIsHeld /\ Trapped
    BY DEF PageInv
  <1> DEFINE intact == Trap(a) \subseteq pattern
             c == [op |-> IF intact THEN "munmap" ELSE "failfast", a |-> a]
  <1>1. /\ call[t] = Idle /\ UNCHANGED <<pages, pattern, stray>>
        /\ allocs' = allocs \ {a} /\ call' = [call EXCEPT ![t] = c]
    BY DEF Free
  <1>2. a \in Allocation /\ Sound(a) BY <1>0 DEF Types, Sizes
  <1>3. a.addr # Failed BY <1>2 DEF Sound, Failed
  <1>4. /\ call'[t] = c
        /\ \A s \in Thread \ {t} : call'[s] = call[s] /\ (Owns(s)' <=> Owns(s))
    BY <1>0, <1>1, OthersGoOn
  <1>5. Owns(t)' /\ ~Owns(t) /\ call'[t].a = a /\ call'[t].op \in {"munmap", "failfast"}
    BY <1>1, <1>3, <1>4 DEF Owns, Idle, Busy
  <1>6. Trap(a) \subseteq Slack(a) /\ Trap(a) \subseteq pattern \cup stray /\ pattern \cap stray = {}
    BY <1>0, <1>2, TrapFacts DEF Trapped
  <1>7. /\ call'[t].op = "munmap" => Trap(a) \cap stray = {}
        /\ call'[t].op = "failfast" => stray \cap Slack(a) # {}
    BY <1>4, <1>6
  <1> HIDE DEF intact
  <1>8. Types' BY <1>0, <1>1, <1>2 DEF Types, Busy
  <1>9. Sizes' BY <1>0, <1>1, <1>2, <1>4, <1>5 DEF Sizes
  <1>10. Apart' BY <1>0, <1>1, <1>4, <1>5 DEF Apart, Disjoint
  <1>11. Advised'
    <2>1. ASSUME NEW s \in Thread, Owns(s)', NEW p \in PagesOf(call'[s].a)
          PROVE  /\ p \in Page
                 /\ pages'[p] = IF call'[s].op \in {"madvise", "undo"} THEN "default"
                                ELSE Advice(call'[s].a)
      <3>1. CASE s = t BY <3>1, <2>1, <1>0, <1>1, <1>5 DEF Advised
      <3>2. CASE s # t BY <3>2, <2>1, <1>0, <1>1, <1>4 DEF Advised
      <3> QED BY <3>1, <3>2
    <2> QED BY <2>1, <1>0, <1>1 DEF Advised
  <1>12. SmallAreHeld'
    <2> SUFFICES ASSUME NEW p \in Page, IsHeld(p) PROVE IsHeld(p)'
      BY <1>0, <1>1 DEF SmallAreHeld
    <2>1. CASE p \in PagesOf(a) BY <2>1, <1>5 DEF IsHeld
    <2>2. CASE p \notin PagesOf(a) BY <2>2, <1>1, <1>4, <1>5 DEF IsHeld
    <2> QED BY <2>1, <2>2
  <1>13. StrayIsHeld'
    <2> SUFFICES ASSUME NEW b \in stray
                 PROVE  \/ \E x \in allocs' : b \in Slack(x)
                        \/ \E s \in Thread : /\ call'[s].op \in {"munmap", "failfast"}
                                             /\ b \in Slack(call'[s].a)
      BY <1>1 DEF StrayIsHeld
    <2>1. CASE b \in Slack(a) BY <2>1, <1>5
    <2>2. CASE b \notin Slack(a)
      <3>1. \A s \in Thread : call[s].op \in {"munmap", "failfast"} => s # t
        BY <1>1 DEF Idle
      <3> QED BY <2>2, <3>1, <1>0, <1>1, <1>4 DEF StrayIsHeld
    <2> QED BY <2>1, <2>2
  <1>14. Trapped' BY <1>0, <1>1, <1>4, <1>5, <1>7 DEF Trapped
  <1> QED BY <1>8, <1>9, <1>10, <1>11, <1>12, <1>13, <1>14 DEF PageInv

\* A user writes only to bytes of its own allocation.
LEMMA WriteStep ==
    ASSUME PageInv, NEW a \in allocs, NEW b \in Bytes(a.addr, Full(a)), Write(a, b)
    PROVE  PageInv'
  <1>0. Types /\ Sizes /\ Apart /\ Advised /\ SmallAreHeld /\ StrayIsHeld /\ Trapped
    BY DEF PageInv
  <1>1. /\ pattern' = pattern \ {b} /\ stray' = stray \cup ({b} \cap Slack(a))
        /\ UNCHANGED <<pages, allocs, call>>
    BY DEF Write
  <1>2. a \in Allocation /\ Sound(a) BY <1>0 DEF Types, Sizes
  <1>3. b \div PageSize \in PagesOf(a) BY PageOfByte
  <1>4. ASSUME NEW x \in Allocation, Sound(x), Disjoint(a, x)
        PROVE  b \notin Slack(x)
    BY <1>3, <1>4, SlackIsInside DEF Disjoint
  <1>5. Types' /\ Sizes' /\ Apart' /\ Advised' /\ SmallAreHeld'
    <2>1. Types' BY <1>0, <1>1 DEF Types
    <2>2. Sizes' BY <1>0, <1>1 DEF Sizes, Owns
    <2>3. Apart' BY <1>0, <1>1 DEF Apart, Owns
    <2>4. Advised' BY <1>0, <1>1 DEF Advised, Owns
    <2>5. SmallAreHeld' BY <1>0, <1>1 DEF SmallAreHeld, IsHeld, Owns
    <2> QED BY <2>1, <2>2, <2>3, <2>4, <2>5
  <1>6. StrayIsHeld' BY <1>0, <1>1 DEF StrayIsHeld
  <1>7. Trapped'
    <2>1. pattern' \cap stray' = {} BY <1>0, <1>1 DEF Trapped
    <2>2. ASSUME NEW x \in allocs, NEW d \in Trap(x) PROVE d \in pattern' \cup stray'
      <3>1. x \in Allocation /\ Sound(x) BY <1>0 DEF Types, Sizes
      <3>2. d \in Slack(x) /\ d \in pattern \cup stray
        BY <1>0, <3>1, TrapFacts DEF Trapped
      <3>3. d = b => x = a BY <3>1, <3>2, <1>0, <1>4 DEF Apart
      <3> QED BY <3>2, <3>3, <1>1
    <2>3. ASSUME NEW s \in Thread, Owns(s)
          PROVE  b \notin Slack(call[s].a) /\ Trap(call[s].a) \subseteq Slack(call[s].a)
      <3>1. call[s].a \in Allocation /\ Sound(call[s].a)
        BY <2>3, <1>0, CallTypes DEF Owns, Sizes
      <3>2. Disjoint(a, call[s].a) BY <2>3, <1>0 DEF Apart
      <3> QED BY <3>1, <3>2, <1>4, TrapFacts
    <2>4. ASSUME NEW s \in Thread
          PROVE  /\ call[s].op = "munmap" => Trap(call[s].a) \cap stray' = {}
                 /\ call[s].op = "failfast" => stray' \cap Slack(call[s].a) # {}
                 /\ Owns(s) /\ call[s].op \in {"madvise", "undo", "trap"} =>
                        Slack(call[s].a) \cap stray' = {}
      <3>1. call[s].op = "munmap" => Owns(s) BY <1>0 DEF Sizes
      <3> QED BY <3>1, <2>3, <1>0, <1>1 DEF Trapped
    <2>5. \A s \in Thread : Owns(s)' <=> Owns(s) BY <1>1 DEF Owns
    <2> QED BY <2>1, <2>2, <2>4, <2>5, <1>1 DEF Trapped
  <1> QED BY <1>5, <1>6, <1>7 DEF PageInv

\* Every step keeps the invariant: one case per action.
LEMMA PageNext == PageInv /\ [Next]_vars => PageInv'
  <1> SUFFICES ASSUME PageInv, [Next]_vars PROVE PageInv' OBVIOUS
  <1>1. CASE UNCHANGED vars
    <2> USE <1>1 DEF vars, PageInv
    <2>1. Types' BY DEF Types
    <2>2. Sizes' BY DEF Sizes, Owns
    <2>3. Apart' BY DEF Apart, Owns
    <2>4. Advised' BY DEF Advised, Owns
    <2>5. SmallAreHeld' BY DEF SmallAreHeld, IsHeld, Owns
    <2>6. StrayIsHeld' BY DEF StrayIsHeld
    <2>7. Trapped' BY DEF Trapped, Owns
    <2> QED BY <2>1, <2>2, <2>3, <2>4, <2>5, <2>6, <2>7
  <1>2. CASE Next
    <2>1. ASSUME NEW t \in Thread, NEW a \in Requests, Mmap(t, a) PROVE PageInv'
      BY <2>1, MmapStep
    <2>2. ASSUME NEW t \in Thread, Madvise(t) PROVE PageInv' BY <2>2, MadviseStep
    <2>3. ASSUME NEW t \in Thread, Undo(t) PROVE PageInv' BY <2>3, UndoStep
    <2>4. ASSUME NEW t \in Thread, SetTrap(t) PROVE PageInv' BY <2>4, SetTrapStep
    <2>5. ASSUME NEW t \in Thread, Munmap(t) PROVE PageInv' BY <2>5, MunmapStep
    <2>6. ASSUME NEW t \in Thread, NEW a \in allocs, Free(t, a) PROVE PageInv'
      BY <2>6, FreeStep
    <2>7. ASSUME NEW a \in allocs, NEW b \in Bytes(a.addr, Full(a)), Write(a, b)
          PROVE  PageInv'
      BY <2>7, WriteStep
    <2> QED BY <1>2, <2>1, <2>2, <2>3, <2>4, <2>5, <2>6, <2>7 DEF Next
  <1> QED BY <1>1, <1>2

LEMMA PageInvariance == Spec => []PageInv
  BY PageInit, PageNext, PTL DEF Spec

----------------------------------------------------------------------------
(* What it implies.                                                        *)

\* The allocations that pages belong to are those of users and of the calls under way.
LEMMA HeldIs ==
    ASSUME Types
    PROVE  /\ \A o \in Held : o \in allocs \/ \E t \in Thread : call[t].op \in Busy /\ o = call[t].a
           /\ \A p : IsHeld(p) => p \in HeldPages(Held)
  <1>1. \A t \in Thread : call[t] # Idle <=> call[t].op \in Busy
    BY DEF Types, Idle, Busy
  <1>2. ASSUME NEW p, IsHeld(p) PROVE p \in HeldPages(Held)
    BY <1>1, <1>2 DEF IsHeld, Held, HeldPages, PagesOf, Owns
  <1> QED BY <1>1, <1>2 DEF Held

\* What page_alloc and large_page_alloc give a user is mapped to its last byte with the
\* advice asked for, and belongs to nobody else, as long as the user has it.
THEOREM AllocationsAreSafe == Spec => []AllocationsAreMapped
  <1>1. ASSUME PageInv PROVE AllocationsAreMapped
    <2> SUFFICES ASSUME NEW a \in allocs
                 PROVE  /\ a.addr # Failed
                        /\ \A p \in Span(a.addr, Full(a)) :
                               pages[p] = IF a.kind = "page" THEN "nohugepage" ELSE "hugepage"
                        /\ \A o \in Held \ {a} : Span(a.addr, Full(a)) \cap HeldPages({o}) = {}
      BY DEF AllocationsAreMapped
    <2>1. a.addr # Failed BY <1>1 DEF PageInv, Sizes, Sound, Failed
    <2>2. \A p \in Span(a.addr, Full(a)) :
              pages[p] = IF a.kind = "page" THEN "nohugepage" ELSE "hugepage"
      BY <1>1 DEF PageInv, Advised, PagesOf, Advice
    <2>3. ASSUME NEW o \in Held \ {a} PROVE PagesOf(a) \cap HeldPages({o}) = {}
      <3>1. HeldPages({o}) = IF o.addr # Failed THEN PagesOf(o) ELSE {}
        BY DEF HeldPages, PagesOf
      <3>2. CASE o \in allocs
        BY <3>1, <3>2, <1>1 DEF PageInv, Apart, Disjoint
      <3>3. CASE \E t \in Thread : call[t].op \in Busy /\ o = call[t].a
        BY <3>1, <3>3, <1>1 DEF PageInv, Apart, Disjoint, Owns
      <3> QED BY <3>2, <3>3, <1>1, HeldIs DEF PageInv
    <2> QED BY <2>1, <2>2, <2>3 DEF PagesOf
  <1> QED BY <1>1, PageInvariance, PTL

\* page_free and large_page_free end the program only if somebody wrote behind the data,
\* and always if it was the next byte and a word of the trap fits there.
THEOREM TrapsAreReliable == Spec => []TrapIsReliable
  <1>1. ASSUME PageInv PROVE TrapIsReliable
    <2> SUFFICES ASSUME NEW t \in Thread
                 PROVE  /\ call[t].op = "failfast" => stray \cap Slack(call[t].a) # {}
                        /\ call[t].op = "munmap" /\ Word <= Cardinality(Slack(call[t].a))
                               => call[t].a.addr + call[t].a.size \notin stray
      BY DEF TrapIsReliable
    <2>1. call[t].op = "failfast" => stray \cap Slack(call[t].a) # {}
      BY <1>1 DEF PageInv, Trapped
    <2>2. ASSUME call[t].op = "munmap", Word <= Cardinality(Slack(call[t].a))
          PROVE  call[t].a.addr + call[t].a.size \notin stray
      <3>1. call[t].a \in Allocation /\ Sound(call[t].a) /\ Trap(call[t].a) \cap stray = {}
        BY <2>2, <1>1, CallTypes DEF PageInv, Busy, Sizes, Trapped
      <3> QED BY <3>1, <2>2, TrapFacts
    <2> QED BY <2>1, <2>2
  <1> QED BY <1>1, PageInvariance, PTL

\* page_alloc and page_free leave no page mapped that nobody holds, whatever fails.
THEOREM NoSmallPageLeaks == Spec => []SmallPagesAreReturned
  <1>1. ASSUME PageInv PROVE SmallPagesAreReturned
    BY <1>1, HeldIs DEF PageInv, SmallAreHeld, SmallPagesAreReturned
  <1> QED BY <1>1, PageInvariance, PTL

----------------------------------------------------------------------------
(* Memory from allocators that do not align.                               *)

\* What aligned_allocator_adaptor allocates has room for the aligned data, the trap and the
\* pointer, wherever it is, or allocate throws since the sizes do not fit; its check that
\* the sum has not become smaller finds every overflow, since what is added to the
\* size of the data fits std::size_t itself.
THEOREM AdaptorSound ==
    ASSUME NEW n \in Nat, NEW size \in 1 .. Limit, NEW a \in Nat \ {0},
           a + PointerSize - 1 + 2 * WordSize <= Limit
    PROVE  AdaptorStaysInside(n, size, a)
  <1> DEFINE extra == a + PointerSize - 1 + 2 * WordSize
             nbData == n * size
             sum == nbData + extra
  <1> USE AdaptorAssumption
  <1>1. nbData \in Nat /\ extra \in 1 .. Limit BY SMT
  <1>2. NbAlloc(nbData, a) = Wrap(sum, Limit)
    <2>1. nbData + extra = nbData + a + PointerSize - 1 + 2 * WordSize BY <1>1
    <2> QED BY <2>1 DEF NbAlloc
  <1>3. CASE n >= Limit \div size
    <2> DEFINE q == Limit \div size
               r == Limit % size
    <2>1. q \in Nat /\ r \in 0 .. size-1 /\ Limit = size * q + r
      <3>1. size \in Nat \ {0} OBVIOUS
      <3> QED BY <3>1, DivMod
    <2>2. size * q <= size * n BY <2>1, <1>3, TimesMono
    <2>3. size * n = nbData OBVIOUS
    <2>4. nbData + size > Limit
      <3> HIDE DEF q, r, nbData
      <3> QED BY <2>1, <2>2, <2>3, <1>1
    <2>5. Rejected(n, size, a) BY <1>3 DEF Rejected
    <2>6. nbData + size + a + PointerSize + 2 * WordSize > Limit
      <3> HIDE DEF nbData
      <3> QED BY <2>4, <1>1
    <2> QED BY <2>5, <2>6 DEF AdaptorStaysInside
  <1>4. CASE n < Limit \div size
    <2>1. n * size <= Limit
      <3>1. Limit \div size \in Nat BY DivMod
      <3>2. ~(n > Limit \div size) BY <3>1, <1>4
      <3> QED BY <3>2, <1>1, DivBound
    <2>2. ~(n >= Limit \div size)
      <3>1. Limit \div size \in Nat BY DivMod
      <3> QED BY <3>1, <1>4
    <2>3. CASE nbData + extra > Limit
      <3>1. NbAlloc(nbData, a) = nbData + extra - (Limit + 1)
        <4>1. nbData + extra \in Nat /\ nbData + extra <= 2 * Limit + 1
          <5> HIDE DEF nbData, extra
          <5> QED BY <1>1, <2>1 DEF nbData
        <4> HIDE DEF nbData, extra
        <4>2. sum \in Nat /\ Limit < sum /\ sum <= 2 * Limit + 1 BY <4>1, <2>3
        <4>3. Wrap(sum, Limit) = sum - (Limit + 1)
          <5> HIDE DEF sum
          <5> QED BY <4>2, WrapOnce
        <4>4. NbAlloc(nbData, a) = sum - (Limit + 1)
          <5> HIDE DEF sum
          <5> QED BY <4>3, <1>2
        <4> QED BY <4>4, <1>1
      <3>2. NbAlloc(nbData, a) < nbData
        <4> HIDE DEF nbData, extra
        <4> QED BY <3>1, <1>1
      <3>3. Rejected(n, size, a) BY <3>2 DEF Rejected
      <3>4. nbData + size + a + PointerSize + 2 * WordSize > Limit
        <4> HIDE DEF nbData
        <4> QED BY <2>3, <1>1
      <3> QED BY <3>3, <3>4 DEF AdaptorStaysInside
    <2>4. CASE nbData + extra <= Limit
      <3>1. NbAlloc(nbData, a) = nbData + extra
        <4>1. sum \in 0 .. Limit
          <5> HIDE DEF nbData, extra
          <5> QED BY <1>1, <2>4
        <4>2. NbAlloc(nbData, a) = sum
          <5> HIDE DEF sum
          <5> QED BY <4>1, <1>2, WrapFits
        <4> QED BY <4>2
      <3>2. ~Rejected(n, size, a)
        <4>1. ~(NbAlloc(nbData, a) < nbData)
          <5> HIDE DEF nbData, extra
          <5> QED BY <3>1, <1>1
        <4> QED BY <4>1, <2>2 DEF Rejected
      <3>3. ASSUME NEW mem \in 1 .. Limit + 1 - NbAlloc(nbData, a)
            PROVE  LET data == Aligned(mem, a)
                   IN  /\ data % a = 0 /\ mem <= data
                       /\ Fits(mem, nbData, a)
                       /\ PointerAt(data, nbData) + PointerSize
                              <= mem + NbAlloc(nbData, a)
        <4> DEFINE e == a - ((mem - 1) % a) - 1
        <4>1. mem \in Nat \ {0}
          <5> HIDE DEF nbData, extra
          <5> QED BY <3>1, <1>1
        <4>2. e \in 0 .. a-1 /\ IsCeiling(mem + e, mem, a) BY <4>1, CeilingOf
        <4>3. Aligned(mem, a) = mem + e
          <5>1. (mem - 1) % a \in Nat
            <6>1. mem - 1 \in Nat BY <4>1
            <6> QED BY <6>1, DivMod
          <5>2. Aligned(mem, a) = mem + a - ((mem - 1) % a) - 1 BY <4>1 DEF Aligned, Ceil
          <5> QED BY <5>1, <5>2, <4>1
        <4>4. Aligned(mem, a) % a = 0 /\ mem <= Aligned(mem, a)
          BY <4>2, <4>3 DEF IsCeiling
        <4> HIDE DEF e
        <4>5. Fits(mem, nbData, a)
          <5>1. SpaceLeft(mem, nbData, a) = nbData + extra - e
            <6>1. SpaceLeft(mem, nbData, a) = nbData + extra - (mem + e - mem)
              <7> HIDE DEF nbData, extra
              <7> QED BY <3>1, <4>3, <1>1, <4>1, <4>2 DEF SpaceLeft
            <6> HIDE DEF nbData, extra
            <6> QED BY <6>1, <1>1, <4>1, <4>2
          <5> HIDE DEF nbData
          <5> QED BY <5>1, <1>1, <4>2 DEF Fits
        <4>6. PointerAt(Aligned(mem, a), nbData) + PointerSize <= mem + NbAlloc(nbData, a)
          <5>1. PointerAt(Aligned(mem, a), nbData) = mem + e + nbData + 2 * WordSize
            BY <4>3 DEF PointerAt
          <5> HIDE DEF nbData
          <5> QED BY <5>1, <3>1, <1>1, <4>1, <4>2
        <4> QED BY <4>4, <4>5, <4>6
      <3> QED BY <3>2, <3>3 DEF AdaptorStaysInside
    <2> QED BY <2>3, <2>4, <1>1
  <1>5. Limit \div size \in Nat BY DivMod
  <1> QED BY <1>3, <1>4, <1>5

==============================================================================
