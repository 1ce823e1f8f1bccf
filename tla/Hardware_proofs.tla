--------------------------- MODULE Hardware_proofs ---------------------------
(***************************************************************************)
(* Proofs about the lock-free initializations of cpuinfo.cpp and new.cpp,  *)
(* for any number of threads that make the first calls at the same time;   *)
(* about the parameters of squads, for machines of any size; and about     *)
(* alignments, for every width of std::size_t.                             *)
(***************************************************************************)
EXTENDS CpuInfo, LazyInit, SquadParams, Alignment, SequenceTheorems,
        WellFoundedInduction, TLAPS

(***************************************************************************)
(* physical_concurrency() and physical_core_ids().                         *)
(***************************************************************************)

CpuLabels == {"done", "loadPtr", "guard", "parse", "publish", "keep", "reload", "reloadPtr"}

CpuTypes ==
    /\ physical_concurrency \in {0, Cores}
    /\ core_thread_ids_ptr \in Thread \cup {Null}
    /\ core_thread_ids \in Thread \cup {Null}
    /\ alive \subseteq Thread
    /\ pc \in [Thread -> CpuLabels]
    /\ call \in [Thread -> {"none", "physical_concurrency", "physical_core_ids"}]
    /\ count \in [Thread -> {0, Cores}]
    /\ ptr \in [Thread -> Thread \cup {Null}]

\* The count is published before the pointer, and known to everyone who gets past
\* initFunc.
CountFirst ==
    /\ core_thread_ids_ptr # Null => physical_concurrency = Cores
    /\ \A t \in Thread :
        /\ pc[t] \in {"publish", "keep", "reload", "reloadPtr"} =>
               physical_concurrency = Cores
        /\ pc[t] = "reloadPtr" => count[t] = Cores

\* The vector of one thread is published, and kept; nobody destroys it, because its
\* thread does not parse again, and the static variable is empty when it is moved there.
OneVector ==
    /\ core_thread_ids_ptr # Null => core_thread_ids_ptr \in alive
    /\ core_thread_ids # Null => core_thread_ids = core_thread_ids_ptr
    /\ \A t \in Thread :
        /\ ptr[t] # Null => ptr[t] = core_thread_ids_ptr
        /\ pc[t] \in {"parse", "publish"} => core_thread_ids_ptr # t
        /\ pc[t] = "publish" => t \in alive
        /\ pc[t] = "keep" => core_thread_ids_ptr = t /\ core_thread_ids = Null

CpuInv == CpuTypes /\ CountFirst /\ OneVector /\ CountIsKnown

LEMMA CpuInit == Init => CpuInv
BY CoresAssumption DEF Init, CpuInv, CpuTypes, CpuLabels, CountFirst, OneVector, CountIsKnown

\* Every step keeps the invariant: one case per action.
LEMMA CpuNext == CpuInv /\ [Next]_vars => CpuInv'
<1> SUFFICES ASSUME CpuInv, [Next]_vars PROVE CpuInv'
  OBVIOUS
<1> USE CoresAssumption DEF CpuInv, CpuTypes, CpuLabels, CountFirst, OneVector, CountIsKnown,
        Goto, global, local
<1>1. ASSUME NEW t \in Thread, NEW f \in {"physical_concurrency", "physical_core_ids"},
             Call(t, f)
      PROVE  CpuInv'
  BY <1>1 DEF Call
<1>2. ASSUME NEW t \in Thread, LoadPtr(t) PROVE CpuInv'
  BY <1>2 DEF LoadPtr
<1>3. ASSUME NEW t \in Thread, Guard(t) PROVE CpuInv'
  BY <1>3 DEF Guard
<1>4. ASSUME NEW t \in Thread, Parse(t) PROVE CpuInv'
  BY <1>4 DEF Parse
<1>5. ASSUME NEW t \in Thread, Publish(t) PROVE CpuInv'
  BY <1>5 DEF Publish
<1>6. ASSUME NEW t \in Thread, Keep(t) PROVE CpuInv'
  BY <1>6 DEF Keep
<1>7. ASSUME NEW t \in Thread, Reload(t) PROVE CpuInv'
  BY <1>7 DEF Reload
<1>8. ASSUME NEW t \in Thread, ReloadPtr(t) PROVE CpuInv'
  BY <1>8 DEF ReloadPtr
<1>9. CASE UNCHANGED vars
  BY <1>9 DEF vars
<1> QED
  BY <1>1, <1>2, <1>3, <1>4, <1>5, <1>6, <1>7, <1>8, <1>9 DEF Next

\* Whoever calls physical_concurrency() or physical_core_ids() gets the number of
\* cores, no matter how many threads are initializing (cpuinfo.cpp).
THEOREM EverybodyKnowsTheCount == Spec => []CountIsKnown
<1>1. CpuInv => CountIsKnown
  BY DEF CpuInv
<1> QED
  BY <1>1, CpuInit, CpuNext, PTL DEF Spec

\* No thread that lost the race, and none that comes later, destroys the vector that
\* another one's span points to.
THEOREM SpansOutliveTheRace == Spec => []SpansStayValid
<1>1. CpuInv => SpansStayValid
  BY DEF CpuInv, CpuTypes, OneVector, SpansStayValid
<1> QED
  BY <1>1, CpuInit, CpuNext, PTL DEF Spec

(***************************************************************************)
(* hardware_cache_line_size(), hardware_page_size() and                    *)
(* hardware_large_page_size().                                             *)
(***************************************************************************)

Sizes  == Nat \cup {Unset, Unknown}
Frames == [size : Size, at : {"load", "query", "check", "store"}, result : Sizes]

LazyTypes ==
    /\ machine \in Machines
    /\ value \in [Size -> Sizes]
    /\ stack \in [Caller -> Seq(Frames)]
    /\ told \in [Caller -> [size : Size \cup {"none"}, is : Sizes]]
    /\ ended \in BOOLEAN

\* What has been checked of a size before anybody is told.
Checked(s) ==
    /\ machine[s] # Unknown
    /\ s \in {"page", "large_page"} =>
           machine.cache_line # Unknown /\ machine.page % machine.cache_line = 0
    /\ s = "large_page" => machine.large_page % machine.page = 0

\* A call that has asked the system has its answer; one that is about to store it has
\* had it checked by all the calls it made.
FrameOK(f) ==
    /\ f.at \in {"check", "store"} => f.result = machine[f.size] /\ f.result # Unknown
    /\ f.at = "store" => Checked(f.size)

\* The outer calls wait for the size that must divide theirs.
StackOK(st) ==
    /\ \A i \in 1 .. Len(st) : FrameOK(st[i]) /\ (st[i].at = "check" <=> i # 1)
    /\ \A i \in 2 .. Len(st) :
           st[i].size # "cache_line" /\ st[i-1].size = Divisor(st[i].size)

LazyInv ==
    /\ LazyTypes
    /\ \A t \in Caller : told[t] # Nothing =>
           /\ told[t].size \in Size /\ told[t].is = machine[told[t].size]
           /\ Checked(told[t].size)
    /\ \A s \in Size : value[s] # Unset => value[s] = machine[s] /\ Checked(s)
    /\ ~ended => \A t \in Caller : StackOK(stack[t])

LEMMA LazyInvInit == LazyInit => LazyInv
<1> SUFFICES ASSUME LazyInit PROVE LazyInv
  OBVIOUS
<1>1. << >> \in Seq(Frames) /\ Len(<< >>) = 0
  OBVIOUS
<1>2. StackOK(<< >>)
  BY <1>1 DEF StackOK
<1> QED
  BY <1>1, <1>2 DEF LazyInit, LazyInv, LazyTypes, Nothing, Sizes

\* What the system reports.
LEMMA Reports ==
    ASSUME LazyTypes
    PROVE  \A s \in Size : machine[s] \in Nat \cup {Unknown}
BY LazyInitAssumption DEF LazyTypes, Size

\* A stack with another frame on top.
LEMMA NewTop ==
    ASSUME NEW S, NEW st \in Seq(S), st # << >>, NEW f \in S
    PROVE  /\ << f >> \o Tail(st) \in Seq(S) /\ << f >> \o Tail(st) # << >>
           /\ Len(<< f >> \o Tail(st)) = Len(st)
           /\ (<< f >> \o Tail(st))[1] = f
           /\ \A i \in 2 .. Len(st) : (<< f >> \o Tail(st))[i] = st[i]
<1>1. Len(st) \in Nat \ {0}
  BY EmptySeq
<1>2. /\ Tail(st) \in Seq(S) /\ Len(Tail(st)) = Len(st) - 1
      /\ \A i \in 1 .. Len(Tail(st)) : Tail(st)[i] = st[i+1]
  BY HeadTailProperties
<1>3. << f >> \in Seq(S) /\ Len(<< f >>) = 1 /\ << f >>[1] = f
  OBVIOUS
<1> QED
  BY <1>1, <1>2, <1>3, ConcatProperties

\* The frame on top of a stack and the one below.
LEMMA TopOf ==
    ASSUME NEW st \in Seq(Frames), st # << >>
    PROVE  /\ Len(st) \in Nat \ {0} /\ Head(st) = st[1] /\ st[1] \in Frames
           /\ Tail(st) \in Seq(Frames) /\ Len(Tail(st)) = Len(st) - 1
           /\ \A i \in 1 .. Len(st) - 1 : Tail(st)[i] = st[i+1]
           /\ Tail(st) # << >> => Len(st) > 1 /\ st[2] \in Frames /\ Head(Tail(st)) = st[2]
<1>1. Len(st) \in Nat \ {0} /\ Head(st) = st[1] /\ st[1] \in Frames
  BY EmptySeq
<1>2. /\ Tail(st) \in Seq(Frames) /\ Len(Tail(st)) = Len(st) - 1
      /\ \A i \in 1 .. Len(Tail(st)) : Tail(st)[i] = st[i+1]
  BY HeadTailProperties
<1>3. ASSUME Tail(st) # << >>
      PROVE  Len(st) > 1 /\ st[2] \in Frames /\ Head(Tail(st)) = st[2]
  <2>1. Len(Tail(st)) \in Nat \ {0}
    BY <1>2, <1>3, EmptySeq
  <2>2. 2 \in 1 .. Len(st)
    BY <1>1, <1>2, <2>1
  <2> QED
    BY <1>1, <1>2, <1>3, <2>1, <2>2, ElementOfSeq
<1> QED
  BY <1>1, <1>2, <1>3

\* A call returns what has been checked.
LEMMA ReturnPreserves ==
    ASSUME LazyInv, ~ended, NEW t \in Caller, stack[t] # << >>,
           Checked(stack[t][1].size), UNCHANGED machine,
           Return(t, machine[stack[t][1].size]),
           value' \in [Size -> Sizes],
           \A s \in Size : value'[s] # Unset => value'[s] = machine[s] /\ Checked(s)
    PROVE  LazyInv'
<1> DEFINE st == stack[t]
           callers == Tail(stack[t])
           s == st[1].size
           v == machine[s]
<1>1. st \in Seq(Frames) /\ StackOK(st) /\ LazyTypes
  BY DEF LazyInv, LazyTypes
<1>2. /\ Len(st) \in Nat \ {0} /\ Head(st) = st[1] /\ st[1] \in Frames
      /\ callers \in Seq(Frames) /\ Len(callers) = Len(st) - 1
      /\ \A i \in 1 .. Len(st) - 1 : callers[i] = st[i+1]
      /\ callers # << >> => Len(st) > 1 /\ st[2] \in Frames /\ Head(callers) = st[2]
  BY <1>1, TopOf
<1>3. s \in Size /\ v \in Nat
  BY <1>1, <1>2, Reports DEF Frames, Checked
<1>4. \A x : Checked(x)' <=> Checked(x)
  BY DEF Checked
<1>5. \A f : FrameOK(f)' <=> FrameOK(f)
  BY DEF FrameOK, Checked
<1>6. \A x : StackOK(x)' <=> StackOK(x)
  BY <1>5 DEF StackOK
<1>7. CASE callers = << >>
  <2>1. /\ told' = [told EXCEPT ![t] = [size |-> s, is |-> v]]
        /\ stack' = [stack EXCEPT ![t] = << >>]
        /\ ended' = ended
    BY <1>2, <1>7 DEF Return
  <2>2. << >> \in Seq(Frames) /\ StackOK(<< >>)
    BY EmptySeq DEF StackOK
  <2>3. LazyTypes'
    <3>1. [size |-> s, is |-> v] \in [size : Size \cup {"none"}, is : Sizes]
      BY <1>3 DEF Sizes
    <3> HIDE DEF v, s
    <3> QED
      BY <1>1, <2>1, <2>2, <3>1 DEF LazyTypes
  <2>4. ASSUME NEW u \in Caller, told'[u] # Nothing
        PROVE  /\ told'[u].size \in Size /\ told'[u].is = machine[told'[u].size]
               /\ Checked(told'[u].size)
    <3>1. CASE u = t
      <4>1. told'[u] = [size |-> s, is |-> v]
        BY <1>1, <2>1, <3>1 DEF LazyTypes
      <4> QED
        BY <1>3, <4>1
    <3>2. CASE u # t
      BY <1>1, <2>1, <2>4, <3>2 DEF LazyInv, LazyTypes
    <3> QED
      BY <3>1, <3>2
  <2>5. \A u \in Caller : StackOK(stack'[u])
    BY <1>1, <2>1, <2>2 DEF LazyInv, LazyTypes
  <2> QED
    BY <1>4, <1>6, <2>3, <2>4, <2>5 DEF LazyInv
<1>8. CASE callers # << >>
  <2> DEFINE c == st[2]
             d == [c EXCEPT !.at = "store"]
             new == << d >> \o Tail(callers)
  <2>1. c \in Frames /\ Head(callers) = c /\ Len(st) > 1 /\ 2 \in 1 .. Len(st)
    BY <1>2, <1>8
  <2>2. /\ told' = told
        /\ ended' = (c.result % v # 0)
        /\ stack' = [stack EXCEPT ![t] = new]
    BY <1>2, <1>8, <2>1 DEF Return
  <2>3. d = [size |-> c.size, at |-> "store", result |-> c.result] /\ d \in Frames
    BY <2>1 DEF Frames
  <2> HIDE DEF d
  <2>4. /\ new \in Seq(Frames) /\ Len(new) = Len(callers) /\ new[1] = d
        /\ \A i \in 2 .. Len(callers) : new[i] = callers[i]
    <3>1. callers \in Seq(Frames) /\ callers # << >> /\ d \in Frames
      BY <1>2, <1>8, <2>3
    <3> HIDE DEF callers
    <3> QED
      BY <3>1, NewTop
  <2> HIDE DEF new
  <2>5. LazyTypes'
    BY <1>1, <2>2, <2>4 DEF LazyTypes
  <2>6. /\ c.at = "check" /\ c.result = machine[c.size] /\ c.result # Unknown
        /\ c.size # "cache_line" /\ s = Divisor(c.size)
    <3>1. 2 \in 1 .. Len(st) /\ 2 \in 2 .. Len(st)
      BY <1>2, <2>1
    <3>2. FrameOK(c) /\ c.at = "check"
      BY <1>1, <3>1 DEF StackOK
    <3>3. c.size # "cache_line" /\ s = Divisor(c.size)
      BY <1>1, <3>1 DEF StackOK
    <3> QED
      BY <3>2, <3>3 DEF FrameOK
  <2>7. ASSUME ~ended'
        PROVE  StackOK(new)
    <3>1. machine[c.size] % v = 0
      <4>1. c.result % v = 0
        <5> DEFINE divides == c.result % v = 0
        <5> HIDE DEF divides
        <5>1. ended' = ~divides
          BY <2>2 DEF divides
        <5>2. divides
          BY <2>7, <5>1
        <5> QED
          BY <5>2 DEF divides
      <4> QED
        BY <2>6, <4>1
    <3>2. c.size \in {"page", "large_page"}
      BY <2>1, <2>6 DEF Frames, Size
    <3>3. Checked(c.size)
      <4>1. CASE c.size = "page"
        BY <2>6, <3>1, <4>1 DEF Checked, Divisor
      <4>2. CASE c.size = "large_page"
        BY <2>6, <3>1, <4>2 DEF Checked, Divisor
      <4> QED
        BY <3>2, <4>1, <4>2
    <3>4. FrameOK(d) /\ d.at = "store" /\ d.size = c.size
      BY <2>3, <2>6, <3>3 DEF FrameOK
    <3>5. \A i \in 2 .. Len(new) : new[i] = st[i+1] /\ i + 1 \in 3 .. Len(st)
      BY <1>2, <2>4
    <3>6. \A i \in 3 .. Len(new) : new[i-1] = st[i]
      BY <1>2, <2>4
    <3>7. \A i \in 1 .. Len(new) : FrameOK(new[i]) /\ (new[i].at = "check" <=> i # 1)
      <4> SUFFICES ASSUME NEW i \in 1 .. Len(new)
                   PROVE  FrameOK(new[i]) /\ (new[i].at = "check" <=> i # 1)
        OBVIOUS
      <4>1. CASE i = 1
        BY <2>4, <3>4, <4>1
      <4>2. CASE i # 1
        <5>1. i \in 2 .. Len(new)
          BY <1>2, <2>4, <4>2
        <5>2. new[i] = st[i+1] /\ i + 1 \in 1 .. Len(st) /\ i + 1 # 1
          BY <1>2, <3>5, <5>1
        <5> QED
          BY <1>1, <4>2, <5>2 DEF StackOK
      <4> QED
        BY <4>1, <4>2
    <3>8. \A i \in 2 .. Len(new) :
              new[i].size # "cache_line" /\ new[i-1].size = Divisor(new[i].size)
      <4> SUFFICES ASSUME NEW i \in 2 .. Len(new)
                   PROVE  /\ new[i].size # "cache_line"
                          /\ new[i-1].size = Divisor(new[i].size)
        OBVIOUS
      <4>1. new[i] = st[i+1] /\ i + 1 \in 2 .. Len(st)
        BY <1>2, <3>5
      <4>2. st[i+1].size # "cache_line" /\ st[i+1-1].size = Divisor(st[i+1].size)
        BY <1>1, <4>1 DEF StackOK
      <4>3. new[i-1].size = st[i].size
        <5>1. CASE i = 2
          BY <2>4, <3>4, <5>1
        <5>2. CASE i # 2
          BY <1>2, <2>4, <3>6, <5>2
        <5> QED
          BY <5>1, <5>2
      <4> QED
        BY <1>2, <4>1, <4>2, <4>3
    <3> QED
      BY <3>7, <3>8 DEF StackOK
  <2>8. ~ended' => \A u \in Caller : StackOK(stack'[u])
    BY <1>1, <2>2, <2>7 DEF LazyInv, LazyTypes
  <2> QED
    BY <1>4, <1>6, <2>2, <2>5, <2>8 DEF LazyInv
<1> QED
  BY <1>7, <1>8

LEMMA CallSizeStep ==
    ASSUME LazyInv, NEW t \in Caller, NEW s \in Size, CallSize(t, s)
    PROVE  LazyInv'
<1> DEFINE f == Frame(s)
<1>1. LazyTypes
  BY DEF LazyInv
<1>2. /\ ~ended /\ stack' = [stack EXCEPT ![t] = << f >>]
      /\ UNCHANGED <<machine, value, told, ended>>
  BY DEF CallSize
<1>3. f \in Frames /\ f.at = "load"
  BY DEF Frame, Frames, Sizes
<1> HIDE DEF f
<1>4. << f >> \in Seq(Frames) /\ Len(<< f >>) = 1 /\ << f >>[1] = f
  BY <1>3
<1>5. StackOK(<< f >>)
  BY <1>3, <1>4 DEF StackOK, FrameOK
<1>6. LazyTypes'
  BY <1>1, <1>2, <1>4 DEF LazyTypes
<1>7. \A x : (StackOK(x)' <=> StackOK(x)) /\ (Checked(x)' <=> Checked(x))
  BY <1>2 DEF StackOK, FrameOK, Checked
<1>8. \A u \in Caller : StackOK(stack'[u])
  BY <1>1, <1>2, <1>5 DEF LazyInv, LazyTypes
<1> QED
  BY <1>2, <1>6, <1>7, <1>8 DEF LazyInv

\* A step that replaces the frame on top of a stack.
LEMMA Replaces ==
    ASSUME LazyInv, ~ended, NEW t \in Caller, stack[t] # << >>,
           UNCHANGED <<machine, value, told>>, ended' \in BOOLEAN,
           NEW f \in Frames, f.size = stack[t][1].size,
           stack' = [stack EXCEPT ![t] = << f >> \o Tail(stack[t])],
           ~ended' => FrameOK(f) /\ f.at # "check"
    PROVE  LazyInv'
<1> DEFINE st  == stack[t]
           new == << f >> \o Tail(st)
<1>1. LazyTypes /\ st \in Seq(Frames) /\ StackOK(st)
  BY DEF LazyInv, LazyTypes
<1>2. Len(st) \in Nat \ {0}
  BY <1>1, TopOf
<1>3. /\ new \in Seq(Frames) /\ Len(new) = Len(st) /\ new[1] = f
      /\ \A i \in 2 .. Len(st) : new[i] = st[i]
  BY <1>1, NewTop
<1> HIDE DEF new
<1>4. LazyTypes'
  BY <1>1, <1>3 DEF LazyTypes, new
<1>5. ~ended' => StackOK(new)
  <2> SUFFICES ASSUME ~ended' PROVE StackOK(new)
    OBVIOUS
  <2>1. \A i \in 1 .. Len(new) : FrameOK(new[i]) /\ (new[i].at = "check" <=> i # 1)
    BY <1>1, <1>2, <1>3 DEF StackOK
  <2>2. \A i \in 1 .. Len(new) : new[i].size = st[i].size
    BY <1>2, <1>3
  <2>3. \A i \in 2 .. Len(new) : i \in 1 .. Len(new) /\ i - 1 \in 1 .. Len(new)
    BY <1>2, <1>3
  <2>4. \A i \in 2 .. Len(new) :
            new[i].size # "cache_line" /\ new[i-1].size = Divisor(new[i].size)
    BY <1>1, <1>3, <2>2, <2>3 DEF StackOK
  <2> QED
    BY <2>1, <2>4 DEF StackOK
<1>6. \A x : (StackOK(x)' <=> StackOK(x)) /\ (Checked(x)' <=> Checked(x))
  BY DEF StackOK, FrameOK, Checked
<1>7. ~ended' => \A u \in Caller : StackOK(stack'[u])
  BY <1>1, <1>5 DEF LazyInv, LazyTypes, new
<1> QED
  BY <1>4, <1>6, <1>7 DEF LazyInv

LEMMA LoadStep ==
    ASSUME LazyInv, NEW t \in Caller, Load(t)
    PROVE  LazyInv'
<1> DEFINE st == stack[t]
           s  == st[1].size
<1>1. LazyTypes /\ st \in Seq(Frames) /\ ~ended /\ st # << >> /\ st[1].at = "load"
  BY DEF LazyInv, LazyTypes, Load, At
<1>2. /\ Len(st) \in Nat \ {0} /\ Head(st) = st[1] /\ st[1] \in Frames /\ s \in Size
      /\ Tail(st) \in Seq(Frames)
  BY <1>1, TopOf DEF Frames
<1>3. UNCHANGED <<machine, value>>
  BY DEF Load
<1>4. CASE value[s] # Unset
  <2>1. value[s] = machine[s] /\ Checked(s) /\ Return(t, value[s])
    BY <1>2, <1>4 DEF LazyInv, Load
  <2> QED
    BY <1>1, <1>2, <1>3, <2>1, ReturnPreserves DEF LazyInv, LazyTypes
<1>5. CASE value[s] = Unset
  <2> DEFINE f == [st[1] EXCEPT !.at = "query"]
  <2>1. /\ stack' = [stack EXCEPT ![t] = [stack[t] EXCEPT ![1] = f]]
        /\ UNCHANGED <<told, ended>>
    BY <1>2, <1>5 DEF Load
  <2>2. f \in Frames /\ f.size = s /\ f.at = "query"
    BY <1>2 DEF Frames
  <2> HIDE DEF f
  <2>3. [st EXCEPT ![1] = f] = << f >> \o Tail(st)
    <3> DEFINE x == [st EXCEPT ![1] = f]
               y == << f >> \o Tail(st)
    <3>1. 1 \in 1 .. Len(st)
      BY <1>2
    <3>2. x \in Seq(Frames) /\ Len(x) = Len(st)
          /\ \A j \in 1 .. Len(st) : x[j] = IF j = 1 THEN f ELSE st[j]
      BY <1>1, <2>2, <3>1, ExceptSeq
    <3>3. /\ y \in Seq(Frames) /\ Len(y) = Len(st) /\ y[1] = f
          /\ \A i \in 2 .. Len(st) : y[i] = st[i]
      BY <1>1, <2>2, NewTop
    <3> HIDE DEF x, y
    <3>4. \A j \in 1 .. Len(x) : x[j] = y[j]
      BY <1>2, <3>2, <3>3
    <3>5. x = y
      BY <3>2, <3>3, <3>4, SeqEqual
    <3> QED
      BY <3>5 DEF x, y
  <2>4. stack' = [stack EXCEPT ![t] = << f >> \o Tail(stack[t])]
    BY <2>1, <2>3
  <2>5. ended' \in BOOLEAN /\ UNCHANGED <<machine, value, told>>
    BY <1>1, <1>3, <2>1 DEF LazyTypes
  <2>6. FrameOK(f) /\ f.at # "check"
    BY <2>2 DEF FrameOK
  <2>7. f.size = stack[t][1].size
    BY <2>2
  <2> QED
    BY <1>1, <2>2, <2>4, <2>5, <2>6, <2>7, Replaces
<1> QED
  BY <1>4, <1>5

LEMMA StoreStep ==
    ASSUME LazyInv, NEW t \in Caller, StoreResult(t)
    PROVE  LazyInv'
<1> DEFINE st == stack[t]
           s  == st[1].size
<1>1. LazyTypes /\ st \in Seq(Frames) /\ StackOK(st) /\ ~ended /\ st # << >>
      /\ st[1].at = "store"
  BY DEF LazyInv, LazyTypes, StoreResult, At
<1>2. /\ Len(st) \in Nat \ {0} /\ Head(st) = st[1] /\ st[1] \in Frames /\ s \in Size
  BY <1>1, TopOf DEF Frames
<1>3. st[1].result = machine[s] /\ Checked(s)
  BY <1>1, <1>2 DEF StackOK, FrameOK
<1>4. /\ value' = [value EXCEPT ![s] = machine[s]]
      /\ Return(t, machine[s]) /\ UNCHANGED machine
  BY <1>2, <1>3 DEF StoreResult
<1>5. machine[s] \in Sizes
  BY <1>1, <1>2, Reports DEF Sizes
<1>6. /\ value' \in [Size -> Sizes]
      /\ \A z \in Size : value'[z] # Unset => value'[z] = machine[z] /\ Checked(z)
  BY <1>1, <1>3, <1>4, <1>5 DEF LazyInv, LazyTypes
<1> QED
  BY <1>1, <1>3, <1>4, <1>6, ReturnPreserves

\* A frame with the system's answer.
LEMMA Answered ==
    ASSUME NEW f \in Frames, NEW r \in Sizes, NEW a \in {"check", "store"}
    PROVE  /\ [f EXCEPT !.at = a, !.result = r] = [size |-> f.size, at |-> a, result |-> r]
           /\ [f EXCEPT !.at = a, !.result = r] \in Frames
<1> DEFINE g == [f EXCEPT !.at = a]
           h == [g EXCEPT !.result = r]
<1>1. g \in Frames /\ g.size = f.size /\ g.at = a
  BY DEF Frames
<1>2. [f EXCEPT !.at = a, !.result = r] = h
  OBVIOUS
<1> HIDE DEF g
<1>3. h = [size |-> g.size, at |-> g.at, result |-> r] /\ h \in Frames
  BY <1>1 DEF Frames
<1> HIDE DEF h
<1> QED
  BY <1>1, <1>2, <1>3

\* The system's answer is all a cache line needs; the others call for their divisor.
LEMMA QueryStep ==
    ASSUME LazyInv, NEW t \in Caller, Query(t)
    PROVE  LazyInv'
<1> DEFINE st  == stack[t]
           top == st[1]
           s   == top.size
           r   == machine[s]
           f   == Frame(Divisor(s))
<1>1. /\ LazyTypes /\ st \in Seq(Frames) /\ StackOK(st) /\ ~ended /\ st # << >>
      /\ top.at = "query"
  BY DEF LazyInv, LazyTypes, Query, At
<1>2. /\ Len(st) \in Nat \ {0} /\ Head(st) = top /\ top \in Frames /\ s \in Size
      /\ Tail(st) \in Seq(Frames) /\ Len(Tail(st)) = Len(st) - 1
      /\ \A i \in 1 .. Len(st) - 1 : Tail(st)[i] = st[i+1]
  BY <1>1, TopOf DEF Frames
<1>3. r \in Nat \cup {Unknown} /\ r \in Sizes
  BY <1>1, <1>2, Reports DEF Sizes
<1>4. ended' = (r = Unknown) /\ ended' \in BOOLEAN /\ UNCHANGED <<machine, value, told>>
  BY <1>2 DEF Query
<1>5. CASE s = "cache_line"
  <2> DEFINE g == [top EXCEPT !.at = "store", !.result = r]
  <2>1. stack' = [stack EXCEPT ![t] = << g >> \o Tail(stack[t])]
    BY <1>2, <1>5 DEF Query
  <2>2. g = [size |-> s, at |-> "store", result |-> r] /\ g \in Frames
    BY <1>2, <1>3, Answered
  <2> HIDE DEF g
  <2>3. ~ended' => FrameOK(g) /\ g.at # "check"
    BY <1>4, <1>5, <2>2 DEF FrameOK, Checked
  <2>4. g.size = stack[t][1].size
    BY <2>2
  <2> QED
    BY <1>1, <1>4, <2>1, <2>2, <2>3, <2>4, Replaces
<1>6. CASE s # "cache_line"
  <2> DEFINE g    == [top EXCEPT !.at = "check", !.result = r]
             new  == << f, g >> \o Tail(st)
  <2>1. stack' = [stack EXCEPT ![t] = << f, g >> \o Tail(stack[t])]
    BY <1>2, <1>6 DEF Query
  <2>2. g = [size |-> s, at |-> "check", result |-> r] /\ g \in Frames
    BY <1>2, <1>3, Answered
  <2>3. f = [size |-> Divisor(s), at |-> "load", result |-> Unset] /\ f \in Frames
    BY DEF Frame, Divisor, Frames, Size, Sizes
  <2> HIDE DEF f, g
  <2>4. << f, g >> \in Seq(Frames) /\ Len(<< f, g >>) = 2
        /\ << f, g >>[1] = f /\ << f, g >>[2] = g
    BY <2>2, <2>3
  <2>5. /\ new \in Seq(Frames) /\ Len(new) = Len(st) + 1 /\ new[1] = f /\ new[2] = g
        /\ \A i \in 3 .. Len(st) + 1 : new[i] = st[i-1]
    <3>1. /\ new \in Seq(Frames) /\ Len(new) = 2 + Len(Tail(st))
          /\ \A i \in 1 .. Len(new) :
                 new[i] = IF i <= 2 THEN << f, g >>[i] ELSE Tail(st)[i-2]
      BY <1>2, <2>4, ConcatProperties
    <3> HIDE DEF new
    <3>2. \A i \in 3 .. Len(st) + 1 : /\ i \in 1 .. Len(new) /\ ~(i <= 2)
                                      /\ i - 2 \in 1 .. Len(st) - 1 /\ (i-2)+1 = i-1
      BY <1>2, <3>1
    <3>3. 1 \in 1 .. Len(new) /\ 2 \in 1 .. Len(new)
      BY <1>2, <3>1
    <3> QED
      BY <1>2, <2>4, <3>1, <3>2, <3>3
  <2> HIDE DEF new
  <2>6. LazyTypes'
    BY <1>1, <1>4, <2>1, <2>5 DEF LazyTypes, new
  <2>7. ~ended' => StackOK(new)
    <3> SUFFICES ASSUME ~ended' PROVE StackOK(new)
      OBVIOUS
    <3>1. FrameOK(f) /\ f.at # "check"
      BY <2>3 DEF FrameOK
    <3>2. FrameOK(g) /\ g.at = "check"
      BY <1>4, <2>2 DEF FrameOK
    <3>3. \A i \in 3 .. Len(new) : i - 1 \in 2 .. Len(st) /\ i - 1 \in 1 .. Len(st)
      BY <1>2, <2>5
    <3>4. ASSUME NEW i \in 3 .. Len(new) PROVE FrameOK(new[i]) /\ new[i].at = "check"
      <4>1. i - 1 \in 1 .. Len(st) /\ i - 1 # 1 /\ i \in 3 .. Len(st) + 1
        BY <1>2, <2>5, <3>3
      <4>2. FrameOK(st[i-1]) /\ st[i-1].at = "check"
        BY <1>1, <4>1 DEF StackOK
      <4>3. new[i] = st[i-1]
        BY <2>5, <4>1
      <4> QED
        BY <4>2, <4>3
    <3>5. \A i \in 1 .. Len(new) : i = 1 \/ i = 2 \/ i \in 3 .. Len(new)
      BY <1>2, <2>5
    <3>6. \A i \in 1 .. Len(new) : FrameOK(new[i]) /\ (new[i].at = "check" <=> i # 1)
      BY <2>5, <3>1, <3>2, <3>4, <3>5
    <3>7. g.size # "cache_line" /\ f.size = Divisor(g.size) /\ g.size = st[1].size
      BY <1>6, <2>2, <2>3
    <3>8. ASSUME NEW i \in 2 .. Len(new)
          PROVE  new[i].size # "cache_line" /\ new[i-1].size = Divisor(new[i].size)
      <4>1. CASE i = 2
        BY <2>5, <3>7, <4>1
      <4>2. CASE i = 3
        <5>1. 3 \in 3 .. Len(new) /\ 3 \in 3 .. Len(st) + 1 /\ 2 \in 2 .. Len(st)
          BY <1>2, <2>5, <3>3, <4>2
        <5>2. new[3] = st[2]
          BY <2>5, <5>1
        <5>3. st[2].size # "cache_line" /\ st[1].size = Divisor(st[2].size)
          BY <1>1, <5>1 DEF StackOK
        <5> QED
          BY <2>5, <3>7, <4>2, <5>2, <5>3
      <4>3. CASE i > 3
        <5>1. i \in 3 .. Len(st) + 1 /\ i - 1 \in 3 .. Len(st) + 1 /\ i - 1 \in 2 .. Len(st)
          BY <1>2, <2>5, <4>3
        <5>2. new[i] = st[i-1] /\ new[i-1] = st[(i-1)-1]
          BY <2>5, <5>1
        <5> QED
          BY <1>1, <5>1, <5>2 DEF StackOK
      <4> QED
        BY <4>1, <4>2, <4>3
    <3> QED
      BY <3>6, <3>8 DEF StackOK
  <2>8. \A x : (StackOK(x)' <=> StackOK(x)) /\ (Checked(x)' <=> Checked(x))
    BY <1>4 DEF StackOK, FrameOK, Checked
  <2>9. ~ended' => \A u \in Caller : StackOK(stack'[u])
    BY <1>1, <2>1, <2>7 DEF LazyInv, LazyTypes, new
  <2> QED
    BY <1>4, <2>6, <2>8, <2>9 DEF LazyInv
<1> QED
  BY <1>5, <1>6

LEMMA LazyInvStep == LazyInv /\ [LazyNext]_lazyVars => LazyInv'
<1> SUFFICES ASSUME LazyInv, [LazyNext]_lazyVars PROVE LazyInv'
  OBVIOUS
<1>1. CASE UNCHANGED lazyVars
  <2>1. \A x : (StackOK(x)' <=> StackOK(x)) /\ (Checked(x)' <=> Checked(x))
    BY <1>1 DEF StackOK, FrameOK, Checked, lazyVars
  <2> QED
    BY <1>1, <2>1 DEF LazyInv, LazyTypes, lazyVars
<1>2. ASSUME NEW t \in Caller, NEW s \in Size, CallSize(t, s) PROVE LazyInv'
  BY <1>2, CallSizeStep
<1>3. ASSUME NEW t \in Caller, Load(t) PROVE LazyInv'
  BY <1>3, LoadStep
<1>4. ASSUME NEW t \in Caller, Query(t) PROVE LazyInv'
  BY <1>4, QueryStep
<1>5. ASSUME NEW t \in Caller, StoreResult(t) PROVE LazyInv'
  BY <1>5, StoreStep
<1> QED
  BY <1>1, <1>2, <1>3, <1>4, <1>5 DEF LazyNext

\* Whoever is told a size is told what the system reports, and everything that is
\* assumed about the sizes has been checked by then, whichever threads were initializing
\* which sizes at the same time.
THEOREM SizesAreChecked == LazyInit /\ [][LazyNext]_lazyVars => []SizesFit
<1>1. LazyInv => SizesFit
  BY DEF LazyInv, Checked, SizesFit
<1> QED
  BY <1>1, LazyInvInit, LazyInvStep, PTL

(***************************************************************************)
(* The parameters of a squad.                                              *)
(***************************************************************************)

LEMMA MinOfTwo ==
    ASSUME NEW a \in Int, NEW b \in Int
    PROVE  Min({a, b}) = IF a <= b THEN a ELSE b
<1> DEFINE m == IF a <= b THEN a ELSE b
<1>1. m \in {a, b} /\ \A y \in {a, b} : m <= y
  OBVIOUS
<1>2. \A x \in {a, b} : (\A y \in {a, b} : x <= y) => x = m
  OBVIOUS
<1> QED
  BY <1>1, <1>2 DEF Min

LEMMA MinOfThree ==
    ASSUME NEW a \in Int, NEW b \in Int, NEW c \in Int
    PROVE  Min({a, b, c}) = IF a <= b /\ a <= c THEN a ELSE IF b <= c THEN b ELSE c
<1> DEFINE m == IF a <= b /\ a <= c THEN a ELSE IF b <= c THEN b ELSE c
<1>1. m \in {a, b, c} /\ \A y \in {a, b, c} : m <= y
  OBVIOUS
<1>2. \A x \in {a, b, c} : (\A y \in {a, b, c} : x <= y) => x = m
  OBVIOUS
<1> QED
  BY <1>1, <1>2 DEF Min

\* What a user can ask for.
AnyParams == [num_threads : Int, max_num_hardware_threads : Int,
              pin_to_hardware_threads : BOOLEAN, hardware_thread_mappings : Seq(Int)]

\* The number of threads, the hardware threads in the order in which they are taken, and
\* how many of them.
ThreadsOf(p, h) == IF p.num_threads = 0 THEN h ELSE p.num_threads
Listed(p, h) == IF p.hardware_thread_mappings = << >> THEN [k \in 1 .. h |-> k - 1]
                ELSE p.hardware_thread_mappings
LimitOf(p, h) == IF p.max_num_hardware_threads = 0 THEN Len(Listed(p, h))
                 ELSE p.max_num_hardware_threads
TakenOf(p, h) == IF LimitOf(p, h) <= h THEN LimitOf(p, h) ELSE h

LEMMA ListedFacts ==
    ASSUME NEW p \in AnyParams, NEW h \in Nat, check_params(p)
    PROVE  /\ Listed(p, h) \in Seq(Int) /\ Len(Listed(p, h)) \in Nat
           /\ LimitOf(p, h) \in Nat /\ TakenOf(p, h) \in 0 .. h
           /\ TakenOf(p, h) <= Len(Listed(p, h))
           /\ h > 0 => TakenOf(p, h) > 0
           /\ ThreadsOf(p, h) \in Nat
<1> DEFINE m == p.hardware_thread_mappings
           x == p.max_num_hardware_threads
<1>1. /\ m \in Seq(Int) /\ x \in Int /\ x >= 0 /\ p.num_threads \in Int /\ p.num_threads >= 0
      /\ m # << >> => x <= Len(m)
  BY DEF AnyParams, check_params
<1>2. CASE m = << >>
  <2>1. Listed(p, h) = [k \in 1 .. h |-> k - 1]
    BY <1>2 DEF Listed
  <2>2. [k \in 1 .. h |-> k - 1] \in Seq(Int) /\ Len([k \in 1 .. h |-> k - 1]) = h
    OBVIOUS
  <2> QED
    BY <1>1, <2>1, <2>2 DEF LimitOf, TakenOf, ThreadsOf
<1>3. CASE m # << >>
  <2>1. Listed(p, h) = m
    BY <1>3 DEF Listed
  <2>2. Len(m) \in Nat /\ Len(m) > 0
    BY <1>1, <1>3
  <2>3. LimitOf(p, h) \in 1 .. Len(m)
    BY <1>1, <1>3, <2>1, <2>2 DEF LimitOf
  <2> QED
    BY <1>1, <2>1, <2>2, <2>3 DEF TakenOf, ThreadsOf
<1> QED
  BY <1>2, <1>3

\* create() replaces the placeholders by what they stand for.
LEMMA Created ==
    ASSUME NEW p \in AnyParams, NEW h \in Nat, check_params(p)
    PROVE  /\ create(p, h).num_threads = ThreadsOf(p, h)
           /\ create(p, h).max_num_hardware_threads = TakenOf(p, h)
           /\ create(p, h).pin_to_hardware_threads = p.pin_to_hardware_threads
           /\ create(p, h).hardware_thread_mappings = p.hardware_thread_mappings
<1> DEFINE m == p.hardware_thread_mappings
           x == p.max_num_hardware_threads
           max == IF x # 0 THEN x ELSE IF m # << >> THEN Len(m) ELSE h
<1>1. m \in Seq(Int) /\ x \in Int
  BY DEF AnyParams
<1>2. max = LimitOf(p, h)
  <2>1. Len([k \in 1 .. h |-> k - 1]) = h
    OBVIOUS
  <2>2. CASE x # 0
    BY <2>2 DEF LimitOf
  <2>3. CASE x = 0 /\ m # << >>
    BY <2>3 DEF LimitOf, Listed
  <2>4. CASE x = 0 /\ m = << >>
    BY <2>1, <2>4 DEF LimitOf, Listed
  <2> QED
    BY <2>2, <2>3, <2>4
<1>3. LimitOf(p, h) \in Int
  BY ListedFacts
<1>4. Min({max, h}) = TakenOf(p, h)
  BY <1>2, <1>3, MinOfTwo DEF TakenOf
<1>5. create(p, h) = [p EXCEPT !.num_threads = IF @ = 0 THEN h ELSE @,
                               !.max_num_hardware_threads = Min({max, h})]
  BY DEF create
<1> HIDE DEF max
<1>6. create(p, h) = [p EXCEPT !.num_threads = ThreadsOf(p, h),
                               !.max_num_hardware_threads = TakenOf(p, h)]
  BY <1>4, <1>5 DEF ThreadsOf
<1> QED
  BY <1>6 DEF AnyParams

\* The hardware threads allowed are the first ones listed.
LEMMA AllowedFacts ==
    ASSUME NEW p \in AnyParams, NEW h \in Nat, check_params(p)
    PROVE  /\ Len(Allowed(p, h)) = TakenOf(p, h)
           /\ \A k \in 1 .. TakenOf(p, h) : Allowed(p, h)[k] = Listed(p, h)[k]
<1>1. PICK s \in Seq(Int), n \in Nat, l \in Nat :
         s = Listed(p, h) /\ n = TakenOf(p, h) /\ l = LimitOf(p, h)
  BY ListedFacts
<1>2. n <= Len(s)
  BY <1>1, ListedFacts
<1>3. Min({l, Len(s), h}) = n
  <2>1. n = IF l <= h THEN l ELSE h
    BY <1>1 DEF TakenOf
  <2>2. PICK k \in Int : k = Len(s)
    OBVIOUS
  <2>3. Min({l, k, h}) = IF l <= k /\ l <= h THEN l ELSE IF k <= h THEN k ELSE h
    <3>1. l \in Int /\ h \in Int
      OBVIOUS
    <3> QED
      BY <2>2, <3>1, MinOfThree
  <2> QED
    BY <1>2, <2>1, <2>2, <2>3
<1>4. Allowed(p, h) = SubSeq(s, 1, n)
  BY <1>1, <1>3 DEF Allowed, Listed, LimitOf
<1>5. Len(SubSeq(s, 1, n)) = n /\ \A k \in 1 .. n : SubSeq(s, 1, n)[k] = s[k]
  BY <1>2
<1> QED
  BY <1>1, <1>4, <1>5

\* A thread is pinned to the hardware threads listed by turns.
LEMMA PinnedByTurns ==
    ASSUME NEW p \in AnyParams, NEW h \in Nat \ {0}, check_params(p), NEW t \in Nat
    PROVE  /\ t % TakenOf(p, h) \in 0 .. TakenOf(p, h) - 1
           /\ get_hardware_thread_id(t, create(p, h)) = Listed(p, h)[(t % TakenOf(p, h)) + 1]
<1>1. PICK n \in Nat \ {0} : n = TakenOf(p, h) /\ n <= h
  BY ListedFacts
<1>2. t % n \in 0 .. n-1
  OBVIOUS
<1>3. PICK i \in 0 .. n-1 : i = t % n
  BY <1>2
<1>4. get_hardware_thread_id(t, create(p, h))
        = IF p.hardware_thread_mappings # << >> THEN p.hardware_thread_mappings[i + 1] ELSE i
  BY <1>1, <1>3, Created DEF get_hardware_thread_id
<1>5. [k \in 1 .. h |-> k - 1][i + 1] = i
  <2>1. i + 1 \in 1 .. h
    BY <1>1, <1>3
  <2> QED
    BY <2>1
<1> QED
  BY <1>1, <1>2, <1>3, <1>4, <1>5 DEF Listed

\* Taking things by turns takes the first ones, as many as there are turns.
LEMMA ByTurns ==
    ASSUME NEW n \in Nat \ {0}, NEW threads \in Nat,
           NEW e \in Nat, e = IF threads <= n THEN threads ELSE n
    PROVE  /\ \A t \in 0 .. threads-1 : (t % n) + 1 \in 1 .. e
           /\ \A k \in 1 .. e : \E t \in 0 .. threads-1 : (t % n) + 1 = k
<1>1. ASSUME NEW t \in 0 .. threads-1 PROVE (t % n) + 1 \in 1 .. e
  <2>1. t % n \in 0 .. n-1
    BY SMT
  <2>2. t < n => t % n = t
    BY SMT
  <2>3. CASE t < n
    BY <2>2, <2>3
  <2>4. CASE ~(t < n)
    BY <2>1, <2>4
  <2> QED
    BY <2>3, <2>4
<1>2. ASSUME NEW k \in 1 .. e PROVE \E t \in 0 .. threads-1 : (t % n) + 1 = k
  <2>1. k - 1 \in 0 .. threads-1 /\ k - 1 < n /\ k - 1 >= 0
    BY <1>2
  <2>2. (k - 1) % n = k - 1
    BY <2>1, SMT
  <2>3. ((k - 1) % n) + 1 = k
    BY <2>1, <2>2
  <2> QED
    BY <2>1, <2>3
<1> QED
  BY <1>1, <1>2

\* Parameters that thread_squad's constructor accepts work on every machine that has the
\* hardware threads they name, and the threads are spread over as many of the hardware
\* threads allowed as possible: for any number of threads, mappings and machine.
THEOREM ParamsAlwaysWork ==
    ASSUME NEW p \in AnyParams, NEW h \in Nat PROVE AcceptedParamsWork(p, h)
<1> SUFFICES ASSUME check_params(p) PROVE AcceptedParamsWork(p, h)
  BY DEF AcceptedParamsWork
<1> DEFINE q == create(p, h)
           n == IF p.num_threads = 0 THEN h ELSE p.num_threads
           used == { Allowed(p, h)[k] : k \in 1 .. Min({n, Len(Allowed(p, h))}) }
           pin == p.pin_to_hardware_threads
           aff == { CoreAffinity(q)[t] : t \in 0 .. n-1 }
<1>1. n = ThreadsOf(p, h) /\ n \in Nat /\ (h > 0 => n > 0) /\ pin \in BOOLEAN
  BY ListedFacts DEF ThreadsOf, AnyParams, check_params
<1>2. q.num_threads = n /\ q.pin_to_hardware_threads = pin
  BY <1>1, Created
<1>3. DOMAIN CoreAffinity(q) = 0 .. n-1
      /\ \A t \in 0 .. n-1 : CoreAffinity(q)[t] = get_hardware_thread_id(t, q)
  BY <1>2 DEF CoreAffinity
<1> HIDE DEF n, q
<1>4. Works(p, h) <=> /\ n > 0
                      /\ pin => MayPin(q) /\ \A t \in 0 .. n-1 : MayFork(CoreAffinity(q)[t], h)
  BY <1>2, <1>3 DEF Works, q
<1>5. CASE h = 0
  <2>1. q.max_num_hardware_threads = 0
    <3>1. TakenOf(p, h) \in 0 .. 0
      BY <1>5, ListedFacts
    <3> QED
      BY <3>1, Created DEF q
  <2>2. ~MayPin(q)
    BY <2>1 DEF MayPin
  <2> QED
    BY <1>4, <1>5, <2>2 DEF AcceptedParamsWork, n
<1>6. CASE h # 0
  <2>1. h \in Nat \ {0} /\ n > 0
    BY <1>1, <1>6
  <2>2. PICK m \in Nat \ {0} : m = TakenOf(p, h)
    BY <2>1, ListedFacts
  <2>3. MayPin(q)
    <3>1. /\ q.max_num_hardware_threads = m
          /\ q.hardware_thread_mappings = p.hardware_thread_mappings
      BY <2>2, Created DEF q
    <3>2. p.hardware_thread_mappings # << >> => m <= Len(p.hardware_thread_mappings)
      BY <2>2, ListedFacts DEF Listed
    <3> QED
      BY <3>1, <3>2 DEF MayPin
  <2>4. \A t \in 0 .. n-1 : CoreAffinity(q)[t] = Listed(p, h)[(t % m) + 1]
    <3>1. ASSUME NEW t \in 0 .. n-1 PROVE CoreAffinity(q)[t] = Listed(p, h)[(t % m) + 1]
      <4>1. t \in Nat
        BY <1>1
      <4>2. get_hardware_thread_id(t, q) = Listed(p, h)[(t % m) + 1]
        BY <2>1, <2>2, <4>1, PinnedByTurns DEF q
      <4> QED
        BY <1>3, <4>2
    <3> QED
      BY <3>1
  <2>5. aff = used
    <3>0. PICK e \in 0 .. m : e = IF n <= m THEN n ELSE m
      BY <1>1, <2>2
    <3>1. aff = { Listed(p, h)[(t % m) + 1] : t \in 0 .. n-1 }
      BY <2>4
    <3>2. { Listed(p, h)[(t % m) + 1] : t \in 0 .. n-1 } = { Listed(p, h)[k] : k \in 1 .. e }
      <4>1. /\ \A t \in 0 .. n-1 : (t % m) + 1 \in 1 .. e
            /\ \A k \in 1 .. e : \E t \in 0 .. n-1 : (t % m) + 1 = k
        <5>1. e \in Nat /\ n \in Nat
          BY <1>1, <3>0
        <5> QED
          BY <3>0, <5>1, ByTurns
      <4> QED
        BY <4>1
    <3>3. Min({n, Len(Allowed(p, h))}) = e
      <4>1. Len(Allowed(p, h)) = m
        BY <2>2, AllowedFacts
      <4>2. Min({n, m}) = IF n <= m THEN n ELSE m
        BY <1>1, <2>2, MinOfTwo
      <4> QED
        BY <3>0, <4>1, <4>2
    <3>4. ASSUME NEW k \in 1 .. e PROVE Allowed(p, h)[k] = Listed(p, h)[k]
      <4>1. k \in 1 .. m
        BY <2>2, <3>0
      <4> QED
        BY <2>2, <4>1, AllowedFacts
    <3>5. { Allowed(p, h)[k] : k \in 1 .. e } = { Listed(p, h)[k] : k \in 1 .. e }
      BY <3>4
    <3> QED
      BY <3>1, <3>2, <3>3, <3>5
  <2>6. aff \subseteq 0 .. h-1 <=> \A t \in 0 .. n-1 : MayFork(CoreAffinity(q)[t], h)
    <3>1. \A t \in 0 .. n-1 : Listed(p, h)[(t % m) + 1] \in Int
      <4>1. ASSUME NEW t \in 0 .. n-1 PROVE Listed(p, h)[(t % m) + 1] \in Int
        <5>1. (t % m) + 1 \in 1 .. m
          <6>1. t \in Nat
            BY <1>1
          <6> QED
            BY <2>2, <6>1
        <5>2. /\ Listed(p, h) \in Seq(Int) /\ Len(Listed(p, h)) \in Nat
              /\ m <= Len(Listed(p, h))
          BY <2>2, ListedFacts
        <5>3. (t % m) + 1 \in 1 .. Len(Listed(p, h))
          BY <5>1, <5>2
        <5> QED
          BY <5>2, <5>3
      <4> QED
        BY <4>1
    <3>2. \A t \in 0 .. n-1 : CoreAffinity(q)[t] \in 0 .. h-1 <=> MayFork(CoreAffinity(q)[t], h)
      BY <2>1, <2>4, <3>1 DEF MayFork
    <3> QED
      BY <3>2
  <2> HIDE DEF aff, used
  <2>7. Works(p, h) <=> (pin => used \subseteq 0 .. h-1)
    BY <1>4, <2>1, <2>3, <2>5, <2>6
  <2>8. /\ Works(p, h) <=> IF pin THEN h > 0 /\ used \subseteq 0 .. h-1 ELSE n > 0
        /\ pin /\ Works(p, h) => aff = used
    BY <1>1, <2>1, <2>5, <2>7
  <2> QED
    BY <2>8 DEF AcceptedParamsWork, aff, used, n, q
<1> QED
  BY <1>5, <1>6

(***************************************************************************)
(* Alignments, for every width of std::size_t and all sizes of hardware    *)
(* that are below the bits with a special meaning.                         *)
(***************************************************************************)

\* The bits of std::size_t, and those that a size may have.
Bits     == 0 .. Width - 1
SizeBits == 0 .. Width - 4

\* A number that is not zero has a highest bit.
LEMMA HighestBit ==
    ASSUME NEW x \in SUBSET Bits, x # {}
    PROVE  Max(x) \in x /\ \A i \in x : i <= Max(x)
<1> DEFINE below == { k \in Nat : Width - 1 - k \in x }
<1>1. Width \in Nat
  BY AlignmentAssumption
<1>2. below # {}
  <2>1. PICK i \in x : TRUE
    OBVIOUS
  <2>2. Width - 1 - i \in Nat /\ Width - 1 - (Width - 1 - i) = i
    BY <1>1, <2>1 DEF Bits
  <2> QED
    BY <2>1, <2>2
<1>3. PICK k \in below : \A l \in below : k <= l
  <2> DEFINE R == OpToRel(<, Nat)
  <2>1. IsWellFoundedOn(R, Nat)
    BY NatLessThanWellFounded
  <2>2. below \subseteq Nat
    OBVIOUS
  <2> HIDE DEF below, R
  <2>3. PICK k \in below : \A l \in below : ~(<<l, k>> \in R)
    BY <1>2, <2>1, <2>2, WFMin
  <2>4. ASSUME NEW l \in below PROVE k <= l
    <3>1. l < k => <<l, k>> \in R
      BY <2>2 DEF R, OpToRel
    <3>2. ~(l < k)
      BY <2>3, <3>1
    <3> QED
      BY <2>2, <3>2
  <2> QED
    BY <2>4
<1>5. Width - 1 - k \in x
  OBVIOUS
<1>6. ASSUME NEW i \in x PROVE i <= Width - 1 - k
  <2>1. Width - 1 - i \in below
    <3>1. Width - 1 - i \in Nat /\ Width - 1 - (Width - 1 - i) = i
      BY <1>1 DEF Bits
    <3> QED
      BY <3>1
  <2>2. k <= Width - 1 - i
    BY <1>3, <2>1
  <2>3. i \in Int /\ k \in Int
    BY DEF Bits
  <2> QED
    BY <1>1, <2>2, <2>3
<1>7. \E m \in x : \A i \in x : m >= i
  <2>1. Width - 1 - k \in Int /\ \A i \in x : i \in Int
    BY <1>1 DEF Bits
  <2> QED
    BY <1>5, <1>6, <2>1
<1>8. Max(x) \in x /\ \A i \in x : Max(x) >= i
  BY <1>7 DEF Max
<1>9. \A i \in x : i \in Int
  BY DEF Bits
<1> QED
  BY <1>8, <1>9

\* Numbers with one bit compare as these do.
LEMMA OneBit ==
    ASSUME NEW i \in Int, NEW j \in Int
    PROVE  AtLeast({i}, {j}) <=> j <= i
<1>1. CASE i = j
  BY <1>1 DEF AtLeast
<1>2. CASE i # j
  <2>1. {j} \ {i} = {j} /\ {i} \ {j} = {i}
    BY <1>2
  <2> QED
    BY <1>2, <2>1 DEF AtLeast
<1> QED
  BY <1>1, <1>2

\* An alignment whose special bits have been replaced is the power of two of its highest
\* bit, or 1.
LEMMA PowerOfTwo ==
    ASSUME NEW x \in SUBSET (0 .. Width - 2)
    PROVE  \E m \in 0 .. Width - 2 :
               /\ raw_alignment_in_bytes(x) = {m}
               /\ \A i \in x : i <= m
               /\ m \in x \/ m = 0
<1>1. Width \in Nat /\ Width > 4 /\ Width - 1 \notin x
  BY AlignmentAssumption
<1>2. CASE x = {}
  <2>1. raw_alignment_in_bytes(x) = {0}
    BY <1>2 DEF raw_alignment_in_bytes, floor_2p
  <2> QED
    BY <1>1, <1>2, <2>1
<1>3. CASE x # {}
  <2>1. Max(x) \in x /\ \A i \in x : i <= Max(x)
    <3>1. x \in SUBSET Bits
      BY <1>1 DEF Bits
    <3> QED
      BY <1>3, <3>1, HighestBit
  <2>2. floor_2p(x) = {Max(x)}
    BY <1>1, <1>3 DEF floor_2p
  <2>3. raw_alignment_in_bytes(x) = {Max(x)}
    BY <2>2 DEF raw_alignment_in_bytes
  <2> QED
    BY <2>1, <2>3
<1> QED
  BY <1>2, <1>3

\* Sizes of cache lines, pages and large pages are powers of two, in that order.
LEMMA HardwareFacts ==
    ASSUME NEW hw \in Hardware(SizeBits)
    PROVE  \E c, p \in SizeBits :
               /\ hw.cache_line = {c} /\ hw.page = {p} /\ c <= p
               /\ hw.large_page = {} \/ \E l \in SizeBits : hw.large_page = {l} /\ p <= l
<1>1. PICK c \in SizeBits, p \in SizeBits : hw.cache_line = {c} /\ hw.page = {p}
  BY DEF Hardware
<1>2. c \in Int /\ p \in Int
  BY DEF SizeBits
<1>3. c <= p
  BY <1>1, <1>2, OneBit DEF Hardware
<1>4. hw.large_page = {} \/ \E l \in SizeBits : hw.large_page = {l} /\ p <= l
  <2>1. CASE hw.large_page # {}
    <3>1. PICK l \in SizeBits : hw.large_page = {l}
      BY <2>1 DEF Hardware
    <3>2. l \in Int
      BY DEF SizeBits
    <3>3. AtLeast({l}, {p})
      BY <1>1, <2>1, <3>1 DEF Hardware
    <3> QED
      BY <1>2, <3>1, <3>2, <3>3, OneBit
  <2> QED
    BY <2>1
<1> QED
  BY <1>1, <1>3, <1>4

\* What special bits are replaced by.
LEMMA LookupFacts ==
    ASSUME NEW hw \in Hardware(SizeBits), NEW x \in SUBSET Bits
    PROVE  LET found == lookup_special_alignments(x, hw)
           IN  /\ found \in SUBSET SizeBits
               /\ x \ special_alignments \subseteq found
               /\ Width - 1 \in x => hw.large_page \cup hw.page \subseteq found
               /\ Width - 2 \in x => hw.page \subseteq found
               /\ Width - 3 \in x => hw.cache_line \subseteq found
               /\ \A i \in found :
                      \/ i \in x \ special_alignments
                      \/ Width - 1 \in x /\ i \in hw.large_page
                      \/ {Width - 1, Width - 2} \cap x # {} /\ i \in hw.page
                      \/ Width - 3 \in x /\ i \in hw.cache_line
<1>1. hw.cache_line \subseteq SizeBits /\ hw.page \subseteq SizeBits /\ hw.large_page \subseteq SizeBits
  BY HardwareFacts
<1>2. Width \in Nat /\ Width > 4
  BY AlignmentAssumption
<1>3. x \ special_alignments \subseteq SizeBits
  <2>1. \A i \in Bits : i \notin {Width - 1, Width - 2, Width - 3} => i \in SizeBits
    BY <1>2 DEF Bits, SizeBits
  <2>2. special_alignments = {Width - 1, Width - 2, Width - 3}
    BY DEF special_alignments, large_page_alignment, page_alignment, cache_line_alignment
  <2> QED
    BY <2>1, <2>2
<1>4. /\ x \cap large_page_alignment # {} <=> Width - 1 \in x
      /\ x \cap (large_page_alignment \cup page_alignment) # {}
             <=> {Width - 1, Width - 2} \cap x # {}
      /\ x \cap cache_line_alignment # {} <=> Width - 3 \in x
  BY DEF large_page_alignment, page_alignment, cache_line_alignment
<1>5. lookup_special_alignments(x, hw) =
        ((x \ special_alignments)
            \cup (IF Width - 1 \in x THEN hw.large_page ELSE {})
            \cup (IF {Width - 1, Width - 2} \cap x # {} THEN hw.page ELSE {})
            \cup (IF Width - 3 \in x THEN hw.cache_line ELSE {}))
  BY <1>4 DEF lookup_special_alignments
<1>6. lookup_special_alignments(x, hw) \in SUBSET SizeBits
  BY <1>1, <1>3, <1>5
<1> QED
  BY <1>5, <1>6

\* An alignment at runtime is the power of two of a bit.
LEMMA RuntimeBit ==
    ASSUME NEW hw \in Hardware(SizeBits), NEW x \in SUBSET Bits
    PROVE  \E m \in 0 .. Width - 2 :
               /\ alignment_in_bytes(x, hw) = {m}
               /\ \A i \in lookup_special_alignments(x, hw) : i <= m
               /\ m \in lookup_special_alignments(x, hw) \/ m = 0
<1> DEFINE found == lookup_special_alignments(x, hw)
<1>1. found \in SUBSET SizeBits
  BY LookupFacts
<1>2. found \in SUBSET (0 .. Width - 2)
  <2>1. SizeBits \subseteq 0 .. Width - 2
    BY AlignmentAssumption DEF SizeBits
  <2> QED
    BY <1>1, <2>1
<1>3. alignment_in_bytes(x, hw) = raw_alignment_in_bytes(found)
  BY DEF alignment_in_bytes, raw_alignment_in_bytes
<1> HIDE DEF found
<1> QED
  BY <1>2, <1>3, PowerOfTwo DEF found

\* What does not exceed b as long as everything it may be replaced by does not.
LEMMA RuntimeBound ==
    ASSUME NEW hw \in Hardware(SizeBits), NEW x \in SUBSET Bits, NEW b \in Nat,
           \A i \in x \ special_alignments : i <= b,
           Width - 1 \in x => \A i \in hw.large_page : i <= b,
           {Width - 1, Width - 2} \cap x # {} => \A i \in hw.page : i <= b,
           Width - 3 \in x => \A i \in hw.cache_line : i <= b
    PROVE  \A m \in alignment_in_bytes(x, hw) : m <= b
<1>1. \A i \in lookup_special_alignments(x, hw) : i <= b
  BY LookupFacts
<1>2. PICK m : /\ alignment_in_bytes(x, hw) = {m}
               /\ m \in lookup_special_alignments(x, hw) \/ m = 0
  BY RuntimeBit
<1> QED
  BY <1>1, <1>2

\* What the comparison of special bits amounts to.
LEMMA SpecialFacts ==
    ASSUME NEW x \in SUBSET Bits, NEW y \in SUBSET Bits,
           AtLeast(x \cap special_alignments, y \cap special_alignments)
    PROVE  /\ Width - 1 \in y => Width - 1 \in x
           /\ Width - 2 \in y => Width - 1 \in x \/ Width - 2 \in x
           /\ Width - 3 \in y => x \cap special_alignments # {}
<1>1. Width \in Nat /\ Width > 4
  BY AlignmentAssumption
<1>2. special_alignments = {Width - 1, Width - 2, Width - 3}
  BY DEF special_alignments, large_page_alignment, page_alignment, cache_line_alignment
<1>3. \A i \in special_alignments :
         i \in y /\ i \notin x => \E j \in special_alignments : j \in x /\ j > i
  BY DEF AtLeast
<1>4. Width - 1 \in y => Width - 1 \in x
  <2>1. \A j \in special_alignments : ~(j > Width - 1)
    BY <1>1, <1>2
  <2> QED
    BY <1>2, <1>3, <2>1
<1>5. Width - 2 \in y => Width - 1 \in x \/ Width - 2 \in x
  <2>1. \A j \in special_alignments : j > Width - 2 => j = Width - 1
    BY <1>1, <1>2
  <2> QED
    BY <1>2, <1>3, <2>1
<1>6. Width - 3 \in y => x \cap special_alignments # {}
  BY <1>2, <1>3
<1> QED
  BY <1>4, <1>5, <1>6

\* What is known at compile time bounds what is asked for.
LEMMA StaticFacts ==
    ASSUME NEW x \in SUBSET Bits, NEW y \in SUBSET Bits, provides_static_alignment(x, y)
    PROVE  /\ \A i \in y \ special_alignments :
                  \/ i = 0
                  \/ i <= Interference /\ x \cap special_alignments # {}
                  \/ \E j \in x \ special_alignments : i <= j
           /\ AtLeast(x \cap special_alignments, y \cap special_alignments)
<1> DEFINE special == x \cap special_alignments # {}
           basic == (x \ special_alignments) \cup (IF special THEN {Interference} ELSE {})
           asked == y \ special_alignments
<1>1. AtLeast(x \cap special_alignments, y \cap special_alignments)
  BY DEF provides_static_alignment
<1>2. AtLeast(raw_alignment_in_bytes(basic), raw_alignment_in_bytes(asked))
  BY DEF provides_static_alignment
<1>3. basic \in SUBSET (0 .. Width - 2) /\ asked \in SUBSET (0 .. Width - 2)
  <2>1. Width \in Nat /\ Width > 4 /\ Interference \in 0 .. Width - 2
    BY AlignmentAssumption
  <2>2. \A i \in Bits : i # Width - 1 => i \in 0 .. Width - 2
    BY <2>1 DEF Bits
  <2>3. Width - 1 \in special_alignments
    BY DEF special_alignments, large_page_alignment
  <2> QED
    BY <2>1, <2>2, <2>3
<1> HIDE DEF basic, asked
<1>4. PICK b \in 0 .. Width - 2 : /\ raw_alignment_in_bytes(basic) = {b}
                                  /\ b \in basic \/ b = 0
  BY <1>3, PowerOfTwo
<1>5. PICK a \in 0 .. Width - 2 : /\ raw_alignment_in_bytes(asked) = {a}
                                  /\ \A i \in asked : i <= a
  BY <1>3, PowerOfTwo
<1>6. a <= b
  BY <1>2, <1>4, <1>5, OneBit
<1>7. \A i \in asked : i <= b /\ i \in Nat
  BY <1>3, <1>5, <1>6
<1>8. CASE b = 0
  <2>1. \A i \in asked : i = 0
    BY <1>7, <1>8
  <2> QED
    BY <1>1, <2>1 DEF asked
<1>9. CASE b \in basic
  <2>1. b \in x \ special_alignments \/ (special /\ b = Interference)
    BY <1>9 DEF basic
  <2> QED
    BY <1>1, <1>7, <2>1 DEF asked
<1> QED
  BY <1>4, <1>8, <1>9

\* Alignments can be combined: memory that is aligned for a combination is aligned for each
\* part, and for what special alignments stand for on every machine, with large pages or
\* without.
THEOREM AlignmentsAlwaysCombine ==
    ASSUME NEW x \in SUBSET Bits, NEW y \in SUBSET Bits, NEW hw \in Hardware(SizeBits)
    PROVE  CombinedSatisfiesEach(x, y, hw)
<1> DEFINE both == x \cup y
<1>1. both \in SUBSET Bits
  OBVIOUS
<1>2. PICK c \in 0 .. Width - 2 : /\ alignment_in_bytes(both, hw) = {c}
                                  /\ \A i \in lookup_special_alignments(both, hw) : i <= c
  BY <1>1, RuntimeBit
<1>3. c \in Nat
  OBVIOUS
<1>4. /\ \A i \in both \ special_alignments : i <= c
      /\ Width - 1 \in both => \A i \in hw.large_page \cup hw.page : i <= c
      /\ Width - 2 \in both => \A i \in hw.page : i <= c
      /\ Width - 3 \in both => \A i \in hw.cache_line : i <= c
  BY <1>1, <1>2, LookupFacts
<1> HIDE DEF both
<1>5. ASSUME NEW z \in SUBSET Bits, z \subseteq both
      PROVE  Satisfies({c}, alignment_in_bytes(z, hw))
  <2>1. \A m \in alignment_in_bytes(z, hw) : m <= c
    BY <1>3, <1>4, <1>5, RuntimeBound
  <2> QED
    BY <2>1 DEF Satisfies
<1>6. x \subseteq both /\ y \subseteq both
  BY DEF both
<1>7. large_page_alignment \subseteq x => Satisfies({c}, hw.large_page)
  BY <1>4, <1>6 DEF Satisfies, large_page_alignment
<1>8. (large_page_alignment \cup page_alignment) \cap x # {} => Satisfies({c}, hw.page)
  BY <1>4, <1>6 DEF Satisfies, large_page_alignment, page_alignment
<1>9. special_alignments \cap x # {} => Satisfies({c}, hw.cache_line)
  <2>1. PICK l \in SizeBits, p \in SizeBits : hw.cache_line = {l} /\ hw.page = {p} /\ l <= p
    BY HardwareFacts
  <2>2. l \in Int /\ p \in Int /\ c \in Int
    BY DEF SizeBits
  <2>3. p <= c => l <= c
    BY <2>1, <2>2
  <2>4. special_alignments \cap x # {} => l <= c
    BY <1>4, <1>6, <2>1, <2>3
       DEF special_alignments, large_page_alignment, page_alignment, cache_line_alignment
  <2> QED
    BY <2>1, <2>4 DEF Satisfies
<1>10. alignment_in_bytes(both, hw) = {c}
  BY <1>2
<1> QED
  BY <1>5, <1>6, <1>7, <1>8, <1>9, <1>10 DEF CombinedSatisfiesEach, both

\* Memory aligned to g satisfies a request that was granted at compile time to somebody who
\* provides x, if g is what x stands for, or more.
LEMMA GrantedIsMet ==
    ASSUME NEW hw \in Hardware(SizeBits), NEW x \in SUBSET Bits, NEW y \in SUBSET Bits,
           AtLeast(hw.cache_line, {Interference}), provides_static_alignment(x, y),
           NEW g \in Nat,
           \A i \in x \ special_alignments : i <= g,
           Width - 1 \in x => \A i \in hw.large_page \cup hw.page : i <= g,
           Width - 2 \in x => \A i \in hw.page : i <= g,
           Width - 3 \in x => \A i \in hw.cache_line : i <= g
    PROVE  \A m \in alignment_in_bytes(y, hw) : m <= g
<1>1. PICK c \in SizeBits, p \in SizeBits : hw.cache_line = {c} /\ hw.page = {p} /\ c <= p
  BY HardwareFacts
<1>2. c \in Nat /\ p \in Nat /\ Interference \in Nat
  BY AlignmentAssumption DEF SizeBits
<1>3. Interference <= c
  BY <1>1, <1>2, OneBit
<1>4. special_alignments = {Width - 1, Width - 2, Width - 3}
  BY DEF special_alignments, large_page_alignment, page_alignment, cache_line_alignment
<1>5. x \cap special_alignments # {} => c <= g
  <2>1. p <= g => c <= g
    BY <1>1, <1>2
  <2> QED
    BY <1>1, <1>4, <2>1
<1>6. \A i \in y \ special_alignments : i <= g
  <2>0. \A i \in y \ special_alignments :
           \/ i = 0
           \/ i <= Interference /\ x \cap special_alignments # {}
           \/ \E j \in x \ special_alignments : i <= j
    BY StaticFacts
  <2>1. ASSUME NEW i \in y \ special_alignments PROVE i <= g
    <3>1. i \in Int
      BY DEF Bits
    <3>2. CASE i = 0
      BY <3>2
    <3>3. CASE i <= Interference /\ x \cap special_alignments # {}
      <4>1. c <= g
        BY <1>5, <3>3
      <4> QED
        BY <1>2, <1>3, <3>1, <3>3, <4>1
    <3>4. CASE \E j \in x \ special_alignments : i <= j
      <4>1. PICK j \in x \ special_alignments : i <= j
        BY <3>4
      <4>2. j \in Int /\ j <= g
        BY DEF Bits
      <4> QED
        BY <3>1, <4>1, <4>2
    <3>5. \/ i = 0
          \/ i <= Interference /\ x \cap special_alignments # {}
          \/ \E j \in x \ special_alignments : i <= j
      BY <2>0
    <3> QED
      BY <3>2, <3>3, <3>4, <3>5
  <2> QED
    BY <2>1
<1>7. /\ Width - 1 \in y => Width - 1 \in x
      /\ Width - 2 \in y => Width - 1 \in x \/ Width - 2 \in x
      /\ Width - 3 \in y => x \cap special_alignments # {}
  BY StaticFacts, SpecialFacts
<1>8. Width - 1 \in y => \A i \in hw.large_page : i <= g
  BY <1>7
<1>9. {Width - 1, Width - 2} \cap y # {} => \A i \in hw.page : i <= g
  BY <1>7
<1>10. Width - 3 \in y => \A i \in hw.cache_line : i <= g
  BY <1>1, <1>5, <1>7
<1> QED
  BY <1>6, <1>8, <1>9, <1>10, RuntimeBound

\* Whoever provides at least x meets at runtime what was granted to x at compile time.
LEMMA MoreIsEnough ==
    ASSUME NEW hw \in Hardware(SizeBits), NEW x \in SUBSET Bits, NEW y \in SUBSET Bits,
           AtLeast(hw.cache_line, {Interference}), provides_static_alignment(x, y),
           NEW more \in SUBSET Bits, x \subseteq more
    PROVE  /\ Satisfies(alignment_in_bytes(more, hw), alignment_in_bytes(y, hw))
           /\ provides_dynamic_alignment(more, y, hw)
<1>1. PICK g \in 0 .. Width - 2 : /\ alignment_in_bytes(more, hw) = {g}
                                  /\ \A i \in lookup_special_alignments(more, hw) : i <= g
  BY RuntimeBit
<1>2. PICK m \in 0 .. Width - 2 : alignment_in_bytes(y, hw) = {m}
  BY RuntimeBit
<1>3. g \in Nat /\ m \in Int
  OBVIOUS
<1>4. /\ \A i \in x \ special_alignments : i <= g
      /\ Width - 1 \in x => \A i \in hw.large_page \cup hw.page : i <= g
      /\ Width - 2 \in x => \A i \in hw.page : i <= g
      /\ Width - 3 \in x => \A i \in hw.cache_line : i <= g
  BY <1>1, LookupFacts
<1>5. \A i \in alignment_in_bytes(y, hw) : i <= g
  BY <1>3, <1>4, GrantedIsMet
<1>6. m <= g
  BY <1>2, <1>5
<1>7. Satisfies({g}, {m}) /\ AtLeast({g}, {m})
  BY <1>3, <1>6, OneBit DEF Satisfies
<1>8. alignment_in_bytes(more, hw) = {g} /\ alignment_in_bytes(y, hw) = {m}
  BY <1>1, <1>2
<1> QED
  BY <1>7, <1>8 DEF provides_dynamic_alignment

\* What allocators say about alignment at compile time holds at runtime: whatever is asked
\* for, whatever alignments the user, the type and std::max_align_t have, and on every
\* machine whose cache lines are as long as the compiler supposes.
THEOREM PromisesAlwaysKept ==
    ASSUME NEW allocator, NEW alignment \in SUBSET Bits, NEW own \in SUBSET Bits,
           NEW m \in SizeBits, NEW requested \in SUBSET Bits, NEW hw \in Hardware(SizeBits)
    PROVE  PromisesAreKept(allocator, alignment, own, {m}, requested, hw)
<1> DEFINE most == {m}
<1> SUFFICES ASSUME AtLeast(hw.cache_line, {Interference}),
                    Provides(allocator, alignment, own, most, requested)
             PROVE  /\ Satisfies(Returns(allocator, alignment, own, most, hw),
                                 alignment_in_bytes(requested, hw))
                    /\ allocator = "aligned" =>
                           provides_dynamic_alignment(alignment \cup own, requested, hw)
  BY DEF PromisesAreKept
<1> HIDE DEF most
<1>1. alignment \cup own \in SUBSET Bits
  OBVIOUS
<1>2. CASE allocator = "aligned"
  <2>1. provides_static_alignment(alignment \cup own, requested)
    BY <1>2 DEF Provides
  <2>2. Returns(allocator, alignment, own, most, hw) = alignment_in_bytes(alignment \cup own, hw)
    BY <1>2 DEF Returns
  <2> QED
    BY <1>1, <2>1, <2>2, MoreIsEnough
<1>3. CASE allocator \in {"page", "large_page"}
  <2>1. provides_static_alignment(page_alignment, requested)
    BY <1>3 DEF Provides
  <2>2. Returns(allocator, alignment, own, most, hw) = hw.page
    BY <1>3 DEF Returns
  <2>3. PICK p \in SizeBits : hw.page = {p}
    BY HardwareFacts
  <2>4. p \in Nat
    BY DEF SizeBits
  <2>5. page_alignment \in SUBSET Bits
    BY AlignmentAssumption DEF page_alignment, Bits
  <2>6. /\ page_alignment \ special_alignments = {}
        /\ Width - 1 \notin page_alignment /\ Width - 3 \notin page_alignment
    <3>1. Width - 1 # Width - 2 /\ Width - 3 # Width - 2
      BY AlignmentAssumption
    <3> QED
      BY <3>1 DEF page_alignment, special_alignments
  <2>7. \A i \in hw.page : i <= p
    BY <2>3, <2>4
  <2>8. \A i \in alignment_in_bytes(requested, hw) : i <= p
    BY <2>1, <2>4, <2>5, <2>6, <2>7, GrantedIsMet
  <2> QED
    BY <1>3, <2>2, <2>3, <2>8 DEF Satisfies
<1>4. CASE allocator = "adaptor" /\ NeedAlignment(alignment, own, most)
  <2>1. provides_static_alignment(alignment, requested)
    BY <1>4 DEF Provides
  <2>2. Returns(allocator, alignment, own, most, hw) = alignment_in_bytes(alignment \cup own, hw)
    BY <1>4 DEF Returns
  <2> QED
    BY <1>1, <1>4, <2>1, <2>2, MoreIsEnough
<1>5. CASE /\ allocator \notin {"aligned", "page", "large_page"}
           /\ ~(allocator = "adaptor" /\ NeedAlignment(alignment, own, most))
  <2>1. provides_static_alignment(most, requested)
    BY <1>5 DEF Provides
  <2>2. Returns(allocator, alignment, own, most, hw) = most
    BY <1>5 DEF Returns
  <2>3. m \in Nat /\ most \in SUBSET Bits
    BY AlignmentAssumption DEF Bits, SizeBits, most
  <2>4. Width - 1 \notin most /\ Width - 2 \notin most /\ Width - 3 \notin most
    BY AlignmentAssumption DEF SizeBits, most
  <2>5. \A i \in most : i <= m
    BY <2>3 DEF most
  <2>6. \A i \in alignment_in_bytes(requested, hw) : i <= m
    BY <2>1, <2>3, <2>4, <2>5, GrantedIsMet
  <2> QED
    BY <1>5, <2>2, <2>6 DEF Satisfies, most
<1> QED
  BY <1>2, <1>3, <1>4, <1>5

==============================================================================
