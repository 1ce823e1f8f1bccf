-------------------------- MODULE SignalWait_proofs --------------------------
(***************************************************************************)
(* Proofs about the signals of SignalWait, for any number of rounds and    *)
(* loads in a spinning loop: set_and_notify's assertion, the order of the  *)
(* stores to a flag, and the safety part of the promise of Handover.       *)
(***************************************************************************)
EXTENDS SignalWait, TLAPS

----------------------------------------------------------------------------
(* The inductive invariant.  At any time either one thread holds what is   *)
(* handed over and knows of every store and every access there has been, or*)
(* it is under way: its flag is set, and the store that set it took all of *)
(* that knowledge along.                                                   *)

View  == [flag : [Thread -> Nat \ {0}], accesses : Nat]
Entry == [val : {Old, New}, view : View]

AwayLabels == {"notify", "begin", "spin", "acquire", "wait", "block", "asleep"}
Labels == {"idle", "reset", "check", "set", "access"} \cup AwayLabels

Types ==
    /\ mem \in [Thread -> Seq(Entry)]
    /\ \A f \in Thread : Len(mem[f]) > 0
    /\ view \in [Thread -> View]
    /\ accesses \in Nat
    /\ known \in [Thread -> Nat]
    /\ spin \in BOOLEAN
    /\ tries \in [Thread -> 0 .. SpinLimit]
    /\ pc \in [Thread -> Labels]

Newest(f) == mem[f][Len(mem[f])]
IsSet(f)  == Newest(f).val = New

\* All there is to know: the newest store to either flag and the latest access.
Everything == [flag |-> [f \in Thread |-> Len(mem[f])], accesses |-> accesses]

\* Nobody knows more than that.
Known(v) ==
    /\ \A f \in Thread : v.flag[f] \in 1 .. Len(mem[f])
    /\ v.accesses \in 0 .. accesses

\* ... after the step, either.
KnownNext(v) ==
    /\ \A f \in Thread : v.flag[f] \in 1 .. Len(mem'[f])
    /\ v.accesses \in 0 .. accesses'

KnownToExist ==
    /\ \A t \in Thread : Known(view[t])
    /\ \A f \in Thread : \A i \in 1 .. Len(mem[f]) : Known(mem[f][i].view)

Away(t)  == pc[t] \in AwayLabels
Holds(t) == ~Away(t)

OneHolder == Away(a) \/ Away(b)

\* The holder knows everything; the other flag is not set, nor is its own after the
\* reset.  Its program counter tells the number of accesses in this round.
HolderKnows(t) ==
    Holds(t) =>
        /\ view[t] = Everything
        /\ ~IsSet(Other(t))
        /\ pc[t] \in {"check", "set"} => ~IsSet(t)

Phase ==
    /\ pc[a] = "idle" => accesses % 3 = 0
    /\ pc[a] \in {"reset", "check", "set"} => accesses % 3 = 1
    /\ pc[a] = "access" => accesses % 3 = 2
    /\ pc[b] # "idle"
    /\ pc[b] = "access" => accesses % 3 = 1
    /\ pc[b] \in {"reset", "check", "set"} => accesses % 3 = 2

\* With no holder, exactly one flag is set.
UnderWay ==
    Away(a) /\ Away(b) =>
        \E t \in Thread :
            /\ IsSet(t) /\ ~IsSet(Other(t))
            /\ Newest(t).view = Everything
            /\ accesses % 3 = IF t = a THEN 2 ELSE 1

\* A thread that is away has seen its own reset, the store before the one it waits
\* for, and goes on to acquire only what it has seen to be set.
AwayKnows(t) ==
    Away(t) =>
        LET n == Len(mem[t]) IN
        /\ IF IsSet(t)
           THEN n > 1 /\ mem[t][n - 1].val = Old /\ view[t].flag[t] >= n - 1
           ELSE view[t].flag[t] = n
        /\ pc[t] = "acquire" => IsSet(t) /\ view[t].flag[t] = n

IInv ==
    /\ Types /\ KnownToExist /\ OneHolder /\ Phase /\ UnderWay
    /\ \A t \in Thread : HolderKnows(t) /\ AwayKnows(t)

----------------------------------------------------------------------------
(* The threads and what they know.                                         *)

LEMMA TwoThreads ==
    ASSUME NEW t \in Thread
    PROVE  /\ Other(t) \in Thread /\ Other(t) # t /\ Other(Other(t)) = t
           /\ \A u \in Thread : u = t \/ u = Other(t)
BY SignalAssumption DEF Thread, Other

\* NoView is the least view.
LEMMA NoViewKnown ==
    ASSUME Types
    PROVE  NoView \in View /\ Known(NoView)
BY DEF NoView, View, Known, Types

\* Views with the same fields are the same.
LEMMA SameView ==
    ASSUME NEW v \in View, NEW w \in View,
           v.accesses = w.accesses, \A f \in Thread : v.flag[f] = w.flag[f]
    PROVE  v = w
<1>1. v.flag = w.flag
  BY DEF View
<1> QED
  BY <1>1 DEF View

LEMMA EverythingKnown ==
    ASSUME Types
    PROVE  Everything \in View /\ Known(Everything)
<1>1. \A f \in Thread : Len(mem[f]) \in Nat \ {0}
  BY DEF Types
<1> QED
  BY <1>1 DEF Everything, View, Known, Types

\* What a join with an existing view yields.
LEMMA Joins ==
    ASSUME Types, NEW v \in View, NEW w \in View, Known(v), Known(w)
    PROVE  /\ Join(v, w) \in View /\ Known(Join(v, w))
           /\ \A f \in Thread : Join(v, w).flag[f] >= v.flag[f]
           /\ w = Everything => Join(v, w) = Everything
<1> DEFINE Later(m, n) == IF m < n THEN n ELSE m
           j == Join(v, w)
<1>1. /\ \A f \in Thread : v.flag[f] \in Nat \ {0} /\ w.flag[f] \in Nat \ {0}
      /\ v.accesses \in Nat /\ w.accesses \in Nat
  BY DEF View
<1>2. j = [flag |-> [f \in Thread |-> Later(v.flag[f], w.flag[f])],
           accesses |-> Later(v.accesses, w.accesses)]
  BY DEF Join
<1>3. /\ j.accesses = Later(v.accesses, w.accesses)
      /\ \A f \in Thread : j.flag[f] = Later(v.flag[f], w.flag[f])
  BY <1>2
<1>4. j \in View
  BY <1>1, <1>2 DEF View
<1>5. Known(j)
  BY <1>1, <1>3 DEF Known, Types
<1>6. \A f \in Thread : j.flag[f] >= v.flag[f]
  BY <1>1, <1>3
<1>7. ASSUME w = Everything
      PROVE  j = Everything
  <2>1. \A f \in Thread : Len(mem[f]) \in Nat /\ w.flag[f] = Len(mem[f])
    BY <1>7 DEF Everything, Types
  <2>2. w.accesses = accesses
    BY <1>7 DEF Everything
  <2>3. \A f \in Thread : j.flag[f] = w.flag[f]
    BY <1>1, <1>3, <2>1 DEF Known
  <2>4. j.accesses = w.accesses
    BY <1>1, <1>3, <2>2 DEF Known, Types
  <2> QED
    BY <1>4, <1>7, <2>3, <2>4, SameView
<1> QED
  BY <1>4, <1>5, <1>6, <1>7

\* What a thread has seen after it has looked at a store.
LEMMA Sees ==
    ASSUME Types, NEW t \in Thread, NEW f \in Thread, NEW i \in Nat \ {0}
    PROVE  /\ Seeing(t, f, i) \in View
           /\ Seeing(t, f, i).flag[f] = i
           /\ \A g \in Thread \ {f} : Seeing(t, f, i).flag[g] = view[t].flag[g]
           /\ Seeing(t, f, i).accesses = view[t].accesses
BY DEF Types, View, Seeing

\* A load teaches its thread something, and nobody anything else.
LEMMA Loads ==
    ASSUME Types, KnownToExist, UNCHANGED <<mem, accesses>>,
           NEW t \in Thread, NEW f \in Thread, NEW i \in Visible(t, f),
           LoadRelaxed(t, f, i) \/ LoadAcquire(t, f, i)
    PROVE  /\ view' \in [Thread -> View]
           /\ \A u \in Thread \ {t} : view'[u] = view[u]
           /\ KnownToExist'
           /\ \A g \in Thread : view'[t].flag[g] >= view[t].flag[g]
           /\ view'[t].flag[f] >= i
           /\ LoadRelaxed(t, f, i) => view'[t] = Seeing(t, f, i)
           /\ LoadAcquire(t, f, i) /\ mem[f][i].view = Everything
                => view'[t] = Everything
<1> DEFINE s == Seeing(t, f, i)
           w == mem[f][i].view
<1>1. i \in Nat \ {0} /\ i \in 1 .. Len(mem[f]) /\ i >= view[t].flag[f]
  BY DEF Visible, Types, View, KnownToExist, Known
<1>2. /\ s \in View /\ s.flag[f] = i /\ s.accesses = view[t].accesses
      /\ \A g \in Thread \ {f} : s.flag[g] = view[t].flag[g]
  BY <1>1, Sees
<1>3. Known(s)
  BY <1>1, <1>2 DEF KnownToExist, Known
<1>4. \A g \in Thread : s.flag[g] >= view[t].flag[g] /\ s.flag[g] \in Nat
  <2>1. \A g \in Thread : view[t].flag[g] \in Nat
    BY DEF Types, View
  <2> QED
    BY <1>1, <1>2, <2>1
<1>5. w \in View /\ Known(w)
  <2>1. mem[f] \in Seq(Entry)
    BY DEF Types
  <2>2. mem[f][i] \in Entry
    BY <1>1, <2>1
  <2> QED
    BY <1>1, <2>2 DEF Entry, KnownToExist
<1> DEFINE j == Join(s, w)
<1>6. /\ j \in View /\ Known(j) /\ \A g \in Thread : j.flag[g] >= s.flag[g]
      /\ w = Everything => j = Everything
  <2>1. s \in View
    BY <1>2
  <2> HIDE DEF s, w
  <2> QED
    BY <1>3, <1>5, <2>1, Joins
<1>7. \A g \in Thread : view[t].flag[g] \in Nat /\ j.flag[g] \in Nat
  <2>1. view[t] \in View
    BY DEF Types
  <2> HIDE DEF j
  <2> QED
    BY <1>6, <2>1 DEF View
<1>8. CASE LoadRelaxed(t, f, i)
  <2>1. view' = [view EXCEPT ![t] = s]
    BY <1>8 DEF LoadRelaxed
  <2> HIDE DEF s
  <2>2. view' \in [Thread -> View] /\ view'[t] = s
        /\ \A u \in Thread \ {t} : view'[u] = view[u]
    BY <2>1, <1>2 DEF Types
  <2>3. KnownToExist'
    BY <2>2, <1>3 DEF KnownToExist, Known
  <2>4. LoadAcquire(t, f, i) /\ w = Everything => view'[t] = Everything
    BY <1>6, <2>2 DEF LoadAcquire, s, Types
  <2> QED
    BY <1>1, <1>2, <1>4, <2>2, <2>3, <2>4 DEF s
<1>9. CASE LoadAcquire(t, f, i)
  <2>1. view' = [view EXCEPT ![t] = j]
    BY <1>9 DEF LoadAcquire
  <2>2. LoadRelaxed(t, f, i) => view' = [view EXCEPT ![t] = s]
    BY DEF LoadRelaxed
  <2> HIDE DEF s, j, w
  <2>3. view' \in [Thread -> View] /\ view'[t] = j
        /\ \A u \in Thread \ {t} : view'[u] = view[u]
    BY <2>1, <1>6 DEF Types
  <2>4. KnownToExist'
    BY <2>3, <1>6 DEF KnownToExist, Known
  <2>5. LoadRelaxed(t, f, i) => view'[t] = s
    BY <2>2 DEF Types
  <2>6. \A g \in Thread : j.flag[g] >= view[t].flag[g]
    BY <1>4, <1>6, <1>7
  <2>7. j.flag[f] >= i
    BY <1>1, <1>2, <1>6, <1>7
  <2> QED
    BY <1>6, <2>3, <2>4, <2>5, <2>6, <2>7 DEF s, w
<1> QED
  BY <1>8, <1>9

\* A store becomes the newest value of its flag.
LEMMA Stores ==
    ASSUME Types, KnownToExist, UNCHANGED accesses,
           NEW t \in Thread, NEW f \in Thread, NEW val \in {Old, New}, NEW v \in View,
           Store(t, f, val, v),
           v = NoView \/ v = Seeing(t, f, Len(mem[f]) + 1)
    PROVE  /\ mem' \in [Thread -> Seq(Entry)] /\ \A g \in Thread : Len(mem'[g]) > 0
           /\ Len(mem'[f]) = Len(mem[f]) + 1
           /\ mem'[f][Len(mem[f]) + 1] = [val |-> val, view |-> v]
           /\ mem'[f][Len(mem[f])] = mem[f][Len(mem[f])]
           /\ \A g \in Thread \ {f} : mem'[g] = mem[g]
           /\ view' \in [Thread -> View]
           /\ \A u \in Thread \ {t} : view'[u] = view[u]
           /\ view'[t] = Seeing(t, f, Len(mem[f]) + 1)
           /\ KnownToExist'
<1> DEFINE n == Len(mem[f])
           e == [val |-> val, view |-> v]
           s == Seeing(t, f, n + 1)
<1>1. mem[f] \in Seq(Entry) /\ n \in Nat \ {0} /\ n + 1 \in Nat \ {0}
  BY DEF Types
<1>2. /\ s \in View /\ s.flag[f] = n + 1 /\ s.accesses = view[t].accesses
      /\ \A g \in Thread \ {f} : s.flag[g] = view[t].flag[g]
  BY <1>1, Sees
<1>3. e \in Entry
  BY DEF Entry
<1>4. mem' = [mem EXCEPT ![f] = Append(@, e)] /\ view' = [view EXCEPT ![t] = s]
  BY DEF Store, LoadRelaxed
<1> HIDE DEF e, s
<1>5. /\ mem'[f] = Append(mem[f], e)
      /\ \A g \in Thread \ {f} : mem'[g] = mem[g]
      /\ mem' \in [Thread -> Seq(Entry)]
  BY <1>1, <1>3, <1>4 DEF Types
<1>6. /\ Len(mem'[f]) = n + 1 /\ mem'[f][n + 1] = e
      /\ \A i \in 1 .. n : mem'[f][i] = mem[f][i]
  BY <1>1, <1>3, <1>5
<1>7. /\ view' \in [Thread -> View] /\ view'[t] = s
      /\ \A u \in Thread \ {t} : view'[u] = view[u]
  BY <1>2, <1>4 DEF Types
<1>8. \A g \in Thread : Len(mem'[g]) > 0 /\ Len(mem[g]) \in Nat /\ Len(mem'[g]) >= Len(mem[g])
  <2>1. ASSUME NEW g \in Thread
        PROVE  Len(mem'[g]) > 0 /\ Len(mem[g]) \in Nat /\ Len(mem'[g]) >= Len(mem[g])
    <3>1. CASE g = f
      BY <1>1, <1>6, <3>1
    <3>2. CASE g # f
      BY <1>5, <3>2 DEF Types
    <3> QED
      BY <3>1, <3>2
  <2> QED
    BY <2>1
<1>9. KnownToExist'
  <2>1. ASSUME NEW w \in View, Known(w)
        PROVE  KnownNext(w)
    BY <1>8, <2>1 DEF Known, KnownNext, View
  <2>2. KnownNext(s)
    <3>1. s.flag[f] \in 1 .. Len(mem'[f])
      BY <1>1, <1>2, <1>6
    <3>2. ASSUME NEW g \in Thread \ {f}
          PROVE  s.flag[g] \in 1 .. Len(mem'[g])
      BY <1>2, <1>5, <3>2 DEF KnownToExist, Known
    <3>3. s.accesses \in 0 .. accesses'
      BY <1>2 DEF KnownToExist, Known
    <3> QED
      BY <3>1, <3>2, <3>3 DEF KnownNext
  <2>3. KnownNext(v)
    BY <2>1, <2>2, NoViewKnown DEF s
  <2>4. ASSUME NEW g \in Thread, NEW i \in 1 .. Len(mem[g])
        PROVE  KnownNext(mem[g][i].view)
    <3>1. mem[g] \in Seq(Entry)
      BY DEF Types
    <3>2. mem[g][i] \in Entry
      BY <3>1
    <3>3. mem[g][i].view \in View /\ Known(mem[g][i].view)
      BY <3>2 DEF Entry, KnownToExist
    <3> QED
      BY <2>1, <3>3
  <2>5. ASSUME NEW g \in Thread, NEW i \in 1 .. Len(mem'[g])
        PROVE  KnownNext(mem'[g][i].view)
    <3>1. CASE g # f
      BY <1>5, <2>4, <3>1
    <3>2. CASE g = f /\ i \in 1 .. n
      BY <1>6, <2>4, <3>2
    <3>3. CASE g = f /\ i = n + 1
      BY <1>6, <2>3, <3>3 DEF e
    <3> QED
      BY <1>1, <1>6, <3>1, <3>2, <3>3
  <2>6. ASSUME NEW u \in Thread
        PROVE  KnownNext(view'[u])
    <3>1. view[u] \in View /\ Known(view[u])
      BY DEF Types, KnownToExist
    <3> QED
      BY <1>7, <2>1, <2>2, <3>1
  <2> QED
    BY <2>5, <2>6 DEF KnownToExist, Known, KnownNext
<1> QED
  BY <1>1, <1>5, <1>6, <1>7, <1>8, <1>9 DEF e, s

\* A thread that knew everything and makes or sees the only new store still does.
LEMMA SeesEverything ==
    ASSUME Types, Types', NEW t \in Thread, NEW f \in Thread,
           view[t] = Everything, UNCHANGED accesses,
           Len(mem'[f]) = Len(mem[f]) + 1,
           \A g \in Thread \ {f} : mem'[g] = mem[g]
    PROVE  Seeing(t, f, Len(mem[f]) + 1) = Everything'
<1> DEFINE n == Len(mem[f]) + 1
           s == Seeing(t, f, n)
           e == [flag |-> [g \in Thread |-> Len(mem'[g])], accesses |-> accesses']
<1>1. n \in Nat \ {0}
  BY DEF Types
<1>2. /\ s \in View /\ s.flag[f] = n /\ s.accesses = view[t].accesses
      /\ \A g \in Thread \ {f} : s.flag[g] = view[t].flag[g]
  BY <1>1, Sees
<1>3. ASSUME NEW g \in Thread PROVE Len(mem'[g]) \in Nat \ {0}
  <2>1. mem'[g] \in Seq(Entry) /\ Len(mem'[g]) > 0
    BY DEF Types
  <2> QED
    BY <2>1
<1>4. e \in View
  <2>1. accesses' \in Nat
    BY DEF Types
  <2>2. [g \in Thread |-> Len(mem'[g])] \in [Thread -> Nat \ {0}]
    BY <1>3
  <2> QED
    BY <2>1, <2>2 DEF View
<1> HIDE DEF s
<1>5. /\ view[t].accesses = accesses
      /\ \A g \in Thread : view[t].flag[g] = Len(mem[g])
  BY DEF Everything
<1>6. s.accesses = e.accesses /\ \A g \in Thread : s.flag[g] = e.flag[g]
  BY <1>2, <1>5
<1>7. s = e
  BY <1>2, <1>4, <1>6, SameView
<1> QED
  BY <1>7 DEF s, Everything

\* The holder accesses what is handed over, and knows everything still.
LEMMA Accesses ==
    ASSUME Types, KnownToExist, NEW t \in Thread, view[t] = Everything, Access(t)
    PROVE  /\ accesses' = accesses + 1
           /\ known' = [known EXCEPT ![t] = accesses + 1]
           /\ view' \in [Thread -> View]
           /\ \A u \in Thread \ {t} : view'[u] = view[u]
           /\ view'[t] = Everything'
           /\ KnownToExist'
           /\ UNCHANGED <<mem, spin, tries>>
<1>1. accesses' = accesses + 1 /\ UNCHANGED <<mem, spin, tries>>
  BY DEF Access
<1>2. view[t].accesses = accesses /\ view[t].flag = [f \in Thread |-> Len(mem[f])]
  BY DEF Everything
<1>3. known' = [known EXCEPT ![t] = accesses + 1]
  BY <1>2 DEF Access, Types
<1> DEFINE w == [view[t] EXCEPT !.accesses = accesses + 1]
<1>4. view' = [view EXCEPT ![t] = w]
  BY DEF Access
<1>5. w = [flag |-> view[t].flag, accesses |-> accesses + 1] /\ w \in View
  BY DEF Types, View
<1> HIDE DEF w
<1>6. /\ view' \in [Thread -> View] /\ view'[t] = w
      /\ \A u \in Thread \ {t} : view'[u] = view[u]
  BY <1>4, <1>5 DEF Types
<1>7. w = Everything'
  BY <1>1, <1>2, <1>5 DEF Everything
<1>8. KnownToExist'
  <2>1. ASSUME NEW v \in View, Known(v)
        PROVE  KnownNext(v)
    BY <1>1, <2>1 DEF Known, KnownNext, Types, View
  <2>2. KnownNext(w)
    BY <1>1, <1>2, <1>5 DEF KnownNext, KnownToExist, Known, Types
  <2>3. ASSUME NEW u \in Thread
        PROVE  KnownNext(view'[u])
    <3>1. view[u] \in View /\ Known(view[u])
      BY DEF Types, KnownToExist
    <3> QED
      BY <1>6, <2>1, <2>2, <3>1
  <2>4. ASSUME NEW f \in Thread, NEW i \in 1 .. Len(mem'[f])
        PROVE  KnownNext(mem'[f][i].view)
    <3>1. mem[f] \in Seq(Entry) /\ mem' = mem
      BY <1>1 DEF Types
    <3>2. mem[f][i] \in Entry
      BY <3>1
    <3>3. mem[f][i].view \in View /\ Known(mem[f][i].view)
      BY <3>1, <3>2 DEF Entry, KnownToExist
    <3> QED
      BY <2>1, <3>1, <3>3
  <2> QED
    BY <2>3, <2>4 DEF KnownToExist, Known, KnownNext
<1> QED
  BY <1>1, <1>3, <1>6, <1>7, <1>8

\* A thread that finds its flag set has found the newest store to it, and with it
\* everything: nobody holds what is handed over.
LEMMA FoundSet ==
    ASSUME IInv, NEW t \in Thread, Away(t), NEW i \in Visible(t, t),
           mem[t][i].val # Old
    PROVE  /\ i = Len(mem[t]) /\ IsSet(t) /\ Newest(t).view = Everything
           /\ Away(Other(t)) /\ ~IsSet(Other(t))
           /\ accesses % 3 = IF t = a THEN 2 ELSE 1
<1>1. /\ Other(t) \in Thread /\ Other(Other(t)) = t
      /\ \A u \in Thread : u = t \/ u = Other(t)
  BY TwoThreads
<1>2. AwayKnows(t) /\ Len(mem[t]) \in Nat /\ view[t].flag[t] \in Nat
  BY DEF IInv, Types, View
<1>3. i \in view[t].flag[t] .. Len(mem[t])
  BY DEF Visible
<1>4. IsSet(t) /\ i = Len(mem[t])
  <2>1. mem[t] \in Seq(Entry) /\ i \in 1 .. Len(mem[t]) /\ Len(mem[t]) \in 1 .. Len(mem[t])
    BY <1>3 DEF IInv, Types, View
  <2>2. mem[t][i] \in Entry /\ Newest(t) \in Entry
    BY <2>1 DEF Newest
  <2>3. mem[t][i].val = New /\ (~IsSet(t) => Newest(t).val = Old)
    BY <2>2 DEF Entry, IsSet
  <2>4. Old # New
    BY DEF Old, New
  <2>5. ~IsSet(t) => i = Len(mem[t])
    BY <1>2, <1>3 DEF AwayKnows
  <2>6. IsSet(t)
    BY <2>3, <2>4, <2>5 DEF Newest
  <2>7. i # Len(mem[t]) - 1
    BY <1>2, <2>3, <2>4, <2>6 DEF AwayKnows
  <2> QED
    BY <1>2, <1>3, <2>6, <2>7 DEF AwayKnows
<1>5. Away(Other(t))
  BY <1>1, <1>4 DEF IInv, HolderKnows, Holds
<1>6. Away(a) /\ Away(b)
  BY <1>1, <1>5 DEF Thread
<1>7. PICK u \in Thread :
          /\ IsSet(u) /\ ~IsSet(Other(u)) /\ Newest(u).view = Everything
          /\ accesses % 3 = IF u = a THEN 2 ELSE 1
  BY <1>6 DEF IInv, UnderWay
<1>8. u = t
  BY <1>1, <1>4, <1>7
<1> QED
  BY <1>4, <1>5, <1>7, <1>8

----------------------------------------------------------------------------
(* The invariant is inductive.                                             *)

LEMMA InitIInv == Init => IInv
<1> SUFFICES ASSUME Init PROVE IInv
  OBVIOUS
<1>1. a \in Thread /\ b \in Thread /\ a # b /\ Other(a) = b /\ Other(b) = a
      /\ Thread = {a, b}
  BY SignalAssumption DEF Thread, Other
<1> DEFINE e == [val |-> Old, view |-> NoView]
<1>2. NoView \in View /\ e \in Entry
  BY DEF NoView, View, Entry
<1>3. mem = [f \in Thread |-> <<e>>]
  BY DEF Init
<1>4. \A f \in Thread : Len(mem[f]) = 1 /\ mem[f][1] = e /\ mem[f] \in Seq(Entry)
  BY <1>2, <1>3
<1>5. /\ pc[a] = "idle" /\ pc[b] = "begin" /\ accesses = 0
      /\ \A t \in Thread : view[t] = NoView
  BY <1>1 DEF Init
<1>6. Types
  <2>1. mem \in [Thread -> Seq(Entry)]
    BY <1>3, <1>4
  <2>2. pc \in [Thread -> Labels]
    BY DEF Init, Labels, AwayLabels
  <2> QED
    BY <1>2, <1>4, <2>1, <2>2, SignalAssumption DEF Init, Types
<1>7. Everything = NoView
  BY <1>4, <1>5 DEF Everything, NoView
<1>8. KnownToExist
  <2>1. Known(NoView)
    BY <1>6, NoViewKnown
  <2> QED
    BY <1>4, <1>5, <2>1 DEF KnownToExist
<1>9. \A t \in Thread : ~IsSet(t)
  BY <1>4 DEF IsSet, Newest, Old, New
<1>10. Away(b) /\ ~Away(a)
  BY <1>5 DEF Away, AwayLabels
<1>11. OneHolder /\ Phase /\ UnderWay
  BY <1>5, <1>10 DEF OneHolder, Phase, UnderWay
<1>12. HolderKnows(a) /\ HolderKnows(b) /\ AwayKnows(a) /\ AwayKnows(b)
  <2>1. view[b].flag[b] = 1 /\ Len(mem[b]) = 1
    BY <1>1, <1>4, <1>5 DEF NoView
  <2>2. HolderKnows(a)
    BY <1>1, <1>5, <1>7, <1>9 DEF HolderKnows
  <2>3. AwayKnows(b)
    BY <1>1, <1>5, <1>9, <2>1 DEF AwayKnows
  <2> QED
    BY <1>10, <2>2, <2>3 DEF HolderKnows, AwayKnows, Holds
<1> QED
  BY <1>1, <1>6, <1>8, <1>11, <1>12 DEF IInv

\* A step by which a thread that is away learns something and stays away.
LEMMA StaysAway ==
    ASSUME IInv, NEW t \in Thread, Away(t),
           UNCHANGED <<mem, accesses, known, spin>>,
           tries' \in [Thread -> 0 .. SpinLimit],
           view' \in [Thread -> View], KnownToExist',
           \A u \in Thread \ {t} : view'[u] = view[u],
           view'[t].flag[t] >= view[t].flag[t],
           pc' \in [Thread -> Labels], pc'[t] \in AwayLabels,
           pc'[t] = "acquire" => IsSet(t) /\ view'[t].flag[t] = Len(mem[t]),
           \A u \in Thread \ {t} :
               pc'[u] # pc[u] => /\ pc[u] \in AwayLabels
                                 /\ pc'[u] \in AwayLabels \ {"acquire"}
    PROVE  IInv'
<1>1. a \in Thread /\ b \in Thread /\ a # b /\ Other(a) = b /\ Other(b) = a
      /\ Thread = {a, b}
  BY SignalAssumption DEF Thread, Other
<1>2. Types'
  BY DEF IInv, Types
<1>3. /\ Everything' = Everything
      /\ \A u \in Thread : IsSet(u)' = IsSet(u) /\ Newest(u)' = Newest(u)
  BY DEF Everything, IsSet, Newest
<1>4. \A u \in Thread : Away(u)' <=> Away(u)
  BY DEF Away
<1>5. \A u \in Thread : ~Away(u) => pc'[u] = pc[u] /\ view'[u] = view[u] /\ u # t
  BY DEF Away
<1>6. OneHolder' /\ UnderWay'
  BY <1>1, <1>3, <1>4 DEF IInv, OneHolder, UnderWay
<1>7. Phase'
  BY <1>1 DEF IInv, Phase, AwayLabels
<1>8. \A u \in Thread : HolderKnows(u)'
  BY <1>1, <1>3, <1>4, <1>5 DEF IInv, HolderKnows, Holds
<1>9. ASSUME NEW u \in Thread
      PROVE  AwayKnows(u)'
  <2>1. /\ Len(mem[u]) \in Nat /\ view[u].flag[u] \in Nat
        /\ view'[u].flag[u] \in 1 .. Len(mem[u])
    <3>1. mem[u] \in Seq(Entry) /\ view[u] \in View
      BY DEF IInv, Types
    <3>2. view'[u].flag[u] \in 1 .. Len(mem[u])
      BY DEF KnownToExist, Known
    <3> QED
      BY <3>1, <3>2 DEF View
  <2>2. view'[u].flag[u] >= view[u].flag[u]
    <3>1. CASE u = t
      BY <3>1
    <3>2. CASE u # t
      BY <2>1, <3>2
    <3> QED
      BY <3>1, <3>2
  <2>3. Away(u)' =>
          /\ Away(u)
          /\ IF IsSet(u)
             THEN Len(mem[u]) > 1 /\ mem[u][Len(mem[u]) - 1].val = Old
                  /\ view'[u].flag[u] >= Len(mem[u]) - 1
             ELSE view'[u].flag[u] = Len(mem[u])
    BY <1>4, <2>1, <2>2 DEF IInv, AwayKnows
  <2>4. pc'[u] = "acquire" => IsSet(u) /\ view'[u].flag[u] = Len(mem[u])
    BY DEF IInv, AwayKnows, Away, AwayLabels
  <2> QED
    BY <1>3, <2>3, <2>4 DEF AwayKnows
<1> QED
  BY <1>2, <1>6, <1>7, <1>8, <1>9 DEF IInv

\* A step by which the holder goes on to hold.
LEMMA Continues ==
    ASSUME IInv, NEW t \in Thread, Holds(t),
           Types', KnownToExist', Phase',
           Holds(t)', view'[t] = Everything',
           ~IsSet(Other(t))', pc'[t] \in {"check", "set"} => ~IsSet(t)',
           mem'[Other(t)] = mem[Other(t)], view'[Other(t)] = view[Other(t)],
           pc'[Other(t)] = pc[Other(t)]
    PROVE  IInv'
<1>1. /\ Other(t) \in Thread /\ Other(Other(t)) = t /\ Other(t) # t
      /\ \A u \in Thread : u = t \/ u = Other(t)
  BY TwoThreads
<1>2. Away(Other(t)) /\ Away(Other(t))' /\ ~Away(t)'
  BY <1>1 DEF IInv, OneHolder, Holds, Away, Thread
<1>3. OneHolder' /\ UnderWay'
  BY <1>1, <1>2 DEF OneHolder, UnderWay, Thread
<1>4. HolderKnows(t)' /\ HolderKnows(Other(t))' /\ AwayKnows(t)'
  BY <1>2 DEF HolderKnows, AwayKnows, Holds
<1>5. AwayKnows(Other(t))'
  BY <1>1, <1>2 DEF IInv, AwayKnows, IsSet, Newest
<1> QED
  BY <1>1, <1>3, <1>4, <1>5 DEF IInv

LEMMA AccessStep ==
    ASSUME IInv, NEW t \in Thread, Access(t),
           NEW l \in {"idle", "reset"}, pc[t] \in {"idle", "access"},
           pc' = [pc EXCEPT ![t] = l], Phase'
    PROVE  IInv'
<1>1. /\ Other(t) \in Thread /\ Other(Other(t)) = t /\ Other(t) # t
      /\ \A u \in Thread : u = t \/ u = Other(t)
  BY TwoThreads
<1>2. Holds(t)
  BY DEF Holds, Away, AwayLabels
<1>3. view[t] = Everything /\ ~IsSet(Other(t)) /\ Types /\ KnownToExist
  BY <1>2 DEF IInv, HolderKnows
<1>4. /\ accesses' = accesses + 1
      /\ known' = [known EXCEPT ![t] = accesses + 1]
      /\ view' \in [Thread -> View]
      /\ \A u \in Thread \ {t} : view'[u] = view[u]
      /\ view'[t] = Everything'
      /\ KnownToExist'
      /\ UNCHANGED <<mem, spin, tries>>
  BY <1>3, Accesses
<1>5. pc' \in [Thread -> Labels] /\ pc'[t] = l /\ pc'[Other(t)] = pc[Other(t)]
  BY <1>1, <1>3 DEF Types, Labels
<1>6. Types'
  <2>1. accesses' \in Nat /\ known' \in [Thread -> Nat]
    BY <1>3, <1>4 DEF Types
  <2> QED
    BY <1>3, <1>4, <1>5, <2>1 DEF Types
<1>7. Holds(t)' /\ pc'[t] \notin {"check", "set"}
  BY <1>5 DEF Holds, Away, AwayLabels
<1>8. ~IsSet(Other(t))'
  BY <1>3, <1>4 DEF IsSet, Newest
<1> QED
  BY <1>1, <1>2, <1>4, <1>5, <1>6, <1>7, <1>8, Continues

LEMMA SubmitStep == IInv /\ Submit => IInv'
<1> SUFFICES ASSUME IInv, Submit PROVE IInv'
  OBVIOUS
<1>1. a \in Thread /\ b \in Thread /\ a # b
  BY SignalAssumption DEF Thread
<1>2. pc' = [pc EXCEPT ![a] = "reset"] /\ pc[a] = "idle" /\ Access(a)
  BY DEF Submit, Goto
<1>3. pc'[a] = "reset" /\ pc'[b] = pc[b]
  BY <1>1, <1>2 DEF IInv, Types
<1>4. Away(b)
  BY <1>2 DEF IInv, OneHolder, Away, AwayLabels
<1>5. accesses \in Nat /\ accesses % 3 = 0 /\ accesses' = accesses + 1
  BY <1>2 DEF IInv, Types, Phase, Access
<1>6. accesses' % 3 = 1
  BY <1>5
<1>7. Phase'
  BY <1>3, <1>4, <1>6 DEF Phase, Away, AwayLabels
<1> QED
  BY <1>1, <1>2, <1>7, AccessStep

LEMMA ProcessStep == IInv /\ Process => IInv'
<1> SUFFICES ASSUME IInv, Process PROVE IInv'
  OBVIOUS
<1>1. a \in Thread /\ b \in Thread /\ a # b
  BY SignalAssumption DEF Thread
<1>2. pc' = [pc EXCEPT ![b] = "reset"] /\ pc[b] = "access" /\ Access(b)
  BY DEF Process, Goto
<1>3. pc'[b] = "reset" /\ pc'[a] = pc[a]
  BY <1>1, <1>2 DEF IInv, Types
<1>4. Away(a)
  BY <1>2 DEF IInv, OneHolder, Away, AwayLabels
<1>5. accesses \in Nat /\ accesses % 3 = 1 /\ accesses' = accesses + 1
  BY <1>2 DEF IInv, Types, Phase, Access
<1>6. accesses' % 3 = 2
  BY <1>5
<1>7. Phase'
  BY <1>3, <1>4, <1>6 DEF Phase, Away, AwayLabels
<1> QED
  BY <1>1, <1>2, <1>7, AccessStep

LEMMA CollectStep == IInv /\ Collect => IInv'
<1> SUFFICES ASSUME IInv, Collect PROVE IInv'
  OBVIOUS
<1>1. a \in Thread /\ b \in Thread /\ a # b
  BY SignalAssumption DEF Thread
<1>2. pc' = [pc EXCEPT ![a] = "idle"] /\ pc[a] = "access" /\ Access(a)
  BY DEF Collect, Goto
<1>3. pc'[a] = "idle" /\ pc'[b] = pc[b]
  BY <1>1, <1>2 DEF IInv, Types
<1>4. Away(b)
  BY <1>2 DEF IInv, OneHolder, Away, AwayLabels
<1>5. accesses \in Nat /\ accesses % 3 = 2 /\ accesses' = accesses + 1
  BY <1>2 DEF IInv, Types, Phase, Access
<1>6. accesses' % 3 = 0
  BY <1>5
<1>7. Phase'
  BY <1>3, <1>4, <1>6 DEF Phase, Away, AwayLabels
<1> QED
  BY <1>1, <1>2, <1>7, AccessStep

LEMMA ResetStep == \A t \in Thread : IInv /\ Reset(t) => IInv'
<1> SUFFICES ASSUME NEW t \in Thread, IInv, Reset(t) PROVE IInv'
  OBVIOUS
<1>1. /\ Other(t) \in Thread /\ Other(Other(t)) = t /\ Other(t) # t
      /\ \A u \in Thread : u = t \/ u = Other(t)
  BY TwoThreads
<1>2. /\ Store(t, t, Old, NoView) /\ pc[t] = "reset" /\ pc' = [pc EXCEPT ![t] = "check"]
      /\ UNCHANGED <<accesses, known, spin, tries>>
  BY DEF Reset, StoreRelaxed, Goto
<1>3. pc'[t] = "check" /\ pc'[Other(t)] = pc[Other(t)] /\ pc' \in [Thread -> Labels]
  BY <1>1, <1>2 DEF IInv, Types, Labels
<1>4. Holds(t) /\ Holds(t)'
  BY <1>2, <1>3 DEF Holds, Away, AwayLabels
<1>5. view[t] = Everything /\ ~IsSet(Other(t)) /\ Types /\ KnownToExist
  BY <1>4 DEF IInv, HolderKnows
<1> DEFINE n == Len(mem[t])
<1>6. NoView \in View /\ Old \in {Old, New}
  BY <1>5, NoViewKnown
<1>7. /\ mem' \in [Thread -> Seq(Entry)] /\ \A g \in Thread : Len(mem'[g]) > 0
      /\ Len(mem'[t]) = n + 1
      /\ mem'[t][n + 1] = [val |-> Old, view |-> NoView]
      /\ \A g \in Thread \ {t} : mem'[g] = mem[g]
      /\ view' \in [Thread -> View]
      /\ \A u \in Thread \ {t} : view'[u] = view[u]
      /\ view'[t] = Seeing(t, t, n + 1)
      /\ KnownToExist'
  BY <1>2, <1>5, <1>6, Stores
<1>8. Types'
  BY <1>2, <1>3, <1>5, <1>7 DEF Types
<1>9. view'[t] = Everything'
  BY <1>1, <1>2, <1>5, <1>7, <1>8, SeesEverything
<1>10. ~IsSet(t)' /\ ~IsSet(Other(t))'
  BY <1>1, <1>5, <1>7 DEF IsSet, Newest, Old, New
<1>11. Phase'
  BY <1>1, <1>2, <1>3 DEF IInv, Phase, Thread
<1> QED
  BY <1>1, <1>3, <1>4, <1>7, <1>8, <1>9, <1>10, <1>11, Continues

LEMMA CheckStep == \A t \in Thread : IInv /\ Check(t) => IInv'
<1> SUFFICES ASSUME NEW t \in Thread, IInv, Check(t) PROVE IInv'
  OBVIOUS
<1>1. /\ Other(t) \in Thread /\ Other(Other(t)) = t /\ Other(t) # t
      /\ \A u \in Thread : u = t \/ u = Other(t)
  BY TwoThreads
<1> DEFINE f == Other(t)
           n == Len(mem[f])
<1>2. PICK i \in Visible(t, f) :
          /\ LoadRelaxed(t, f, i)
          /\ Goto(t, IF mem[f][i].val = New THEN "terminated" ELSE "set")
  BY DEF Check
<1>3. pc[t] = "check" /\ UNCHANGED <<mem, accesses, known, spin, tries>>
  BY DEF Check
<1>4. Holds(t)
  BY <1>3 DEF Holds, Away, AwayLabels
<1>5. view[t] = Everything /\ ~IsSet(f) /\ ~IsSet(t) /\ Types /\ KnownToExist
  BY <1>3, <1>4 DEF IInv, HolderKnows
<1>6. n \in Nat \ {0} /\ view[t].flag[f] = n
  BY <1>1, <1>5 DEF Types, Everything
<1>7. i = n
  BY <1>1, <1>6 DEF Visible
<1>8. pc' = [pc EXCEPT ![t] = "set"]
  BY <1>2, <1>5, <1>7 DEF Goto, IsSet, Newest
<1>9. pc'[t] = "set" /\ pc'[f] = pc[f] /\ pc' \in [Thread -> Labels]
  BY <1>1, <1>5, <1>8 DEF Types, Labels
<1>10. /\ view' \in [Thread -> View] /\ KnownToExist'
       /\ \A u \in Thread \ {t} : view'[u] = view[u]
       /\ view'[t] = Seeing(t, f, n)
  BY <1>1, <1>2, <1>3, <1>5, <1>7, Loads
<1>11. Seeing(t, f, n) = view[t]
  <2>1. /\ Seeing(t, f, n) \in View /\ Seeing(t, f, n).flag[f] = n
        /\ \A g \in Thread \ {f} : Seeing(t, f, n).flag[g] = view[t].flag[g]
        /\ Seeing(t, f, n).accesses = view[t].accesses
    BY <1>1, <1>5, <1>6, Sees
  <2>2. view[t] \in View
    BY <1>5 DEF Types
  <2>3. \A g \in Thread : Seeing(t, f, n).flag[g] = view[t].flag[g]
    BY <1>6, <2>1
  <2> QED
    BY <2>1, <2>2, <2>3, SameView
<1>12. view'[t] = Everything'
  BY <1>3, <1>5, <1>10, <1>11 DEF Everything
<1>13. ~IsSet(t)' /\ ~IsSet(f)'
  BY <1>3, <1>5 DEF IsSet, Newest
<1>14. Types' /\ Holds(t)'
  BY <1>3, <1>5, <1>9, <1>10 DEF Types, Holds, Away, AwayLabels
<1>15. Phase'
  BY <1>1, <1>3, <1>9 DEF IInv, Phase, Thread
<1> QED
  BY <1>1, <1>3, <1>4, <1>9, <1>10, <1>12, <1>13, <1>14, <1>15, Continues

LEMMA SetStep == \A t \in Thread : IInv /\ Set(t) => IInv'
<1> SUFFICES ASSUME NEW t \in Thread, IInv, Set(t) PROVE IInv'
  OBVIOUS
<1>1. /\ Other(t) \in Thread /\ Other(Other(t)) = t /\ Other(t) # t
      /\ \A u \in Thread : u = t \/ u = Other(t)
  BY TwoThreads
<1> DEFINE f == Other(t)
           n == Len(mem[f])
           v == Seeing(t, f, n + 1)
<1>2. Store(t, f, New, v)
  BY DEF Set, StoreRelease
<1>3. pc[t] = "set" /\ pc' = [pc EXCEPT ![t] = "notify"]
      /\ UNCHANGED <<accesses, known, spin, tries>>
  BY DEF Set, Goto
<1>4. pc'[t] = "notify" /\ pc'[f] = pc[f] /\ pc' \in [Thread -> Labels]
  BY <1>1, <1>3 DEF IInv, Types, Labels, AwayLabels
<1>5. Holds(t) /\ Away(t)'
  BY <1>3, <1>4 DEF Holds, Away, AwayLabels
<1>6. view[t] = Everything /\ ~IsSet(f) /\ ~IsSet(t) /\ Types /\ KnownToExist
  BY <1>3, <1>5 DEF IInv, HolderKnows
<1>7. n \in Nat \ {0} /\ n + 1 \in Nat \ {0}
  BY <1>1, <1>6 DEF Types
<1>8. v \in View
  BY <1>1, <1>6, <1>7, Sees
<1> HIDE DEF v
<1>9. /\ mem' \in [Thread -> Seq(Entry)] /\ \A g \in Thread : Len(mem'[g]) > 0
      /\ Len(mem'[f]) = n + 1
      /\ mem'[f][n + 1] = [val |-> New, view |-> v]
      /\ mem'[f][n] = mem[f][n]
      /\ \A g \in Thread \ {f} : mem'[g] = mem[g]
      /\ view' \in [Thread -> View]
      /\ \A u \in Thread \ {t} : view'[u] = view[u]
      /\ view'[t] = v
      /\ KnownToExist'
  BY <1>1, <1>2, <1>3, <1>6, <1>8, Stores DEF v
<1>10. Types'
  BY <1>3, <1>4, <1>6, <1>9 DEF Types
<1>11. v = Everything'
  BY <1>1, <1>3, <1>6, <1>9, <1>10, SeesEverything DEF v
<1>12. Away(f) /\ Away(f)'
  BY <1>1, <1>4, <1>5 DEF IInv, OneHolder, Holds, Away, Thread
<1>13. /\ Newest(f)' = [val |-> New, view |-> v] /\ IsSet(f)' /\ ~IsSet(t)'
       /\ Newest(f)'.view = Everything'
  BY <1>1, <1>6, <1>9, <1>11 DEF IsSet, Newest
<1>14. accesses' % 3 = IF f = a THEN 2 ELSE 1
  BY <1>1, <1>3 DEF IInv, Phase, Thread
<1>15. UnderWay' /\ OneHolder'
  BY <1>1, <1>12, <1>13, <1>14 DEF UnderWay, OneHolder, Thread
<1>16. Phase'
  BY <1>1, <1>3, <1>4 DEF IInv, Phase, Thread
<1>17. \A u \in Thread : HolderKnows(u)'
  BY <1>1, <1>5, <1>12 DEF HolderKnows, Holds
<1>18. AwayKnows(t)'
  <2>1. v.flag[t] = view[t].flag[t]
    BY <1>1, <1>6, <1>7, Sees DEF v
  <2>2. view[t].flag[t] = Len(mem[t])
    BY <1>6 DEF Everything
  <2> QED
    BY <1>1, <1>4, <1>9, <1>13, <2>1, <2>2 DEF AwayKnows
<1>19. AwayKnows(f)'
  <2>1. view[f].flag[f] = n /\ pc[f] # "acquire"
    BY <1>1, <1>6, <1>12 DEF IInv, AwayKnows
  <2>2. mem[f][n].val = Old
    <3>1. mem[f] \in Seq(Entry) /\ n \in 1 .. Len(mem[f])
      BY <1>1, <1>6, <1>7 DEF Types
    <3>2. mem[f][n] \in Entry
      BY <3>1
    <3> QED
      BY <1>6, <3>2 DEF Entry, IsSet, Newest
  <2>3. view'[f].flag[f] = n /\ pc'[f] # "acquire" /\ mem'[f][n].val = Old
    BY <1>1, <1>4, <1>9, <2>1, <2>2
  <2>4. Len(mem'[f]) = n + 1 /\ n + 1 > 1 /\ n + 1 - 1 = n
    BY <1>7, <1>9
  <2> QED
    BY <1>7, <1>13, <2>3, <2>4 DEF AwayKnows
<1> QED
  BY <1>1, <1>9, <1>10, <1>15, <1>16, <1>17, <1>18, <1>19 DEF IInv

LEMMA NotifyStep == \A t \in Thread : IInv /\ Notify(t) => IInv'
<1> SUFFICES ASSUME NEW t \in Thread, IInv, Notify(t) PROVE IInv'
  OBVIOUS
<1>1. /\ Other(t) \in Thread /\ Other(Other(t)) = t /\ Other(t) # t
      /\ \A u \in Thread : u = t \/ u = Other(t)
  BY TwoThreads
<1> DEFINE f == Other(t)
<1>2. /\ pc[t] = "notify"
      /\ pc' = [pc EXCEPT ![t] = "begin", ![f] = Woken(f)]
      /\ UNCHANGED <<mem, view, accesses, known, spin, tries>>
  BY DEF Notify
<1>3. pc \in [Thread -> Labels] /\ Woken(f) \in Labels
  BY <1>1 DEF IInv, Types, Woken, Labels, AwayLabels
<1>4. pc'[t] = "begin" /\ pc'[f] = Woken(f) /\ pc' \in [Thread -> Labels]
  BY <1>1, <1>2, <1>3 DEF Labels, AwayLabels
<1>5. Away(t) /\ Types /\ KnownToExist
  BY <1>2 DEF Away, AwayLabels, IInv
<1>6. KnownToExist' /\ view' \in [Thread -> View] /\ tries' \in [Thread -> 0 .. SpinLimit]
      /\ view'[t].flag[t] >= view[t].flag[t]
  <2>1. KnownToExist'
    BY <1>2, <1>5 DEF KnownToExist, Known
  <2>2. view[t].flag[t] \in Nat
    BY <1>5 DEF Types, View
  <2> QED
    BY <1>2, <1>5, <2>1, <2>2 DEF Types
<1>7. pc'[f] # pc[f] => pc[f] = "asleep" /\ pc'[f] = "wait"
  BY <1>4 DEF Woken
<1> QED
  BY <1>1, <1>2, <1>4, <1>5, <1>6, <1>7, StaysAway DEF AwayLabels

\* A step by which a thread that is away moves on without looking at a flag.
LEMMA MovesOn ==
    ASSUME IInv, NEW t \in Thread, Away(t),
           UNCHANGED <<mem, view, accesses, known, spin>>,
           NEW l \in AwayLabels \ {"acquire"}, pc' = [pc EXCEPT ![t] = l],
           tries' \in [Thread -> 0 .. SpinLimit]
    PROVE  IInv'
<1>1. Types /\ KnownToExist
  BY DEF IInv
<1>2. pc' \in [Thread -> Labels] /\ pc'[t] = l /\ \A u \in Thread \ {t} : pc'[u] = pc[u]
  BY <1>1 DEF Types, Labels
<1>3. KnownToExist' /\ view' \in [Thread -> View]
  BY <1>1 DEF KnownToExist, Known, Types
<1>4. view[t].flag[t] \in Nat
  BY <1>1 DEF Types, View
<1> QED
  BY <1>2, <1>3, <1>4, StaysAway

\* A step by which a thread that is away looks at its flag and finds it not set, or
\* set and goes on to acquire it.
LEMMA Looks ==
    ASSUME IInv, NEW t \in Thread, Away(t), NEW i \in Visible(t, t),
           LoadRelaxed(t, t, i) \/ LoadAcquire(t, t, i),
           UNCHANGED <<mem, accesses, known, spin>>,
           NEW l \in AwayLabels, pc' = [pc EXCEPT ![t] = l],
           l = "acquire" => mem[t][i].val # Old,
           tries' \in [Thread -> 0 .. SpinLimit]
    PROVE  IInv'
<1>1. Types /\ KnownToExist
  BY DEF IInv
<1>2. pc' \in [Thread -> Labels] /\ pc'[t] = l /\ \A u \in Thread \ {t} : pc'[u] = pc[u]
  BY <1>1 DEF Types, Labels
<1>3. /\ view' \in [Thread -> View] /\ KnownToExist'
      /\ \A u \in Thread \ {t} : view'[u] = view[u]
      /\ view'[t].flag[t] >= view[t].flag[t]
      /\ view'[t].flag[t] >= i
  BY <1>1, Loads
<1>4. view'[t].flag[t] \in 1 .. Len(mem[t]) /\ Len(mem[t]) \in Nat
  <2>1. mem[t] \in Seq(Entry)
    BY <1>1 DEF Types
  <2> QED
    BY <1>3, <2>1 DEF KnownToExist, Known
<1>5. l = "acquire" => IsSet(t) /\ view'[t].flag[t] = Len(mem[t])
  <2> SUFFICES ASSUME l = "acquire" PROVE IsSet(t) /\ view'[t].flag[t] = Len(mem[t])
    OBVIOUS
  <2>1. IsSet(t) /\ i = Len(mem[t])
    BY FoundSet
  <2> QED
    BY <1>3, <1>4, <2>1
<1> QED
  BY <1>2, <1>3, <1>5, StaysAway

\* The steps by which a thread that finds its flag set ends its wait.
LEMMA EndsWait ==
    ASSUME IInv, NEW t \in Thread, Away(t), NEW i \in Visible(t, t),
           mem[t][i].val # Old, LoadAcquire(t, t, i),
           UNCHANGED <<mem, accesses, known, spin, tries>>,
           pc' = [pc EXCEPT ![t] = "access"]
    PROVE  IInv'
<1>1. /\ Other(t) \in Thread /\ Other(Other(t)) = t /\ Other(t) # t
      /\ \A u \in Thread : u = t \/ u = Other(t)
  BY TwoThreads
<1>2. Types /\ KnownToExist
  BY DEF IInv
<1>3. /\ i = Len(mem[t]) /\ IsSet(t) /\ Newest(t).view = Everything
      /\ Away(Other(t)) /\ ~IsSet(Other(t))
      /\ accesses % 3 = IF t = a THEN 2 ELSE 1
  BY FoundSet
<1>4. /\ view' \in [Thread -> View] /\ KnownToExist'
      /\ \A u \in Thread \ {t} : view'[u] = view[u]
      /\ view'[t] = Everything
  BY <1>2, <1>3, Loads DEF Newest
<1>5. pc' \in [Thread -> Labels] /\ pc'[t] = "access" /\ pc'[Other(t)] = pc[Other(t)]
  BY <1>1, <1>2 DEF Types, Labels
<1>6. Types' /\ Everything' = Everything
  BY <1>2, <1>4, <1>5 DEF Types, Everything
<1>7. Holds(t)' /\ Away(Other(t))'
  BY <1>3, <1>5 DEF Holds, Away, AwayLabels
<1>8. OneHolder' /\ UnderWay'
  BY <1>1, <1>7 DEF OneHolder, UnderWay, Holds, Thread
<1>9. Phase'
  BY <1>1, <1>3, <1>5, SignalAssumption DEF IInv, Phase, Thread
<1>10. HolderKnows(t)' /\ AwayKnows(t)'
  BY <1>3, <1>4, <1>5, <1>6, <1>7 DEF HolderKnows, AwayKnows, Holds, IsSet, Newest
<1>11. HolderKnows(Other(t))' /\ AwayKnows(Other(t))'
  <2>1. AwayKnows(Other(t))
    BY <1>1 DEF IInv
  <2> QED
    BY <1>1, <1>3, <1>4, <1>5, <1>7, <2>1 DEF HolderKnows, AwayKnows, Holds, IsSet, Newest
<1> QED
  BY <1>1, <1>4, <1>6, <1>8, <1>9, <1>10, <1>11 DEF IInv

LEMMA WaitStep == \A t \in Thread : IInv /\ (Acquire(t) \/ Wait(t)) => IInv'
<1> SUFFICES ASSUME NEW t \in Thread, IInv, Acquire(t) \/ Wait(t) PROVE IInv'
  OBVIOUS
<1>1. Types /\ AwayKnows(t)
  BY DEF IInv
<1>2. CASE Acquire(t)
  <2>1. PICK i \in Visible(t, t) : LoadAcquire(t, t, i)
    BY <1>2 DEF Acquire
  <2>2. /\ pc[t] = "acquire" /\ pc' = [pc EXCEPT ![t] = "access"]
        /\ UNCHANGED <<mem, accesses, known, spin, tries>>
    BY <1>2 DEF Acquire, Goto
  <2>3. Away(t)
    BY <2>2 DEF Away, AwayLabels
  <2>4. i = Len(mem[t]) /\ IsSet(t)
    BY <1>1, <2>2, <2>3 DEF AwayKnows, Visible, Types
  <2>5. mem[t][i].val # Old
    BY <2>4 DEF IsSet, Newest, Old, New
  <2> QED
    BY <2>1, <2>2, <2>3, <2>5, EndsWait
<1>3. CASE Wait(t)
  <2>1. PICK i \in Visible(t, t) :
            /\ LoadAcquire(t, t, i)
            /\ Goto(t, IF mem[t][i].val # Old THEN "access" ELSE "block")
    BY <1>3 DEF Wait
  <2>2. pc[t] = "wait" /\ UNCHANGED <<mem, accesses, known, spin, tries>>
    BY <1>3 DEF Wait
  <2>3. Away(t) /\ tries' \in [Thread -> 0 .. SpinLimit]
    BY <1>1, <2>2 DEF Away, AwayLabels, Types
  <2>4. CASE mem[t][i].val # Old
    BY <2>1, <2>2, <2>3, <2>4, EndsWait DEF Goto
  <2>5. CASE mem[t][i].val = Old
    <3>1. pc' = [pc EXCEPT ![t] = "block"]
      BY <2>1, <2>5 DEF Goto
    <3>2. "block" \in AwayLabels /\ "block" # "acquire"
      BY DEF AwayLabels
    <3> QED
      BY <2>1, <2>2, <2>3, <3>1, <3>2, Looks
  <2> QED
    BY <2>4, <2>5
<1> QED
  BY <1>2, <1>3

LEMMA SpinStep == \A t \in Thread : IInv /\ Spin(t) => IInv'
<1> SUFFICES ASSUME NEW t \in Thread, IInv, Spin(t) PROVE IInv'
  OBVIOUS
<1>1. pc[t] = "spin" /\ tries[t] > 0 /\ UNCHANGED <<mem, accesses, known, spin>>
  BY DEF Spin
<1>2. Away(t) /\ Types /\ pc \in [Thread -> Labels]
  BY <1>1 DEF Away, AwayLabels, IInv, Types
<1>3. PICK i \in Visible(t, t) :
          /\ LoadRelaxed(t, t, i)
          /\ IF mem[t][i].val # Old
             THEN Goto(t, "acquire") /\ tries' = [tries EXCEPT ![t] = 0]
             ELSE UNCHANGED pc /\ tries' = [tries EXCEPT ![t] = @ - 1]
  BY DEF Spin
<1>4. tries' \in [Thread -> 0 .. SpinLimit]
  <2>1. tries \in [Thread -> 0 .. SpinLimit] /\ 0 \in 0 .. SpinLimit
    BY <1>2, SignalAssumption DEF Types
  <2>2. tries[t] - 1 \in 0 .. SpinLimit
    BY <1>1, <2>1, SignalAssumption
  <2>3. tries' = [tries EXCEPT ![t] = 0] \/ tries' = [tries EXCEPT ![t] = tries[t] - 1]
    BY <1>3, <2>1
  <2> QED
    BY <2>1, <2>2, <2>3
<1>5. "acquire" \in AwayLabels /\ "spin" \in AwayLabels
  BY DEF AwayLabels
<1>6. CASE mem[t][i].val # Old
  BY <1>1, <1>2, <1>3, <1>4, <1>5, <1>6, Looks DEF Goto
<1>7. CASE mem[t][i].val = Old
  <2>1. pc' = [pc EXCEPT ![t] = "spin"]
    BY <1>1, <1>2, <1>3, <1>7
  <2> QED
    BY <1>1, <1>2, <1>3, <1>4, <1>5, <2>1, Looks
<1> QED
  BY <1>6, <1>7

LEMMA BlockStep == \A t \in Thread : IInv /\ Block(t) => IInv'
<1> SUFFICES ASSUME NEW t \in Thread, IInv, Block(t) PROVE IInv'
  OBVIOUS
<1> DEFINE l == IF mem[t][Len(mem[t])].val = Old THEN "asleep" ELSE "wait"
<1>1. /\ pc[t] = "block" /\ LoadRelaxed(t, t, Len(mem[t])) /\ pc' = [pc EXCEPT ![t] = l]
      /\ UNCHANGED <<mem, accesses, known, spin, tries>>
  BY DEF Block, Goto
<1>2. Away(t) /\ Types /\ KnownToExist
  BY <1>1 DEF Away, AwayLabels, IInv
<1>3. Len(mem[t]) \in Visible(t, t)
  BY <1>2 DEF Visible, KnownToExist, Known, Types
<1>4. l \in AwayLabels /\ l # "acquire" /\ tries' \in [Thread -> 0 .. SpinLimit]
  BY <1>1, <1>2 DEF AwayLabels, Types
<1> HIDE DEF l
<1> QED
  BY <1>1, <1>2, <1>3, <1>4, Looks

LEMMA BeginStep ==
    \A t \in Thread : IInv /\ (Begin(t) \/ GiveUp(t) \/ WakeSpuriously(t)) => IInv'
<1> SUFFICES ASSUME NEW t \in Thread, IInv, Begin(t) \/ GiveUp(t) \/ WakeSpuriously(t)
             PROVE  IInv'
  OBVIOUS
<1> DEFINE l == IF pc[t] = "begin" /\ spin THEN "spin" ELSE "wait"
<1>1. /\ pc[t] \in {"begin", "spin", "asleep"} /\ pc' = [pc EXCEPT ![t] = l]
      /\ UNCHANGED <<mem, view, accesses, known, spin>>
  BY DEF Begin, GiveUp, WakeSpuriously, Goto
<1>2. tries' \in [Thread -> 0 .. SpinLimit]
  <2>1. tries \in [Thread -> 0 .. SpinLimit] /\ 0 \in 0 .. SpinLimit
        /\ SpinLimit \in 0 .. SpinLimit
    BY SignalAssumption DEF IInv, Types
  <2>2. tries' = tries \/ tries' = [tries EXCEPT ![t] = IF spin THEN SpinLimit ELSE 0]
    BY DEF Begin, GiveUp, WakeSpuriously
  <2> QED
    BY <2>1, <2>2
<1>3. Away(t) /\ l \in AwayLabels \ {"acquire"}
  BY <1>1 DEF Away, AwayLabels
<1> HIDE DEF l
<1> QED
  BY <1>1, <1>2, <1>3, MovesOn

LEMMA NextIInv == IInv /\ [Next]_vars => IInv'
<1> SUFFICES ASSUME IInv, [Next]_vars PROVE IInv'
  OBVIOUS
<1>1. CASE UNCHANGED vars
  BY <1>1 DEF vars, IInv, Types, KnownToExist, Known, OneHolder, Phase, UnderWay,
              HolderKnows, AwayKnows, Holds, Away, IsSet, Newest, Everything
<1>2. CASE Submit \/ Process \/ Collect
  BY <1>2, SubmitStep, ProcessStep, CollectStep
<1>3. ASSUME NEW t \in Thread, Step(t) \/ WakeSpuriously(t)
      PROVE  IInv'
  BY <1>3, ResetStep, CheckStep, SetStep, NotifyStep, BeginStep, SpinStep,
     WaitStep, BlockStep DEF Step
<1> QED
  BY <1>1, <1>2, <1>3 DEF Next

\* IInv is an invariant of the waits and signals of thread_squad.cpp:311-436.
THEOREM Invariance == Spec => []IInv
BY InitIInv, NextIInv, PTL DEF Spec

----------------------------------------------------------------------------
(* What it implies.                                                        *)

\* set_and_notify never finds its flag set already: its assertion that the flag
\* changes cannot fail (thread_squad.cpp:419-436).
THEOREM AssertionHolds == Spec => []FlagsAreReset
<1>1. IInv => FlagsAreReset
  BY DEF IInv, Types, Labels, AwayLabels, FlagsAreReset
<1> QED
  BY <1>1, Invariance, PTL

\* A flag is stored to by both threads, yet each store is made by a thread that knows
\* of the one before: the relaxed store of reset needs no stronger ordering.
THEOREM StoresFollow == Spec => []StoresAreOrdered
<1>1. IInv => StoresAreOrdered
  <2> SUFFICES ASSUME IInv, NEW t \in Thread, pc[t] \in {"reset", "set"}
               PROVE  \A f \in Thread : view[t].flag[f] = Len(mem[f])
    BY TwoThreads DEF StoresAreOrdered
  <2>1. view[t] = Everything
    BY DEF IInv, HolderKnows, Holds, Away, AwayLabels
  <2> QED
    BY <2>1 DEF Everything
<1> QED
  BY <1>1, Invariance, PTL

\* Every access knows of all accesses before it, and the threads take turns: the safety
\* part of KeepsHandover. That everything handed over is returned is left to TLC.
THEOREM HandoverIsSafe == Spec => Promise!Init /\ [][Promise!Next]_(Promise!vars)
<1>1. Init => Promise!Init
  BY DEF Init, Promise!Init, Thread
<1>2. ASSUME IInv, [Next]_vars
      PROVE  [Promise!Next]_(Promise!vars)
  <2>1. a \in Thread /\ b \in Thread
    BY DEF Thread
  <2>2. ASSUME NEW t \in Thread, Access(t), pc[t] \in {"idle", "access"}
        PROVE  /\ accesses' = accesses + 1
               /\ known' = [known EXCEPT ![t] = accesses + 1]
    <3>1. view[t] = Everything /\ Types /\ KnownToExist
      BY <1>2, <2>2 DEF IInv, HolderKnows, Holds, Away, AwayLabels
    <3> QED
      BY <2>2, <3>1, Accesses
  <2>3. CASE Submit
    <3>1. pc[a] = "idle" /\ accesses < 3 * Rounds /\ Access(a)
      BY <2>3 DEF Submit
    <3>2. accesses % 3 = 0
      BY <1>2, <3>1 DEF IInv, Phase
    <3> QED
      BY <2>1, <2>2, <3>1, <3>2 DEF Promise!Next, Promise!Submit, Promise!Access
  <2>4. CASE Process
    <3>1. pc[b] = "access" /\ Access(b)
      BY <2>4 DEF Process
    <3>2. accesses % 3 = 1
      BY <1>2, <3>1 DEF IInv, Phase
    <3> QED
      BY <2>1, <2>2, <3>1, <3>2 DEF Promise!Next, Promise!Process, Promise!Access
  <2>5. CASE Collect
    <3>1. pc[a] = "access" /\ Access(a)
      BY <2>5 DEF Collect
    <3>2. accesses % 3 = 2
      BY <1>2, <3>1 DEF IInv, Phase
    <3> QED
      BY <2>1, <2>2, <3>1, <3>2 DEF Promise!Next, Promise!Collect, Promise!Access
  <2>6. ASSUME NEW t \in Thread, Step(t) \/ WakeSpuriously(t)
        PROVE  UNCHANGED <<accesses, known>>
    BY <2>6 DEF Step, Reset, Check, Set, Notify, Begin, Spin, GiveUp, Acquire, Wait,
                Block, WakeSpuriously
  <2>7. CASE UNCHANGED vars
    BY <2>7 DEF vars, Promise!vars
  <2> QED
    BY <1>2, <2>3, <2>4, <2>5, <2>6, <2>7 DEF Next, Promise!vars
<1> QED
  BY <1>1, <1>2, Invariance, PTL DEF Spec
==============================================================================
