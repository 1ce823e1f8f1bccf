-------------------------- MODULE SquadSync_proofs --------------------------
(***************************************************************************)
(* Proofs about the synchronization of the threads of a task, for any      *)
(* number of threads, any wake-up tree that satisfies TreeAssumption, and  *)
(* any sequence of tasks and operations.                                   *)
(***************************************************************************)
EXTENDS SquadSyncInv, Basics_proofs

\* The end of the part of a thread's block that takes part in the task.
E(t) == BlockEnd(BlockSize, t, width)

(***************************************************************************)
(* The wake-up tree.                                                       *)
(***************************************************************************)

LEMMA Threads == NumThreads \in Nat \ {0} /\ 0 \in Thread /\ Thread \subseteq Nat
BY PlansAssumption DEF Thread

\* The wake-up tree, in the vocabulary of the invariant.
LEMMA TreeFacts ==
    ASSUME width \in 0 .. NumThreads
    PROVE  /\ \A t \in Thread : Part(t) \subseteq Thread
           /\ \A t \in Thread : \A u \in Part(t) : t < u /\ u # t /\ u # 0 /\ u < width
           /\ \A t \in Thread : t >= width => Part(t) = {}
           /\ \A t1, t2 \in Thread : \A u \in Part(t1) : u \in Part(t2) => t1 = t2
           /\ \A u \in Thread : u # 0 /\ u < width =>
                  \E t \in Thread : u \in Part(t) /\ t < width
           /\ \A t \in Thread :
                /\ ToSub[t][width] \in Seq(Thread) /\ FromSub[t][width] \in Seq(Thread)
                /\ IsInjective(ToSub[t][width]) /\ IsInjective(FromSub[t][width])
                /\ Range(ToSub[t][width]) = Part(t)
                /\ Range(FromSub[t][width]) = Part(t)
                /\ t < width => Covers(BlockSize, t, FromSub[t][width], width)
<1> USE Threads
<1>1. \A t \in Thread, c \in 0 .. NumThreads :
          ToSub[t][c] \in Seq(Thread) /\ FromSub[t][c] \in Seq(Thread)
  <2>1. /\ ToSub   \in [Thread -> [0 .. NumThreads -> Seq(Thread)]]
        /\ FromSub \in [Thread -> [0 .. NumThreads -> Seq(Thread)]]
    BY TreeAssumption
  <2> QED
    BY <2>1
<1>2. NumThreads \in 0 .. NumThreads
  OBVIOUS
<1>3. \A t \in Thread : Part(t) \subseteq Thread
  BY <1>1, <1>2, ListFacts DEF Part
<1>4. \A t \in Thread : \A u \in Part(t) : t < u /\ u < width
  BY <1>2, TreeAssumption DEF Part
<1>5. \A t \in Thread : \A u \in Part(t) : t < u /\ u # t /\ u # 0 /\ u < width
  BY <1>3, <1>4 DEF Thread
<1>6. \A t \in Thread : t >= width => Part(t) = {}
  BY <1>3, <1>4 DEF Thread
<1>7. \A t1, t2 \in Thread : \A u \in Part(t1) : u \in Part(t2) => t1 = t2
  BY TreeAssumption DEF Part
<1>8. ASSUME NEW u \in Thread, u # 0, u < width
      PROVE  \E t \in Thread : u \in Part(t) /\ t < width
  <2>1. PICK t \in Thread : u \in Range(ToSub[t][NumThreads])
    BY <1>8, TreeAssumption
  <2>2. u \in Part(t)
    BY <1>8, <2>1 DEF Part
  <2>3. t < width
    BY <1>5, <1>6, <2>2 DEF Thread
  <2> QED
    BY <2>2, <2>3
<1>9. ASSUME NEW t \in Thread
      PROVE  /\ ToSub[t][width] \in Seq(Thread) /\ FromSub[t][width] \in Seq(Thread)
             /\ IsInjective(ToSub[t][width]) /\ IsInjective(FromSub[t][width])
             /\ Range(ToSub[t][width]) = Part(t)
             /\ Range(FromSub[t][width]) = Part(t)
             /\ t < width => Covers(BlockSize, t, FromSub[t][width], width)
  <2>1. ToSub[t][width] \in Seq(Thread) /\ FromSub[t][width] \in Seq(Thread)
    BY <1>1
  <2>2. IsInjective(ToSub[t][width]) /\ IsInjective(FromSub[t][width])
    BY TreeAssumption
  <2>3. Range(ToSub[t][width]) = Part(t) /\ Range(FromSub[t][width]) = Part(t)
    <3>1. PICK c \in 0 .. NumThreads : c = width
      OBVIOUS
    <3>2. Part(t) = { u \in Range(ToSub[t][NumThreads]) : u < c }
      BY <3>1 DEF Part
    <3>3. /\ Range(ToSub[t][c]) = { u \in Range(ToSub[t][NumThreads]) : u < c }
          /\ Range(FromSub[t][c]) = Range(ToSub[t][c])
      BY TreeAssumption
    <3> QED
      BY <3>1, <3>2, <3>3
  <2>4. ASSUME t < width PROVE Covers(BlockSize, t, FromSub[t][width], width)
    <3>1. width \in t+1 .. NumThreads
      BY <2>4 DEF Thread
    <3> QED
      BY <3>1, TreeAssumption
  <2> QED
    BY <2>1, <2>2, <2>3, <2>4
<1> QED
  BY <1>3, <1>5, <1>6, <1>7, <1>8, <1>9

\* Where blocks end.
LEMMA EndFacts ==
    ASSUME width \in 0 .. NumThreads
    PROVE  /\ \A t \in Thread : t < width => E(t) \in t+1 .. width
           /\ width > 0 => E(0) = width
<1>1. BlockSize \in [Thread -> 1 .. NumThreads] /\ BlockSize[0] = NumThreads
  BY TreeAssumption
<1> QED
  BY <1>1, Threads DEF E, BlockEnd, Thread

\* A step of thread u that its superordinate need not notice.
Follows(u) ==
    \A k \in Nat : /\ Due(u, k) => Due(u, k)'
                   /\ Arrived(u, k) => Arrived(u, k)'
                   /\ Withdrawn(u, k) => Withdrawn(u, k)'

\* Steps that take no operation back leave everybody else as they were.  S are the
\* subordinates that the step of thread t touches.
LEMMA OthersKept ==
    ASSUME IInv, NEW t \in Thread, NEW S, S \subseteq Part(t), UNCHANGED job,
           \A v \in Thread \ {t} : /\ at'[v] = at[v] /\ left'[v] = left[v]
                                   /\ op'[v] = op[v] /\ syncData'[v] = syncData[v],
           op'[t] \in Nat, op'[t] >= op[t],
           \A v \in Thread \ ({t} \cup S) :
               /\ collecting'[v] = collecting[v] /\ broadcasting'[v] = broadcasting[v]
               /\ value'[v] = value[v] /\ result'[v] = result[v],
           t # 0 => Follows(t)
    PROVE  /\ \A v \in Thread \ {t} : Local(v)' /\ Edge(v)'
           /\ \A v \in Thread \ ({t} \cup S) : NotWaitedFor(v)' /\ Gathered(v)' /\ Served(v)'
           /\ \A v \in S : NotWaitedFor(v)'
           /\ \A u \in Part(t) \ S : Follows(u)
           /\ \A v \in Thread : Part(v)' = Part(v)
<1> USE Threads
<1>1. /\ Types /\ width \in 0 .. NumThreads /\ op \in [Thread -> Nat]
      /\ width' = width /\ plan' = plan
  BY DEF IInv, Types, job
<1>2. \A v \in Thread : Part(v)' = Part(v)
  BY <1>1 DEF Part
<1>3. ASSUME NEW v \in Thread PROVE op'[v] \in Nat /\ op'[v] >= op[v]
  <2>1. op[v] \in Nat /\ op[v] >= op[v]
    BY <1>1
  <2>2. CASE v = t
    BY <2>2
  <2>3. CASE v # t
    BY <2>1, <2>3
  <2> QED
    BY <2>2, <2>3
<1>4. ASSUME NEW u \in Thread \ ({t} \cup S) PROVE Follows(u)
  BY DEF Follows, Due, Arrived, Withdrawn, Going, Coming
<1>5. ASSUME NEW v \in Thread \ {t}
      PROVE  Local(v)'
  <2>1. KindOf(v)' = KindOf(v)
    BY <1>1 DEF KindOf
  <2> QED
    BY <1>1, <2>1 DEF IInv, Local
<1>6. ASSUME NEW v \in Thread \ {t}
      PROVE  Edge(v)'
  <2>0. PICK k \in Nat : k = op[v]
    BY <1>1
  <2>1. Part(v) \cap S = {} /\ Part(v) \subseteq Thread /\ 0 \notin Part(v)
    BY <1>1, TreeFacts
  <2>2. ASSUME NEW u \in Part(v), NEW n \in Nat
        PROVE  /\ Due(u, n) => Due(u, n)'
               /\ Arrived(u, n) => Arrived(u, n)'
               /\ Withdrawn(u, n) => Withdrawn(u, n)'
    <3>1. \A w \in Thread \ S : w # 0 => Follows(w)
      BY <1>4
    <3>2. Follows(u)
      BY <2>1, <3>1
    <3> QED
      BY <3>2 DEF Follows
  <2>3. k + 1 \in Nat
    OBVIOUS
  <2>4. /\ at'[v] = at[v] /\ left'[v] = left[v] /\ op'[v] = k
        /\ Ahead(v)' = Ahead(v) /\ Target(v)' = Target(v)
    BY <2>0 DEF Ahead, Target
  <2>5. Edge(v)
    BY DEF IInv
  <2>6. at[v] = "work" => \A u \in Part(v) : Due(u, k + 1)'
    BY <2>0, <2>2, <2>3, <2>5 DEF Edge
  <2>7. at[v] = "collect" =>
        /\ Ahead(v) \subseteq Part(v)
        /\ Chained(BlockSize, left[v], width, BlockEnd(BlockSize, v, width))
        /\ \A u \in Ahead(v) : Due(u, k)'
        /\ \A u \in Part(v) \ Ahead(v) : Arrived(u, k)'
    BY <2>0, <2>2, <2>3, <2>5 DEF Edge
  <2>8. at[v] \in {"signalCollecting", "awaitBroadcast"} =>
            \A u \in Part(v) : Arrived(u, k)'
    BY <2>0, <2>2, <2>3, <2>5 DEF Edge
  <2>9. at[v] \in {"broadcast", "signalBroadcasting"} =>
        /\ left[v] # << >> /\ Ahead(v) \subseteq Part(v)
        /\ \A u \in Ahead(v) :
               IF at[v] = "signalBroadcasting" /\ u = Target(v)
               THEN Withdrawn(u, k)' ELSE Arrived(u, k)'
        /\ \A u \in Part(v) \ Ahead(v) : Due(u, k + 1)'
    BY <2>0, <2>2, <2>3, <2>5 DEF Edge
  <2> QED
    BY <1>1, <1>2, <2>4, <2>6, <2>7, <2>8, <2>9 DEF Edge
<1>7. ASSUME NEW v \in Thread \ ({t} \cup S)
      PROVE  NotWaitedFor(v)'
  BY <1>1 DEF IInv, NotWaitedFor
<1>8. ASSUME NEW v \in S
      PROVE  NotWaitedFor(v)'
  <2>1. v \in Part(t)
    OBVIOUS
  <2>2. v # 0 /\ v < width /\ v \in Nat
    BY <1>1, <2>1, TreeFacts
  <2> QED
    BY <1>1, <2>2 DEF NotWaitedFor
<1>9. ASSUME NEW v \in Thread \ ({t} \cup S)
      PROVE  Gathered(v)' /\ Served(v)'
  <2>1. KindOf(v)' = KindOf(v) /\ Reached(v)' = Reached(v)
    BY <1>1 DEF KindOf, Reached, Target
  <2>2. \A w \in 0 .. width-1 : w \in Thread
    BY <1>1 DEF Thread
  <2>3. Served(v)'
    BY <1>1, <1>3, <2>1, <2>2 DEF IInv, Served
  <2>4. Gathered(v)'
    <3> SUFFICES ASSUME \/ at[v] \in {"collect", "signalCollecting"}
                        \/ at[v] = "awaitBroadcast" /\ collecting[v] = 1
                 PROVE  /\ KindOf(v) # "synchronize" => value[v] = Interval(v, Reached(v))
                        /\ \A w \in v .. Reached(v) - 1 : op'[w] >= op[v]
      BY <2>1 DEF Gathered
    <3>1. /\ KindOf(v) # "synchronize" => value[v] = Interval(v, Reached(v))
          /\ \A w \in v .. Reached(v) - 1 : op[w] >= op[v]
      BY DEF IInv, Gathered
    <3>2. v .. Reached(v) - 1 \subseteq Thread
      <4>1. v < width
        BY DEF IInv, Local
      <4>2. left[v] # << >> => Target(v) \in Thread
        <5>1. left[v] \in Seq(Thread)
          BY <1>1 DEF Types
        <5> QED
          BY <5>1 DEF Target
      <4>3. Reached(v) \in 0 .. NumThreads
        BY <1>1, <4>1, <4>2, EndFacts DEF Reached, Thread, E
      <4> QED
        BY <4>3 DEF Thread
    <3>3. ASSUME NEW w \in v .. Reached(v) - 1 PROVE op'[w] >= op[v]
      <4>1. w \in Thread /\ op[w] >= op[v]
        BY <3>1, <3>2
      <4>2. op'[w] >= op[w] /\ op'[w] \in Nat /\ op[w] \in Nat /\ op[v] \in Nat
        BY <1>1, <1>3, <4>1
      <4> QED
        BY <4>1, <4>2
    <3> QED
      BY <3>1, <3>3
  <2> QED
    BY <2>3, <2>4
<1> QED
  BY <1>2, <1>4, <1>5, <1>6, <1>7, <1>8, <1>9, <1>1, TreeFacts

\* The same for a step that touches no other thread.
LEMMA AllOthersKept ==
    ASSUME IInv, NEW t \in Thread, UNCHANGED job,
           \A v \in Thread \ {t} :
               /\ at'[v] = at[v] /\ left'[v] = left[v]
               /\ op'[v] = op[v] /\ syncData'[v] = syncData[v]
               /\ collecting'[v] = collecting[v] /\ broadcasting'[v] = broadcasting[v]
               /\ value'[v] = value[v] /\ result'[v] = result[v],
           op'[t] \in Nat, op'[t] >= op[t],
           t # 0 => Follows(t)
    PROVE  /\ \A v \in Thread \ {t} : /\ Local(v)' /\ NotWaitedFor(v)' /\ Edge(v)'
                                      /\ Gathered(v)' /\ Served(v)'
           /\ \A u \in Part(t) : Follows(u)
           /\ Part(t)' = Part(t)
<1>1. {} \subseteq Part(t) /\ Thread \ ({t} \cup {}) = Thread \ {t}
      /\ Part(t) \ {} = Part(t)
  OBVIOUS
<1>2. \A v \in Thread \ {t} : /\ at'[v] = at[v] /\ left'[v] = left[v]
                              /\ op'[v] = op[v] /\ syncData'[v] = syncData[v]
  OBVIOUS
<1>3. \A v \in Thread \ ({t} \cup {}) :
               /\ collecting'[v] = collecting[v] /\ broadcasting'[v] = broadcasting[v]
               /\ value'[v] = value[v] /\ result'[v] = result[v]
  OBVIOUS
<1>4. /\ \A v \in Thread \ {t} : Local(v)' /\ Edge(v)'
      /\ \A v \in Thread \ ({t} \cup {}) : NotWaitedFor(v)' /\ Gathered(v)' /\ Served(v)'
      /\ \A u \in Part(t) \ {} : Follows(u)
      /\ \A v \in Thread : Part(v)' = Part(v)
  BY <1>1, <1>2, <1>3, OthersKept
<1> QED
  BY <1>1, <1>4

\* What the superordinate knows of a thread.
LEMMA SeenFromAbove ==
    ASSUME IInv, NEW t \in Thread, t # 0, t < width
    PROVE  \E n \in Nat : Due(t, n) \/ Arrived(t, n) \/ Withdrawn(t, n)
<1>1. Types /\ width \in 0 .. NumThreads /\ op \in [Thread -> Nat]
  BY DEF IInv, Types
<1>2. PICK p \in Thread : t \in Part(p)
  BY <1>1, TreeFacts
<1>3. Edge(p) /\ at[p] \in Label /\ op[p] \in Nat /\ op[p] + 1 \in Nat
  BY <1>1 DEF IInv, Types
<1>4. at[p] = "work" => Due(t, op[p] + 1)
  BY <1>2, <1>3 DEF Edge
<1>5. at[p] = "collect" => Due(t, op[p]) \/ Arrived(t, op[p])
  BY <1>2, <1>3 DEF Edge
<1>6. at[p] \in {"signalCollecting", "awaitBroadcast"} => Arrived(t, op[p])
  BY <1>2, <1>3 DEF Edge
<1>7. at[p] \in {"broadcast", "signalBroadcasting"} =>
          Withdrawn(t, op[p]) \/ Arrived(t, op[p]) \/ Due(t, op[p] + 1)
  BY <1>2, <1>3 DEF Edge
<1> QED
  BY <1>3, <1>4, <1>5, <1>6, <1>7 DEF Label

\* The thread a loop has come to.
LEMMA LoopFacts ==
    ASSUME IInv, NEW t \in Thread, left[t] # << >>, Ahead(t) \subseteq Part(t)
    PROVE  /\ Target(t) \in Ahead(t) /\ Target(t) \in Part(t) /\ Target(t) \in Thread
           /\ Target(t) # t /\ t < Target(t) /\ Target(t) < width
           /\ Tail(left[t]) \in Seq(Thread) /\ IsInjective(Tail(left[t]))
           /\ Range(Tail(left[t])) = Ahead(t) \ {Target(t)}
<1>1. Types /\ width \in 0 .. NumThreads /\ left[t] \in Seq(Thread) /\ IsInjective(left[t])
  BY DEF IInv, Types, Local
<1>2. /\ Target(t) \in Ahead(t) /\ Target(t) \in Thread
      /\ Tail(left[t]) \in Seq(Thread) /\ IsInjective(Tail(left[t]))
      /\ Range(Tail(left[t])) = Ahead(t) \ {Target(t)}
  BY <1>1, TailFacts DEF Target, Ahead
<1> QED
  BY <1>1, <1>2, TreeFacts

LEMMA EnterInv == ASSUME IInv, NEW t \in Thread, Enter(t) PROVE IInv'
<1> USE Threads
<1>1. Types /\ width \in 0 .. NumThreads /\ op \in [Thread -> Nat]
  BY DEF IInv, Types
<1>2. PICK k \in Nat : k = op[t]
  BY <1>1
<1> DEFINE list == FromSub[t][width]
<1>3. /\ t < width /\ at[t] = "work" /\ k < Len(plan)
      /\ op' = [op EXCEPT ![t] = k + 1]
      /\ value' = [value EXCEPT ![t] = << t >>]
      /\ result' = [result EXCEPT ![t] = << >>]
      /\ at' = [at EXCEPT ![t] = "collect"]
      /\ left' = [left EXCEPT ![t] = list]
      /\ UNCHANGED <<job, signals, syncData>>
  BY <1>2 DEF Enter
<1>4. /\ list \in Seq(Thread) /\ IsInjective(list) /\ Range(list) = Part(t)
      /\ Covers(BlockSize, t, list, width)
  BY <1>1, <1>3, TreeFacts
<1> HIDE DEF list
<1>5. Types'
  <2>1. << t >> \in Seq(Thread) /\ << >> \in Seq(Thread)
    OBVIOUS
  <2>2. /\ value' \in [Thread -> Seq(Thread)] /\ result' \in [Thread -> Seq(Thread)]
        /\ left' \in [Thread -> Seq(Thread)]
    BY <1>1, <1>3, <1>4, <2>1 DEF Types
  <2>3. op' \in [Thread -> Nat] /\ at' \in [Thread -> Label]
    BY <1>1, <1>3 DEF Types, Label
  <2> QED
    BY <1>1, <1>3, <2>2, <2>3 DEF Types, job, signals
<1>6. /\ at'[t] = "collect" /\ op'[t] = k + 1 /\ left'[t] = list /\ value'[t] = << t >>
      /\ collecting' = collecting /\ broadcasting' = broadcasting /\ syncData' = syncData
      /\ width' = width /\ plan' = plan
  BY <1>1, <1>3 DEF Types, job, signals
<1>7. Follows(t)
  <2>1. ASSUME NEW n \in Nat, Due(t, n) PROVE Coming(t, n)'
    BY <1>2, <1>3, <1>6, <2>1 DEF Due, Going, Arrived, Coming
  <2> QED
    BY <1>3, <2>1 DEF Follows, Due, Arrived, Withdrawn
<1>8. /\ \A v \in Thread \ {t} : Local(v)' /\ Edge(v)' /\ NotWaitedFor(v)'
                                 /\ Gathered(v)' /\ Served(v)'
      /\ \A u \in Part(t) : Follows(u)
      /\ Part(t)' = Part(t)
  <2>1. /\ UNCHANGED job /\ op'[t] \in Nat /\ op'[t] >= op[t]
        /\ \A v \in Thread \ {t} :
              /\ at'[v] = at[v] /\ left'[v] = left[v]
              /\ op'[v] = op[v] /\ syncData'[v] = syncData[v]
              /\ collecting'[v] = collecting[v] /\ broadcasting'[v] = broadcasting[v]
              /\ value'[v] = value[v] /\ result'[v] = result[v]
    BY <1>1, <1>2, <1>3, <1>6 DEF Types
  <2> QED
    BY <1>7, <2>1, AllOthersKept
<1>9. Local(t)'
  <2>1. Len(plan) \in Nat /\ k + 1 <= Len(plan)
    BY <1>1, <1>3 DEF Types
  <2>2. syncData[t] = 0
    BY <1>3 DEF IInv, Local
  <2> QED
    BY <1>1, <1>3, <1>4, <1>6, <2>1, <2>2 DEF Local
<1>10. NotWaitedFor(t)'
  BY <1>1, <1>6 DEF IInv, NotWaitedFor
<1>11. Edge(t)'
  <2>1. \A u \in Part(t) : Due(u, k + 1)
    BY <1>2, <1>3 DEF IInv, Edge
  <2>2. \A u \in Part(t) : Due(u, k + 1)'
    BY <1>8, <2>1 DEF Follows
  <2>3. Ahead(t)' = Part(t)
    BY <1>4, <1>6 DEF Ahead
  <2>4. Chained(BlockSize, list, width, BlockEnd(BlockSize, t, width))
    BY <1>4 DEF Covers
  <2> QED
    BY <1>6, <1>8, <2>2, <2>3, <2>4 DEF Edge
<1>12. Gathered(t)'
  <2>1. Reached(t)' = t + 1
    <3>1. CASE list = << >>
      BY <1>4, <1>6, <3>1 DEF Covers, Reached
    <3>2. CASE list # << >>
      BY <1>4, <1>6, <3>2 DEF Covers, Reached, Target
    <3> QED
      BY <3>1, <3>2
  <2>2. t \in Int /\ << t >> = Interval(t, t + 1)
    BY IntervalOne
  <2>3. t .. (t + 1) - 1 = {t}
    BY <2>2
  <2>4. op'[t] >= op'[t]
    BY <1>6
  <2> QED
    BY <1>6, <2>1, <2>2, <2>3, <2>4 DEF Gathered
<1>13. Served(t)'
  BY <1>6 DEF Served
<1> QED
  BY <1>5, <1>8, <1>9, <1>10, <1>11, <1>12, <1>13 DEF IInv

\* collect_from_thread appends the block that follows what was collected before.
LEMMA CollectInv == ASSUME IInv, NEW t \in Thread, Collect(t) PROVE IInv'
<1> USE Threads
<1>1. Types /\ width \in 0 .. NumThreads /\ op \in [Thread -> Nat]
  BY DEF IInv, Types
<1>2. PICK k \in Nat : k = op[t]
  BY <1>1
<1> DEFINE u    == Target(t)
           list == Tail(left[t])
           new  == IF KindOf(t) = "synchronize" THEN value[t] ELSE value[t] \o value[u]
<1>3. at[t] = "collect" /\ left[t] # << >> /\ collecting[u] = 1
  BY DEF Collect
<1>4. /\ t < width /\ Ahead(t) \subseteq Part(t)
      /\ Chained(BlockSize, left[t], width, E(t))
      /\ \A w \in Ahead(t) : Due(w, k)
      /\ \A w \in Part(t) \ Ahead(t) : Arrived(w, k)
  BY <1>2, <1>3 DEF IInv, Local, Edge, E
<1>5. /\ u \in Ahead(t) /\ u \in Part(t) /\ u \in Thread /\ u # t /\ t < u /\ u < width
      /\ list \in Seq(Thread) /\ IsInjective(list) /\ Range(list) = Ahead(t) \ {u}
  BY <1>3, <1>4, LoopFacts
<1>6. Arrived(u, k)
  BY <1>3, <1>4, <1>5 DEF Due, Going, Coming
<1>7. /\ Chained(BlockSize, list, width, E(t))
      /\ E(u) = IF list = << >> THEN E(t) ELSE Head(list)
  <2>1. left[t] \in Seq(Thread)
    BY <1>1 DEF Types
  <2> QED
    BY <1>3, <1>4, <2>1, ChainTail DEF Target, E
<1>8. /\ KindOf(t) # "synchronize" => value[t] = Interval(t, u) /\ value[u] = Interval(u, E(u))
      /\ \A w \in t .. u - 1 : op[w] >= k
      /\ \A w \in u .. E(u) - 1 : op[w] >= k
  <2>1. KindOf(u) = KindOf(t) /\ op[u] = k /\ at[u] = "awaitBroadcast" /\ collecting[u] = 1
    BY <1>2, <1>6 DEF KindOf, Arrived
  <2>2. Reached(t) = u /\ Reached(u) = E(u)
    BY <1>3, <2>1 DEF Reached, E
  <2> QED
    BY <1>2, <1>3, <1>5, <2>1, <2>2 DEF IInv, Gathered
<1>9. E(u) \in u+1 .. width
  BY <1>1, <1>5, EndFacts
<1>10. value[t] \in Seq(Thread) /\ value[u] \in Seq(Thread) /\ new \in Seq(Thread)
  <2> HIDE DEF u
  <2>1. value[t] \in Seq(Thread) /\ value[u] \in Seq(Thread)
    BY <1>1, <1>5 DEF Types
  <2> QED
    BY <2>1
<1>11. KindOf(t) # "synchronize" => new = Interval(t, E(u))
  <2> HIDE DEF u
  <2>1. t \in Int /\ u \in Int /\ t <= u
    BY <1>5
  <2>2. E(u) \in Int /\ u <= E(u)
    BY <1>1, <1>9, <2>1
  <2> QED
    BY <1>8, <2>1, <2>2, IntervalConcat
<1>12. /\ value' = [value EXCEPT ![t] = new]
       /\ left' = [left EXCEPT ![t] = list]
       /\ UNCHANGED <<job, at, op, signals, syncData, result>>
  <2>1. value \in [Thread -> Seq(Thread)]
    BY <1>1 DEF Types
  <2> QED
    BY <2>1 DEF Collect
<1> HIDE DEF new, list, u
<1>13. Types'
  BY <1>1, <1>5, <1>10, <1>12 DEF Types, job, signals
<1>14. /\ at' = at /\ op' = op /\ left'[t] = list /\ value'[t] = new
       /\ collecting' = collecting /\ broadcasting' = broadcasting /\ syncData' = syncData
       /\ width' = width /\ plan' = plan /\ KindOf(t)' = KindOf(t)
  BY <1>1, <1>12 DEF Types, job, signals, KindOf
<1>15. /\ \A v \in Thread \ {t} : Local(v)' /\ Edge(v)' /\ NotWaitedFor(v)'
                                  /\ Gathered(v)' /\ Served(v)'
       /\ \A w \in Part(t) : Follows(w)
       /\ Part(t)' = Part(t)
  <2>1. /\ UNCHANGED job /\ op'[t] \in Nat /\ op'[t] >= op[t]
        /\ \A v \in Thread \ {t} :
              /\ at'[v] = at[v] /\ left'[v] = left[v]
              /\ op'[v] = op[v] /\ syncData'[v] = syncData[v]
              /\ collecting'[v] = collecting[v] /\ broadcasting'[v] = broadcasting[v]
              /\ value'[v] = value[v] /\ result'[v] = result[v]
    BY <1>1, <1>2, <1>12, <1>14 DEF Types
  <2>2. Follows(t)
    BY <1>14 DEF Follows, Due, Arrived, Withdrawn, Going, Coming
  <2> QED
    BY <2>1, <2>2, AllOthersKept
<1>16. Local(t)'
  BY <1>5, <1>14 DEF IInv, Local
<1>17. NotWaitedFor(t)'
  BY <1>14 DEF IInv, NotWaitedFor
<1>18. Edge(t)'
  <2>1. Ahead(t)' = Ahead(t) \ {u}
    BY <1>5, <1>14 DEF Ahead
  <2>2. \A w \in Ahead(t) \ {u} : Due(w, k)'
    BY <1>4, <1>15 DEF Follows
  <2>3. \A w \in Part(t) \ (Ahead(t) \ {u}) : Arrived(w, k)'
    BY <1>4, <1>6, <1>15 DEF Follows
  <2> QED
    BY <1>2, <1>3, <1>4, <1>7, <1>14, <1>15, <2>1, <2>2, <2>3 DEF Edge, E
<1>19. Gathered(t)'
  <2>1. Reached(t)' = E(u)
    BY <1>3, <1>7, <1>14 DEF Reached, Target, E
  <2>2. \A w \in t .. E(u) - 1 : op[w] >= k
    BY <1>1, <1>5, <1>8, <1>9
  <2> QED
    BY <1>2, <1>11, <1>14, <2>1, <2>2 DEF Gathered
<1>20. Served(t)'
  BY <1>3, <1>14 DEF Served
<1> QED
  BY <1>13, <1>15, <1>16, <1>17, <1>18, <1>19, <1>20 DEF IInv

\* A thread that has collected everything lets its superordinate in.
LEMMA ExposeInv == ASSUME IInv, NEW t \in Thread, Expose(t) PROVE IInv'
<1> USE Threads
<1>1. Types /\ width \in 0 .. NumThreads /\ op \in [Thread -> Nat]
  BY DEF IInv, Types
<1>2. PICK k \in Nat : k = op[t]
  BY <1>1
<1>3. /\ at[t] = "collect" /\ left[t] = << >> /\ t > 0
      /\ syncData' = [syncData EXCEPT ![t] = IF KindOf(t) = "synchronize" THEN 0 ELSE k]
      /\ broadcasting' = [broadcasting EXCEPT ![t] = 0]
      /\ at' = [at EXCEPT ![t] = "signalCollecting"]
      /\ UNCHANGED <<job, left, op, collecting, data>>
  BY <1>2 DEF Expose
<1>4. Types'
  BY <1>1, <1>3 DEF Types, Label, job, data
<1>5. /\ at'[t] = "signalCollecting" /\ op' = op /\ left' = left /\ collecting' = collecting
      /\ value' = value /\ result' = result /\ broadcasting'[t] = 0
      /\ width' = width /\ plan' = plan /\ KindOf(t)' = KindOf(t)
      /\ syncData'[t] = IF KindOf(t) = "synchronize" THEN 0 ELSE k
  BY <1>1, <1>3 DEF Types, job, data, KindOf
<1>6. /\ \A v \in Thread \ {t} : Local(v)' /\ Edge(v)' /\ NotWaitedFor(v)'
                                 /\ Gathered(v)' /\ Served(v)'
      /\ \A w \in Part(t) : Follows(w)
      /\ Part(t)' = Part(t)
  <2>1. /\ UNCHANGED job /\ op'[t] \in Nat /\ op'[t] >= op[t]
        /\ \A v \in Thread \ {t} :
              /\ at'[v] = at[v] /\ left'[v] = left[v]
              /\ op'[v] = op[v] /\ syncData'[v] = syncData[v]
              /\ collecting'[v] = collecting[v] /\ broadcasting'[v] = broadcasting[v]
              /\ value'[v] = value[v] /\ result'[v] = result[v]
    BY <1>1, <1>2, <1>3, <1>5 DEF Types
  <2>2. Follows(t)
    BY <1>3, <1>5 DEF Follows, Due, Arrived, Withdrawn, Going, Coming
  <2> QED
    BY <2>1, <2>2, AllOthersKept
<1>7. Local(t)' /\ NotWaitedFor(t)'
  <2>1. Local(t) /\ t < width /\ k > 0
    BY <1>2, <1>3 DEF IInv, Local
  <2>2. Local(t)'
    BY <1>2, <1>5, <2>1 DEF Local
  <2> QED
    BY <1>1, <1>3, <1>5, <2>1, <2>2 DEF NotWaitedFor
<1>8. Edge(t)'
  <2>1. \A u \in Part(t) : Arrived(u, k)
    <3>1. Ahead(t) = {}
      <4>1. left[t] \in Seq(Thread)
        BY <1>1 DEF Types
      <4> QED
        BY <1>3, <4>1, ListFacts DEF Ahead
    <3> QED
      BY <1>2, <1>3, <3>1 DEF IInv, Edge
  <2>2. \A u \in Part(t) : Arrived(u, k)'
    BY <1>6, <2>1 DEF Follows
  <2> QED
    BY <1>2, <1>5, <1>6, <2>2 DEF Edge
<1>9. Gathered(t)' /\ Served(t)'
  <2>1. Reached(t)' = Reached(t)
    BY <1>3, <1>5 DEF Reached
  <2> QED
    BY <1>3, <1>5, <2>1 DEF IInv, Gathered, Served
<1> QED
  BY <1>4, <1>6, <1>7, <1>8, <1>9 DEF IInv

LEMMA SignalCollectingInv ==
    ASSUME IInv, NEW t \in Thread, SignalCollecting(t) PROVE IInv'
<1> USE Threads
<1>1. Types /\ width \in 0 .. NumThreads /\ op \in [Thread -> Nat]
  BY DEF IInv, Types
<1>2. PICK k \in Nat : k = op[t]
  BY <1>1
<1>3. /\ at[t] = "signalCollecting"
      /\ collecting' = [collecting EXCEPT ![t] = 1]
      /\ at' = [at EXCEPT ![t] = "awaitBroadcast"]
      /\ UNCHANGED <<job, left, op, broadcasting, syncData, data>>
  BY DEF SignalCollecting
<1>4. Types'
  BY <1>1, <1>3 DEF Types, Label, job, data
<1>5. /\ at'[t] = "awaitBroadcast" /\ op' = op /\ left' = left /\ collecting'[t] = 1
      /\ value' = value /\ result' = result /\ broadcasting' = broadcasting
      /\ width' = width /\ plan' = plan /\ KindOf(t)' = KindOf(t) /\ syncData' = syncData
  BY <1>1, <1>3 DEF Types, job, data, KindOf
<1>6. /\ \A v \in Thread \ {t} : Local(v)' /\ Edge(v)' /\ NotWaitedFor(v)'
                                 /\ Gathered(v)' /\ Served(v)'
      /\ \A w \in Part(t) : Follows(w)
      /\ Part(t)' = Part(t)
  <2>1. /\ UNCHANGED job /\ op'[t] \in Nat /\ op'[t] >= op[t]
        /\ \A v \in Thread \ {t} :
              /\ at'[v] = at[v] /\ left'[v] = left[v]
              /\ op'[v] = op[v] /\ syncData'[v] = syncData[v]
              /\ collecting'[v] = collecting[v] /\ broadcasting'[v] = broadcasting[v]
              /\ value'[v] = value[v] /\ result'[v] = result[v]
    BY <1>1, <1>2, <1>3, <1>5 DEF Types
  <2>2. ASSUME NEW n \in Nat, Due(t, n) PROVE Arrived(t, n)'
    BY <1>3, <1>5, <2>2 DEF Due, Arrived, Going, Coming
  <2>3. Follows(t)
    BY <1>3, <2>2 DEF Follows, Due, Arrived, Withdrawn
  <2> QED
    BY <2>1, <2>3, AllOthersKept
<1>7. Local(t)' /\ NotWaitedFor(t)'
  BY <1>3, <1>5 DEF IInv, Local, NotWaitedFor
<1>8. Edge(t)'
  <2>1. \A u \in Part(t) : Arrived(u, k)
    BY <1>2, <1>3 DEF IInv, Edge
  <2>2. \A u \in Part(t) : Arrived(u, k)'
    BY <1>6, <2>1 DEF Follows
  <2> QED
    BY <1>2, <1>5, <1>6, <2>2 DEF Edge
<1>9. Gathered(t)' /\ Served(t)'
  <2>1. Reached(t)' = Reached(t)
    BY <1>3, <1>5 DEF Reached
  <2> QED
    BY <1>3, <1>5, <2>1 DEF IInv, Gathered, Served
<1> QED
  BY <1>4, <1>6, <1>7, <1>8, <1>9 DEF IInv

\* The way down begins: a thread that has the result sets out to its subordinates,
\* all of which wait for it, or leaves the operation when it has none.
LEMMA WayDown ==
    ASSUME IInv, NEW t \in Thread, NEW k \in Nat, k = op[t],
           \A u \in Part(t) : Arrived(u, k), \A w \in Part(t) : Follows(w),
           Part(t)' = Part(t), op'[t] = k, Visit(t, "broadcast", ToSub[t][width], "work")
    PROVE  /\ Edge(t)' /\ IsInjective(left'[t])
           /\ at' \in [Thread -> Label] /\ left' \in [Thread -> Seq(Thread)]
           /\ at'[t] \in {"broadcast", "work"}
           /\ \A v \in Thread \ {t} : at'[v] = at[v] /\ left'[v] = left[v]
<1> DEFINE list == ToSub[t][width]
<1>1. Types /\ width \in 0 .. NumThreads
  BY DEF IInv, Types
<1>2. /\ list \in Seq(Thread) /\ IsInjective(list) /\ Range(list) = Part(t)
      /\ Part(t) \subseteq Thread
  BY <1>1, TreeFacts
<1>3. /\ left' = [left EXCEPT ![t] = list]
      /\ at' = [at EXCEPT ![t] = IF list = << >> THEN "work" ELSE "broadcast"]
  BY DEF Visit
<1> HIDE DEF list
<1>4. at'[t] = (IF list = << >> THEN "work" ELSE "broadcast") /\ left'[t] = list
  BY <1>1, <1>3 DEF Types
<1>5. at' \in [Thread -> Label] /\ left' \in [Thread -> Seq(Thread)]
  BY <1>1, <1>2, <1>3 DEF Types, Label
<1>6. \A u \in Part(t) : Arrived(u, k)'
  BY DEF Follows
<1>7. Ahead(t)' = Part(t)
  BY <1>2, <1>4 DEF Ahead
<1>8. CASE list = << >>
  <2>1. Part(t) = {}
    BY <1>2, <1>8, ListFacts
  <2> QED
    BY <1>1, <1>2, <1>3, <1>4, <1>5, <1>8, <2>1 DEF Edge, Types
<1>9. CASE list # << >>
  BY <1>1, <1>2, <1>3, <1>4, <1>5, <1>6, <1>7, <1>9 DEF Edge, Types
<1> QED
  BY <1>8, <1>9

\* The result has arrived, and with it the permission to leave.
LEMMA AwaitBroadcastInv ==
    ASSUME IInv, NEW t \in Thread, AwaitBroadcast(t) PROVE IInv'
<1> USE Threads
<1>1. Types /\ width \in 0 .. NumThreads /\ op \in [Thread -> Nat]
  BY DEF IInv, Types
<1>2. PICK k \in Nat : k = op[t]
  BY <1>1
<1>3. /\ at[t] = "awaitBroadcast" /\ broadcasting[t] = 1
      /\ syncData' = [syncData EXCEPT ![t] = 0]
      /\ Visit(t, "broadcast", ToSub[t][width], "work")
      /\ UNCHANGED <<job, op, signals, data>>
  BY DEF AwaitBroadcast
<1>4. t # 0 /\ t < width
  BY <1>3 DEF IInv, Local, NotWaitedFor
<1>5. collecting[t] = 0
  <2>1. PICK n \in Nat : Due(t, n) \/ Arrived(t, n) \/ Withdrawn(t, n)
    BY <1>4, SeenFromAbove
  <2> QED
    BY <1>3, <2>1 DEF Due, Arrived, Withdrawn, Going, Coming
<1>6. /\ op' = op /\ collecting' = collecting /\ broadcasting' = broadcasting
      /\ value' = value /\ result' = result /\ syncData'[t] = 0
      /\ width' = width /\ plan' = plan /\ KindOf(t)' = KindOf(t)
      /\ at'[t] \in {"broadcast", "work"}
  BY <1>1, <1>3 DEF Types, job, data, signals, KindOf, Visit
<1>7. Follows(t)
  <2>1. ASSUME NEW n \in Nat, Due(t, n) PROVE Due(t, n)'
    <3>1. Going(t, n-1) /\ op[t] = n - 1
      BY <1>3, <1>5, <2>1 DEF Due, Going, Arrived, Coming
    <3>2. CASE at'[t] = "broadcast"
      BY <1>5, <1>6, <3>1, <3>2 DEF Due, Going
    <3>3. CASE at'[t] = "work"
      BY <1>5, <1>6, <3>1, <3>3 DEF Due, Coming
    <3> QED
      BY <1>6, <3>2, <3>3
  <2> QED
    BY <1>3, <2>1 DEF Follows, Arrived, Withdrawn
<1>8. /\ \A v \in Thread \ {t} : Local(v)' /\ Edge(v)' /\ NotWaitedFor(v)'
                                 /\ Gathered(v)' /\ Served(v)'
      /\ \A w \in Part(t) : Follows(w)
      /\ Part(t)' = Part(t)
  <2>1. /\ UNCHANGED job /\ op'[t] \in Nat /\ op'[t] >= op[t]
        /\ \A v \in Thread \ {t} :
              /\ at'[v] = at[v] /\ left'[v] = left[v]
              /\ op'[v] = op[v] /\ syncData'[v] = syncData[v]
              /\ collecting'[v] = collecting[v] /\ broadcasting'[v] = broadcasting[v]
              /\ value'[v] = value[v] /\ result'[v] = result[v]
    BY <1>1, <1>2, <1>3, <1>6 DEF Types, Visit
  <2> QED
    BY <1>7, <2>1, AllOthersKept
<1>9. /\ Edge(t)' /\ IsInjective(left'[t])
      /\ at' \in [Thread -> Label] /\ left' \in [Thread -> Seq(Thread)]
  <2>1. \A u \in Part(t) : Arrived(u, k)
    BY <1>2, <1>3 DEF IInv, Edge
  <2>2. op'[t] = k
    BY <1>2, <1>6
  <2> QED
    BY <1>2, <1>3, <1>8, <2>1, <2>2, WayDown
<1>10. Types'
  BY <1>1, <1>3, <1>9 DEF Types, job, data, signals
<1>11. Local(t)' /\ NotWaitedFor(t)'
  <2>1. Local(t) /\ k > 0
    BY <1>2, <1>3 DEF IInv, Local
  <2> QED
    BY <1>2, <1>4, <1>5, <1>6, <1>9, <2>1 DEF Local, NotWaitedFor
<1>12. Gathered(t)' /\ Served(t)'
  <2>1. Served(t) /\ k > 0
    BY <1>2, <1>3 DEF IInv, Local
  <2> QED
    BY <1>2, <1>3, <1>5, <1>6, <2>1 DEF Gathered, Served
<1> QED
  BY <1>8, <1>9, <1>10, <1>11, <1>12 DEF IInv

\* Thread 0 has collected the contributions of everybody.
LEMMA TransformInv ==
    ASSUME IInv, NEW t \in Thread, Transform(t) PROVE IInv'
<1> USE Threads
<1>1. Types /\ width \in 0 .. NumThreads /\ op \in [Thread -> Nat]
  BY DEF IInv, Types
<1>2. PICK k \in Nat : k = op[t]
  BY <1>1
<1>3. /\ at[t] = "collect" /\ left[t] = << >> /\ t = 0
      /\ result' = IF KindOf(t) = "reduce_transform"
                   THEN [result EXCEPT ![t] = value[t]] ELSE result
      /\ Visit(t, "broadcast", ToSub[t][width], "work")
      /\ UNCHANGED <<job, op, signals, syncData, value>>
  BY DEF Transform
<1>4. /\ op' = op /\ collecting' = collecting /\ broadcasting' = broadcasting
      /\ value' = value /\ syncData' = syncData
      /\ width' = width /\ plan' = plan /\ KindOf(t)' = KindOf(t)
      /\ at'[t] \in {"broadcast", "work"}
  BY <1>1, <1>3 DEF Types, job, data, signals, KindOf, Visit
<1>5. /\ result' \in [Thread -> Seq(Thread)]
      /\ KindOf(t) = "reduce_transform" => result'[t] = value[t]
      /\ \A v \in Thread \ {t} : result'[v] = result[v]
  <2>1. value[t] \in Seq(Thread) /\ result \in [Thread -> Seq(Thread)]
    BY <1>1 DEF Types
  <2>2. CASE KindOf(t) = "reduce_transform"
    BY <1>3, <2>1, <2>2
  <2>3. CASE KindOf(t) # "reduce_transform"
    BY <1>3, <2>1, <2>3
  <2> QED
    BY <2>2, <2>3
<1>6. /\ \A v \in Thread \ {t} : Local(v)' /\ Edge(v)' /\ NotWaitedFor(v)'
                                 /\ Gathered(v)' /\ Served(v)'
      /\ \A w \in Part(t) : Follows(w)
      /\ Part(t)' = Part(t)
  <2>1. /\ UNCHANGED job /\ op'[t] \in Nat /\ op'[t] >= op[t]
        /\ \A v \in Thread \ {t} :
              /\ at'[v] = at[v] /\ left'[v] = left[v]
              /\ op'[v] = op[v] /\ syncData'[v] = syncData[v]
              /\ collecting'[v] = collecting[v] /\ broadcasting'[v] = broadcasting[v]
              /\ value'[v] = value[v] /\ result'[v] = result[v]
    BY <1>1, <1>2, <1>3, <1>4, <1>5 DEF Types, Visit
  <2> QED
    BY <1>3, <2>1, AllOthersKept
<1>7. /\ Edge(t)' /\ IsInjective(left'[t])
      /\ at' \in [Thread -> Label] /\ left' \in [Thread -> Seq(Thread)]
  <2>1. \A u \in Part(t) : Arrived(u, k)
    <3>1. Ahead(t) = {}
      <4>1. left[t] \in Seq(Thread)
        BY <1>1 DEF Types
      <4> QED
        BY <1>3, <4>1, ListFacts DEF Ahead
    <3> QED
      BY <1>2, <1>3, <3>1 DEF IInv, Edge
  <2>2. op'[t] = k
    BY <1>2, <1>4
  <2> QED
    BY <1>2, <1>3, <1>6, <2>1, <2>2, WayDown
<1>8. Types'
  BY <1>1, <1>3, <1>5, <1>7 DEF Types, job, data, signals
<1>9. t < width /\ k > 0 /\ Local(t)' /\ NotWaitedFor(t)'
  <2>1. Local(t) /\ NotWaitedFor(t) /\ t < width /\ k > 0
    BY <1>2, <1>3 DEF IInv, Local
  <2> QED
    BY <1>2, <1>3, <1>4, <1>7, <2>1 DEF Local, NotWaitedFor
<1>10. Gathered(t)' /\ Served(t)'
  <2>1. Reached(t) = width
    BY <1>1, <1>3, <1>9, EndFacts DEF Reached, E
  <2>2. /\ KindOf(t) # "synchronize" => value[t] = Interval(0, width)
        /\ \A v \in 0 .. width-1 : op[v] >= k
    BY <1>2, <1>3, <2>1 DEF IInv, Gathered
  <2>3. Served(t)'
    BY <1>2, <1>4, <1>5, <2>2 DEF Served
  <2>4. Gathered(t)'
    BY <1>4 DEF Gathered
  <2> QED
    BY <2>3, <2>4
<1> QED
  BY <1>6, <1>7, <1>8, <1>9, <1>10 DEF IInv

\* The result goes to the subordinate, whose signal is withdrawn on its behalf.
LEMMA BroadcastInv == ASSUME IInv, NEW t \in Thread, Broadcast(t) PROVE IInv'
<1> USE Threads
<1>1. Types /\ width \in 0 .. NumThreads /\ op \in [Thread -> Nat]
  BY DEF IInv, Types
<1>2. PICK k \in Nat : k = op[t]
  BY <1>1
<1>3. PICK u : u = Target(t)
  OBVIOUS
<1>4. /\ at[t] = "broadcast"
      /\ value' = IF KindOf(t) = "reduce" THEN [value EXCEPT ![u] = value[t]] ELSE value
      /\ result' = IF KindOf(t) = "reduce_transform"
                   THEN [result EXCEPT ![u] = result[t]] ELSE result
      /\ collecting' = [collecting EXCEPT ![u] = 0]
      /\ at' = [at EXCEPT ![t] = "signalBroadcasting"]
      /\ UNCHANGED <<job, left, op, broadcasting, syncData>>
  BY <1>3 DEF Broadcast
<1>5. /\ left[t] # << >> /\ Ahead(t) \subseteq Part(t)
      /\ \A w \in Ahead(t) : Arrived(w, k)
      /\ \A w \in Part(t) \ Ahead(t) : Due(w, k + 1)
  BY <1>2, <1>4 DEF IInv, Edge
<1>6. u \in Ahead(t) /\ u \in Part(t) /\ u \in Thread /\ u # t
  BY <1>3, <1>5, LoopFacts
<1>7. Arrived(u, k) /\ KindOf(u) = KindOf(t) /\ at[u] = "awaitBroadcast" /\ op[u] = k
  BY <1>2, <1>5, <1>6 DEF Arrived, KindOf
<1>8. /\ value' \in [Thread -> Seq(Thread)] /\ result' \in [Thread -> Seq(Thread)]
      /\ KindOf(t) = "reduce" => value'[u] = value[t]
      /\ KindOf(t) = "reduce_transform" => result'[u] = result[t]
      /\ \A v \in Thread \ {u} : value'[v] = value[v] /\ result'[v] = result[v]
  <2>1. /\ value[t] \in Seq(Thread) /\ value \in [Thread -> Seq(Thread)]
        /\ result[t] \in Seq(Thread) /\ result \in [Thread -> Seq(Thread)]
    BY <1>1 DEF Types
  <2>2. /\ value' \in [Thread -> Seq(Thread)]
        /\ KindOf(t) = "reduce" => value'[u] = value[t]
        /\ \A v \in Thread \ {u} : value'[v] = value[v]
    <3>1. CASE KindOf(t) = "reduce"
      BY <1>4, <1>6, <2>1, <3>1
    <3>2. CASE KindOf(t) # "reduce"
      BY <1>4, <2>1, <3>2
    <3> QED
      BY <3>1, <3>2
  <2>3. /\ result' \in [Thread -> Seq(Thread)]
        /\ KindOf(t) = "reduce_transform" => result'[u] = result[t]
        /\ \A v \in Thread \ {u} : result'[v] = result[v]
    <3>1. CASE KindOf(t) = "reduce_transform"
      BY <1>4, <1>6, <2>1, <3>1
    <3>2. CASE KindOf(t) # "reduce_transform"
      BY <1>4, <2>1, <3>2
    <3> QED
      BY <3>1, <3>2
  <2> QED
    BY <2>2, <2>3
<1>9. Types'
  BY <1>1, <1>4, <1>8 DEF Types, Label, job
<1>10. /\ at'[t] = "signalBroadcasting" /\ op' = op /\ left' = left /\ collecting'[u] = 0
       /\ collecting'[t] = collecting[t] /\ broadcasting' = broadcasting
       /\ width' = width /\ plan' = plan /\ syncData' = syncData
       /\ value'[t] = value[t] /\ result'[t] = result[t]
       /\ at'[u] = at[u] /\ KindOf(t)' = KindOf(t) /\ KindOf(u)' = KindOf(u)
  BY <1>1, <1>4, <1>6, <1>8 DEF Types, job, KindOf
<1>11. Follows(t)
  BY <1>4, <1>10 DEF Follows, Due, Arrived, Withdrawn, Going, Coming
<1>12. /\ \A v \in Thread \ {t} : Local(v)' /\ Edge(v)'
       /\ \A v \in Thread \ ({t} \cup {u}) : NotWaitedFor(v)' /\ Gathered(v)' /\ Served(v)'
       /\ \A v \in {u} : NotWaitedFor(v)'
       /\ \A w \in Part(t) \ {u} : Follows(w)
       /\ \A v \in Thread : Part(v)' = Part(v)
  <2>1. /\ UNCHANGED job /\ op'[t] \in Nat /\ op'[t] >= op[t] /\ {u} \subseteq Part(t)
        /\ \A v \in Thread \ {t} : /\ at'[v] = at[v] /\ left'[v] = left[v]
                                   /\ op'[v] = op[v] /\ syncData'[v] = syncData[v]
    BY <1>1, <1>2, <1>4, <1>6, <1>10 DEF Types
  <2>2. \A v \in Thread \ ({t} \cup {u}) :
               /\ collecting'[v] = collecting[v] /\ broadcasting'[v] = broadcasting[v]
               /\ value'[v] = value[v] /\ result'[v] = result[v]
    BY <1>1, <1>4, <1>6, <1>8 DEF Types
  <2> QED
    BY <1>11, <2>1, <2>2, OthersKept
<1>13. Local(t)' /\ NotWaitedFor(t)'
  <2>1. Local(t) /\ NotWaitedFor(t) /\ t < width /\ k > 0
    BY <1>2, <1>4 DEF IInv, Local
  <2> QED
    BY <1>2, <1>4, <1>10, <2>1 DEF Local, NotWaitedFor
<1>14. Edge(t)'
  <2>1. Withdrawn(u, k)'
    BY <1>7, <1>10 DEF Withdrawn, Arrived
  <2>2. \A w \in Ahead(t) \ {u} : Arrived(w, k)'
    BY <1>5, <1>12 DEF Follows
  <2>3. \A w \in Part(t) \ Ahead(t) : Due(w, k + 1)'
    BY <1>5, <1>6, <1>12 DEF Follows
  <2>4. Ahead(t)' = Ahead(t) /\ Target(t)' = u /\ Part(t)' = Part(t)
    BY <1>3, <1>10, <1>12 DEF Ahead, Target
  <2>5. \A w \in Ahead(t) : IF w = u THEN Withdrawn(w, k)' ELSE Arrived(w, k)'
    BY <2>1, <2>2 DEF Withdrawn, Arrived
  <2> QED
    BY <1>2, <1>5, <1>10, <2>3, <2>4, <2>5 DEF Edge
<1>15. Gathered(t)' /\ Served(t)'
  BY <1>2, <1>4, <1>10 DEF IInv, Gathered, Served
<1>16. Gathered(u)' /\ Served(u)'
  <2>1. k > 0
    BY <1>2, <1>4 DEF IInv, Local
  <2>2. /\ KindOf(t) = "reduce" => value[t] = Interval(0, width)
        /\ KindOf(t) = "reduce_transform" => result[t] = Interval(0, width)
        /\ \A v \in 0 .. width-1 : op[v] >= k
    BY <1>2, <1>4, <2>1 DEF IInv, Served
  <2>3. Served(u)'
    BY <1>7, <1>8, <1>10, <2>2 DEF Served
  <2>4. Gathered(u)'
    BY <1>7, <1>10 DEF Gathered
  <2> QED
    BY <2>3, <2>4
<1>17. ASSUME NEW v \in Thread
       PROVE  Local(v)' /\ NotWaitedFor(v)' /\ Edge(v)' /\ Gathered(v)' /\ Served(v)'
  <2>1. CASE v = t
    BY <1>13, <1>14, <1>15, <2>1
  <2>2. CASE v = u
    BY <1>6, <1>12, <1>16, <2>2
  <2>3. CASE v \notin {t, u}
    BY <1>12, <2>3
  <2> QED
    BY <2>1, <2>2, <2>3
<1> QED
  BY <1>9, <1>17 DEF IInv

\* The subordinate is let go, and the thread turns to the next one.
LEMMA SignalBroadcastingInv ==
    ASSUME IInv, NEW t \in Thread, SignalBroadcasting(t) PROVE IInv'
<1> USE Threads
<1>1. Types /\ width \in 0 .. NumThreads /\ op \in [Thread -> Nat]
  BY DEF IInv, Types
<1>2. PICK k \in Nat : k = op[t]
  BY <1>1
<1>3. PICK u : u = Target(t)
  OBVIOUS
<1> DEFINE list == Tail(left[t])
<1>4. /\ at[t] = "signalBroadcasting"
      /\ broadcasting' = [broadcasting EXCEPT ![u] = 1]
      /\ left' = [left EXCEPT ![t] = list]
      /\ at' = [at EXCEPT ![t] = IF list = << >> THEN "work" ELSE "broadcast"]
      /\ UNCHANGED <<job, op, collecting, syncData, data>>
  BY <1>3 DEF SignalBroadcasting, Visit
<1>5. /\ left[t] # << >> /\ Ahead(t) \subseteq Part(t)
      /\ \A w \in Ahead(t) : IF w = u THEN Withdrawn(w, k) ELSE Arrived(w, k)
      /\ \A w \in Part(t) \ Ahead(t) : Due(w, k + 1)
  BY <1>2, <1>3, <1>4 DEF IInv, Edge
<1>6. /\ u \in Ahead(t) /\ u \in Part(t) /\ u \in Thread /\ u # t
      /\ list \in Seq(Thread) /\ IsInjective(list) /\ Range(list) = Ahead(t) \ {u}
  BY <1>3, <1>5, LoopFacts
<1>7. at[u] = "awaitBroadcast" /\ op[u] = k /\ collecting[u] = 0
  BY <1>5, <1>6 DEF Withdrawn
<1> HIDE DEF list
<1>8. Types'
  <2>1. at' \in [Thread -> Label] /\ left' \in [Thread -> Seq(Thread)]
    BY <1>1, <1>4, <1>6 DEF Types, Label
  <2> QED
    BY <1>1, <1>4, <1>6, <2>1 DEF Types, job, data
<1>9. /\ at'[t] = (IF list = << >> THEN "work" ELSE "broadcast") /\ left'[t] = list
      /\ op' = op /\ collecting' = collecting /\ broadcasting'[u] = 1
      /\ broadcasting'[t] = broadcasting[t]
      /\ width' = width /\ plan' = plan /\ syncData' = syncData
      /\ value' = value /\ result' = result
      /\ at'[u] = at[u] /\ KindOf(t)' = KindOf(t) /\ KindOf(u)' = KindOf(u)
  BY <1>1, <1>4, <1>6 DEF Types, job, data, KindOf
<1>10. Follows(t)
  <2>1. ASSUME NEW n \in Nat, Due(t, n) PROVE Due(t, n)'
    <3>1. Going(t, n-1)
      BY <1>4, <2>1 DEF Due, Going, Arrived, Coming
    <3>2. CASE list # << >>
      BY <1>4, <1>9, <3>1, <3>2 DEF Due, Going
    <3>3. CASE list = << >>
      BY <1>4, <1>9, <3>1, <3>3 DEF Due, Going, Coming
    <3> QED
      BY <3>2, <3>3
  <2> QED
    BY <1>4, <2>1 DEF Follows, Arrived, Withdrawn
<1>11. /\ \A v \in Thread \ {t} : Local(v)' /\ Edge(v)'
       /\ \A v \in Thread \ ({t} \cup {u}) : NotWaitedFor(v)' /\ Gathered(v)' /\ Served(v)'
       /\ \A v \in {u} : NotWaitedFor(v)'
       /\ \A w \in Part(t) \ {u} : Follows(w)
       /\ \A v \in Thread : Part(v)' = Part(v)
  <2>1. /\ UNCHANGED job /\ op'[t] \in Nat /\ op'[t] >= op[t] /\ {u} \subseteq Part(t)
        /\ \A v \in Thread \ {t} : /\ at'[v] = at[v] /\ left'[v] = left[v]
                                   /\ op'[v] = op[v] /\ syncData'[v] = syncData[v]
    BY <1>1, <1>2, <1>4, <1>6, <1>9 DEF Types
  <2>2. \A v \in Thread \ ({t} \cup {u}) :
               /\ collecting'[v] = collecting[v] /\ broadcasting'[v] = broadcasting[v]
               /\ value'[v] = value[v] /\ result'[v] = result[v]
    BY <1>1, <1>4, <1>6, <1>9 DEF Types
  <2> QED
    BY <1>10, <2>1, <2>2, OthersKept
<1>12. Local(t)' /\ NotWaitedFor(t)'
  <2>1. Local(t) /\ NotWaitedFor(t) /\ t < width /\ k > 0
    BY <1>2, <1>4 DEF IInv, Local
  <2> QED
    BY <1>2, <1>4, <1>6, <1>9, <2>1 DEF Local, NotWaitedFor
<1>13. Edge(t)'
  <2>1. Due(u, k + 1)'
    BY <1>7, <1>9 DEF Due, Going
  <2>2. \A w \in Ahead(t) \ {u} : Arrived(w, k)'
    BY <1>5, <1>11 DEF Follows
  <2>3. \A w \in Part(t) \ (Ahead(t) \ {u}) : Due(w, k + 1)'
    <3> SUFFICES ASSUME NEW w \in Part(t), w \notin Ahead(t) \ {u}
                 PROVE  Due(w, k + 1)'
      OBVIOUS
    <3>1. CASE w = u
      BY <2>1, <3>1 DEF Due, Going, Coming, Arrived
    <3>2. CASE w # u
      BY <1>5, <1>11, <3>2 DEF Follows
    <3> QED
      BY <3>1, <3>2
  <2>4. Ahead(t)' = Ahead(t) \ {u} /\ Part(t)' = Part(t)
    BY <1>6, <1>9, <1>11 DEF Ahead
  <2>5. CASE list = << >>
    <3>1. Ahead(t) \ {u} = {}
      BY <1>6, <2>5, ListFacts
    <3> QED
      BY <1>2, <1>9, <2>3, <2>4, <2>5, <3>1 DEF Edge
  <2>6. CASE list # << >>
    BY <1>2, <1>5, <1>9, <2>2, <2>3, <2>4, <2>6 DEF Edge
  <2> QED
    BY <2>5, <2>6
<1>14. Gathered(t)' /\ Served(t)'
  BY <1>2, <1>4, <1>9 DEF IInv, Gathered, Served
<1>15. Gathered(u)' /\ Served(u)'
  BY <1>6, <1>7, <1>9 DEF IInv, Gathered, Served
<1>16. ASSUME NEW v \in Thread
       PROVE  Local(v)' /\ NotWaitedFor(v)' /\ Edge(v)' /\ Gathered(v)' /\ Served(v)'
  <2>1. CASE v = t
    BY <1>12, <1>13, <1>14, <2>1
  <2>2. CASE v = u
    BY <1>6, <1>11, <1>15, <2>2
  <2>3. CASE v \notin {t, u}
    BY <1>11, <2>3
  <2> QED
    BY <2>1, <2>2, <2>3
<1> QED
  BY <1>8, <1>16 DEF IInv

\* Between two tasks every thread has come to rest, and no signal is left set.
LEMMA Quiet ==
    ASSUME IInv, \A t \in 0 .. width-1 : Finished(t)
    PROVE  \A t \in Thread : at[t] = "work" /\ collecting[t] = 0 /\ syncData[t] = 0
<1>1. Types /\ width \in 0 .. NumThreads
  BY DEF IInv, Types
<1> SUFFICES ASSUME NEW t \in Thread
             PROVE  at[t] = "work" /\ collecting[t] = 0 /\ syncData[t] = 0
  OBVIOUS
<1>2. at[t] = "work"
  BY <1>1, Threads DEF IInv, Local, Finished, Thread
<1>3. syncData[t] = 0
  BY <1>2 DEF IInv, Local
<1>4. collecting[t] = 0
  <2>1. CASE t = 0 \/ t >= width
    BY <2>1 DEF IInv, NotWaitedFor
  <2>2. CASE t # 0 /\ t < width
    BY <1>2, <2>2, SeenFromAbove DEF Due, Going, Coming, Arrived, Withdrawn
  <2> QED
    BY <1>1, <2>1, <2>2, Threads DEF Thread
<1> QED
  BY <1>2, <1>3, <1>4

\* That is all a task has to find, whatever the earlier ones have left in the other
\* variables.
Quiescent ==
    /\ Types
    /\ \A t \in Thread : /\ at[t] = "work" /\ collecting[t] = 0 /\ syncData[t] = 0
                         /\ IsInjective(left[t])

LEMMA QuiescentWhenFinished ==
    ASSUME IInv, \A t \in 0 .. width-1 : Finished(t) PROVE Quiescent
  BY Quiet DEF Quiescent, IInv, Local

LEMMA StartTaskFirst ==
    ASSUME Quiescent, NEW c \in 1 .. NumThreads, NEW p \in Plans, StartTask(c, p)
    PROVE  IInv'
<1> USE Threads
<1>1. Types /\ width \in 0 .. NumThreads
  BY DEF Quiescent, Types
<1>2. \A t \in Thread : /\ at[t] = "work" /\ collecting[t] = 0 /\ syncData[t] = 0
                       /\ IsInjective(left[t])
  BY DEF Quiescent
<1>3. /\ width' = c /\ plan' = p /\ UNCHANGED <<at, left, signals, syncData>>
      /\ op' = [t \in Thread |-> 0]
      /\ value' = [t \in Thread |-> << >>] /\ result' = [t \in Thread |-> << >>]
  BY DEF StartTask
<1>4. Types'
  <2>1. p \in Seq(Kind) /\ << >> \in Seq(Thread)
    BY PlansAssumption
  <2>2. width' \in 0 .. NumThreads
    BY <1>3
  <2> QED
    BY <1>1, <1>3, <2>1, <2>2 DEF Types, signals
<1>5. ASSUME NEW t \in Thread
      PROVE  Local(t)' /\ NotWaitedFor(t)' /\ Edge(t)' /\ Gathered(t)' /\ Served(t)'
  <2>1. /\ at'[t] = "work" /\ op'[t] = 0 /\ left'[t] = left[t] /\ syncData'[t] = 0
        /\ collecting'[t] = 0
    BY <1>2, <1>3 DEF signals
  <2>2. Len(plan') >= 0
    BY <1>4 DEF Types
  <2>3. Local(t)' /\ NotWaitedFor(t)' /\ Gathered(t)' /\ Served(t)'
    <3>1. IsInjective(left'[t])
      BY <1>2, <2>1
    <3>2. op'[t] <= Len(plan') /\ ~(op'[t] > 0)
      BY <1>4, <2>1, <2>2
    <3>3. Local(t)'
      BY <2>1, <3>1, <3>2 DEF Local
    <3> QED
      BY <2>1, <3>2, <3>3 DEF NotWaitedFor, Gathered, Served
  <2>4. \A u \in Thread : Due(u, op[t] + 1)'
    BY <1>2, <1>3, <2>1 DEF Due, Coming, signals
  <2>5. Part(t)' \subseteq Thread
    <3>1. NumThreads \in 0 .. NumThreads
      OBVIOUS
    <3>2. ToSub[t][NumThreads] \in Seq(Thread)
      BY <3>1, TreeAssumption
    <3> QED
      BY <3>2, ListFacts DEF Part
  <2>6. Edge(t)'
    BY <2>1, <2>4, <2>5 DEF Edge
  <2> QED
    BY <2>3, <2>6
<1> QED
  BY <1>4, <1>5 DEF IInv

LEMMA StartTaskInv ==
    ASSUME IInv, NEW c \in 1 .. NumThreads, NEW p \in Plans, StartTask(c, p) PROVE IInv'
<1>1. \A t \in 0 .. width-1 : Finished(t)
  BY DEF StartTask
<1> QED
  BY <1>1, QuiescentWhenFinished, StartTaskFirst

(***************************************************************************)
(* The invariant, and what follows from it.                                *)
(***************************************************************************)

LEMMA IInvInit == Init => IInv
<1> SUFFICES ASSUME Init PROVE IInv
  OBVIOUS
<1> USE Threads
<1>1. << >> \in Seq(Thread) /\ << >> \in Seq(Kind) /\ Len(<< >>) = 0
  OBVIOUS
<1>2. Types
  <2>1. width \in 0 .. NumThreads /\ plan \in Seq(Kind) /\ at \in [Thread -> Label]
    BY <1>1 DEF Init, Label
  <2>2. /\ left \in [Thread -> Seq(Thread)] /\ value \in [Thread -> Seq(Thread)]
        /\ result \in [Thread -> Seq(Thread)]
    BY <1>1 DEF Init
  <2>3. /\ op \in [Thread -> Nat] /\ collecting \in [Thread -> {0, 1}]
        /\ broadcasting \in [Thread -> {0, 1}] /\ syncData \in [Thread -> Nat]
    BY DEF Init
  <2> QED
    BY <2>1, <2>2, <2>3 DEF Types
<1>3. ASSUME NEW t \in Thread
      PROVE  Local(t) /\ NotWaitedFor(t) /\ Edge(t) /\ Gathered(t) /\ Served(t)
  <2>1. t >= 0 /\ Part(t) = {}
    BY <1>2, TreeFacts DEF Init
  <2>2. IsInjective(<< >>)
    BY <1>1, ListFacts
  <2> QED
    BY <1>1, <2>1, <2>2 DEF Init, Local, NotWaitedFor, Edge, Gathered, Served
<1> QED
  BY <1>2, <1>3 DEF IInv

LEMMA StutterInv == ASSUME IInv, UNCHANGED vars PROVE IInv'
<1> USE DEF vars
<1>1. Types'
  BY DEF IInv, Types
<1>2. ASSUME NEW t \in Thread
      PROVE  Local(t)' /\ NotWaitedFor(t)' /\ Edge(t)' /\ Gathered(t)' /\ Served(t)'
  <2>1. Local(t)' /\ NotWaitedFor(t)'
    BY DEF IInv, Local, NotWaitedFor, KindOf
  <2>2. Edge(t)'
    BY DEF IInv, Edge, Part, Ahead, Target, Due, Arrived, Withdrawn, Going, Coming
  <2>3. Gathered(t)' /\ Served(t)'
    BY DEF IInv, Gathered, Served, KindOf, Reached, Target
  <2> QED
    BY <2>1, <2>2, <2>3
<1> QED
  BY <1>1, <1>2 DEF IInv

LEMMA IInvStep == IInv /\ [Next]_vars => IInv'
<1> SUFFICES ASSUME IInv, [Next]_vars PROVE IInv'
  OBVIOUS
<1>1. ASSUME NEW c \in 1 .. NumThreads, NEW p \in Plans, StartTask(c, p) PROVE IInv'
  BY <1>1, StartTaskInv
<1>2. ASSUME NEW t \in Thread, Step(t) PROVE IInv'
  BY <1>2, EnterInv, CollectInv, ExposeInv, SignalCollectingInv, AwaitBroadcastInv,
     TransformInv, BroadcastInv, SignalBroadcastingInv DEF Step
<1>3. CASE UNCHANGED vars
  BY <1>3, StutterInv
<1> QED
  BY <1>1, <1>2, <1>3 DEF Next

\* Every edge of the wake-up tree is in one of the states the invariant lists, and every
\* thread holds what has been gathered in its block.
THEOREM Invariance == Spec => []IInv
  BY IInvInit, IInvStep, PTL DEF Spec

\* set_and_notify finds its flag lowered, and a result is there before anybody hands it
\* on or returns it.
LEMMA SyncAssertionsFollow == IInv => SyncAssertionsHold
<1>1. ASSUME IInv, NEW t \in Thread
      PROVE  /\ at[t] = "signalCollecting" => collecting[t] = 0
             /\ at[t] = "signalBroadcasting" => broadcasting[Target(t)] = 0
             /\ at[t] \in {"broadcast", "work"} /\ op[t] > 0
                   /\ KindOf(t) = "reduce_transform" => result[t] # << >>
  <2>1. Types /\ width \in 0 .. NumThreads /\ op[t] \in Nat
    BY <1>1 DEF IInv, Types
  <2>2. ASSUME at[t] = "signalCollecting" PROVE collecting[t] = 0
    <3>1. t # 0 /\ t < width
      BY <1>1, <2>2 DEF IInv, Local, NotWaitedFor
    <3>2. PICK n \in Nat : Due(t, n) \/ Arrived(t, n) \/ Withdrawn(t, n)
      BY <1>1, <3>1, SeenFromAbove
    <3> QED
      BY <2>2, <3>2 DEF Due, Going, Coming, Arrived, Withdrawn
  <2>3. ASSUME at[t] = "signalBroadcasting" PROVE broadcasting[Target(t)] = 0
    <3>1. /\ left[t] # << >> /\ Ahead(t) \subseteq Part(t)
          /\ \A u \in Ahead(t) : u = Target(t) => Withdrawn(u, op[t])
      BY <1>1, <2>3 DEF IInv, Edge
    <3>2. Target(t) \in Ahead(t)
      BY <1>1, <3>1, LoopFacts
    <3> QED
      BY <3>1, <3>2 DEF Withdrawn
  <2>4. ASSUME at[t] \in {"broadcast", "work"}, op[t] > 0, KindOf(t) = "reduce_transform"
        PROVE  result[t] # << >>
    <3>1. result[t] = Interval(0, width)
      BY <1>1, <2>4 DEF IInv, Served
    <3>2. width > 0
      BY <1>1, <2>1, <2>4, Threads DEF IInv, Local, Thread
    <3>3. Len(Interval(0, width)) = width - 0
      BY <2>1, IntervalSeq
    <3>4. Len(Interval(0, width)) # 0
      BY <2>1, <3>2, <3>3
    <3> QED
      BY <3>1, <3>4
  <2> QED
    BY <2>2, <2>3, <2>4
<1> QED
  BY <1>1 DEF SyncAssertionsHold

\* The assertion of set_and_notify and what std::optional::value expects hold.
THEOREM SyncAssertions == Spec => []SyncAssertionsHold
  BY SyncAssertionsFollow, Invariance, PTL

\* Nobody reads or writes through a pointer to a synchronizer whose owner has left the
\* operation, or is in another one.
LEMMA PointersFollow == IInv => SyncDataLive
<1>1. ASSUME IInv, NEW t \in Thread, KindOf(t) # "synchronize",
             \/ at[t] = "collect" /\ left[t] # << >> /\ collecting[Target(t)] = 1
             \/ at[t] = "broadcast"
      PROVE  /\ syncData[Target(t)] = op[t] /\ op[Target(t)] = op[t]
             /\ at[Target(t)] = "awaitBroadcast"
  <2>1. left[t] # << >> /\ Ahead(t) \subseteq Part(t)
    BY <1>1 DEF IInv, Edge
  <2>2. Target(t) \in Ahead(t) /\ Target(t) \in Thread
    BY <1>1, <2>1, LoopFacts
  <2>3. PICK u \in Thread : u = Target(t)
    BY <2>2
  <2>4. Arrived(u, op[t])
    <3>1. CASE at[t] = "collect"
      <4>1. Due(u, op[t]) /\ collecting[u] = 1
        BY <1>1, <2>2, <2>3, <3>1 DEF IInv, Edge
      <4> QED
        BY <4>1 DEF Due, Going, Coming
    <3>2. CASE at[t] = "broadcast"
      BY <1>1, <2>2, <2>3, <3>2 DEF IInv, Edge
    <3> QED
      BY <1>1, <3>1, <3>2
  <2>5. at[u] = "awaitBroadcast" /\ op[u] = op[t] /\ KindOf(u) = KindOf(t)
    BY <2>4 DEF Arrived, KindOf
  <2>6. syncData[u] = op[u]
    BY <1>1, <2>5 DEF IInv, Local
  <2> QED
    BY <2>3, <2>5, <2>6
<1> QED
  BY <1>1 DEF SyncDataLive

\* A thread that follows another one's syncData_ finds what it expects.
THEOREM PointersAreLive == Spec => []SyncDataLive
  BY PointersFollow, Invariance, PTL

\* A thread that is past a reduction has the contributions of all participants.
LEMMA ReductionsFollow == IInv => EverybodyGetsTheReduction
<1> SUFFICES ASSUME IInv, NEW t \in 0 .. width-1, at[t] = "work", op[t] > 0
             PROVE  LET inOrder == [k \in 1 .. width |-> k - 1]
                    IN  /\ KindOf(t) = "reduce" => value[t] = inOrder
                        /\ KindOf(t) = "reduce_transform" => result[t] = inOrder
  BY DEF EverybodyGetsTheReduction
<1>1. width \in 0 .. NumThreads
  BY DEF IInv, Types
<1>2. t \in Thread
  BY <1>1, Threads DEF Thread
<1>3. Interval(0, width) = [k \in 1 .. width |-> k - 1]
  <2>1. width - 0 = width /\ \A k \in 1 .. width : 0 + k - 1 = k - 1
    BY <1>1, Threads
  <2> QED
    BY <2>1 DEF Interval
<1> QED
  BY <1>2, <1>3 DEF IInv, Served

\* Everybody leaves a reduction with the contributions of all participants, in the order
\* of their indices.
THEOREM ReductionsAreComplete == Spec => []EverybodyGetsTheReduction
  BY ReductionsFollow, Invariance, PTL

\* The next task finds all signals lowered and no pointer to an old synchronizer.
THEOREM NothingIsPending == Spec => []NothingPending
<1>1. IInv => NothingPending
  BY Quiet DEF NothingPending
<1> QED
  BY <1>1, Invariance, PTL

(***************************************************************************)
(* The threads of a task meet in the operations, and only leave together.  *)
(***************************************************************************)

\* A thread that is in an operation stays there, or leaves it once everybody has come.
LEMMA InsideOrLeaving ==
    ASSUME IInv, IInv', NEW t \in Thread, NEW l \in Label, at[t] # "work",
           UNCHANGED <<job, op>>, at' = [at EXCEPT ![t] = l]
    PROVE  (t \in Meeting!Participant /\ Meeting!Leave(t)) \/ UNCHANGED Meeting!vars
<1> DEFINE L == [v \in Thread |-> IF at[v] = "work" THEN op[v] ELSE op[v] - 1]
<1>1. Types /\ width \in 0 .. NumThreads /\ op[t] \in Nat /\ at \in [Thread -> Label]
  BY DEF IInv, Types
<1>2. width' = width /\ Len(plan)' = Len(plan) /\ op' = op /\ plan' = plan
  BY DEF job
<1>3. t < width /\ t \in 0 .. width-1
  BY <1>1, Threads DEF IInv, Local, Thread
<1>4. CASE l = "work"
  <2>1. Served(t)' /\ at'[t] = "work" /\ op[t] > 0
    BY <1>1, <1>4 DEF IInv, Local
  <2>2. \A v \in 0 .. width-1 : op[v] >= op[t]
    BY <1>2, <2>1 DEF Served
  <2>3. L[t] = op[t] - 1
    OBVIOUS
  <2>4. L' = [v \in Thread |-> IF at'[v] = "work" THEN op[v] ELSE op[v] - 1]
    BY <1>2
  <2>5. L' = [L EXCEPT ![t] = op[t]]
    <3>1. \A v \in Thread \ {t} : at'[v] = at[v]
      BY <1>1
    <3>2. /\ L'[t] = op[t] /\ \A v \in Thread \ {t} : L'[v] = L[v]
      BY <2>1, <2>4, <3>1
    <3> QED
      BY <2>4, <3>2
  <2> HIDE DEF L
  <2>6. Meeting!Leave(t)
    <3>1. L[t] < op[t]
      BY <1>1, <2>3
    <3>2. Meeting!Everybody(op, op[t])
      BY <2>2 DEF Meeting!Everybody, Meeting!Participant
    <3> QED
      BY <1>2, <2>5, <3>1, <3>2 DEF Meeting!Leave, L
  <2> QED
    BY <1>3, <2>6 DEF Meeting!Participant
<1>5. CASE l # "work"
  <2>1. \A v \in Thread : at'[v] = "work" <=> at[v] = "work"
    BY <1>1, <1>5
  <2>2. L' = L
    BY <1>2, <2>1
  <2> QED
    BY <1>2, <2>2 DEF Meeting!vars
<1> QED
  BY <1>4, <1>5

LEMMA MeetingStep == IInv /\ IInv' /\ [Next]_vars => [Meeting!Next]_(Meeting!vars)
<1> SUFFICES ASSUME IInv, IInv', [Next]_vars PROVE [Meeting!Next]_(Meeting!vars)
  OBVIOUS
<1> DEFINE L == [v \in Thread |-> IF at[v] = "work" THEN op[v] ELSE op[v] - 1]
<1>1. Types /\ width \in 0 .. NumThreads /\ at \in [Thread -> Label] /\ op \in [Thread -> Nat]
  BY DEF IInv, Types
<1>2. ASSUME NEW c \in 1 .. NumThreads, NEW p \in Plans, StartTask(c, p)
      PROVE  Meeting!Next
  <2>1. \A t \in Thread : at[t] = "work"
    BY <1>2, Quiet DEF StartTask
  <2>2. /\ width' = c /\ plan' = p /\ at' = at /\ op' = [t \in Thread |-> 0]
        /\ \A t \in 0 .. width-1 : op[t] = Len(plan)
    BY <1>2 DEF StartTask, Finished
  <2>3. L' = [t \in Thread |-> 0]
    BY <2>1, <2>2
  <2>4. \A t \in 0 .. width-1 : L[t] >= Len(plan)
    <3>1. \A t \in 0 .. width-1 : t \in Thread
      BY <1>1, Threads DEF Thread
    <3>2. Len(plan) \in Nat
      BY <1>1 DEF Types
    <3> QED
      BY <2>1, <2>2, <3>1, <3>2
  <2>5. Len(plan') \in Nat
    BY DEF IInv, Types
  <2> HIDE DEF L
  <2>6. Meeting!Everybody(L, Len(plan))
    BY <2>4 DEF Meeting!Everybody, Meeting!Participant
  <2>7. Meeting!Start
    BY <2>2, <2>3, <2>5, <2>6 DEF Meeting!Start, Meeting!Thread, Thread, L
  <2> QED
    BY <2>7 DEF Meeting!Next
<1>3. ASSUME NEW t \in Thread, Enter(t)
      PROVE  Meeting!Next
  <2>1. /\ t < width /\ at[t] = "work" /\ op[t] < Len(plan)
        /\ op' = [op EXCEPT ![t] = op[t] + 1]
        /\ at' = [at EXCEPT ![t] = "collect"]
        /\ width' = width /\ plan' = plan
    BY <1>3 DEF Enter, job
  <2>2. L' = L
    <3>1. L' = [v \in Thread |-> IF at'[v] = "work" THEN op'[v] ELSE op'[v] - 1]
      OBVIOUS
    <3>2. op'[t] - 1 = op[t] /\ at'[t] # "work"
      BY <1>1, <2>1
    <3>3. \A v \in Thread \ {t} : op'[v] = op[v] /\ at'[v] = at[v]
      BY <1>1, <2>1
    <3> QED
      BY <2>1, <3>1, <3>2, <3>3
  <2>3. L[t] = op[t]
    BY <2>1
  <2> HIDE DEF L
  <2>4. Meeting!Enter(t)
    BY <2>1, <2>2, <2>3 DEF Meeting!Enter, L
  <2>5. t \in Meeting!Participant
    BY <1>1, <2>1, Threads DEF Meeting!Participant, Thread
  <2> QED
    BY <2>4, <2>5 DEF Meeting!Next
<1>4. ASSUME NEW t \in Thread, Step(t), ~Enter(t)
      PROVE  [Meeting!Next]_(Meeting!vars)
  <2>1. \E l \in Label : at[t] # "work" /\ UNCHANGED <<job, op>> /\ at' = [at EXCEPT ![t] = l]
    <3>1. CASE Collect(t)
      <4>1. at' = [at EXCEPT ![t] = "collect"]
        BY <1>1, <3>1 DEF Collect
      <4> QED
        BY <3>1, <4>1 DEF Collect, Label
    <3>2. CASE Expose(t)
      BY <3>2 DEF Expose, Label
    <3>3. CASE SignalCollecting(t)
      BY <3>3 DEF SignalCollecting, Label
    <3>4. CASE AwaitBroadcast(t)
      BY <3>4 DEF AwaitBroadcast, Visit, Label
    <3>5. CASE Transform(t)
      BY <3>5 DEF Transform, Visit, Label
    <3>6. CASE Broadcast(t)
      BY <3>6 DEF Broadcast, Label
    <3>7. CASE SignalBroadcasting(t)
      BY <3>7 DEF SignalBroadcasting, Visit, Label
    <3> QED
      BY <1>4, <3>1, <3>2, <3>3, <3>4, <3>5, <3>6, <3>7 DEF Step
  <2>2. (t \in Meeting!Participant /\ Meeting!Leave(t)) \/ UNCHANGED Meeting!vars
    BY <2>1, InsideOrLeaving
  <2> QED
    BY <2>2 DEF Meeting!Next
<1>5. CASE UNCHANGED vars
  BY <1>5 DEF vars, Meeting!vars
<1> QED
  BY <1>2, <1>3, <1>4, <1>5 DEF Next

\* The synchronization implements the promise that nobody leaves an operation before
\* everybody has come: every behaviour starts like one of AllReduce, and every step is
\* one of its steps or changes nothing there.
THEOREM MeetingIsSafe == Spec => Meeting!Init /\ [][Meeting!Next]_(Meeting!vars)
<1>1. Init => Meeting!Init
  <2> SUFFICES ASSUME Init PROVE Meeting!Init
    OBVIOUS
  <2>1. Len(plan) = 0 /\ width = 0
    BY DEF Init
  <2>2. op = [t \in Thread |-> 0] /\ \A t \in Thread : at[t] = "work"
    BY DEF Init
  <2>3. [v \in Thread |-> IF at[v] = "work" THEN op[v] ELSE op[v] - 1] = [t \in Thread |-> 0]
    BY <2>2
  <2> QED
    BY <2>1, <2>2, <2>3 DEF Meeting!Init, Meeting!Thread, Thread
<1> QED
  BY <1>1, Invariance, MeetingStep, PTL DEF Spec

(***************************************************************************)
(* Between two tasks, when the squad has no task and so no width: what a   *)
(* squad that runs other things between two tasks has to know.             *)
(***************************************************************************)

AtRest == Quiescent /\ SyncAssertionsHold

LEMMA AtRestInit == Init => AtRest
<1> SUFFICES ASSUME Init PROVE AtRest
  OBVIOUS
<1>1. Types /\ SyncAssertionsHold
  BY IInvInit, SyncAssertionsFollow DEF IInv
<1>2. ASSUME NEW t \in Thread
      PROVE  at[t] = "work" /\ collecting[t] = 0 /\ syncData[t] = 0 /\ IsInjective(left[t])
  BY IInvInit DEF Init, IInv, Local
<1> QED
  BY <1>1, <1>2 DEF AtRest, Quiescent

LEMMA AtRestWhenFinished ==
    ASSUME IInv, \A t \in 0 .. width-1 : Finished(t) PROVE AtRest
  BY QuiescentWhenFinished, SyncAssertionsFollow DEF AtRest

LEMMA AtRestStays ==
    ASSUME AtRest, width' \in 0 .. NumThreads,
           UNCHANGED <<plan, at, left, op, collecting, broadcasting, syncData, value, result>>
    PROVE  AtRest'
<1>1. Types'
  BY DEF AtRest, Quiescent, Types
<1>2. SyncAssertionsHold'
  BY DEF AtRest, SyncAssertionsHold, KindOf, Target
<1> QED
  BY <1>1, <1>2 DEF AtRest, Quiescent

LEMMA NoStepAtRest ==
    ASSUME AtRest, width = 0, NEW t \in Thread, Step(t) PROVE FALSE
<1>1. at[t] = "work" /\ ~(t < width)
  BY Threads DEF AtRest, Quiescent
<1> QED
  BY <1>1 DEF Step, Enter, Collect, Expose, SignalCollecting, AwaitBroadcast, Transform,
              Broadcast, SignalBroadcasting

LEMMA PointersAtRest == AtRest => SyncDataLive
  BY DEF AtRest, Quiescent, SyncDataLive

\* A thread that has performed all its operations stays where it is.
LEMMA FinishedStays ==
    ASSUME IInv, NEW t \in Thread, Step(t), NEW x \in Thread, Finished(x)
    PROVE  Finished(x)'
<1>1. /\ at \in [Thread -> Label] /\ op \in [Thread -> Nat] /\ plan' = plan
      /\ Len(plan) \in Nat
  <2>1. plan' = plan
    BY DEF Step, Enter, Collect, Expose, SignalCollecting, AwaitBroadcast, Transform,
           Broadcast, SignalBroadcasting, job
  <2> QED
    BY <2>1 DEF IInv, Types
<1>2. t # x
  <2>1. at[t] = "work" => Enter(t)
    BY DEF Step, Collect, Expose, SignalCollecting, AwaitBroadcast, Transform, Broadcast,
           SignalBroadcasting
  <2>2. Enter(t) => op[t] < Len(plan)
    BY DEF Enter
  <2>3. op[t] \in Nat
    BY <1>1
  <2> QED
    BY <1>1, <2>1, <2>2, <2>3 DEF Finished
<1>3. at'[x] = at[x] /\ op'[x] = op[x]
  BY <1>1, <1>2
     DEF Step, Enter, Collect, Expose, SignalCollecting, AwaitBroadcast, Transform,
         Broadcast, SignalBroadcasting, Visit
<1> QED
  BY <1>1, <1>3 DEF Finished

==============================================================================
