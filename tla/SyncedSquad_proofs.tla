------------------------- MODULE SyncedSquad_proofs -------------------------
(***************************************************************************)
(* Proofs about the fork-join engine running tasks that synchronize, for   *)
(* any number of threads, any wake-up tree that satisfies the assumptions  *)
(* of ThreadSquadInv, and any sequence of tasks.  They are put together    *)
(* from what is proved of the engine and of the synchronization alone.     *)
(***************************************************************************)
EXTENDS SyncedSquad, ThreadSquad_proofs

\* What is proved of the synchronization, said of the squad's task.
S == INSTANCE SquadSync_proofs WITH width <- task.concurrency

\* The tree that the engine walks through is one the synchronization can use.
LEMMA SyncAssumptions == S!TreeAssumption /\ S!PlansAssumption
<1>1. S!Thread = Thread /\ S!Kind = Sync!Kind
  BY DEF S!Thread, Thread, S!Kind, Sync!Kind
<1>2. \A f : S!Range(f) = Range(f) /\ S!IsInjective(f) = IsInjective(f)
  BY DEF S!Range, Range, S!IsInjective, IsInjective
<1>3. \A t, list, c : S!Covers(BlockSize, t, list, c) = Covers(BlockSize, t, list, c)
  BY DEF S!Covers, Covers, S!Chained, Chained, S!BlockEnd, BlockEnd
<1>4. S!TreeAssumption
  <2>1. /\ ToSub   \in [S!Thread -> [0 .. NumThreads -> Seq(S!Thread)]]
        /\ FromSub \in [S!Thread -> [0 .. NumThreads -> Seq(S!Thread)]]
    BY <1>1, BoundsAssumption
  <2>2. ASSUME NEW t \in S!Thread, NEW c \in 0 .. NumThreads
        PROVE  /\ S!IsInjective(ToSub[t][c]) /\ S!IsInjective(FromSub[t][c])
               /\ S!Range(FromSub[t][c]) = S!Range(ToSub[t][c])
               /\ S!Range(ToSub[t][c]) = { u \in S!Range(ToSub[t][NumThreads]) : u < c }
               /\ \A u \in S!Range(ToSub[t][c]) : t < u
    <3>1. t \in Thread
      BY <1>1
    <3>2. /\ S!Range(ToSub[t][c]) = Range(ToSub[t][c])
          /\ S!Range(FromSub[t][c]) = Range(FromSub[t][c])
          /\ S!Range(ToSub[t][NumThreads]) = Range(ToSub[t][NumThreads])
      BY <1>2
    <3> QED
      BY <1>2, <3>1, <3>2, TreeAssumption
  <2>3. \A u \in S!Thread \ {0} : \E t \in S!Thread : u \in S!Range(ToSub[t][NumThreads])
    BY <1>1, <1>2, TreeAssumption
  <2>4. \A t1, t2 \in S!Thread :
           t1 # t2 => S!Range(ToSub[t1][NumThreads]) \cap S!Range(ToSub[t2][NumThreads]) = {}
    BY <1>1, <1>2, TreeAssumption
  <2>5. /\ BlockSize \in [S!Thread -> 1 .. NumThreads] /\ BlockSize[0] = NumThreads
        /\ \A t \in S!Thread : \A c \in t+1 .. NumThreads :
               S!Covers(BlockSize, t, FromSub[t][c], c)
    BY <1>1, <1>3, BlockAssumption
  <2> QED
    BY <2>1, <2>2, <2>3, <2>4, <2>5 DEF S!TreeAssumption
<1>5. S!PlansAssumption
  BY <1>1, PlanAssumption, BoundsAssumption DEF S!PlansAssumption
<1> QED
  BY <1>4, <1>5

(***************************************************************************)
(* The engine cannot tell that its tasks synchronize.                      *)
(***************************************************************************)

LEMMA EngineNext == [SyncedNext]_allVars => [Next]_vars
<1> SUFFICES ASSUME [SyncedNext]_allVars PROVE [Next]_vars
  OBVIOUS
<1>1. ASSUME NEW c \in 1 .. NumThreads, NEW j \in BOOLEAN, Run(c, j) PROVE Next
  <2>1. c \in 0 .. NumThreads
    BY BoundsAssumption
  <2> QED
    BY <1>1, <2>1 DEF Next, Call
<1>2. ASSUME NEW j \in BOOLEAN, Run(0, j) PROVE Next
  <2>1. 0 \in 0 .. NumThreads
    BY BoundsAssumption
  <2> QED
    BY <1>2, <2>1 DEF Next, Call
<1>3. ASSUME NEW a \in Agent, SyncedStep(a) PROVE [Next]_vars
  BY <1>3 DEF SyncedStep, EngineStep, SyncStep, Next
<1>4. CASE UNCHANGED allVars
  BY <1>4 DEF allVars
<1> QED
  BY <1>1, <1>2, <1>3, <1>4 DEF SyncedNext, SyncedCall, Next, Call

\* A squad whose tasks synchronize takes the steps of the engine and no others, whatever
\* its threads have to wait for on the way: all that is proved of the engine holds.
THEOREM EngineIsUnaffected == SyncedSpec => Init /\ [][Next]_vars
  BY EngineNext, PTL DEF SyncedSpec, SyncedInit

(***************************************************************************)
(* The inductive invariant.                                                *)
(***************************************************************************)

\* Without participants the synchronization is at rest.  Whoever has left a result in a
\* slot, his own or one it was merged into, has returned from execute: so when the
\* results of all participants have arrived, all of them are through.
SyncedInv ==
    /\ IInv /\ DataInv
    /\ IF task.concurrency = 0 THEN S!AtRest ELSE S!IInv
    /\ \A t \in Thread : \A x \in Range(slot[t]) : S!Finished(x)

\* The synchronization as SyncedSquad sees it is the one that was proved about.
LEMMA SameSync ==
    /\ Sync!Init => S!Init
    /\ \A t \in Thread : t \in S!Thread
    /\ \A t \in Thread : Sync!Step(t) => S!Step(t)
    /\ \A c \in 1 .. NumThreads, p \in Plans : Sync!StartTask(c, p) => S!StartTask(c, p)
    /\ \A t : Sync!Finished(t) <=> S!Finished(t)
    /\ S!SyncAssertionsHold => Sync!SyncAssertionsHold
    /\ S!SyncDataLive => Sync!SyncDataLive
    /\ S!EverybodyGetsTheReduction => Sync!EverybodyGetsTheReduction
<1>1. S!Thread = Thread /\ Sync!Thread = Thread
  BY DEF S!Thread, Sync!Thread, Thread
<1>2. Sync!Init => S!Init
  BY <1>1 DEF Sync!Init, S!Init
<1>3. ASSUME NEW t \in Thread, Sync!Step(t) PROVE S!Step(t)
  <2> USE DEF Sync!job, S!job, Sync!signals, S!signals, Sync!data, S!data, Sync!Target,
              S!Target, Sync!KindOf, S!KindOf, Sync!Visit, S!Visit
  <2>1. Sync!Enter(t) => S!Enter(t)
    BY DEF Sync!Enter, S!Enter
  <2>2. Sync!Collect(t) => S!Collect(t)
    BY DEF Sync!Collect, S!Collect
  <2>3. Sync!Expose(t) => S!Expose(t)
    BY DEF Sync!Expose, S!Expose
  <2>4. Sync!SignalCollecting(t) => S!SignalCollecting(t)
    BY DEF Sync!SignalCollecting, S!SignalCollecting
  <2>5. Sync!AwaitBroadcast(t) => S!AwaitBroadcast(t)
    BY DEF Sync!AwaitBroadcast, S!AwaitBroadcast
  <2>6. Sync!Transform(t) => S!Transform(t)
    BY DEF Sync!Transform, S!Transform
  <2>7. Sync!Broadcast(t) => S!Broadcast(t)
    BY DEF Sync!Broadcast, S!Broadcast
  <2>8. Sync!SignalBroadcasting(t) => S!SignalBroadcasting(t)
    BY DEF Sync!SignalBroadcasting, S!SignalBroadcasting
  <2> QED
    BY <1>3, <2>1, <2>2, <2>3, <2>4, <2>5, <2>6, <2>7, <2>8 DEF Sync!Step, S!Step
<1>4. ASSUME NEW t PROVE Sync!Finished(t) <=> S!Finished(t)
  BY DEF Sync!Finished, S!Finished
<1>5. ASSUME NEW c \in 1 .. NumThreads, NEW p \in Plans, Sync!StartTask(c, p)
      PROVE  S!StartTask(c, p)
  BY <1>1, <1>4, <1>5 DEF Sync!StartTask, S!StartTask, Sync!signals, S!signals
<1>6. S!SyncAssertionsHold => Sync!SyncAssertionsHold
  BY <1>1 DEF S!SyncAssertionsHold, Sync!SyncAssertionsHold, Sync!Target, S!Target,
              Sync!KindOf, S!KindOf
<1>7. S!SyncDataLive => Sync!SyncDataLive
  BY <1>1 DEF S!SyncDataLive, Sync!SyncDataLive, Sync!Target, S!Target, Sync!KindOf, S!KindOf
<1>8. S!EverybodyGetsTheReduction => Sync!EverybodyGetsTheReduction
  BY DEF S!EverybodyGetsTheReduction, Sync!EverybodyGetsTheReduction, Sync!KindOf, S!KindOf
<1> QED
  BY <1>1, <1>2, <1>3, <1>4, <1>5, <1>6, <1>7, <1>8

\* Results only move from slot to slot, except for the one of a thread that has executed
\* the task.
LEMMA SlotStep ==
    ASSUME TypeOK, NEW a \in Agent, Step(a), NEW t \in Thread, NEW x \in Range(slot'[t])
    PROVE  \/ \E u \in Thread : x \in Range(slot[u])
           \/ a \in Thread /\ pc[a] = "run" /\ a < task.concurrency /\ x = a
<1>1. slot \in [Thread -> Seq(Thread)] /\ << >> \in Seq(Thread)
  BY DEF TypeOK
<1>2. CASE slot' = slot
  BY <1>2
<1>3. CASE a \in Thread /\ TaskRun(a) /\ slot' # slot
  <2>1. /\ pc[a] = "run" /\ a < task.concurrency
        /\ slot' = [slot EXCEPT ![a] = Append(slot[a], a)]
    BY <1>3 DEF TaskRun, Transformed
  <2>2. CASE t # a
    BY <1>1, <2>1, <2>2
  <2>3. CASE t = a
    <3>1. slot[a] \in Seq(Thread) /\ a \in Thread
      BY <1>1, <1>3
    <3>2. Append(slot[a], a) = slot[a] \o <<a>> /\ <<a>> \in Seq(Thread)
      BY <3>1
    <3>3. Range(slot'[t]) = Range(slot[a]) \cup Range(<<a>>)
      <4>1. slot'[t] = slot[a] \o <<a>>
        BY <1>1, <2>1, <2>3, <3>1, <3>2
      <4>2. Range(slot[a] \o <<a>>) = Range(slot[a]) \cup Range(<<a>>)
        <5>1. ASSUME NEW s \in Seq(Thread), NEW r \in Seq(Thread)
              PROVE  Range(s \o r) = Range(s) \cup Range(r)
          BY RangeConcat
        <5> QED
          BY <3>1, <3>2, <5>1, Zenon
      <4> QED
        BY <4>1, <4>2
    <3>4. Range(<<a>>) = {a}
      BY DEF Range
    <3> QED
      BY <1>3, <2>1, <3>3, <3>4
  <2> QED
    BY <2>2, <2>3
<1>4. CASE a \in Thread /\ WaitSub(a) /\ slot' # slot
  <2>1. PICK u \in Thread : slot' = [slot EXCEPT ![a] = slot[a] \o slot[u], ![u] = << >>]
    BY <1>4, TypeOKTarget, Agents DEF WaitSub, Merged, LoopLabel
  <2>2. CASE t = u
    <3>1. slot'[t] = << >>
      BY <1>1, <2>1, <2>2
    <3>2. Range(<< >>) = {}
      BY DEF Range
    <3> QED
      BY <3>1, <3>2
  <2>3. CASE t # u /\ t = a
    <3>1. Range(slot'[t]) = Range(slot[a]) \cup Range(slot[u])
      <4>1. slot'[t] = slot[a] \o slot[u]
        BY <1>1, <1>4, <2>1, <2>3
      <4>2. slot[a] \in Seq(Thread) /\ slot[u] \in Seq(Thread)
        BY <1>1, <1>4
      <4>3. Range(slot[a] \o slot[u]) = Range(slot[a]) \cup Range(slot[u])
        BY <4>2, RangeConcat
      <4> QED
        BY <4>1, <4>3
    <3> QED
      BY <1>4, <3>1
  <2>4. CASE t # u /\ t # a
    BY <1>1, <2>1, <2>4
  <2> QED
    BY <2>2, <2>3, <2>4
<1>5. \/ slot' = slot
      \/ a \in Thread /\ TaskRun(a)
      \/ a \in Thread /\ WaitSub(a)
  BY DEF Step, Worker, NotifyReset, NotifySet, Fork, Join, TaskWait, SignalReset,
         SignalSet, JoinBegin, MainWait, Release, shared
<1> QED
  BY <1>2, <1>3, <1>4, <1>5

\* What a step does to the engine's own invariants.
LEMMA EngineInvStep ==
    ASSUME SyncedInv, [SyncedNext]_allVars
    PROVE  /\ IInv' /\ DataInv' /\ TypeOK /\ TypeOK'
           /\ task.concurrency \in 0 .. NumThreads /\ task'.concurrency \in 0 .. NumThreads
<1>1. IInv /\ DataInv /\ [Next]_vars
  BY EngineNext DEF SyncedInv
<1>2. IInv' /\ DataInv'
  BY <1>1, IInvStep, DataInvStep
<1>3. TypeOK /\ TypeOK'
  BY <1>1, <1>2 DEF IInv
<1> QED
  BY <1>2, <1>3 DEF TypeOK, Task

\* A task with participants starts: the synchronization is at rest, and the slots are
\* emptied.
LEMMA CallInv ==
    ASSUME SyncedInv, [SyncedNext]_allVars, NEW c \in 1 .. NumThreads, NEW j \in BOOLEAN,
           NEW p \in Plans, Run(c, j), Sync!StartTask(c, p)
    PROVE  SyncedInv'
<1>1. IInv' /\ DataInv'
  BY EngineInvStep
<1>2. c # 0 /\ NumThreads \in Nat
  BY BoundsAssumption
<1>3. /\ pc[Main] = "idle"
      /\ task' = [id |-> runs + 1, concurrency |-> c, join |-> j]
      /\ slot' = [t \in Thread |-> << >>]
  BY <1>2 DEF Run, Submit
<1>4. task.concurrency = 0
  BY <1>3 DEF SyncedInv, IInv, TaskHeld, NoTask
<1>5. S!AtRest /\ S!StartTask(c, p)
  BY <1>4, SameSync DEF SyncedInv
<1>6. S!IInv'
  BY <1>5, S!StartTaskFirst, SyncAssumptions DEF S!AtRest
<1>7. task'.concurrency # 0
  BY <1>2, <1>3
<1>8. ASSUME NEW t \in Thread PROVE Range(slot'[t]) = {}
  BY <1>3 DEF Range
<1> QED
  BY <1>1, <1>6, <1>7, <1>8 DEF SyncedInv

\* Steps that leave the synchronization alone, and the results where they are, or remove
\* them.
LEMMA SyncKept ==
    ASSUME SyncedInv, [SyncedNext]_allVars, UNCHANGED syncVars,
           task.concurrency = task'.concurrency \/ (S!AtRest /\ task'.concurrency = 0),
           \A t \in Thread : \A x \in Range(slot'[t]) : S!Finished(x)
    PROVE  SyncedInv'
<1>1. IInv' /\ DataInv' /\ task'.concurrency \in 0 .. NumThreads
  BY EngineInvStep
<1>2. UNCHANGED <<plan, at, left, op, collecting, broadcasting, syncData, value, result>>
  BY DEF syncVars
<1>3. ASSUME S!AtRest PROVE S!AtRest'
  BY <1>1, <1>2, <1>3, S!AtRestStays, SyncAssumptions
<1>4. ASSUME S!IInv, task.concurrency = task'.concurrency PROVE S!IInv'
  <2>1. UNCHANGED S!vars
    BY <1>2, <1>4 DEF S!vars
  <2> QED
    BY <1>4, <2>1, S!StutterInv, SyncAssumptions
<1>5. \A x : S!Finished(x) => S!Finished(x)'
  BY <1>2 DEF S!Finished
<1> QED
  BY <1>1, <1>3, <1>4, <1>5 DEF SyncedInv

\* A call without participants: the squad of an rvalue is freed.
LEMMA EmptyCallInv ==
    ASSUME SyncedInv, [SyncedNext]_allVars, NEW j \in BOOLEAN, NEW id,
           Submit(0, j, id), UNCHANGED syncVars
    PROVE  SyncedInv'
<1>1. pc[Main] = "idle" /\ task.concurrency = 0
  BY DEF Submit, SyncedInv, IInv, TaskHeld, NoTask
<1>2. S!AtRest
  BY <1>1 DEF SyncedInv
<1>3. \/ task' = task /\ slot' = slot
      \/ task' = [id |-> id, concurrency |-> 0, join |-> j]
         /\ slot' = [t \in Thread |-> << >>]
  BY DEF Submit
<1>4. task'.concurrency = 0
  BY <1>1, <1>3
<1>5. ASSUME NEW t \in Thread, NEW x \in Range(slot'[t]) PROVE S!Finished(x)
  <2>1. CASE slot' = slot
    BY <1>5, <2>1 DEF SyncedInv
  <2>2. CASE slot' = [u \in Thread |-> << >>]
    <3>1. Range(slot'[t]) = {}
      BY <2>2 DEF Range
    <3> QED
      BY <1>5, <3>1
  <2> QED
    BY <1>3, <2>1, <2>2
<1> QED
  BY <1>2, <1>4, <1>5, SyncKept

\* The owner releases a task when the results of all participants have arrived, and so
\* all of them have performed their operations.
LEMMA AllFinished ==
    ASSUME SyncedInv, pc[Main] = "release", NEW t \in 0 .. task.concurrency-1
    PROVE  S!Finished(t)
<1>1. slot[0] = Interval(0, task.concurrency) /\ 0 \in Thread
  BY ResultsAtRelease, TreeFacts DEF SyncedInv
<1>2. task.concurrency \in Nat
  BY BoundsAssumption DEF SyncedInv, IInv, TypeOK, Task
<1>3. t \in Range(slot[0])
  <2>1. PICK c \in Nat : c = task.concurrency
    BY <1>2
  <2>2. t + 1 \in 1 .. c /\ t = 0 + (t + 1) - 1
    BY <2>1
  <2>3. DOMAIN Interval(0, c) = 1 .. c /\ Interval(0, c)[t + 1] = t
    BY <2>1, <2>2 DEF Interval
  <2> QED
    BY <1>1, <2>1, <2>2, <2>3 DEF Range
<1> QED
  BY <1>1, <1>3 DEF SyncedInv

LEMMA RestAtRelease == ASSUME SyncedInv, pc[Main] = "release" PROVE S!AtRest
<1>1. CASE task.concurrency = 0
  BY <1>1 DEF SyncedInv
<1>2. CASE task.concurrency # 0
  <2>1. S!IInv
    BY <1>2 DEF SyncedInv
  <2>2. \A t \in 0 .. task.concurrency-1 : S!Finished(t)
    BY AllFinished
  <2> QED
    BY <2>1, <2>2, S!AtRestWhenFinished, SyncAssumptions
<1> QED
  BY <1>1, <1>2

LEMMA EngineStepInv ==
    ASSUME SyncedInv, [SyncedNext]_allVars, NEW a \in Agent, EngineStep(a)
    PROVE  SyncedInv'
<1>1. TypeOK /\ Step(a) /\ UNCHANGED syncVars
  BY DEF EngineStep, SyncedInv, IInv
<1>2. \/ task' = task
      \/ pc[Main] = "release" /\ task' = NoTask
  BY <1>1 DEF Step, Worker, NotifyReset, NotifySet, Fork, Join, TaskWait, TaskRun, WaitSub,
              SignalReset, SignalSet, JoinBegin, MainWait, Release, shared
<1>3. task.concurrency = task'.concurrency \/ (S!AtRest /\ task'.concurrency = 0)
  BY <1>2, RestAtRelease DEF NoTask
<1>4. ASSUME NEW t \in Thread, NEW x \in Range(slot'[t]) PROVE S!Finished(x)
  <2>1. CASE \E u \in Thread : x \in Range(slot[u])
    BY <2>1 DEF SyncedInv
  <2>2. CASE a \in Thread /\ pc[a] = "run" /\ a < task.concurrency /\ x = a
    BY <2>2, SameSync DEF EngineStep, Executed
  <2> QED
    BY <1>1, <1>4, <2>1, <2>2, SlotStep
<1> QED
  BY <1>1, <1>3, <1>4, SyncKept

LEMMA SyncStepInv ==
    ASSUME SyncedInv, [SyncedNext]_allVars, NEW t \in Thread, SyncStep(t)
    PROVE  SyncedInv'
<1>1. UNCHANGED vars /\ S!Step(t) /\ t \in S!Thread
  BY SameSync DEF SyncStep
<1>2. IInv' /\ DataInv' /\ TypeOK
  BY EngineInvStep
<1>3. task.concurrency # 0
  BY <1>1, S!NoStepAtRest, SyncAssumptions DEF SyncedInv
<1>4. S!IInv /\ S!IInv'
  <2>1. S!IInv
    BY <1>3 DEF SyncedInv
  <2>2. S!Next
    BY <1>1 DEF S!Next
  <2> QED
    BY <2>1, <2>2, S!IInvStep, SyncAssumptions
<1>5. task' = task /\ slot' = slot
  BY <1>1 DEF vars
<1>6. ASSUME NEW u \in Thread, NEW x \in Range(slot'[u]) PROVE S!Finished(x)'
  <2>1. S!Finished(x) /\ x \in Thread
    BY <1>2, <1>5, <1>6, DataTypes DEF SyncedInv
  <2>2. x \in S!Thread
    BY <2>1, SameSync
  <2> QED
    BY <1>1, <1>4, <2>1, <2>2, S!FinishedStays, SyncAssumptions
<1> QED
  BY <1>2, <1>3, <1>4, <1>5, <1>6 DEF SyncedInv

LEMMA SyncedInvInit == SyncedInit => SyncedInv
<1> SUFFICES ASSUME SyncedInit PROVE SyncedInv
  OBVIOUS
<1>1. IInv /\ DataInv
  BY IInvInit, DataInvInit DEF SyncedInit
<1>2. task.concurrency = 0
  BY DEF SyncedInit, Init, NoTask
<1>3. S!AtRest
  BY SameSync, S!AtRestInit, SyncAssumptions DEF SyncedInit
<1>4. ASSUME NEW t \in Thread PROVE Range(slot[t]) = {}
  BY DEF SyncedInit, Init, Range
<1> QED
  BY <1>1, <1>2, <1>3, <1>4 DEF SyncedInv

LEMMA SyncedInvStep == SyncedInv /\ [SyncedNext]_allVars => SyncedInv'
<1> SUFFICES ASSUME SyncedInv, [SyncedNext]_allVars PROVE SyncedInv'
  OBVIOUS
<1>1. ASSUME NEW c \in 1 .. NumThreads, NEW j \in BOOLEAN, NEW p \in Plans,
             Run(c, j), Sync!StartTask(c, p)
      PROVE  SyncedInv'
  BY <1>1, CallInv
<1>2. ASSUME NEW j \in BOOLEAN, Run(0, j), UNCHANGED syncVars PROVE SyncedInv'
  BY <1>2, EmptyCallInv DEF Run
<1>3. CASE Destroy /\ UNCHANGED syncVars
  <2>1. TRUE \in BOOLEAN
    OBVIOUS
  <2> QED
    BY <1>3, <2>1, EmptyCallInv DEF Destroy
<1>4. ASSUME NEW a \in Agent, EngineStep(a) PROVE SyncedInv'
  BY <1>4, EngineStepInv
<1>5. ASSUME NEW a \in Thread, SyncStep(a) PROVE SyncedInv'
  BY <1>5, SyncStepInv
<1>6. CASE UNCHANGED allVars
  <2>1. UNCHANGED syncVars /\ task' = task /\ slot' = slot
    BY <1>6 DEF allVars, vars
  <2>2. \A t \in Thread : \A x \in Range(slot'[t]) : S!Finished(x)
    BY <2>1 DEF SyncedInv
  <2> QED
    BY <2>1, <2>2, SyncKept
<1>7. CASE Freed /\ UNCHANGED syncVars
  BY <1>6, <1>7 DEF Freed, allVars
<1> QED
  BY <1>1, <1>2, <1>3, <1>4, <1>5, <1>6, <1>7 DEF SyncedNext, SyncedCall, SyncedStep

\* Engine and synchronization keep what each keeps alone.
THEOREM SyncedInvariance == SyncedSpec => []SyncedInv
  BY SyncedInvInit, SyncedInvStep, PTL DEF SyncedSpec

(***************************************************************************)
(* What follows from it.                                                   *)
(***************************************************************************)

\* Neither engine nor synchronization ever trips over a signal the other one, an
\* earlier task or an earlier pass has left behind.
THEOREM NothingTripsOver == SyncedSpec => []NoAssertionFails
<1>1. Spec => []AssertionsHold
  BY AssertionsNeverFail
<1>2. SyncedSpec => []AssertionsHold
  BY <1>1, EngineIsUnaffected, PTL DEF Spec
<1>3. SyncedInv => Sync!SyncAssertionsHold /\ Sync!SyncDataLive
  <2> SUFFICES ASSUME SyncedInv PROVE Sync!SyncAssertionsHold /\ Sync!SyncDataLive
    OBVIOUS
  <2>1. CASE task.concurrency = 0
    <3>1. S!AtRest
      BY <2>1 DEF SyncedInv
    <3>2. S!SyncAssertionsHold /\ S!SyncDataLive
      BY <3>1, S!PointersAtRest, SyncAssumptions DEF S!AtRest
    <3> QED
      BY <3>2, SameSync
  <2>2. CASE task.concurrency # 0
    <3>1. S!IInv
      BY <2>2 DEF SyncedInv
    <3>2. S!SyncAssertionsHold /\ S!SyncDataLive
      BY <3>1, S!SyncAssertionsFollow, S!PointersFollow, SyncAssumptions
    <3> QED
      BY <3>2, SameSync
  <2> QED
    BY <2>1, <2>2
<1> QED
  BY <1>2, <1>3, SyncedInvariance, PTL DEF NoAssertionFails

\* By the time a call returns every participant has performed every operation of the
\* task, and nobody is inside one.
THEOREM CallsEndSynchronized == SyncedSpec => []EverybodySynchronized
<1>1. SyncedInv => EverybodySynchronized
  <2> SUFFICES ASSUME SyncedInv, pc[Main] = "release", NEW t \in Thread
               PROVE  /\ at[t] = "work"
                      /\ t < task.concurrency => op[t] = Len(plan)
                      /\ collecting[t] = 0 /\ syncData[t] = 0
    BY DEF EverybodySynchronized
  <2>1. at[t] = "work" /\ collecting[t] = 0 /\ syncData[t] = 0
    BY RestAtRelease, SameSync DEF S!AtRest, S!Quiescent
  <2>2. ASSUME t < task.concurrency PROVE op[t] = Len(plan)
    <3>1. task.concurrency \in 0 .. NumThreads /\ NumThreads \in Nat
      BY BoundsAssumption DEF SyncedInv, IInv, TypeOK, Task
    <3>2. t \in 0 .. task.concurrency-1
      BY <2>2, <3>1 DEF Thread
    <3> QED
      BY <3>2, AllFinished DEF S!Finished
  <2> QED
    BY <2>1, <2>2
<1> QED
  BY <1>1, SyncedInvariance, PTL

\* In a squad, too, everybody leaves a reduction with the contributions of all
\* participants in the order of their indices, however the engine woke them up.
THEOREM SquadReductionsAreComplete == SyncedSpec => []Sync!EverybodyGetsTheReduction
<1>1. SyncedInv => Sync!EverybodyGetsTheReduction
  <2> SUFFICES ASSUME SyncedInv PROVE Sync!EverybodyGetsTheReduction
    OBVIOUS
  <2>1. CASE task.concurrency = 0
    <3>1. 0 .. task.concurrency-1 = {}
      BY <2>1
    <3> QED
      BY <3>1 DEF Sync!EverybodyGetsTheReduction
  <2>2. CASE task.concurrency # 0
    <3>1. S!IInv
      BY <2>2 DEF SyncedInv
    <3> QED
      BY <3>1, S!ReductionsFollow, SameSync, SyncAssumptions
  <2> QED
    BY <2>1, <2>2
<1> QED
  BY <1>1, SyncedInvariance, PTL

==============================================================================
