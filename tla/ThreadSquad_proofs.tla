------------------------- MODULE ThreadSquad_proofs -------------------------
(***************************************************************************)
(* Proofs about the fork-join engine, for any number of threads, any wake- *)
(* up tree that satisfies TreeAssumption, and any number of tasks: first   *)
(* who does what when, then the data that are merged on the way.           *)
(***************************************************************************)
EXTENDS ThreadSquadInv, Basics_proofs, WellFoundedInduction, TLAPS

(***************************************************************************)
(* Sequences and the tree.                                                 *)
(***************************************************************************)

\* The loop of the owner visits thread 0 and nobody else.
LEMMA RootList == /\ <<0>> \in Seq(Thread) /\ <<0>> # << >>
                  /\ Head(<<0>>) = 0 /\ 0 \in Thread
  BY BoundsAssumption DEF Thread

\* The wake-up tree, in the vocabulary of the invariant.
LEMMA TreeFacts ==
    /\ \A t \in Thread : Kids(t) \subseteq Thread
    /\ \A t \in Thread : \A u \in Kids(t) : t < u /\ u # t /\ u # 0
    /\ \A t \in Thread : \A u \in Kids(t) : t \notin Kids(u)
    /\ \A t1, t2 \in Thread : \A u \in Kids(t1) : u \in Kids(t2) => t1 = t2
    /\ \A u \in Thread \ {0} : \E t \in Thread : u \in Kids(t)
    /\ \A t \in Thread, c \in 0 .. NumThreads :
        /\ ToSub[t][c] \in Seq(Thread) /\ FromSub[t][c] \in Seq(Thread)
        /\ IsInjective(ToSub[t][c]) /\ IsInjective(FromSub[t][c])
        /\ Range(ToSub[t][c]) = { u \in Kids(t) : u < c }
        /\ Range(FromSub[t][c]) = { u \in Kids(t) : u < c }
    /\ NumThreads \in Nat \ {0} /\ 0 \in Thread /\ NumThreads \in 0 .. NumThreads
<1>1. NumThreads \in Nat \ {0} /\ 0 \in Thread /\ NumThreads \in 0 .. NumThreads
  BY BoundsAssumption DEF Thread
<1>2. \A t \in Thread, c \in 0 .. NumThreads :
        /\ ToSub[t][c] \in Seq(Thread) /\ FromSub[t][c] \in Seq(Thread)
        /\ IsInjective(ToSub[t][c]) /\ IsInjective(FromSub[t][c])
        /\ Range(ToSub[t][c]) = { u \in Kids(t) : u < c }
        /\ Range(FromSub[t][c]) = { u \in Kids(t) : u < c }
  <2> SUFFICES ASSUME NEW t \in Thread, NEW c \in 0 .. NumThreads
               PROVE  /\ ToSub[t][c] \in Seq(Thread) /\ FromSub[t][c] \in Seq(Thread)
                      /\ IsInjective(ToSub[t][c]) /\ IsInjective(FromSub[t][c])
                      /\ Range(ToSub[t][c]) = { u \in Kids(t) : u < c }
                      /\ Range(FromSub[t][c]) = { u \in Kids(t) : u < c }
    OBVIOUS
  <2>1. ToSub[t][c] \in Seq(Thread) /\ FromSub[t][c] \in Seq(Thread)
    BY BoundsAssumption
  <2>2. IsInjective(ToSub[t][c]) /\ IsInjective(FromSub[t][c])
    BY TreeAssumption
  <2>3. Range(ToSub[t][c]) = { u \in Kids(t) : u < c } /\ Range(FromSub[t][c]) = Range(ToSub[t][c])
    BY TreeAssumption DEF Kids
  <2> QED  BY <2>1, <2>2, <2>3
<1>3. \A t \in Thread : Kids(t) \subseteq Thread
  BY <1>1, <1>2, ListFacts DEF Kids
<1>4. \A t \in Thread : \A u \in Kids(t) : t < u
  BY <1>1, TreeAssumption DEF Kids
<1>5. \A t \in Thread : \A u \in Kids(t) : t < u /\ u # t /\ u # 0
  BY <1>1, <1>3, <1>4 DEF Thread
<1>6. \A t1, t2 \in Thread : \A u \in Kids(t1) : u \in Kids(t2) => t1 = t2
  BY TreeAssumption DEF Kids
<1>7. \A u \in Thread \ {0} : \E t \in Thread : u \in Kids(t)
  BY TreeAssumption DEF Kids
<1>8. \A t \in Thread : \A u \in Kids(t) : t \notin Kids(u)
  BY <1>1, <1>3, <1>4 DEF Thread
<1> QED  BY <1>1, <1>2, <1>3, <1>5, <1>6, <1>7, <1>8

\* Subordinates are threads of the squad.
LEMMA KidsBelow == \A t \in Thread : \A u \in Kids(t) : u < NumThreads
<1>1. NumThreads \in Nat /\ \A t \in Thread : Kids(t) \subseteq Thread
  BY TreeFacts
<1>2. \A u \in Thread : u < NumThreads
  BY <1>1 DEF Thread
<1> QED  BY <1>1, <1>2

(***************************************************************************)
(* Type correctness.                                                       *)
(***************************************************************************)

\* Entering a loop, or moving on in one, keeps the agent's list typed, and
\* non-empty at a loop label.
LEMMA EnterLoopType ==
    ASSUME TypeOK, NEW a \in Agent, NEW list \in Seq(Thread),
           NEW loop \in Label, NEW after \in Label \ LoopLabel,
           EnterLoop(a, list, loop, after)
    PROVE  /\ pc' \in [Agent -> Label]
           /\ todo' \in [Agent -> Seq(Thread)]
           /\ \A b \in Agent : pc'[b] \in LoopLabel => todo'[b] # << >>
  BY DEF EnterLoop, TypeOK

\* The same for a step that only changes the label.
LEMMA GotoType ==
    ASSUME TypeOK, NEW a \in Agent, NEW l \in Label, l \in LoopLabel => todo[a] # << >>,
           pc' = [pc EXCEPT ![a] = l], todo' = todo
    PROVE  /\ pc' \in [Agent -> Label]
           /\ todo' \in [Agent -> Seq(Thread)]
           /\ \A b \in Agent : pc'[b] \in LoopLabel => todo'[b] # << >>
  BY DEF TypeOK

\* An agent in a loop has come to a thread of the squad.
LEMMA TypeOKTarget ==
    ASSUME TypeOK, NEW a \in Agent, pc[a] \in LoopLabel
    PROVE  /\ todo[a] \in Seq(Thread) /\ todo[a] # << >>
           /\ Target(a) \in Thread
           /\ Tail(todo[a]) \in Seq(Thread)
<1>1. todo[a] \in Seq(Thread) /\ todo[a] # << >>
  BY DEF TypeOK
<1> QED  BY <1>1 DEF Target

\* num_threads_for_task never exceeds the size of the squad.
LEMMA NumThreadsForTaskType ==
    ASSUME TypeOK, NEW t \in Thread
    PROVE  NumThreadsForTask(t) \in 0 .. NumThreads
  BY BoundsAssumption DEF TypeOK, Task, NumThreadsForTask

\* The lists an agent may loop over are sequences of threads.
LEMMA ListType ==
    ASSUME NEW t \in Thread, NEW c \in 0 .. NumThreads
    PROVE  ToSub[t][c] \in Seq(Thread) /\ FromSub[t][c] \in Seq(Thread)
  BY BoundsAssumption

\* The owner is an agent and not a thread of the squad.
LEMMA Agents == /\ Main \in Agent /\ Thread \subseteq Agent /\ Main \notin Thread
                /\ Agent \ Thread = {Main}
<1>1. Main \notin Thread
  BY DEF Main, Thread
<1> QED  BY <1>1 DEF Agent

\* Every step keeps the types.
LEMMA TypeOKStep == TypeOK /\ [Next]_vars => TypeOK'
<1> SUFFICES ASSUME TypeOK, [Next]_vars PROVE TypeOK'
  OBVIOUS
<1> USE Agents, RootList
<1>1. ASSUME NEW c \in 0 .. NumThreads, NEW j \in BOOLEAN, NEW id \in 0 .. MaxRuns+1,
             Submit(c, j, id), runs' \in 0 .. MaxRuns
      PROVE  TypeOK'
  <2>1. CASE c # 0 \/ (j /\ handle[0])
    <3>1. EnterLoop(Main, <<0>>, "notifyReset", "notifyReset")
      BY <1>1, <2>1 DEF Submit
    <3>2. /\ pc' \in [Agent -> Label]
          /\ todo' \in [Agent -> Seq(Thread)]
          /\ \A b \in Agent : pc'[b] \in LoopLabel => todo'[b] # << >>
      BY <3>1 DEF EnterLoop, TypeOK, Label
    <3>3. task' \in Task
      BY <1>1, <2>1 DEF Submit, Task
    <3>4. slot' \in [Thread -> Seq(Thread)]
      <4>1. << >> \in Seq(Thread)
        OBVIOUS
      <4>2. slot' = [t \in Thread |-> << >>]
        BY <1>1, <2>1 DEF Submit
      <4> QED  BY <4>1, <4>2
    <3> QED  BY <1>1, <3>2, <3>3, <3>4 DEF Submit, TypeOK, signals, locals
  <2>2. CASE ~(c # 0 \/ (j /\ handle[0]))
    BY <1>1, <2>2 DEF Submit, TypeOK, signals, locals, Label, LoopLabel
  <2> QED  BY <2>1, <2>2
<1>2. ASSUME NEW c \in 0 .. NumThreads, NEW j \in BOOLEAN, Run(c, j) PROVE TypeOK'
  <2>1. runs + 1 \in 0 .. MaxRuns+1 /\ runs' \in 0 .. MaxRuns
    BY <1>2, BoundsAssumption DEF Run, TypeOK
  <2> QED  BY <1>1, <1>2, <2>1 DEF Run
<1>3. CASE Destroy
  <2>1. runs + 1 \in 0 .. MaxRuns+1 /\ runs' \in 0 .. MaxRuns
    BY <1>3, BoundsAssumption DEF Destroy, TypeOK
  <2>2. 0 \in 0 .. NumThreads /\ TRUE \in BOOLEAN
    BY BoundsAssumption
  <2> QED  BY <1>1, <1>3, <2>1, <2>2 DEF Destroy
<1>4. ASSUME NEW a \in Agent, NotifyReset(a) PROVE TypeOK'
  <2>1. pc[a] \in LoopLabel /\ "notifySet" \in Label
    BY <1>4 DEF NotifyReset, LoopLabel, Label
  <2>2. Target(a) \in Thread /\ todo[a] # << >>
    BY <2>1, TypeOKTarget
  <2>3. /\ pc' \in [Agent -> Label]
        /\ todo' \in [Agent -> Seq(Thread)]
        /\ \A b \in Agent : pc'[b] \in LoopLabel => todo'[b] # << >>
    BY <1>4, <2>1, <2>2, GotoType DEF NotifyReset
  <2>4. processed' \in [Thread -> 0 .. 1]
    BY <1>4, <2>2 DEF NotifyReset, TypeOK
  <2> QED  BY <1>4, <2>3, <2>4 DEF NotifyReset, TypeOK, locals, shared
<1>5. ASSUME NEW a \in Agent, NotifySet(a) PROVE TypeOK'
  <2>1. Target(a) \in Thread /\ Tail(todo[a]) \in Seq(Thread) /\ todo[a] # << >>
    BY <1>5, TypeOKTarget DEF NotifySet, LoopLabel
  <2>0. avail' \in [Thread -> 0 .. 1]
    BY <1>5, <2>1 DEF NotifySet, TypeOK
  <2>2. CASE pc' = [pc EXCEPT ![a] = "fork"] /\ UNCHANGED todo
    <3>1. /\ pc' \in [Agent -> Label]
          /\ todo' \in [Agent -> Seq(Thread)]
          /\ \A b \in Agent : pc'[b] \in LoopLabel => todo'[b] # << >>
      BY <2>1, <2>2, GotoType DEF Label
    <3> QED  BY <1>5, <2>0, <3>1 DEF NotifySet, TypeOK, locals, shared
  <2>3. CASE a = Main /\ pc' = [pc EXCEPT ![Main] = "waitSub"] /\ UNCHANGED todo
    <3>1. /\ pc' \in [Agent -> Label]
          /\ todo' \in [Agent -> Seq(Thread)]
          /\ \A b \in Agent : pc'[b] \in LoopLabel => todo'[b] # << >>
      BY <2>1, <2>3, GotoType DEF Label
    <3> QED  BY <1>5, <2>0, <3>1 DEF NotifySet, TypeOK, locals, shared
  <2>4. CASE Continue(a, "notifyReset", AfterNotify(a))
    <3>1. AfterNotify(a) \in Label \ LoopLabel /\ "notifyReset" \in Label
      BY DEF AfterNotify, Label, LoopLabel
    <3>2. EnterLoop(a, Tail(todo[a]), "notifyReset", AfterNotify(a))
      BY <2>4 DEF Continue
    <3>3. /\ pc' \in [Agent -> Label]
          /\ todo' \in [Agent -> Seq(Thread)]
          /\ \A b \in Agent : pc'[b] \in LoopLabel => todo'[b] # << >>
      BY <2>1, <3>1, <3>2, EnterLoopType
    <3> QED  BY <1>5, <2>0, <3>3 DEF NotifySet, TypeOK, locals, shared
  <2> QED  BY <1>5, <2>2, <2>3, <2>4 DEF NotifySet
<1>6. ASSUME NEW a \in Agent, Fork(a) PROVE TypeOK'
  <2>1. /\ Target(a) \in Thread /\ Tail(todo[a]) \in Seq(Thread)
        /\ todo[a] \in Seq(Thread) /\ todo[a] # << >>
    BY <1>6, TypeOKTarget DEF Fork, LoopLabel
  <2>2. ToSub[Target(a)][NumThreads] \in Seq(Thread)
    BY <2>1, ListType, BoundsAssumption
  <2>3. AfterNotify(a) \in Label \ LoopLabel
    BY DEF AfterNotify, Label, LoopLabel
  <2> DEFINE rest == IF a = Main THEN todo[a] ELSE Tail(todo[a])
             kids == ToSub[Target(a)][NumThreads]
             goOn == IF a = Main THEN "waitSub"
                     ELSE IF rest = << >> THEN AfterNotify(a) ELSE "notifyReset"
             start == IF kids = << >> THEN "taskWait" ELSE "notifyReset"
  <2>4. /\ pc' = [pc EXCEPT ![a] = goOn, ![Target(a)] = start]
        /\ todo' = [todo EXCEPT ![a] = rest, ![Target(a)] = kids]
        /\ handle' = [handle EXCEPT ![Target(a)] = TRUE]
        /\ UNCHANGED <<signals, locals, shared>>
    BY <1>6 DEF Fork
  <2>5. rest \in Seq(Thread) /\ kids \in Seq(Thread)
    BY <2>1, <2>2
  <2>6. goOn \in Label /\ start \in Label
    BY <2>3 DEF Label
  <2>7. goOn \in LoopLabel => rest # << >>
    BY <2>1, <2>3 DEF LoopLabel
  <2>8. start \in LoopLabel => kids # << >>
    BY DEF LoopLabel
  <2> HIDE DEF rest, kids, goOn, start
  <2> QED  BY <2>1, <2>4, <2>5, <2>6, <2>7, <2>8 DEF TypeOK, signals, locals, shared
<1>7. ASSUME NEW a \in Agent, Join(a) PROVE TypeOK'
  <2>1. Target(a) \in Thread /\ Tail(todo[a]) \in Seq(Thread)
    BY <1>7, TypeOKTarget DEF Join, LoopLabel
  <2> DEFINE after == IF a = Main THEN "release" ELSE "exited"
  <2>2. EnterLoop(a, Tail(todo[a]), "join", after)
    BY <1>7 DEF Join, Continue
  <2>3. after \in Label \ LoopLabel /\ "join" \in Label
    BY DEF Label, LoopLabel
  <2> HIDE DEF after
  <2>4. /\ pc' \in [Agent -> Label]
        /\ todo' \in [Agent -> Seq(Thread)]
        /\ \A b \in Agent : pc'[b] \in LoopLabel => todo'[b] # << >>
    BY <2>1, <2>2, <2>3, EnterLoopType
  <2> QED  BY <1>7, <2>1, <2>4 DEF Join, TypeOK, signals, locals, shared
<1>8. ASSUME NEW t \in Thread, TaskWait(t) PROVE TypeOK'
  <2> DEFINE list == IF pass[t] = 0 THEN << >> ELSE ToSub[t][NumThreadsForTask(t)]
  <2>1. list \in Seq(Thread)
    BY NumThreadsForTaskType, ListType
  <2>2. EnterLoop(t, list, "notifyReset", "run")
    BY <1>8 DEF TaskWait
  <2> HIDE DEF list
  <2>3. /\ pc' \in [Agent -> Label]
        /\ todo' \in [Agent -> Seq(Thread)]
        /\ \A b \in Agent : pc'[b] \in LoopLabel => todo'[b] # << >>
    BY <2>1, <2>2, EnterLoopType DEF Label, LoopLabel
  <2>4. ref' \in [Thread -> 0 .. MaxRuns+1] /\ joinRequested' \in [Thread -> BOOLEAN]
    BY <1>8 DEF TaskWait, TypeOK, Task
  <2> QED  BY <1>8, <2>3, <2>4 DEF TaskWait, TypeOK, signals, shared
<1>9. ASSUME NEW t \in Thread, TaskRun(t) PROVE TypeOK'
  <2>1. FromSub[t][NumThreadsForTask(t)] \in Seq(Thread)
    BY NumThreadsForTaskType, ListType
  <2>2. /\ pc' \in [Agent -> Label]
        /\ todo' \in [Agent -> Seq(Thread)]
        /\ \A b \in Agent : pc'[b] \in LoopLabel => todo'[b] # << >>
    BY <1>9, <2>1, EnterLoopType DEF TaskRun, Transformed, Label, LoopLabel
  <2>3. Append(slot[t], t) \in Seq(Thread)
    BY DEF TypeOK
  <2>4. slot' \in [Thread -> Seq(Thread)]
    BY <1>9, <2>3 DEF TaskRun, Transformed, TypeOK
  <2> QED  BY <1>9, <2>2, <2>4 DEF TaskRun, Transformed, TypeOK, signals, locals
<1>10. ASSUME NEW t \in Thread, WaitSub(t) PROVE TypeOK'
  <2>1. Target(t) \in Thread /\ Tail(todo[t]) \in Seq(Thread)
    BY <1>10, TypeOKTarget DEF WaitSub, Merged, LoopLabel
  <2>2. /\ pc' \in [Agent -> Label]
        /\ todo' \in [Agent -> Seq(Thread)]
        /\ \A b \in Agent : pc'[b] \in LoopLabel => todo'[b] # << >>
    BY <1>10, <2>1, EnterLoopType DEF WaitSub, Merged, Continue, Label, LoopLabel
  <2>3. slot[t] \o slot[Target(t)] \in Seq(Thread) /\ << >> \in Seq(Thread)
    BY <2>1 DEF TypeOK
  <2>4. slot' \in [Thread -> Seq(Thread)]
    BY <1>10, <2>3 DEF WaitSub, Merged, TypeOK
  <2> QED  BY <1>10, <2>2, <2>4 DEF WaitSub, Merged, TypeOK, signals, locals
<1>11. ASSUME NEW t \in Thread, SignalReset(t) PROVE TypeOK'
  <2>1. /\ pc' \in [Agent -> Label]
        /\ todo' \in [Agent -> Seq(Thread)]
        /\ \A b \in Agent : pc'[b] \in LoopLabel => todo'[b] # << >>
    BY <1>11, GotoType DEF SignalReset, Label, LoopLabel
  <2>2. ref' \in [Thread -> 0 .. MaxRuns+1]
    BY <1>11, BoundsAssumption DEF SignalReset, TypeOK
  <2> QED  BY <1>11, <2>1, <2>2 DEF SignalReset, TypeOK, shared
<1>12. ASSUME NEW t \in Thread, SignalSet(t) PROVE TypeOK'
  <2>1. pass' \in [Thread -> 0 .. PassMax]
    <3>1. pass[t] \in 0 .. PassMax /\ PassMax \in Nat
      BY BoundsAssumption DEF TypeOK
    <3>2. (IF pass[t] < PassMax THEN pass[t] + 1 ELSE pass[t]) \in 0 .. PassMax
      BY <3>1
    <3> QED  BY <1>12, <3>2 DEF SignalSet, TypeOK
  <2> DEFINE after == IF joinRequested[t] THEN "joinBegin" ELSE "taskWait"
  <2>2. after \in Label /\ after \notin LoopLabel
    BY DEF Label, LoopLabel
  <2>3. pc' = [pc EXCEPT ![t] = after] /\ todo' = todo
    BY <1>12 DEF SignalSet
  <2> HIDE DEF after
  <2>4. /\ pc' \in [Agent -> Label]
        /\ todo' \in [Agent -> Seq(Thread)]
        /\ \A b \in Agent : pc'[b] \in LoopLabel => todo'[b] # << >>
    BY <2>2, <2>3, GotoType
  <2> QED  BY <1>12, <2>1, <2>4 DEF SignalSet, TypeOK, shared
<1>13. ASSUME NEW t \in Thread, JoinBegin(t) PROVE TypeOK'
  <2>1. FromSub[t][NumThreadsForTask(t)] \in Seq(Thread)
    BY NumThreadsForTaskType, ListType
  <2>2. /\ pc' \in [Agent -> Label]
        /\ todo' \in [Agent -> Seq(Thread)]
        /\ \A b \in Agent : pc'[b] \in LoopLabel => todo'[b] # << >>
    BY <1>13, <2>1, EnterLoopType DEF JoinBegin, Label, LoopLabel
  <2> QED  BY <1>13, <2>2 DEF JoinBegin, TypeOK, signals, locals, shared
<1>14. CASE MainWait
  BY <1>14 DEF MainWait, TypeOK, signals, locals, shared, Label, LoopLabel
<1>15. CASE Release
  <2> DEFINE after == IF task.join THEN "freed" ELSE "idle"
  <2>1. EnterLoop(Main, << >>, "idle", after) /\ task' = NoTask
    BY <1>15 DEF Release
  <2>2. after \in Label \ LoopLabel /\ "idle" \in Label /\ << >> \in Seq(Thread)
    BY DEF Label, LoopLabel
  <2> HIDE DEF after
  <2>3. /\ pc' \in [Agent -> Label]
        /\ todo' \in [Agent -> Seq(Thread)]
        /\ \A b \in Agent : pc'[b] \in LoopLabel => todo'[b] # << >>
    BY <2>1, <2>2, EnterLoopType
  <2>4. task' \in Task
    BY <2>1, BoundsAssumption DEF NoTask, Task
  <2> QED  BY <1>15, <2>3, <2>4 DEF Release, TypeOK, signals, locals
<1>16. CASE UNCHANGED vars
  BY <1>16 DEF vars, TypeOK
<1> QED
  BY <1>2, <1>3, <1>4, <1>5, <1>6, <1>7, <1>8, <1>9, <1>10, <1>11, <1>12, <1>13,
     <1>14, <1>15, <1>16
     DEF Next, Call, Step, Worker, Freed

\* The constructor leaves everything typed.
LEMMA TypeOKInit == Init => TypeOK
  BY BoundsAssumption DEF Init, TypeOK, Label, LoopLabel, NoTask, Task, Agent

\* Every variable of the engine keeps its type, and no loop over subordinate threads
\* is at a target when there is none left.
THEOREM TypeCorrect == Spec => []TypeOK
  BY TypeOKInit, TypeOKStep, PTL DEF Spec

(***************************************************************************)
(* Frame lemmas: most edges are not touched by a step.                     *)
(***************************************************************************)

\* What a thread does by itself has not changed; neither has what its superordinate
\* sees of it.
SameRole(t) ==
    /\ pc'[t] = pc[t] /\ todo'[t] = todo[t] /\ pass'[t] = pass[t]
    /\ joinRequested'[t] = joinRequested[t] /\ ref'[t] = ref[t]

SameStatus(u) ==
    /\ pc'[u] = pc[u] /\ handle'[u] = handle[u] /\ pass'[u] = pass[u]
    /\ avail'[u] = avail[u] /\ processed'[u] = processed[u]

\* A step of thread u that its superordinate need not notice.
Follows(u) ==
    /\ Fresh(u) => Fresh(u)'
    /\ Armed(u) => Armed(u)'
    /\ Asleep(u) => Asleep(u)'
    /\ Engaged(u) => Engaged(u)'
    /\ Leaving(u) => Leaving(u)'
    /\ Left(u) => Left(u)'
    /\ ~Active(u) /\ processed[u] = 0 => processed'[u] = 0

\* A thread nobody touches stays what its superordinate knows it to be.
LEMMA SameStatusFollows ==
    ASSUME NEW u \in Thread, SameStatus(u), task' = task
    PROVE  Follows(u)
  BY DEF SameStatus, Follows, Fresh, Armed, Asleep, Engaged, Active, Parked, Leaving, Left

\* In a loop, the target is one of the threads ahead, and going on removes it.
LEMMA LoopFacts ==
    ASSUME TypeOK, NEW a \in Agent, pc[a] \in LoopLabel, IsInjective(todo[a])
    PROVE  /\ Target(a) \in Ahead(a)
           /\ Target(a) \in Thread
           /\ Tail(todo[a]) \in Seq(Thread)
           /\ IsInjective(Tail(todo[a]))
           /\ Range(Tail(todo[a])) = Ahead(a) \ {Target(a)}
           /\ Tail(todo[a]) = << >> <=> Ahead(a) \ {Target(a)} = {}
           /\ Tail(todo[a]) # << >> =>
                Head(Tail(todo[a])) \in Ahead(a) \ {Target(a)}
<1>1. todo[a] \in Seq(Thread) /\ todo[a] # << >>
  BY DEF TypeOK
<1>2. /\ Target(a) \in Ahead(a) /\ Target(a) \in Thread
      /\ Tail(todo[a]) \in Seq(Thread) /\ IsInjective(Tail(todo[a]))
      /\ Range(Tail(todo[a])) = Ahead(a) \ {Target(a)}
  BY <1>1, TailFacts DEF Target, Ahead
<1>3. Tail(todo[a]) = << >> <=> Ahead(a) \ {Target(a)} = {}
  BY <1>2, ListFacts
<1>4. Tail(todo[a]) # << >> => Head(Tail(todo[a])) \in Ahead(a) \ {Target(a)}
  BY <1>2, TailFacts
<1> QED  BY <1>2, <1>3, <1>4

\* The subordinates a pass visits, in terms of the lists of the tree.
LEMMA PartFacts ==
    ASSUME TypeOK, NEW t \in Thread
    PROVE  /\ Part(t) \subseteq Kids(t)
           /\ pass[t] = 0 \/ task.join => Part(t) = Kids(t)
           /\ Range(ToSub[t][NumThreadsForTask(t)]) = Part(t)
           /\ Range(FromSub[t][NumThreadsForTask(t)]) = Part(t)
           /\ ToSub[t][NumThreadsForTask(t)] \in Seq(Thread)
           /\ FromSub[t][NumThreadsForTask(t)] \in Seq(Thread)
           /\ IsInjective(ToSub[t][NumThreadsForTask(t)])
           /\ IsInjective(FromSub[t][NumThreadsForTask(t)])
           /\ ToSub[t][NumThreadsForTask(t)] = << >> <=> Part(t) = {}
           /\ FromSub[t][NumThreadsForTask(t)] = << >> <=> Part(t) = {}
<1>1. NumThreadsForTask(t) \in 0 .. NumThreads
  BY NumThreadsForTaskType
<1>2. /\ Range(ToSub[t][NumThreadsForTask(t)]) = Part(t)
      /\ Range(FromSub[t][NumThreadsForTask(t)]) = Part(t)
      /\ ToSub[t][NumThreadsForTask(t)] \in Seq(Thread)
      /\ FromSub[t][NumThreadsForTask(t)] \in Seq(Thread)
      /\ IsInjective(ToSub[t][NumThreadsForTask(t)])
      /\ IsInjective(FromSub[t][NumThreadsForTask(t)])
  BY <1>1, TreeFacts DEF Part
<1>3. Part(t) \subseteq Kids(t)
  BY DEF Part
<1>4. ASSUME pass[t] = 0 \/ task.join PROVE Part(t) = Kids(t)
  <2>1. NumThreadsForTask(t) = NumThreads
    BY <1>4 DEF NumThreadsForTask
  <2>2. \A u \in Kids(t) : u < NumThreads
    BY KidsBelow
  <2> QED  BY <2>1, <2>2 DEF Part
<1>5. /\ ToSub[t][NumThreadsForTask(t)] = << >> <=> Part(t) = {}
      /\ FromSub[t][NumThreadsForTask(t)] = << >> <=> Part(t) = {}
  BY <1>2, ListFacts
<1> QED  BY <1>2, <1>3, <1>4, <1>5

\* The edges below a thread that does nothing, whose subordinates go on unnoticed.
LEMMA EdgesFrame ==
    ASSUME IInv, NEW t \in Thread, SameRole(t), task' = task,
           \A u \in Kids(t) : Follows(u)
    PROVE  Edges(t)'
<1> USE DEF SameRole
<1>1. Kids(t)' = Kids(t) /\ Part(t)' = Part(t) /\ Ahead(t)' = Ahead(t)
      /\ Target(t)' = Target(t)
  BY DEF Kids, Part, Ahead, NumThreadsForTask, Target
<1>2. TypeOK /\ Local(t) /\ Edges(t)
  BY DEF IInv
<1>3. pc[t] \in LoopLabel => Target(t) \in Ahead(t)
  BY <1>2, LoopFacts, Agents DEF Local
<1>4. Part(t) \subseteq Kids(t)
  BY DEF Part
<1>5. \A u \in Kids(t) : Parked(u) => Parked(u)'
  BY DEF Follows, Parked
<1>6. FirstPassEdge(t)'
  BY <1>1, <1>2, <1>3 DEF Edges, FirstPassEdge, Follows, LoopLabel
<1>7. LaterPassEdge(t)'
  BY <1>1, <1>2, <1>4 DEF Edges, LaterPassEdge, Follows
<1>8. TaskEdge(t)'
  BY <1>1, <1>2, <1>4, <1>5 DEF Edges, TaskEdge, Follows
<1>9. JoinEdge(t)'
  BY <1>1, <1>2 DEF Edges, JoinEdge, Follows
<1>10. LoweredFirst(t)'
  <2> SUFFICES ASSUME pc[t] = "notifySet" PROVE processed'[Target(t)] = 0
    BY <1>1 DEF LoweredFirst
  <2>1. Target(t) \in Ahead(t)
    BY <1>3 DEF LoopLabel
  <2>2. processed[Target(t)] = 0
    BY <1>2 DEF Edges, LoweredFirst
  <2>3. CASE pass[t] = 0
    <3>1. Target(t) \in Kids(t) /\ Fresh(Target(t))
      BY <1>2, <2>1, <2>3 DEF Edges, FirstPassEdge
    <3> QED  BY <2>2, <3>1 DEF Follows, Fresh, Active
  <2>4. CASE pass[t] # 0
    <3>1. Target(t) \in Kids(t) /\ Asleep(Target(t))
      BY <1>2, <1>4, <2>1, <2>4 DEF Edges, LaterPassEdge
    <3> QED  BY <2>2, <3>1 DEF Follows, Asleep, Active
  <2> QED  BY <2>3, <2>4
<1> QED  BY <1>6, <1>7, <1>8, <1>9, <1>10 DEF Edges

\* What a thread knows by itself outlives steps of others.
LEMMA LocalFrame ==
    ASSUME NEW t \in Thread, Local(t), SameRole(t), task' = task
    PROVE  Local(t)'
  BY DEF Local, SameRole

\* The states of a thread outlive steps of others.
LEMMA ShapeFrame ==
    ASSUME NEW t \in Thread, Shape(t), SameStatus(t)
    PROVE  Shape(t)'
  BY DEF Shape, SameStatus, Fresh, Armed, Asleep, Active, Leaving, Left

\* The edge above thread 0 outlives steps that leave both of its ends alone.
LEMMA RootFrame ==
    ASSUME IInv, pc'[Main] = pc[Main], todo'[Main] = todo[Main], task' = task, Follows(0)
    PROVE  RootEdge' /\ TaskHeld'
<1>1. RootEdge /\ TaskHeld
  BY DEF IInv
<1>2. TaskHeld'
  BY <1>1 DEF TaskHeld
<1>3. Parked(0) => Parked(0)'
  BY DEF Follows, Parked
<1>4. pc[Main] = "notifySet" => processed'[0] = 0
  BY <1>1 DEF RootEdge, Follows, Fresh, Asleep, Active
<1>5. RootEdge'
  BY <1>1, <1>3, <1>4 DEF RootEdge, Follows
<1> QED  BY <1>2, <1>5

\* A step of thread t that concerns nobody else.
LEMMA WorkerFrame ==
    ASSUME IInv, TypeOK', NEW t \in Thread, task' = task,
           pc'[Main] = pc[Main], todo'[Main] = todo[Main],
           \A s \in Thread \ {t} : SameRole(s) /\ SameStatus(s),
           Follows(t), Shape(t)', Local(t)', Edges(t)'
    PROVE  IInv'
<1>1. \A s \in Thread : Follows(s)
  BY SameStatusFollows
<1>2. RootEdge' /\ TaskHeld'
  BY <1>1, RootFrame, TreeFacts
<1>3. ASSUME NEW s \in Thread PROVE Shape(s)' /\ Local(s)' /\ Edges(s)'
  <2>1. CASE s = t
    BY <2>1
  <2>2. CASE s # t
    <3>1. SameRole(s) /\ SameStatus(s) /\ Shape(s) /\ Local(s)
      BY <2>2 DEF IInv
    <3>2. \A u \in Kids(s) : Follows(u)
      BY <1>1, TreeFacts
    <3> QED  BY <3>1, <3>2, EdgesFrame, LocalFrame, ShapeFrame
  <2> QED  BY <2>1, <2>2
<1> QED  BY <1>2, <1>3 DEF IInv

\* A step of thread t on its subordinate u.
LEMMA PairFrame ==
    ASSUME IInv, TypeOK', NEW t \in Thread, NEW u \in Kids(t), task' = task,
           pc'[Main] = pc[Main], todo'[Main] = todo[Main],
           \A s \in Thread \ {t, u} : SameRole(s) /\ SameStatus(s),
           Follows(t), Shape(t)', Local(t)', Edges(t)', Shape(u)', Local(u)', Edges(u)'
    PROVE  IInv'
<1>1. \A s \in Thread \ {u} : Follows(s)
  BY SameStatusFollows
<1>2. u \in Thread /\ u # 0 /\ u # t /\ 0 \in Thread
  BY TreeFacts
<1>3. RootEdge' /\ TaskHeld'
  BY <1>1, <1>2, RootFrame
<1>4. ASSUME NEW s \in Thread PROVE Shape(s)' /\ Local(s)' /\ Edges(s)'
  <2>1. CASE s \in {t, u}
    BY <2>1
  <2>2. CASE s \notin {t, u}
    <3>1. SameRole(s) /\ SameStatus(s) /\ Shape(s) /\ Local(s)
      BY <2>2 DEF IInv
    <3>2. u \notin Kids(s)
      BY <2>2, TreeFacts
    <3>3. \A v \in Kids(s) : Follows(v)
      BY <1>1, <3>2, TreeFacts
    <3> QED  BY <3>1, <3>3, EdgesFrame, LocalFrame, ShapeFrame
  <2> QED  BY <2>1, <2>2
<1> QED  BY <1>3, <1>4 DEF IInv

\* A step of the owner on thread 0.
LEMMA RootPairFrame ==
    ASSUME IInv, TypeOK', task' = task,
           \A s \in Thread \ {0} : SameRole(s) /\ SameStatus(s),
           RootEdge', TaskHeld', Shape(0)', Local(0)', Edges(0)'
    PROVE  IInv'
<1>1. \A s \in Thread \ {0} : Follows(s)
  BY SameStatusFollows
<1>2. ASSUME NEW s \in Thread PROVE Shape(s)' /\ Local(s)' /\ Edges(s)'
  <2>1. CASE s = 0
    BY <2>1
  <2>2. CASE s # 0
    <3>1. SameRole(s) /\ SameStatus(s) /\ Shape(s) /\ Local(s)
      BY <2>2 DEF IInv
    <3>2. \A v \in Kids(s) : Follows(v)
      BY <1>1, TreeFacts
    <3> QED  BY <3>1, <3>2, EdgesFrame, LocalFrame, ShapeFrame
  <2> QED  BY <2>1, <2>2
<1> QED  BY <1>2 DEF IInv

(***************************************************************************)
(* The steps of a worker that concern itself.                              *)
(***************************************************************************)

\* Where the label of a thread puts it.
LEMMA ShapeOf ==
    ASSUME IInv, NEW t \in Thread
    PROVE  /\ pc[t] \in {"notifyReset", "notifySet", "fork", "run", "waitSub",
                         "signalReset", "signalSet"} => Active(t)
           /\ pc[t] = "taskWait" /\ avail[t] = 1 => Active(t)
           /\ pc[t] \in {"joinBegin", "join"} => Leaving(t)
  BY DEF IInv, Shape, Fresh, Armed, Asleep, Active, Leaving, Left

\* A thread that stays active, or goes on leaving, is not noticed.
LEMMA ActiveFollows ==
    ASSUME NEW t \in Thread, Active(t), Active(t)'
    PROVE  Follows(t) /\ Shape(t)'
  BY DEF Follows, Active, Fresh, Armed, Asleep, Engaged, Parked, Leaving, Left, Shape

\* A thread on its way out is seen as before by its superordinate.
LEMMA LeavingFollows ==
    ASSUME NEW t \in Thread, Leaving(t), Leaving(t)', processed'[t] = processed[t],
           task' = task
    PROVE  Follows(t) /\ Shape(t)'
  BY DEF Follows, Active, Fresh, Armed, Asleep, Engaged, Parked, Leaving, Left, Shape

\* What EnterLoop does to everybody's labels and lists.
LEMMA EnterLoopFrame ==
    ASSUME TypeOK, NEW a \in Agent, NEW list, NEW loop, NEW after,
           EnterLoop(a, list, loop, after)
    PROVE  /\ todo'[a] = list
           /\ pc'[a] = IF list = << >> THEN after ELSE loop
           /\ \A b \in Agent \ {a} : pc'[b] = pc[b] /\ todo'[b] = todo[b]
  BY DEF EnterLoop, TypeOK

\* task_wait and the start of a pass keep the invariant.
LEMMA TaskWaitInv ==
    ASSUME IInv, TypeOK', NEW t \in Thread, TaskWait(t)
    PROVE  IInv'
<1> DEFINE list == IF pass[t] = 0 THEN << >> ELSE ToSub[t][NumThreadsForTask(t)]
<1>1. TypeOK /\ Shape(t) /\ Local(t) /\ Edges(t)
  BY DEF IInv
<1>2. pc[t] = "taskWait" /\ avail[t] = 1 /\ Active(t)
  BY ShapeOf DEF TaskWait
<1>3. /\ todo'[t] = list
      /\ pc'[t] = IF list = << >> THEN "run" ELSE "notifyReset"
      /\ \A b \in Agent \ {t} : pc'[b] = pc[b] /\ todo'[b] = todo[b]
  BY <1>1, EnterLoopFrame, Agents DEF TaskWait
<1>4. /\ ref'[t] = task.id /\ joinRequested'[t] = task.join
      /\ \A s \in Thread \ {t} : ref'[s] = ref[s] /\ joinRequested'[s] = joinRequested[s]
      /\ avail' = avail /\ processed' = processed /\ handle' = handle /\ pass' = pass
      /\ task' = task
  BY <1>1 DEF TaskWait, TypeOK, signals, shared
<1>5. \A s \in Thread \ {t} : SameRole(s) /\ SameStatus(s)
  BY <1>3, <1>4, Agents DEF SameRole, SameStatus
<1>6. pc'[Main] = pc[Main] /\ todo'[Main] = todo[Main]
  BY <1>3, Agents
<1>7. Active(t)'
  BY <1>2, <1>3, <1>4 DEF Active
<1>8. Part(t)' = Part(t) /\ Kids(t)' = Kids(t) /\ Ahead(t)' = Range(list)
  BY <1>3, <1>4 DEF Part, Kids, Ahead, NumThreadsForTask
<1>9. /\ Part(t) \subseteq Kids(t) /\ IsInjective(list)
      /\ pass[t] = 0 => list = << >> /\ Part(t) = Kids(t)
      /\ pass[t] # 0 => Range(list) = Part(t) /\ (list = << >> <=> Part(t) = {})
  BY <1>1, PartFacts, ListFacts
<1>10. Local(t)'
  BY <1>1, <1>2, <1>3, <1>4, <1>9 DEF Local
<1>11. \A u \in Kids(t) : Engaged(u) => Engaged(u)'
  BY <1>5, <1>4, SameStatusFollows, TreeFacts DEF Follows
<1>12. \A u \in Kids(t) : Asleep(u) => Asleep(u)'
  BY <1>5, <1>4, SameStatusFollows, TreeFacts DEF Follows
<1> HIDE DEF list
<1>13. CASE pass[t] = 0
  <2>1. pc'[t] = "run" /\ \A u \in Kids(t) : Engaged(u)'
    BY <1>1, <1>2, <1>3, <1>9, <1>11, <1>13 DEF Edges, FirstPassEdge
  <2>2. Edges(t)'
    BY <1>8, <1>9, <1>13, <2>1
       DEF Edges, FirstPassEdge, LoweredFirst, LaterPassEdge, TaskEdge, JoinEdge
  <2> QED  BY <1>2, <1>4, <1>5, <1>6, <1>7, <1>10, <2>2, ActiveFollows, WorkerFrame
<1>14. CASE pass[t] # 0
  <2>1. \A u \in Kids(t) : Asleep(u)'
    BY <1>1, <1>2, <1>12, <1>14 DEF Edges, LaterPassEdge
  <2>2. pc'[t] = IF Part(t) = {} THEN "run" ELSE "notifyReset"
    BY <1>3, <1>9, <1>14
  <2>3. pass'[t] # 0 /\ Ahead(t)' = Part(t)
    BY <1>4, <1>8, <1>9, <1>14
  <2>4. Edges(t)'
    BY <1>8, <1>9, <2>1, <2>2, <2>3
       DEF Edges, FirstPassEdge, LoweredFirst, LaterPassEdge, TaskEdge, JoinEdge
  <2> QED  BY <1>2, <1>4, <1>5, <1>6, <1>7, <1>10, <2>4, ActiveFollows, WorkerFrame
<1> QED  BY <1>13, <1>14

\* Executing the task keeps the invariant.
LEMMA TaskRunInv ==
    ASSUME IInv, TypeOK', NEW t \in Thread, TaskRun(t)
    PROVE  IInv'
<1> DEFINE list == FromSub[t][NumThreadsForTask(t)]
<1>1. TypeOK /\ Shape(t) /\ Local(t) /\ Edges(t)
  BY DEF IInv
<1>2. pc[t] = "run" /\ Active(t)
  BY ShapeOf DEF TaskRun, Transformed
<1>3. /\ todo'[t] = list
      /\ pc'[t] = IF list = << >> THEN "signalReset" ELSE "waitSub"
      /\ \A b \in Agent \ {t} : pc'[b] = pc[b] /\ todo'[b] = todo[b]
  BY <1>1, EnterLoopFrame, Agents DEF TaskRun, Transformed
<1>4. /\ avail' = avail /\ processed' = processed /\ handle' = handle /\ pass' = pass
      /\ task' = task /\ ref' = ref /\ joinRequested' = joinRequested
  BY DEF TaskRun, Transformed, signals, locals
<1>5. \A s \in Thread \ {t} : SameRole(s) /\ SameStatus(s)
  BY <1>3, <1>4, Agents DEF SameRole, SameStatus
<1>6. pc'[Main] = pc[Main] /\ todo'[Main] = todo[Main]
  BY <1>3, Agents
<1>7. Active(t)'
  BY <1>2, <1>3, <1>4 DEF Active
<1>8. Part(t)' = Part(t) /\ Kids(t)' = Kids(t) /\ Ahead(t)' = Range(list)
  BY <1>3, <1>4 DEF Part, Kids, Ahead, NumThreadsForTask
<1>9. /\ Part(t) \subseteq Kids(t) /\ IsInjective(list) /\ Range(list) = Part(t)
      /\ list = << >> <=> Part(t) = {}
      /\ task.join => Part(t) = Kids(t)
  BY <1>1, PartFacts
<1> HIDE DEF list
<1>10. Local(t)'
  BY <1>1, <1>2, <1>3, <1>4, <1>9 DEF Local
<1>11. \A u \in Kids(t) : Follows(u)
  BY <1>5, <1>4, SameStatusFollows, TreeFacts
<1>12. /\ \A u \in Part(t) : Engaged(u)'
       /\ \A u \in Kids(t) \ Part(t) : Asleep(u)'
  BY <1>1, <1>2, <1>9, <1>11 DEF Edges, TaskEdge, Follows
<1>13. \A u \in Kids(t) \ Part(t) : Parked(u)'
  BY <1>4, <1>9, <1>12 DEF Parked
<1>14. Edges(t)'
  BY <1>3, <1>8, <1>9, <1>12, <1>13
     DEF Edges, FirstPassEdge, LoweredFirst, LaterPassEdge, TaskEdge, JoinEdge
<1> QED  BY <1>2, <1>4, <1>5, <1>6, <1>7, <1>10, <1>14, ActiveFollows, WorkerFrame

\* Waiting for a subordinate and merging its result keeps the invariant.
LEMMA WaitSubInv ==
    ASSUME IInv, TypeOK', NEW t \in Thread, WaitSub(t)
    PROVE  IInv'
<1> DEFINE list == Tail(todo[t])
<1>1. TypeOK /\ Shape(t) /\ Local(t) /\ Edges(t)
  BY DEF IInv
<1>2. pc[t] = "waitSub" /\ processed[Target(t)] = 1 /\ Active(t)
  BY ShapeOf DEF WaitSub, Merged
<1>3. /\ todo'[t] = list
      /\ pc'[t] = IF list = << >> THEN "signalReset" ELSE "waitSub"
      /\ \A b \in Agent \ {t} : pc'[b] = pc[b] /\ todo'[b] = todo[b]
  BY <1>1, EnterLoopFrame, Agents DEF WaitSub, Merged, Continue
<1>4. /\ avail' = avail /\ processed' = processed /\ handle' = handle /\ pass' = pass
      /\ task' = task /\ ref' = ref /\ joinRequested' = joinRequested
  BY DEF WaitSub, Merged, signals, locals
<1>5. \A s \in Thread \ {t} : SameRole(s) /\ SameStatus(s)
  BY <1>3, <1>4, Agents DEF SameRole, SameStatus
<1>6. pc'[Main] = pc[Main] /\ todo'[Main] = todo[Main]
  BY <1>3, Agents
<1>7. Active(t)'
  BY <1>2, <1>3, <1>4 DEF Active
<1>8. /\ Target(t) \in Ahead(t) /\ IsInjective(list)
      /\ Range(list) = Ahead(t) \ {Target(t)}
      /\ list = << >> <=> Ahead(t) \ {Target(t)} = {}
  BY <1>1, <1>2, LoopFacts, Agents DEF Local, LoopLabel
<1>9. Part(t)' = Part(t) /\ Kids(t)' = Kids(t) /\ Ahead(t)' = Range(list)
  BY <1>3, <1>4 DEF Part, Kids, Ahead, NumThreadsForTask
<1> HIDE DEF list
<1>10. Local(t)'
  BY <1>1, <1>2, <1>3, <1>4, <1>8 DEF Local
<1>11. \A u \in Kids(t) : Follows(u) /\ (Parked(u) => Parked(u)')
  BY <1>5, <1>4, SameStatusFollows, TreeFacts DEF Follows, Parked
<1>12. /\ Ahead(t) \subseteq Part(t) /\ Part(t) \subseteq Kids(t)
       /\ \A u \in Ahead(t) : Engaged(u)
       /\ \A u \in Kids(t) \ Ahead(t) : Parked(u)
  BY <1>1, <1>2, PartFacts DEF Edges, TaskEdge
<1>13. Parked(Target(t))
  BY <1>2, <1>8, <1>12 DEF Engaged, Active
<1>14. /\ \A u \in Kids(t) \ Ahead(t)' : Parked(u)'
       /\ \A u \in Ahead(t)' : Engaged(u)'
       /\ Ahead(t)' \subseteq Part(t)'
       /\ pc'[t] = IF Ahead(t)' = {} THEN "signalReset" ELSE "waitSub"
  BY <1>3, <1>8, <1>9, <1>11, <1>12, <1>13 DEF Follows
<1>15. Edges(t)'
  BY <1>9, <1>14
     DEF Edges, FirstPassEdge, LoweredFirst, LaterPassEdge, TaskEdge, JoinEdge
<1> QED  BY <1>2, <1>4, <1>5, <1>6, <1>7, <1>10, <1>15, ActiveFollows, WorkerFrame

\* Resetting signalTaskAvailable_ keeps the invariant.
LEMMA SignalResetInv ==
    ASSUME IInv, TypeOK', NEW t \in Thread, SignalReset(t)
    PROVE  IInv'
<1>1. TypeOK /\ Shape(t) /\ Local(t) /\ Edges(t)
  BY DEF IInv
<1>2. pc[t] = "signalReset" /\ Active(t)
  BY ShapeOf DEF SignalReset
<1>3. /\ pc'[t] = "signalSet" /\ avail'[t] = 0 /\ ref'[t] = 0
      /\ \A b \in Agent \ {t} : pc'[b] = pc[b]
      /\ \A s \in Thread \ {t} : avail'[s] = avail[s] /\ ref'[s] = ref[s]
      /\ todo' = todo /\ processed' = processed /\ handle' = handle /\ pass' = pass
      /\ task' = task /\ joinRequested' = joinRequested
  BY <1>1, Agents DEF SignalReset, TypeOK, shared
<1>4. \A s \in Thread \ {t} : SameRole(s) /\ SameStatus(s)
  BY <1>3, Agents DEF SameRole, SameStatus
<1>5. pc'[Main] = pc[Main] /\ todo'[Main] = todo[Main]
  BY <1>3, Agents
<1>6. Active(t)'
  BY <1>2, <1>3 DEF Active
<1>7. Local(t)'
  BY <1>1, <1>2, <1>3 DEF Local
<1>8. \A u \in Kids(t) : Parked(u)'
  <2>1. \A u \in Kids(t) : Follows(u) /\ Parked(u)
    BY <1>1, <1>2, <1>3, <1>4, SameStatusFollows, TreeFacts DEF Edges, TaskEdge
  <2> QED  BY <1>3, <2>1 DEF Follows, Parked
<1>9. Edges(t)'
  BY <1>3, <1>8
     DEF Edges, FirstPassEdge, LoweredFirst, LaterPassEdge, TaskEdge, JoinEdge, Kids
<1> QED  BY <1>2, <1>3, <1>4, <1>5, <1>6, <1>7, <1>9, ActiveFollows, WorkerFrame

\* Signaling completion and next_pass keep the invariant.
LEMMA SignalSetInv ==
    ASSUME IInv, TypeOK', NEW t \in Thread, SignalSet(t)
    PROVE  IInv'
<1>1. TypeOK /\ Shape(t) /\ Local(t) /\ Edges(t)
  BY DEF IInv
<1>2. pc[t] = "signalSet" /\ Active(t) /\ avail[t] = 0 /\ handle[t]
      /\ joinRequested[t] = task.join /\ ref[t] = 0
  BY <1>1, ShapeOf DEF SignalSet, Local, Active
<1>3. /\ pc'[t] = IF task.join THEN "joinBegin" ELSE "taskWait"
      /\ processed'[t] = 1 /\ pass'[t] # 0
      /\ \A b \in Agent \ {t} : pc'[b] = pc[b]
      /\ \A s \in Thread \ {t} : processed'[s] = processed[s] /\ pass'[s] = pass[s]
      /\ todo' = todo /\ avail' = avail /\ handle' = handle /\ ref' = ref
      /\ task' = task /\ joinRequested' = joinRequested
  <2>1. pass[t] \in 0 .. PassMax /\ PassMax \in Nat \ {0}
    BY <1>1, BoundsAssumption DEF TypeOK
  <2>2. (IF pass[t] < PassMax THEN pass[t] + 1 ELSE pass[t]) # 0
    BY <2>1
  <2> QED  BY <1>1, <1>2, <2>2, Agents DEF SignalSet, TypeOK, shared
<1>4. \A s \in Thread \ {t} : SameRole(s) /\ SameStatus(s)
  BY <1>3, Agents DEF SameRole, SameStatus
<1>5. pc'[Main] = pc[Main] /\ todo'[Main] = todo[Main]
  BY <1>3, Agents
<1>6. Parked(t)'
  BY <1>2, <1>3 DEF Parked, Leaving, Asleep
<1>7. Follows(t)
  BY <1>2, <1>3, <1>6 DEF Follows, Fresh, Armed, Asleep, Leaving, Left, Engaged, Active
<1>8. Shape(t)'
  BY <1>6 DEF Shape, Parked
<1>9. Local(t)'
  BY <1>1, <1>2, <1>3 DEF Local
<1>10. \A u \in Kids(t) : Parked(u)'
  <2>1. \A u \in Kids(t) : Follows(u) /\ Parked(u)
    BY <1>1, <1>2, <1>3, <1>4, SameStatusFollows, TreeFacts DEF Edges, TaskEdge
  <2> QED  BY <1>3, <2>1 DEF Follows, Parked
<1>11. Edges(t)'
  BY <1>3, <1>10
     DEF Edges, FirstPassEdge, LoweredFirst, LaterPassEdge, TaskEdge, JoinEdge, Kids, Parked
<1> QED  BY <1>3, <1>4, <1>5, <1>7, <1>8, <1>9, <1>11, WorkerFrame

\* The start of join_subthreads keeps the invariant.
LEMMA JoinBeginInv ==
    ASSUME IInv, TypeOK', NEW t \in Thread, JoinBegin(t)
    PROVE  IInv'
<1> DEFINE list == FromSub[t][NumThreadsForTask(t)]
<1>1. TypeOK /\ Shape(t) /\ Local(t) /\ Edges(t)
  BY DEF IInv
<1>2. pc[t] = "joinBegin" /\ Leaving(t) /\ task.join /\ pass[t] # 0
  BY <1>1, ShapeOf DEF JoinBegin, Local
<1>3. /\ todo'[t] = list
      /\ pc'[t] = IF list = << >> THEN "exited" ELSE "join"
      /\ \A b \in Agent \ {t} : pc'[b] = pc[b] /\ todo'[b] = todo[b]
  BY <1>1, EnterLoopFrame, Agents DEF JoinBegin
<1>4. /\ avail' = avail /\ processed' = processed /\ handle' = handle /\ pass' = pass
      /\ task' = task /\ ref' = ref /\ joinRequested' = joinRequested
  BY DEF JoinBegin, signals, locals, shared
<1>5. \A s \in Thread \ {t} : SameRole(s) /\ SameStatus(s)
  BY <1>3, <1>4, Agents DEF SameRole, SameStatus
<1>6. pc'[Main] = pc[Main] /\ todo'[Main] = todo[Main]
  BY <1>3, Agents
<1>7. Leaving(t)'
  BY <1>2, <1>3, <1>4 DEF Leaving
<1>8. IsInjective(list) /\ Range(list) = Kids(t) /\ (list = << >> <=> Kids(t) = {})
  BY <1>1, <1>2, PartFacts
<1>9. Kids(t)' = Kids(t) /\ Ahead(t)' = Range(list)
  BY <1>3 DEF Kids, Ahead
<1> HIDE DEF list
<1>10. Local(t)'
  BY <1>1, <1>2, <1>3, <1>4, <1>8 DEF Local
<1>11. \A u \in Kids(t) : Leaving(u)'
  BY <1>1, <1>2, <1>4, <1>5, SameStatusFollows, TreeFacts DEF Edges, JoinEdge, Follows
<1>12. Edges(t)'
  BY <1>3, <1>8, <1>9, <1>11
     DEF Edges, FirstPassEdge, LoweredFirst, LaterPassEdge, TaskEdge, JoinEdge
<1> QED  BY <1>2, <1>4, <1>5, <1>6, <1>7, <1>10, <1>12, LeavingFollows, WorkerFrame

(***************************************************************************)
(* The steps of a worker on one of its subordinates.                       *)
(***************************************************************************)

\* Every thread a loop visits is a subordinate.
LEMMA TargetIsKid ==
    ASSUME IInv, NEW t \in Thread, pc[t] \in LoopLabel
    PROVE  /\ Target(t) \in Ahead(t) /\ Target(t) \in Kids(t)
           /\ Ahead(t) \subseteq Kids(t)
<1>1. TypeOK /\ Local(t) /\ Edges(t)
  BY DEF IInv
<1>2. Target(t) \in Ahead(t)
  BY <1>1, LoopFacts, Agents DEF Local
<1>3. Ahead(t) \subseteq Kids(t)
  <2>1. Part(t) \subseteq Kids(t)
    BY <1>1, PartFacts
  <2>2. CASE pc[t] \in {"notifyReset", "notifySet"} /\ pass[t] # 0
    BY <1>1, <2>1, <2>2 DEF Edges, LaterPassEdge
  <2>3. CASE pc[t] \in {"notifyReset", "notifySet", "fork"} /\ pass[t] = 0
    BY <1>1, <2>3 DEF Edges, FirstPassEdge
  <2>4. CASE pc[t] = "waitSub"
    BY <1>1, <2>1, <2>4 DEF Edges, TaskEdge
  <2>5. CASE pc[t] = "join"
    BY <1>1, <2>5 DEF Edges, JoinEdge
  <2>6. pc[t] = "fork" => pass[t] = 0
    BY <1>1 DEF Local
  <2> QED  BY <2>2, <2>3, <2>4, <2>5, <2>6 DEF LoopLabel
<1> QED  BY <1>2, <1>3

\* A worker that resets signalTaskProcessed_ of a subordinate keeps the invariant.
LEMMA NotifyResetInv ==
    ASSUME IInv, TypeOK', NEW t \in Thread, NotifyReset(t)
    PROVE  IInv'
<1>0. PICK u : u = Target(t)
  OBVIOUS
<1>1. TypeOK /\ Shape(t) /\ Local(t) /\ Edges(t)
  BY DEF IInv
<1>2. pc[t] = "notifyReset" /\ Active(t)
  BY ShapeOf DEF NotifyReset
<1>3. u \in Ahead(t) /\ u \in Kids(t) /\ Ahead(t) \subseteq Kids(t)
      /\ u \in Thread /\ u # t
  BY <1>0, <1>2, TargetIsKid, TreeFacts DEF LoopLabel
<1>4. /\ pc'[t] = "notifySet" /\ processed'[u] = 0
      /\ \A b \in Agent \ {t} : pc'[b] = pc[b]
      /\ \A s \in Thread \ {u} : processed'[s] = processed[s]
      /\ todo' = todo /\ avail' = avail /\ handle' = handle /\ pass' = pass
      /\ task' = task /\ ref' = ref /\ joinRequested' = joinRequested
  BY <1>0, <1>1, <1>3, Agents DEF NotifyReset, TypeOK, locals, shared
<1>5. \A s \in Thread \ {t, u} : SameRole(s) /\ SameStatus(s)
  BY <1>4, Agents DEF SameRole, SameStatus
<1>6. pc'[Main] = pc[Main] /\ todo'[Main] = todo[Main]
  BY <1>4, Agents
<1>7. Active(t)'
  BY <1>2, <1>3, <1>4 DEF Active
<1>8. Local(t)'
  BY <1>1, <1>2, <1>4 DEF Local
<1>9. SameRole(u) /\ pc'[u] = pc[u]
  BY <1>3, <1>4, Agents DEF SameRole
<1>10. Fresh(u) \/ Asleep(u)
  BY <1>0, <1>1, <1>2, <1>3 DEF Edges, FirstPassEdge, LaterPassEdge
<1>11. /\ Fresh(u) => Fresh(u)'
       /\ Asleep(u) => Asleep(u)'
  BY <1>4, <1>9 DEF Fresh, Asleep
<1>12. Shape(u)'
  BY <1>10, <1>11 DEF Shape
<1>13. \A s \in Kids(t) \ {u} : Follows(s)
  BY <1>3, <1>4, <1>5, SameStatusFollows, TreeFacts
<1>14. \A s \in Kids(u) : Follows(s)
  BY <1>3, <1>4, <1>5, SameStatusFollows, TreeFacts
<1>15. Edges(u)' /\ Local(u)'
  BY <1>3, <1>4, <1>9, <1>14, EdgesFrame, LocalFrame DEF IInv
<1>16. /\ Kids(t)' = Kids(t) /\ Part(t)' = Part(t) /\ Ahead(t)' = Ahead(t)
       /\ Target(t)' = Target(t)
  BY <1>4 DEF Kids, Part, Ahead, NumThreadsForTask, Target
<1>18. Part(t) \subseteq Kids(t)
  BY <1>1, PartFacts
<1>19. \A s \in Kids(t) : /\ Fresh(s) => Fresh(s)'
                          /\ Asleep(s) => Asleep(s)'
  BY <1>11, <1>13 DEF Follows
<1>21. CASE pass[t] = 0
  <2>1. /\ Fresh(u)'
        /\ \A s \in Ahead(t) : s # u => Fresh(s)'
        /\ \A s \in Kids(t) \ Ahead(t) : Engaged(s)'
    BY <1>1, <1>2, <1>3, <1>13, <1>0, <1>19, <1>21 DEF Edges, FirstPassEdge, Follows
  <2>2. Edges(t)'
    BY <1>3, <1>4, <1>0, <1>16, <1>21, <2>1
       DEF Edges, FirstPassEdge, LoweredFirst, LaterPassEdge, TaskEdge, JoinEdge
  <2> QED
    BY <1>2, <1>3, <1>4, <1>5, <1>6, <1>7, <1>8, <1>12, <1>15, <2>2, ActiveFollows, PairFrame
<1>22. CASE pass[t] # 0
  <2>1. /\ Ahead(t) \subseteq Part(t)
        /\ \A s \in Ahead(t) : Asleep(s)'
        /\ \A s \in Part(t) \ Ahead(t) : Engaged(s)'
        /\ \A s \in Kids(t) \ Part(t) : Asleep(s)'
    BY <1>1, <1>2, <1>3, <1>13, <1>18, <1>19, <1>22 DEF Edges, LaterPassEdge, Follows
  <2>2. Edges(t)'
    BY <1>3, <1>4, <1>0, <1>16, <1>22, <2>1
       DEF Edges, FirstPassEdge, LoweredFirst, LaterPassEdge, TaskEdge, JoinEdge
  <2> QED
    BY <1>2, <1>3, <1>4, <1>5, <1>6, <1>7, <1>8, <1>12, <1>15, <2>2, ActiveFollows, PairFrame
<1> QED  BY <1>21, <1>22

\* A worker that wakes up a subordinate keeps the invariant.
LEMMA NotifySetInv ==
    ASSUME IInv, TypeOK', NEW t \in Thread, NotifySet(t)
    PROVE  IInv'
<1>0. PICK u : u = Target(t)
  OBVIOUS
<1>1. TypeOK /\ Shape(t) /\ Local(t) /\ Edges(t)
  BY DEF IInv
<1>2. pc[t] = "notifySet" /\ Active(t)
  BY ShapeOf DEF NotifySet
<1>3. u \in Ahead(t) /\ u \in Kids(t) /\ Ahead(t) \subseteq Kids(t)
      /\ u \in Thread /\ u # t /\ t # Main
  BY <1>0, <1>2, TargetIsKid, TreeFacts, Agents DEF LoopLabel
<1>4. /\ avail'[u] = 1
      /\ \A s \in Thread \ {u} : avail'[s] = avail[s]
      /\ processed' = processed /\ handle' = handle /\ pass' = pass
      /\ task' = task /\ ref' = ref /\ joinRequested' = joinRequested
  BY <1>0, <1>1, <1>3, Agents DEF NotifySet, TypeOK, locals, shared
<1>5. processed[u] = 0
  BY <1>0, <1>1, <1>2 DEF Edges, LoweredFirst
<1>6. /\ Kids(t)' = Kids(t) /\ Part(t)' = Part(t) /\ u = Target(t)
      /\ Part(t) \subseteq Kids(t)
  BY <1>0, <1>1, <1>4, PartFacts DEF Kids, Part, NumThreadsForTask
<1>7. CASE pass[t] = 0
  <2>1. pc'[t] = "fork" /\ todo' = todo /\ \A b \in Agent \ {t} : pc'[b] = pc[b]
    BY <1>1, <1>3, <1>7, Agents DEF NotifySet, TypeOK
  <2>2. \A s \in Thread \ {t, u} : SameRole(s) /\ SameStatus(s)
    BY <1>4, <2>1, Agents DEF SameRole, SameStatus
  <2>3. Active(t)' /\ pc'[Main] = pc[Main] /\ todo'[Main] = todo[Main]
    BY <1>2, <1>3, <1>4, <2>1, Agents DEF Active
  <2>4. Local(t)'
    BY <1>1, <1>2, <1>4, <1>7, <2>1 DEF Local
  <2>5. SameRole(u) /\ \A s \in Kids(u) : Follows(s)
    BY <1>3, <1>4, <2>1, <2>2, SameStatusFollows, TreeFacts, Agents DEF SameRole
  <2>6. Edges(u)' /\ Local(u)'
    BY <1>3, <1>4, <2>5, EdgesFrame, LocalFrame DEF IInv
  <2>7. /\ Fresh(u)
        /\ \A s \in Ahead(t) : s # u => Fresh(s)
        /\ \A s \in Kids(t) \ Ahead(t) : Engaged(s)
    BY <1>1, <1>2, <1>6, <1>7 DEF Edges, FirstPassEdge
  <2>8. \A s \in Kids(t) \ {u} : Follows(s)
    BY <1>4, <2>2, SameStatusFollows, TreeFacts
  <2>9. Armed(u)' /\ Shape(u)'
    BY <1>3, <1>4, <1>5, <2>1, <2>5, <2>7, Agents DEF Armed, Fresh, Shape, SameRole
  <2>10. /\ \A s \in Ahead(t) : s # u => Fresh(s)'
         /\ \A s \in Kids(t) \ Ahead(t) : Engaged(s)'
    BY <1>3, <2>7, <2>8 DEF Follows
  <2>11. Ahead(t)' = Ahead(t) /\ Target(t)' = u
    BY <1>6, <2>1 DEF Ahead, Target
  <2>12. Edges(t)'
    BY <1>3, <1>4, <1>6, <1>7, <2>1, <2>9, <2>10, <2>11
       DEF Edges, FirstPassEdge, LoweredFirst, LaterPassEdge, TaskEdge, JoinEdge
  <2> QED
    BY <1>2, <1>3, <1>4, <2>2, <2>3, <2>4, <2>6, <2>9, <2>12, ActiveFollows, PairFrame
<1>8. CASE pass[t] # 0
  <2> DEFINE list == Tail(todo[t])
  <2>1. /\ todo'[t] = list
        /\ pc'[t] = IF list = << >> THEN "run" ELSE "notifyReset"
        /\ \A b \in Agent \ {t} : pc'[b] = pc[b] /\ todo'[b] = todo[b]
    BY <1>1, <1>3, <1>8, EnterLoopFrame, Agents DEF NotifySet, Continue, AfterNotify
  <2>2. /\ IsInjective(list) /\ Range(list) = Ahead(t) \ {u}
        /\ list = << >> <=> Ahead(t) \ {u} = {}
    BY <1>1, <1>2, <1>6, LoopFacts, Agents DEF Local, LoopLabel
  <2>3. Ahead(t)' = Ahead(t) \ {u}
    BY <2>1, <2>2 DEF Ahead
  <2> HIDE DEF list
  <2>4. \A s \in Thread \ {t, u} : SameRole(s) /\ SameStatus(s)
    BY <1>4, <2>1, Agents DEF SameRole, SameStatus
  <2>5. Active(t)' /\ pc'[Main] = pc[Main] /\ todo'[Main] = todo[Main]
    BY <1>2, <1>3, <1>4, <2>1, Agents DEF Active
  <2>6. Local(t)'
    BY <1>1, <1>2, <1>4, <1>8, <2>1, <2>2 DEF Local
  <2>7. SameRole(u) /\ \A s \in Kids(u) : Follows(s)
    BY <1>3, <1>4, <2>1, <2>4, SameStatusFollows, TreeFacts, Agents DEF SameRole
  <2>8. Edges(u)' /\ Local(u)'
    BY <1>3, <1>4, <2>7, EdgesFrame, LocalFrame DEF IInv
  <2>9. /\ Ahead(t) \subseteq Part(t)
        /\ \A s \in Ahead(t) : Asleep(s)
        /\ \A s \in Part(t) \ Ahead(t) : Engaged(s)
        /\ \A s \in Kids(t) \ Part(t) : Asleep(s)
    BY <1>1, <1>2, <1>8 DEF Edges, LaterPassEdge
  <2>10. \A s \in Kids(t) \ {u} : Follows(s)
    BY <1>4, <2>4, SameStatusFollows, TreeFacts
  <2>11. Active(u)' /\ Shape(u)'
    BY <1>3, <1>4, <1>5, <2>7, <2>9 DEF Asleep, Active, Shape, SameRole
  <2>12. /\ Ahead(t)' \subseteq Part(t)
         /\ \A s \in Ahead(t)' : Asleep(s)'
         /\ \A s \in Part(t) \ Ahead(t)' : Engaged(s)'
         /\ \A s \in Kids(t) \ Part(t) : Asleep(s)'
    BY <1>3, <1>6, <2>3, <2>9, <2>10, <2>11 DEF Follows, Engaged
  <2>13. pc'[t] = IF Ahead(t)' = {} THEN "run" ELSE "notifyReset"
    BY <2>1, <2>2, <2>3
  <2>14. Edges(t)'
    BY <1>4, <1>6, <1>8, <2>12, <2>13
       DEF Edges, FirstPassEdge, LoweredFirst, LaterPassEdge, TaskEdge, JoinEdge
  <2> QED
    BY <1>2, <1>3, <1>4, <2>4, <2>5, <2>6, <2>8, <2>11, <2>14, ActiveFollows, PairFrame
<1> QED  BY <1>7, <1>8

\* A worker that joins a subordinate keeps the invariant.
LEMMA JoinInv ==
    ASSUME IInv, TypeOK', NEW t \in Thread, Join(t)
    PROVE  IInv'
<1>0. PICK u : u = Target(t)
  OBVIOUS
<1> DEFINE list == Tail(todo[t])
<1>1. TypeOK /\ Shape(t) /\ Local(t) /\ Edges(t)
  BY DEF IInv
<1>2. pc[t] = "join" /\ Leaving(t) /\ pc[u] = "exited"
  BY <1>0, ShapeOf DEF Join
<1>3. u \in Ahead(t) /\ u \in Kids(t) /\ Ahead(t) \subseteq Kids(t)
      /\ u \in Thread /\ u # t /\ t # Main
  BY <1>0, <1>2, TargetIsKid, TreeFacts, Agents DEF LoopLabel
<1>4. /\ handle'[u] = FALSE
      /\ \A s \in Thread \ {u} : handle'[s] = handle[s]
      /\ processed' = processed /\ avail' = avail /\ pass' = pass
      /\ task' = task /\ ref' = ref /\ joinRequested' = joinRequested
  BY <1>0, <1>1, <1>3, Agents DEF Join, TypeOK, locals, shared, signals
<1>5. /\ todo'[t] = list
      /\ pc'[t] = IF list = << >> THEN "exited" ELSE "join"
      /\ \A b \in Agent \ {t} : pc'[b] = pc[b] /\ todo'[b] = todo[b]
  BY <1>1, <1>3, EnterLoopFrame, Agents DEF Join, Continue
<1>6. /\ IsInjective(list) /\ Range(list) = Ahead(t) \ {u}
      /\ list = << >> <=> Ahead(t) \ {u} = {}
  BY <1>0, <1>1, <1>2, LoopFacts, Agents DEF Local, LoopLabel
<1>7. Ahead(t)' = Ahead(t) \ {u} /\ Kids(t)' = Kids(t)
  BY <1>5, <1>6 DEF Ahead, Kids
<1>8. Leaving(u)
  BY <1>1, <1>2, <1>3 DEF Edges, JoinEdge
<1> HIDE DEF list
<1>9. \A s \in Thread \ {t, u} : SameRole(s) /\ SameStatus(s)
  BY <1>4, <1>5, Agents DEF SameRole, SameStatus
<1>10. Leaving(t)' /\ pc'[Main] = pc[Main] /\ todo'[Main] = todo[Main]
       /\ processed'[t] = processed[t]
  BY <1>2, <1>3, <1>4, <1>5, Agents DEF Leaving
<1>11. Local(t)'
  BY <1>1, <1>2, <1>4, <1>5, <1>6 DEF Local
<1>12. SameRole(u) /\ \A s \in Kids(u) : Follows(s)
  BY <1>3, <1>4, <1>5, <1>9, SameStatusFollows, TreeFacts, Agents DEF SameRole
<1>13. Edges(u)' /\ Local(u)'
  BY <1>3, <1>4, <1>12, EdgesFrame, LocalFrame DEF IInv
<1>14. Left(u)' /\ Shape(u)'
  BY <1>2, <1>4, <1>8, <1>12 DEF Left, Leaving, Shape, SameRole
<1>15. \A s \in Kids(t) \ {u} : Follows(s)
  BY <1>4, <1>9, SameStatusFollows, TreeFacts
<1>16. /\ \A s \in Ahead(t)' : Leaving(s)'
       /\ \A s \in Kids(t) \ Ahead(t)' : Left(s)'
       /\ Ahead(t)' \subseteq Kids(t)
  BY <1>1, <1>2, <1>3, <1>7, <1>14, <1>15 DEF Edges, JoinEdge, Follows
<1>17. pc'[t] = IF Ahead(t)' = {} THEN "exited" ELSE "join"
  BY <1>5, <1>6, <1>7
<1>18. Edges(t)'
  BY <1>7, <1>16, <1>17
     DEF Edges, FirstPassEdge, LoweredFirst, LaterPassEdge, TaskEdge, JoinEdge
<1> QED
  BY <1>2, <1>3, <1>4, <1>9, <1>10, <1>11, <1>13, <1>14, <1>18, LeavingFollows, PairFrame

\* A thread that has just been forked is in its first pass.
LEMMA ForkStart ==
    ASSUME IInv, NEW u \in Thread, Armed(u), task' = task,
           todo'[u] = ToSub[u][NumThreads],
           pc'[u] = IF ToSub[u][NumThreads] = << >> THEN "taskWait" ELSE "notifyReset",
           handle'[u] = TRUE, avail'[u] = avail[u], processed'[u] = processed[u],
           pass'[u] = pass[u], ref'[u] = ref[u], \A s \in Kids(u) : Follows(s)
    PROVE  Active(u)' /\ Local(u)' /\ Edges(u)'
<1>1. pc[u] = "none" /\ pass[u] = 0 /\ Local(u) /\ Edges(u)
  BY DEF Armed, IInv
<1>2. Active(u)'
  BY DEF Armed, Active
<1>3. \A v \in Kids(u) : v < NumThreads
  BY KidsBelow
<1>4. IsInjective(ToSub[u][NumThreads]) /\ Range(ToSub[u][NumThreads]) = Kids(u)
  <2>1. NumThreads \in 0 .. NumThreads
    BY TreeFacts
  <2>2. /\ IsInjective(ToSub[u][NumThreads])
        /\ Range(ToSub[u][NumThreads]) = { v \in Kids(u) : v < NumThreads }
    BY <2>1, TreeFacts
  <2> QED  BY <1>3, <2>2
<1>5. ToSub[u][NumThreads] = << >> <=> Kids(u) = {}
  BY <1>4, TreeFacts, ListFacts
<1>6. Local(u)'
  BY <1>1, <1>4 DEF Local
<1>7. Kids(u)' = Kids(u) /\ Ahead(u)' = Kids(u)
  BY <1>4 DEF Kids, Ahead
<1>8. \A v \in Kids(u) : Fresh(v)'
  BY <1>1 DEF Edges, FirstPassEdge, Follows
<1>9. Kids(u) # {} => Target(u)' \in Kids(u)
  BY <1>4, <1>5, TreeFacts, TailFacts DEF Target
<1>10. Edges(u)'
  BY <1>1, <1>5, <1>7, <1>8, <1>9
     DEF Edges, FirstPassEdge, LoweredFirst, LaterPassEdge, TaskEdge, JoinEdge
<1> QED  BY <1>2, <1>6, <1>10

\* A worker that forks a subordinate keeps the invariant.
LEMMA ForkInv ==
    ASSUME IInv, TypeOK', NEW t \in Thread, Fork(t)
    PROVE  IInv'
<1>0. PICK u : u = Target(t)
  OBVIOUS
<1> DEFINE list  == Tail(todo[t])
           start == IF ToSub[u][NumThreads] = << >> THEN "taskWait" ELSE "notifyReset"
<1>1. TypeOK /\ Shape(t) /\ Local(t) /\ Edges(t)
  BY DEF IInv
<1>2. pc[t] = "fork" /\ Active(t) /\ pass[t] = 0
  BY <1>1, ShapeOf DEF Fork, Local
<1>3. u \in Ahead(t) /\ u \in Kids(t) /\ Ahead(t) \subseteq Kids(t)
      /\ u \in Thread /\ u # t /\ t # Main /\ u # Main
  BY <1>0, <1>2, TargetIsKid, TreeFacts, Agents DEF LoopLabel
<1>4. /\ handle'[u] = TRUE
      /\ \A s \in Thread \ {u} : handle'[s] = handle[s]
      /\ processed' = processed /\ avail' = avail /\ pass' = pass
      /\ task' = task /\ ref' = ref /\ joinRequested' = joinRequested
  BY <1>0, <1>1, <1>3, Agents DEF Fork, TypeOK, locals, shared, signals
<1>5. /\ todo'[t] = list /\ todo'[u] = ToSub[u][NumThreads]
      /\ pc'[t] = IF list = << >> THEN "taskWait" ELSE "notifyReset"
      /\ pc'[u] = start
      /\ \A b \in Agent \ {t, u} : pc'[b] = pc[b] /\ todo'[b] = todo[b]
  BY <1>0, <1>1, <1>2, <1>3, Agents DEF Fork, AfterNotify, TypeOK
<1>6. /\ IsInjective(list) /\ Range(list) = Ahead(t) \ {u}
      /\ list = << >> <=> Ahead(t) \ {u} = {}
      /\ list # << >> => Head(list) \in Ahead(t) \ {u}
  BY <1>0, <1>1, <1>2, LoopFacts, Agents DEF Local, LoopLabel
<1>7. Ahead(t)' = Ahead(t) \ {u} /\ Kids(t)' = Kids(t) /\ Target(t)' = Head(list)
  BY <1>5, <1>6 DEF Ahead, Kids, Target
<1>8. /\ Armed(u)
      /\ \A s \in Ahead(t) : s # u => Fresh(s)
      /\ \A s \in Kids(t) \ Ahead(t) : Engaged(s)
  BY <1>0, <1>1, <1>2 DEF Edges, FirstPassEdge
<1> HIDE DEF list
<1>9. \A s \in Thread \ {t, u} : SameRole(s) /\ SameStatus(s)
  BY <1>4, <1>5, Agents DEF SameRole, SameStatus
<1>10. Active(t)' /\ pc'[Main] = pc[Main] /\ todo'[Main] = todo[Main]
  BY <1>2, <1>3, <1>4, <1>5, Agents DEF Active
<1>11. Local(t)'
  BY <1>1, <1>2, <1>4, <1>5, <1>6 DEF Local
<1>12. \A s \in Kids(u) : Follows(s)
  BY <1>3, <1>4, <1>9, SameStatusFollows, TreeFacts
<1>13. Active(u)' /\ Edges(u)' /\ Local(u)'
  BY <1>3, <1>4, <1>5, <1>8, <1>12, ForkStart
<1>14. \A s \in Kids(t) \ {u} : Follows(s)
  BY <1>4, <1>9, SameStatusFollows, TreeFacts
<1>15. /\ \A s \in Ahead(t)' : Fresh(s)'
       /\ \A s \in Kids(t) \ Ahead(t)' : Engaged(s)'
       /\ Ahead(t)' \subseteq Kids(t)
  BY <1>3, <1>7, <1>8, <1>13, <1>14 DEF Follows, Engaged
<1>16. pc'[t] = IF Ahead(t)' = {} THEN "taskWait" ELSE "notifyReset"
  BY <1>5, <1>6, <1>7
<1>17. Ahead(t)' # {} => Target(t)' \in Ahead(t)'
  BY <1>6, <1>7
<1>18. Edges(t)'
  BY <1>2, <1>4, <1>7, <1>15, <1>16, <1>17
     DEF Edges, FirstPassEdge, LoweredFirst, LaterPassEdge, TaskEdge, JoinEdge
<1>19. Shape(u)'
  BY <1>13 DEF Shape
<1> QED
  BY <1>2, <1>3, <1>4, <1>9, <1>10, <1>11, <1>13, <1>18, <1>19, ActiveFollows, PairFrame

(***************************************************************************)
(* The steps of the owner.                                                 *)
(***************************************************************************)

\* What the root edge looks like at a label of the owner.
LEMMA RootTarget ==
    ASSUME IInv, pc[Main] \in LoopLabel
    PROVE  todo[Main] = <<0>> /\ Target(Main) = 0
  BY RootList DEF IInv, RootEdge, Target

\* The owner resetting signalTaskProcessed_ of thread 0 keeps the invariant.
LEMMA OwnerNotifyResetInv ==
    ASSUME IInv, TypeOK', NotifyReset(Main)
    PROVE  IInv'
<1>1. TypeOK /\ TaskHeld /\ RootEdge /\ Shape(0) /\ Local(0)
  BY RootList DEF IInv
<1>2. pc[Main] = "notifyReset" /\ Target(Main) = 0 /\ (Fresh(0) \/ Asleep(0))
      /\ task # NoTask /\ todo[Main] = <<0>>
  BY <1>1, RootTarget DEF NotifyReset, LoopLabel, RootEdge, TaskHeld
<1>3. /\ pc'[Main] = "notifySet" /\ processed'[0] = 0
      /\ \A t \in Thread : pc'[t] = pc[t]
      /\ \A s \in Thread \ {0} : processed'[s] = processed[s]
      /\ todo' = todo /\ avail' = avail /\ handle' = handle /\ pass' = pass
      /\ task' = task /\ ref' = ref /\ joinRequested' = joinRequested
  BY <1>1, <1>2, RootList, Agents DEF NotifyReset, TypeOK, locals, shared
<1>4. \A s \in Thread \ {0} : SameRole(s) /\ SameStatus(s)
  BY <1>3 DEF SameRole, SameStatus
<1>5. SameRole(0)
  BY <1>3, RootList DEF SameRole
<1>6. \A s \in Kids(0) : Follows(s)
  BY <1>3, <1>4, RootList, TreeFacts, SameStatusFollows
<1>7. Edges(0)' /\ Local(0)'
  BY <1>1, <1>3, <1>5, <1>6, RootList, EdgesFrame, LocalFrame
<1>8. Fresh(0)' \/ Asleep(0)'
  BY <1>2, <1>3, RootList DEF Fresh, Asleep
<1>9. RootEdge' /\ TaskHeld'
  BY <1>1, <1>2, <1>3, <1>8 DEF RootEdge, TaskHeld
<1>10. Shape(0)'
  BY <1>8 DEF Shape
<1> QED  BY <1>3, <1>4, <1>7, <1>9, <1>10, RootPairFrame

\* The owner waking up thread 0 keeps the invariant.
LEMMA OwnerNotifySetInv ==
    ASSUME IInv, TypeOK', NotifySet(Main)
    PROVE  IInv'
<1>1. TypeOK /\ TaskHeld /\ RootEdge /\ Shape(0) /\ Local(0)
  BY RootList DEF IInv
<1>2. /\ pc[Main] = "notifySet" /\ Target(Main) = 0 /\ (Fresh(0) \/ Asleep(0))
      /\ processed[0] = 0 /\ task # NoTask /\ todo[Main] = <<0>>
  BY <1>1, RootTarget DEF NotifySet, LoopLabel, RootEdge, TaskHeld
<1>3. /\ pc'[Main] = IF handle[0] THEN "waitSub" ELSE "fork"
      /\ avail'[0] = 1
      /\ \A t \in Thread : pc'[t] = pc[t]
      /\ \A s \in Thread \ {0} : avail'[s] = avail[s]
      /\ todo' = todo /\ processed' = processed /\ handle' = handle /\ pass' = pass
      /\ task' = task /\ ref' = ref /\ joinRequested' = joinRequested
  BY <1>1, <1>2, RootList, Agents DEF NotifySet, TypeOK, locals, shared
<1>4. \A s \in Thread \ {0} : SameRole(s) /\ SameStatus(s)
  BY <1>3 DEF SameRole, SameStatus
<1>5. SameRole(0)
  BY <1>3, RootList DEF SameRole
<1>6. \A s \in Kids(0) : Follows(s)
  BY <1>3, <1>4, RootList, TreeFacts, SameStatusFollows
<1>7. Edges(0)' /\ Local(0)'
  BY <1>1, <1>3, <1>5, <1>6, RootList, EdgesFrame, LocalFrame
<1>8. IF handle[0] THEN Active(0)' ELSE Armed(0)'
  BY <1>2, <1>3, RootList DEF Fresh, Asleep, Active, Armed
<1>9. RootEdge' /\ TaskHeld'
  BY <1>1, <1>2, <1>3, <1>8 DEF RootEdge, TaskHeld, Engaged
<1>10. Shape(0)'
  BY <1>8 DEF Shape
<1> QED  BY <1>3, <1>4, <1>7, <1>9, <1>10, RootPairFrame

\* The owner forking thread 0 keeps the invariant.
LEMMA OwnerForkInv ==
    ASSUME IInv, TypeOK', Fork(Main)
    PROVE  IInv'
<1>1. TypeOK /\ TaskHeld /\ RootEdge /\ Shape(0) /\ Local(0)
  BY RootList DEF IInv
<1>2. /\ pc[Main] = "fork" /\ Target(Main) = 0 /\ Armed(0)
      /\ task # NoTask /\ todo[Main] = <<0>>
  BY <1>1, RootTarget DEF Fork, LoopLabel, RootEdge, TaskHeld
<1>3. /\ pc'[Main] = "waitSub" /\ todo'[Main] = todo[Main]
      /\ todo'[0] = ToSub[0][NumThreads] /\ handle'[0] = TRUE
      /\ pc'[0] = IF ToSub[0][NumThreads] = << >> THEN "taskWait" ELSE "notifyReset"
      /\ \A s \in Thread \ {0} :
            pc'[s] = pc[s] /\ todo'[s] = todo[s] /\ handle'[s] = handle[s]
      /\ avail' = avail /\ processed' = processed /\ pass' = pass
      /\ task' = task /\ ref' = ref /\ joinRequested' = joinRequested
  BY <1>1, <1>2, RootList, Agents DEF Fork, TypeOK, locals, shared, signals
<1>4. \A s \in Thread \ {0} : SameRole(s) /\ SameStatus(s)
  BY <1>3 DEF SameRole, SameStatus
<1>5. \A s \in Kids(0) : Follows(s)
  BY <1>3, <1>4, RootList, TreeFacts, SameStatusFollows
<1>6. Active(0)' /\ Edges(0)' /\ Local(0)'
  BY <1>2, <1>3, <1>5, RootList, ForkStart
<1>7. RootEdge' /\ TaskHeld'
  BY <1>1, <1>2, <1>3, <1>6 DEF RootEdge, TaskHeld, Engaged
<1>8. Shape(0)'
  BY <1>6 DEF Shape
<1> QED  BY <1>3, <1>4, <1>6, <1>7, <1>8, RootPairFrame

\* The end of the wait of the owner keeps the invariant.
LEMMA MainWaitInv ==
    ASSUME IInv, TypeOK', MainWait
    PROVE  IInv'
<1>1. TypeOK /\ TaskHeld /\ RootEdge /\ Shape(0) /\ Local(0)
  BY RootList DEF IInv
<1>2. /\ pc[Main] = "waitSub" /\ processed[0] = 1 /\ Engaged(0)
      /\ task # NoTask /\ todo[Main] = <<0>>
  BY <1>1, RootTarget DEF MainWait, LoopLabel, RootEdge, TaskHeld
<1>3. /\ pc'[Main] = IF task.join THEN "join" ELSE "release"
      /\ \A s \in Thread : pc'[s] = pc[s]
      /\ todo' = todo /\ handle' = handle
      /\ avail' = avail /\ processed' = processed /\ pass' = pass
      /\ task' = task /\ ref' = ref /\ joinRequested' = joinRequested
  BY <1>1, Agents DEF MainWait, TypeOK, locals, shared, signals
<1>4. \A s \in Thread : SameRole(s) /\ SameStatus(s)
  BY <1>3 DEF SameRole, SameStatus
<1>5. \A s \in Kids(0) : Follows(s)
  BY <1>3, <1>4, RootList, TreeFacts, SameStatusFollows
<1>6. Edges(0)' /\ Local(0)' /\ Shape(0)'
  BY <1>1, <1>3, <1>4, <1>5, RootList, EdgesFrame, LocalFrame, ShapeFrame
<1>7. Parked(0)
  BY <1>2 DEF Engaged, Active
<1>8. IF task.join THEN Leaving(0)' ELSE Asleep(0)'
  BY <1>3, <1>7, RootList DEF Parked, Leaving, Asleep
<1>9. RootEdge' /\ TaskHeld'
  BY <1>1, <1>2, <1>3, <1>8 DEF RootEdge, TaskHeld
<1> QED  BY <1>3, <1>4, <1>6, <1>9, RootPairFrame

\* The owner joining thread 0 keeps the invariant.
LEMMA OwnerJoinInv ==
    ASSUME IInv, TypeOK', Join(Main)
    PROVE  IInv'
<1>1. TypeOK /\ TaskHeld /\ RootEdge /\ Shape(0) /\ Local(0)
  BY RootList DEF IInv
<1>2. /\ pc[Main] = "join" /\ Target(Main) = 0 /\ Leaving(0) /\ task.join
      /\ task # NoTask /\ todo[Main] = <<0>> /\ pc[0] = "exited"
  BY <1>1, RootTarget DEF Join, LoopLabel, RootEdge, TaskHeld
<1>3. Tail(todo[Main]) = << >>
  BY <1>2
<1>4. /\ pc'[Main] = "release" /\ handle'[0] = FALSE
      /\ \A s \in Thread : pc'[s] = pc[s] /\ todo'[s] = todo[s]
      /\ \A s \in Thread \ {0} : handle'[s] = handle[s]
      /\ avail' = avail /\ processed' = processed /\ pass' = pass
      /\ task' = task /\ ref' = ref /\ joinRequested' = joinRequested
  <2>1. EnterLoop(Main, << >>, "join", "release")
    BY <1>2, <1>3 DEF Join, Continue
  <2> QED  BY <1>1, <1>2, <2>1, EnterLoopFrame, RootList, Agents
           DEF Join, TypeOK, locals, shared, signals
<1>5. \A s \in Thread \ {0} : SameRole(s) /\ SameStatus(s)
  BY <1>4 DEF SameRole, SameStatus
<1>6. SameRole(0)
  BY <1>4, RootList DEF SameRole
<1>7. \A s \in Kids(0) : Follows(s)
  BY <1>4, <1>5, RootList, TreeFacts, SameStatusFollows
<1>8. Edges(0)' /\ Local(0)'
  BY <1>1, <1>4, <1>6, <1>7, RootList, EdgesFrame, LocalFrame
<1>9. Left(0)' /\ Shape(0)'
  BY <1>2, <1>4, RootList DEF Left, Leaving, Shape
<1>10. RootEdge' /\ TaskHeld'
  BY <1>1, <1>2, <1>4, <1>9 DEF RootEdge, TaskHeld, LoopLabel
<1> QED  BY <1>4, <1>5, <1>8, <1>9, <1>10, RootPairFrame

(***************************************************************************)
(* Starting and ending a task, when all threads are quiet.                 *)
(***************************************************************************)

\* What holds of thread 0 and is handed down from every thread to its subordinates
\* holds of all threads.
LEMMA DownTheTree ==
    ASSUME NEW S, 0 \in S, \A t \in Thread : t \in S => Kids(t) \subseteq S
    PROVE  Thread \subseteq S
<1> SUFFICES ASSUME Thread \ S # {} PROVE FALSE
  OBVIOUS
<1> DEFINE T == Thread \ S
           R == OpToRel(<, Nat)
<1>1. T \subseteq Nat /\ T # {}
  BY DEF Thread
<1>2. IsWellFoundedOn(R, Nat)
  BY NatLessThanWellFounded
<1> HIDE DEF R, T
<1>3. PICK u \in T : \A y \in T : ~ (<<y, u>> \in R)
  BY <1>1, <1>2, WFMin
<1>4. \A y \in T : ~ (y < u)
  <2> SUFFICES ASSUME NEW y \in T, y < u PROVE FALSE
    OBVIOUS
  <2>1. <<y, u>> \in R
    BY <1>1 DEF R, OpToRel
  <2> QED  BY <1>3, <2>1
<1>5. u \in Thread \ {0} /\ u \notin S
  BY DEF T
<1>6. PICK t \in Thread : u \in Kids(t)
  BY <1>5, TreeFacts
<1>7. t < u
  BY <1>6, TreeFacts
<1>8. t \notin T
  BY <1>4, <1>7
<1> QED  BY <1>5, <1>6, <1>8 DEF T

\* As long as thread 0 has not been forked, nobody has.
LEMMA AllFresh == ASSUME IInv, Fresh(0) PROVE \A t \in Thread : Fresh(t)
<1> DEFINE S == {t \in Thread : Fresh(t)}
<1>1. \A t \in Thread : t \in S => Kids(t) \subseteq S
  BY TreeFacts DEF IInv, Edges, FirstPassEdge, Fresh
<1>2. 0 \in S
  BY RootList
<1> HIDE DEF S
<1>3. Thread \subseteq S
  BY <1>1, <1>2, DownTheTree
<1> QED  BY <1>3 DEF S

\* When thread 0 sleeps between two tasks, everybody does.
LEMMA AllAsleep == ASSUME IInv, Asleep(0) PROVE \A t \in Thread : Asleep(t)
<1> DEFINE S == {t \in Thread : Asleep(t)}
<1>1. \A t \in Thread : t \in S => Kids(t) \subseteq S
  BY TreeFacts DEF IInv, Edges, LaterPassEdge, Asleep
<1>2. 0 \in S
  BY RootList
<1> HIDE DEF S
<1>3. Thread \subseteq S
  BY <1>1, <1>2, DownTheTree
<1> QED  BY <1>3 DEF S

\* When thread 0 has returned and was joined, so was everybody.
LEMMA AllLeft == ASSUME IInv, Left(0) PROVE \A t \in Thread : Left(t)
<1> DEFINE S == {t \in Thread : Left(t)}
<1>1. \A t \in Thread : t \in S => Kids(t) \subseteq S
  BY TreeFacts DEF IInv, Edges, JoinEdge, Left
<1>2. 0 \in S
  BY RootList
<1> HIDE DEF S
<1>3. Thread \subseteq S
  BY <1>1, <1>2, DownTheTree
<1> QED  BY <1>3 DEF S

\* While all threads are quiet, the owner may change the task.
LEMMA QuietFrame ==
    ASSUME IInv, TypeOK',
           \/ \A t \in Thread : Fresh(t)
           \/ \A t \in Thread : Asleep(t)
           \/ \A t \in Thread : Left(t),
           \A t \in Thread : SameRole(t) /\ SameStatus(t),
           RootEdge', TaskHeld'
    PROVE  IInv'
<1>1. ASSUME NEW t \in Thread PROVE Kids(t)' = Kids(t) /\ Kids(t) \subseteq Thread
  BY TreeFacts DEF Kids
<1>2. ASSUME NEW t \in Thread PROVE Local(t)'
  BY DEF IInv, Local, SameRole, Fresh, Asleep, Left
<1>3. ASSUME NEW t \in Thread PROVE Shape(t)' 
  BY ShapeFrame DEF IInv
<1>4. \A t \in Thread : /\ Fresh(t) => Fresh(t)'
                        /\ Asleep(t) => Asleep(t)'
                        /\ Left(t) => Left(t)'
  BY DEF Fresh, Asleep, Left, SameStatus
<1>5. ASSUME NEW t \in Thread PROVE Edges(t)'
  <2>1. CASE \A s \in Thread : Fresh(s)
    BY <1>1, <1>4, <2>1
       DEF Fresh, Edges, FirstPassEdge, LoweredFirst, LaterPassEdge, TaskEdge, JoinEdge
  <2>2. CASE \A s \in Thread : Asleep(s)
    BY <1>1, <1>4, <2>2
       DEF Asleep, Edges, FirstPassEdge, LoweredFirst, LaterPassEdge, TaskEdge, JoinEdge
  <2>3. CASE \A s \in Thread : Left(s)
    BY <1>1, <1>4, <2>3
       DEF Left, Edges, FirstPassEdge, LoweredFirst, LaterPassEdge, TaskEdge, JoinEdge
  <2> QED  BY <2>1, <2>2, <2>3
<1> QED  BY <1>2, <1>3, <1>5 DEF IInv

\* A call of run, and the deleter, keep the invariant.
LEMMA SubmitInv ==
    ASSUME IInv, TypeOK', NEW c \in 0 .. NumThreads, NEW j \in BOOLEAN, NEW id,
           id # 0, Submit(c, j, id)
    PROVE  IInv'
<1>1. TypeOK /\ TaskHeld /\ RootEdge
  BY DEF IInv
<1>2. pc[Main] = "idle" /\ task = NoTask /\ (Fresh(0) \/ Asleep(0))
  BY <1>1 DEF Submit, TaskHeld, RootEdge
<1>3. (\A t \in Thread : Fresh(t)) \/ (\A t \in Thread : Asleep(t))
  BY <1>2, AllFresh, AllAsleep
<1>4. CASE c # 0 \/ (j /\ handle[0])
  <2>1. EnterLoop(Main, <<0>>, "notifyReset", "notifyReset")
        /\ task' = [id |-> id, concurrency |-> c, join |-> j]
        /\ UNCHANGED <<signals, handle, locals>>
    BY <1>4 DEF Submit
  <2>2. pc'[Main] = "notifyReset" /\ todo'[Main] = <<0>>
        /\ \A b \in Thread : pc'[b] = pc[b] /\ todo'[b] = todo[b]
    BY <1>1, <2>1, EnterLoopFrame, RootList, Agents
  <2>3. \A t \in Thread : SameRole(t) /\ SameStatus(t)
    BY <2>1, <2>2 DEF SameRole, SameStatus, signals, locals
  <2>4. task' # NoTask /\ task'.id # 0
    BY <2>1 DEF NoTask
  <2>5. TaskHeld'
    BY <2>2, <2>4 DEF TaskHeld
  <2>6. RootEdge'
    BY <1>2, <2>2, <2>3, RootList DEF RootEdge, SameStatus, Fresh, Asleep
  <2> QED  BY <1>3, <2>3, <2>5, <2>6, QuietFrame
<1>5. CASE ~(c # 0 \/ (j /\ handle[0]))
  <2>1. /\ pc'[Main] = IF j THEN "freed" ELSE "idle"
        /\ \A b \in Thread : pc'[b] = pc[b] /\ todo'[b] = todo[b]
        /\ todo' = todo /\ task' = task
        /\ UNCHANGED <<signals, handle, locals>>
    BY <1>1, <1>5, Agents DEF Submit, TypeOK
  <2>2. \A t \in Thread : SameRole(t) /\ SameStatus(t)
    BY <2>1 DEF SameRole, SameStatus, signals, locals
  <2>3. TaskHeld'
    BY <1>1, <1>2, <2>1 DEF TaskHeld
  <2>4. j => Fresh(0)
    BY <1>2, <1>5 DEF Asleep
  <2>5. RootEdge'
    BY <1>2, <2>1, <2>2, <2>4, RootList DEF RootEdge, SameStatus, Fresh, Asleep, LoopLabel
  <2> QED  BY <1>3, <2>2, <2>3, <2>5, QuietFrame
<1> QED  BY <1>4, <1>5

\* release_task and the end of a call keep the invariant.
LEMMA ReleaseInv ==
    ASSUME IInv, TypeOK', Release
    PROVE  IInv'
<1>1. TypeOK /\ TaskHeld /\ RootEdge
  BY DEF IInv
<1>2. pc[Main] = "release" /\ IF task.join THEN Left(0) ELSE Asleep(0)
  BY <1>1 DEF Release, RootEdge
<1>3. (\A t \in Thread : Left(t)) \/ (\A t \in Thread : Asleep(t))
  BY <1>2, AllLeft, AllAsleep
<1>4. /\ pc'[Main] = IF task.join THEN "freed" ELSE "idle"
      /\ \A b \in Thread : pc'[b] = pc[b] /\ todo'[b] = todo[b]
      /\ task' = NoTask /\ UNCHANGED <<signals, handle, locals>>
  BY <1>1, EnterLoopFrame, Agents DEF Release
<1>5. \A t \in Thread : SameRole(t) /\ SameStatus(t)
  BY <1>4 DEF SameRole, SameStatus, signals, locals
<1>6. TaskHeld'
  BY <1>4 DEF TaskHeld
<1>7. RootEdge'
  BY <1>2, <1>4, <1>5, RootList DEF RootEdge, SameStatus, Left, Asleep, LoopLabel
<1> QED  BY <1>3, <1>5, <1>6, <1>7, QuietFrame

(***************************************************************************)
(* The theorems.                                                           *)
(***************************************************************************)

\* A squad that was just constructed satisfies the invariant.
LEMMA IInvInit == Init => IInv
<1> SUFFICES ASSUME Init PROVE IInv
  OBVIOUS
<1>1. TypeOK
  BY TypeOKInit
<1>2. /\ pc[Main] = "idle" /\ task = NoTask
      /\ \A t \in Thread : /\ pc[t] = "none" /\ todo[t] = << >> /\ avail[t] = 0
                           /\ ~handle[t] /\ pass[t] = 0 /\ ref[t] = 0
  BY Agents DEF Init
<1>3. TaskHeld
  BY <1>2 DEF TaskHeld
<1>4. RootEdge
  BY <1>2, RootList DEF RootEdge, Fresh, LoopLabel
<1>5. ASSUME NEW t \in Thread PROVE Shape(t) /\ Local(t) /\ Edges(t)
  <2>1. Shape(t)
    BY <1>2 DEF Shape, Fresh
  <2>2. Local(t)
    <3>1. IsInjective(<< >>)
      BY DEF IsInjective
    <3> QED  BY <1>2, <3>1 DEF Local
  <2>3. \A u \in Kids(t) : Fresh(u)
    BY <1>2, TreeFacts DEF Fresh
  <2>4. Edges(t)
    BY <1>2, <2>3
       DEF Edges, FirstPassEdge, LoweredFirst, LaterPassEdge, TaskEdge, JoinEdge
  <2> QED  BY <2>1, <2>2, <2>4
<1> QED  BY <1>1, <1>3, <1>4, <1>5 DEF IInv

\* A step that changes nothing.
LEMMA StutterInv == ASSUME IInv, UNCHANGED vars PROVE IInv'
<1>1. \A t \in Thread : SameRole(t) /\ SameStatus(t)
  BY DEF vars, SameRole, SameStatus
<1>2. task' = task /\ TypeOK' /\ TaskHeld'
  BY DEF vars, IInv, TypeOK, TaskHeld
<1>3. RootEdge' /\ Shape(0)' /\ Local(0)' /\ Edges(0)'
  <2>1. \A s \in Thread : Follows(s)
    BY <1>1, <1>2, SameStatusFollows
  <2>2. RootEdge'
    BY <2>1, <1>2, RootFrame, RootList DEF vars
  <2> QED  BY <1>1, <1>2, <2>1, <2>2, RootList, TreeFacts, EdgesFrame, LocalFrame,
              ShapeFrame DEF IInv
<1> QED  BY <1>1, <1>2, <1>3, RootPairFrame

\* Every step keeps the invariant: one case per action.
LEMMA IInvStep == IInv /\ [Next]_vars => IInv'
<1> SUFFICES ASSUME IInv, [Next]_vars PROVE IInv'
  OBVIOUS
<1>1. TypeOK'
  BY TypeOKStep DEF IInv
<1>2. ASSUME NEW c \in 0 .. NumThreads, NEW j \in BOOLEAN, Run(c, j) PROVE IInv'
  <2>1. runs + 1 # 0
    BY DEF IInv, TypeOK
  <2> QED  BY <1>1, <1>2, <2>1, SubmitInv DEF Run
<1>3. CASE Destroy
  <2>1. runs + 1 # 0
    BY DEF IInv, TypeOK
  <2>2. 0 \in 0 .. NumThreads /\ TRUE \in BOOLEAN
    BY BoundsAssumption
  <2> QED  BY <1>1, <1>3, <2>1, <2>2, SubmitInv DEF Destroy
<1>4. ASSUME NEW t \in Thread, Step(t) PROVE IInv'
  <2>1. t # Main
    BY Agents
  <2> QED
    BY <1>1, <1>4, <2>1, NotifyResetInv, NotifySetInv, ForkInv, JoinInv, TaskWaitInv,
       TaskRunInv, WaitSubInv, SignalResetInv, SignalSetInv, JoinBeginInv
       DEF Step, Worker
<1>5. CASE Step(Main)
  BY <1>1, <1>5, Agents, OwnerNotifyResetInv, OwnerNotifySetInv, OwnerForkInv,
     OwnerJoinInv, MainWaitInv, ReleaseInv
     DEF Step
<1>6. CASE UNCHANGED vars
  BY <1>6, StutterInv
<1> QED
  BY <1>2, <1>3, <1>4, <1>5, <1>6, Agents DEF Next, Call, Freed

\* Every reachable state has the shape the wake-up protocol intends: IInv is an
\* invariant, for every tree that satisfies TreeAssumption.
THEOREM Invariance == Spec => []IInv
  BY IInvInit, IInvStep, PTL DEF Spec

\* Without a task, no thread has been notified.
LEMMA NoTaskNoSignal ==
    ASSUME IInv, task = NoTask
    PROVE  \A t \in Thread : avail[t] = 0
<1>1. Fresh(0) \/ Asleep(0) \/ Left(0)
  BY DEF IInv, TaskHeld, RootEdge
<1> QED  BY <1>1, AllFresh, AllAsleep, AllLeft DEF Fresh, Asleep, Left

\* None of the assertions of thread_squad.cpp can fail: no flag is raised twice, no
\* thread is forked over a live one or joined without one, no thread wakes up without
\* a task.
THEOREM AssertionsNeverFail == Spec => []AssertionsHold
<1>1. IInv => AssertionsHold
  <2> SUFFICES ASSUME IInv PROVE AssertionsHold
    OBVIOUS
  <2>1. TypeOK
    BY DEF IInv
  <2>2. ASSUME NEW t \in Thread
        PROVE  /\ pc[t] = "notifySet" => avail[Target(t)] = 0
               /\ pc[t] = "fork" => ~handle[Target(t)]
               /\ pc[t] = "join" => handle[Target(t)]
    <3>1. Local(t) /\ Edges(t)
      BY DEF IInv
    <3>2. pc[t] \in LoopLabel => Target(t) \in Ahead(t) /\ Target(t) \in Kids(t)
      BY TargetIsKid
    <3>3. pc[t] = "notifySet" => avail[Target(t)] = 0
      BY <3>1, <3>2 DEF Edges, FirstPassEdge, LaterPassEdge, Fresh, Asleep, LoopLabel
    <3>4. pc[t] = "fork" => ~handle[Target(t)]
      BY <3>1 DEF Edges, FirstPassEdge, Armed, Local
    <3>5. pc[t] = "join" => handle[Target(t)]
      BY <3>1, <3>2 DEF Edges, JoinEdge, Leaving, LoopLabel
    <3> QED  BY <3>3, <3>4, <3>5
  <2>3. /\ pc[Main] = "notifySet" => avail[Target(Main)] = 0
        /\ pc[Main] = "fork" => ~handle[Target(Main)]
        /\ pc[Main] = "join" => handle[Target(Main)]
    <3>1. pc[Main] \in LoopLabel => Target(Main) = 0
      BY RootTarget
    <3> QED  BY <3>1 DEF IInv, RootEdge, Fresh, Asleep, Armed, Leaving, LoopLabel
  <2>4. ASSUME NEW t \in Thread PROVE pc[t] = "signalSet" => processed[t] = 0
    BY ShapeOf DEF Active
  <2>5. ASSUME NEW t \in Thread
        PROVE  pc[t] = "taskWait" /\ avail[t] = 1 => task # NoTask
    BY NoTaskNoSignal
  <2> QED  BY <2>2, <2>3, <2>4, <2>5, Agents DEF AssertionsHold
<1> QED  BY <1>1, Invariance, PTL

\* No thread uses a task object that its owner has already given up.
THEOREM TaskOutlivesItsUsers == Spec => []NoDanglingTask
<1>1. IInv => NoDanglingTask
  <2> SUFFICES ASSUME IInv, NEW t \in Thread
               PROVE  /\ ref[t] # 0 => ref[t] = task.id
                      /\ pc[t] \in {"run", "waitSub", "signalReset"} => ref[t] # 0
                      /\ pc[t] \in {"joinBegin", "join"} => task.join
    BY DEF NoDanglingTask
  <2>1. TypeOK /\ Local(t) /\ Shape(t) /\ TaskHeld
    BY DEF IInv
  <2>2. pc[t] \in Label
    BY <2>1, Agents DEF TypeOK
  <2>3. ref[t] # 0 => ref[t] = task.id
    BY <2>1, <2>2 DEF Local, Label
  <2>4. pc[t] \in {"run", "waitSub", "signalReset"} => ref[t] # 0
    <3> SUFFICES ASSUME pc[t] \in {"run", "waitSub", "signalReset"} PROVE ref[t] # 0
      OBVIOUS
    <3>1. ref[t] = task.id
      BY <2>1 DEF Local
    <3>2. avail[t] # 0
      BY ShapeOf DEF Active
    <3>3. task # NoTask
      BY <3>2, NoTaskNoSignal
    <3> QED  BY <2>1, <3>1, <3>3 DEF TaskHeld
  <2>5. pc[t] \in {"joinBegin", "join"} => task.join
    BY <2>1 DEF Local
  <2> QED  BY <2>3, <2>4, <2>5
<1> QED  BY <1>1, Invariance, PTL

\* When a call has returned, all threads sleep.
THEOREM CallsReturnQuiescent == Spec => []QuiescentBetweenCalls
<1>1. IInv => QuiescentBetweenCalls
  <2> SUFFICES ASSUME IInv, pc[Main] = "idle", NEW t \in Thread
               PROVE  pc[t] \in {"none", "taskWait"} /\ avail[t] = 0
    BY DEF QuiescentBetweenCalls
  <2>1. Fresh(0) \/ Asleep(0)
    BY DEF IInv, RootEdge
  <2> QED  BY <2>1, AllFresh, AllAsleep DEF Fresh, Asleep
<1> QED  BY <1>1, Invariance, PTL

\* A squad is freed only when all its threads are gone and joined.
THEOREM NobodyLeftBehind == Spec => []NothingLeftBehind
<1>1. IInv => NothingLeftBehind
  <2> SUFFICES ASSUME IInv, pc[Main] = "freed", NEW t \in Thread
               PROVE  pc[t] \in {"none", "exited"} /\ ~handle[t]
    BY DEF NothingLeftBehind
  <2>1. Fresh(0) \/ Left(0)
    BY DEF IInv, RootEdge
  <2> QED  BY <2>1, AllFresh, AllLeft DEF Fresh, Left
<1> QED  BY <1>1, Invariance, PTL

(***************************************************************************)
(* Threads that a task has no use for.                                     *)
(***************************************************************************)

LEMMA SpareInvInit == Init => SpareInv
  BY TreeFacts DEF Init, SpareInv

\* A thread that signals completion has subordinates that are past their first pass.
LEMMA SignalSetSpareInv ==
    ASSUME IInv, SpareInv, NEW t \in Thread, SignalSet(t)
    PROVE  SpareInv'
<1>1. TypeOK /\ pc[t] = "signalSet" /\ task' = task
  BY DEF IInv, SignalSet, shared
<1>2. /\ pass' = [pass EXCEPT ![t] = IF pass[t] < PassMax THEN pass[t] + 1 ELSE pass[t]]
      /\ pc' = [pc EXCEPT ![t] = IF joinRequested[t] THEN "joinBegin" ELSE "taskWait"]
  BY DEF SignalSet
<1>3. \A s \in Thread : pass[s] # 0 => pass'[s] # 0
  BY <1>1, <1>2, BoundsAssumption DEF TypeOK
<1>4. \A s \in Thread \ {t} : pass'[s] = pass[s]
  BY <1>1, <1>2 DEF TypeOK
<1>5. \A u \in Kids(t) : pass[u] # 0
  <2> SUFFICES ASSUME NEW u \in Kids(t) PROVE pass[u] # 0
    OBVIOUS
  <2>1. u \in Thread
    BY TreeFacts
  <2>2. Parked(u)
    BY <1>1 DEF IInv, Edges, TaskEdge
  <2> QED  BY <2>1, <2>2 DEF Parked, Leaving, Asleep, IInv, Local
<1>6. \A s \in Thread : pc'[s] = "exited" => pc[s] = "exited"
  BY <1>1, <1>2, Agents DEF TypeOK
<1>7. \A s \in Thread : \A u \in Kids(s) : u \in Thread
  BY TreeFacts
<1>8. ASSUME NEW s \in Thread, NEW u \in Kids(s), pass'[s] # 0
      PROVE  pass'[u] # 0
  <2>1. u \in Thread
    BY <1>7
  <2>2. pass[u] # 0
    BY <1>4, <1>5, <1>8 DEF SpareInv
  <2> QED  BY <1>3, <2>1, <2>2
<1> QED  BY <1>1, <1>6, <1>8 DEF SpareInv, Kids

LEMMA SpareInvStep == IInv /\ SpareInv /\ [Next]_vars => SpareInv'
<1> SUFFICES ASSUME IInv, SpareInv, [Next]_vars PROVE SpareInv'
  OBVIOUS
<1>1. TypeOK /\ TaskHeld /\ \A t \in Thread : Local(t)
  BY DEF IInv
\* A step other than signaling completion and starting or ending a task.
<1>2. ASSUME UNCHANGED pass, UNCHANGED task,
             \A t \in Thread : pc'[t] = "exited" => pc[t] = "exited" \/ task.join
      PROVE  SpareInv'
  BY <1>2 DEF SpareInv, Kids
<1>3. ASSUME NEW c \in 0 .. NumThreads, NEW j \in BOOLEAN, NEW id, Submit(c, j, id)
      PROVE  SpareInv'
  <2>1. pc[Main] = "idle" /\ UNCHANGED pass
    BY <1>3 DEF Submit, locals
  <2>2. \A t \in Thread : pc[t] # "exited"
    <3>1. Fresh(0) \/ Asleep(0)
      BY <2>1 DEF IInv, RootEdge
    <3> QED  BY <3>1, AllFresh, AllAsleep DEF Fresh, Asleep
  <2>3. \A t \in Thread : pc'[t] = pc[t]
    BY <1>1, <1>3, Agents DEF Submit, EnterLoop, TypeOK
  <2>4. \/ UNCHANGED task
        \/ task' = [id |-> id, concurrency |-> c, join |-> j] /\ (c # 0 \/ j)
    BY <1>3 DEF Submit
  <2> QED  BY <2>1, <2>2, <2>3, <2>4 DEF SpareInv, Kids
<1>4. CASE Release
  <2>1. UNCHANGED pass /\ task' = NoTask
    BY <1>4 DEF Release, locals
  <2> QED  BY <2>1 DEF SpareInv, Kids
<1>5. ASSUME NEW a \in Agent, NotifyReset(a) \/ NotifySet(a) \/ Fork(a)
      PROVE  SpareInv'
  <2>1. UNCHANGED pass /\ UNCHANGED task
    BY <1>5 DEF NotifyReset, NotifySet, Fork, locals, shared
  <2>2. pc[a] \in LoopLabel
    BY <1>5 DEF NotifyReset, NotifySet, Fork, LoopLabel
  <2>3. Target(a) \in Thread
    BY <1>1, <2>2, TypeOKTarget
  <2>4. \A t \in Thread : pc'[t] = "exited" => pc[t] = "exited"
    BY <1>1, <1>5, <2>3, Agents
       DEF NotifyReset, NotifySet, Fork, Continue, EnterLoop, AfterNotify, TypeOK
  <2> QED  BY <1>2, <2>1, <2>4
<1>6. ASSUME NEW t \in Thread, TaskWait(t) \/ TaskRun(t) \/ WaitSub(t) \/ SignalReset(t)
      PROVE  SpareInv'
  <2>1. UNCHANGED pass /\ UNCHANGED task
    BY <1>6 DEF TaskWait, TaskRun, WaitSub, SignalReset, locals, shared
  <2>2. \A s \in Thread : pc'[s] = "exited" => pc[s] = "exited"
    BY <1>1, <1>6, Agents
       DEF TaskWait, TaskRun, WaitSub, SignalReset, Continue, EnterLoop, TypeOK
  <2> QED  BY <1>2, <2>1, <2>2
<1>7. ASSUME NEW t \in Thread, JoinBegin(t) \/ Join(t)
      PROVE  SpareInv'
  <2>1. UNCHANGED pass /\ UNCHANGED task
    BY <1>7 DEF JoinBegin, Join, locals, shared
  <2>2. task.join
    BY <1>1, <1>7 DEF JoinBegin, Join, Local
  <2> QED  BY <1>2, <2>1, <2>2
<1>8. CASE MainWait \/ Join(Main)
  <2>1. UNCHANGED pass /\ UNCHANGED task
    BY <1>8 DEF MainWait, Join, locals, shared
  <2>2. \A s \in Thread : pc'[s] = pc[s]
    BY <1>1, <1>8, Agents DEF MainWait, Join, Continue, EnterLoop, TypeOK
  <2> QED  BY <1>2, <2>1, <2>2
<1>9. CASE UNCHANGED vars
  BY <1>2, <1>9 DEF vars
<1>10. \A t \in Thread : SignalSet(t) => SpareInv'
  BY SignalSetSpareInv
<1>11. CASE Call
  <2>1. 0 \in 0 .. NumThreads /\ TRUE \in BOOLEAN
    BY BoundsAssumption
  <2> QED  BY <1>3, <1>11, <2>1 DEF Call, Run, Destroy
<1>12. ASSUME NEW a \in Agent, Step(a) PROVE SpareInv'
  BY <1>4, <1>5, <1>6, <1>7, <1>8, <1>10, <1>12, Agents DEF Step, Worker
<1> QED  BY <1>9, <1>11, <1>12 DEF Next, Freed

\* Once the threads exist, those that a task has no use for sleep through it: they are
\* neither notified nor waited for (num_threads_for_task, thread_squad.cpp:587-593).
THEOREM SpareThreadsAreLeftAlone == Spec => []SpareThreadsSleep
<1>1. IInv /\ SpareInv => SpareThreadsSleep
  <2> SUFFICES ASSUME IInv, SpareInv, pass[0] # 0, task # NoTask, ~task.join
               PROVE  \A t \in task.concurrency .. NumThreads-1 :
                          pc[t] = "taskWait" /\ avail[t] = 0
    BY DEF SpareThreadsSleep
  <2>1. \A t \in Thread : pass[t] # 0
    <3> DEFINE S == {t \in Thread : pass[t] # 0}
    <3>1. 0 \in S /\ \A t \in Thread : t \in S => Kids(t) \subseteq S
      BY RootList, TreeFacts DEF SpareInv
    <3> HIDE DEF S
    <3>2. Thread \subseteq S
      BY <3>1, DownTheTree
    <3> QED  BY <3>2 DEF S
  <2>2. task.concurrency \in 1 .. NumThreads
    BY BoundsAssumption DEF SpareInv, IInv, TypeOK, Task
  <2> DEFINE S == {t \in Thread : t < task.concurrency \/ Asleep(t)}
  <2>3. 0 \in S
    BY <2>2, RootList
  <2>4. ASSUME NEW t \in Thread, t \in S, NEW u \in Kids(t)
        PROVE  u \in S
    <3>1. u \in Thread /\ pass[t] # 0
      BY <2>1, TreeFacts
    <3>2. u \notin Part(t) => ~(u < task.concurrency) /\ u \in Kids(t) \ Part(t)
      BY <2>4, <3>1 DEF Part, NumThreadsForTask
    <3>3. u \in Part(t) => u < task.concurrency
      BY <3>1 DEF Part, NumThreadsForTask
    <3>4. CASE u \in Part(t)
      BY <3>1, <3>3, <3>4
    <3>5. CASE u \notin Part(t)
      <4>1. Local(t) /\ Edges(t) /\ Shape(t) /\ pc[t] # "exited"
        BY DEF IInv, SpareInv
      <4>2. Active(t) \/ Asleep(t)
        BY <3>1, <4>1 DEF Shape, Fresh, Armed, Leaving, Left, Local
      <4>3. pc[t] = "waitSub" => Ahead(t) \subseteq Part(t)
        BY <4>1 DEF Edges, TaskEdge
      <4>4. Parked(u) => Asleep(u)
        BY DEF Parked
      <4>5. pc[t] \in {"notifyReset", "notifySet", "taskWait", "run", "waitSub",
                       "signalReset", "signalSet"}
        BY <3>1, <4>1, <4>2 DEF Active, Asleep, Local
      <4>6. Asleep(u)
        BY <3>1, <3>2, <3>5, <4>1, <4>3, <4>4, <4>5 DEF Edges, LaterPassEdge, TaskEdge
      <4> QED  BY <3>1, <4>6
    <3> QED  BY <3>4, <3>5
  <2> HIDE DEF S
  <2>5. Thread \subseteq S
    BY <2>3, <2>4, DownTheTree
  <2>6. ASSUME NEW t \in task.concurrency .. NumThreads-1
        PROVE  t \in Thread /\ ~(t < task.concurrency)
    <3>1. PICK c \in 1 .. NumThreads : c = task.concurrency
      BY <2>2
    <3>2. t \in c .. NumThreads-1 /\ NumThreads \in Nat
      BY <3>1, BoundsAssumption
    <3>3. t \in 0 .. NumThreads-1 /\ ~(t < c)
      BY <3>2
    <3> QED  BY <3>1, <3>3 DEF Thread
  <2> QED  BY <2>5, <2>6 DEF S, Asleep
<1>2. Spec => [](IInv /\ SpareInv)
  BY IInvInit, IInvStep, SpareInvInit, SpareInvStep, PTL DEF Spec
<1> QED  BY <1>1, <1>2, PTL

----------------------------------------------------------------------------
(***************************************************************************)
(* What the engine computes: the results of a task reach its owner complete*)
(* and in order, and every participant runs it exactly once.               *)
(***************************************************************************)

(***************************************************************************)
(* Participants and blocks.                                                *)
(***************************************************************************)

\* The types the slots and the concurrency of a task have.
LEMMA DataTypes ==
    ASSUME TypeOK
    PROVE  /\ task.concurrency \in 0 .. NumThreads /\ task.concurrency \in Int
           /\ \A t \in Thread : /\ slot[t] \in Seq(Thread) /\ Range(slot[t]) \subseteq Thread
                                /\ t \in Int /\ t >= 0
           /\ \A t \in Thread : BlockSize[t] \in 1 .. NumThreads
           /\ NumThreads \in Nat \ {0}
<1>1. NumThreads \in Nat \ {0}
  BY TreeFacts
<1>2. task.concurrency \in 0 .. NumThreads
  BY DEF TypeOK, Task
<1>3. \A t \in Thread : slot[t] \in Seq(Thread)
  BY DEF TypeOK
<1>4. \A t \in Thread : Range(slot[t]) \subseteq Thread
  BY <1>3, ListFacts
<1> QED
  BY <1>1, <1>2, <1>3, <1>4, BlockAssumption DEF Thread

\* A pass visits all subordinates that take part in the task.
LEMMA ParticipantsVisited ==
    ASSUME TypeOK, NEW t \in Thread
    PROVE  /\ NumThreadsForTask(t) \in 0 .. NumThreads
           /\ task.concurrency <= NumThreadsForTask(t)
           /\ \A u \in Kids(t) : u < task.concurrency => u \in Part(t)
<1>1. NumThreadsForTask(t) \in 0 .. NumThreads
  BY NumThreadsForTaskType
<1>2. task.concurrency <= NumThreadsForTask(t)
  BY DataTypes DEF NumThreadsForTask
<1>3. \A u \in Kids(t) : u \in Int
  BY TreeFacts, DataTypes
<1> QED
  BY <1>1, <1>2, <1>3, DataTypes DEF Part

\* Cutting a block off at the end of a pass and then at the end of the participants.
LEMMA BlockCut ==
    ASSUME NEW t \in Thread, NEW c \in Int, NEW C \in Int, c <= C
    PROVE  LET e == BlockEnd(BlockSize, t, C)
           IN  /\ e \in Int
               /\ (IF e < c THEN e ELSE c) = BlockEnd(BlockSize, t, c)
<1>1. BlockSize[t] \in Int /\ t \in Int
  BY BlockAssumption, TreeFacts DEF Thread
<1>2. PICK n \in Int : n = t + BlockSize[t]
  BY <1>1
<1> QED
  BY <1>2 DEF BlockEnd

\* The block of a participant starts with itself and ends with the participants.
LEMMA BlockOfParticipant ==
    ASSUME NEW t \in Thread, NEW c \in Int, t < c
    PROVE  /\ BlockEnd(BlockSize, t, c) \in Int
           /\ t < BlockEnd(BlockSize, t, c)
           /\ BlockEnd(BlockSize, t, c) <= c
<1>0. NumThreads \in Nat /\ BlockSize[t] \in 1 .. NumThreads /\ t \in 0 .. NumThreads-1
  BY BlockAssumption, TreeFacts DEF Thread
<1>1. BlockSize[t] \in Int /\ BlockSize[t] >= 1 /\ t \in Int
  BY <1>0
<1>2. PICK n \in Int : n = t + BlockSize[t]
  BY <1>1
<1>3. t < n
  BY <1>1, <1>2
<1> QED
  BY <1>1, <1>2, <1>3 DEF BlockEnd

\* Threads in an interval.
LEMMA IntervalRange ==
    ASSUME NEW a \in Int, NEW b \in Int, a <= b
    PROVE  Range(Interval(a, b)) = a .. b-1
<1> DEFINE s == Interval(a, b)
<1>1. s = [k \in 1 .. b - a |-> a + k - 1]
  BY DEF Interval
<1> HIDE DEF s
<1>2. DOMAIN s = 1 .. b - a /\ \A k \in 1 .. b - a : s[k] = a + k - 1
  BY <1>1
<1>3. ASSUME NEW x \in Range(s) PROVE x \in a .. b-1
  <2>1. PICK k \in 1 .. b - a : x = s[k]
    BY <1>2 DEF Range
  <2> QED
    BY <1>2, <2>1
<1>4. ASSUME NEW x \in a .. b-1 PROVE x \in Range(s)
  <2>1. x - a + 1 \in 1 .. b - a
    OBVIOUS
  <2>2. s[x - a + 1] = x
    BY <1>2, <2>1
  <2> QED
    BY <1>2, <2>1, <2>2 DEF Range
<1> QED
  BY <1>3, <1>4 DEF s

(***************************************************************************)
(* Frame lemmas.                                                           *)
(***************************************************************************)

\* What the data invariant reads of a thread.
SameData(t) ==
    /\ pc'[t] = pc[t] /\ todo'[t] = todo[t] /\ pass'[t] = pass[t]
    /\ processed'[t] = processed[t] /\ slot'[t] = slot[t]

\* A thread that does nothing keeps its data, and the subordinates it is to fetch from.
LEMMA OwnDataFrame ==
    ASSUME NEW t \in Thread, SameData(t), task' = task
    PROVE  /\ OwnData(t) => OwnData(t)'
           /\ Pending(t)' = Pending(t)
<1>1. Pending(t)' = Pending(t)
  BY DEF SameData, Pending, Kids, Ahead
<1>2. NumThreadsForTask(t)' = NumThreadsForTask(t) /\ Target(t)' = Target(t)
  BY DEF SameData, NumThreadsForTask, Target
<1>3. Before(Target(t))' = Before(Target(t)) /\ End(t)' = End(t)
  BY <1>2 DEF Before, End
<1> QED
  BY <1>1, <1>2, <1>3 DEF SameData, OwnData

\* One edge of which neither end does anything.
LEMMA EdgeDataFrame ==
    ASSUME NEW t \in Thread, NEW u \in Thread, SameData(t), SameData(u), task' = task,
           EdgeData(t, u)
    PROVE  EdgeData(t, u)'
<1>1. Pending(t)' = Pending(t)
  BY OwnDataFrame
<1>2. BetweenTasks(u)' <=> BetweenTasks(u)
  BY DEF SameData, BetweenTasks
<1> QED
  BY <1>1, <1>2 DEF EdgeData, SameData, End

\* The edge of the owner when neither it nor thread 0 does anything.
LEMMA RootDataFrame ==
    ASSUME SameData(0), pc'[Main] = pc[Main], task' = task, RootData
    PROVE  RootData'
  BY DEF SameData, RootData, BetweenTasks, End

\* A step of thread x, or of x and y, keeps the invariant if it does so for them and for
\* the edges they are at.
LEMMA DataFrame ==
    ASSUME DataInv, task # NoTask, task' = task, NEW x \in Thread, NEW y \in Thread,
           \A t \in Thread \ {x, y} : SameData(t),
           \A t \in {x, y} :
               /\ IF t < task.concurrency THEN OwnData(t)' ELSE slot'[t] = << >>
               /\ \A u \in Kids(t) : EdgeData(t, u)'
               /\ \A p \in Thread : t \in Kids(p) => EdgeData(p, t)',
           RootData',
           \A t \in Thread : Handed(t)'
    PROVE  DataInv'
<1>1. ASSUME NEW t \in Thread
      PROVE  /\ IF t < task.concurrency THEN OwnData(t)' ELSE slot'[t] = << >>
             /\ \A u \in Kids(t) : EdgeData(t, u)'
  <2>1. CASE t \in {x, y}
    BY <2>1
  <2>2. CASE t \notin {x, y}
    <3>1. SameData(t)
      BY <2>2
    <3>2. IF t < task.concurrency THEN OwnData(t)' ELSE slot'[t] = << >>
      BY <3>1, OwnDataFrame DEF DataInv, SameData
    <3>3. ASSUME NEW u \in Kids(t) PROVE EdgeData(t, u)'
      <4>1. CASE u \in {x, y}
        BY <4>1
      <4>2. CASE u \notin {x, y}
        <5>1. u \in Thread /\ SameData(u) /\ EdgeData(t, u)
          BY <4>2, TreeFacts DEF DataInv
        <5> QED
          BY <3>1, <5>1, EdgeDataFrame
      <4> QED
        BY <4>1, <4>2
    <3> QED
      BY <3>2, <3>3
  <2> QED
    BY <2>1, <2>2
<1>2. \A t \in Thread : Kids(t)' = Kids(t)
  BY DEF Kids
<1> QED
  BY <1>1, <1>2 DEF DataInv

\* As long as the slots are left alone and whoever is at rest remains so, results that
\* were handed over stay there.
LEMMA HandedFrame ==
    ASSUME TypeOK, DataInv, task # NoTask, slot' = slot,
           \A x \in Thread : AtRest(x) => AtRest(x)'
    PROVE  \A t \in Thread : Handed(t)'
<1> SUFFICES ASSUME NEW t \in Thread PROVE Handed(t)'
  OBVIOUS
<1>1. Handed(t)
  BY DEF DataInv
<1>2. Range(slot[t]) \subseteq Thread
  BY DataTypes
<1>3. \A p \in Thread : Kids(p)' = Kids(p)
  BY DEF Kids
<1> QED
  BY <1>1, <1>2, <1>3 DEF Handed

\* A thread that starts on a task it was notified of has no results in its slot.
LEMMA EmptyWhenWoken ==
    ASSUME IInv, DataInv, task # NoTask, NEW t \in Thread, t < task.concurrency,
           pc[t] = "taskWait", avail[t] = 1
    PROVE  slot[t] = << >>
<1>1. Active(t) /\ processed[t] = 0 /\ BetweenTasks(t)
  BY ShapeOf DEF Active, BetweenTasks
<1>2. CASE t = 0
  <2>1. pc[Main] \notin {"join", "release"}
    BY <1>1, <1>2 DEF IInv, RootEdge, Active, Leaving, Left, Asleep
  <2> QED
    BY <1>1, <1>2, <2>1 DEF DataInv, RootData
<1>3. CASE t # 0
  <2>1. PICK p \in Thread : t \in Kids(p)
    BY <1>3, TreeFacts
  <2> QED
    BY <1>1, <2>1 DEF DataInv, EdgeData
<1> QED
  BY <1>2, <1>3

\* Whoever is busy with a task has been notified and will be waited for.
LEMMA ActiveIsPending ==
    ASSUME IInv, NEW p \in Thread, NEW t \in Kids(p), Active(t), pc[t] = "signalSet"
    PROVE  t \in Pending(p)
<1>1. TypeOK /\ Shape(p) /\ Local(p) /\ Edges(p) /\ Part(p) \subseteq Kids(p)
  BY PartFacts DEF IInv
<1>2. /\ ~Fresh(t) /\ ~Asleep(t) /\ ~Parked(t) /\ ~Leaving(t) /\ ~Left(t)
  BY DEF Fresh, Asleep, Parked, Leaving, Left
<1>3. CASE pc[p] \in {"notifyReset", "notifySet", "fork"}
  <2>0. ~Armed(t)
    BY DEF Armed
  <2>1. CASE pass[p] = 0
    <3>1. t \notin Ahead(p)
      BY <1>1, <1>2, <1>3, <2>0, <2>1 DEF Edges, FirstPassEdge
    <3> QED
      BY <1>3, <3>1 DEF Pending
  <2>2. CASE pass[p] # 0
    <3>1. t \notin Ahead(p)
      BY <1>1, <1>2, <1>3, <2>2 DEF Edges, LaterPassEdge, Local
    <3> QED
      BY <1>3, <3>1 DEF Pending
  <2> QED
    BY <2>1, <2>2
<1>4. CASE pc[p] = "run" \/ pc[p] = "taskWait"
  BY <1>1, <1>2, <1>4 DEF Pending, Edges, LaterPassEdge
<1>5. CASE pc[p] = "waitSub"
  BY <1>1, <1>2, <1>5 DEF Pending, Edges, TaskEdge
<1>6. CASE pc[p] \in {"none", "signalReset", "signalSet", "joinBegin", "join", "exited"}
  BY <1>1, <1>2, <1>6 DEF Edges, FirstPassEdge, TaskEdge, JoinEdge
<1>7. pc[p] \in {"notifyReset", "notifySet", "fork", "run", "taskWait", "waitSub", "none",
                 "signalReset", "signalSet", "joinBegin", "join", "exited"}
  BY <1>1 DEF Shape, Fresh, Armed, Asleep, Active, Leaving, Left
<1> QED
  BY <1>3, <1>4, <1>5, <1>6, <1>7

(***************************************************************************)
(* The steps of a worker on its own.                                       *)
(***************************************************************************)

\* Waking up for a task.
LEMMA TaskWaitData ==
    ASSUME IInv, DataInv, task # NoTask, NEW t \in Thread, TaskWait(t)
    PROVE  DataInv'
<1> DEFINE list == IF pass[t] = 0 THEN << >> ELSE ToSub[t][NumThreadsForTask(t)]
<1>1. TypeOK /\ Edges(t)
  BY DEF IInv
<1>2. pc[t] = "taskWait" /\ avail[t] = 1 /\ t \in Agent
  BY Agents DEF TaskWait
<1>3. /\ todo'[t] = list
      /\ pc'[t] = IF list = << >> THEN "run" ELSE "notifyReset"
      /\ \A b \in Agent \ {t} : pc'[b] = pc[b] /\ todo'[b] = todo[b]
  BY <1>1, <1>2, EnterLoopFrame DEF TaskWait
<1>4. /\ avail' = avail /\ processed' = processed /\ pass' = pass
      /\ task' = task /\ slot' = slot
  BY DEF TaskWait, signals, shared
<1>5. \A s \in Thread \ {t} : SameData(s)
  BY <1>3, <1>4, Agents DEF SameData
<1>6. /\ pass[t] = 0 => list = << >>
      /\ pass[t] # 0 => Range(list) = Part(t) /\ (list = << >> <=> Part(t) = {})
  BY <1>1, PartFacts
<1> HIDE DEF list
<1>7. ~BetweenTasks(t)'
  BY <1>3 DEF BetweenTasks
<1>8. IF t < task.concurrency THEN OwnData(t)' ELSE slot'[t] = << >>
  <2>1. CASE t < task.concurrency
    <3>1. slot'[t] = << >>
      BY <1>2, <1>4, <2>1, EmptyWhenWoken
    <3> QED
      BY <1>3, <2>1, <3>1 DEF OwnData
  <2> QED
    BY <1>4, <2>1 DEF DataInv
<1>9. ASSUME NEW u \in Kids(t), u < task.concurrency
      PROVE  u \in Pending(t)' <=> u \in Pending(t)
  <2>1. u \in Part(t)
    BY <1>1, <1>9, ParticipantsVisited
  <2>2. CASE pass[t] = 0
    BY <1>2, <1>3, <1>4, <1>6, <2>2 DEF Pending, Kids
  <2>3. CASE pass[t] # 0
    <3>1. pc'[t] = "notifyReset" /\ Ahead(t)' = Part(t)
      BY <1>3, <1>6, <2>1, <2>3 DEF Ahead
    <3> QED
      BY <1>2, <1>4, <2>1, <2>3, <3>1 DEF Pending
  <2> QED
    BY <2>2, <2>3
<1>10. ASSUME NEW u \in Kids(t) PROVE EdgeData(t, u)'
  <2>1. EdgeData(t, u) /\ u \in Thread /\ u # t
    BY TreeFacts DEF DataInv
  <2>2. pc'[u] = pc[u]
    BY <1>5, <2>1 DEF SameData
  <2> QED
    BY <1>4, <1>9, <2>1, <2>2 DEF EdgeData, BetweenTasks, End
<1>11. ASSUME NEW p \in Thread, t \in Kids(p) PROVE EdgeData(p, t)'
  BY <1>7 DEF EdgeData
<1>12. RootData'
  <2>1. CASE t = 0
    BY <1>7, <2>1 DEF RootData
  <2>2. CASE t # 0
    BY <1>3, <1>4, <1>5, <2>2, RootDataFrame, TreeFacts, Agents DEF DataInv
  <2> QED
    BY <2>1, <2>2
<1>13. \A x \in Thread : AtRest(x) => AtRest(x)'
  BY <1>2, <1>4, <1>5 DEF AtRest, BetweenTasks, SameData
<1>14. \A x \in Thread : Handed(x)'
  BY <1>1, <1>4, <1>13, HandedFrame
<1> QED
  BY <1>4, <1>5, <1>8, <1>10, <1>11, <1>12, <1>14, DataFrame

\* A step of thread t by which it does not touch the slots, and which leaves what it
\* is to fetch as it is, keeps the invariant if it does at both ends of the edge above t.
LEMMA OwnStepData ==
    ASSUME IInv, DataInv, task # NoTask, NEW t \in Thread, task' = task, slot' = slot,
           \A s \in Thread \ {t} : SameData(s) /\ avail'[s] = avail[s],
           pc'[Main] = pc[Main],
           \A u \in Kids(t) : u \in Pending(t)' <=> u \in Pending(t),
           t < task.concurrency => OwnData(t)',
           \A p \in Thread : t \in Kids(p) => EdgeData(p, t)',
           t = 0 => RootData',
           AtRest(t) => AtRest(t)'
    PROVE  DataInv'
<1>1. IF t < task.concurrency THEN OwnData(t)' ELSE slot'[t] = << >>
  BY DEF DataInv
<1>2. ASSUME NEW u \in Kids(t) PROVE EdgeData(t, u)'
  <2>1. EdgeData(t, u) /\ u \in Thread /\ u # t
    BY TreeFacts DEF DataInv
  <2>2. pc'[u] = pc[u] /\ processed'[u] = processed[u]
    BY <2>1 DEF SameData
  <2> QED
    BY <2>1, <2>2 DEF EdgeData, BetweenTasks, End
<1>3. RootData'
  BY RootDataFrame, TreeFacts DEF DataInv
<1>4. \A x \in Thread : AtRest(x) => AtRest(x)'
  BY DEF AtRest, BetweenTasks, SameData
<1>5. \A x \in Thread : Handed(x)'
  BY <1>4, HandedFrame DEF IInv
<1> QED
  BY <1>1, <1>2, <1>3, <1>5, DataFrame

\* Resetting signalTaskAvailable_.
LEMMA SignalResetData ==
    ASSUME IInv, DataInv, task # NoTask, NEW t \in Thread, SignalReset(t)
    PROVE  DataInv'
<1>1. TypeOK
  BY DEF IInv
<1>2. /\ pc[t] = "signalReset" /\ pc'[t] = "signalSet"
      /\ \A b \in Agent \ {t} : pc'[b] = pc[b]
      /\ \A s \in Thread \ {t} : avail'[s] = avail[s]
      /\ todo' = todo /\ processed' = processed /\ pass' = pass
      /\ task' = task /\ slot' = slot
  BY <1>1, Agents DEF SignalReset, TypeOK, shared
<1>3. \A s \in Thread \ {t} : SameData(s) /\ avail'[s] = avail[s]
  BY <1>2, Agents DEF SameData
<1>4. \A u \in Kids(t) : u \in Pending(t)' <=> u \in Pending(t)
  BY <1>2 DEF Pending
<1>5. t < task.concurrency => OwnData(t)'
  BY <1>2 DEF DataInv, OwnData, End
<1>6. ~BetweenTasks(t)' /\ ~BetweenTasks(t)
  BY <1>2 DEF BetweenTasks
<1>7. \A p \in Thread : t \in Kids(p) => EdgeData(p, t)'
  BY <1>6 DEF EdgeData
<1>8. (t = 0 => RootData') /\ (AtRest(t) => AtRest(t)')
  BY <1>6 DEF RootData, AtRest
<1> QED
  BY <1>2, <1>3, <1>4, <1>5, <1>7, <1>8, Agents, OwnStepData

\* Raising signalTaskProcessed_: the results of the block are there to be fetched.
LEMMA SignalSetData ==
    ASSUME IInv, DataInv, task # NoTask, NEW t \in Thread, SignalSet(t)
    PROVE  DataInv'
<1>1. TypeOK /\ Active(t) /\ pc[t] = "signalSet"
  BY ShapeOf DEF IInv, SignalSet
<1>2. /\ pc'[t] \in {"joinBegin", "taskWait"} /\ processed'[t] = 1
      /\ \A b \in Agent \ {t} : pc'[b] = pc[b]
      /\ \A s \in Thread \ {t} : processed'[s] = processed[s] /\ pass'[s] = pass[s]
      /\ todo' = todo /\ avail' = avail /\ task' = task /\ slot' = slot
  BY <1>1, Agents DEF SignalSet, TypeOK, shared
<1>3. \A s \in Thread \ {t} : SameData(s) /\ avail'[s] = avail[s]
  BY <1>2, Agents DEF SameData
<1>4. pass'[t] # 0
  BY <1>1, BoundsAssumption DEF SignalSet, TypeOK
<1>5. \A u \in Kids(t) : u \in Pending(t)' <=> u \in Pending(t)
  BY <1>1, <1>2, <1>4 DEF Pending
<1>6. t < task.concurrency => OwnData(t)'
  BY <1>2 DEF OwnData
<1>7. ASSUME t < task.concurrency PROVE slot[t] = Interval(t, End(t))
  BY <1>1, <1>7 DEF DataInv, OwnData
<1>8. ASSUME NEW p \in Thread, t \in Kids(p) PROVE EdgeData(p, t)'
  <2>1. t \in Pending(p)
    BY <1>1, <1>8, ActiveIsPending
  <2>2. Pending(p)' = Pending(p)
    <3>1. SameData(p)
      BY <1>3, <1>8, TreeFacts
    <3> QED
      BY <1>2, <3>1, OwnDataFrame
  <2> QED
    BY <1>2, <1>7, <2>1, <2>2 DEF EdgeData, End
<1>9. t = 0 => RootData'
  <2>1. ASSUME t = 0 PROVE pc[Main] = "waitSub"
    BY <1>1, <2>1 DEF IInv, TaskHeld, RootEdge, Active, Fresh, Asleep, Armed, Leaving, Left
  <2> QED
    BY <1>2, <1>7, <2>1, Agents DEF RootData, End
<1>10. AtRest(t) => AtRest(t)'
  BY <1>1 DEF AtRest, BetweenTasks
<1> QED
  BY <1>2, <1>3, <1>5, <1>6, <1>8, <1>9, <1>10, Agents, OwnStepData

\* A thread on its way out does not touch results, whoever else it joins.
LEMMA LeavingData ==
    ASSUME IInv, DataInv, task # NoTask, NEW t \in Thread, JoinBegin(t) \/ Join(t)
    PROVE  DataInv'
<1>1. TypeOK /\ t \in Agent /\ t # Main
  BY Agents DEF IInv
<1>2. PICK list : EnterLoop(t, list, "join", "exited")
  BY <1>1 DEF JoinBegin, Join, Continue
<1>3. /\ pc[t] \in {"joinBegin", "join"}
      /\ avail' = avail /\ processed' = processed /\ pass' = pass
      /\ task' = task /\ slot' = slot
  BY DEF JoinBegin, Join, signals, locals, shared
<1>4. /\ pc'[t] \in {"join", "exited"}
      /\ \A b \in Agent \ {t} : pc'[b] = pc[b] /\ todo'[b] = todo[b]
  BY <1>1, <1>2, EnterLoopFrame
<1>5. \A s \in Thread \ {t} : SameData(s) /\ avail'[s] = avail[s]
  BY <1>3, <1>4, Agents DEF SameData
<1>6. \A u \in Kids(t) : u \in Pending(t)' <=> u \in Pending(t)
  BY <1>3, <1>4 DEF Pending
<1>7. t < task.concurrency => OwnData(t)'
  BY <1>4 DEF OwnData
<1>8. BetweenTasks(t) /\ BetweenTasks(t)' /\ AtRest(t)'
  BY <1>3, <1>4 DEF BetweenTasks, AtRest
<1>9. ASSUME NEW p \in Thread, t \in Kids(p) PROVE EdgeData(p, t)'
  <2>1. Pending(p)' = Pending(p)
    <3>1. SameData(p)
      BY <1>5, <1>9, TreeFacts
    <3> QED
      BY <1>3, <3>1, OwnDataFrame
  <2> QED
    BY <1>3, <1>8, <1>9, <2>1 DEF DataInv, EdgeData, End
<1>10. t = 0 => RootData'
  BY <1>1, <1>3, <1>4, <1>8, Agents DEF DataInv, RootData, End
<1> QED
  BY <1>1, <1>3, <1>4, <1>5, <1>6, <1>7, <1>8, <1>9, <1>10, Agents, OwnStepData

\* After its own share, a participant waits for the blocks that follow it.
LEMMA AfterOwnShare ==
    ASSUME NEW t \in Thread, NEW c \in Int, NEW C \in t+1 .. NumThreads, t < c, c <= C
    PROVE  LET list == FromSub[t][C]
           IN  /\ list # << >> => Head(list) = t + 1
               /\ list = << >> => BlockEnd(BlockSize, t, c) = t + 1
               /\ (IF t + 1 < c THEN t + 1 ELSE c) = t + 1
               /\ Chained(BlockSize, list, C, BlockEnd(BlockSize, t, C))
<1> DEFINE list == FromSub[t][C]
<1>1. /\ t \in Int /\ NumThreads \in Nat /\ C \in Int /\ C \in 0 .. NumThreads
      /\ BlockSize[t] \in 1 .. NumThreads
  <2>1. NumThreads \in Nat /\ t \in 0 .. NumThreads-1
    BY TreeFacts DEF Thread
  <2> QED
    BY <2>1, BlockAssumption
<1>2. list \in Seq(Thread)
  BY <1>1, ListType
<1>3. Covers(BlockSize, t, list, C)
  BY BlockAssumption
<1>4. list # << >> => Head(list) = t + 1
  <2> HIDE DEF list
  <2>1. list # << >> => Head(list) = list[1]
    BY <1>2
  <2> QED
    BY <1>3, <2>1 DEF Covers
<1>5. ASSUME list = << >> PROVE BlockEnd(BlockSize, t, c) = t + 1
  <2>1. BlockEnd(BlockSize, t, C) = t + 1
    BY <1>3, <1>5 DEF Covers
  <2>2. (IF t + 1 < c THEN t + 1 ELSE c) = BlockEnd(BlockSize, t, c)
    BY <1>1, <2>1, BlockCut
  <2> QED
    BY <1>1, <2>2
<1>6. (IF t + 1 < c THEN t + 1 ELSE c) = t + 1
  BY <1>1
<1> QED
  BY <1>3, <1>4, <1>5, <1>6 DEF Covers

\* Executing the task.
LEMMA TaskRunData ==
    ASSUME IInv, DataInv, task # NoTask, NEW t \in Thread, TaskRun(t)
    PROVE  DataInv'
<1>1. TypeOK
  BY DEF IInv
<1>2. PICK C : C = NumThreadsForTask(t)
  OBVIOUS
<1>3. PICK list : list = FromSub[t][C]
  OBVIOUS
<1>4. /\ pc[t] = "run"
      /\ todo'[t] = list
      /\ pc'[t] = IF list = << >> THEN "signalReset" ELSE "waitSub"
      /\ \A b \in Agent \ {t} : pc'[b] = pc[b] /\ todo'[b] = todo[b]
  BY <1>1, <1>2, <1>3, EnterLoopFrame, Agents DEF TaskRun
<1>5. /\ avail' = avail /\ processed' = processed /\ pass' = pass /\ task' = task
      /\ slot' = IF t < task.concurrency THEN Transformed(t) ELSE slot
  BY DEF TaskRun, signals, locals
<1>6. \A s \in Thread \ {t} : slot'[s] = slot[s]
  BY <1>1, <1>5 DEF Transformed, TypeOK
<1>7. \A s \in Thread \ {t} : SameData(s)
  BY <1>4, <1>5, <1>6, Agents DEF SameData
<1>8. ~BetweenTasks(t) /\ ~BetweenTasks(t)'
  BY <1>4 DEF BetweenTasks
<1>9. ASSUME t < task.concurrency PROVE slot'[t] = << t >>
  <2>1. slot[t] = << >>
    BY <1>4, <1>9 DEF DataInv, OwnData
  <2> QED
    BY <1>1, <1>5, <1>9, <2>1 DEF Transformed, TypeOK
<1>10. ASSUME t < task.concurrency PROVE OwnData(t)'
  <2>1. /\ task.concurrency \in Int /\ t \in Int /\ C \in t+1 .. NumThreads
        /\ task.concurrency <= C
    BY <1>1, <1>2, <1>10, DataTypes, ParticipantsVisited
  <2>2. /\ list # << >> => Head(list) = t + 1
        /\ list = << >> => End(t) = t + 1
        /\ Before(t + 1) = t + 1
        /\ Chained(BlockSize, list, C, BlockEnd(BlockSize, t, C))
    BY <1>3, <1>10, <2>1, AfterOwnShare DEF End, Before
  <2>3. slot'[t] = Interval(t, t + 1)
    BY <1>9, <1>10, <2>1, IntervalOne
  <2>4. NumThreadsForTask(t)' = C
    BY <1>2, <1>5 DEF NumThreadsForTask
  <2>5. CASE list = << >>
    BY <1>4, <1>5, <2>2, <2>3, <2>5 DEF OwnData, End
  <2>6. CASE list # << >>
    <3>1. Target(t)' = t + 1
      BY <1>4, <2>2, <2>6 DEF Target
    <3>2. Before(Target(t))' = t + 1
      BY <1>5, <2>2, <3>1 DEF Before
    <3> QED
      BY <1>4, <2>2, <2>3, <2>4, <2>6, <3>2 DEF OwnData
  <2> QED
    BY <2>5, <2>6
<1>11. IF t < task.concurrency THEN OwnData(t)' ELSE slot'[t] = << >>
  BY <1>5, <1>10 DEF DataInv
<1>12. ASSUME NEW u \in Kids(t), u < task.concurrency
       PROVE  u \in Pending(t)' <=> u \in Pending(t)
  <2>1. u \in Part(t) /\ list # << >> /\ Range(list) = Part(t)
    BY <1>1, <1>2, <1>3, <1>12, ParticipantsVisited, PartFacts
  <2>2. pc'[t] = "waitSub" /\ Ahead(t)' = Part(t)
    BY <1>4, <2>1 DEF Ahead
  <2> QED
    BY <1>4, <2>1, <2>2 DEF Pending
<1>13. ASSUME NEW u \in Kids(t) PROVE EdgeData(t, u)'
  <2>1. EdgeData(t, u) /\ u \in Thread /\ u # t
    BY TreeFacts DEF DataInv
  <2>2. SameData(u)
    BY <1>7, <2>1
  <2> QED
    BY <1>5, <1>12, <2>1, <2>2 DEF EdgeData, BetweenTasks, End, SameData
<1>14. \A p \in Thread : t \in Kids(p) => EdgeData(p, t)'
  BY <1>8 DEF EdgeData
<1>15. RootData'
  <2>1. CASE t = 0
    BY <1>8, <2>1 DEF RootData
  <2>2. CASE t # 0
    BY <1>4, <1>5, <1>7, <2>2, RootDataFrame, TreeFacts, Agents DEF DataInv
  <2> QED
    BY <2>1, <2>2
<1>16. \A x \in Thread : AtRest(x) => AtRest(x)'
  BY <1>5, <1>7, <1>8 DEF AtRest, BetweenTasks, SameData
<1>17. ASSUME NEW v \in Thread PROVE Handed(v)'
  <2>1. CASE v = t /\ t < task.concurrency
    <3>1. Range(slot'[t]) = {t}
      BY <1>9, <2>1 DEF Range
    <3>2. t >= t
      BY <1>1, DataTypes
    <3> QED
      BY <2>1, <3>1, <3>2 DEF Handed
  <2>2. CASE ~(v = t /\ t < task.concurrency)
    <3>1. slot'[v] = slot[v] /\ Handed(v) /\ Range(slot[v]) \subseteq Thread
      BY <1>1, <1>5, <1>6, <2>2, DataTypes DEF DataInv
    <3>2. \A p \in Thread : Kids(p)' = Kids(p)
      BY DEF Kids
    <3> QED
      BY <1>16, <3>1, <3>2 DEF Handed
  <2> QED
    BY <2>1, <2>2
<1> QED
  BY <1>5, <1>7, <1>11, <1>13, <1>14, <1>15, <1>17, DataFrame

\* What a worker finds when the subordinate it waits for is done: the subordinate is at
\* rest, with the results of its block in its slot.
LEMMA FoundDone ==
    ASSUME IInv, DataInv, task # NoTask, NEW t \in Thread, pc[t] = "waitSub",
           processed[Target(t)] = 1
    PROVE  /\ Target(t) \in Kids(t) /\ Target(t) \in Pending(t)
           /\ BetweenTasks(Target(t)) /\ AtRest(Target(t))
           /\ Target(t) < task.concurrency =>
                slot[Target(t)] = Interval(Target(t), End(Target(t)))
<1> DEFINE u == Target(t)
<1>1. u \in Ahead(t) /\ u \in Kids(t)
  BY TargetIsKid DEF LoopLabel
<1>2. Engaged(u)
  BY <1>1 DEF IInv, Edges, TaskEdge
<1> HIDE DEF u
<1>3. Leaving(u) \/ Asleep(u)
  BY <1>2 DEF u, Engaged, Active, Parked
<1>4. BetweenTasks(u) /\ AtRest(u)
  BY <1>3 DEF Leaving, Asleep, BetweenTasks, AtRest
<1>5. u \in Pending(t)
  BY <1>1 DEF Pending
<1>6. u < task.concurrency => slot[u] = Interval(u, End(u))
  BY <1>1, <1>4, <1>5 DEF DataInv, EdgeData, u
<1> QED
  BY <1>1, <1>4, <1>5, <1>6 DEF u

\* Going on to the next block: the results so far end where it starts.
LEMMA MergeExtends ==
    ASSUME IInv, DataInv, NEW t \in Thread, t < task.concurrency, WaitSub(t)
    PROVE  LET e == BlockEnd(BlockSize, Target(t), NumThreadsForTask(t))
           IN  /\ e \in Int
               /\ slot'[t] = Interval(t, Before(e))
<1>1. TypeOK /\ pc[t] = "waitSub" /\ processed[Target(t)] = 1 /\ task # NoTask
  BY DataTypes DEF IInv, WaitSub, NoTask, Thread
<1>2. PICK u : u = Target(t)
  OBVIOUS
<1>3. PICK c : c = task.concurrency
  OBVIOUS
<1>4. PICK C : C = NumThreadsForTask(t)
  OBVIOUS
<1>5. PICK e : e = BlockEnd(BlockSize, u, C)
  OBVIOUS
<1>6. /\ u \in Kids(t) /\ u \in Thread /\ t < u /\ u # t
      /\ u < c => slot[u] = Interval(u, End(u))
  BY <1>1, <1>2, <1>3, FoundDone, TreeFacts
<1>7. /\ c \in Int /\ C \in Int /\ c <= C /\ t \in Int /\ u \in Int /\ t < c
  BY <1>1, <1>3, <1>4, <1>6, DataTypes, ParticipantsVisited
<1>8. e \in Int /\ Before(e) = End(u)
  BY <1>3, <1>5, <1>6, <1>7, BlockCut DEF Before, End
<1>9. slot[t] = Interval(t, Before(u))
  BY <1>1, <1>2 DEF DataInv, OwnData
<1>10. slot' = IF u < c THEN Merged(t, u) ELSE slot
  BY <1>2, <1>3 DEF WaitSub
<1>11. CASE u < c
  <2>1. Before(u) = u /\ End(u) \in Int /\ u < End(u)
    BY <1>3, <1>6, <1>7, <1>11, BlockOfParticipant DEF Before, End
  <2>2. slot'[t] = slot[t] \o slot[u]
    BY <1>1, <1>6, <1>10, <1>11 DEF Merged, TypeOK
  <2>3. slot[t] = Interval(t, u)
    BY <1>9, <2>1
  <2>4. PICK g \in Int : g = End(u) /\ u < g
    BY <2>1
  <2>5. slot'[t] = Interval(t, u) \o Interval(u, g)
    BY <1>6, <1>11, <2>2, <2>3, <2>4
  <2>6. t \in Int /\ u \in Int /\ g \in Int /\ t <= u /\ u <= g
    BY <1>6, <1>7, <2>4
  <2>7. Interval(t, u) \o Interval(u, g) = Interval(t, g)
    BY <2>6, IntervalConcat
  <2> QED
    BY <1>2, <1>4, <1>5, <1>8, <2>4, <2>5, <2>7
<1>12. CASE ~(u < c)
  <2>1. Before(u) = c
    BY <1>3, <1>12 DEF Before
  <2>2. End(u) = c
    <3>1. BlockSize[u] \in 1 .. NumThreads /\ NumThreads \in Nat
      BY <1>6, BlockAssumption, TreeFacts
    <3> QED
      BY <1>3, <1>7, <1>12, <3>1 DEF End, BlockEnd
  <2> QED
    BY <1>2, <1>3, <1>4, <1>5, <1>8, <1>9, <1>10, <1>12, <2>1, <2>2
<1> QED
  BY <1>11, <1>12

\* Waiting for a subordinate and merging its results.
LEMMA WaitSubData ==
    ASSUME IInv, DataInv, task # NoTask, NEW t \in Thread, WaitSub(t)
    PROVE  DataInv'
<1>1. TypeOK /\ Local(t)
  BY DEF IInv
<1>2. PICK u : u = Target(t)
  OBVIOUS
<1>3. PICK rest : rest = Tail(todo[t])
  OBVIOUS
<1>4. /\ pc[t] = "waitSub" /\ processed[u] = 1
      /\ todo'[t] = rest
      /\ pc'[t] = IF rest = << >> THEN "signalReset" ELSE "waitSub"
      /\ \A b \in Agent \ {t} : pc'[b] = pc[b] /\ todo'[b] = todo[b]
  <2>1. EnterLoop(t, rest, "waitSub", "signalReset") /\ pc[t] = "waitSub" /\ processed[u] = 1
    BY <1>2, <1>3 DEF WaitSub, Continue
  <2> QED
    BY <1>1, <2>1, EnterLoopFrame, Agents
<1>5. /\ avail' = avail /\ processed' = processed /\ pass' = pass /\ task' = task
      /\ slot' = IF u < task.concurrency THEN Merged(t, u) ELSE slot
  BY <1>2 DEF WaitSub, signals, locals
<1>6. /\ u \in Kids(t) /\ u \in Thread /\ u # t /\ t < u /\ u # 0
      /\ u \in Pending(t) /\ BetweenTasks(u) /\ AtRest(u)
  BY <1>2, <1>4, FoundDone, TreeFacts
<1>7. /\ \A s \in Thread \ {t, u} : slot'[s] = slot[s]
      /\ u < task.concurrency => slot'[u] = << >> /\ slot'[t] = slot[t] \o slot[u]
  BY <1>1, <1>5, <1>6 DEF Merged, TypeOK
<1>8. \A s \in Thread \ {t, u} : SameData(s)
  BY <1>4, <1>5, <1>7, Agents DEF SameData
<1>9. /\ todo[t] \in Seq(Thread) /\ todo[t] # << >>
      /\ Range(rest) = Ahead(t) \ {u} /\ rest \in Seq(Thread)
      /\ (rest = << >> <=> Ahead(t) \ {u} = {})
  <2>1. t \in Agent /\ pc[t] \in LoopLabel /\ IsInjective(todo[t])
    BY <1>1, <1>4, Agents DEF Local, LoopLabel
  <2>2. todo[t] \in Seq(Thread) /\ todo[t] # << >>
    BY <1>1, <2>1 DEF TypeOK
  <2> QED
    BY <1>1, <1>2, <1>3, <2>1, <2>2, LoopFacts
<1>10. ~BetweenTasks(t) /\ ~BetweenTasks(t)'
  BY <1>4 DEF BetweenTasks
<1>11. BetweenTasks(u)' /\ AtRest(u)'
  BY <1>4, <1>5, <1>6, Agents DEF BetweenTasks, AtRest
<1>12. PICK C : C = NumThreadsForTask(t)
  OBVIOUS
<1>13. NumThreadsForTask(t)' = C
  BY <1>5, <1>12 DEF NumThreadsForTask
<1>14. ASSUME t < task.concurrency PROVE OwnData(t)'
  <2>1. PICK e : e = BlockEnd(BlockSize, u, C)
    OBVIOUS
  <2>2. slot'[t] = Interval(t, Before(e))
    BY <1>2, <1>12, <1>14, <2>1, MergeExtends
  <2>3. Chained(BlockSize, todo[t], C, BlockEnd(BlockSize, t, C))
    BY <1>4, <1>12, <1>14 DEF DataInv, OwnData
  <2>4. /\ Chained(BlockSize, rest, C, BlockEnd(BlockSize, t, C))
        /\ e = IF rest = << >> THEN BlockEnd(BlockSize, t, C) ELSE Head(rest)
    BY <1>2, <1>3, <1>9, <2>1, <2>3, ChainTail DEF Target
  <2>5. CASE rest # << >>
    <3>1. Target(t)' = e
      BY <1>4, <2>4, <2>5 DEF Target
    <3>2. Before(Target(t))' = Before(e)
      BY <1>5, <3>1 DEF Before
    <3> QED
      BY <1>4, <1>13, <2>2, <2>4, <2>5, <3>2 DEF OwnData
  <2>6. CASE rest = << >>
    <3>1. /\ task.concurrency \in Int /\ C \in Int /\ task.concurrency <= C
      BY <1>1, <1>12, DataTypes, ParticipantsVisited
    <3>2. Before(e) = End(t)
      BY <2>4, <2>6, <3>1, BlockCut DEF Before, End
    <3>3. End(t)' = End(t)
      BY <1>5 DEF End
    <3> QED
      BY <1>4, <2>2, <2>6, <3>2, <3>3 DEF OwnData
  <2> QED
    BY <2>5, <2>6
<1>15. ASSUME ~(t < task.concurrency) PROVE slot'[t] = << >>
  <2>1. ~(u < task.concurrency)
    BY <1>1, <1>6, <1>15, DataTypes
  <2> QED
    BY <1>5, <1>15, <2>1 DEF DataInv
<1>16. IF u < task.concurrency THEN OwnData(u)' ELSE slot'[u] = << >>
  <2>1. OwnData(u)'
    BY <1>11 DEF OwnData, BetweenTasks
  <2> QED
    BY <1>5, <1>6, <2>1 DEF DataInv
<1>17. /\ Pending(t) = Ahead(t) /\ Pending(t)' = Ahead(t) \ {u}
  BY <1>4, <1>9 DEF Pending, Ahead
<1>18. ASSUME NEW v \in Kids(t) PROVE EdgeData(t, v)'
  <2>1. EdgeData(t, v) /\ v \in Thread /\ v # t
    BY TreeFacts DEF DataInv
  <2>2. CASE v = u
    BY <1>5, <1>7, <1>17, <2>2 DEF EdgeData
  <2>3. CASE v # u
    <3>1. SameData(v)
      BY <1>8, <2>1, <2>3
    <3> QED
      BY <1>5, <1>17, <2>1, <2>3, <3>1 DEF EdgeData, BetweenTasks, End, SameData
  <2> QED
    BY <2>2, <2>3
<1>19. ASSUME NEW v \in Kids(u) PROVE EdgeData(u, v)'
  <2>1. EdgeData(u, v) /\ v \in Thread /\ v # u /\ v # t
    BY <1>6, TreeFacts DEF DataInv
  <2>2. SameData(v)
    BY <1>8, <2>1
  <2>3. Pending(u)' = Pending(u)
    BY <1>4, <1>5, <1>6, Agents DEF Pending, Kids, Ahead
  <2> QED
    BY <1>5, <2>1, <2>2, <2>3 DEF EdgeData, BetweenTasks, End, SameData
<1>20. ASSUME NEW p \in Thread
       PROVE  /\ t \in Kids(p) => EdgeData(p, t)'
              /\ u \in Kids(p) => EdgeData(p, u)'
  <2>1. t \in Kids(p) => EdgeData(p, t)'
    BY <1>10 DEF EdgeData
  <2>2. u \in Kids(p) => p = t
    BY <1>6, TreeFacts
  <2> QED
    BY <1>6, <1>18, <2>1, <2>2
<1>21. RootData'
  <2>1. CASE t = 0
    BY <1>10, <2>1 DEF RootData
  <2>2. CASE t # 0
    BY <1>4, <1>5, <1>6, <1>8, <2>2, RootDataFrame, TreeFacts, Agents DEF DataInv
  <2> QED
    BY <2>1, <2>2
<1>22. \A x \in Thread : AtRest(x) => AtRest(x)'
  <2>1. \A x \in Thread : pc'[x] = pc[x] \/ x = t
    BY <1>4, Agents
  <2> QED
    BY <1>5, <1>10, <2>1 DEF AtRest, BetweenTasks
<1>23. \A p \in Thread : Kids(p)' = Kids(p)
  BY DEF Kids
<1>24. ASSUME NEW v \in Thread PROVE Handed(v)'
  <2>1. CASE slot'[v] = slot[v]
    <3>1. Handed(v) /\ Range(slot[v]) \subseteq Thread
      BY <1>1, DataTypes DEF DataInv
    <3> QED
      BY <1>22, <1>23, <2>1, <3>1 DEF Handed
  <2>2. CASE v = u /\ u < task.concurrency
    <3>1. slot'[v] = << >>
      BY <1>7, <2>2
    <3>2. Range(slot'[v]) = {}
      BY <3>1, ListFacts, EmptySeq
    <3> QED
      BY <3>2 DEF Handed
  <2>3. CASE v = t /\ u < task.concurrency
    <3>1. /\ slot[t] \in Seq(Thread) /\ slot[u] \in Seq(Thread)
          /\ Range(slot[t]) \subseteq Thread /\ Range(slot[u]) \subseteq Thread
          /\ t \in Int /\ u \in Int /\ task.concurrency \in Int
      BY <1>1, <1>6, DataTypes
    <3>2. Handed(t) /\ Handed(u)
      BY <1>6 DEF DataInv
    <3>3. t < task.concurrency
      BY <1>6, <2>3, <3>1
    <3>4. PICK g \in Int : g = End(u) /\ u < g
      BY <1>6, <2>3, <3>1, BlockOfParticipant DEF End
    <3>5. slot[t] = Interval(t, u) /\ slot[u] = Interval(u, g)
      <4>1. Before(u) = u
        BY <2>3 DEF Before
      <4>2. slot[t] = Interval(t, Before(u)) /\ slot[u] = Interval(u, End(u))
        BY <1>2, <1>4, <2>3, <3>3, FoundDone DEF DataInv, OwnData
      <4> QED
        BY <3>4, <4>1, <4>2
    <3>6. /\ Range(slot[t]) = t .. u-1 /\ Range(slot[u]) = u .. g-1
          /\ Range(slot'[t]) = t .. g-1
      <4>1. slot'[t] = Interval(t, u) \o Interval(u, g)
        BY <1>7, <2>3, <3>5
      <4>2. t <= u /\ u <= g /\ t <= g
        BY <1>6, <3>1, <3>4
      <4>3. Interval(t, u) \o Interval(u, g) = Interval(t, g)
        BY <3>1, <3>4, <4>2, IntervalConcat
      <4>4. slot'[t] = Interval(t, g)
        BY <4>1, <4>3
      <4> QED
        BY <3>1, <3>4, <3>5, <4>2, <4>4, IntervalRange
    <3>7. /\ t \in Range(slot'[t]) /\ \A x \in Range(slot'[t]) : x >= t
          /\ Range(slot'[t]) = Range(slot[t]) \cup Range(slot[u])
      BY <1>6, <3>1, <3>4, <3>6
    <3>8. ASSUME NEW x \in Range(slot'[t]), x # t
          PROVE  /\ AtRest(x)
                 /\ \A p \in Thread : x \in Kids(p) => p \in Range(slot'[t])
      <4>1. CASE x \in Range(slot[t])
        BY <3>2, <3>7, <3>8, <4>1 DEF Handed
      <4>2. CASE x \in Range(slot[u]) /\ x # u
        BY <3>2, <3>7, <4>2 DEF Handed
      <4>3. CASE x = u
        BY <1>6, <3>7, <4>3, TreeFacts
      <4> QED
        BY <3>7, <4>1, <4>2, <4>3
    <3>9. ASSUME NEW x \in Range(slot'[t]) PROVE x \in Thread
      BY <3>1, <3>7
    <3> QED
      BY <1>22, <1>23, <2>3, <3>7, <3>8, <3>9 DEF Handed
  <2> QED
    BY <1>5, <1>7, <2>1, <2>2, <2>3
<1> QED
  BY <1>5, <1>6, <1>8, <1>14, <1>15, <1>16, <1>18, <1>19, <1>20, <1>21, <1>24, DataFrame

(***************************************************************************)
(* The steps by which a worker hands a task on.                            *)
(***************************************************************************)

\* A step of thread t on its subordinate u by which neither slot is touched keeps the
\* invariant if it does for the two of them.
LEMMA HandOnData ==
    ASSUME IInv, DataInv, task # NoTask, NEW t \in Thread, NEW u \in Kids(t),
           task' = task, slot' = slot, pc'[Main] = pc[Main],
           \A s \in Thread \ {t, u} : SameData(s),
           pc[t] \in {"notifyReset", "notifySet", "fork"},
           pc'[t] \in {"notifyReset", "notifySet", "fork", "run"}
             \/ (pc'[t] = "taskWait" /\ avail'[t] = 1 /\ processed[t] = 0),
           processed'[t] = processed[t],
           \A v \in Kids(t) \ {u} : v \in Pending(t)' <=> v \in Pending(t),
           EdgeData(t, u)',
           u < task.concurrency => OwnData(u)',
           \A v \in Kids(u) : EdgeData(u, v)',
           \A v \in Thread : Handed(v)'
    PROVE  DataInv'
<1>1. /\ u \in Thread /\ u # t /\ u # 0 /\ Active(t)
      /\ \A p \in Thread : u \in Kids(p) => p = t
  BY ShapeOf, TreeFacts
<1>2. processed[t] = 0
  BY <1>1 DEF Active
<1>3. \A s \in {t, u} : IF s < task.concurrency THEN OwnData(s)' ELSE slot'[s] = << >>
  <2>1. t < task.concurrency => slot'[t] = << >>
    BY DEF DataInv, OwnData
  <2>2. t < task.concurrency => OwnData(t)'
    BY <2>1 DEF OwnData
  <2> QED
    BY <1>1, <2>2 DEF DataInv
<1>4. ASSUME NEW v \in Kids(t) PROVE EdgeData(t, v)'
  <2>1. CASE v = u
    BY <2>1
  <2>2. CASE v # u
    <3>1. EdgeData(t, v) /\ v \in Thread /\ v # t
      BY TreeFacts DEF DataInv
    <3>2. SameData(v)
      BY <2>2, <3>1
    <3> QED
      BY <2>2, <3>1, <3>2 DEF EdgeData, BetweenTasks, End, SameData
  <2> QED
    BY <2>1, <2>2
<1>5. t < task.concurrency => slot'[t] = << >>
  BY DEF DataInv, OwnData
<1>6. ASSUME NEW p \in Thread
      PROVE  /\ t \in Kids(p) => EdgeData(p, t)'
             /\ u \in Kids(p) => EdgeData(p, u)'
  <2>1. t \in Kids(p) => EdgeData(p, t)'
    BY <1>2, <1>5 DEF EdgeData
  <2> QED
    BY <1>1, <1>4, <2>1
<1>7. RootData'
  <2>1. CASE t = 0
    <3>1. pc[Main] \notin {"join", "release"}
      BY <1>1, <2>1 DEF IInv, RootEdge, Active, Leaving, Left, Asleep
    <3> QED
      BY <1>2, <1>5, <2>1, <3>1 DEF RootData
  <2>2. CASE t # 0
    BY <1>1, <2>2, RootDataFrame, TreeFacts DEF DataInv
  <2> QED
    BY <2>1, <2>2
<1> QED
  BY <1>1, <1>3, <1>4, <1>6, <1>7, DataFrame

\* Resetting signalTaskProcessed_ of a subordinate.
LEMMA NotifyResetData ==
    ASSUME IInv, DataInv, task # NoTask, NEW t \in Thread, NotifyReset(t)
    PROVE  DataInv'
<1>1. TypeOK
  BY DEF IInv
<1>2. PICK u : u = Target(t)
  OBVIOUS
<1>3. /\ u \in Kids(t) /\ u \in Ahead(t) /\ u \in Thread /\ u # t
      /\ pc[t] = "notifyReset"
  BY <1>2, TargetIsKid, TreeFacts DEF NotifyReset, LoopLabel
<1>4. /\ pc'[t] = "notifySet" /\ processed'[u] = 0
      /\ \A b \in Agent \ {t} : pc'[b] = pc[b]
      /\ \A s \in Thread \ {u} : processed'[s] = processed[s]
      /\ todo' = todo /\ avail' = avail /\ pass' = pass
      /\ task' = task /\ slot' = slot
  BY <1>1, <1>2, <1>3, Agents DEF NotifyReset, TypeOK, locals, shared
<1>5. \A s \in Thread \ {t, u} : SameData(s)
  BY <1>4, Agents DEF SameData
<1>6. /\ Pending(t)' = Pending(t) /\ u \notin Pending(t)
  BY <1>3, <1>4 DEF Pending, Kids, Ahead
<1>7. pc'[u] = pc[u] /\ pc'[Main] = pc[Main]
  BY <1>3, <1>4, Agents
<1>8. EdgeData(t, u)'
  BY <1>3, <1>4, <1>6, <1>7 DEF DataInv, EdgeData, BetweenTasks
<1>9. u < task.concurrency => OwnData(u)'
  <2>1. /\ NumThreadsForTask(u)' = NumThreadsForTask(u) /\ Target(u)' = Target(u)
    BY <1>4 DEF NumThreadsForTask, Target
  <2>2. Before(Target(u))' = Before(Target(u)) /\ End(u)' = End(u)
    BY <1>4, <2>1 DEF Before, End
  <2> QED
    BY <1>3, <1>4, <1>7, <2>1, <2>2 DEF DataInv, OwnData
<1>10. ASSUME NEW v \in Kids(u) PROVE EdgeData(u, v)'
  <2>1. EdgeData(u, v) /\ v \in Thread /\ v # u /\ v # t
    BY <1>3, TreeFacts DEF DataInv
  <2>2. Pending(u)' = Pending(u)
    BY <1>4, <1>7 DEF Pending, Kids, Ahead
  <2> QED
    BY <1>4, <1>5, <2>1, <2>2 DEF EdgeData, BetweenTasks, End, SameData
<1>11. \A x \in Thread : AtRest(x) => AtRest(x)'
  BY <1>3, <1>4, Agents DEF AtRest, BetweenTasks
<1>12. \A x \in Thread : Handed(x)'
  BY <1>1, <1>4, <1>11, HandedFrame
<1> QED
  BY <1>3, <1>4, <1>5, <1>6, <1>7, <1>8, <1>9, <1>10, <1>12, HandOnData

\* Waking up a subordinate: nobody has results of it, and it has none.
LEMMA NotifySetData ==
    ASSUME IInv, DataInv, task # NoTask, NEW t \in Thread, NotifySet(t)
    PROVE  DataInv'
<1>1. TypeOK /\ Edges(t) /\ t # Main /\ t \in Agent
  BY Agents DEF IInv
<1>2. PICK u : u = Target(t)
  OBVIOUS
<1>3. /\ u \in Kids(t) /\ u \in Ahead(t) /\ Ahead(t) \subseteq Kids(t)
      /\ u \in Thread /\ u # t
      /\ pc[t] = "notifySet" /\ processed[u] = 0 /\ pc[u] # "waitSub"
      /\ pc[u] \notin {"signalReset", "signalSet"}
  <2>1. pc[t] = "notifySet"
    BY DEF NotifySet
  <2>2. u \in Kids(t) /\ u \in Ahead(t) /\ Ahead(t) \subseteq Kids(t)
    BY <1>2, <2>1, TargetIsKid DEF LoopLabel
  <2>3. processed[u] = 0
    BY <1>1, <1>2, <2>1 DEF Edges, LoweredFirst
  <2>4. Fresh(u) \/ Asleep(u)
    BY <1>1, <1>2, <2>1, <2>2 DEF Edges, FirstPassEdge, LaterPassEdge
  <2> QED
    BY <2>1, <2>2, <2>3, <2>4, TreeFacts DEF Fresh, Asleep
<1>4. /\ \A s \in Thread \ {u} : avail'[s] = avail[s]
      /\ processed' = processed /\ pass' = pass /\ task' = task /\ slot' = slot
  BY <1>1, <1>2, <1>3 DEF NotifySet, TypeOK, locals, shared
<1>5. /\ \A b \in Agent \ {t} : pc'[b] = pc[b] /\ todo'[b] = todo[b]
      /\ pc'[t] \in {"fork", "notifyReset", "run"}
      /\ \A v \in Kids(t) \ {u} : v \in Pending(t)' <=> v \in Pending(t)
  <2>1. CASE pass[t] = 0
    <3>1. pc' = [pc EXCEPT ![t] = "fork"] /\ todo' = todo
      BY <1>1, <2>1 DEF NotifySet
    <3>2. pc'[t] = "fork" /\ \A b \in Agent \ {t} : pc'[b] = pc[b]
      BY <1>1, <3>1 DEF TypeOK
    <3> QED
      BY <1>3, <3>1, <3>2 DEF Pending, Kids, Ahead
  <2>2. CASE pass[t] # 0
    <3>1. EnterLoop(t, Tail(todo[t]), "notifyReset", "run")
      BY <1>1, <2>2 DEF NotifySet, Continue, AfterNotify
    <3>2. /\ todo'[t] = Tail(todo[t])
          /\ pc'[t] = IF Tail(todo[t]) = << >> THEN "run" ELSE "notifyReset"
          /\ \A b \in Agent \ {t} : pc'[b] = pc[b] /\ todo'[b] = todo[b]
      BY <1>1, <3>1, EnterLoopFrame
    <3>3. IsInjective(todo[t])
      BY DEF IInv, Local
    <3>4. /\ Range(Tail(todo[t])) = Ahead(t) \ {u}
          /\ Tail(todo[t]) = << >> <=> Ahead(t) \ {u} = {}
      BY <1>1, <1>2, <1>3, <3>3, LoopFacts DEF LoopLabel
    <3>5. Pending(t) = Kids(t) \ Ahead(t)
      BY <1>3 DEF Pending
    <3>6. Pending(t)' = Kids(t) \ (Ahead(t) \ {u})
      BY <3>2, <3>4 DEF Pending, Kids, Ahead
    <3> QED
      BY <3>2, <3>5, <3>6
  <2> QED
    BY <2>1, <2>2
<1>6. \A s \in Thread \ {t} : SameData(s)
  BY <1>4, <1>5, Agents DEF SameData
<1>7. pc'[u] = pc[u] /\ pc'[Main] = pc[Main]
  BY <1>3, <1>5, Agents
<1>8. EdgeData(t, u)'
  BY <1>3, <1>4, <1>7 DEF DataInv, EdgeData, BetweenTasks
<1>9. u < task.concurrency => OwnData(u)'
  BY <1>3, <1>4, <1>6, OwnDataFrame DEF DataInv
<1>10. ASSUME NEW v \in Kids(u) PROVE EdgeData(u, v)'
  BY <1>3, <1>4, <1>6, EdgeDataFrame, TreeFacts DEF DataInv
<1>11. \A x \in Thread \ {u} : AtRest(x) => AtRest(x)'
  BY <1>3, <1>4, <1>5, Agents DEF AtRest, BetweenTasks
<1>12. ASSUME NEW v \in Thread PROVE Handed(v)'
  <2>1. Handed(v) /\ Range(slot[v]) \subseteq Thread
    BY <1>1, DataTypes DEF DataInv
  <2>2. u \in Range(slot[v]) => u = v
    <3> SUFFICES ASSUME u \in Range(slot[v]), u # v PROVE FALSE
      OBVIOUS
    <3>1. t \in Range(slot[v])
      BY <1>3, <2>1 DEF Handed
    <3>2. CASE t = v
      <4>1. slot[t] = << >>
        BY <1>3 DEF DataInv, OwnData
      <4> QED
        BY <3>1, <3>2, <4>1, ListFacts, EmptySeq
    <3>3. CASE t # v
      <4>1. AtRest(t)
        BY <2>1, <3>1, <3>3 DEF Handed
      <4> QED
        BY <1>3, <4>1 DEF AtRest, BetweenTasks
    <3> QED
      BY <3>2, <3>3
  <2>3. \A p \in Thread : Kids(p)' = Kids(p)
    BY DEF Kids
  <2> QED
    BY <1>4, <1>11, <2>1, <2>2, <2>3 DEF Handed
<1> QED
  BY <1>3, <1>4, <1>5, <1>6, <1>7, <1>8, <1>9, <1>10, <1>12, HandOnData

\* What forking does, whoever forks.
LEMMA ForkEffect ==
    ASSUME IInv, DataInv, task # NoTask, NEW a \in Agent, Fork(a),
           NEW u \in Thread, u = Target(a), Armed(u), u # a
    PROVE  /\ pc'[u] \in {"taskWait", "notifyReset"} /\ processed'[u] = 0
           /\ avail'[u] = 1 /\ slot' = slot /\ task' = task
           /\ processed' = processed /\ avail' = avail /\ pass' = pass
           /\ \A b \in Agent \ {a, u} : pc'[b] = pc[b] /\ todo'[b] = todo[b]
           /\ u < task.concurrency => slot'[u] = << >> /\ OwnData(u)'
           /\ \A v \in Kids(u) : EdgeData(u, v)'
           /\ \A p \in Thread : u \in Kids(p) => EdgeData(p, u)'
           /\ \A x \in Thread : x # a /\ AtRest(x) => AtRest(x)'
<1>1. TypeOK /\ Edges(u)
  BY DEF IInv
<1>2. /\ pc[u] = "none" /\ processed[u] = 0 /\ avail[u] = 1 /\ pass[u] = 0
  BY DEF Armed
<1>3. /\ slot' = slot /\ task' = task
      /\ processed' = processed /\ avail' = avail /\ pass' = pass
  BY DEF Fork, signals, locals, shared
<1>4. /\ pc'[u] \in {"taskWait", "notifyReset"}
      /\ \A b \in Agent \ {a, u} : pc'[b] = pc[b] /\ todo'[b] = todo[b]
  BY <1>1, Agents DEF Fork, TypeOK
<1>5. u < task.concurrency => slot[u] = << >>
  BY <1>2 DEF DataInv, OwnData
<1>6. u < task.concurrency => slot'[u] = << >> /\ OwnData(u)'
  BY <1>3, <1>4, <1>5 DEF OwnData
<1>7. ASSUME NEW v \in Kids(u), v # a PROVE EdgeData(u, v)'
  <2>1. v \in Thread /\ v # u /\ Fresh(v)
    BY <1>1, <1>2, TreeFacts DEF Edges, FirstPassEdge
  <2>2. pc'[v] = "none"
    BY <1>4, <1>7, <2>1, Agents DEF Fresh
  <2> QED
    BY <2>2 DEF EdgeData, BetweenTasks
<1>8. a \notin Kids(u)
  <2>1. CASE a = Main
    BY <2>1, Agents, TreeFacts
  <2>2. CASE a # Main
    <3>1. a \in Thread /\ pc[a] = "fork"
      BY <2>2, Agents DEF Fork
    <3>2. u \in Kids(a)
      BY <3>1, TargetIsKid DEF LoopLabel
    <3> QED
      BY <3>1, <3>2, TreeFacts
  <2> QED
    BY <2>1, <2>2
<1>9. \A p \in Thread : u \in Kids(p) => EdgeData(p, u)'
  BY <1>2, <1>3, <1>6 DEF EdgeData
<1>10. \A x \in Thread : x # a /\ AtRest(x) => AtRest(x)'
  BY <1>2, <1>3, <1>4, Agents DEF AtRest, BetweenTasks
<1> QED
  BY <1>2, <1>3, <1>4, <1>6, <1>7, <1>8, <1>9, <1>10

\* Forking a subordinate that has been notified.
LEMMA ForkData ==
    ASSUME IInv, DataInv, task # NoTask, NEW t \in Thread, Fork(t)
    PROVE  DataInv'
<1>1. TypeOK /\ Edges(t) /\ Local(t) /\ t # Main /\ t \in Agent
  BY Agents DEF IInv
<1>2. PICK u : u = Target(t)
  OBVIOUS
<1>3. /\ u \in Kids(t) /\ u \in Ahead(t) /\ u \in Thread /\ u # t
      /\ pc[t] = "fork" /\ pass[t] = 0 /\ Armed(u) /\ Active(t)
  <2>1. pc[t] = "fork" /\ pass[t] = 0
    BY <1>1 DEF Fork, Local
  <2>2. u \in Kids(t) /\ u \in Ahead(t)
    BY <1>2, <2>1, TargetIsKid DEF LoopLabel
  <2>3. Armed(u)
    BY <1>1, <1>2, <2>1 DEF Edges, FirstPassEdge
  <2> QED
    BY <2>1, <2>2, <2>3, TreeFacts, ShapeOf
<1>4. /\ pc'[u] \in {"taskWait", "notifyReset"} /\ processed'[u] = 0
      /\ avail'[u] = 1 /\ slot' = slot /\ task' = task
      /\ processed' = processed /\ avail' = avail /\ pass' = pass
      /\ \A b \in Agent \ {t, u} : pc'[b] = pc[b] /\ todo'[b] = todo[b]
      /\ u < task.concurrency => OwnData(u)'
      /\ \A v \in Kids(u) : EdgeData(u, v)'
      /\ EdgeData(t, u)'
      /\ \A x \in Thread : x # t /\ AtRest(x) => AtRest(x)'
  BY <1>1, <1>2, <1>3, ForkEffect
<1>5. PICK rest : rest = Tail(todo[t])
  OBVIOUS
<1>6. /\ todo'[t] = rest
      /\ pc'[t] = IF rest = << >> THEN "taskWait" ELSE "notifyReset"
  BY <1>1, <1>2, <1>3, <1>5 DEF Fork, TypeOK, AfterNotify
<1>7. /\ Range(rest) = Ahead(t) \ {u}
      /\ rest = << >> <=> Ahead(t) \ {u} = {}
  BY <1>1, <1>2, <1>3, <1>5, LoopFacts DEF LoopLabel, Local
<1>8. \A v \in Kids(t) \ {u} : v \in Pending(t)' <=> v \in Pending(t)
  <2>1. Pending(t) = Kids(t) \ Ahead(t)
    BY <1>3 DEF Pending
  <2>2. Pending(t)' = Kids(t) \ (Ahead(t) \ {u})
    BY <1>3, <1>4, <1>6, <1>7 DEF Pending, Kids, Ahead
  <2> QED
    BY <2>1, <2>2
<1>9. \A s \in Thread \ {t, u} : SameData(s)
  BY <1>4, Agents DEF SameData
<1>10. ~AtRest(t)
  BY <1>3 DEF AtRest, BetweenTasks
<1>11. \A x \in Thread : Handed(x)'
  BY <1>1, <1>4, <1>10, HandedFrame
<1>12. avail[t] = 1 /\ processed[t] = 0
  BY <1>3 DEF Active
<1>13. pc'[Main] = pc[Main]
  BY <1>1, <1>3, <1>4, Agents
<1> QED
  BY <1>3, <1>4, <1>6, <1>8, <1>9, <1>11, <1>12, <1>13, HandOnData

(***************************************************************************)
(* The steps of the owner.                                                 *)
(***************************************************************************)

\* A step of the owner on thread 0 by which no slot is touched keeps the invariant if
\* it does for the edge between them.
LEMMA OwnerData ==
    ASSUME IInv, DataInv, task # NoTask, task' = task, slot' = slot,
           \A s \in Thread \ {0} : SameData(s),
           0 < task.concurrency => OwnData(0)',
           \A v \in Kids(0) : EdgeData(0, v)',
           RootData',
           \A v \in Thread : Handed(v)'
    PROVE  DataInv'
<1>1. IF 0 < task.concurrency THEN OwnData(0)' ELSE slot'[0] = << >>
  BY RootList DEF DataInv
<1>2. \A p \in Thread : 0 \notin Kids(p)
  BY TreeFacts
<1> QED
  BY <1>1, <1>2, RootList, DataFrame

\* Handing a task to thread 0.
LEMMA OwnerNotifyData ==
    ASSUME IInv, DataInv, task # NoTask, NotifyReset(Main) \/ NotifySet(Main)
    PROVE  DataInv'
<1>1. TypeOK /\ RootEdge
  BY DEF IInv
<1>2. /\ pc[Main] \in {"notifyReset", "notifySet"} /\ Target(Main) = 0
      /\ Fresh(0) \/ Asleep(0)
      /\ pc[Main] = "notifySet" => processed[0] = 0
  BY <1>1, RootTarget DEF NotifyReset, NotifySet, LoopLabel, RootEdge
<1>3. /\ \A b \in Thread : pc'[b] = pc[b] /\ todo'[b] = todo[b]
      /\ pass' = pass /\ task' = task /\ slot' = slot
      /\ \A s \in Thread \ {0} : avail'[s] = avail[s] /\ processed'[s] = processed[s]
      /\ processed'[0] = 0 /\ pc'[Main] \in {"notifySet", "fork", "waitSub"}
  <2>1. CASE NotifyReset(Main)
    BY <1>1, <1>2, <2>1, RootList, Agents DEF NotifyReset, TypeOK, locals, shared
  <2>2. CASE NotifySet(Main)
    BY <1>1, <1>2, <2>2, RootList, Agents DEF NotifySet, TypeOK, locals, shared
  <2> QED
    BY <2>1, <2>2
<1>4. \A s \in Thread \ {0} : SameData(s)
  BY <1>3 DEF SameData
<1>5. 0 < task.concurrency => OwnData(0)'
  <2>1. pc'[0] \in {"none", "taskWait"}
    BY <1>2, <1>3, RootList DEF Fresh, Asleep
  <2>2. pc[0] = "none" => pc'[0] = "none"
    BY <1>3, RootList
  <2> QED
    BY <1>2, <1>3, <2>1, RootList DEF DataInv, OwnData, Fresh, Asleep
<1>6. ASSUME NEW v \in Kids(0) PROVE EdgeData(0, v)'
  <2>1. EdgeData(0, v) /\ v \in Thread /\ v # 0
    BY RootList, TreeFacts DEF DataInv
  <2>2. Pending(0)' = Pending(0)
    BY <1>3, RootList DEF Pending, Kids, Ahead
  <2> QED
    BY <1>3, <1>4, <2>1, <2>2 DEF EdgeData, BetweenTasks, End, SameData
<1>7. RootData'
  BY <1>2, <1>3, RootList DEF DataInv, RootData, BetweenTasks
<1>8. ASSUME NEW v \in Thread PROVE Handed(v)'
  <2>1. Handed(v) /\ Range(slot[v]) \subseteq Thread
    BY <1>1, DataTypes DEF DataInv
  <2>2. 0 \in Range(slot[v]) => v = 0
    <3>1. v \in Int /\ v >= 0
      BY <1>1, DataTypes
    <3> QED
      BY <2>1, <3>1 DEF Handed
  <2>3. \A x \in Thread \ {0} : AtRest(x) => AtRest(x)'
    BY <1>3 DEF AtRest, BetweenTasks
  <2>4. \A p \in Thread : Kids(p)' = Kids(p)
    BY DEF Kids
  <2> QED
    BY <1>3, <2>1, <2>2, <2>3, <2>4 DEF Handed
<1> QED
  BY <1>3, <1>4, <1>5, <1>6, <1>7, <1>8, OwnerData

\* Forking thread 0.
LEMMA OwnerForkData ==
    ASSUME IInv, DataInv, task # NoTask, Fork(Main)
    PROVE  DataInv'
<1>1. TypeOK /\ Target(Main) = 0 /\ Armed(0) /\ 0 # Main /\ Main \in Agent
      /\ 0 \in Agent
  BY RootTarget, Agents, RootList DEF IInv, RootEdge, Fork, LoopLabel
<1>2. /\ pc'[0] \in {"taskWait", "notifyReset"} /\ processed'[0] = 0
      /\ slot' = slot /\ task' = task
      /\ processed' = processed /\ avail' = avail /\ pass' = pass
      /\ \A b \in Agent \ {Main, 0} : pc'[b] = pc[b] /\ todo'[b] = todo[b]
      /\ 0 < task.concurrency => slot'[0] = << >> /\ OwnData(0)'
      /\ \A v \in Kids(0) : EdgeData(0, v)'
      /\ \A x \in Thread : AtRest(x) => AtRest(x)'
  BY <1>1, RootList, Agents, ForkEffect
<1>3. \A s \in Thread \ {0} : SameData(s)
  BY <1>2, Agents DEF SameData
<1>4. pc'[Main] = "waitSub"
  BY <1>1 DEF Fork, TypeOK
<1>5. RootData'
  BY <1>2, <1>4 DEF RootData
<1>6. \A v \in Thread : Handed(v)'
  BY <1>1, <1>2, HandedFrame
<1> QED
  BY <1>2, <1>3, <1>5, <1>6, OwnerData

\* The end of a task.
LEMMA OwnerEndData ==
    ASSUME IInv, DataInv, task # NoTask, MainWait \/ Join(Main)
    PROVE  DataInv'
<1>1. TypeOK
  BY DEF IInv
<1>2. /\ \A b \in Thread : pc'[b] = pc[b] /\ todo'[b] = todo[b]
      /\ pass' = pass /\ task' = task /\ slot' = slot
      /\ avail' = avail /\ processed' = processed
      /\ \/ pc[Main] = "waitSub" /\ processed[0] = 1 /\ pc'[Main] \in {"join", "release"}
         \/ pc[Main] = "join" /\ pc'[Main] \in {"join", "release"}
  <2>1. CASE MainWait
    <3>1. Target(Main) = 0
      BY <2>1, RootTarget DEF MainWait, LoopLabel
    <3> QED
      BY <1>1, <2>1, <3>1, Agents DEF MainWait, TypeOK, signals, locals, shared
  <2>2. CASE Join(Main)
    <3>1. EnterLoop(Main, Tail(todo[Main]), "join", "release")
      BY <2>2 DEF Join, Continue
    <3> QED
      BY <1>1, <2>2, <3>1, EnterLoopFrame, Agents DEF Join, signals, locals, shared
  <2> QED
    BY <2>1, <2>2
<1>3. \A s \in Thread : SameData(s)
  BY <1>2 DEF SameData
<1>4. 0 < task.concurrency => OwnData(0)'
  BY <1>2, <1>3, RootList, OwnDataFrame DEF DataInv
<1>5. \A v \in Kids(0) : EdgeData(0, v)'
  BY <1>2, <1>3, RootList, TreeFacts, EdgeDataFrame DEF DataInv
<1>6. RootData'
  BY <1>2, RootList DEF DataInv, RootData, BetweenTasks, End
<1>7. \A x \in Thread : AtRest(x) => AtRest(x)'
  BY <1>2 DEF AtRest, BetweenTasks
<1>8. \A v \in Thread : Handed(v)'
  BY <1>1, <1>2, <1>7, HandedFrame
<1> QED
  BY <1>2, <1>3, <1>4, <1>5, <1>6, <1>8, OwnerData

\* Starting a task: all slots are empty, and nobody has anything to fetch.
LEMMA SubmitData ==
    ASSUME IInv, NEW c \in 0 .. NumThreads, NEW j \in BOOLEAN, NEW id,
           Submit(c, j, id)
    PROVE  DataInv'
<1>1. TypeOK /\ TaskHeld /\ RootEdge
  BY DEF IInv
<1>2. pc[Main] = "idle" /\ task = NoTask /\ (Fresh(0) \/ Asleep(0))
  BY <1>1 DEF Submit, TaskHeld, RootEdge
<1>3. (\A t \in Thread : Fresh(t)) \/ (\A t \in Thread : Asleep(t))
  BY <1>2, AllFresh, AllAsleep
<1>4. CASE c # 0 \/ (j /\ handle[0])
  <2>1. EnterLoop(Main, <<0>>, "notifyReset", "notifyReset")
        /\ slot' = [t \in Thread |-> << >>]
        /\ UNCHANGED <<signals, handle, locals>>
    BY <1>4 DEF Submit
  <2>2. pc'[Main] = "notifyReset"
        /\ \A b \in Thread : pc'[b] = pc[b]
    BY <1>1, <2>1, EnterLoopFrame, RootList, Agents
  <2>3. pass' = pass
    BY <2>1 DEF locals
  <2>4. ASSUME NEW t \in Thread
        PROVE  /\ slot'[t] = << >> /\ OwnData(t)' /\ Handed(t)'
               /\ \A u \in Kids(t) : EdgeData(t, u)'
    <3>1. slot'[t] = << >>
      BY <2>1
    <3>2. pc'[t] \in {"none", "taskWait"}
      BY <1>3, <2>2 DEF Fresh, Asleep
    <3>3. OwnData(t)'
      BY <3>1, <3>2 DEF OwnData
    <3>4. Handed(t)'
      <4>1. Range(slot'[t]) = {}
        BY <3>1, ListFacts, EmptySeq
      <4> QED
        BY <4>1 DEF Handed
    <3>5. ASSUME NEW u \in Kids(t) PROVE EdgeData(t, u)'
      <4>1. u \in Thread /\ slot'[u] = << >>
        BY <2>1, TreeFacts
      <4>2. CASE \A s \in Thread : Fresh(s)
        BY <2>2, <4>1, <4>2 DEF Fresh, EdgeData, BetweenTasks
      <4>3. CASE \A s \in Thread : Asleep(s)
        <5>1. Pending(t)' = {}
          BY <2>2, <2>3, <4>3 DEF Asleep, Pending
        <5> QED
          BY <4>1, <5>1 DEF EdgeData
      <4> QED
        BY <1>3, <4>2, <4>3
    <3> QED
      BY <3>1, <3>3, <3>4, <3>5
  <2>5. RootData'
    BY <2>2, <2>4, RootList DEF RootData
  <2>6. \A t \in Thread : Kids(t)' = Kids(t)
    BY DEF Kids
  <2> QED
    BY <2>4, <2>5, <2>6 DEF DataInv
<1>5. CASE ~(c # 0 \/ (j /\ handle[0]))
  BY <1>2, <1>5 DEF Submit, DataInv, NoTask
<1> QED
  BY <1>4, <1>5

(***************************************************************************)
(* The theorems.                                                           *)
(***************************************************************************)

\* Between two calls nobody is busy, so that only a call changes anything.
LEMMA BusyHasTask ==
    ASSUME IInv, task = NoTask
    PROVE  /\ pc[Main] \in {"idle", "freed"}
           /\ \A t \in Thread : ~Step(t)
           /\ ~Step(Main)
<1>1. /\ TypeOK /\ pc[Main] \in {"idle", "freed"}
      /\ Fresh(0) \/ Asleep(0) \/ Left(0)
  BY DEF IInv, TaskHeld, RootEdge
<1>2. \/ \A t \in Thread : Fresh(t)
      \/ \A t \in Thread : Asleep(t)
      \/ \A t \in Thread : Left(t)
  BY <1>1, AllFresh, AllAsleep, AllLeft
<1>3. ASSUME NEW t \in Thread PROVE ~Step(t)
  <2>1. /\ pc[t] \in {"none", "taskWait", "exited"} /\ avail[t] = 0 /\ t # Main
    BY <1>2, Agents DEF Fresh, Asleep, Left
  <2> QED
    BY <2>1 DEF Step, NotifyReset, NotifySet, Fork, Join, Worker, TaskWait, TaskRun,
                WaitSub, SignalReset, SignalSet, JoinBegin
<1>4. ~Step(Main)
  BY <1>1, Agents DEF Step, NotifyReset, NotifySet, Fork, Join, MainWait, Release
<1> QED
  BY <1>1, <1>3, <1>4

\* Every step keeps the results where DataInv says they are: one case per action.
LEMMA DataInvStep == IInv /\ DataInv /\ [Next]_vars => DataInv'
<1> SUFFICES ASSUME IInv, DataInv, [Next]_vars PROVE DataInv'
  OBVIOUS
<1>1. ASSUME NEW c \in 0 .. NumThreads, NEW j \in BOOLEAN, Run(c, j) PROVE DataInv'
  BY <1>1, SubmitData DEF Run
<1>2. CASE Destroy
  <2>1. 0 \in 0 .. NumThreads /\ TRUE \in BOOLEAN
    BY BoundsAssumption
  <2> QED
    BY <1>2, <2>1, SubmitData DEF Destroy
<1>3. ASSUME NEW t \in Thread, Step(t) PROVE DataInv'
  <2>1. t # Main /\ task # NoTask
    BY <1>3, Agents, BusyHasTask
  <2> QED
    BY <1>3, <2>1, NotifyResetData, NotifySetData, ForkData, LeavingData, TaskWaitData,
       TaskRunData, WaitSubData, SignalResetData, SignalSetData
       DEF Step, Worker
<1>4. CASE Step(Main)
  <2>1. task # NoTask
    BY <1>4, BusyHasTask
  <2>2. CASE Release
    BY <2>2 DEF Release, DataInv
  <2> QED
    BY <1>4, <2>1, <2>2, Agents, OwnerNotifyData, OwnerForkData, OwnerEndData DEF Step
<1>5. CASE UNCHANGED vars
  <2>1. /\ pc' = pc /\ todo' = todo /\ pass' = pass /\ processed' = processed
        /\ avail' = avail /\ task' = task /\ slot' = slot
    BY <1>5 DEF vars
  <2>2. CASE task = NoTask
    BY <2>1, <2>2 DEF DataInv
  <2>3. CASE task # NoTask
    <3>1. \A s \in Thread : SameData(s)
      BY <2>1 DEF SameData
    <3>2. \A v \in Thread : Handed(v)'
      BY <2>1, <2>3, HandedFrame DEF IInv, AtRest, BetweenTasks
    <3>3. 0 < task.concurrency => OwnData(0)'
      BY <2>1, <2>3, <3>1, RootList, OwnDataFrame DEF DataInv
    <3>4. \A v \in Kids(0) : EdgeData(0, v)'
      BY <2>1, <2>3, <3>1, RootList, TreeFacts, EdgeDataFrame DEF DataInv
    <3>5. RootData'
      BY <2>1, <2>3, <3>1, RootList, RootDataFrame DEF DataInv
    <3> QED
      BY <2>1, <2>3, <3>1, <3>2, <3>3, <3>4, <3>5, OwnerData
  <2> QED
    BY <2>2, <2>3
<1> QED
  BY <1>1, <1>2, <1>3, <1>4, <1>5, Agents DEF Next, Call, Freed

\* A squad that was just constructed has no task.
LEMMA DataInvInit == Init => DataInv
  BY DEF Init, DataInv

\* The results of a task are where DataInv says they are.
THEOREM ResultsInPlace == Spec => [](IInv /\ DataInv)
<1>1. Init => IInv /\ DataInv
  BY IInvInit, DataInvInit
<1>2. IInv /\ DataInv /\ [Next]_vars => (IInv /\ DataInv)'
  BY IInvStep, DataInvStep
<1> QED
  BY <1>1, <1>2, PTL DEF Spec

\* When a call is about to return, thread 0 has the results of all participants, and
\* nobody else has any.
LEMMA ResultsAtRelease ==
    ASSUME IInv, DataInv, pc[Main] = "release"
    PROVE  /\ task # NoTask
           /\ slot[0] = Interval(0, task.concurrency)
           /\ \A t \in Thread \ {0} : slot[t] = << >>
<1>1. TypeOK /\ task # NoTask /\ IF task.join THEN Left(0) ELSE Asleep(0)
  BY DEF IInv, TaskHeld, RootEdge
<1>2. \/ \A t \in Thread : Asleep(t)
      \/ \A t \in Thread : Left(t)
  BY <1>1, AllAsleep, AllLeft
<1>3. \A t \in Thread : BetweenTasks(t) /\ Pending(t) = {}
  BY <1>2 DEF Asleep, Left, BetweenTasks, Pending
<1>4. slot[0] = Interval(0, task.concurrency)
  <2>1. PICK c \in 0 .. NumThreads : c = task.concurrency
    BY <1>1, DataTypes
  <2>2. CASE 0 < c
    <3>1. slot[0] = Interval(0, End(0))
      BY <1>1, <1>3, <2>1, <2>2, RootList DEF DataInv, RootData
    <3>2. BlockSize[0] = NumThreads /\ NumThreads \in Nat
      BY BlockAssumption, TreeFacts
    <3>3. End(0) = c
      BY <2>1, <3>2 DEF End, BlockEnd
    <3> QED
      BY <2>1, <3>1, <3>3
  <2>3. CASE c = 0
    <3>1. slot[0] = << >>
      BY <1>1, <2>1, <2>3, RootList DEF DataInv
    <3> QED
      BY <2>1, <2>3, <3>1, IntervalOne
  <2>4. c \in Nat
    BY TreeFacts
  <2> QED
    BY <2>2, <2>3, <2>4
<1>5. ASSUME NEW t \in Thread \ {0} PROVE slot[t] = << >>
  <2>1. PICK p \in Thread : t \in Kids(p)
    BY TreeFacts
  <2>2. CASE t < task.concurrency
    BY <1>1, <1>3, <2>1, <2>2 DEF DataInv, EdgeData
  <2>3. CASE ~(t < task.concurrency)
    BY <1>1, <2>3 DEF DataInv
  <2> QED
    BY <2>2, <2>3
<1> QED
  BY <1>1, <1>4, <1>5

\* When a call is about to return, every participant has executed the task exactly
\* once, and what they produced has reached thread 0 in the order of the thread
\* indices, whatever the tree; and nobody starts on a task with results in its slot.
THEOREM ResultsAreComplete == Spec => []ResultComplete
<1>1. IInv /\ DataInv => ResultComplete
  <2> SUFFICES ASSUME IInv, DataInv PROVE ResultComplete
    OBVIOUS
  <2>1. TypeOK
    BY DEF IInv
  <2>2. ASSUME pc[Main] = "release"
        PROVE  slot = [t \in Thread |-> IF t = 0
                                        THEN [k \in 1 .. task.concurrency |-> k - 1]
                                        ELSE << >>]
    <3>1. PICK c \in Int : c = task.concurrency
      BY <2>1, DataTypes
    <3>2. /\ slot[0] = Interval(0, c) /\ \A t \in Thread \ {0} : slot[t] = << >>
      BY <2>2, <3>1, ResultsAtRelease
    <3>3. Interval(0, c) = [k \in 1 .. c |-> k - 1]
      BY DEF Interval
    <3>4. slot \in [Thread -> Seq(Thread)]
      BY <2>1 DEF TypeOK
    <3> QED
      BY <3>1, <3>2, <3>3, <3>4
  <2>3. ASSUME NEW t \in 0 .. task.concurrency-1, pc[t] = "run" PROVE slot[t] = << >>
    <3>1. t \in Thread /\ t < task.concurrency /\ task # NoTask
      <4>1. t \in Thread /\ t < task.concurrency /\ task.concurrency > 0
        BY <2>1, DataTypes DEF Thread
      <4> QED
        BY <4>1 DEF NoTask
    <3> QED
      BY <2>3, <3>1 DEF DataInv, OwnData
  <2> QED
    BY <2>2, <2>3 DEF ResultComplete
<1> QED
  BY <1>1, ResultsInPlace, PTL

(***************************************************************************)
(* The engine implements the fork-join promise.                            *)
(***************************************************************************)

\* The elements of two sequences put together.
LEMMA RangeConcat ==
    ASSUME NEW S, NEW s1 \in Seq(S), NEW s2 \in Seq(S)
    PROVE  Range(s1 \o s2) = Range(s1) \cup Range(s2)
<1>1. /\ s1 \o s2 \in Seq(S) /\ Len(s1 \o s2) = Len(s1) + Len(s2)
      /\ \A k \in 1 .. Len(s1) + Len(s2) :
             (s1 \o s2)[k] = IF k <= Len(s1) THEN s1[k] ELSE s2[k - Len(s1)]
      /\ Len(s1) \in Nat /\ Len(s2) \in Nat
  BY ConcatProperties, LenProperties
<1>2. /\ DOMAIN s1 = 1 .. Len(s1) /\ DOMAIN s2 = 1 .. Len(s2)
      /\ DOMAIN (s1 \o s2) = 1 .. Len(s1) + Len(s2)
  BY <1>1
<1>3. ASSUME NEW y \in Range(s1 \o s2) PROVE y \in Range(s1) \cup Range(s2)
  <2>1. PICK k \in 1 .. Len(s1) + Len(s2) : y = (s1 \o s2)[k]
    BY <1>2 DEF Range
  <2>2. CASE k <= Len(s1)
    <3>1. k \in 1 .. Len(s1) /\ y = s1[k]
      BY <1>1, <2>1, <2>2
    <3> QED
      BY <1>2, <3>1 DEF Range
  <2>3. CASE ~(k <= Len(s1))
    <3>1. k - Len(s1) \in 1 .. Len(s2) /\ y = s2[k - Len(s1)]
      BY <1>1, <2>1, <2>3
    <3> QED
      BY <1>2, <3>1 DEF Range
  <2> QED
    BY <2>2, <2>3
<1>4. ASSUME NEW y \in Range(s1) PROVE y \in Range(s1 \o s2)
  <2>1. PICK k \in 1 .. Len(s1) : y = s1[k]
    BY <1>2, <1>4 DEF Range
  <2>2. k \in 1 .. Len(s1) + Len(s2) /\ (s1 \o s2)[k] = y
    BY <1>1, <2>1
  <2> QED
    BY <1>2, <2>2 DEF Range
<1>5. ASSUME NEW y \in Range(s2) PROVE y \in Range(s1 \o s2)
  <2>1. PICK k \in 1 .. Len(s2) : y = s2[k]
    BY <1>2, <1>5 DEF Range
  <2>2. /\ Len(s1) + k \in 1 .. Len(s1) + Len(s2) /\ ~(Len(s1) + k <= Len(s1))
        /\ (Len(s1) + k) - Len(s1) = k
    BY <1>1, <2>1
  <2>3. (s1 \o s2)[Len(s1) + k] = y
    BY <1>1, <2>1, <2>2
  <2> QED
    BY <1>2, <2>2, <2>3 DEF Range
<1> QED
  BY <1>3, <1>4, <1>5

\* What the promise sees of the engine: where a call is, and who has executed its task.
Phase == IF pc[Main] = "idle" THEN "ready"
         ELSE IF pc[Main] = "freed" THEN "gone" ELSE "busy"

Done == IF task = NoTask THEN {} ELSE UNION { Range(slot[t]) : t \in Thread }

\* The refinement mapping writes the same set element by element.
DoneMap == IF task = NoTask THEN {}
           ELSE UNION { {slot[t][k] : k \in 1 .. Len(slot[t])} : t \in Thread }

LEMMA DoneMapped == TypeOK => Done = DoneMap
<1> SUFFICES ASSUME TypeOK PROVE Done = DoneMap
  OBVIOUS
<1>1. ASSUME NEW t \in Thread PROVE Range(slot[t]) = {slot[t][k] : k \in 1 .. Len(slot[t])}
  <2>1. DOMAIN slot[t] = 1 .. Len(slot[t])
    BY DEF TypeOK
  <2> QED
    BY <2>1 DEF Range
<1>2. UNION { Range(slot[t]) : t \in Thread }
        = UNION { {slot[t][k] : k \in 1 .. Len(slot[t])} : t \in Thread }
  <2> DEFINE F(t) == {slot[t][k] : k \in 1 .. Len(slot[t])}
  <2>1. \A t \in Thread : Range(slot[t]) = F(t)
    BY <1>1
  <2> HIDE DEF F
  <2>2. UNION { Range(slot[t]) : t \in Thread } = UNION { F(t) : t \in Thread }
    BY <2>1
  <2> QED
    BY <2>2 DEF F
<1> QED
  BY <1>2 DEF Done, DoneMap

\* The promise, in these words.
LEMMA PromiseWords ==
    ASSUME TypeOK, TypeOK'
    PROVE  /\ \A t \in 0 .. NumThreads-1 :
                /\ Phase = "busy" /\ t \in 0 .. task.concurrency-1 /\ t \notin Done
                /\ Done' = Done \cup {t} /\ Phase' = Phase /\ task' = task
                => Promise!Next
           /\ \A c \in 0 .. NumThreads, j \in BOOLEAN :
                /\ Phase = "ready" /\ Phase' = "busy" /\ task'.concurrency = c
                /\ task'.join = j /\ Done' = Done
                => Promise!Next
           /\ Phase = "ready" /\ Phase' = "gone" /\ task' = task /\ Done' = Done
                => Promise!Next
           /\ /\ Phase = "busy" /\ Done = 0 .. task.concurrency-1
              /\ Phase' = IF task.join THEN "gone" ELSE "ready"
              /\ task' = NoTask
              => Promise!Next
           /\ Phase' = Phase /\ task' = task /\ Done' = Done
                => UNCHANGED Promise!vars
<1>1. Done = DoneMap
  BY DoneMapped
<1>2. Done' = DoneMap'
  <2>1. TypeOK' => (Done = DoneMap)'
    BY DoneMapped, PTL
  <2> QED
    BY <2>1
<1>3. /\ NoTask.concurrency = 0 /\ NoTask.join = FALSE
      /\ task' = NoTask => Done' = {}
  BY DEF NoTask, Done
<1>4. ASSUME NEW t \in 0 .. NumThreads-1,
             Phase = "busy" /\ t \in 0 .. task.concurrency-1 /\ t \notin Done,
             Done' = Done \cup {t} /\ Phase' = Phase /\ task' = task
      PROVE  Promise!Next
  BY <1>1, <1>2, <1>4 DEF Promise!Next, Promise!Execute, Phase, DoneMap
<1>5. ASSUME NEW c \in 0 .. NumThreads, NEW j \in BOOLEAN,
             Phase = "ready" /\ Phase' = "busy" /\ task'.concurrency = c,
             task'.join = j /\ Done' = Done
      PROVE  Promise!Next
  BY <1>1, <1>2, <1>5 DEF Promise!Next, Promise!Call, Phase, DoneMap
<1>6. ASSUME Phase = "ready" /\ Phase' = "gone" /\ task' = task /\ Done' = Done
      PROVE  Promise!Next
  BY <1>1, <1>2, <1>6 DEF Promise!Next, Promise!GiveUp, Phase, DoneMap
<1>7. ASSUME Phase = "busy" /\ Done = 0 .. task.concurrency-1,
             Phase' = IF task.join THEN "gone" ELSE "ready",
             task' = NoTask
      PROVE  Promise!Next
  BY <1>1, <1>2, <1>3, <1>7 DEF Promise!Next, Promise!Return, Phase, DoneMap
<1>8. ASSUME Phase' = Phase /\ task' = task /\ Done' = Done
      PROVE  UNCHANGED Promise!vars
  BY <1>1, <1>2, <1>8 DEF Promise!vars, Phase, DoneMap
<1> QED
  BY <1>4, <1>5, <1>6, <1>7, <1>8

\* The threads of the squad never change where the owner is.
LEMMA ThreadStepPhase ==
    ASSUME TypeOK, NEW t \in Thread, Step(t)
    PROVE  pc'[Main] = pc[Main]
<1>1. t # Main /\ t \in Agent /\ Main \in Agent
  BY Agents
<1>2. CASE NotifyReset(t) \/ SignalReset(t) \/ SignalSet(t)
  BY <1>1, <1>2 DEF NotifyReset, SignalReset, SignalSet, TypeOK
<1>3. CASE NotifySet(t)
  <2>1. CASE pass[t] = 0
    BY <1>1, <1>3, <2>1 DEF NotifySet, TypeOK
  <2>2. CASE pass[t] # 0
    <3>1. EnterLoop(t, Tail(todo[t]), "notifyReset", AfterNotify(t))
      BY <1>1, <1>3, <2>2 DEF NotifySet, Continue
    <3> QED
      BY <1>1, <3>1, EnterLoopFrame
  <2> QED
    BY <2>1, <2>2
<1>4. CASE Fork(t)
  <2>1. Target(t) \in Thread /\ Target(t) # Main
    BY <1>1, <1>4, TypeOKTarget, Agents DEF Fork, LoopLabel
  <2> QED
    BY <1>1, <1>4, <2>1 DEF Fork, TypeOK
<1>5. CASE Join(t) \/ TaskWait(t) \/ TaskRun(t) \/ WaitSub(t) \/ JoinBegin(t)
  <2>1. \E list, loop, after : EnterLoop(t, list, loop, after)
    BY <1>5 DEF Join, TaskWait, TaskRun, WaitSub, JoinBegin, Continue
  <2> QED
    BY <1>1, <2>1, EnterLoopFrame
<1> QED
  BY <1>1, <1>2, <1>3, <1>4, <1>5 DEF Step, Worker

\* A participant executes the task, and has not done so before.
LEMMA TaskRunPromise ==
    ASSUME IInv, DataInv, TypeOK', task # NoTask, NEW t \in Thread, TaskRun(t)
    PROVE  [Promise!Next]_(Promise!vars)
<1>1. TypeOK /\ pc[t] = "run" /\ task' = task /\ pc[Main] \notin {"idle", "freed"}
  BY DEF IInv, TaskHeld, TaskRun
<1>2. pc'[Main] = pc[Main]
  BY <1>1, ThreadStepPhase DEF Step, Worker
<1>3. Phase = "busy" /\ Phase' = Phase
  BY <1>1, <1>2 DEF Phase
<1>4. CASE ~(t < task.concurrency)
  <2>1. slot' = slot
    BY <1>4 DEF TaskRun
  <2>2. Done' = Done
    BY <1>1, <2>1 DEF Done
  <2> QED
    BY <1>1, <1>3, <2>2, PromiseWords
<1>5. CASE t < task.concurrency
  <2>1. slot[t] = << >>
    BY <1>1, <1>5 DEF DataInv, OwnData
  <2>2. slot'[t] = << t >> /\ \A s \in Thread \ {t} : slot'[s] = slot[s]
    BY <1>1, <1>5, <2>1 DEF TaskRun, Transformed, TypeOK
  <2>3. Range(slot[t]) = {} /\ Range(slot'[t]) = {t}
    <3>1. Range(<< t >>) = {t}
      BY DEF Range
    <3> QED
      BY <2>1, <2>2, <3>1, ListFacts, EmptySeq
  <2>4. t \notin Done
    <3> SUFFICES ASSUME NEW s \in Thread, t \in Range(slot[s]) PROVE FALSE
      BY <1>1 DEF Done
    <3>1. s # t /\ Handed(s)
      BY <2>3 DEF DataInv
    <3>2. AtRest(t)
      BY <3>1 DEF Handed
    <3> QED
      BY <1>1, <3>2 DEF AtRest, BetweenTasks
  <2>5. Done' = Done \cup {t}
    <3>1. Done = UNION { Range(slot[s]) : s \in Thread }
      BY DEF Done
    <3>2. Done' = UNION { Range(slot'[s]) : s \in Thread }
      BY <1>1 DEF Done
    <3>3. ASSUME NEW x \in Done' PROVE x \in Done \cup {t}
      <4>1. PICK s \in Thread : x \in Range(slot'[s])
        BY <3>2
      <4>2. CASE s = t
        BY <2>3, <4>1, <4>2
      <4>3. CASE s # t
        BY <2>2, <3>1, <4>1, <4>3
      <4> QED
        BY <4>2, <4>3
    <3>4. ASSUME NEW x \in Done PROVE x \in Done'
      <4>1. PICK s \in Thread : x \in Range(slot[s])
        BY <3>1, <3>4
      <4>2. s # t
        BY <2>3, <4>1
      <4>3. x \in Range(slot'[s])
        BY <2>2, <4>1, <4>2
      <4> QED
        BY <3>2, <4>3
    <3>5. t \in Done'
      BY <2>3, <3>2
    <3> QED
      BY <3>3, <3>4, <3>5
  <2>6. t \in 0 .. NumThreads-1 /\ t \in 0 .. task.concurrency-1
    BY <1>1, <1>5, DataTypes DEF Thread
  <2> QED
    BY <1>1, <1>3, <2>4, <2>5, <2>6, PromiseWords
<1> QED
  BY <1>4, <1>5

\* Merging moves results and loses none.
LEMMA WaitSubPromise ==
    ASSUME IInv, DataInv, TypeOK', task # NoTask, NEW t \in Thread, WaitSub(t)
    PROVE  [Promise!Next]_(Promise!vars)
<1>1. TypeOK /\ pc[t] = "waitSub" /\ task' = task
  BY DEF IInv, WaitSub
<1>2. pc'[Main] = pc[Main]
  BY <1>1, ThreadStepPhase DEF Step, Worker
<1>3. Phase' = Phase
  BY <1>2 DEF Phase
<1>4. PICK u : u = Target(t)
  OBVIOUS
<1>5. u \in Thread /\ u # t
  BY <1>1, <1>4, TargetIsKid, TreeFacts DEF LoopLabel
<1>6. Done' = Done
  <2>1. CASE ~(u < task.concurrency)
    <3>1. slot' = slot
      BY <1>4, <2>1 DEF WaitSub
    <3> QED
      BY <1>1, <3>1 DEF Done
  <2>2. CASE u < task.concurrency
    <3>1. /\ slot'[t] = slot[t] \o slot[u] /\ slot'[u] = << >>
          /\ \A s \in Thread \ {t, u} : slot'[s] = slot[s]
      BY <1>1, <1>4, <1>5, <2>2 DEF WaitSub, Merged, TypeOK
    <3>2. /\ Range(slot'[t]) = Range(slot[t]) \cup Range(slot[u])
          /\ Range(slot'[u]) = {}
      BY <1>1, <1>5, <3>1, DataTypes, RangeConcat, ListFacts, EmptySeq
    <3>3. Done = UNION { Range(slot[s]) : s \in Thread }
      BY DEF Done
    <3>4. Done' = UNION { Range(slot'[s]) : s \in Thread }
      BY <1>1 DEF Done
    <3>5. ASSUME NEW x \in Done' PROVE x \in Done
      <4>1. PICK s \in Thread : x \in Range(slot'[s])
        BY <3>4, <3>5
      <4>2. x \in Range(slot[s]) \/ x \in Range(slot[u])
        BY <3>1, <3>2, <4>1
      <4> QED
        BY <1>5, <3>3, <4>2
    <3>6. ASSUME NEW x \in Done PROVE x \in Done'
      <4>1. PICK s \in Thread : x \in Range(slot[s])
        BY <3>3, <3>6
      <4>2. x \in Range(slot'[s]) \/ x \in Range(slot'[t])
        BY <3>1, <3>2, <4>1
      <4> QED
        BY <3>4, <4>2
    <3> QED
      BY <3>5, <3>6
  <2> QED
    BY <2>1, <2>2
<1> QED
  BY <1>1, <1>3, <1>6, PromiseWords

\* A call, with or without work to do.
LEMMA SubmitPromise ==
    ASSUME IInv, TypeOK', NEW c \in 0 .. NumThreads, NEW j \in BOOLEAN, NEW id, id # 0,
           Submit(c, j, id)
    PROVE  [Promise!Next]_(Promise!vars)
<1>1. TypeOK /\ pc[Main] = "idle" /\ task = NoTask
  BY DEF IInv, TaskHeld, Submit
<1>2. Phase = "ready" /\ Done = {}
  BY <1>1 DEF Phase, Done
<1>3. CASE c # 0 \/ (j /\ handle[0])
  <2>1. /\ task' = [id |-> id, concurrency |-> c, join |-> j]
        /\ slot' = [t \in Thread |-> << >>]
        /\ EnterLoop(Main, <<0>>, "notifyReset", "notifyReset")
    BY <1>3 DEF Submit
  <2>2. pc'[Main] = "notifyReset"
    BY <1>1, <2>1, EnterLoopFrame, RootList, Agents
  <2>3. Phase' = "busy"
    BY <2>2 DEF Phase
  <2>4. \A t \in Thread : Range(slot'[t]) = {}
    BY <2>1, ListFacts, EmptySeq
  <2>5. Done' = {}
    BY <2>4 DEF Done
  <2> QED
    BY <1>1, <1>2, <2>1, <2>3, <2>5, PromiseWords
<1>4. CASE ~(c # 0 \/ (j /\ handle[0]))
  <2>1. /\ pc'[Main] = IF j THEN "freed" ELSE "idle"
        /\ task' = task /\ slot' = slot
    BY <1>1, <1>4, Agents DEF Submit, TypeOK
  <2>2. Done' = Done
    BY <2>1 DEF Done
  <2>3. Phase' = IF j THEN "gone" ELSE "ready"
    BY <2>1 DEF Phase
  <2> QED
    BY <1>1, <1>2, <2>1, <2>2, <2>3, PromiseWords
<1> QED
  BY <1>3, <1>4

\* The call returns when all participants are done.
LEMMA ReleasePromise ==
    ASSUME IInv, DataInv, TypeOK', Release
    PROVE  [Promise!Next]_(Promise!vars)
<1>1. TypeOK /\ pc[Main] = "release"
  BY DEF IInv, Release
<1>2. PICK c \in Int : c = task.concurrency /\ 0 <= c
  BY <1>1, DataTypes
<1>3. /\ task # NoTask /\ slot[0] = Interval(0, c)
      /\ \A t \in Thread \ {0} : slot[t] = << >>
  BY <1>1, <1>2, ResultsAtRelease
<1>4. Range(slot[0]) = 0 .. c-1 /\ \A t \in Thread \ {0} : Range(slot[t]) = {}
  <2>1. Range(Interval(0, c)) = 0 .. c-1
    BY <1>2, IntervalRange
  <2>2. << >> \in Seq(Thread) /\ Range(<< >>) = {}
    BY ListFacts, EmptySeq
  <2> QED
    BY <1>3, <2>1, <2>2
<1>5. Done = 0 .. task.concurrency-1
  <2>1. Done = UNION { Range(slot[t]) : t \in Thread }
    BY <1>3 DEF Done
  <2>2. ASSUME NEW x \in Done PROVE x \in Range(slot[0])
    <3>1. PICK t \in Thread : x \in Range(slot[t])
      BY <2>1, <2>2
    <3> QED
      BY <1>4, <3>1
  <2>3. Range(slot[0]) \subseteq Done
    BY <2>1, RootList
  <2> QED
    BY <1>2, <1>4, <2>2, <2>3
<1>6. /\ pc'[Main] = IF task.join THEN "freed" ELSE "idle"
      /\ task' = NoTask
  BY <1>1, EnterLoopFrame, Agents DEF Release
<1>7. Phase = "busy" /\ Phase' = IF task.join THEN "gone" ELSE "ready"
  BY <1>1, <1>6 DEF Phase
<1> QED
  BY <1>1, <1>5, <1>6, <1>7, PromiseWords

\* Every other step stutters.
LEMMA OtherPromise ==
    ASSUME IInv, IInv', slot' = slot, task' = task,
           task = NoTask => pc'[Main] = pc[Main]
    PROVE  [Promise!Next]_(Promise!vars)
<1>1. TypeOK /\ TypeOK'
  BY DEF IInv
<1>2. Done' = Done
  BY DEF Done
<1>3. Phase' = Phase
  BY DEF IInv, TaskHeld, Phase
<1> QED
  BY <1>1, <1>2, <1>3, PromiseWords

\* Every step of the engine is a step of the promise or invisible to it.
LEMMA PromiseStep ==
    IInv /\ DataInv /\ [Next]_vars => [Promise!Next]_(Promise!vars)
<1> SUFFICES ASSUME IInv, DataInv, [Next]_vars PROVE [Promise!Next]_(Promise!vars)
  OBVIOUS
<1>1. IInv' /\ TypeOK'
  BY IInvStep DEF IInv
<1>2. ASSUME NEW c \in 0 .. NumThreads, NEW j \in BOOLEAN, Run(c, j)
      PROVE  [Promise!Next]_(Promise!vars)
  <2>1. runs + 1 # 0
    BY DEF IInv, TypeOK
  <2> QED
    BY <1>1, <1>2, <2>1, SubmitPromise DEF Run
<1>3. CASE Destroy
  <2>1. runs + 1 # 0
    BY DEF IInv, TypeOK
  <2>2. 0 \in 0 .. NumThreads /\ TRUE \in BOOLEAN
    BY BoundsAssumption
  <2> QED
    BY <1>1, <1>3, <2>1, <2>2, SubmitPromise DEF Destroy
<1>4. ASSUME NEW t \in Thread, Step(t) PROVE [Promise!Next]_(Promise!vars)
  <2>1. t # Main /\ task # NoTask
    BY <1>4, Agents, BusyHasTask
  <2>2. CASE ~TaskRun(t) /\ ~WaitSub(t)
    <3>1. slot' = slot /\ task' = task
      BY <1>4, <2>1, <2>2
         DEF Step, Worker, NotifyReset, NotifySet, Fork, Join, TaskWait, SignalReset,
             SignalSet, JoinBegin, shared
    <3> QED
      BY <1>1, <2>1, <3>1, OtherPromise
  <2> QED
    BY <1>1, <2>1, <2>2, TaskRunPromise, WaitSubPromise
<1>5. CASE Step(Main)
  <2>1. task # NoTask
    BY <1>5, BusyHasTask
  <2>2. CASE ~Release
    <3>1. slot' = slot /\ task' = task
      BY <1>5, <2>2, Agents
         DEF Step, NotifyReset, NotifySet, Fork, Join, MainWait, shared
    <3> QED
      BY <1>1, <2>1, <3>1, OtherPromise
  <2> QED
    BY <1>1, <2>2, ReleasePromise
<1>6. CASE UNCHANGED vars
  BY <1>1, <1>6, OtherPromise DEF vars
<1> QED
  BY <1>2, <1>3, <1>4, <1>5, <1>6, Agents DEF Next, Call, Freed

\* A squad that was just constructed is ready for a call.
LEMMA PromiseInit == Init => Promise!Init
  BY DEF Init, Promise!Init, NoTask, Main, Agent

\* The engine keeps the safety part of the fork-join promise: each participant executes
\* the task once and only while a call is being made, a call returns only when all of
\* them have, and the squad is gone only after a call that asked for a join.  (That
\* every call does return is checked by TLC.)
THEOREM PromiseIsSafe == Spec => Promise!Init /\ [][Promise!Next]_(Promise!vars)
<1>1. Init => Promise!Init
  BY PromiseInit
<1>2. IInv /\ DataInv /\ [Next]_vars => [Promise!Next]_(Promise!vars)
  BY PromiseStep
<1> QED
  BY <1>1, <1>2, ResultsInPlace, PTL DEF Spec

==============================================================================
