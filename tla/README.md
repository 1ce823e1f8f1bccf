# A specification of patton

[patton](../src/README.md) is a C++ library of low-level building blocks for
parallel programs: a *thread squad* (a fork-join thread pool with hierarchical
wake-up and in-task synchronization), queries of the hardware (physical cores,
page and cache-line sizes), and allocators and buffers with strong alignment.
This directory models it in TLA+, checks the models with TLC and proves the
central results with TLAPS.

The repository is `src/`, next to this directory, and source paths start there; `thread_squad.cpp` without a path is
`src/src/thread_squad.cpp`.

## The system

| component | state it keeps | operations | what is hard about it | what makes it correct |
|---|---|---|---|---|
| **Wake-up tree** (`thread_squad_impl::init`, `to_subthreads`, `from_subthreads`) | `numSubthreads_` of every thread, fixed at construction | enumerate the subordinates of a thread, clipped at a concurrency | block sizes that do not divide evenly, clipping | every participant has one superordinate; those waited for are those notified; order of merging |
| **Fork-join engine** (`run`, `run_thread`, `thread_data`) | `signalTaskAvailable_`, `signalTaskProcessed_`, `pass_`, thread handles, `task_`; the slots of `transform_reduce` | `run`, `transform_reduce`, `transform_reduce_first` on lvalues and rvalues; destruction | four kinds of signals between threads that are not always all awake; first pass creates threads; the task lives on the caller's stack | assertions hold; a call returns when, and only when, its participants are done; nobody left behind |
| **Synchronization** (`task_context`, `synchronize_collect`, `synchronize_broadcast`) | `signalCollecting_`, `signalBroadcasting_`, `syncData_`, synchronizers on the stacks of the threads | `synchronize`, `reduce`, `reduce_transform` | signals reused by the next operation and the next task; pointers into other threads' stacks | all threads meet; everybody gets the reduction in thread order; no dead pointer |
| **Signals** (`wait`, `reset`, `set_and_notify`) | one atomic flag each | spin, sleep, set, wake up | relaxed loads and stores; sleeping and setting at the same time | what a flag guards is seen completely; no wake-up is lost |
| **CPU topology** (`src/src/cpuinfo.cpp`) | two atomics and a vector | `physical_concurrency`, `physical_core_ids`; parsing `/proc/cpuinfo` | racing first calls; processors in any order | a defined result for every caller; one thread per core |
| **Squad parameters** (`check_params`, `create`, `get_hardware_thread_id`) | none | defaults, pinning | zero and missing values | what is accepted works; threads use all hardware threads allowed |
| **Lazy initialization** (`detail/lazy-init.hpp`, `src/src/new.cpp`) | three atomics | page, large page and cache line size | racing and nested initializers | all callers agree, and what they are told has been checked |
| **Page allocation** (`src/src/memory.cpp`) | the pages mapped; a trap behind the data | `page_alloc`, `large_page_alloc` and their counterparts | sizes rounded up, failing system calls | all pages are returned; writes past the end are found |
| **Aligned buffers** (`buffer.hpp`, `detail/buffer.hpp`, `detail/transaction.hpp`) | elements and memory owned | construct, move, destroy | a constructor throwing half-way | every element constructed once and destroyed once |
| **Allocators** (`memory.hpp`, `detail/memory.hpp`) | none; an adaptor keeps a pointer behind the data | alignment predicates, `allocate`, `allocate_unique` | sizes known at runtime only; overflow | promises made at compile time hold on every machine |
| **Arithmetic, errors** (`detail/arithmetic.hpp`, `errors.cpp`) | none | pure functions | overflow | results as defined over the integers |

The squad's owner calls the engine; the engine walks the tree; threads executing a
task call the synchronization, which walks the same tree with signals of its own;
the engine's per-thread data lives in an aligned buffer of pages. There are no
callbacks other than the user's functions. Nothing is persisted, and no message can be
lost: the system's difficulty is interleaving, stale signals and lifetimes.
Exceptions in tasks, failing system calls and failing assertions end the
program, so there is no recovery to model.

## Modules

| module | models | |
|---|---|---|
| `SquadTree` | the tree: `NumSubthreads`, `ToSubthreads`, `FromSubthreads` as functions of squad size, thread and concurrency | pure |
| `ThreadSquad` | the engine | state machine |
| `ThreadSquadInv` | its inductive invariants and the assumptions on the tree | |
| `Blocks` | the blocks of consecutive threads the tree is made of | pure |
| `Basics_proofs` | lemmas about integers, sequences and blocks, and the theorem about `Arithmetic` | proofs |
| `ForkJoin` | what the engine promises its owner | abstract |
| `ThreadSquad_proofs` | theorems about `ThreadSquad` | proofs |
| `SquadSync` | synchronization inside tasks | state machine |
| `SquadSyncInv` | its inductive invariant and the assumption on the tree | |
| `AllReduce` | what it promises: meetings nobody leaves before everybody has come | abstract |
| `SquadSync_proofs` | theorems about `SquadSync` | proofs |
| `SyncedSquad` | `ThreadSquad` and `SquadSync` composed | composition |
| `SyncedSquad_proofs` | its inductive invariant, and theorems about `SyncedSquad` | proofs |
| `SignalWait` | waiting for a flag and setting it, on weakly ordered memory | state machine |
| `Handover` | what a pair of flags promises the threads at its ends | abstract |
| `SignalWait_proofs` | its inductive invariant, and theorems about `SignalWait` | proofs |
| `SquadParams` | from a squad's parameters to its threads and their hardware threads | pure |
| `CpuInfo` | initialization of the CPU topology | state machine |
| `ProcCpuinfo` | counting cores in `/proc/cpuinfo` | pure |
| `LazyInit` | initialization of the sizes of cache lines, pages and large pages | state machine |
| `Hardware_proofs` | the inductive invariants of `CpuInfo` and `LazyInit`; theorems about them, `SquadParams` and `Alignment` | proofs |
| `AlignedBuffer` | lifetimes of elements and memory in aligned buffers and `allocate_unique` | state machine |
| `AlignedBuffer_proofs` | its inductive invariant, and theorems about `AlignedBuffer` | proofs |
| `PageAlloc` | pages, system calls and the trap behind the data | state machine |
| `PageAlloc_proofs` | its inductive invariant; theorems about `PageAlloc` and `AlignedAdaptor` | proofs |
| `Alignment` | alignments, and what allocators promise and return | pure |
| `AlignedAdaptor` | the layout of memory from `aligned_allocator_adaptor` | pure |
| `Arithmetic` | multiplying and rounding up, checked and unchecked | pure |
| `MC...` | small instances of the above for TLC; `MCFunctions` puts the pure modules, `CpuInfo` and `LazyInit` together | |

### The tree

`threadData_[first].numSubthreads_ = stride` runs after the recursive calls of
`init`, so the outermost block that starts at a thread counts: `NumSubthreads`
says so directly. The two traversals are sequences of the threads visited, in the
order of the visits. `ThreadSquad` and `SquadSync` take them as constants `ToSub`
and `FromSub`; their MC modules give them the values `SquadTree` computes.

### The engine

The owner is agent `Main` (-1 in the code); the squad's threads are `0 .. NumThreads-1`.
One action is one access to a variable shared by two threads, with the
thread-private work up to the next such access:

| action | code |
|---|---|
| `Run`, `Destroy` (via `Submit`) | the entry points, `do_run`, the deleter, and `run` up to `notify_thread(-1, 0)`; nothing happens if there is no work |
| `NotifyReset`, `NotifySet` | `notify_thread`: reset `signalTaskProcessed_`, set `signalTaskAvailable_` |
| `Fork`, `Join` | `os_thread::fork` and `join`, by the owner for thread 0 and by threads for their subordinates |
| `TaskWait` | `task_wait`, binding the reference to the task, then `notify_subthreads` unless it is the initial pass |
| `TaskRun` | `task_run`; a participant's result appears in its slot |
| `WaitSub` | `wait_for_thread` by a worker, merging results of a participant |
| `SignalReset`, `SignalSet` | `task_signal_completion`, then `next_pass` and the loop condition |
| `JoinBegin` | `join_subthreads` reads `task_` again |
| `MainWait`, `Release` | `wait_for_thread(-1, 0)`, `release_task`, freeing the squad |

The loops over subordinates are kept in `todo`. A task carries an id, so that a
reference to an old task can be told from one to the current task, its
concurrency and `join_requested`. A thread contributes its own index to a
reduction and reducing is concatenation, which is associative and not
commutative: a slot shows what was reduced and in which order. `pass_` clamps
at `PassMax`, which stands for the largest `int`; the runs make it small so that
it is reached. A `concurrency` of -1 is the number of threads.
`transform_reduce` with concurrency 0 returns without calling `run`; to the engine
it is `Run(0, FALSE)`, which changes nothing.

Spinning, yielding and sleeping are a guard that waits for the flag, and accesses to
atomics are sequentially consistent; why that is sound is the next section.

### Signals

`SignalWait` is one pair of flags in detail. Thread `a` hands something over, resets
the flag it will wait for and sets the other one; `b` waits, accesses what was handed
over, resets its own flag, sets `a`'s. That is how `notify_thread` and
`wait_for_thread` on one side and `task_wait` and `task_signal_completion` on the
other use `signalTaskAvailable_` and `signalTaskProcessed_`, and, with the roles
swapped, how the synchronization uses `signalCollecting_` and `signalBroadcasting_`.

| action | code |
|---|---|
| `Reset` | `reset`: a relaxed store |
| `Check`, `Set`, `Notify` | `set_and_notify`: the load for the assertion, the release store, `notify_one` |
| `Begin`, `Spin`, `GiveUp` | `wait` and its two loops, which differ in how often they load, up to `SpinLimit` times here |
| `Acquire` | the acquire load after a successful loop, whose value nobody looks at |
| `Wait`, `Block`, `WakeSpuriously` | `std::atomic::wait`: compare, have the system compare again and put the thread to sleep, return for no reason |

A flag is the sequence of all stores to it, and a thread reads any store that is not
older than what it knows (`view`). A release store takes the view of its thread
along, and only an acquire load adopts it. This is the release/acquire fragment of the C++
memory model without release sequences and fences, of which the code has none.
What is handed over is not atomic: an access of a thread that does not know of all
accesses before may miss some, which `known` records. `KeepsHandover` shows that
none does, that a reset flag is never read as set, and that every wait ends: that is
the guard of the other modules.
The relaxed reset is safe because each is followed by a release store of the same
thread to the flag the other thread waits for before it sets the first one again.

### Synchronization

`Enter` is the call; `Collect` is `collect_from_thread`; `Expose` and
`SignalCollecting` are a subordinate giving access to its synchronizer;
`AwaitBroadcast` is the end of its wait; `Transform` is thread 0 applying
`transformFunc`; `Broadcast` and `SignalBroadcasting` are `broadcast_to_thread`.
`syncData_` is the number of the operation whose synchronizer it points to, so a
pointer that outlives its synchronizer is one with the wrong number. `StartTask`
begins a task of another concurrency with the signals the last one has left. In `SyncedSquad` a
thread may take steps of `SquadSync` while the engine has it at `run`, and the
engine may let it go on when it has performed all operations of its plan.
All threads of a task perform the same operations: the header makes that the
responsibility of the task ("executed by all participating threads
unconditionally and in the same order").

### Squad parameters

`p` is a `thread_squad::params` and `h` what `std::thread::hardware_concurrency()` returns,
which may be 0. `create` replaces defaults, `CoreAffinity` is the pinning in the constructor of
`thread_squad_impl`, and `MayPin` and `MayFork` are the expectations that would end the program.
`AcceptedParamsWork` says exactly when parameters that `check_params` accepts run into one of them: if
the number of hardware threads is unknown and needed, or if threads are pinned to a
hardware thread with an id that is not below that number.
The second is no misuse where processors are offline or the process is confined to some
of them: `hardware_concurrency` counts processors, ids need not be consecutive, and the
ids of `physical_core_ids` may themselves be refused.

### CPU topology

In `CpuInfo` a vector is named after the thread that filled it; `alive` holds those that have
not been destroyed. Reading `/proc/cpuinfo` is one step and finds `Cores` cores,
at least one. `ProcCpuinfo` is that step: a fold over the lines of the file, sorting, removing neighbours
that are equal, and sorting again. The files are those of machines of up to three
processors, listed in any order, on systems that name sockets and cores and on systems that
do not, as on many ARM machines. `OneThreadPerCore` is about the former; `SomeCoreIsFound` is what
`test/test-thread.cpp:19-20` checks on any machine, and the latter contradict it (finding 5).

### Hardware sizes

`LazyInit` keeps a stack of calls per thread, since the initializer of the large page size calls
for the page size and that one for the cache line size. A call is one step to `Load` the
atomic, one to `Query` the system and one to store the result (`StoreResult`). `machine` is
what the system reports, also where it does not fit the library's assumptions and
the program ends (`ended`).

### Aligned buffers and `allocate_unique`

A step is the construction or destruction of one element, or the allocation or deallocation
of a buffer's memory. `live` is where elements are, as byte offsets in a piece of
memory, so that padding and overlaps are visible. Users construct, move and destroy
buffers in any order; while a constructor or destructor runs (`call`) nothing
else does, since buffers are not shared between threads. An `aligned_buffer` is a
row buffer with one column, except where the code differs: only
`construct_aligned_row_buffer` sets `numElementsConstructed` to 0, only the
rollback of a row buffer stops at the last element, and only the move constructor of
`aligned_buffer` leaves the stride behind. Addresses are multiples of the alignment
and sizes do not overflow. The move assignment of `aligned_row_buffer` lacks its
`return`; the model takes it as if it were there.
An array of `allocate_unique` (`Arrays`) is a row buffer with one column, no padding and, unlike a
buffer, memory even if it has no elements; its rollback goes from the last element to the first, and what
a move leaves behind is `std::unique_ptr`'s doing. A single object is an array of one.

### Alignment

An alignment is a set of bits, as the code combines them with bitwise or. The topmost three name the sizes of
cache lines, pages and large pages. `Provides` is what an allocator says at compile time
and `Returns` what its memory is aligned to on a machine `hw`; `PromisesAreKept` compares the two for every
machine whose cache lines are at least as long as `hardware_constructive_interference_size`, which the code assumes.
`AlignedAdaptor` computes with numbers that wrap around; `mem` ranges over every address the memory
could be at.

### Page allocation

Any number of threads call `page_alloc` and its counterparts; an action is a system
call, or setting or checking the trap. `pages` is what the kernel knows of every page,
`pattern` the addresses that hold the trap's pattern and `stray` (history) those behind
the end of an allocation somebody wrote to. Users write anywhere in the pages they
were given. `mmap` may always fail and does so for a length of 0, `madvise` may fail and
does so for `MAP_FAILED`; `munmap` rounds up to pages and, for mapped pages, does not fail.

## Runs

| run | question | bounds, and why they are enough |
|---|---|---|
| `functions` | do the pure functions compute what they should, and what do callers get of what is computed once and kept? | the tree: sizes 1 to 80 with the code's breadth 8, that is, one, two and three levels, full and partial blocks, the sizes around 8 and 64, even and uneven strides. Parameters: up to 3 hardware threads or none known, ids from -1 to 2, so one is negative, some are in range and some are not. `/proc/cpuinfo`: 3 processors on 2 sockets of 2 cores, which suffices for two threads of a core with one of another between them. Alignment: 10 bits, every pair of bits up to 32 with every combination of special ones, machines with sizes of 8 to 32. Adaptor: 7-bit numbers, all counts, 3 sizes, 5 alignments, all addresses. Arithmetic: all pairs of 5-bit numbers. First calls: 3 threads, a winner, a loser, and one that comes in between, calling again without bound; machines with and without large pages, two whose sizes do not fit, one with an unknown size |
| `core_count` | is at least one core found? (no) | the machines of `functions`; the first that fails has one processor and no core ids |
| `tree_uneven` | has every thread one superordinate? (no) | 65 threads, the first size that fails |
| `engine` | is the engine correct under every interleaving? | 4 threads in a tree of breadth 2: thread 0 has subordinates 2 and 1, thread 2 has subordinate 3, so there are a root, an inner thread and leaves, and concurrencies that cut off a whole subtree or a part of one; 3 calls: one that forks, one in a later pass, one after the pass counter was clamped at 2; then the tear-down |
| `synchronization` | do threads meet and get the reduction? | 6 threads, breadth 3; every operation after every other one within a task, tasks of any concurrency one after another without a bound on their number |
| `synced_engine` | do waking up and synchronizing go together? | 4 threads, breadth 2, two calls: in the first the tree is still being forked, in the second it exists |
| `waiting` | is a pair of flags enough to hand something over? | 3 rounds: a flag's first use, its second, where a stale value of the first could be read, and one more; loops of up to 2 loads, so that they succeed at once, later or not at all |
| `cpu_info_span` | is the span always backed by ids? (no) | 2 threads |
| `buffers` | is everything constructed destroyed once, and all memory returned? | two buffers of each kind and two arrays, so that everything can be moved both ways; sizes 0 to 2, rows of 0 to 2 elements of 3 bytes aligned to 4, so that rows are padded; elements of row buffers and arrays throw anywhere, those of `aligned_buffer` do not |
| `buffer_rollback` | does the rollback of `aligned_buffer` destroy what was constructed? (no) | one buffer, values 0, 1 and 5 for an uninitialized variable |
| `pages` | is what users get mapped and theirs, is the trap reliable, are small pages returned? | 2 threads; pages of 4 bytes, large pages of two; 4 pages of address space, so that it runs out and pages are reused; sizes that leave room behind the data for none, one and the most words (2 of 2 bytes) of the trap; one byte written behind the end per allocation |
| `pages_leak` | are large pages returned? (no) | the same, 1 thread |

What the properties say:

* *Tree.* `NotifiedExactlyOnceIffBlocksNest`: each participant but thread 0 is
  notified exactly once exactly when the strides divide each other, which they do
  for every squad of at most 64 threads. `TraversalsAgree`: clipping a traversal
  removes threads and changes nothing else, and the two traversals visit the same threads.
  `MergesInThreadOrder`: the traversal on the way back visits the blocks that make up the
  caller's one after another, so that merging along it keeps the threads' order.
* *Other functions.* `ParamsWork`, `CoresAreCounted`, `AllocatorsKeepPromises`, `AlignmentsCombine`,
  `AdaptorIsSound`, `ArithmeticIsExact`; each compares the code's
  computation with a definition that does not follow it. `CoresAreCounted` is about machines whose system lists
  cores; `CoresAreFound`, about all machines, is false.
* *Engine.* `AssertionsHold`, `NoDanglingTask`, `ResultComplete`,
  `QuiescentBetweenCalls`, `NothingLeftBehind`, `SpareThreadsSleep`, the inductive
  invariant `IInv`; refinement of `ForkJoin`, with its liveness (`KeepsPromise`);
  `CallsReturn`.
* *Synchronization.* `SyncAssertionsHold`, `SyncDataLive`,
  `EverybodyGetsTheReduction`, `NothingPending`; refinement of `AllReduce`
  (`KeepsMeeting`); `SynchronizationEnds`.
* *Signals.* `FlagsAreReset`: the assertion in `set_and_notify` holds on weakly ordered memory. `StoresAreOrdered`:
  stores of the two threads to a flag never race. `KeepsHandover`: refinement of `Handover`, with its liveness.
* *Both.* `NoAssertionFails`, `EverybodySynchronized`, `SyncedCallsReturn`.
* *Hardware.* `CountIsKnown`, `SpansStayValid`; `SizesFit`: nobody is told a size
  that does not divide the next larger one, even while another thread is checking.
* *Aligned buffers.* `DestroysOnlyTheLiving`, `BuffersAreWhole`, `MemoryIsReturned`.
* *Page allocation.* `AllocationsAreMapped`: the assertion on `mmap` tests for the wrong
  value, but `madvise` catches the failure, so no user ever gets `MAP_FAILED`.
  `TrapIsReliable`, `SmallPagesAreReturned`.

**Fairness.** `FairSpec` and `SyncedSpec` assume weak fairness of every thread's
steps: the operating system keeps running threads that can run, and a thread that
waits for a flag sees it, since a flag stays set until the waiting thread itself has
acted on it; one thread waits per flag, so `notify_one` is enough. No fairness
is assumed of the owner's calls. Deadlock is checked; the only state
without an agent's step is `Freed`, where the owner goes on without the squad.
In `functions`, an input of a pure function has no steps and a program that has ended stays
as it is, which `Done` says. The exceptions are `pages` and `pages_leak`, where a program that has ended takes no step, and `waiting`, where a
thread waits forever once nothing more is handed over. There, every thread that is not asleep keeps running, and nobody is woken up
without a notification: waking up for no reason is possible, but never relied on. Hardware, buffers
and pages are checked for safety only.

### Findings

1. `init` records a block's stride instead of its size (`thread_squad.cpp:741`). In
   squads of 65 to 72 threads, and in other larger sizes whose strides do not divide
   each other, a short block claims the first thread of its neighbour. With 65
   threads, threads 0 and 8 both notify and fork thread 9
   (`tree_uneven`). The proofs about the engine assume that every thread has one
   superordinate, which is true for all other squads.
2. `init_cpu_info` returns when the count is set, but the count is set before the
   pointer (`src/src/cpuinfo.cpp:226-239`). A second thread in between gets a span
   over a null pointer with a size that is not zero (`cpu_info_span`).
3. The constructor of `aligned_buffer` does not initialize `numElementsConstructed`
   (`include/patton/buffer.hpp:81`), and neither does `construct_aligned_buffer`. When the
   constructor of an element throws, an arbitrary number of elements is destroyed
   (`buffer_rollback`). The counterpart for rows starts with
   `numElementsConstructed = 0;` (`detail/buffer.hpp:94`).
4. `large_page_free` unmaps the size asked for and not the size mapped
   (`src/src/memory.cpp:115`), so that the rest of the last large page stays mapped (`pages_leak`).
5. `init_cpu_info` counts a processor when it has read a processor, a physical id and a core id
   (`src/src/cpuinfo.cpp:195`). Where `/proc/cpuinfo` has only "processor" lines, one processor gives 0 cores
   and an empty list; with several, the second line is an error (line 172), thrown out of a `noexcept`
   function, and ends the program (`core_count`). `test/test-thread.cpp:19` expects a count other than 0, and
   `thread.hpp:27` allows an empty list only where the OS does not support thread affinity.

The models of the functions also state, as what the code does, two things a user might not
expect: parameters that are accepted can end the program when threads are forked, if a hardware thread's id
is not below the number of hardware threads (`AcceptedParamsWork`); and
`large_page_allocator` promises page alignment only (`Provides`), where
`doc/Reference.md:89` speaks of large-page alignment.

## Proofs

The runs check small instances; the theorems hold for every value of the constants that
satisfies their assumptions. Those about state machines have the same shape: an inductive invariant holds
initially, every action preserves it (one lemma or step per action), and the property
follows from it. Those about functions hold for all arguments. TLC has evaluated every inductive invariant
in the states of the runs: `IInv` of the engine still is in the run `engine`, and the others can be added to
the configuration of their module's run, given a value of `BlockSize` where they have it as a constant.

### The engine

`ThreadSquad_proofs`, for every number of threads, tree, clamp and number of calls:

| theorem | |
|---|---|
| `TypeCorrect` | `Spec => []TypeOK` |
| `Invariance` | `Spec => []IInv` |
| `AssertionsNeverFail` | `Spec => []AssertionsHold` |
| `TaskOutlivesItsUsers` | `Spec => []NoDanglingTask` |
| `CallsReturnQuiescent` | `Spec => []QuiescentBetweenCalls` |
| `NobodyLeftBehind` | `Spec => []NothingLeftBehind` |
| `SpareThreadsAreLeftAlone` | `Spec => []SpareThreadsSleep` |
| `ResultsInPlace` | `Spec => [](IInv /\ DataInv)` |
| `ResultsAreComplete` | `Spec => []ResultComplete` |
| `PromiseIsSafe` | `ThreadSquad` implements `ForkJoin` without its fairness |

They rest on `BoundsAssumption` (the types of the constants), on
`TreeAssumption` (the traversals visit no thread twice, both visit the same
threads, clipping by a concurrency only removes threads, subordinates have larger indices,
and every thread but 0 has exactly one superordinate) and, as far as results are
concerned, on `BlockAssumption` (`from_subthreads` visits the blocks that make up the caller's
in order). `functions` checks all of that of the code's own tree, for the squads of up to 80
threads whose blocks nest (all up to 64 do): `TraversalsAgree`,
`NotifiedExactlyOnceIffBlocksNest` and `MergesInThreadOrder`. TLC also evaluates the assumptions
for the instance of `engine`.

The safety properties are not inductive: that a set flag is never set again, for
instance, depends on where the thread that resets it is. `IInv` states, for each edge of
the tree, which states a subordinate can be in given where its superordinate is:
`Fresh` (not forked), `Armed` (notified and about to be forked), `Asleep`, `Active`
(notified and not done), `Leaving` (done with its last task) and `Left` (joined). A
superordinate that is waiting knows that those ahead of it in its loop are engaged
and all others parked; one that is idle knows that all are asleep; and so on
(`FirstPassEdge`, `LaterPassEdge`, `TaskEdge`, `JoinEdge`, `RootEdge`). `Local` and
`TaskHeld` tie a worker's reference to the task, and the task to where the owner is.
A step of a thread changes its own state and that of at most one subordinate;
since a thread has one superordinate and larger-numbered subordinates, the step
touches at most three kinds of edges: the one above the thread, the one to the subordinate
and, for a freshly forked thread, those below it. There is one lemma per action along that
pattern. `CallsReturnQuiescent` and `NobodyLeftBehind` are about *all*
threads at a moment when the invariant speaks about thread 0 only: they follow by well-founded
induction along the tree, in the form of a smallest counterexample.

`SpareInv` adds what `SpareThreadsSleep` needs: a thread is past its first pass only when its
subordinates are. `DataInv` adds the results: while a thread collects, its slot holds its own
result and those of the blocks before the one it waits for, and these blocks follow one another
(`OwnData`); a subordinate that is done holds its whole block until it is fetched (`EdgeData`);
and a result that was handed up is where those of its superordinate are, handed up by a
thread at rest (`Handed`). The last part is what `PromiseIsSafe` needs to see that the call
returns with everybody's result, that `Execute` adds a new participant, and that the
merging in between moves results without losing any.

### Synchronization

`SquadSync_proofs`, for every number of threads, every tree as above and every sequence of operations:

| theorem | |
|---|---|
| `Invariance` | `Spec => []IInv` |
| `SyncAssertions` | `Spec => []SyncAssertionsHold` |
| `PointersAreLive` | `Spec => []SyncDataLive` |
| `ReductionsAreComplete` | `Spec => []EverybodyGetsTheReduction` |
| `NothingIsPending` | `Spec => []NothingPending` |
| `MeetingIsSafe` | `SquadSync` implements `AllReduce` without its fairness |

The assumptions are those of the engine (`SquadSyncInv` states them for its own constants).
`IInv` is again about edges, but both ends of an edge move from operation to operation on
their own: after a thread has let a subordinate go, the subordinate may already be on its way to the
next operation, or waiting there. `Due(u, k)` says what can be expected of a subordinate before
operation `k`: it is still being let go in the one before, on its way, or arrived.
`Gathered` says that a thread that collects holds the contributions of the part of its
block it has reached, and `Served` that on the way down it has the result of everybody, and
that everybody has come. A thread is never more than one operation ahead of its superordinate,
so that the one signal per direction is enough.

### Engine and synchronization together

`SyncedSquad_proofs`, for every number of threads, tree, clamp, number of calls and set of plans:

| theorem | |
|---|---|
| `EngineIsUnaffected` | `SyncedSpec => Init /\ [][Next]_vars`: all theorems about the engine hold |
| `SyncedInvariance` | `SyncedSpec => []SyncedInv` |
| `NothingTripsOver` | `SyncedSpec => []NoAssertionFails` |
| `CallsEndSynchronized` | `SyncedSpec => []EverybodySynchronized` |
| `SquadReductionsAreComplete` | `SyncedSpec => []Sync!EverybodyGetsTheReduction` |

The assumptions are those of the engine and `PlanAssumption`, the type of `Plans`; from them,
`SyncAssumptions` proves those of the synchronization. Its lemmas are used through the instance `S` of
`SquadSync_proofs`, in which `width` is the concurrency of the engine's task.

The composition is not the conjunction of the two specifications: while the squad is idle or runs a
task of width 0, the synchronization has no legal width and its invariant says nothing. So
`SyncedInv` says that it then is at rest (`AtRest`: no signal is set, and nobody is inside an
operation), and that its own invariant holds otherwise. What connects the two is that whoever has a result in
a slot, his own or one it was merged into, has finished the operations of the task. `DataInv` of the
engine says that when a call returns, thread 0 holds the results of all participants; hence all have
finished, the synchronization is at rest, and the next task finds no signal of this one, although
a thread may enter an operation while others have still to be woken up.

### Signals

`SignalWait_proofs`, for any number of rounds and any number of loads in a spinning loop:

| theorem | |
|---|---|
| `Invariance` | `Spec => []IInv` |
| `AssertionHolds` | `Spec => []FlagsAreReset` |
| `StoresFollow` | `Spec => []StoresAreOrdered` |
| `HandoverIsSafe` | `SignalWait` implements `Handover` without its fairness |

At any time either one thread is the holder of what is handed over and knows of every store and every
access there has been (`HolderKnows`), or it is under way: exactly one flag is set, and the
store that set it took all of that knowledge along (`UnderWay`). A thread that waits has seen its
own reset, which is the store just before the one it waits for, so that it cannot read the
set flag of an earlier round (`AwayKnows`). That is the argument for the relaxed store in `reset`.

### Hardware

`Hardware_proofs`, for any number of threads and of cores, whatever the system reports, and
every width of `std::size_t`:

| theorem | |
|---|---|
| `EverybodyKnowsTheCount` | `Spec => []CountIsKnown` |
| `SpansOutliveTheRace` | `Spec => []SpansStayValid` |
| `SizesAreChecked` | `LazyInit /\ [][LazyNext]_lazyVars => []SizesFit` |
| `ParamsAlwaysWork` | `AcceptedParamsWork(p, h)` for all parameters `p`, with mappings of any length and ids that may be negative or too large, and `h` hardware threads, 0 included |
| `AlignmentsAlwaysCombine` | `CombinedSatisfiesEach(x, y, hw)` for all alignments `x` and `y` and all machines `hw` |
| `PromisesAlwaysKept` | `PromisesAreKept(allocator, alignment, own, {m}, requested, hw)` for all allocators, alignments and machines, and `alignof(std::max_align_t)` any power of two |

For `CpuInfo`: the count is published before the pointer (`CountFirst`), and the thread that
publishes its vector is the one that keeps it and never parses again (`OneVector`). For `LazyInit`: whatever
is stored or about to be stored has been checked (`Checked`), and the calls on a thread's stack wait
for one another in the order of the sizes (`StackOK`). Two threads that compute the same
size compute the same value, which is why the unconditional store is harmless.

The last three are what `ParamsWork`, `AlignmentsCombine` and `AllocatorsKeepPromises` check for small
arguments. `ParamsAlwaysWork`: threads take the hardware threads allowed by turns (`ByTurns`), so that they
use the first ones, as many as there are threads; of the expectations that come later, only two can
then fail, that on the number of hardware threads if it is unknown and that on an id. For
alignments, sizes of hardware are taken to be powers of two below the three special bits.
`StaticFacts` and `SpecialFacts` say what the comparisons at compile time amount to: a special
alignment is granted only to a special one that is at least as large, and any special one is worth a
cache line, which is why the interference size can be added (`GrantedIsMet`). Numbers are sets of bits in
`Alignment`, and comparing them is looking for the highest bit in which they differ;
`BitsAreNumbers` in `MCFunctions` has TLC compare that with the numbers themselves.

### Buffers and pages

`AlignedBuffer_proofs`, for any number, sizes and alignments of buffers, provided
`Elements \cap Throwing = {}`, that is, the constructors of the elements of `aligned_buffer`
do not throw. The code is wrong when they do (finding 3), the theorems would be false then, and
`buffer_rollback` shows it. Elements of rows and of arrays may throw anywhere.

| theorem | |
|---|---|
| `OnlyTheLivingAreDestroyed` | `... => (Spec => []DestroysOnlyTheLiving)` |
| `BuffersStayWhole` | `... => (Spec => []BuffersAreWhole)` |
| `MemoryIsSafe` | `... => (Spec => []MemoryIsReturned)` |

`BufferInv` says that memory has exactly one owner, among the buffers that exist and the one being
constructed or destroyed (`Ownership`), and that the elements alive in it are those the owner believes
in (`Alive`): all, those before `next`, those from `next` on, or, in the rollback of an array, those not
yet undone. `AtFacts` is the arithmetic: elements are inside the memory, and different ones apart.

`PageAlloc_proofs`, for any number of threads, amount of memory, page sizes, size of the trap and failures
of the system (`PageAssumption` says that page sizes and the trap are not zero, and that a large page
consists of pages):

| theorem | |
|---|---|
| `AllocationsAreSafe` | `Spec => []AllocationsAreMapped` |
| `TrapsAreReliable` | `Spec => []TrapIsReliable` |
| `NoSmallPageLeaks` | `Spec => []SmallPagesAreReturned` |

In `PageInv`, `Apart` says that no page belongs to two allocations, those in the making included,
`Advised` that the pages of each are mapped and advised as far as the call has come,
`StrayIsHeld` that a byte was written astray only where somebody still has the pages, and `Trapped`
that what is missing from a trap was written over. The pattern a former user left in memory does
no harm, because a trap is only asked for after it was set.

### Functions

`Basics_proofs` and, for the adaptor, `PageAlloc_proofs`, for every width of `std::size_t`:

| theorem | |
|---|---|
| `ArithmeticExact` | `ExactUpToTheLimit(x, d, max)` for all `x` and `d` up to `max`: checked arithmetic returns the mathematical result or reports that it does not fit |
| `AdaptorSound` | `AdaptorStaysInside(n, size, a)` for every count and size, if the adaptor's own data and the alignment fit `std::size_t` by themselves (`AdaptorAssumption` gives the types of the constants) |

They are what `ArithmeticIsExact` and `AdaptorIsSound` check for small widths. The argument: division with remainder
and monotony of multiplication, which the provers have to be led along, make the
check `a > max / b` equivalent to an overflow; `x + d - (x - 1) mod d - 1` is a multiple of `d` less than `d` away
from `x`, of which there is one only; and the adaptor's sum wraps around once at most, so
that it is then smaller than the size of the data. `Basics_proofs` also has the lemmas about sequences of blocks that
the engine and the synchronization share: a list of blocks that follow one another can be
taken apart at its head, and what is merged along it is an interval.

### What is only model-checked

* *Liveness under fairness*, and with it `ENABLED`: `CallsReturn`, `SynchronizationEnds`,
  `SyncedCallsReturn`, and the fairness in `KeepsPromise`, `KeepsMeeting` and `KeepsHandover`, whose
  safety is proved.
* *Recursion and folds*, which need induction over data: what the recursive functions of `SquadTree`
  compute for every squad size (`NotifiedExactlyOnceIffBlocksNest`, `TraversalsAgree`, `MergesInThreadOrder`; the
  theorems about threads assume what these establish up to 80), and what sorting and counting in
  `ProcCpuinfo` find in every file (`CoresAreCounted`).
* *False, as findings show*: `NotifiedExactlyOnce`, `SpanPointsToIds`, `LargePagesAreReturned`, `CoresAreFound`, and
  `DestroysOnlyTheLiving` without its proviso.

## Plan

1. *(done)* the tree, the engine with its invariant and first theorems,
   synchronization, the composition, CPU topology, aligned buffers, page allocation.
2. *(done)* signals on weakly ordered memory, squad parameters, the parser of `/proc/cpuinfo`,
   hardware sizes, alignment, the adaptor, `allocate_unique`, checked arithmetic.
3. *(done)* the safety properties of every state machine, and the safety part of the
   three refinements, as theorems.
4. *(done)* the composition, squad parameters and alignments, as theorems.
5. Left: a proof that the blocks of the tree nest for every squad that fits two levels of any breadth,
   which needs induction over the stride.

## Not modelled

The Windows and macOS branches, which cannot be built together with the Linux ones and would be
models of their own; `default_init_allocator` and `zero_init_allocator`, which have no state
and hand on to the allocator adapted and to `std::calloc`; iterators of buffers, an index with the address
computation of `operator []`; allocators with state, of which the library has none; the mapping
of error codes to exceptions; thread names and the wording of errors; benchmarks and the build.
A failing `pthread_create` ends the program.
