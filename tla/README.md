# A TLA+ verification of the Android runtime

This directory holds TLA+ models of ART (`src/runtime`) and of its optimizing
compiler (`src/compiler/optimizing`), the TLC configurations that check them,
and proofs that TLAPS checks. `PROJECT.json` lists every component, run, mapped
source line, hazard, finding and theorem; this file explains them.

## The system and its parts

ART runs managed code on native threads. What is hard about it is not one
algorithm but the protocols by which threads agree on who may run, who holds
what, and what a collector or the class linker has already done. The compiler
is sequential, but its passes rest on invariants that the previous pass has to
leave behind. The parts, and the modules that model them:

| Part | Modules |
|---|---|
| `Mutex`, `ConditionVariable`, `ReaderWriterMutex` (`base/mutex.*`) over the kernel's futex | `AbstractLock`, `Mutex`, `ConditionVariable`, `AbstractRWLock`, `ReaderWriterMutex` |
| thread state, suspension, thread list (`thread*.cc`) | `ThreadState`, `ThreadList` |
| checkpoints and barriers (`thread.cc`, `thread_list.cc`, `barrier.cc`) | `Checkpoint` |
| thread birth, thread exit and `~Runtime` (`runtime.cc`, `thread.cc`, `thread_list.cc`) | `RuntimeShutdown` |
| Java monitors, lock words, identity hash codes (`monitor.cc`, `mirror/object.cc`) | `AbstractMonitor`, `Monitor` |
| thread pool (`thread_pool.cc`) | `ThreadPool` |
| heap coordination (`gc/heap.cc`, JNI critical sections) | `HeapCollection` |
| concurrent mark-sweep, card table, stacks (`gc/collector/*mark_sweep.cc`) | `MarkSweep` |
| reference processing (`gc/reference_processor.cc`, `gc/reference_queue.cc`) | `ReferenceProcessor` |
| intern table (`intern_table.cc`) | `InternTable` |
| RosAlloc (`gc/allocator/rosalloc.*`) | `RosAlloc` |
| class linker (`class_linker.cc`) | `ClassLoading`, `ClassInit` |
| control-flow graph, SSA form, liveness, register allocation, parallel moves (`compiler/optimizing`) | `ControlFlow`, `SsaConstruction`, `SsaLiveness`, `RegisterAllocator`, `ParallelMove` |

They build on each other. `ConditionVariable` extends `Mutex` and changes its
fields, as the code does. `ThreadList` extends `ThreadState`, and `Checkpoint`
extends `ThreadList`. Everything above takes the locks as what `AbstractLock`
and `AbstractRWLock` promise, so a critical section in which a thread does not
block is one action. `Monitor` takes suspension as what `ThreadList` is shown to
provide, and the class linker takes class monitors as `AbstractMonitor`.
`RegisterAllocator` extends `SsaLiveness`.

## Modules

### Locks

**`Mutex`** models the futex build of `class Mutex`. A thread has a program
counter; every load, store, compare-exchange and system call is one action, in
the order of the code. The weak compare-exchange may fail spuriously. The
kernel's futex is external and modelled by what `futex(2)` does: `FutexWait`
compares and enqueues in one step, `Wake` dequeues one sleeper,
`FutexInterrupted` is `EINTR`. **`AbstractLock`** and **`AbstractRWLock`** are
the state tables in the comments of `base/mutex.h:187-199` and `267-283`.

**`ConditionVariable`** gives waiters a program counter `cvpc`:
`WaitHoldingLocks` records `sequence_`, counts itself as waiter and as
contender, unlocks with the mutex's own actions, sleeps if the sequence is
unchanged, and locks again. `Signal` wakes one sleeper; `Broadcast` requeues all
to the mutex's futex. `WaitBroken` is `EINTR` or a time-out. `snapshot` is a
history variable: who was waiting when a signal began.

**`ReaderWriterMutex`** is the same exercise for the readers-writer lock, with
the timed exclusive lock. `aborted` is `PLOG(FATAL)`. The unlocker asks
`FUTEX_WAKE` for -1 sleepers; Linux stops counting after the first, other
implementations wake all, so `WakeAll` wakes any non-empty set of them.

### Threads

**`ThreadState`** models the word `state_and_flags`, suspend counts, shares of
`mutator_lock_`, and the two transitions. All states but `kRunnable` are one
value: the code modelled here does not tell them apart.

**`ThreadList`** adds attaching, detaching, `SuspendAll`/`ResumeAll`,
`SuspendThreadByThreadId`/`SuspendThreadByPeer` (the same code but for how the
target is found) with the polling loop and its time-out, and `Resume` with its
two critical sections.

**`Checkpoint`** adds both kinds of checkpoint and their callers: a *marker*
(mark-sweep's `MarkRootsCheckpoint`, `Heap::Trim`) that runs the closure for
suspended threads itself, and a *sampler* (the profiler) that only requests it
of Runnable threads. `ran` and `cohort` are history variables. The profiler waits at
its barrier with a time-out, and aborts the process when the time is up
(`profiler.cc:251`), so a caller goes on only when the barrier has been crossed.

**`RuntimeShutdown`** has threads that start or attach others
(`CreateNativeThread`, `CreateCallback`, `Attach`), may fail to, run and exit
(`Unregister`), while the main thread goes through `~Runtime` and `~ThreadList`: it waits
for births to end, sets `shutting_down_`, waits for non-daemons, raises the
suspend counts of the daemons and looks a bounded number of times whether they
have stopped.

**`Monitor`** models one object: the lock word, thin locks and their recursion
count, inflation by the owner and by a contender that suspends the owner, the
monitor's own lock, contenders and wait set, `wait`, `notify`, interruption,
time-outs, identity hash codes, and deflation with all threads suspended.
Reads and writes of the lock word are steps of their own. **`AbstractMonitor`**
says what Java promises: who owns it and how deep, who waits, who was notified.

**`ThreadPool`** has workers that take tasks in critical sections of
`task_queue_lock_`, tasks that add tasks, and one client that adds, starts,
stops, limits, waits (with and without helping) and destroys.

### Memory

**`MarkSweep`** models full and sticky concurrent collections one after
another. A collection goes through initial marking, pre-cleaning, the pause and
the sweep; each of the first three ages cards, marks roots (by checkpoint, a
thread at a time), scans cards and drains the mark stack. A mutator allocates,
loads and stores references; a store writes the field and its card in either
order, with steps of the collector in between. Bitmaps and stacks are sets.

**`ReferenceProcessor`** starts where the pause ends: `ProcessReferences`
forwards soft references, clears white ones, preserves finalizable objects,
clears again and then sweeps, while mutators load, store and call
`GetReferent` with its fast and slow paths. A circular list is the set of its
elements. `unchecked` is a history variable: what can be reached from the white
referents that fast paths had read when `DisableSlowPath` cleared the flag.

**`InternTable`** models interning (strong, weak, promotion, the wait while new
interns are disallowed), the lookup of an image's string and its addition to the
table by the zygote, the log of new roots and the sweep of the weak table
during a concurrent collection. All its strings have equal contents, since
strings with different contents never meet.

**`HeapCollection`** models what decides which collection runs when:
`CollectGarbageInternal`, compaction, collector transitions, trims, requests to the
daemon, the retries of an allocation that fails, and JNI critical sections.
Calls are records on a stack per thread.

**`RosAlloc`** is the allocator as a record `ros` with the members of the class;
methods are operators from record to record. Memory is an array of cells and
holds what was written, so zeroing, page release and trimming matter. Pages,
free page runs, runs with their three bitmaps, thread-local and current runs,
large objects, bulk free, revocation, `Trim` and `ReleasePages` are modelled.

### Classes

**`ClassLoading`** models `FindClass`, `DefineClass`, `EnsureResolved`,
`LoadSuperAndInterfaces` and `LinkClass`, which replaces the temporary object of
an instantiable class; threads wait on the monitors of class objects. Classes come
from the boot class path.
**`ClassInit`** models `InitializeClass`, `VerifyClass` and
`WaitForInitializeClass`; a static initializer initializes the classes it uses
and may throw. In both, loading, linking, verifying and initializing may fail.

### Compiler

**`ControlFlow`** runs `BuildDominatorTree` and `FindNaturalLoops` on every graph of a
given size and compares with the textbook definitions. **`SsaConstruction`** builds SSA form
and eliminates phis on every small program over given graphs, then *runs* the
program and compares each use with the local it stands for. **`SsaLiveness`**
and **`RegisterAllocator`** number, compute intervals, scan linearly, split,
spill and resolve, and then run the allocated code on a machine with registers
and stack slots. **`ParallelMove`** resolves every small parallel move with the
moves, swaps and scratch registers of the x86, x86-64 and ARM back ends and executes
what is emitted.

The **`MC*`** modules instantiate the others for TLC. `MCHeap` and
`MCCompiler` hold the layouts, graphs and programs. `MCThreads`, `MCCollection`, `MCHeap`,
`MCSystemWeaks`, `MCClasses` and `MCCompiler` each put components side by side that do not
interact in the model: a variable `part`, chosen at first, says which of them
moves in a behaviour, and a property of one is checked in its part.
`MCCollection` starts `ReferenceProcessor` with mutators that already hold everything marked, since one
that holds less can do nothing more. The
**`*Proofs`** modules hold the theorems.

## Runs

| Run | Instance | Shows |
|---|---|---|
| `condition_variable` | 3 threads on a recursive mutex, 2 of them waiters, 2 signallers, a signal or a broadcast | `ImplementsLock` (refinement of `AbstractLock`), `Progress`, `SignalsDelivered` (no signal falls between unlock and sleep), `WaitReturnsHolding`, `RequeuedProgress` (requeued waiters get the mutex) |
| `rw_mutex` | 3 threads, time-outs, interruptions | `ImplementsRWLock` (refinement of `AbstractRWLock`), `Progress` |
| `rw_mutex_interrupt` | 2 threads | violated: `InterruptIsRetried`, the finding below |
| `checkpoint` | 3 threads; one stops the world, two suspend others, one runs a marking and one a sampling checkpoint; 2 slots, 2 operations started | `StopTheWorld`, `NoSuspendCycle`, `TargetStays`, `ExactlyOnce`, `CheckpointsConsistent` (flags and slots agree, the closure is alive, a slot is free when it is needed, counts return to zero), `EveryoneResumes` |
| `threads` | `RuntimeShutdown`: 3 threads and the main thread, one a daemon; `ThreadPool`: 3 workers, 3 tasks | `NoThreadLeftBehind`, `ShutdownCompletes`; `WaitMeansDone`, `PoolProgress` |
| `collection` | `ReferenceProcessor`: an object and a reference of each kind, every heap over them; `HeapCollection`: an allocating thread, the daemon, a thread in critical sections | `OnlyFastPathLeaks` (what a mutator holds of the swept objects came through the fast path of the second finding), `ReferencesProcessed`, `GetReferentReturns`; `CriticalNotMoved`, `ConcurrentGcEnabled` |
| `reference_fast_path` | an object and a weak reference | violated: `HeldNotSwept`, the second finding |
| `heap` | `MarkSweep`: 2 objects, a mutator with 2 locals, a global, any number of full and sticky collections; `RosAlloc`: 2 mutators, 3 pages, a thread-local and a shared bracket | `NoDanglingReference`, `GarbageFreed` (a full collection frees what was garbage when it began); `SlotsVerified`: slots and pages are exactly the objects handed out, and `RosAlloc::Verify` would pass; `FreeMemoryIsZero`: what can be handed out is zero, what is in use is not wiped by trimming and page release |
| `system_weaks` | `InternTable`: 3 equal strings, one of them in the image or none, 2 threads, any number of collections; `Monitor`: 2 threads, 3 deep, thin locks up to 2 deep, moving collections; and 3 threads that contend and wait, 1 deep | `InternsAlive`, `Canonical`; `ImplementsMonitor` (refinement of `AbstractMonitor`) through inflation, deflation, wait and hash codes, `NoStaleMonitor`, `ContenderNotLost` |
| `classes` | `ClassLoading`: 2 threads, 3 classes, an acyclic and a circular hierarchy, failures; `ClassInit`: 2 threads, a class and two subclasses whose initializers use each other's class | `OneClassPerName`, `FindClassReturns` (unless a class is its own ancestor, and then only threads in a ring of waits hang); `InitializedBeforeUse`, `EnsureInitializedReturns` (only a ring of initializers that wait for each other hangs) |
| `compiler` | every graph of 4 blocks between entry and exit; every program of up to 3 instructions over 2 locals on 2 graphs; some 900 programs for 2 registers; every parallel move of up to 3 moves over 2 registers and 2 slots of each width, widths mixed where a back end has two | `GraphAnalysed`, where dead branches have not hidden a block (the third finding); `SsaValuesRight`; `InputsInPlace`; `MovesInParallel`, but for the upper half of a long in a cycle of mixed widths |
| `dead_branch` | every graph of 4 blocks | violated: `LiveBlocksVisited`, the third finding |

**Bounds.** Three threads are the least for which a lock has an owner, a
contender and a late-comer, and a suspension a suspender, a target and a third
party; rings of two and of three suspensions both fit. `MaxRecursion` is 2
(once is a plain lock, twice is recursion). `MaxSequence` bounds signals: a
waiter compares `sequence_` with what it read for equality only, so one signal or broadcast
reaches every place of its code, and the proof covers any number. `MaxCalls`
bounds the suspensions and checkpoints that
are started; operations under way always finish. `kMaxCheckpoints` is 2
where the code has 3, so that full slots are reached by the two callers that can
exist at the same time. `kThinLockMaxCount` is 1 so that a recursion too
deep for a thin lock is reached; `MaxDepth` bounds recursion just above it. Two threads
meet every step of a monitor's code; a signal that could go to the wrong sleeper needs
three, of which two sleep: these lock once and call neither interrupt nor hash code. Two objects are enough for
mark-sweep because an object hidden from the collector needs one that hides it;
the proof covers the rest. One plain object suffices for reference processing, where the
references are objects too and refer to each other; the proof covers the rest. A page of `RosAlloc` has nine cells and a bitmap word one bit,
so that a run has several words and the search index matters; three pages let a
free run be split, coalesced, trimmed and grown back. `LittleAtOnce` keeps a
bulk free of two objects and the scan of `ReleasePages` to moments when no
thread has a run of its own, and the two apart; each still meets allocation, growth and trimming.
In the class loader the program asks for the two classes (`Asked`), and the interface is
loaded as their parent; the maximum footprint is not ignored (`IgnoreMaxFootprint`).
The register allocator
has two registers: with one, an instruction that needs an input and an output
register has none to give and the code's loop does not end, and with more than two the
programs would have to be larger to make it spill. `MaxMoves` of three gives
cycles of two and three, with a move that hangs off the former. `Tries` is 2 where the code
looks ten times.

**Deadlock** is checked where the system cannot stop. It is not where a run
has an end (the compiler's passes, a destroyed pool, a finished shutdown), where a `CHECK`
ends the process, or where threads have made all the calls the bounds allow.

**Fairness.** Weak fairness for a thread inside an operation: the scheduler runs
it. Strong fairness for a compare-exchange that is retried: a weak
compare-exchange may fail spuriously but not for ever. Strong fairness for a
lock holder's unlock, for the last step to Runnable and for `Resume`: client code
gives back what it took. In `ThreadPool` the workers and a waiting client are
weakly fair; in `ReferenceProcessor` the collector and the threads inside
`GetReferent`; in the class linker every thread inside a call, and one that has been
notified. `ShutdownCompletes` needs that a thread which exits or
is being born goes on, that a non-daemon leaves Runnable code and in the end
exits (strong fairness: it may go back and forth in between). Nothing is
assumed about signals and time-outs, nor that a client ever calls.

## Findings

Three are kept as runs:

* `rw_mutex_interrupt`: `SharedLock` treats `EINTR` as fatal (`base/mutex-inl.h:165`), where
  `ExclusiveLock` retries and says why.
* `reference_fast_path`: `GetReferent` reads the referent before the flag
  (`gc/reference_processor.cc:52`). The flag is cleared while mutators run, so a thread that
  has read a white referent returns it and holds an object that is swept. The slow path blocks in this
  case, and its comments say that it must. `OnlyFastPathLeaks`
  shows, and the proof confirms for every heap, that there is no other way.
* `dead_branch`: `SimplifyCFG` also goes through the dead blocks and splits the edge of a dead branch to a
  block with several predecessors (`compiler/optimizing/nodes.cc:209`). The new block becomes a
  predecessor of the live one, nobody visits it, and `BuildDominatorTree`, which waits for all predecessors, never visits the
  live one either. The comment on the removal of dead blocks says that they must not be predecessors
  of live ones. `GraphAnalysed` shows that predecessors and successors agree unless a dead block branches to
  a join, and that all analyses are right when they agree.

Other disagreements with a comment, an assertion or another part of the code
were met while modelling. Each property is defined in its module, and TLC finds it violated on a
small instance of that module; no run is kept for it. The instance has the constants of the
module's run, or those named in brackets.

| Property | What the code does |
|---|---|
| `OneSuspender` | the comment at `thread_list.cc:550` relies on a lock that does not exist; giving way (`:575`) is what avoids deadlock, and `NoSuspendCycle` shows that it does |
| `NonDaemonsTerminated` | a thread that has left the list still uses the `ThreadList` (`thread_list.cc:933`) that `~Runtime` deletes |
| `DaemonsSuspended` | after ten looks the runtime is deleted under a daemon that runs (`thread_list.cc:868`) |
| `HashStable` (two hash codes) | the hash code of an object that moved goes to its old copy (`mirror/object.cc:164`) |
| `NotifyWakesWaiter` (3 threads, `MaxDepth = 1`) | a waiter that has timed out takes a notification (`monitor.cc:585`) |
| `FatForever` | a comment from before deflation (`monitor.cc:51`) |
| `TaskProcessed` (`InitialActive = 0`) | a work-stealing pool is built with a limit of 0 workers (`thread_pool.cc:278`); nothing uses it |
| `SuperClassIsResolved` | a superclass becomes erroneous before the assertion at `class_linker.cc:4690` |
| `CircularityIsDetected` | a thread that loads an instantiable class which is its own ancestor waits for itself (`class_linker.cc:1977`) before the check for circularity |
| `SuperStaysVerified` | the superclass's status is asserted after its monitor was released (`class_linker.cc:3608`) |
| `MovableSpace` (`Background = "HSC"`) | the main space is checked before all threads are suspended (`gc/heap.cc:1608`) |
| `AllocatorThere` | after a compaction the allocator is not checked again (`gc/heap.cc:1377`) |
| `SoftReferencesCleared` (`Foreground = "SS"`) | a skipped collection counts as one that cleared soft references (`gc/heap.cc:2154`) |
| `DominatorsRight` | the report of an irreducible loop is ignored (`optimizing_compiler.cc:229`) |
| `DeadPhisOnly` | the last user decides whether a phi is live (`ssa_phi_elimination.cc:38`) |
| `FirstInputNotItself` | an added pre-header is the last predecessor (`ssa_phi_elimination.cc:92`) |
| `LargeOrLastIsReleased` (`LargeObjectPages = {1, 2}`) | `and` in the code, "or" in the comment (`rosalloc.h:91`) |

Three properties of passing runs name what the code gets wrong and claim the rest.
`GraphAnalysed` asks for correct dominators only where predecessors and successors agree and
`FindNaturalLoops` returns true. `MovesInParallel` excepts the upper half of a long that is on a cycle with
an int: the x86-64 back end swaps an int's slot with a register by 32-bit moves
(`code_generator_x86_64.cc:1443`), which clear it. `FindClassReturns` lets threads hang in a
ring of waits when a class is its own ancestor.

## Proofs

The theorems hold for every value of the constants; the assumptions are the
`ASSUME`s of the modules: sets of threads are finite where something counts
them, and a "no such thing" value is not a member of the set it stands outside of.

**`MutexProofs`.** The inductive invariant is `Inv`: types; `Ownership`, which
says what `state_`, `exclusive_owner_` and `recursion_count_` hold at each point
of the owner's code, and when nobody owns the word; only threads inside
`FUTEX_WAIT` sleep; `num_contenders_` is the number of threads between its
increment and its decrement; and `NoLostWakeup`. Mutual exclusion alone is not
inductive: it needs that `state_ = 1` exactly while some thread owns the word.
`NoLostWakeup` needs the exact count: at `CheckContenders` the unlocking thread
is the one awake, and it may stop being awake only if the count it reads is
zero, which a sleeper excludes. From `Inv` follow `MutexExclusion`,
`MutexOwner`, `MutexWakeup` and the refinement `MutexImplementsLock`: the two
compare-exchanges that take and give back the word are `Acquire` and `Release`,
everything else is a stutter.

The second half of the module is about `ConditionVariable`, for any number of
waiters, signallers, signals and broadcasts. A condition variable writes fields
of its mutex, so the mutex's invariant has to be shown again, and one conjunct
changes: `num_contenders_` is the number of contenders plus the number of
waiters (`WaitersCounted`; a waiter that contends counts twice). `CVInv` adds
where a thread is in the mutex's code while it is in the condition variable's
(`Places`), who sleeps on which of the two futexes (`Queues`), and `Sequences`:
between `sequence_++` and the system call of a Signal or Broadcast every waiter
on its way to sleep has read an older value, and whoever sleeps on `sequence_`
was waiting when the call began. All of that is written under the guard, which
the notifying thread holds (`Ownership`). `SignalsAreDelivered` and `WaitsReturnHolding`
follow, and `ConditionVariableWakeup`: a waiter that a Broadcast moved to a free
mutex always has somebody awake to attend to it. The lemmas about the steps of
the mutex (`StepAttends`, `ContendersFollowed`, `StepImplementsLock`) serve both specifications;
`ConditionVariableKeepsLock` is the refinement of `AbstractLock` with waits included.

**`ReaderWriterMutexProofs`.** `Inv` ties `state_` to the sets of threads by
their cardinality: the number of readers, or -1 with one writer. A
compare-exchange works on a local copy of `state_`, so the invariant also says
what such a copy may be (`LocalCopies`), and a successful one changes the set of
readers exactly as it changes the word. The two pending counts are exact on
every path out of a wait, the time-out and the interruption included.
Theorems: `RWMutexExclusion`, `RWMutexOwner`, `RWMutexWakeup`,
`RWMutexImplementsRWLock`.

**`ThreadListProofs`.** `Inv` adds to the properties `StateAt` (where a thread is
in the code determines its state, its share of `mutator_lock_`, whether it is
listed and whether it may sleep), `FlagFollowsCount` and `RequestsCounted`. The
argument is one of exact counting: an attached thread's count is the number of
threads stopping the world plus the number suspending it, so whoever lowers a
count finds it positive, and while anybody wants a thread suspended its flag is
set. The flag keeps it from becoming Runnable and from leaving the list. A
thread raises another's count only while its own is zero, that is while no
suspension ends at it; a new edge that starts where none ends closes no cycle
(`NoSuspendCycle`). `StopTheWorld` follows: the writer of `mutator_lock_`
excludes shares, and a Runnable thread has one.

**`RuntimeShutdownProofs`.** `NoThreadLeftBehind` speaks of the moment the
thread list is deleted; what makes it true happens earlier. The invariant says
that `threads_being_born_` is the cardinality of the set of threads between
`StartThreadBirth` and `EndThreadBirth`, that no two creators start the same
thread, that the set is empty once `shutting_down_` is set, and that the main
thread is past its wait only with `shutting_down_` set. The test of
`IsShuttingDown` and the increment are in one critical section, which is why
the set stays empty.

**`ThreadPoolProofs`.** `waiting_count_` is the number of workers that sleep or
have been woken and not yet run; then a count that equals the number of workers
and an empty queue leave no task queued or running, which is what `Wait`
looks at (`WaitReturnsWhenDone`, an action property).

**`InternTableProofs`.** Two things have to be carried through a collection:
from the visit of all roots to the pause a strong intern is marked or in the
log, and from the pause to the sweep everything rooted is marked or younger
than the pause, or in the image, which is never collected. The wait while new interns are disallowed is what makes the
second survive the sweep of the weak table. Where the image has the string, it is the
only entry of both tables, and stays one once the zygote has added it. Theorems: `InternsStayAlive`,
`InternsAreCanonical`.

**`MarkSweepProofs`.** The classical argument for incremental-update marking,
with the card table's ageing: whenever a marked object refers to an unmarked
one, something guarantees that it is scanned again before the pause ends
(`Covered`): the mark stack, a dirty card, an aged card that the current stage
has still to scan, or a store that has still to mark its card. A store whose
card was marked first is the hard case (`CardFirst`): the card may be aged before
the field is written. The checkpoint that marks the thread's roots comes after the
ageing, and no thread passes it in the middle of a store. Sticky collections start from the live
bitmap, so the invariant between collections is the same statement about that
bitmap. Theorem: `NoObjectInUseIsFreed`.

**`ReferenceProcessorProofs`.** In two layers. `ProcessInv` is about references
and marks and holds whatever the mutators do: a black reference to a white
object is in its queue (`QueueInv`), and the phases come in the right order
(`OrderInv`): what is marked when the first round of clearing ends is closed
under soft and weak referents before any finalizable object is marked, and a
finalizer reference whose referent is marked for being finalizable is the one
being enqueued. The last needs that an object has one finalizer reference, which
the library guarantees and `Init` says. `ReferencesAreProcessed` follows. The second layer is `IInv`.
It asserts the *existence* of a set of black objects that contains
what mutators hold and is closed under what they can load, through fields and
through referents other than those of queued and of finalizer references (`Shield`).
Outside the two preserving phases it is the set of marked objects, and once the slow path is
off that set with `unchecked`, which is closed by its definition (`Known`). During them the collector
marks objects that mutators must not see yet, and the set is the one marked when the phase began;
`GetReferent` waits in these phases for anything gray or white. A set that exists, and
not one that the model records, keeps the proof free of history variables.
Theorem: `OnlyTheFastPathLeaks`.

**Model-checked only.** Liveness: TLAPS 1.4.5 does not reason about fairness and
`ENABLED`. `Checkpoint`, `Monitor`, `HeapCollection`,
`RosAlloc` and the class linker: their invariants span many components, and no
inductive strengthening has been worked out. The compiler modules: they are
recursive over data, and induction over data is out of the prover's reach.
`GarbageFreed` is about completeness and needs a different invariant from the
one above.

## What is not modelled, and why

Memory is sequentially consistent: TLA+ offers no weak memory model, so the
choice of acquire, release and relaxed accesses is not checked. Lock levels
are an assertion on callers. Logging, timing and dumping change no state.

The models cover the parts of ART in which threads or passes depend on each other. Most of
the repository is not of that kind, and a model of it would be a
transliteration, or beyond TLC:

* the interpreter, the verifier, the code generators and assemblers, reflection
  and most of JNI are one case per instruction or entry point over large data
  types;
* the readers of dex, oat, ELF and zip files, the image writer, `oatdump`,
  `patchoat`, `dex2oat` and the disassembler parse and print;
* the quick and portable compilers are a second compiler with its own
  representations; the driver's parallelism is the thread pool's;
* the copying collectors run with all threads suspended: when they may run is in
  `HeapCollection`, what they do to the allocator in `RosAlloc`, and what remains is a graph
  traversal;
* parallel marking, mod-union tables, remembered sets and space bitmaps implement sets that
  `MarkSweep` takes as given;
* dlmalloc is a library; the bump-pointer, large-object and image spaces are
  short critical sections or I/O;
* indirect reference tables and transactions are sequential, with unit tests
  that go through their cases;
* array classes, the classes of a boot image, the compiler's class path and other class
  loaders are left out of `ClassLoading`: they are further places to look for a class, or Java
  code, before the `DefineClass` that is modelled;
* the debugger's suspensions (`SuspendAllForDebugger`) would be a second set of
  counts in `ThreadList`; the rest of the debugger is a wire protocol. The signal catcher
  dumps text while all threads are suspended;
* start-up, the zygote's fork and the JDWP and signal-catcher threads that `~Runtime`
  joins are left out of `RuntimeShutdown`. It ends when the thread list has been deleted;
  a native thread that read `Runtime::instance_` before that and attaches afterwards uses a deleted
  object, as the TODO at `runtime.cc:205` says. The number of births is bounded, so a stream
  of births that postpones the shutdown for ever is not seen.
