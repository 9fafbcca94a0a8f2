----------------------------- MODULE Checkpoint -----------------------------
(***************************************************************************)
(* Checkpoints: a closure that every thread runs once, on itself when it   *)
(* is Runnable, or has run for it while it is kept suspended.              *)
(*   RunCheckpoint, RunCheckpointOnRunnableThreads (thread_list.cc),       *)
(*   RequestCheckpoint, RunCheckpointFunction (thread.cc), with the        *)
(*   callers MarkSweep::MarkRootsCheckpoint (a Marker) and the profiler (a *)
(*   Sampler), and the Barrier on which a caller awaits the closures.      *)
(*                                                                         *)
(* A closure belongs to its caller, lives on the caller's stack and is     *)
(* named by it.  Each caller has a Barrier of its own.                     *)
(***************************************************************************)
EXTENDS ThreadList

CONSTANTS
    Marker,             \* the threads that call RunCheckpoint
    Sampler,            \* the threads that call RunCheckpointOnRunnableThreads
    kMaxCheckpoints     \* the checkpoint slots of a thread

ASSUME CheckpointAssumption ==
    Marker \subseteq Thread /\ Sampler \subseteq Thread /\ kMaxCheckpoints \in Nat \ {0}

VARIABLES
    checkpoint_functions,   \* the slots of each thread
    checkpoints,            \* its copy of them, in RunCheckpointFunction
    todo,                   \* the threads a caller's loop has still to visit
    modified,               \* suspended_count_modified_threads of a caller
    count,                  \* the closures a caller waits for
    count_,                 \* Barrier::count_ of a caller
    ran,                    \* history: how often each thread has run a caller's closure
    cohort                  \* history: the threads that must run it

callerVars == <<todo, modified, count, cohort>>
checkpointVars == <<checkpoint_functions, checkpoints, todo, modified, count, count_, ran, cohort>>
vars == <<threadListVars, checkpointVars>>

Slot == 1..kMaxCheckpoints
NoClosures == [i \in Slot |-> NoThread]
FreeSlots(t) == {i \in Slot : checkpoint_functions[t][i] = NoThread}

CheckpointPC == {"c_run", "p_checkpoint", "p_run", "marking", "loop", "raise", "self", "scan", "apply",
                 "lower", "unlock", "sample", "increment", "barrier", "relock", "marked"}

CheckpointInit ==
    /\ Init
    /\ checkpoint_functions = [t \in Thread |-> NoClosures]
    /\ checkpoints = [t \in Thread |-> NoClosures]
    /\ todo = [t \in Thread |-> {}]
    /\ modified = [t \in Thread |-> {}]
    /\ count = [t \in Thread |-> 0]
    /\ count_ = [t \in Thread |-> 0]
    /\ ran = [t \in Thread |-> [u \in Thread |-> 0]]
    /\ cohort = [t \in Thread |-> {}]

\* closure->Run(u) of caller c: it ends with a Pass of the caller's barrier.
Run(c, u) ==
    /\ ran' = [ran EXCEPT ![c][u] = @ + 1]
    /\ count_' = [count_ EXCEPT ![c] = @ - 1]

-----------------------------------------------------------------------------
(***************************************************************************)
(* The thread that is asked: RunCheckpointFunction, when it leaves the     *)
(* Runnable state and when CheckSuspend finds the flag at a poll           *)
(***************************************************************************)
CheckSuspend(t) ==
    /\ "kCheckpointRequest" \in flags[t]
    /\ Goto(t, "run", "p_checkpoint")
    /\ UNCHANGED <<state, flags, suspend_count, mutator_readers, mutator_writer,
                   thread_suspend_count_lock_, resume_waiters, listVars, checkpointVars>>

\* Under thread_suspend_count_lock_: take the closures and clear the flag.
TakeCheckpoints(t) ==
    /\ LockFree
    /\ Goto(t, "r_checkpoint", "c_run") \/ Goto(t, "p_checkpoint", "p_run")
    /\ checkpoints' = [checkpoints EXCEPT ![t] = checkpoint_functions[t]]
    /\ checkpoint_functions' = [checkpoint_functions EXCEPT ![t] = NoClosures]
    /\ flags' = [flags EXCEPT ![t] = @ \ {"kCheckpointRequest"}]
    /\ UNCHANGED <<state, suspend_count, mutator_readers, mutator_writer,
                   thread_suspend_count_lock_, resume_waiters, listVars, callerVars, count_, ran>>

\* Without the lock: run them in the order of the slots.
RunNext(t) ==
    /\ pc[t] \in {"c_run", "p_run"}
    /\ \E i \in Slot :
          /\ checkpoints[t][i] # NoThread
          /\ \A j \in 1..(i - 1) : checkpoints[t][j] = NoThread
          /\ Run(checkpoints[t][i], t)
          /\ checkpoints' = [checkpoints EXCEPT ![t][i] = NoThread]
    /\ UNCHANGED <<stateVars, listVars, checkpoint_functions, callerVars>>

RunDone(t) ==
    /\ checkpoints[t] = NoClosures
    /\ Goto(t, "c_run", "r_cas") \/ Goto(t, "p_run", "run")
    /\ UNCHANGED <<state, flags, suspend_count, mutator_readers, mutator_writer,
                   thread_suspend_count_lock_, resume_waiters, listVars, checkpointVars>>

(***************************************************************************)
(* The caller                                                              *)
(***************************************************************************)
\* MarkSweep::RunPhases marks with a share of mutator_lock_, not Runnable.
BeginMarking(c) ==
    /\ c \in Marker
    /\ request[c] = "none"
    /\ mutator_writer = NoThread
    /\ Goto(c, "out", "marking")
    /\ mutator_readers' = mutator_readers \cup {c}
    /\ StartCall
    /\ UNCHANGED <<state, flags, suspend_count, mutator_writer, thread_suspend_count_lock_,
                   resume_waiters, list_, suspend_all_count_, request, target, checkpointVars>>

\* Both loops run with thread_list_lock_ and thread_suspend_count_lock_ held.
EnterLoop(c, members) ==
    /\ LockFree
    /\ thread_suspend_count_lock_' = c
    /\ todo' = [todo EXCEPT ![c] = list_ \ {c}]
    /\ cohort' = [cohort EXCEPT ![c] = members]

RunCheckpoint(c) ==
    /\ Goto(c, "marking", "loop")
    /\ EnterLoop(c, list_)
    /\ UNCHANGED <<state, flags, suspend_count, mutator_readers, mutator_writer, resume_waiters,
                   listVars, checkpoint_functions, checkpoints, modified, count, count_, ran>>

\* The profiler first sets its barrier to 0.
RunCheckpointOnRunnableThreads(c) ==
    /\ c \in Sampler
    /\ request[c] = "none"
    /\ Goto(c, "out", "sample")
    /\ EnterLoop(c, {})
    /\ count_' = [count_ EXCEPT ![c] = 0]
    /\ StartCall
    /\ UNCHANGED <<state, flags, suspend_count, mutator_readers, mutator_writer, resume_waiters,
                   list_, suspend_all_count_, request, target, checkpoint_functions, checkpoints,
                   modified, count, ran>>

\* RequestCheckpoint of u that succeeds: the closure goes into the first free
\* slot and the compare-exchange that sets the flag finds u still Runnable.
RequestCheckpoint(c, u) ==
    /\ pc[c] \in {"loop", "sample"} /\ u \in todo[c]
    /\ state[u] = "runnable"
    /\ \E i \in FreeSlots(u) :
          /\ \A j \in FreeSlots(u) : i <= j
          /\ checkpoint_functions' = [checkpoint_functions EXCEPT ![u][i] = c]
    /\ flags' = [flags EXCEPT ![u] = @ \cup {"kCheckpointRequest"}]
    /\ todo' = [todo EXCEPT ![c] = @ \ {u}]
    /\ count' = [count EXCEPT ![c] = @ + 1]
    /\ cohort' = [cohort EXCEPT ![c] = @ \cup {u}]
    /\ UNCHANGED <<state, suspend_count, mutator_readers, mutator_writer,
                   thread_suspend_count_lock_, resume_waiters, pc, listVars, checkpoints, modified,
                   count_, ran>>

\* It fails: the sampler goes on to the next thread.
SkipThread(c, u) ==
    /\ pc[c] = "sample" /\ u \in todo[c]
    /\ ~(state[u] = "runnable" /\ FreeSlots(u) # {})
    /\ todo' = [todo EXCEPT ![c] = @ \ {u}]
    /\ UNCHANGED <<stateVars, listVars, checkpoint_functions, checkpoints, modified, count, count_,
                   ran, cohort>>

\* The marker looks at the state again.  Runnable: it retries, no slot or not.
SeeNotRunnable(c, u) ==
    /\ Goto(c, "loop", "raise") /\ u \in todo[c]
    /\ state[u] # "runnable"
    /\ modified' = [modified EXCEPT ![c] = @ \cup {u}]
    /\ UNCHANGED <<state, flags, suspend_count, mutator_readers, mutator_writer,
                   thread_suspend_count_lock_, resume_waiters, listVars, checkpoint_functions,
                   checkpoints, todo, count, count_, ran, cohort>>

\* ... and raises the count, by which time u may be Runnable again.
RaiseForCheckpoint(c) ==
    /\ Goto(c, "raise", "loop")
    /\ ModifySuspendCount(modified[c] \cap todo[c], 1)
    /\ todo' = [todo EXCEPT ![c] = @ \ modified[c]]
    /\ count' = [count EXCEPT ![c] = @ + 1]
    /\ UNCHANGED <<state, mutator_readers, mutator_writer, thread_suspend_count_lock_,
                   resume_waiters, listVars, checkpoint_functions, checkpoints, modified, count_,
                   ran, cohort>>

\* A sampler with nothing to wait for has finished.
LeaveLoop(c) ==
    /\ todo[c] = {}
    /\ \/ Goto(c, "loop", "self")
       \/ count[c] > 0 /\ Goto(c, "sample", "increment")
       \/ count[c] = 0 /\ Goto(c, "sample", "out")
    /\ thread_suspend_count_lock_' = NoThread
    /\ UNCHANGED <<state, flags, suspend_count, mutator_readers, mutator_writer, resume_waiters,
                   listVars, checkpointVars>>

\* Mutant of RunOnSelf: the caller has the others run the closure only.
SkipSelf(c) ==
    /\ Goto(c, "self", "scan")
    /\ UNCHANGED <<state, flags, suspend_count, mutator_readers, mutator_writer,
                   thread_suspend_count_lock_, resume_waiters, listVars, checkpointVars>>

RunOnSelf(c) ==
    /\ Goto(c, "self", "scan")
    /\ Run(c, c)
    /\ count' = [count EXCEPT ![c] = @ + 1]
    /\ UNCHANGED <<state, flags, suspend_count, mutator_readers, mutator_writer,
                   thread_suspend_count_lock_, resume_waiters, listVars, checkpoint_functions,
                   checkpoints, todo, modified, cohort>>

\* Wait until u is suspended, then run the closure for it; todo holds u.
FindSuspended(c, u) ==
    /\ u \in modified[c]
    /\ IsSuspended(u)
    /\ Goto(c, "scan", "apply")
    /\ todo' = [todo EXCEPT ![c] = {u}]
    /\ UNCHANGED <<state, flags, suspend_count, mutator_readers, mutator_writer,
                   thread_suspend_count_lock_, resume_waiters, listVars, checkpoint_functions,
                   checkpoints, modified, count, count_, ran, cohort>>

RunOnSuspended(c) ==
    /\ Goto(c, "apply", "lower")
    /\ \E u \in todo[c] : Run(c, u)
    /\ UNCHANGED <<state, flags, suspend_count, mutator_readers, mutator_writer,
                   thread_suspend_count_lock_, resume_waiters, listVars, checkpoint_functions,
                   checkpoints, callerVars>>

\* Mutant of LowerAfterCheckpoint: the count stays raised.
KeepRaised(c) ==
    /\ LockFree
    /\ Goto(c, "lower", "scan")
    /\ modified' = [modified EXCEPT ![c] = @ \ todo[c]]
    /\ todo' = [todo EXCEPT ![c] = {}]
    /\ UNCHANGED <<state, flags, suspend_count, mutator_readers, mutator_writer,
                   thread_suspend_count_lock_, resume_waiters, listVars, checkpoint_functions,
                   checkpoints, count, count_, ran, cohort>>

LowerAfterCheckpoint(c) ==
    /\ LockFree
    /\ Goto(c, "lower", "scan")
    /\ ModifySuspendCount(todo[c], -1)
    /\ modified' = [modified EXCEPT ![c] = @ \ todo[c]]
    /\ todo' = [todo EXCEPT ![c] = {}]
    /\ UNCHANGED <<state, mutator_readers, mutator_writer, thread_suspend_count_lock_,
                   resume_waiters, listVars, checkpoint_functions, checkpoints, count, count_, ran,
                   cohort>>

\* Mutant of WakeAfterCheckpoint: the broadcast is missing.
NoWakeAfterCheckpoint(c) ==
    /\ LockFree
    /\ modified[c] = {}
    /\ Goto(c, "scan", "unlock")
    /\ UNCHANGED <<state, flags, suspend_count, mutator_readers, mutator_writer,
                   thread_suspend_count_lock_, resume_waiters, listVars, checkpointVars>>

WakeAfterCheckpoint(c) ==
    /\ LockFree
    /\ modified[c] = {}
    /\ Goto(c, "scan", "unlock")
    /\ BroadcastResume
    /\ UNCHANGED <<state, flags, suspend_count, mutator_readers, mutator_writer,
                   thread_suspend_count_lock_, listVars, checkpointVars>>

\* MarkRootsCheckpoint gives up its share and waits at the barrier.
UnlockMutator(c) ==
    /\ Goto(c, "unlock", "increment")
    /\ mutator_readers' = mutator_readers \ {c}
    /\ UNCHANGED <<state, flags, suspend_count, mutator_writer, thread_suspend_count_lock_,
                   resume_waiters, listVars, checkpointVars>>

BarrierIncrement(c) ==
    /\ Goto(c, "increment", "barrier")
    /\ count_' = [count_ EXCEPT ![c] = @ + count[c]]
    /\ UNCHANGED <<state, flags, suspend_count, mutator_readers, mutator_writer,
                   thread_suspend_count_lock_, resume_waiters, listVars, checkpoint_functions,
                   checkpoints, callerVars, ran>>

\* The caller goes on, and its closure is gone.  A sampler's wait is timed, but when its time is
\* up the profiler aborts the process (CHECK_LT), so this is the only way on for it too.
BarrierCrossed(c) ==
    /\ count_[c] = 0
    /\ Goto(c, "barrier", IF c \in cohort[c] THEN "relock" ELSE "out")
    /\ count' = [count EXCEPT ![c] = 0]
    /\ cohort' = [cohort EXCEPT ![c] = {}]
    /\ ran' = [ran EXCEPT ![c] = [u \in Thread |-> 0]]
    /\ UNCHANGED <<state, flags, suspend_count, mutator_readers, mutator_writer,
                   thread_suspend_count_lock_, resume_waiters, listVars, checkpoint_functions,
                   checkpoints, todo, modified, count_>>

\* A marker takes its share back and keeps it to the end of the phase.
RelockMutator(c) ==
    /\ mutator_writer = NoThread
    /\ Goto(c, "relock", "marked")
    /\ mutator_readers' = mutator_readers \cup {c}
    /\ UNCHANGED <<state, flags, suspend_count, mutator_writer, thread_suspend_count_lock_,
                   resume_waiters, listVars, checkpointVars>>

EndMarking(c) ==
    /\ Goto(c, "marked", "out")
    /\ mutator_readers' = mutator_readers \ {c}
    /\ UNCHANGED <<state, flags, suspend_count, mutator_writer, thread_suspend_count_lock_,
                   resume_waiters, listVars, checkpointVars>>

-----------------------------------------------------------------------------
CallerStep(c) ==
    \/ RunCheckpoint(c) \/ RaiseForCheckpoint(c) \/ LeaveLoop(c) \/ RunOnSelf(c)
    \/ RunOnSuspended(c) \/ LowerAfterCheckpoint(c) \/ WakeAfterCheckpoint(c)
    \/ UnlockMutator(c) \/ BarrierIncrement(c) \/ BarrierCrossed(c)
    \/ RelockMutator(c) \/ EndMarking(c)
    \/ \E u \in Thread : RequestCheckpoint(c, u) \/ SkipThread(c, u) \/ SeeNotRunnable(c, u)
                         \/ FindSuspended(c, u)

CheckpointStep(t) == TakeCheckpoints(t) \/ RunNext(t) \/ RunDone(t)

ThreadListStep(t) ==
    /\ \/ InternalStep(t)
       \/ SpuriousWakeup(t) /\ UNCHANGED listVars
       \/ FreeCall(t) \/ Register(t) \/ Unregister(t) \/ SuspendAll(t)
       \/ \E u \in Thread : SuspendThread(t, u)
    /\ UNCHANGED checkpointVars

CheckpointNext ==
    \E t \in Thread :
        \/ ThreadListStep(t)
        \/ CheckSuspend(t) \/ CheckpointStep(t)
        \/ BeginMarking(t) \/ RunCheckpointOnRunnableThreads(t) \/ CallerStep(t)

CheckpointSpec == CheckpointInit /\ [][CheckpointNext]_vars

-----------------------------------------------------------------------------
\* Every thread that was attached when RunCheckpoint took the locks, or that a
\* sampler reached, runs the closure exactly once before the caller crosses its
\* barrier: also one that changes state while it is being asked.
ExactlyOnce ==
    \A c \in Thread :
        /\ \A u \in Thread : ran[c][u] <= 1
        /\ pc[c] = "barrier" /\ count_[c] = 0 =>
              cohort[c] = {u \in Thread : ran[c][u] = 1}

Pending(t) == {c \in Thread : \E i \in Slot : checkpoint_functions[t][i] = c \/ checkpoints[t][i] = c}

\* A closure is on its caller's stack: while a thread has still to run it the
\* caller has not crossed the barrier.
ClosureAlive ==
    \A t \in Thread : \A c \in Pending(t) :
        pc[c] \in CheckpointPC \ {"marking", "relock", "marked"}

\* The checkpoint flag is set exactly when a slot is filled, so
\* RunCheckpointFunction finds a closure (its CHECK), and only on a Runnable
\* thread, so none is deleted with a checkpoint pending (the CHECKs of ~Thread).
FlagMeansCheckpoint ==
    \A t \in Thread :
        /\ "kCheckpointRequest" \in flags[t] <=> FreeSlots(t) # Slot
        /\ "kCheckpointRequest" \in flags[t] => state[t] = "runnable"

\* "We know for sure that the thread is suspended at this point": the closure
\* is run for another thread only while that one is attached and suspended.
RunsWhileSuspended ==
    \A c \in Thread :
        pc[c] = "apply" => \A u \in todo[c] : u \in list_ /\ IsSuspended(u)

\* With at most kMaxCheckpoints callers, RunCheckpoint never spins, holding the
\* lock that RunCheckpointFunction needs, for a slot of a Runnable thread.
SlotAvailable ==
    \A c \in Thread : pc[c] = "loop" =>
        \A u \in todo[c] : state[u] = "runnable" => FreeSlots(u) # {}

\* CountsBalanced with the counts that RunCheckpoint raises.
CheckpointCounts ==
    \A t \in list_ :
        suspend_count[t] = Cardinality({u \in Thread \ {t} : StoppingTheWorld(u)})
                           + Cardinality({u \in Thread : Suspending(u, t)})
                           + Cardinality({c \in Thread : t \in modified[c] /\
                                            ~(pc[c] = "raise" /\ t \in todo[c])})

\* The request flag, the checkpoint slots, the suspend counts, the states of
\* the threads and the lives of the closures agree at every step of every
\* caller.
CheckpointsConsistent ==
    /\ FlagMeansCheckpoint /\ RunsWhileSuspended /\ SlotAvailable
    /\ CheckpointCounts /\ ClosureAlive

-----------------------------------------------------------------------------
\* The code's own steps go on, and a Runnable thread polls its flags.  The
\* caller resumes in the end what it has suspended, whatever else it does, and
\* a compare-exchange that can succeed again and again does.
CheckpointFairness ==
    /\ \A t \in Thread :
          /\ WF_vars(InternalStep(t) /\ UNCHANGED checkpointVars)
          /\ WF_vars(CheckpointStep(t) \/ CallerStep(t))
          /\ SF_vars(BecomeRunnable(t) /\ UNCHANGED <<listVars, checkpointVars>>)
          /\ WF_vars(flags[t] # {} /\ (CheckSuspend(t) \/ (FreeCall(t) /\ UNCHANGED checkpointVars)))
    /\ \A t \in Suspender : SF_vars(Resume(t) /\ UNCHANGED checkpointVars)

CheckpointFairSpec == CheckpointSpec /\ CheckpointFairness

\* Every suspension is granted or given up and undone, every checkpoint is
\* completed, and every thread they stopped runs again, whoever suspends whom:
\* once no more are asked for (calls are bounded) no thread is suspended,
\* suspending, at a barrier or asleep for good.
EveryoneResumes ==
    <>[](\A t \in Thread : /\ request[t] = "none" /\ pc[t] \notin CheckpointPC
                           /\ suspend_count[t] = 0 /\ t \notin resume_waiters)
=============================================================================
