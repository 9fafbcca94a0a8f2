---------------------------- MODULE ThreadState ----------------------------
(***************************************************************************)
(* The state word of a runtime thread and the transitions between Runnable *)
(* and the suspended states: runtime/thread-inl.h and thread.cc.           *)
(*                                                                         *)
(* state_and_flags holds the thread's state and its pending requests in    *)
(* one word that is changed by compare-exchange; Runnable threads hold a   *)
(* share of Locks::mutator_lock_.  The other thread states (Native,        *)
(* Blocked, Waiting, ...) are told apart by no code modelled here and are  *)
(* one value, "suspended".  Locks are the abstract locks that modules      *)
(* Mutex, ConditionVariable and ReaderWriterMutex implement.  A failed     *)
(* compare-exchange leaves the word as it was, and the code reads it again *)
(* and starts over; reading and successful compare-exchange are one step.  *)
(***************************************************************************)
EXTENDS Integers, FiniteSets

CONSTANTS
    Thread,     \* the native threads
    NoThread    \* stands for no thread

ASSUME ThreadAssumption == IsFiniteSet(Thread) /\ NoThread \notin Thread

VARIABLES
    state,                      \* state_and_flags.state of each thread
    flags,                      \* state_and_flags.flags: the pending requests
    suspend_count,              \* tls32_.suspend_count
    mutator_readers,            \* mutator_lock_: the threads that hold a share
    mutator_writer,             \* mutator_lock_: the exclusive holder
    thread_suspend_count_lock_, \* its holder
    resume_waiters,             \* the threads asleep on Thread::resume_cond_
    pc                          \* where each thread is in the transition code

stateVars == <<state, flags, suspend_count, mutator_readers, mutator_writer,
               thread_suspend_count_lock_, resume_waiters, pc>>

\* "run" and "out": between operations, Runnable and suspended.  r_: in
\* TransitionFromRunnableToSuspended; s_: in TransitionFromSuspendedToRunnable.
TransitionPC == {"run", "r_cas", "r_checkpoint", "r_unlock", "out", "s_load", "s_wait",
                 "s_asleep", "s_share", "s_cas", "s_back"}

StateTypeOK ==
    /\ state \in [Thread -> {"runnable", "suspended"}]
    /\ flags \in [Thread -> SUBSET {"kSuspendRequest", "kCheckpointRequest"}]
    /\ suspend_count \in [Thread -> Nat]
    /\ mutator_readers \in SUBSET Thread
    /\ mutator_writer \in Thread \cup {NoThread}
    /\ thread_suspend_count_lock_ \in Thread \cup {NoThread}
    /\ resume_waiters \in SUBSET Thread

StateInit ==
    /\ state = [t \in Thread |-> "suspended"]
    /\ flags = [t \in Thread |-> {}]
    /\ suspend_count = [t \in Thread |-> 0]
    /\ mutator_readers = {}
    /\ mutator_writer = NoThread
    /\ thread_suspend_count_lock_ = NoThread
    /\ resume_waiters = {}

Goto(t, from, to) == pc[t] = from /\ pc' = [pc EXCEPT ![t] = to]

IsSuspended(t) == state[t] # "runnable" /\ "kSuspendRequest" \in flags[t]

\* Nobody is inside a critical section of thread_suspend_count_lock_.
LockFree == thread_suspend_count_lock_ = NoThread

-----------------------------------------------------------------------------

\* ModifySuspendCount of the threads in S: the count, and the request flag
\* that follows it.  With a negative delta the count must be positive.
ModifySuspendCount(S, delta) ==
    /\ suspend_count' = [t \in Thread |-> suspend_count[t] + (IF t \in S THEN delta ELSE 0)]
    /\ flags' = [t \in Thread |->
                   IF t \notin S THEN flags[t]
                   ELSE IF suspend_count[t] + delta = 0 THEN flags[t] \ {"kSuspendRequest"}
                   ELSE flags[t] \cup {"kSuspendRequest"}]

\* Thread::resume_cond_->Broadcast.
BroadcastResume == resume_waiters' = {}

(***************************************************************************)
(* TransitionFromRunnableToSuspended                                       *)
(***************************************************************************)

TransitionFromRunnableToSuspended(t) ==
    /\ Goto(t, "run", "r_cas")
    /\ UNCHANGED <<state, flags, suspend_count, mutator_readers, mutator_writer,
                   thread_suspend_count_lock_, resume_waiters>>

\* A pending checkpoint is run first.
SeeCheckpoint(t) ==
    /\ "kCheckpointRequest" \in flags[t]
    /\ Goto(t, "r_cas", "r_checkpoint")
    /\ UNCHANGED <<state, flags, suspend_count, mutator_readers, mutator_writer,
                   thread_suspend_count_lock_, resume_waiters>>

\* The compare-exchange covers the flags: it succeeds only without a
\* checkpoint request.
LeaveRunnable(t) ==
    /\ "kCheckpointRequest" \notin flags[t]
    /\ Goto(t, "r_cas", "r_unlock")
    /\ state' = [state EXCEPT ![t] = "suspended"]
    /\ UNCHANGED <<flags, suspend_count, mutator_readers, mutator_writer,
                   thread_suspend_count_lock_, resume_waiters>>

\* mutator_lock_->SharedUnlock, here and when becoming Runnable failed.
ReleaseShare(t) ==
    /\ Goto(t, "r_unlock", "out") \/ Goto(t, "s_back", "s_load")
    /\ mutator_readers' = mutator_readers \ {t}
    /\ UNCHANGED <<state, flags, suspend_count, mutator_writer, thread_suspend_count_lock_,
                   resume_waiters>>

(***************************************************************************)
(* TransitionFromSuspendedToRunnable                                       *)
(***************************************************************************)
TransitionFromSuspendedToRunnable(t) ==
    /\ Goto(t, "out", "s_load")
    /\ UNCHANGED <<state, flags, suspend_count, mutator_readers, mutator_writer,
                   thread_suspend_count_lock_, resume_waiters>>

LoadFlags(t) ==
    /\ Goto(t, "s_load", IF "kSuspendRequest" \in flags[t] THEN "s_wait" ELSE "s_share")
    /\ UNCHANGED <<state, flags, suspend_count, mutator_readers, mutator_writer,
                   thread_suspend_count_lock_, resume_waiters>>

\* Under thread_suspend_count_lock_: wait on resume_cond_ while the request
\* flag is set.  A woken waiter, or one woken spuriously, looks again.
WaitWhileRequested(t) ==
    /\ LockFree
    /\ IF "kSuspendRequest" \in flags[t]
       THEN /\ Goto(t, "s_wait", "s_asleep")
            /\ resume_waiters' = resume_waiters \cup {t}
       ELSE /\ Goto(t, "s_wait", "s_share")
            /\ UNCHANGED resume_waiters
    /\ UNCHANGED <<state, flags, suspend_count, mutator_readers, mutator_writer,
                   thread_suspend_count_lock_>>

Woken(t) ==
    /\ t \notin resume_waiters
    /\ Goto(t, "s_asleep", "s_wait")
    /\ UNCHANGED <<state, flags, suspend_count, mutator_readers, mutator_writer,
                   thread_suspend_count_lock_, resume_waiters>>

SpuriousWakeup(t) ==
    /\ t \in resume_waiters
    /\ Goto(t, "s_asleep", "s_wait")
    /\ resume_waiters' = resume_waiters \ {t}
    /\ UNCHANGED <<state, flags, suspend_count, mutator_readers, mutator_writer,
                   thread_suspend_count_lock_>>

\* mutator_lock_->SharedLock.
AcquireShare(t) ==
    /\ mutator_writer = NoThread
    /\ Goto(t, "s_share", "s_cas")
    /\ mutator_readers' = mutator_readers \cup {t}
    /\ UNCHANGED <<state, flags, suspend_count, mutator_writer, thread_suspend_count_lock_,
                   resume_waiters>>

\* The compare-exchange to Runnable succeeds only without a suspend request.
BecomeRunnable(t) ==
    /\ "kSuspendRequest" \notin flags[t]
    /\ Goto(t, "s_cas", "run")
    /\ state' = [state EXCEPT ![t] = "runnable"]
    /\ UNCHANGED <<flags, suspend_count, mutator_readers, mutator_writer,
                   thread_suspend_count_lock_, resume_waiters>>

\* A request has come in, or the weak compare-exchange failed spuriously.
FailToRun(t) ==
    /\ Goto(t, "s_cas", "s_back")
    /\ UNCHANGED <<state, flags, suspend_count, mutator_readers, mutator_writer,
                   thread_suspend_count_lock_, resume_waiters>>

-----------------------------------------------------------------------------
\* The steps a thread takes inside the two transitions.
TransitionStep(t) ==
    \/ SeeCheckpoint(t) \/ LeaveRunnable(t) \/ ReleaseShare(t) \/ LoadFlags(t)
    \/ WaitWhileRequested(t) \/ Woken(t) \/ AcquireShare(t) \/ BecomeRunnable(t) \/ FailToRun(t)

\* The calls of the two transitions.
TransitionCall(t) ==
    TransitionFromRunnableToSuspended(t) \/ TransitionFromSuspendedToRunnable(t)

-----------------------------------------------------------------------------
\* A Runnable thread holds a share of mutator_lock_, so nobody holds it
\* exclusively: this is what lets SuspendAll stop the world by acquiring it.
RunnableHoldsShare ==
    \A t \in Thread : state[t] = "runnable" => t \in mutator_readers

\* mutator_lock_ is a readers-writer lock.
MutatorLockExclusion == mutator_writer # NoThread => mutator_readers = {}

\* "If set implies that suspend_count_ > 0" (thread.h:91), and conversely: a
\* thread with a raised suspend count has the flag that makes it stop.
FlagFollowsCount ==
    \A t \in Thread : "kSuspendRequest" \in flags[t] <=> suspend_count[t] > 0
=============================================================================
