----------------------------- MODULE ThreadList -----------------------------
(***************************************************************************)
(* Suspension and resumption of threads: runtime/thread_list.cc.           *)
(*                                                                         *)
(* A thread stops the world with SuspendAll, or suspends one other thread  *)
(* with SuspendThreadByThreadId or SuspendThreadByPeer, which differ only  *)
(* in how they look the thread up.  The code between taking and releasing  *)
(* thread_list_lock_ and thread_suspend_count_lock_ is one step: all it    *)
(* shares with threads that hold neither lock is the target's state word,  *)
(* and a target's change of state between the raise of its count and the   *)
(* test of IsSuspended could as well have come before the raise.  The only *)
(* section modelled in several steps is that of RunCheckpoint.             *)
(* The 30 second limits that abort the process are left out.               *)
(***************************************************************************)
EXTENDS ThreadState

CONSTANTS
    Collector,      \* the threads that call SuspendAll
    Suspender,      \* the threads that suspend single threads
    MaxCalls        \* bounds the suspensions that are started

ASSUME RoleAssumption == Collector \subseteq Thread /\ Suspender \subseteq Thread
ASSUME CallsAssumption == MaxCalls \in Nat

VARIABLES
    list_,                  \* the attached threads
    suspend_all_count_,     \* the SuspendAll calls not yet matched by ResumeAll
    request,                \* where each thread is in suspending another one
    target,                 \* the thread it suspends
    calls                   \* the suspensions started so far

listVars == <<list_, suspend_all_count_, request, target, calls>>
threadListVars == <<stateVars, listVars>>

\* request[t]: "wanted" until the count of target[t] is raised, then "raised"
\* until the call returns it suspended, then "held" until Resume.
TypeOK ==
    /\ StateTypeOK
    /\ pc \in [Thread -> TransitionPC \cup
                         {"unattached", "leaving", "suspend_all", "stopped", "resume_all",
                          "resumed_run", "resumed_out"}]
    /\ list_ \in SUBSET Thread
    /\ suspend_all_count_ \in Nat
    /\ request \in [Thread -> {"none", "wanted", "raised", "held"}]
    /\ target \in [Thread -> Thread \cup {NoThread}]
    /\ calls \in 0..MaxCalls

Init ==
    /\ StateInit
    /\ pc = [t \in Thread |-> "unattached"]
    /\ list_ = {}
    /\ suspend_all_count_ = 0
    /\ request = [t \in Thread |-> "none"]
    /\ target = [t \in Thread |-> NoThread]
    /\ calls = 0

InSuspendThread(t) == request[t] \in {"wanted", "raised"}

StartCall == calls < MaxCalls /\ calls' = calls + 1

SetRequest(t, r, u) == request' = [request EXCEPT ![t] = r] /\ target' = [target EXCEPT ![t] = u]

-----------------------------------------------------------------------------
(***************************************************************************)
(* Attaching and detaching                                                 *)
(***************************************************************************)

\* The suspend count of a new thread reflects the SuspendAll calls under way.
Register(t) ==
    /\ LockFree
    /\ Goto(t, "unattached", "out")
    /\ list_' = list_ \cup {t}
    /\ suspend_count' = [suspend_count EXCEPT ![t] = suspend_all_count_]
    /\ flags' = [flags EXCEPT ![t] = IF suspend_all_count_ > 0 THEN {"kSuspendRequest"} ELSE {}]
    /\ UNCHANGED <<state, mutator_readers, mutator_writer, thread_suspend_count_lock_,
                   resume_waiters, suspend_all_count_, request, target, calls>>

Unregister(t) ==
    /\ request[t] = "none"
    /\ Goto(t, "out", "leaving")
    /\ UNCHANGED <<state, flags, suspend_count, mutator_readers, mutator_writer,
                   thread_suspend_count_lock_, resume_waiters, listVars>>

\* Mutant of RemoveFromList: the thread leaves although it is suspended.
RemoveAnyway(t) ==
    /\ LockFree
    /\ Goto(t, "leaving", "unattached")
    /\ list_' = list_ \ {t}
    /\ UNCHANGED <<state, flags, suspend_count, mutator_readers, mutator_writer,
                   thread_suspend_count_lock_, resume_waiters, suspend_all_count_, request,
                   target, calls>>

\* The loop of Unregister: leave the list unless suspended, else try again.
RemoveFromList(t) ==
    /\ LockFree
    /\ ~IsSuspended(t)
    /\ Goto(t, "leaving", "unattached")
    /\ list_' = list_ \ {t}
    /\ UNCHANGED <<state, flags, suspend_count, mutator_readers, mutator_writer,
                   thread_suspend_count_lock_, resume_waiters, suspend_all_count_, request,
                   target, calls>>

(***************************************************************************)
(* SuspendAll and ResumeAll                                                *)
(***************************************************************************)
SuspendAll(t) ==
    /\ t \in Collector
    /\ request[t] = "none"
    /\ LockFree
    /\ Goto(t, "out", "suspend_all")
    /\ suspend_all_count_' = suspend_all_count_ + 1
    /\ ModifySuspendCount(list_ \ {t}, 1)
    /\ StartCall
    /\ UNCHANGED <<state, mutator_readers, mutator_writer, thread_suspend_count_lock_,
                   resume_waiters, list_, request, target>>

\* Mutant of LockMutator: a timed-out ExclusiveLockWithTimeout is taken for
\* success.
LockMutatorLate(t) ==
    /\ mutator_writer = NoThread
    /\ Goto(t, "suspend_all", "stopped")
    /\ mutator_writer' = t
    /\ UNCHANGED <<state, flags, suspend_count, mutator_readers, thread_suspend_count_lock_,
                   resume_waiters, listVars>>

\* mutator_lock_->ExclusiveLock waits for the Runnable threads.
LockMutator(t) ==
    /\ mutator_readers = {} /\ mutator_writer = NoThread
    /\ Goto(t, "suspend_all", "stopped")
    /\ mutator_writer' = t
    /\ UNCHANGED <<state, flags, suspend_count, mutator_readers, thread_suspend_count_lock_,
                   resume_waiters, listVars>>

ResumeAll(t) ==
    /\ Goto(t, "stopped", "resume_all")
    /\ mutator_writer' = NoThread
    /\ UNCHANGED <<state, flags, suspend_count, mutator_readers, thread_suspend_count_lock_,
                   resume_waiters, listVars>>

ResumeAllWake(t) ==
    /\ LockFree
    /\ Goto(t, "resume_all", "out")
    /\ suspend_all_count_' = suspend_all_count_ - 1
    /\ ModifySuspendCount(list_ \ {t}, -1)
    /\ BroadcastResume
    /\ UNCHANGED <<state, mutator_readers, mutator_writer, thread_suspend_count_lock_,
                   list_, request, target, calls>>

(***************************************************************************)
(* SuspendThreadByThreadId and SuspendThreadByPeer                         *)
(***************************************************************************)
\* The call; every iteration of its loop first becomes Runnable.
SuspendThread(t, u) ==
    /\ t \in Suspender /\ u # t
    /\ request[t] = "none"
    /\ Goto(t, "out", "s_load")
    /\ SetRequest(t, "wanted", u)
    /\ StartCall
    /\ UNCHANGED <<state, flags, suspend_count, mutator_readers, mutator_writer,
                   thread_suspend_count_lock_, resume_waiters, list_, suspend_all_count_>>

\* The body of the loop, from which the thread leaves the Runnable state.
\* Not in the list: no such thread.
NotFound(t) ==
    /\ target[t] \notin list_
    /\ SetRequest(t, "none", NoThread)
    /\ UNCHANGED <<suspend_count, flags>>

\* Another thread is suspending us: raising a count now could make a cycle.
GiveWay(t) ==
    /\ target[t] \in list_
    /\ request[t] = "wanted"
    /\ suspend_count[t] > 0
    /\ UNCHANGED <<suspend_count, flags, request, target>>

\* Mutant of RaiseCount: the caller's own suspend count is not looked at.
RaiseAnyway(t) ==
    /\ target[t] \in list_
    /\ request[t] = "wanted"
    /\ ModifySuspendCount({target[t]}, 1)
    /\ SetRequest(t, IF state[target[t]] # "runnable" THEN "held" ELSE "raised", target[t])

RaiseCount(t) ==
    /\ target[t] \in list_
    /\ request[t] = "wanted"
    /\ suspend_count[t] = 0
    /\ ModifySuspendCount({target[t]}, 1)
    /\ SetRequest(t, IF state[target[t]] # "runnable" THEN "held" ELSE "raised", target[t])

PollSuspended(t) ==
    /\ target[t] \in list_
    /\ request[t] = "raised"
    /\ SetRequest(t, IF IsSuspended(target[t]) THEN "held" ELSE "raised", target[t])
    /\ UNCHANGED <<suspend_count, flags>>

\* The target has not suspended in time; nobody is told that its count fell.
TimeOut(t) ==
    /\ target[t] \in list_
    /\ request[t] = "raised"
    /\ ~IsSuspended(target[t])
    /\ ModifySuspendCount({target[t]}, -1)
    /\ SetRequest(t, "none", NoThread)

SuspendThreadStep(t) ==
    /\ InSuspendThread(t)
    /\ LockFree
    /\ Goto(t, "run", "r_cas")
    /\ NotFound(t) \/ GiveWay(t) \/ RaiseCount(t) \/ PollSuspended(t) \/ TimeOut(t)
    /\ UNCHANGED <<state, mutator_readers, mutator_writer, thread_suspend_count_lock_,
                   resume_waiters, list_, suspend_all_count_, calls>>

\* After ThreadSuspendSleep the loop starts again.
SuspendThreadAgain(t) ==
    /\ InSuspendThread(t)
    /\ TransitionFromSuspendedToRunnable(t)
    /\ UNCHANGED listVars

\* The count falls in one critical section, the broadcast is in the next.
Resume(t) ==
    /\ request[t] = "held"
    /\ LockFree
    /\ Goto(t, "run", "resumed_run") \/ Goto(t, "out", "resumed_out")
    /\ ModifySuspendCount({target[t]}, -1)
    /\ SetRequest(t, "none", NoThread)
    /\ UNCHANGED <<state, mutator_readers, mutator_writer, thread_suspend_count_lock_,
                   resume_waiters, list_, suspend_all_count_, calls>>

ResumeWake(t) ==
    /\ LockFree
    /\ Goto(t, "resumed_run", "run") \/ Goto(t, "resumed_out", "out")
    /\ BroadcastResume
    /\ UNCHANGED <<state, flags, suspend_count, mutator_readers, mutator_writer,
                   thread_suspend_count_lock_, listVars>>

-----------------------------------------------------------------------------
\* A thread that is not suspending another runs, stops running, detaches, ...
FreeCall(t) ==
    /\ ~InSuspendThread(t)
    /\ TransitionCall(t)
    /\ UNCHANGED listVars

InternalStep(t) ==
    \/ TransitionStep(t) /\ UNCHANGED listVars
    \/ RemoveFromList(t) \/ LockMutator(t) \/ ResumeAll(t) \/ ResumeAllWake(t)
    \/ SuspendThreadStep(t) \/ SuspendThreadAgain(t) \/ Resume(t) \/ ResumeWake(t)

Next ==
    \E t \in Thread :
        \/ InternalStep(t)
        \/ SpuriousWakeup(t) /\ UNCHANGED listVars
        \/ FreeCall(t) \/ Register(t) \/ Unregister(t) \/ SuspendAll(t)
        \/ \E u \in Thread : SuspendThread(t, u)

Spec == Init /\ [][Next]_threadListVars
-----------------------------------------------------------------------------
\* Between SuspendAll and ResumeAll every other attached thread is suspended,
\* also one that attached meanwhile: what AssertThreadsAreSuspended checks.
StopTheWorld ==
    \A t \in Thread : pc[t] = "stopped" => \A u \in list_ \ {t} : IsSuspended(u)

StoppingTheWorld(u) == pc[u] \in {"suspend_all", "stopped", "resume_all"}
Suspending(u, t) == target[u] = t /\ request[u] \in {"raised", "held"}

\* The suspend count of an attached thread is the number of suspensions asked
\* for and not yet undone, so ResumeAll, Resume and a time-out never lower a
\* count that somebody else raised, or one that is zero.
CountsBalanced ==
    \A t \in list_ : suspend_count[t] = Cardinality({u \in Thread \ {t} : StoppingTheWorld(u)})
                                        + Cardinality({u \in Thread : Suspending(u, t)})

\* A thread whose count SuspendThreadByThreadId has raised stays in the list
\* (the CHECK on suspended_thread), and what the call returned is suspended
\* until it is resumed (the DCHECK in Resume).
TargetStays ==
    \A t \in Thread :
        /\ request[t] \in {"raised", "held"} => target[t] \in list_
        /\ request[t] = "held" => IsSuspended(target[t])

\* Threads never suspend one another in a cycle, whatever their number: in
\* every set of threads one is not being suspended from within the set.  This
\* is why SuspendThreadByThreadId gives way when its own count is raised.
NoSuspendCycle ==
    \A S \in SUBSET Thread :
        S # {} => \E t \in S : \A u \in S : ~Suspending(u, t)

\* A thread asleep on resume_cond_ is still asked to suspend, or the broadcast
\* that will wake it is due: neither the gap between the two critical sections
\* of Resume nor the time-out without a broadcast loses a wake-up.
ResumeNotLost ==
    \A t \in resume_waiters :
        \/ "kSuspendRequest" \in flags[t]
        \/ \E u \in Thread : pc[u] \in {"resumed_run", "resumed_out"}

\* Where a thread is in the code, its state word and the holders of
\* mutator_lock_ agree.
StateAt ==
    LET RunnablePC == {"run", "r_cas", "r_checkpoint", "resumed_run"}
    IN  \A t \in Thread :
            /\ state[t] = "runnable" <=> pc[t] \in RunnablePC
            /\ t \in mutator_readers <=> pc[t] \in RunnablePC \cup {"r_unlock", "s_cas", "s_back"}
            /\ mutator_writer = t <=> pc[t] = "stopped"
            /\ t \in list_ <=> pc[t] # "unattached"
            /\ t \in resume_waiters => pc[t] = "s_asleep"

\* Who is counted where: Register relies on suspend_all_count_ being the number
\* of SuspendAll calls under way, and nobody suspends itself.
RequestsCounted ==
    /\ suspend_all_count_ = Cardinality({u \in Thread : StoppingTheWorld(u)})
    /\ \A t \in Thread : request[t] # "none" => target[t] \in Thread \ {t}

\* The inductive invariant: types, the agreement of program counters with the
\* state words, the locks and the counts, and the properties above.
Inv ==
    /\ TypeOK /\ StateAt /\ MutatorLockExclusion /\ FlagFollowsCount
    /\ RequestsCounted /\ CountsBalanced /\ TargetStays /\ NoSuspendCycle /\ ResumeNotLost

\* "We ensure only one thread is requesting another suspend" (comment in
\* SuspendThreadByThreadId).  The lock it names does not exist.
OneSuspender ==
    \A t, u \in Thread : request[t] = "raised" /\ request[u] = "raised" => t = u

=============================================================================
