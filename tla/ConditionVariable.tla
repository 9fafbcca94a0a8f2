------------------------- MODULE ConditionVariable -------------------------
(***************************************************************************)
(* class ConditionVariable of runtime/base/mutex.{h,cc}, the               *)
(* ART_USE_FUTEXES build, composed with the Mutex it guards (guard_).      *)
(*                                                                         *)
(* A waiter sleeps on the futex word sequence_; Signal wakes one sleeper,  *)
(* Broadcast moves all of them to the futex word of the mutex, where the   *)
(* unlocks wake them one by one.  A waiter keeps the mutex's contender     *)
(* count raised for the whole wait so that those unlocks look for it.      *)
(***************************************************************************)
EXTENDS Mutex

CONSTANTS
    Waiter,        \* the threads that wait
    Signaller,     \* the threads that call Signal and Broadcast
    MaxSequence    \* bound on the number of signals and broadcasts

ASSUME SequenceAssumption ==
    Waiter \subseteq Thread /\ Signaller \subseteq Thread /\ MaxSequence \in Nat

VARIABLES
    sequence_,     \* the futex word, incremented by Signal and Broadcast
    num_waiters_,  \* the threads inside Wait and TimedWait
    cvpc,          \* where each thread is in the condition variable's code
    cur_sequence,  \* sequence_ as read by the waiter; 0 outside its scope
    old_recursion_count, \* guard_.recursion_count_ as saved by the waiter; 0 likewise
    cvq,           \* kernel: the threads asleep on sequence_
    snapshot       \* history: the threads waiting when the running Signal or Broadcast began

cvVars == <<sequence_, num_waiters_, cvpc, cur_sequence, old_recursion_count,
            cvq, snapshot>>
vars == <<mutexVars, cvVars>>

\* "unlocking": registered, releasing guard_ before FUTEX_WAIT; "asleep": in
\* FUTEX_WAIT; "locking": back from it and reacquiring guard_.
CVPC == {"none", "unlocking", "asleep", "locking", "signal", "broadcast"}

CVInit ==
    /\ Init
    /\ sequence_ = 0
    /\ num_waiters_ = 0
    /\ cvpc = [t \in Thread |-> "none"]
    /\ cur_sequence = [t \in Thread |-> 0]
    /\ old_recursion_count = [t \in Thread |-> 0]
    /\ cvq = {}
    /\ snapshot = {}

CVGoto(t, from, to) == cvpc[t] = from /\ cvpc' = [cvpc EXCEPT ![t] = to]

\* The threads a signal is meant for: asleep on sequence_, or still on their
\* way into FUTEX_WAIT with a value of sequence_ that makes them sleep.
Waiting == cvq \cup {t \in Thread : cvpc[t] = "unlocking" /\ cur_sequence[t] = sequence_}

-----------------------------------------------------------------------------
\* Mutant of WaitHoldingLocks: the waiter is not counted as a contender.
WaitUncontended(t) ==
    /\ t \in Waiter
    /\ pc[t] = "in"
    /\ CVGoto(t, "none", "unlocking")
    /\ old_recursion_count' = [old_recursion_count EXCEPT ![t] = recursion_count_]
    /\ cur_sequence' = [cur_sequence EXCEPT ![t] = sequence_]
    /\ num_waiters_' = num_waiters_ + 1
    /\ recursion_count_' = 0
    /\ Goto(t, "in", "clear")
    /\ UNCHANGED <<state_, exclusive_owner_, num_contenders_, futexq, sequence_, cvq, snapshot>>

\* WaitHoldingLocks and TimedWait up to the call of guard_.ExclusiveUnlock,
\* whose recursion_count_-- is included.  The fields are guarded by guard_.
WaitHoldingLocks(t) ==
    /\ t \in Waiter
    /\ pc[t] = "in"
    /\ CVGoto(t, "none", "unlocking")
    /\ old_recursion_count' = [old_recursion_count EXCEPT ![t] = recursion_count_]
    /\ cur_sequence' = [cur_sequence EXCEPT ![t] = sequence_]
    /\ num_waiters_' = num_waiters_ + 1
    /\ num_contenders_' = num_contenders_ + 1
    /\ recursion_count_' = 1 - 1
    /\ Goto(t, "in", "clear")
    /\ UNCHANGED <<state_, exclusive_owner_, futexq, sequence_, cvq, snapshot>>

\* FUTEX_WAIT(cur_sequence) once guard_.ExclusiveUnlock has returned.
CVFutexWait(t) ==
    /\ pc[t] = "out"
    /\ cur_sequence[t] = sequence_
    /\ CVGoto(t, "unlocking", "asleep")
    /\ cvq' = cvq \cup {t}
    /\ UNCHANGED <<mutexVars, sequence_, num_waiters_, cur_sequence,
                   old_recursion_count, snapshot>>

\* Back from FUTEX_WAIT, the waiter calls guard_.ExclusiveLock.
Relock(t, from) ==
    /\ CVGoto(t, from, "locking")
    /\ Goto(t, "out", "load")
    /\ cur_sequence' = [cur_sequence EXCEPT ![t] = 0]
    /\ UNCHANGED <<state_, exclusive_owner_, num_contenders_, recursion_count_, sequence_,
                   num_waiters_, old_recursion_count, snapshot>>

\* EAGAIN: sequence_ has changed since it was read.
WaitAgain(t) ==
    /\ cur_sequence[t] # sequence_
    /\ Relock(t, "unlocking")
    /\ UNCHANGED <<futexq, cvq>>

\* Dequeued by Signal, or requeued by Broadcast and dequeued by an unlock.
WaitWoken(t) ==
    /\ t \notin cvq \cup futexq
    /\ Relock(t, "asleep")
    /\ UNCHANGED <<futexq, cvq>>

\* EINTR, or the timeout of a TimedWait: the kernel takes the thread off
\* whichever queue it is on.
WaitBroken(t) ==
    /\ t \in cvq \cup futexq
    /\ Relock(t, "asleep")
    /\ futexq' = futexq \ {t}
    /\ cvq' = cvq \ {t}

\* Mutant of WaitReturns: the recursion count is not restored.
WaitReturnsOnce(t) ==
    /\ pc[t] = "in"
    /\ CVGoto(t, "locking", "none")
    /\ num_waiters_' = num_waiters_ - 1
    /\ num_contenders_' = num_contenders_ - 1
    /\ old_recursion_count' = [old_recursion_count EXCEPT ![t] = 0]
    /\ UNCHANGED <<state_, exclusive_owner_, recursion_count_, pc, futexq, sequence_,
                   cur_sequence, cvq, snapshot>>

\* The end of the wait, holding guard_ again.
WaitReturns(t) ==
    /\ pc[t] = "in"
    /\ CVGoto(t, "locking", "none")
    /\ num_waiters_' = num_waiters_ - 1
    /\ num_contenders_' = num_contenders_ - 1
    /\ recursion_count_' = old_recursion_count[t]
    /\ old_recursion_count' = [old_recursion_count EXCEPT ![t] = 0]
    /\ UNCHANGED <<state_, exclusive_owner_, pc, futexq, sequence_, cur_sequence, cvq,
                   snapshot>>

\* Mutant of NextSequence: the wake-up is sent without changing sequence_.
SameSequence(t, op) ==
    /\ t \in Signaller
    /\ pc[t] = "in"
    /\ num_waiters_ > 0
    /\ CVGoto(t, "none", op)
    /\ snapshot' = Waiting
    /\ UNCHANGED <<mutexVars, sequence_, num_waiters_, cur_sequence, old_recursion_count, cvq>>

\* sequence_++ of Signal and Broadcast; without a waiter both do nothing.
NextSequence(t, op) ==
    /\ t \in Signaller
    /\ pc[t] = "in"
    /\ num_waiters_ > 0
    /\ sequence_ < MaxSequence
    /\ CVGoto(t, "none", op)
    /\ snapshot' = Waiting
    /\ sequence_' = sequence_ + 1
    /\ UNCHANGED <<mutexVars, num_waiters_, cur_sequence, old_recursion_count, cvq>>

\* FUTEX_WAKE 1 of Signal.
SignalWake(t) ==
    /\ CVGoto(t, "signal", "none")
    /\ \/ cvq = {} /\ UNCHANGED cvq
       \/ \E u \in cvq : cvq' = cvq \ {u}
    /\ snapshot' = {}
    /\ UNCHANGED <<mutexVars, sequence_, num_waiters_, cur_sequence, old_recursion_count>>

\* FUTEX_CMP_REQUEUE of Broadcast.  guard_ is held, so sequence_ is the value
\* just read and the EAGAIN retry of the loop does not happen.
BroadcastRequeue(t) ==
    /\ CVGoto(t, "broadcast", "none")
    /\ cvq' = {}
    /\ futexq' = futexq \cup cvq
    /\ snapshot' = {}
    /\ UNCHANGED <<state_, exclusive_owner_, num_contenders_, recursion_count_, pc, sequence_,
                   num_waiters_, cur_sequence, old_recursion_count>>

-----------------------------------------------------------------------------
CVStep(t) ==
    \/ CVFutexWait(t) \/ WaitAgain(t) \/ WaitWoken(t) \/ WaitReturns(t)
    \/ SignalWake(t) \/ BroadcastRequeue(t)

MutexStep(t) ==
    /\ \/ cvpc[t] = "none" /\ Call(t)
       \/ LockStep(t) \/ FutexInterrupted(t) \/ UnlockStep(t)
    /\ UNCHANGED cvVars

CVNext == \E t \in Thread :
    \/ MutexStep(t) \/ CVStep(t) \/ WaitHoldingLocks(t) \/ WaitBroken(t)
    \/ NextSequence(t, "signal") \/ NextSequence(t, "broadcast")

CVSpec == CVInit /\ [][CVNext]_vars

-----------------------------------------------------------------------------
\* A Signal that returns has released at least one of the threads that were
\* waiting when it began, including one that had unlocked guard_ but had not
\* reached FUTEX_WAIT yet; a Broadcast has released all of them.
SignalsDelivered ==
    [][\A t \in Thread :
         /\ cvpc[t] = "signal" /\ cvpc'[t] = "none" /\ snapshot # {}
              => \E u \in snapshot : u \notin Waiting'
         /\ cvpc[t] = "broadcast" /\ cvpc'[t] = "none"
              => snapshot \cap Waiting' = {}]_vars

\* A released waiter does not go back to sleep on sequence_: it returns from
\* the wait, holding guard_ with the recursion count it had.
WaitReturnsHolding ==
    [][\A t \in Thread :
         /\ cvpc[t] \in {"unlocking", "asleep"} /\ t \notin Waiting => t \notin Waiting'
         /\ cvpc[t] = "locking" /\ cvpc'[t] = "none"
              => /\ exclusive_owner_' = t /\ state_' = 1
                 /\ recursion_count_' = old_recursion_count[t]]_vars

\* Scheduling: a thread inside an operation of the mutex or of the condition
\* variable keeps running, a lock holder unlocks in the end, and a weak
\* compare-exchange that is retried for ever on the value it expects succeeds
\* in the end.  Nothing is assumed about EINTR and timeouts.
CVFairness ==
    \A t \in Thread :
        /\ WF_vars(CVStep(t) \/ (MutexStep(t) /\ ~FutexInterrupted(t) /\ pc[t] # "out"))
        /\ SF_vars(MutexStep(t) /\ (LastUnlock(t) \/ CompareExchangeSucceeds(t)))

CVFairSpec == CVSpec /\ CVFairness

\* A Broadcast is never stranded: once waiters have been requeued onto the
\* mutex, the unlocks of guard_ keep handing it over.
RequeuedProgress == (futexq # {}) ~> (\E t \in Thread : pc[t] = "acquired")
=============================================================================
