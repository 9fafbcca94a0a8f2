------------------------- MODULE ReaderWriterMutex -------------------------
(***************************************************************************)
(* class ReaderWriterMutex of runtime/base/mutex.{h,cc} and mutex-inl.h,   *)
(* the ART_USE_FUTEXES build (Locks::mutator_lock_ is one).                *)
(*                                                                         *)
(* state_ is -1 when held exclusively, n >= 0 when held by n readers; it   *)
(* is also the futex word.  num_pending_readers_ and num_pending_writers_  *)
(* tell an unlock whether somebody may be asleep; a wake-up wakes all.     *)
(* Every access to the four fields is a step of its own.  Memory is        *)
(* sequentially consistent.                                                *)
(***************************************************************************)
EXTENDS Integers, FiniteSets

CONSTANTS
    Thread,     \* the threads that use the lock
    NoThread    \* tid 0: no owner

ASSUME ThreadAssumption == IsFiniteSet(Thread) /\ NoThread \notin Thread

VARIABLES
    state_,                \* the futex word
    exclusive_owner_,      \* the tid of the writer, or NoThread
    num_pending_readers_,  \* threads that wait for a share
    num_pending_writers_,  \* threads that wait to be the writer
    pc,                    \* where each thread is in the code
    cur_state,             \* each thread's local copy of state_; 0 outside its scope
    timed,                 \* the threads inside ExclusiveLockWithTimeout
    futexq,                \* kernel: the threads asleep on state_
    aborted                \* LOG(FATAL) has ended the process

vars == <<state_, exclusive_owner_, num_pending_readers_, num_pending_writers_, pc,
          cur_state, timed, futexq, aborted>>

\* "out" and "shared" and "exclusive": in no operation, holding nothing, a
\* share, the lock.  Prefix s_: SharedLock, st_: SharedTryLock, su_:
\* SharedUnlock, x_: ExclusiveLock, xu_: ExclusiveUnlock.  chk_: about to load
\* the pending counts, chk_rw readers first, chk_w writers only, and so on.
SharedPending == {"s_wait", "s_asleep", "s_woken"}
ExclusivePending == {"x_wait", "x_asleep", "x_woken", "x_timedout"}
SharedOwning == {"shared", "su_load", "su_cas"}
ExclusiveOwning == {"x_acquired", "exclusive", "xu_clear", "xu_cas"}
PC == {"out", "s_load", "s_cas", "s_count", "st_load", "st_cas", "x_load", "x_cas",
       "x_count", "chk_rw", "chk_wr", "chk_r", "chk_w", "wake"}
      \cup SharedPending \cup ExclusivePending \cup SharedOwning \cup ExclusiveOwning

TypeOK ==
    /\ state_ \in Int
    /\ exclusive_owner_ \in Thread \cup {NoThread}
    /\ num_pending_readers_ \in Int
    /\ num_pending_writers_ \in Int
    /\ pc \in [Thread -> PC]
    /\ cur_state \in [Thread -> Int]
    /\ timed \in SUBSET Thread
    /\ futexq \in SUBSET Thread
    /\ aborted \in BOOLEAN

Init ==
    /\ state_ = 0
    /\ exclusive_owner_ = NoThread
    /\ num_pending_readers_ = 0
    /\ num_pending_writers_ = 0
    /\ pc = [t \in Thread |-> "out"]
    /\ cur_state = [t \in Thread |-> 0]
    /\ timed = {}
    /\ futexq = {}
    /\ aborted = FALSE

\* Every step of a thread of a live process moves its program counter.
Goto(t, from, to) == ~aborted /\ pc[t] = from /\ pc' = [pc EXCEPT ![t] = to]
SetCur(t, v) == cur_state' = [cur_state EXCEPT ![t] = v]

pendingVars == <<num_pending_readers_, num_pending_writers_>>

\* A step that only moves t and sets its local copy of state_.
Local(t, from, to, v) ==
    /\ Goto(t, from, to)
    /\ SetCur(t, v)
    /\ UNCHANGED <<state_, exclusive_owner_, pendingVars, timed, futexq, aborted>>

\* The compare-exchange of cur_state with new: it fails, perhaps spuriously,
\* or succeeds and moves the thread on.
Cas(t, from, failed, done, new) ==
    /\ \/ state_ = cur_state[t] /\ state_' = new /\ Goto(t, from, done)
       \/ Goto(t, from, failed) /\ UNCHANGED state_
    /\ SetCur(t, 0)
    /\ UNCHANGED <<exclusive_owner_, pendingVars, timed, futexq, aborted>>

\* FUTEX_WAIT(cur_state): sleep if the word is unchanged, else EAGAIN.
FutexWait(t, from, asleep, woken) ==
    /\ \/ state_ = cur_state[t] /\ Goto(t, from, asleep) /\ futexq' = futexq \cup {t}
       \/ state_ # cur_state[t] /\ Goto(t, from, woken) /\ UNCHANGED futexq
    /\ SetCur(t, 0)
    /\ UNCHANGED <<state_, exclusive_owner_, pendingVars, timed, aborted>>

\* The system call returns to a thread that a waker has dequeued.
FutexReturn(t, asleep, woken) ==
    /\ t \notin futexq
    /\ Goto(t, asleep, woken)
    /\ UNCHANGED <<state_, exclusive_owner_, pendingVars, cur_state, timed, futexq, aborted>>

(***************************************************************************)
(* SharedLock and SharedTryLock                                            *)
(***************************************************************************)
SharedLock(t) == Local(t, "out", "s_load", 0)

SharedLoad(t) == Local(t, "s_load", IF state_ >= 0 THEN "s_cas" ELSE "s_count", state_)

SharedCas(t) == Cas(t, "s_cas", "s_load", "shared", cur_state[t] + 1)

SharedCount(t) ==
    /\ Goto(t, "s_count", "s_wait")
    /\ num_pending_readers_' = num_pending_readers_ + 1
    /\ UNCHANGED <<state_, exclusive_owner_, num_pending_writers_, cur_state, timed, futexq,
                   aborted>>

SharedFutexWait(t) == FutexWait(t, "s_wait", "s_asleep", "s_woken")

SharedFutexReturn(t) == FutexReturn(t, "s_asleep", "s_woken")

\* EINTR is not EAGAIN: PLOG(FATAL).
SharedInterrupted(t) ==
    /\ ~aborted /\ pc[t] = "s_asleep" /\ t \in futexq
    /\ aborted' = TRUE
    /\ UNCHANGED <<state_, exclusive_owner_, pendingVars, pc, cur_state, timed, futexq>>

SharedUncount(t) ==
    /\ Goto(t, "s_woken", "s_load")
    /\ num_pending_readers_' = num_pending_readers_ - 1
    /\ UNCHANGED <<state_, exclusive_owner_, num_pending_writers_, cur_state, timed, futexq,
                   aborted>>

SharedTryLock(t) == Local(t, "out", "st_load", 0)

\* Held exclusively: the operation returns false.
SharedTryLoad(t) ==
    \/ state_ >= 0 /\ Local(t, "st_load", "st_cas", state_)
    \/ state_ < 0 /\ Local(t, "st_load", "out", 0)

SharedTryCas(t) == Cas(t, "st_cas", "st_load", "shared", cur_state[t] + 1)

(***************************************************************************)
(* SharedUnlock                                                            *)
(***************************************************************************)
SharedUnlock(t) == Local(t, "shared", "su_load", 0)

\* cur_state > 0, or else LOG(FATAL): see SharesCounted.
SharedUnlockLoad(t) == state_ > 0 /\ Local(t, "su_load", "su_cas", state_)

\* Only the reader that leaves the lock free looks for sleepers.
SharedUnlockCas(t) ==
    Cas(t, "su_cas", "su_load", IF cur_state[t] - 1 = 0 THEN "chk_wr" ELSE "out",
        cur_state[t] - 1)

(***************************************************************************)
(* ExclusiveLock and ExclusiveLockWithTimeout                              *)
(***************************************************************************)
ExclusiveLock(t, withTimeout) ==
    /\ Goto(t, "out", "x_load")
    /\ timed' = IF withTimeout THEN timed \cup {t} ELSE timed
    /\ UNCHANGED <<state_, exclusive_owner_, pendingVars, cur_state, futexq, aborted>>

ExclusiveLoad(t) == Local(t, "x_load", IF state_ = 0 THEN "x_cas" ELSE "x_count", state_)

ExclusiveCas(t) == Cas(t, "x_cas", "x_load", "x_acquired", -1)

ExclusiveCount(t) ==
    /\ Goto(t, "x_count", "x_wait")
    /\ num_pending_writers_' = num_pending_writers_ + 1
    /\ UNCHANGED <<state_, exclusive_owner_, num_pending_readers_, cur_state, timed, futexq,
                   aborted>>

ExclusiveFutexWait(t) == FutexWait(t, "x_wait", "x_asleep", "x_woken")

ExclusiveFutexReturn(t) == FutexReturn(t, "x_asleep", "x_woken")

\* EINTR, which is retried, or ETIMEDOUT.
ExclusiveBroken(t) ==
    /\ t \in futexq
    /\ \/ Goto(t, "x_asleep", "x_woken")
       \/ t \in timed /\ Goto(t, "x_asleep", "x_timedout")
    /\ futexq' = futexq \ {t}
    /\ UNCHANGED <<state_, exclusive_owner_, pendingVars, cur_state, timed, aborted>>

\* --num_pending_writers_, then try again or return false.
ExclusiveUncount(t) ==
    /\ \/ Goto(t, "x_woken", "x_load") /\ UNCHANGED timed
       \/ Goto(t, "x_timedout", "out") /\ timed' = timed \ {t}
    /\ num_pending_writers_' = num_pending_writers_ - 1
    /\ UNCHANGED <<state_, exclusive_owner_, num_pending_readers_, cur_state, futexq, aborted>>

\* The deadline has passed before the thread went to sleep: return false.
ExclusiveTooLate(t) ==
    /\ t \in timed
    /\ Goto(t, "x_count", "out")
    /\ timed' = timed \ {t}
    /\ SetCur(t, 0)
    /\ UNCHANGED <<state_, exclusive_owner_, pendingVars, futexq, aborted>>

BecomeOwner(t) ==
    /\ Goto(t, "x_acquired", "exclusive")
    /\ exclusive_owner_' = t
    /\ timed' = timed \ {t}
    /\ UNCHANGED <<state_, pendingVars, cur_state, futexq, aborted>>

(***************************************************************************)
(* ExclusiveUnlock, and the wake-up of both unlocks                        *)
(***************************************************************************)
ExclusiveUnlock(t) == Local(t, "exclusive", "xu_clear", 0)

\* cur_state = -1, or else LOG(FATAL): see SharesCounted.
ClearOwner(t) ==
    /\ state_ = -1
    /\ Goto(t, "xu_clear", "xu_cas")
    /\ SetCur(t, -1)
    /\ exclusive_owner_' = NoThread
    /\ UNCHANGED <<state_, pendingVars, timed, futexq, aborted>>

\* Mutant of ExclusiveUnlockCas: the writer keeps a share.
Downgrade(t) == Cas(t, "xu_cas", "xu_clear", "shared", 1)

ExclusiveUnlockCas(t) == Cas(t, "xu_cas", "xu_clear", "chk_rw", 0)

\* Mutant of CheckPending: after a writer only the readers are looked at.
CheckReaders(t) ==
    LET R == num_pending_readers_ > 0
        W == num_pending_writers_ > 0
    IN  \/ Local(t, "chk_rw", IF R THEN "wake" ELSE "out", 0)
        \/ Local(t, "chk_wr", IF W THEN "wake" ELSE "chk_r", 0)
        \/ Local(t, "chk_r", IF R THEN "wake" ELSE "out", 0)

\* Two relaxed loads, the second only when the first found nobody.
CheckPending(t) ==
    LET R == num_pending_readers_ > 0
        W == num_pending_writers_ > 0
    IN  \/ Local(t, "chk_rw", IF R THEN "wake" ELSE "chk_w", 0)
        \/ Local(t, "chk_wr", IF W THEN "wake" ELSE "chk_r", 0)
        \/ Local(t, "chk_r", IF R THEN "wake" ELSE "out", 0)
        \/ Local(t, "chk_w", IF W THEN "wake" ELSE "out", 0)

\* FUTEX_WAKE(-1), "wake any waiters".  What a negative count means is up to
\* the kernel (Linux compares as integers and stops after the first sleeper):
\* any sleepers are woken, and at least one if there is one.
WakeAll(t) ==
    /\ Goto(t, "wake", "out")
    /\ futexq' \in {S \in SUBSET futexq : S = futexq => futexq = {}}
    /\ UNCHANGED <<state_, exclusive_owner_, pendingVars, cur_state, timed, aborted>>

-----------------------------------------------------------------------------
LockStep(t) ==
    \/ SharedLoad(t) \/ SharedCas(t) \/ SharedCount(t) \/ SharedFutexWait(t)
    \/ SharedFutexReturn(t) \/ SharedUncount(t) \/ SharedTryLoad(t) \/ SharedTryCas(t)
    \/ ExclusiveLoad(t) \/ ExclusiveCas(t) \/ ExclusiveCount(t) \/ ExclusiveFutexWait(t)
    \/ ExclusiveFutexReturn(t) \/ ExclusiveUncount(t) \/ BecomeOwner(t)

UnlockStep(t) ==
    \/ SharedUnlockLoad(t) \/ SharedUnlockCas(t) \/ ClearOwner(t) \/ ExclusiveUnlockCas(t)
    \/ CheckPending(t) \/ WakeAll(t)

Unlock(t) == SharedUnlock(t) \/ ExclusiveUnlock(t)

Call(t) ==
    \/ SharedLock(t) \/ SharedTryLock(t) \/ Unlock(t)
    \/ \E withTimeout \in BOOLEAN : ExclusiveLock(t, withTimeout)

Next == \E t \in Thread :
    \/ Call(t) \/ LockStep(t) \/ UnlockStep(t)
    \/ SharedInterrupted(t) \/ ExclusiveBroken(t) \/ ExclusiveTooLate(t)

Spec == Init /\ [][Next]_vars

-----------------------------------------------------------------------------
Readers == {t \in Thread : pc[t] \in SharedOwning}
Writers == {t \in Thread : pc[t] \in ExclusiveOwning}

\* A writer excludes every other writer and every reader (mutex.h:277-281).
Exclusion ==
    /\ \A t, u \in Writers : t = u
    /\ Writers # {} => Readers = {}

\* state_ is the number of shares while nobody writes and -1 while somebody
\* does, so that neither unlock loop reaches its LOG(FATAL).
SharesCounted ==
    /\ state_ = -1 <=> Writers # {}
    /\ state_ # -1 => state_ = Cardinality(Readers)

\* exclusive_owner_ names a thread only while that thread is the writer.
OwnerFaithful ==
    /\ \A t \in Thread : exclusive_owner_ = t => pc[t] \in {"exclusive", "xu_clear"}
    /\ \A t \in Thread : pc[t] = "exclusive" => exclusive_owner_ = t

\* The pending counts are exact, also after EAGAIN, EINTR and time-outs.
PendingCounted ==
    /\ num_pending_readers_ = Cardinality({t \in Thread : pc[t] \in SharedPending})
    /\ num_pending_writers_ = Cardinality({t \in Thread : pc[t] \in ExclusivePending})

\* No lost wake-up: when a thread sleeps and the lock is free, the thread that
\* released it has not finished looking for sleepers of that kind, or somebody
\* else is awake who will take the lock and look for sleepers when it is
\* released.  The pending counts are raised before FUTEX_WAIT and read after
\* the releasing compare-exchange (mutex.cc:505, 545; mutex-inl.h:163, 196).
Attends(u, t) ==
    \/ pc[u] \in {"chk_rw", "chk_wr", "wake", "s_load", "s_cas", "s_woken", "x_load", "x_cas",
                  "x_woken"}
    \/ pc[u] = "chk_r" /\ pc[t] = "s_asleep"
    \/ pc[u] = "chk_w" /\ pc[t] = "x_asleep"
    \/ pc[u] \in {"s_asleep", "x_asleep"} /\ u \notin futexq

NoLostWakeup ==
    state_ = 0 => \A t \in futexq : \E u \in Thread : Attends(u, t)

\* What the local copies of state_ can be where they are used.
LocalCopies ==
    \A t \in Thread :
        /\ pc[t] \in {"s_cas", "st_cas"} => cur_state[t] >= 0
        /\ pc[t] = "su_cas" => cur_state[t] > 0
        /\ pc[t] = "x_cas" => cur_state[t] = 0
        /\ pc[t] = "xu_cas" => cur_state[t] = -1
        /\ pc[t] \in {"s_count", "s_wait", "x_count", "x_wait"} => cur_state[t] # 0

\* What exclusive_owner_ holds at each point of the writer's code, and when
\* there is no writer.
Ownership ==
    /\ \A t \in Thread : pc[t] \in {"x_acquired", "xu_cas"} => exclusive_owner_ = NoThread
    /\ \A t \in Thread : pc[t] = "exclusive" => exclusive_owner_ = t
    /\ \A t \in Thread : pc[t] = "xu_clear" => exclusive_owner_ \in {t, NoThread}
    /\ state_ # -1 => exclusive_owner_ = NoThread

\* Only a thread inside FUTEX_WAIT is asleep.
SleepersWait == \A t \in futexq : pc[t] \in {"s_asleep", "x_asleep"}

\* The inductive invariant: types, exclusion, exact counts of shares and of
\* pending threads, the owner on record, who sleeps where, no lost wake-up.
Inv ==
    /\ TypeOK /\ LocalCopies /\ Exclusion /\ SharesCounted /\ Ownership
    /\ PendingCounted /\ SleepersWait /\ NoLostWakeup

\* The lock implements the abstract readers-writer lock.
Writer == IF Writers # {} THEN CHOOSE t \in Thread : t \in Writers ELSE NoThread

Abstract == INSTANCE AbstractRWLock WITH writer <- Writer, readers <- Readers

ImplementsRWLock == Abstract!Spec

\* Scheduling: threads inside an operation keep running, holders unlock in the
\* end, a weak compare-exchange retried for ever succeeds in the end.
CompareExchangeSucceeds(t) ==
    /\ \/ SharedCas(t) \/ SharedTryCas(t) \/ ExclusiveCas(t)
       \/ SharedUnlockCas(t) \/ ExclusiveUnlockCas(t)
    /\ state_' # state_

Fairness ==
    \A t \in Thread :
        /\ WF_vars(LockStep(t) \/ UnlockStep(t) \/ Unlock(t))
        /\ SF_vars(CompareExchangeSucceeds(t))

FairSpec == Spec /\ Fairness

\* Progress: while a thread without a time-out waits for the lock, the lock is
\* not left idle: it is acquired, by this thread or another, unless the process
\* aborts.
Progress ==
    (\E t \in Thread \ timed : pc[t] \in SharedPending \cup ExclusivePending)
      ~> aborted \/ \E u \in Thread : pc[u] \in {"shared", "x_acquired"}

\* No operation ends in LOG(FATAL): "EAGAIN and EINTR both indicate a spurious
\* failure, try again from the beginning" (mutex.cc:507, for FUTEX_WAIT).
InterruptIsRetried == ~aborted
=============================================================================
