------------------------------- MODULE Mutex -------------------------------
(***************************************************************************)
(* class Mutex of runtime/base/mutex.{h,cc}, the ART_USE_FUTEXES build.    *)
(*                                                                         *)
(* The lock is split over three fields: state_ (the futex word, 0 free, 1  *)
(* held), exclusive_owner_ (the owner's tid) and num_contenders_ (threads  *)
(* that may have to be woken).  Every read, write and system call of the   *)
(* lock and unlock paths is a step of its own, so all interleavings of the *)
(* three fields are explored.  Memory is sequentially consistent.          *)
(***************************************************************************)
EXTENDS Integers, FiniteSets

CONSTANTS
    Thread,        \* the threads that use the mutex
    NoThread,      \* tid 0: no owner
    Recursive,     \* recursive_: may the owner lock again?
    MaxRecursion   \* bound on recursion_count_, for a recursive mutex

ASSUME ThreadAssumption == IsFiniteSet(Thread) /\ NoThread \notin Thread
ASSUME RecursionAssumption == Recursive \in BOOLEAN /\ MaxRecursion \in Nat \ {0}

VARIABLES
    state_,            \* the futex word
    exclusive_owner_,  \* the tid of the owner, or NoThread
    num_contenders_,   \* threads that unlock may have to wake
    recursion_count_,  \* how often the owner holds the lock
    pc,                \* where each thread is in the lock and unlock code
    futexq             \* kernel: the threads asleep on state_

mutexVars == <<state_, exclusive_owner_, num_contenders_, recursion_count_, pc, futexq>>

\* pc of a thread: "out" does not hold the lock and is in no operation; "in"
\* holds it and is in no operation; the others are inside an operation.
PC == {"out", "load", "cas", "contend", "wait", "asleep", "woken", "acquired",
       "try_load", "try_cas", "in", "clear", "release", "check", "wake"}

\* The threads that own the futex word: their CAS 0 -> 1 has succeeded and
\* their CAS 1 -> 0 has not happened yet.
Owning == {"acquired", "in", "clear", "release"}

\* The threads counted in num_contenders_ by ExclusiveLock.
Contending == {"wait", "asleep", "woken"}

TypeOK ==
    /\ state_ \in {0, 1}
    /\ exclusive_owner_ \in Thread \cup {NoThread}
    /\ num_contenders_ \in Int
    /\ recursion_count_ \in Int
    /\ pc \in [Thread -> PC]
    /\ futexq \in SUBSET Thread

Init ==
    /\ state_ = 0
    /\ exclusive_owner_ = NoThread
    /\ num_contenders_ = 0
    /\ recursion_count_ = 0
    /\ pc = [t \in Thread |-> "out"]
    /\ futexq = {}

Goto(t, from, to) == pc[t] = from /\ pc' = [pc EXCEPT ![t] = to]

(***************************************************************************)
(* ExclusiveLock                                                           *)
(***************************************************************************)
\* IsExclusiveHeld(self) on a recursive mutex: only the count changes.
RelockHeld(t) ==
    /\ Recursive
    /\ pc[t] = "in"
    /\ exclusive_owner_ = t
    /\ recursion_count_ < MaxRecursion
    /\ recursion_count_' = recursion_count_ + 1
    /\ UNCHANGED <<state_, exclusive_owner_, num_contenders_, pc, futexq>>

ExclusiveLock(t) ==
    /\ Goto(t, "out", "load")
    /\ UNCHANGED <<state_, exclusive_owner_, num_contenders_, recursion_count_, futexq>>

LoadState(t) ==
    /\ Goto(t, "load", IF state_ = 0 THEN "cas" ELSE "contend")
    /\ UNCHANGED <<state_, exclusive_owner_, num_contenders_, recursion_count_, futexq>>

CasSucceeds(t) ==
    /\ state_ = 0
    /\ state_' = 1
    /\ Goto(t, "cas", "acquired")
    /\ UNCHANGED <<exclusive_owner_, num_contenders_, recursion_count_, futexq>>

\* Lost to another thread, or the spurious failure of a weak compare-exchange.
CasFails(t) ==
    /\ Goto(t, "cas", "load")
    /\ UNCHANGED <<state_, exclusive_owner_, num_contenders_, recursion_count_, futexq>>

CountContender(t) ==
    /\ Goto(t, "contend", "wait")
    /\ num_contenders_' = num_contenders_ + 1
    /\ UNCHANGED <<state_, exclusive_owner_, recursion_count_, futexq>>

\* FUTEX_WAIT(1): sleep if the word still is 1, else return EAGAIN.
FutexWait(t) ==
    /\ \/ state_ = 1 /\ Goto(t, "wait", "asleep") /\ futexq' = futexq \cup {t}
       \/ state_ # 1 /\ Goto(t, "wait", "woken") /\ UNCHANGED futexq
    /\ UNCHANGED <<state_, exclusive_owner_, num_contenders_, recursion_count_>>

\* The system call returns to a thread that a waker has dequeued.
FutexReturn(t) ==
    /\ t \notin futexq
    /\ Goto(t, "asleep", "woken")
    /\ UNCHANGED <<state_, exclusive_owner_, num_contenders_, recursion_count_, futexq>>

\* EINTR: a signal ends the sleep.
FutexInterrupted(t) ==
    /\ t \in futexq
    /\ Goto(t, "asleep", "woken")
    /\ futexq' = futexq \ {t}
    /\ UNCHANGED <<state_, exclusive_owner_, num_contenders_, recursion_count_>>

\* Mutant of UncountContender: the thread waits again without reloading state_.
ContendAgain(t) ==
    /\ Goto(t, "woken", "contend")
    /\ num_contenders_' = num_contenders_ - 1
    /\ UNCHANGED <<state_, exclusive_owner_, recursion_count_, futexq>>

UncountContender(t) ==
    /\ Goto(t, "woken", "load")
    /\ num_contenders_' = num_contenders_ - 1
    /\ UNCHANGED <<state_, exclusive_owner_, recursion_count_, futexq>>

\* exclusive_owner_ = tid; recursion_count_++.
BecomeOwner(t) ==
    /\ Goto(t, "acquired", "in")
    /\ exclusive_owner_' = t
    /\ recursion_count_' = recursion_count_ + 1
    /\ UNCHANGED <<state_, num_contenders_, futexq>>

(***************************************************************************)
(* ExclusiveTryLock (the recursive case is RelockHeld)                     *)
(***************************************************************************)
ExclusiveTryLock(t) ==
    /\ Goto(t, "out", "try_load")
    /\ UNCHANGED <<state_, exclusive_owner_, num_contenders_, recursion_count_, futexq>>

\* A held lock makes the operation return false.
TryLoadState(t) ==
    /\ Goto(t, "try_load", IF state_ = 0 THEN "try_cas" ELSE "out")
    /\ UNCHANGED <<state_, exclusive_owner_, num_contenders_, recursion_count_, futexq>>

TryCas(t) ==
    /\ \/ state_ = 0 /\ state_' = 1 /\ Goto(t, "try_cas", "acquired")
       \/ Goto(t, "try_cas", "try_load") /\ UNCHANGED state_
    /\ UNCHANGED <<exclusive_owner_, num_contenders_, recursion_count_, futexq>>

(***************************************************************************)
(* ExclusiveUnlock                                                         *)
(***************************************************************************)
ExclusiveUnlock(t) ==
    /\ recursion_count_' = recursion_count_ - 1
    /\ Goto(t, "in", IF ~Recursive \/ recursion_count_ = 1 THEN "clear" ELSE "in")
    /\ UNCHANGED <<state_, exclusive_owner_, num_contenders_, futexq>>

\* The unlock loop reads state_ = 1 (anything else aborts, see OwnerFaithful)
\* and gives up the ownership before it releases the word.
ClearOwner(t) ==
    /\ state_ = 1
    /\ Goto(t, "clear", "release")
    /\ exclusive_owner_' = NoThread
    /\ UNCHANGED <<state_, num_contenders_, recursion_count_, futexq>>

\* Mutant of ReleaseCas: the word is not released but handed to a sleeper.
HandOver(t) ==
    /\ state_ = 1
    /\ IF futexq = {}
       THEN /\ state_' = 0 /\ Goto(t, "release", "check")
            /\ UNCHANGED <<num_contenders_, futexq>>
       ELSE \E u \in futexq :
              /\ pc[t] = "release"
              /\ pc' = [pc EXCEPT ![t] = "out", ![u] = "acquired"]
              /\ futexq' = futexq \ {u}
              /\ num_contenders_' = num_contenders_ - 1
              /\ UNCHANGED state_
    /\ UNCHANGED <<exclusive_owner_, recursion_count_>>

ReleaseCas(t) ==
    /\ \/ state_ = 1 /\ state_' = 0 /\ Goto(t, "release", "check")
       \/ Goto(t, "release", "clear") /\ UNCHANGED state_
    /\ UNCHANGED <<exclusive_owner_, num_contenders_, recursion_count_, futexq>>

CheckContenders(t) ==
    /\ Goto(t, "check", IF num_contenders_ > 0 THEN "wake" ELSE "out")
    /\ UNCHANGED <<state_, exclusive_owner_, num_contenders_, recursion_count_, futexq>>

\* FUTEX_WAKE 1: dequeue one sleeper, if there is one.
Wake(t) ==
    /\ Goto(t, "wake", "out")
    /\ \/ futexq = {} /\ UNCHANGED futexq
       \/ \E u \in futexq : futexq' = futexq \ {u}
    /\ UNCHANGED <<state_, exclusive_owner_, num_contenders_, recursion_count_>>

-----------------------------------------------------------------------------
\* The steps inside an operation, which a thread takes without its client.
LockStep(t) ==
    \/ LoadState(t) \/ CasSucceeds(t) \/ CasFails(t) \/ CountContender(t)
    \/ FutexWait(t) \/ FutexReturn(t) \/ UncountContender(t) \/ BecomeOwner(t)
    \/ TryLoadState(t) \/ TryCas(t)

UnlockStep(t) == ClearOwner(t) \/ ReleaseCas(t) \/ CheckContenders(t) \/ Wake(t)

\* The calls a client may make.
Call(t) == ExclusiveLock(t) \/ ExclusiveTryLock(t) \/ RelockHeld(t) \/ ExclusiveUnlock(t)

Next == \E t \in Thread :
    Call(t) \/ LockStep(t) \/ FutexInterrupted(t) \/ UnlockStep(t)

Spec == Init /\ [][Next]_mutexVars

-----------------------------------------------------------------------------
\* Mutual exclusion: two threads are never between the compare-exchange that
\* takes the futex word and the one that gives it back (mutex.cc:325, 419).
MutualExclusion ==
    \A t, u \in Thread : pc[t] \in Owning /\ pc[u] \in Owning => t = u

\* The ownership record is never stale: it names a thread only while that
\* thread holds the futex word, so IsExclusiveHeld and GetExclusiveOwnerTid
\* never report a thread that has given the lock up; and while a thread is in
\* its critical section they report that thread.  The unlock loop's LOG(FATAL)
\* on state_ # 1 (mutex.cc:426) is unreachable.
OwnerFaithful ==
    /\ \A t \in Thread : exclusive_owner_ = t => pc[t] \in {"in", "clear"}
    /\ \A t \in Thread : pc[t] = "in" => exclusive_owner_ = t /\ recursion_count_ > 0
    /\ \A t \in Thread : pc[t] \in {"clear", "release"} => state_ = 1 /\ recursion_count_ = 0

\* No lost wake-up: when threads sleep on a free mutex, somebody is on the way
\* to wake one of them or is awake and going to compete for the lock, whose
\* own unlock will wake the next.  num_contenders_ is raised before FUTEX_WAIT
\* and read after the releasing compare-exchange (mutex.cc:329, 422) for this.
Awake(t) ==
    \/ pc[t] \in {"load", "cas", "contend", "wait", "woken", "check", "wake"}
    \/ pc[t] = "asleep" /\ t \notin futexq

NoLostWakeup ==
    state_ = 0 /\ futexq # {} => \E t \in Thread : Awake(t)

\* num_contenders_ counts exactly the threads between its increment and its
\* decrement in ExclusiveLock, whatever mixture of wake-ups, EAGAIN and EINTR.
ContendersCounted ==
    num_contenders_ = Cardinality({t \in Thread : pc[t] \in Contending})

\* What the fields hold at every point of the code of the one thread that owns
\* the futex word, and what they hold when nobody does.
Ownership ==
    /\ \A t \in Thread : pc[t] \in Owning => state_ = 1
    /\ MutualExclusion
    /\ \A t \in Thread : pc[t] = "acquired" => exclusive_owner_ = NoThread /\ recursion_count_ = 0
    /\ \A t \in Thread : pc[t] = "in" =>
          exclusive_owner_ = t /\ recursion_count_ > 0 /\ (~Recursive => recursion_count_ = 1)
    /\ \A t \in Thread : pc[t] = "clear" =>
          exclusive_owner_ \in {t, NoThread} /\ recursion_count_ = 0
    /\ \A t \in Thread : pc[t] = "release" => exclusive_owner_ = NoThread /\ recursion_count_ = 0
    /\ state_ = 1 => \E t \in Thread : pc[t] \in Owning
    /\ state_ = 0 => exclusive_owner_ = NoThread /\ recursion_count_ = 0

\* Only a thread inside FUTEX_WAIT is asleep.
SleepersWait == \A t \in futexq : pc[t] = "asleep"

\* The inductive invariant: types, ownership, who sleeps where, the exact count
\* of contenders (mutex.cc:329, 337) and the absence of lost wake-ups.
Inv == TypeOK /\ Ownership /\ SleepersWait /\ ContendersCounted /\ NoLostWakeup

\* The mutex implements the abstract lock: the holder is the thread that owns
\* the futex word.
Holder == IF \E t \in Thread : pc[t] \in Owning
          THEN CHOOSE t \in Thread : pc[t] \in Owning ELSE NoThread

Abstract == INSTANCE AbstractLock WITH holder <- Holder

ImplementsLock == Abstract!Spec

\* The steps fairness is asked of (in ConditionVariable): a weak compare-exchange
\* that finds the value it expects and stores, and the unlock that ends the
\* critical section.
CompareExchangeSucceeds(t) == CasSucceeds(t) \/ (ReleaseCas(t) /\ pc'[t] = "check")

LastUnlock(t) == ExclusiveUnlock(t) /\ pc'[t] = "clear"

\* Progress: while some thread is inside ExclusiveLock, the lock keeps being
\* acquired; no set of sleepers is left behind on a free mutex for ever.
Progress ==
    (\E t \in Thread : pc[t] \in Contending) ~> (\E t \in Thread : pc[t] = "acquired")
=============================================================================
