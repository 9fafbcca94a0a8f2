---------------------------- MODULE MutexProofs ----------------------------
(***************************************************************************)
(* Proofs about Mutex and ConditionVariable, for any finite set of threads *)
(* and any number of signals and broadcasts.                               *)
(*                                                                         *)
(* Exclusion and the ownership record rest on Ownership, which says what   *)
(* the fields hold at every point of the code of the one thread that owns  *)
(* the futex word.  NoLostWakeup rests on the exact contender count: the   *)
(* thread that has released the word finds the count of a sleeper raised.  *)
(* The lemmas about the steps of the mutex serve both specifications: a    *)
(* condition variable adds waiters to the sleepers and to the count.       *)
(***************************************************************************)
EXTENDS ConditionVariable, FiniteSetTheorems, TLAPS

-----------------------------------------------------------------------------
\* A new Mutex (mutex.cc:268) satisfies the inductive invariant.
LEMMA InitInv == Init => Inv
<1> SUFFICES ASSUME Init PROVE Inv
  OBVIOUS
<1>1. TypeOK /\ Ownership /\ SleepersWait /\ NoLostWakeup
  BY ThreadAssumption DEF Init, TypeOK, PC, Ownership, MutualExclusion, Owning, SleepersWait,
     NoLostWakeup
<1>2. {t \in Thread : pc[t] \in Contending} = {}
  BY DEF Init, Contending
<1>3. ContendersCounted
  BY <1>2, FS_EmptySet DEF Init, ContendersCounted
<1> QED
  BY <1>1, <1>3 DEF Inv

\* The moves of a thread's program counter in each action keep the types.
LEMMA NextTypeOK == TypeOK /\ [Next]_mutexVars => TypeOK'
<1> SUFFICES ASSUME TypeOK, [Next]_mutexVars PROVE TypeOK'
  OBVIOUS
<1> USE DEF TypeOK, PC, Goto
<1>1. ASSUME NEW t \in Thread, Call(t) PROVE TypeOK'
  BY <1>1 DEF Call, ExclusiveLock, ExclusiveTryLock, RelockHeld, ExclusiveUnlock
<1>2. ASSUME NEW t \in Thread, LockStep(t) PROVE TypeOK'
  BY <1>2 DEF LockStep, LoadState, CasSucceeds, CasFails, CountContender, FutexWait, FutexReturn,
     UncountContender, BecomeOwner, TryLoadState, TryCas
<1>3. ASSUME NEW t \in Thread, FutexInterrupted(t) PROVE TypeOK'
  BY <1>3 DEF FutexInterrupted
<1>4. ASSUME NEW t \in Thread, UnlockStep(t) PROVE TypeOK'
  BY <1>4 DEF UnlockStep, ClearOwner, ReleaseCas, CheckContenders, Wake
<1>5. CASE UNCHANGED mutexVars
  BY <1>5 DEF mutexVars
<1> QED
  BY <1>1, <1>2, <1>3, <1>4, <1>5 DEF Next

\* Every step keeps the fields in agreement with the owner's place in the code.
LEMMA NextOwnership == TypeOK /\ Ownership /\ [Next]_mutexVars => Ownership'
<1> SUFFICES ASSUME TypeOK, Ownership, [Next]_mutexVars PROVE Ownership'
  OBVIOUS
<1> USE ThreadAssumption DEF TypeOK, Ownership, MutualExclusion, Owning, Goto
<1>1. ASSUME NEW t \in Thread, ExclusiveLock(t) \/ ExclusiveTryLock(t) PROVE Ownership'
  BY <1>1 DEF ExclusiveLock, ExclusiveTryLock
<1>2. ASSUME NEW t \in Thread, RelockHeld(t) PROVE Ownership'
  BY <1>2 DEF RelockHeld
<1>3. ASSUME NEW t \in Thread, ExclusiveUnlock(t) PROVE Ownership'
  BY <1>3 DEF ExclusiveUnlock
<1>4. ASSUME NEW t \in Thread,
             LoadState(t) \/ CasFails(t) \/ CountContender(t) \/ UncountContender(t)
      PROVE  Ownership'
  BY <1>4 DEF LoadState, CasFails, CountContender, UncountContender
<1>5. ASSUME NEW t \in Thread, CasSucceeds(t) PROVE Ownership'
  BY <1>5 DEF CasSucceeds
<1>6. ASSUME NEW t \in Thread, FutexWait(t) \/ FutexReturn(t) \/ FutexInterrupted(t)
      PROVE  Ownership'
  BY <1>6 DEF FutexWait, FutexReturn, FutexInterrupted
<1>7. ASSUME NEW t \in Thread, BecomeOwner(t) PROVE Ownership'
  BY <1>7 DEF BecomeOwner
<1>8. ASSUME NEW t \in Thread, TryLoadState(t) \/ TryCas(t) PROVE Ownership'
  BY <1>8 DEF TryLoadState, TryCas
<1>9. ASSUME NEW t \in Thread, ClearOwner(t) PROVE Ownership'
  BY <1>9 DEF ClearOwner
<1>10. ASSUME NEW t \in Thread, ReleaseCas(t) PROVE Ownership'
  BY <1>10 DEF ReleaseCas
<1>11. ASSUME NEW t \in Thread, CheckContenders(t) \/ Wake(t) PROVE Ownership'
  BY <1>11 DEF CheckContenders, Wake
<1>12. CASE UNCHANGED mutexVars
  BY <1>12 DEF mutexVars
<1> QED
  BY <1>1, <1>2, <1>3, <1>4, <1>5, <1>6, <1>7, <1>8, <1>9, <1>10, <1>11, <1>12
     DEF Next, Call, LockStep, UnlockStep

\* A thread enters the futex's queue only in FUTEX_WAIT and leaves the call
\* only when it is out of the queue.
LEMMA NextSleepersWait == TypeOK /\ SleepersWait /\ [Next]_mutexVars => SleepersWait'
<1> SUFFICES ASSUME TypeOK, SleepersWait, [Next]_mutexVars PROVE SleepersWait'
  OBVIOUS
<1> USE DEF TypeOK, SleepersWait, Goto
<1>1. ASSUME NEW t \in Thread, Call(t) PROVE SleepersWait'
  BY <1>1 DEF Call, ExclusiveLock, ExclusiveTryLock, RelockHeld, ExclusiveUnlock
<1>2. ASSUME NEW t \in Thread, LockStep(t) PROVE SleepersWait'
  BY <1>2 DEF LockStep, LoadState, CasSucceeds, CasFails, CountContender, FutexWait, FutexReturn,
     UncountContender, BecomeOwner, TryLoadState, TryCas
<1>3. ASSUME NEW t \in Thread, FutexInterrupted(t) PROVE SleepersWait'
  BY <1>3 DEF FutexInterrupted
<1>4. ASSUME NEW t \in Thread, UnlockStep(t) PROVE SleepersWait'
  BY <1>4 DEF UnlockStep, ClearOwner, ReleaseCas, CheckContenders, Wake
<1>5. CASE UNCHANGED mutexVars
  BY <1>5 DEF mutexVars
<1> QED
  BY <1>1, <1>2, <1>3, <1>4, <1>5 DEF Next

-----------------------------------------------------------------------------
Contenders == {t \in Thread : pc[t] \in Contending}

\* The contenders are finitely many, so that they can be counted.
LEMMA ContendersFinite == IsFiniteSet(Contenders) /\ Cardinality(Contenders) \in Nat
<1>1. IsFiniteSet(Contenders)
  BY ThreadAssumption, FS_Subset DEF Contenders
<1> QED
  BY <1>1, FS_CardinalityType

\* num_contenders_ follows the set of contenders: it changes by one with the
\* set in CountContender and UncountContender, and in no other step.
LEMMA ContendersFollowed ==
    TypeOK /\ [Next]_mutexVars =>
        num_contenders_' - Cardinality(Contenders') = num_contenders_ - Cardinality(Contenders)
<1> DEFINE Followed ==
        num_contenders_' - Cardinality(Contenders') = num_contenders_ - Cardinality(Contenders)
<1> SUFFICES ASSUME TypeOK, [Next]_mutexVars PROVE Followed
  OBVIOUS
<1>1. num_contenders_ \in Int
  BY DEF TypeOK
<1>2. ASSUME NEW t \in Thread, CountContender(t) PROVE Followed
  <2>1. t \notin Contenders /\ Contenders' = Contenders \cup {t}
    BY <1>2 DEF CountContender, Goto, TypeOK, Contenders, Contending
  <2>2. num_contenders_' = num_contenders_ + 1
    BY <1>2 DEF CountContender
  <2>3. Cardinality(Contenders') = Cardinality(Contenders) + 1
    BY <2>1, ContendersFinite, FS_AddElement
  <2> QED
    BY <1>1, <2>2, <2>3, ContendersFinite
<1>3. ASSUME NEW t \in Thread, UncountContender(t) PROVE Followed
  <2>1. t \in Contenders /\ Contenders' = Contenders \ {t}
    BY <1>3 DEF UncountContender, Goto, TypeOK, Contenders, Contending
  <2>2. num_contenders_' = num_contenders_ - 1
    BY <1>3 DEF UncountContender
  <2>3. Cardinality(Contenders') = Cardinality(Contenders) - 1
    BY <2>1, ContendersFinite, FS_RemoveElement
  <2> QED
    BY <1>1, <2>2, <2>3, ContendersFinite
<1>4. ASSUME Contenders' = Contenders, UNCHANGED num_contenders_ PROVE Followed
  BY <1>4
<1> USE DEF Goto, TypeOK, Contenders, Contending
<1>5. ASSUME NEW t \in Thread, Call(t) PROVE Contenders' = Contenders /\ UNCHANGED num_contenders_
  BY <1>5 DEF Call, ExclusiveLock, ExclusiveTryLock, RelockHeld, ExclusiveUnlock
<1>6. ASSUME NEW t \in Thread, LockStep(t), ~CountContender(t), ~UncountContender(t)
      PROVE  Contenders' = Contenders /\ UNCHANGED num_contenders_
  BY <1>6 DEF LockStep, LoadState, CasSucceeds, CasFails, FutexWait, FutexReturn, BecomeOwner,
     TryLoadState, TryCas
<1>7. ASSUME NEW t \in Thread, FutexInterrupted(t)
      PROVE  Contenders' = Contenders /\ UNCHANGED num_contenders_
  BY <1>7 DEF FutexInterrupted
<1>8. ASSUME NEW t \in Thread, UnlockStep(t)
      PROVE  Contenders' = Contenders /\ UNCHANGED num_contenders_
  BY <1>8 DEF UnlockStep, ClearOwner, ReleaseCas, CheckContenders, Wake
<1>9. CASE UNCHANGED mutexVars
  BY <1>4, <1>9 DEF mutexVars
<1> HIDE DEF Followed
<1> QED
  BY <1>2, <1>3, <1>4, <1>5, <1>6, <1>7, <1>8, <1>9 DEF Next

\* So the count stays exact.
LEMMA NextContendersCounted ==
    TypeOK /\ ContendersCounted /\ [Next]_mutexVars => ContendersCounted'
<1> SUFFICES ASSUME TypeOK, ContendersCounted, [Next]_mutexVars PROVE ContendersCounted'
  OBVIOUS
<1>1. num_contenders_ = Cardinality(Contenders)
  BY DEF ContendersCounted, Contenders
<1>2. num_contenders_' - Cardinality(Contenders') = num_contenders_ - Cardinality(Contenders)
  BY ContendersFollowed
<1>3. num_contenders_' \in Int
  BY NextTypeOK DEF TypeOK
<1>4. Cardinality(Contenders') \in Nat
  <2>1. IsFiniteSet(Contenders')
    BY ThreadAssumption, FS_Subset DEF Contenders
  <2> QED
    BY <2>1, FS_CardinalityType
<1>5. num_contenders_' = Cardinality(Contenders')
  BY <1>1, <1>2, <1>3, <1>4, ContendersFinite
<1> QED
  BY <1>5 DEF ContendersCounted, Contenders

\* A sleeper is counted, so the unlocking thread does not overlook it.
LEMMA SleeperCounted ==
    TypeOK /\ SleepersWait /\ ContendersCounted /\ futexq # {} => num_contenders_ > 0
<1> SUFFICES ASSUME TypeOK, SleepersWait, ContendersCounted, futexq # {}
             PROVE  num_contenders_ > 0
  OBVIOUS
<1>1. Contenders # {}
  BY DEF TypeOK, SleepersWait, Contenders, Contending
<1>2. Cardinality(Contenders) # 0
  BY <1>1, ContendersFinite, FS_EmptySet
<1> QED
  BY <1>2, ContendersFinite DEF ContendersCounted, Contenders

\* A step that puts a thread to sleep, frees the word or takes a thread's eyes
\* off the sleepers leaves somebody awake who will attend to them, or takes one
\* of them off the queue; no other step changes who is awake.
LEMMA StepAttends ==
    ASSUME TypeOK, [Next]_mutexVars, Ownership,
           \A u \in futexq : pc[u] \in {"asleep", "out"},
           futexq # {} => num_contenders_ > 0,
           state_' = 0, futexq' # {}
    PROVE  \/ \E u \in Thread : Awake(u)'
           \/ \E u \in futexq \ futexq' : pc'[u] = pc[u]
           \/ /\ state_ = 0 /\ futexq # {} /\ futexq' \subseteq futexq
              /\ \A u \in Thread : ~Awake(u)
<1> DEFINE Someone == \E u \in Thread : Awake(u)'
           Quiet == /\ state_ = 0 /\ futexq # {} /\ futexq' \subseteq futexq
                    /\ \A u \in Thread : ~Awake(u)
<1> SUFFICES Someone \/ (\E u \in futexq \ futexq' : pc'[u] = pc[u]) \/ Quiet
  OBVIOUS
<1> USE DEF TypeOK, Goto, Awake
<1>1. ASSUME NEW t \in Thread, ReleaseCas(t), state_ = 1 PROVE Someone
  BY <1>1 DEF ReleaseCas
<1>2. ASSUME NEW t \in Thread, Wake(t) PROVE \E u \in futexq \ futexq' : pc'[u] = pc[u]
  BY <1>2 DEF Wake
<1>3. ASSUME NEW t \in Thread, CheckContenders(t) PROVE Someone
  BY <1>3 DEF CheckContenders
<1>4. ASSUME NEW t \in Thread, FutexInterrupted(t) PROVE Someone
  BY <1>4 DEF FutexInterrupted
<1>5. ASSUME NEW t \in Thread, FutexWait(t) PROVE Someone
  BY <1>5 DEF FutexWait
<1>6. ASSUME NEW t \in Thread, LockStep(t), ~FutexWait(t) PROVE Someone \/ Quiet
  BY <1>6 DEF LockStep, LoadState, CasSucceeds, CasFails, CountContender, FutexReturn,
     UncountContender, BecomeOwner, TryLoadState, TryCas
<1>7. ASSUME NEW t \in Thread, Call(t) PROVE Someone \/ Quiet
  BY <1>7 DEF Call, ExclusiveLock, ExclusiveTryLock, RelockHeld, ExclusiveUnlock
<1>8. ASSUME NEW t \in Thread, ClearOwner(t) PROVE FALSE
  BY <1>8 DEF ClearOwner
<1>9. ASSUME NEW t \in Thread, ReleaseCas(t), state_ # 1 PROVE FALSE
  BY <1>9 DEF ReleaseCas, Ownership, Owning
<1>10. CASE UNCHANGED mutexVars
  BY <1>10 DEF mutexVars
<1> HIDE DEF Someone, Quiet
<1> QED
  BY <1>1, <1>2, <1>3, <1>4, <1>5, <1>6, <1>7, <1>8, <1>9, <1>10 DEF Next, UnlockStep

\* No step loses the wake-up of a sleeper.
LEMMA NextNoLostWakeup == Inv /\ [Next]_mutexVars => NoLostWakeup'
<1> SUFFICES ASSUME Inv, [Next]_mutexVars, state_' = 0, futexq' # {}
             PROVE  \E u \in Thread : Awake(u)'
  BY DEF NoLostWakeup
<1>1. \A u \in futexq : u \in Thread /\ pc[u] = "asleep"
  BY DEF Inv, TypeOK, SleepersWait
<1>2. futexq # {} => num_contenders_ > 0
  BY SleeperCounted DEF Inv
<1>3. CASE \E u \in futexq \ futexq' : pc'[u] = pc[u]
  BY <1>1, <1>3 DEF Awake
<1>4. ~(state_ = 0 /\ futexq # {} /\ \A u \in Thread : ~Awake(u))
  BY DEF Inv, NoLostWakeup
<1> QED
  BY <1>1, <1>2, <1>3, <1>4, StepAttends DEF Inv

-----------------------------------------------------------------------------
\* The inductive invariant holds in every reachable state of a Mutex.
THEOREM MutexInv == Spec => []Inv
<1>1. Inv /\ [Next]_mutexVars => Inv'
  BY NextTypeOK, NextOwnership, NextSleepersWait, NextContendersCounted, NextNoLostWakeup DEF Inv
<1> QED
  BY <1>1, InitInv, PTL DEF Spec

\* Mutual exclusion of Mutex::ExclusiveLock and ExclusiveTryLock, for any
\* number of threads.
THEOREM MutexExclusion == Spec => []MutualExclusion
<1>1. Inv => MutualExclusion
  BY DEF Inv, Ownership
<1> QED
  BY <1>1, MutexInv, PTL

\* The owner that IsExclusiveHeld and GetExclusiveOwnerTid report is never
\* stale, and ExclusiveUnlock never reaches its LOG(FATAL).
THEOREM MutexOwner == Spec => []OwnerFaithful
<1>1. Inv => OwnerFaithful
  <2> SUFFICES ASSUME Inv PROVE OwnerFaithful
    OBVIOUS
  <2>1. ASSUME NEW t \in Thread, exclusive_owner_ = t PROVE pc[t] \in {"in", "clear"}
    BY <2>1, ThreadAssumption DEF Inv, TypeOK, Ownership, Owning
  <2>2. ASSUME NEW t \in Thread, pc[t] = "in" PROVE exclusive_owner_ = t /\ recursion_count_ > 0
    BY <2>2 DEF Inv, Ownership
  <2>3. ASSUME NEW t \in Thread, pc[t] \in {"clear", "release"}
        PROVE  state_ = 1 /\ recursion_count_ = 0
    BY <2>3 DEF Inv, Ownership, Owning
  <2> QED
    BY <2>1, <2>2, <2>3 DEF OwnerFaithful
<1> QED
  BY <1>1, MutexInv, PTL

\* ExclusiveUnlock never leaves sleepers behind on a free mutex: the handshake
\* of num_contenders_ and state_ loses no wake-up.
THEOREM MutexWakeup == Spec => [](NoLostWakeup /\ ContendersCounted)
<1>1. Inv => NoLostWakeup /\ ContendersCounted
  BY DEF Inv
<1> QED
  BY <1>1, MutexInv, PTL

-----------------------------------------------------------------------------
\* Who owns the futex word is the holder of the abstract lock.
LEMMA HolderIs ==
    ASSUME MutualExclusion
    PROVE  /\ \A t \in Thread : pc[t] \in Owning => Holder = t
           /\ (\A t \in Thread : pc[t] \notin Owning) => Holder = NoThread
  BY DEF MutualExclusion, Holder

\* Every step of the mutex is a step of AbstractLock: the compare-exchanges
\* that take and give back the futex word are its Acquire and Release, all
\* else is a stutter.
LEMMA StepImplementsLock ==
    ASSUME TypeOK, TypeOK', Ownership, Ownership', [Next]_mutexVars
    PROVE  [Abstract!Next]_Holder
<1>1. /\ \A t \in Thread : pc[t] \in Owning => Holder = t
      /\ (\A t \in Thread : pc[t] \notin Owning) => Holder = NoThread
  BY HolderIs DEF Ownership
<1>2. MutualExclusion'
  BY DEF Ownership
<1>3. /\ \A t \in Thread : pc'[t] \in Owning => Holder' = t
      /\ (\A t \in Thread : pc'[t] \notin Owning) => Holder' = NoThread
  BY <1>2 DEF MutualExclusion, Holder
<1>4. ASSUME \A u \in Thread : pc'[u] \in Owning <=> pc[u] \in Owning
      PROVE  Holder' = Holder
  BY <1>1, <1>3, <1>4
<1>5. ASSUME NEW t \in Thread, CasSucceeds(t) \/ (TryCas(t) /\ pc'[t] = "acquired")
      PROVE  Abstract!Acquire(t)
  <2>1. \A u \in Thread : pc[u] \notin Owning
    BY <1>5 DEF CasSucceeds, TryCas, Goto, Ownership, TypeOK
  <2>2. pc'[t] \in Owning
    BY <1>5 DEF CasSucceeds, TryCas, Goto, Owning, TypeOK
  <2> QED
    BY <1>1, <1>3, <2>1, <2>2 DEF Abstract!Acquire
<1>6. ASSUME NEW t \in Thread, ReleaseCas(t), pc'[t] = "check" PROVE Abstract!Release(t)
  <2>1. pc[t] \in Owning
    BY <1>6 DEF ReleaseCas, Goto, Owning
  <2>2. \A u \in Thread : pc'[u] \notin Owning
    BY <1>6, <2>1 DEF ReleaseCas, Goto, Owning, Ownership, MutualExclusion, TypeOK
  <2> QED
    BY <1>1, <1>3, <2>1, <2>2 DEF Abstract!Release
<1> USE DEF TypeOK, Goto, Owning
<1>7. ASSUME NEW t \in Thread, Call(t) PROVE \A u \in Thread : pc'[u] \in Owning <=> pc[u] \in Owning
  BY <1>7 DEF Call, ExclusiveLock, ExclusiveTryLock, RelockHeld, ExclusiveUnlock
<1>8. ASSUME NEW t \in Thread, LockStep(t), ~CasSucceeds(t), ~(TryCas(t) /\ pc'[t] = "acquired")
      PROVE  \A u \in Thread : pc'[u] \in Owning <=> pc[u] \in Owning
  BY <1>8 DEF LockStep, LoadState, CasFails, CountContender, FutexWait, FutexReturn,
     UncountContender, BecomeOwner, TryLoadState, TryCas
<1>9. ASSUME NEW t \in Thread, FutexInterrupted(t)
      PROVE  \A u \in Thread : pc'[u] \in Owning <=> pc[u] \in Owning
  BY <1>9 DEF FutexInterrupted
<1>10. ASSUME NEW t \in Thread, UnlockStep(t), ~(ReleaseCas(t) /\ pc'[t] = "check")
       PROVE  \A u \in Thread : pc'[u] \in Owning <=> pc[u] \in Owning
  BY <1>10 DEF UnlockStep, ClearOwner, ReleaseCas, CheckContenders, Wake
<1>11. CASE UNCHANGED mutexVars
  BY <1>4, <1>11 DEF mutexVars
<1> QED
  BY <1>4, <1>5, <1>6, <1>7, <1>8, <1>9, <1>10, <1>11 DEF Next, Abstract!Next

\* The mutex implements AbstractLock.
THEOREM MutexImplementsLock == Spec => ImplementsLock
<1>1. Init => Abstract!Init
  BY DEF Init, Abstract!Init, Holder, Owning
<1>2. Inv /\ Inv' /\ [Next]_mutexVars => [Abstract!Next]_Holder
  BY StepImplementsLock DEF Inv
<1> QED
  BY <1>1, <1>2, MutexInv, PTL DEF Spec, ImplementsLock, Abstract!Spec

(***************************************************************************)
(* ConditionVariable                                                       *)
(***************************************************************************)
\* The threads inside Wait and TimedWait.
InWait == {t \in Thread : cvpc[t] \in {"unlocking", "asleep", "locking"}}

Notifying(t) == cvpc[t] \in {"signal", "broadcast"}

CVTypeOK ==
    /\ sequence_ \in Nat
    /\ num_waiters_ \in Int
    /\ cvpc \in [Thread -> CVPC]
    /\ cur_sequence \in [Thread -> Nat]
    /\ old_recursion_count \in [Thread -> Int]
    /\ cvq \in SUBSET Thread
    /\ snapshot \in SUBSET Thread

\* Where a thread is in the mutex while it is in the condition variable's
\* code, and that a waiter keeps a recursion count it may come back with.
Places ==
    \A t \in Thread :
        /\ cvpc[t] = "unlocking" => pc[t] \in {"clear", "release", "check", "wake", "out"}
        /\ cvpc[t] = "asleep" => pc[t] = "out"
        /\ cvpc[t] = "locking" =>
              pc[t] \in {"load", "cas", "contend", "wait", "asleep", "woken", "acquired", "in"}
        /\ Notifying(t) => pc[t] = "in"
        /\ t \in InWait => old_recursion_count[t] > 0 /\ (~Recursive => old_recursion_count[t] = 1)

\* Who sleeps on which futex: on sequence_ only waiters, on state_ contenders
\* and the waiters that a Broadcast has moved there; nobody on both.
Queues ==
    /\ \A t \in cvq : cvpc[t] = "asleep" /\ t \notin futexq
    /\ \A t \in futexq : pc[t] = "asleep" \/ cvpc[t] = "asleep"

\* What a waiter has read of sequence_ is not newer than sequence_; while a
\* thread is between sequence_++ and its system call it is older, and who
\* sleeps on sequence_ was waiting when the Signal or Broadcast began.
Sequences ==
    /\ \A t \in Thread : cur_sequence[t] <= sequence_
    /\ \A t, u \in Thread : Notifying(t) =>
          /\ cvpc[u] = "unlocking" => cur_sequence[u] < sequence_
          /\ cvq \subseteq snapshot

\* num_waiters_ counts the waiters, num_contenders_ the waiters and the
\* threads that contend for guard_; a waiter that does so counts twice.
WaitersCounted ==
    /\ num_waiters_ = Cardinality(InWait)
    /\ num_contenders_ = Cardinality(Contenders) + Cardinality(InWait)

\* When threads sleep on a free guard_, waiters moved there by a Broadcast
\* included, somebody is on the way to wake one or to compete for guard_.
CVAwake(t) == Awake(t) \/ (cvpc[t] = "asleep" /\ t \notin cvq \cup futexq)

NoLostWaiter == state_ = 0 /\ futexq # {} => \E t \in Thread : CVAwake(t)

\* The inductive invariant of the condition variable with its mutex.
CVInv ==
    /\ TypeOK /\ CVTypeOK /\ Ownership /\ Places /\ Queues /\ Sequences
    /\ WaitersCounted /\ NoLostWaiter

\* The waiters are finitely many.
LEMMA InWaitFinite == IsFiniteSet(InWait) /\ Cardinality(InWait) \in Nat
<1>1. IsFiniteSet(InWait)
  BY ThreadAssumption, FS_Subset DEF InWait
<1> QED
  BY <1>1, FS_CardinalityType

\* A new condition variable (mutex.cc:673) on a free mutex.
LEMMA CVInitInv == CVInit => CVInv
<1> SUFFICES ASSUME CVInit PROVE CVInv
  OBVIOUS
<1>1. Inv
  BY InitInv DEF CVInit
<1>2. CVTypeOK /\ Places /\ Queues /\ Sequences
  BY DEF CVInit, Init, CVTypeOK, CVPC, Places, Queues, Sequences, InWait, Notifying
<1>3. Contenders = {} /\ InWait = {}
  BY DEF CVInit, Init, Contenders, Contending, InWait
<1>4. WaitersCounted
  BY <1>3, FS_EmptySet DEF CVInit, Init, WaitersCounted
<1>5. NoLostWaiter
  BY DEF CVInit, Init, NoLostWaiter
<1> QED
  BY <1>1, <1>2, <1>4, <1>5 DEF CVInv, Inv

\* A step of the mutex in the composition is a step of Mutex.
LEMMA MutexStepIsStep == ASSUME NEW t \in Thread, MutexStep(t) PROVE Next /\ UNCHANGED cvVars
  BY DEF MutexStep, Next

\* The types.
LEMMA CVNextTypeOK == TypeOK /\ CVTypeOK /\ [CVNext]_vars => TypeOK' /\ CVTypeOK'
<1> SUFFICES ASSUME TypeOK, CVTypeOK, [CVNext]_vars PROVE TypeOK' /\ CVTypeOK'
  OBVIOUS
<1>1. ASSUME NEW t \in Thread, MutexStep(t) PROVE TypeOK' /\ CVTypeOK'
  BY <1>1, MutexStepIsStep, NextTypeOK DEF CVTypeOK, cvVars
<1> USE DEF TypeOK, PC, CVTypeOK, CVPC, Goto, CVGoto, mutexVars, cvVars
<1>2. ASSUME NEW t \in Thread, CVFutexWait(t) \/ SignalWake(t) \/ BroadcastRequeue(t)
      PROVE  TypeOK' /\ CVTypeOK'
  BY <1>2 DEF CVFutexWait, SignalWake, BroadcastRequeue
<1>3. ASSUME NEW t \in Thread, WaitAgain(t) \/ WaitWoken(t) \/ WaitBroken(t)
      PROVE  TypeOK' /\ CVTypeOK'
  BY <1>3 DEF WaitAgain, WaitWoken, WaitBroken, Relock
<1>4. ASSUME NEW t \in Thread, WaitReturns(t) \/ WaitHoldingLocks(t) PROVE TypeOK' /\ CVTypeOK'
  BY <1>4 DEF WaitReturns, WaitHoldingLocks
<1>5. ASSUME NEW t \in Thread, NEW op \in {"signal", "broadcast"}, NextSequence(t, op)
      PROVE  TypeOK' /\ CVTypeOK'
  BY <1>5 DEF NextSequence, Waiting
<1>6. CASE UNCHANGED vars
  BY <1>6 DEF vars
<1> QED
  BY <1>1, <1>2, <1>3, <1>4, <1>5, <1>6 DEF CVNext, CVStep

\* The fields of guard_ agree with the owner's place in the code, waits that
\* give it up and take it back included.
LEMMA CVNextOwnership ==
    TypeOK /\ CVTypeOK /\ Ownership /\ Places /\ [CVNext]_vars => Ownership'
<1> SUFFICES ASSUME TypeOK, CVTypeOK, Ownership, Places, [CVNext]_vars PROVE Ownership'
  OBVIOUS
<1>1. ASSUME NEW t \in Thread, MutexStep(t) PROVE Ownership'
  BY <1>1, MutexStepIsStep, NextOwnership
<1> USE ThreadAssumption
    DEF TypeOK, CVTypeOK, Ownership, MutualExclusion, Owning, Goto, CVGoto, mutexVars, cvVars
<1>2. ASSUME NEW t \in Thread, CVFutexWait(t) \/ SignalWake(t) \/ BroadcastRequeue(t)
      PROVE  Ownership'
  BY <1>2 DEF CVFutexWait, SignalWake, BroadcastRequeue
<1>3. ASSUME NEW t \in Thread, WaitAgain(t) \/ WaitWoken(t) \/ WaitBroken(t) PROVE Ownership'
  BY <1>3 DEF WaitAgain, WaitWoken, WaitBroken, Relock
<1>4. ASSUME NEW t \in Thread, WaitReturns(t) PROVE Ownership'
  BY <1>4 DEF WaitReturns, Places, InWait
<1>5. ASSUME NEW t \in Thread, WaitHoldingLocks(t) PROVE Ownership'
  BY <1>5 DEF WaitHoldingLocks
<1>6. ASSUME NEW t \in Thread, NEW op, NextSequence(t, op) PROVE Ownership'
  BY <1>6 DEF NextSequence
<1>7. CASE UNCHANGED vars
  BY <1>7 DEF vars
<1> QED
  BY <1>1, <1>2, <1>3, <1>4, <1>5, <1>6, <1>7 DEF CVNext, CVStep

\* Places: a thread inside the condition variable's code makes no call of its
\* own on guard_.
LEMMA CVNextPlaces ==
    TypeOK /\ CVTypeOK /\ Ownership /\ Places /\ [CVNext]_vars => Places'
<1> SUFFICES ASSUME TypeOK, CVTypeOK, Ownership, Places, [CVNext]_vars PROVE Places'
  OBVIOUS
<1> USE DEF TypeOK, CVTypeOK, Places, InWait, Notifying, Goto, CVGoto, mutexVars, cvVars
<1>1. ASSUME NEW t \in Thread, MutexStep(t) PROVE Places'
  <2>1. CASE cvpc[t] = "none" /\ Call(t)
    BY <1>1, <2>1 DEF MutexStep, Call, ExclusiveLock, ExclusiveTryLock, RelockHeld, ExclusiveUnlock
  <2>2. CASE LockStep(t)
    <3>1. CASE LoadState(t) \/ CasSucceeds(t) \/ CasFails(t) \/ BecomeOwner(t)
      BY <1>1, <3>1 DEF MutexStep, LoadState, CasSucceeds, CasFails, BecomeOwner
    <3>2. CASE CountContender(t) \/ FutexWait(t) \/ FutexReturn(t) \/ UncountContender(t)
      BY <1>1, <3>2 DEF MutexStep, CountContender, FutexWait, FutexReturn, UncountContender
    <3>3. CASE TryLoadState(t) \/ TryCas(t)
      BY <1>1, <3>3 DEF MutexStep, TryLoadState, TryCas
    <3> QED
      BY <2>2, <3>1, <3>2, <3>3 DEF LockStep
  <2>3. CASE FutexInterrupted(t)
    BY <1>1, <2>3 DEF MutexStep, FutexInterrupted
  <2>4. CASE UnlockStep(t)
    <3>1. CASE ClearOwner(t) \/ ReleaseCas(t)
      BY <1>1, <3>1 DEF MutexStep, ClearOwner, ReleaseCas
    <3>2. CASE CheckContenders(t) \/ Wake(t)
      BY <1>1, <3>2 DEF MutexStep, CheckContenders, Wake
    <3> QED
      BY <2>4, <3>1, <3>2 DEF UnlockStep
  <2> QED
    BY <1>1, <2>1, <2>2, <2>3, <2>4 DEF MutexStep
<1>2. ASSUME NEW t \in Thread, CVFutexWait(t) \/ SignalWake(t) \/ BroadcastRequeue(t)
      PROVE  Places'
  BY <1>2 DEF CVFutexWait, SignalWake, BroadcastRequeue
<1>3. ASSUME NEW t \in Thread, WaitAgain(t) \/ WaitWoken(t) \/ WaitBroken(t) PROVE Places'
  BY <1>3 DEF WaitAgain, WaitWoken, WaitBroken, Relock
<1>4. ASSUME NEW t \in Thread, WaitReturns(t) PROVE Places'
  BY <1>4 DEF WaitReturns
<1>5. ASSUME NEW t \in Thread, WaitHoldingLocks(t) PROVE Places'
  BY <1>5 DEF WaitHoldingLocks, Ownership
<1>6. ASSUME NEW t \in Thread, NEW op \in {"signal", "broadcast"}, NextSequence(t, op)
      PROVE  Places'
  BY <1>6 DEF NextSequence
<1>7. CASE UNCHANGED vars
  BY <1>7 DEF vars
<1> QED
  BY <1>1, <1>2, <1>3, <1>4, <1>5, <1>6, <1>7 DEF CVNext, CVStep

\* Queues: a Broadcast moves waiters from one futex to the other, every way
\* out of FUTEX_WAIT takes them off both.
LEMMA CVNextQueues ==
    TypeOK /\ CVTypeOK /\ Places /\ Queues /\ [CVNext]_vars => Queues'
<1> SUFFICES ASSUME TypeOK, CVTypeOK, Places, Queues, [CVNext]_vars PROVE Queues'
  OBVIOUS
<1> USE DEF TypeOK, CVTypeOK, Places, Queues, Goto, CVGoto, mutexVars, cvVars
<1>1. ASSUME NEW t \in Thread, MutexStep(t) PROVE Queues'
  <2>1. CASE Call(t)
    BY <1>1, <2>1 DEF MutexStep, Call, ExclusiveLock, ExclusiveTryLock, RelockHeld, ExclusiveUnlock
  <2>2. CASE LockStep(t)
    <3>1. CASE LoadState(t) \/ CasSucceeds(t) \/ CasFails(t) \/ BecomeOwner(t)
      BY <1>1, <3>1 DEF MutexStep, LoadState, CasSucceeds, CasFails, BecomeOwner
    <3>2. CASE CountContender(t) \/ FutexWait(t) \/ FutexReturn(t) \/ UncountContender(t)
      BY <1>1, <3>2 DEF MutexStep, CountContender, FutexWait, FutexReturn, UncountContender
    <3>3. CASE TryLoadState(t) \/ TryCas(t)
      BY <1>1, <3>3 DEF MutexStep, TryLoadState, TryCas
    <3> QED
      BY <2>2, <3>1, <3>2, <3>3 DEF LockStep
  <2>3. CASE FutexInterrupted(t)
    BY <1>1, <2>3 DEF MutexStep, FutexInterrupted
  <2>4. CASE UnlockStep(t)
    BY <1>1, <2>4 DEF MutexStep, UnlockStep, ClearOwner, ReleaseCas, CheckContenders, Wake
  <2> QED
    BY <1>1, <2>1, <2>2, <2>3, <2>4 DEF MutexStep
<1>2. ASSUME NEW t \in Thread, CVFutexWait(t) PROVE Queues'
  BY <1>2 DEF CVFutexWait
<1>3. ASSUME NEW t \in Thread, SignalWake(t) \/ BroadcastRequeue(t) PROVE Queues'
  BY <1>3 DEF SignalWake, BroadcastRequeue
<1>4. ASSUME NEW t \in Thread, WaitAgain(t) \/ WaitWoken(t) \/ WaitBroken(t) PROVE Queues'
  BY <1>4 DEF WaitAgain, WaitWoken, WaitBroken, Relock
<1>5. ASSUME NEW t \in Thread, WaitReturns(t) \/ WaitHoldingLocks(t) PROVE Queues'
  BY <1>5 DEF WaitReturns, WaitHoldingLocks
<1>6. ASSUME NEW t \in Thread, NEW op, NextSequence(t, op) PROVE Queues'
  BY <1>6 DEF NextSequence
<1>7. CASE UNCHANGED vars
  BY <1>7 DEF vars
<1> QED
  BY <1>1, <1>2, <1>3, <1>4, <1>5, <1>6, <1>7 DEF CVNext, CVStep

\* Sequences: sequence_ and what waiters read of it are touched under guard_
\* only, so no thread registers as a waiter during a Signal or Broadcast.
LEMMA CVNextSequences ==
    TypeOK /\ CVTypeOK /\ Ownership /\ Places /\ Queues /\ Sequences /\ [CVNext]_vars => Sequences'
<1> SUFFICES ASSUME TypeOK, CVTypeOK, Ownership, Places, Queues, Sequences, [CVNext]_vars
             PROVE  Sequences'
  OBVIOUS
<1> USE DEF TypeOK, CVTypeOK, Sequences, Notifying, Goto, CVGoto, cvVars
<1>1. ASSUME NEW t \in Thread, MutexStep(t) PROVE Sequences'
  BY <1>1 DEF MutexStep
<1>2. ASSUME NEW t \in Thread, CVFutexWait(t) PROVE Sequences'
  BY <1>2 DEF CVFutexWait
<1>3. ASSUME NEW t \in Thread, SignalWake(t) \/ BroadcastRequeue(t) PROVE Sequences'
  <2>1. \A u \in Thread : Notifying(u) => u = t
    BY <1>3 DEF SignalWake, BroadcastRequeue, Places, Ownership, MutualExclusion, Owning
  <2>2. \A u \in Thread : ~Notifying(u)'
    BY <1>3, <2>1 DEF SignalWake, BroadcastRequeue
  <2> QED
    BY <1>3, <2>2 DEF SignalWake, BroadcastRequeue
<1>4. ASSUME NEW t \in Thread, WaitAgain(t) \/ WaitWoken(t) \/ WaitBroken(t) PROVE Sequences'
  BY <1>4 DEF WaitAgain, WaitWoken, WaitBroken, Relock
<1>5. ASSUME NEW t \in Thread, WaitReturns(t) PROVE Sequences'
  BY <1>5 DEF WaitReturns
<1>6. ASSUME NEW t \in Thread, WaitHoldingLocks(t) PROVE Sequences'
  <2>1. \A u \in Thread : ~Notifying(u)
    BY <1>6 DEF WaitHoldingLocks, Places, Ownership, MutualExclusion, Owning
  <2> QED
    BY <1>6, <2>1 DEF WaitHoldingLocks
<1>7. ASSUME NEW t \in Thread, NEW op \in {"signal", "broadcast"}, NextSequence(t, op)
      PROVE  Sequences'
  BY <1>7 DEF NextSequence, Waiting
<1>8. CASE UNCHANGED vars
  BY <1>8 DEF vars
<1> QED
  BY <1>1, <1>2, <1>3, <1>4, <1>5, <1>6, <1>7, <1>8 DEF CVNext, CVStep

\* WaitersCounted: both counts rise at the start of a wait and fall at its end.
LEMMA CVNextCounted ==
    TypeOK /\ CVTypeOK /\ Places /\ WaitersCounted /\ [CVNext]_vars => WaitersCounted'
<1> SUFFICES ASSUME TypeOK, CVTypeOK, Places, WaitersCounted, [CVNext]_vars PROVE WaitersCounted'
  OBVIOUS
<1>1. TypeOK' /\ CVTypeOK'
  BY CVNextTypeOK
<1>2. /\ Cardinality(Contenders) \in Nat /\ Cardinality(InWait) \in Nat
      /\ IsFiniteSet(Contenders) /\ IsFiniteSet(InWait)
  BY ContendersFinite, InWaitFinite
<1>3. Cardinality(Contenders') \in Nat /\ Cardinality(InWait') \in Nat
  <2>1. IsFiniteSet(Contenders') /\ IsFiniteSet(InWait')
    BY ThreadAssumption, FS_Subset DEF Contenders, InWait
  <2> QED
    BY <2>1, FS_CardinalityType
<1>4. ASSUME Contenders' = Contenders, InWait' = InWait, UNCHANGED <<num_contenders_, num_waiters_>>
      PROVE  WaitersCounted'
  BY <1>4 DEF WaitersCounted
<1>5. ASSUME NEW t \in Thread, MutexStep(t) PROVE WaitersCounted'
  <2>1. num_contenders_' - Cardinality(Contenders') = num_contenders_ - Cardinality(Contenders)
    BY <1>5, MutexStepIsStep, ContendersFollowed
  <2>2. InWait' = InWait /\ num_waiters_' = num_waiters_
    BY <1>5 DEF MutexStep, InWait, cvVars
  <2>3. num_contenders_ \in Int /\ num_contenders_' \in Int
    BY <1>1 DEF TypeOK
  <2> QED
    BY <1>2, <1>3, <2>1, <2>2, <2>3 DEF WaitersCounted
<1>6. ASSUME NEW t \in Thread, WaitHoldingLocks(t) PROVE WaitersCounted'
  <2>1. t \notin InWait /\ InWait' = InWait \cup {t} /\ Contenders' = Contenders
    BY <1>6 DEF WaitHoldingLocks, CVGoto, Goto, TypeOK, CVTypeOK, InWait, Contenders, Contending
  <2>2. Cardinality(InWait') = Cardinality(InWait) + 1
    BY <1>2, <2>1, FS_AddElement
  <2>3. num_waiters_' = num_waiters_ + 1 /\ num_contenders_' = num_contenders_ + 1
    BY <1>6 DEF WaitHoldingLocks
  <2> QED
    BY <1>2, <2>1, <2>2, <2>3 DEF WaitersCounted
<1>7. ASSUME NEW t \in Thread, WaitReturns(t) PROVE WaitersCounted'
  <2>1. t \in InWait /\ InWait' = InWait \ {t} /\ Contenders' = Contenders
    BY <1>7 DEF WaitReturns, CVGoto, TypeOK, CVTypeOK, InWait, Contenders, Contending
  <2>2. Cardinality(InWait') = Cardinality(InWait) - 1
    BY <1>2, <2>1, FS_RemoveElement
  <2>3. num_waiters_' = num_waiters_ - 1 /\ num_contenders_' = num_contenders_ - 1
    BY <1>7 DEF WaitReturns
  <2> QED
    BY <1>2, <2>1, <2>2, <2>3 DEF WaitersCounted
<1> USE DEF TypeOK, CVTypeOK, Goto, CVGoto, mutexVars, InWait, Contenders, Contending
<1>8. ASSUME NEW t \in Thread, CVFutexWait(t) \/ SignalWake(t) \/ BroadcastRequeue(t)
      PROVE  WaitersCounted'
  BY <1>4, <1>8 DEF CVFutexWait, SignalWake, BroadcastRequeue
<1>9. ASSUME NEW t \in Thread, WaitAgain(t) \/ WaitWoken(t) \/ WaitBroken(t) PROVE WaitersCounted'
  BY <1>4, <1>9 DEF WaitAgain, WaitWoken, WaitBroken, Relock
<1>10. ASSUME NEW t \in Thread, NEW op \in {"signal", "broadcast"}, NextSequence(t, op)
       PROVE  WaitersCounted'
  BY <1>4, <1>10 DEF NextSequence
<1>11. CASE UNCHANGED vars
  BY <1>4, <1>11 DEF vars, cvVars
<1> QED
  BY <1>5, <1>6, <1>7, <1>8, <1>9, <1>10, <1>11 DEF CVNext, CVStep

\* NoLostWaiter: a waiter that was moved to the futex of guard_ is counted as
\* a contender, so the thread that unlocks looks for it; one that leaves the
\* queue by itself goes on to compete for guard_.
LEMMA CVNextNoLostWaiter == CVInv /\ [CVNext]_vars => NoLostWaiter'
<1> SUFFICES ASSUME CVInv, [CVNext]_vars, state_' = 0, futexq' # {}
             PROVE  \E u \in Thread : CVAwake(u)'
  BY DEF NoLostWaiter
<1> USE DEF CVInv
<1>1. \A u \in futexq : u \in Thread /\ pc[u] \in {"asleep", "out"}
  BY DEF Queues, Places, TypeOK
<1>2. futexq # {} => num_contenders_ > 0
  <2> SUFFICES ASSUME futexq # {} PROVE num_contenders_ > 0
    OBVIOUS
  <2>1. Contenders # {} \/ InWait # {}
    BY DEF Queues, TypeOK, Contenders, Contending, InWait
  <2>2. Cardinality(Contenders) # 0 \/ Cardinality(InWait) # 0
    BY <2>1, ContendersFinite, InWaitFinite, FS_EmptySet
  <2> QED
    BY <2>2, ContendersFinite, InWaitFinite DEF WaitersCounted
<1>3. ASSUME NEW t \in Thread, MutexStep(t) PROVE \E u \in Thread : CVAwake(u)'
  <2>1. Next /\ UNCHANGED cvVars
    BY <1>3, MutexStepIsStep
  <2>2. CASE \E u \in Thread : Awake(u)'
    BY <2>2 DEF CVAwake
  <2>3. CASE \E u \in futexq \ futexq' : pc'[u] = pc[u]
    BY <1>1, <2>1, <2>3 DEF CVAwake, Awake, Queues, cvVars
  <2>4. CASE /\ state_ = 0 /\ futexq # {} /\ futexq' \subseteq futexq
             /\ \A u \in Thread : ~Awake(u)
    BY <2>1, <2>4 DEF NoLostWaiter, CVAwake, cvVars
  <2> QED
    BY <1>1, <1>2, <2>1, <2>2, <2>3, <2>4, StepAttends
<1> USE DEF TypeOK, CVTypeOK, Goto, CVGoto, mutexVars
<1>4. ASSUME NEW t \in Thread, SignalWake(t) \/ BroadcastRequeue(t) PROVE FALSE
  <2>1. pc[t] = "in"
    BY <1>4 DEF SignalWake, BroadcastRequeue, Places, Notifying
  <2>2. state_ = 1
    BY <2>1 DEF Ownership, Owning
  <2> QED
    BY <1>4, <2>2 DEF SignalWake, BroadcastRequeue
<1>5. ASSUME NEW t \in Thread, WaitAgain(t) \/ WaitWoken(t) \/ WaitBroken(t) PROVE CVAwake(t)'
  BY <1>5 DEF WaitAgain, WaitWoken, WaitBroken, Relock, CVAwake, Awake
<1>6. ASSUME NEW t \in Thread, WaitReturns(t) \/ WaitHoldingLocks(t) PROVE FALSE
  BY <1>6 DEF WaitReturns, WaitHoldingLocks, Ownership, Owning
<1>7. ASSUME NEW t \in Thread, NEW op, NextSequence(t, op) PROVE FALSE
  BY <1>7 DEF NextSequence, Ownership, Owning
<1>8. ASSUME NEW t \in Thread, CVFutexWait(t) PROVE \E u \in Thread : CVAwake(u)'
  BY <1>8 DEF CVFutexWait, NoLostWaiter, CVAwake, Awake
<1>9. CASE UNCHANGED vars
  BY <1>9 DEF vars, cvVars, NoLostWaiter, CVAwake, Awake
<1> QED
  BY <1>3, <1>4, <1>5, <1>6, <1>7, <1>8, <1>9 DEF CVNext, CVStep

\* The inductive invariant holds in every reachable state.
THEOREM ConditionVariableInv == CVSpec => []CVInv
<1>1. CVInv /\ [CVNext]_vars => CVInv'
  BY CVNextTypeOK, CVNextOwnership, CVNextPlaces, CVNextQueues, CVNextSequences, CVNextCounted,
     CVNextNoLostWaiter DEF CVInv
<1> QED
  BY <1>1, CVInitInv, PTL DEF CVSpec

\* The mutex keeps its contract when a condition variable uses its fields: a
\* wait releases it once and acquires it once, signals and broadcasts are
\* stutters.
THEOREM ConditionVariableKeepsLock == CVSpec => ImplementsLock
<1>1. CVInit => Abstract!Init
  BY DEF CVInit, Init, Abstract!Init, Holder, Owning
<1>2. CVInv /\ CVInv' /\ [CVNext]_vars => [Abstract!Next]_Holder
  <2> SUFFICES ASSUME CVInv, CVInv', [CVNext]_vars PROVE [Abstract!Next]_Holder
    OBVIOUS
  <2>1. ASSUME NEW t \in Thread, MutexStep(t) PROVE [Abstract!Next]_Holder
    BY <2>1, MutexStepIsStep, StepImplementsLock DEF CVInv
  <2>2. ASSUME \A u \in Thread : pc'[u] \in Owning <=> pc[u] \in Owning
        PROVE  Holder' = Holder
    <3>1. /\ \A t \in Thread : pc[t] \in Owning => Holder = t
          /\ (\A t \in Thread : pc[t] \notin Owning) => Holder = NoThread
      BY HolderIs DEF CVInv, Ownership
    <3>2. MutualExclusion'
      BY DEF CVInv, Ownership
    <3>3. /\ \A t \in Thread : pc'[t] \in Owning => Holder' = t
          /\ (\A t \in Thread : pc'[t] \notin Owning) => Holder' = NoThread
      BY <3>2 DEF MutualExclusion, Holder
    <3> QED
      BY <2>2, <3>1, <3>3
  <2> USE DEF CVInv, TypeOK, Goto, Owning, mutexVars
  <2>3. ASSUME NEW t \in Thread, CVStep(t) \/ WaitBroken(t)
        PROVE  \A u \in Thread : pc'[u] \in Owning <=> pc[u] \in Owning
    BY <2>3 DEF CVStep, CVFutexWait, WaitAgain, WaitWoken, WaitBroken, Relock, WaitReturns,
       SignalWake, BroadcastRequeue
  <2>4. ASSUME NEW t \in Thread, WaitHoldingLocks(t)
        PROVE  \A u \in Thread : pc'[u] \in Owning <=> pc[u] \in Owning
    BY <2>4 DEF WaitHoldingLocks
  <2>5. ASSUME NEW t \in Thread, NEW op, NextSequence(t, op)
        PROVE  \A u \in Thread : pc'[u] \in Owning <=> pc[u] \in Owning
    BY <2>5 DEF NextSequence
  <2>6. CASE UNCHANGED vars
    BY <2>2, <2>6 DEF vars
  <2> QED
    BY <2>1, <2>2, <2>3, <2>4, <2>5, <2>6 DEF CVNext
<1> QED
  BY <1>1, <1>2, ConditionVariableInv, PTL DEF CVSpec, ImplementsLock, Abstract!Spec

\* Signal releases one of the threads that were waiting when it began,
\* Broadcast all of them, including threads between the unlock of guard_ and
\* FUTEX_WAIT (mutex.cc:711-754, 766-772).
THEOREM SignalsAreDelivered == CVSpec => SignalsDelivered
<1> DEFINE Delivered(t) ==
        /\ cvpc[t] = "signal" /\ cvpc'[t] = "none" /\ snapshot # {}
             => \E u \in snapshot : u \notin Waiting'
        /\ cvpc[t] = "broadcast" /\ cvpc'[t] = "none"
             => snapshot \cap Waiting' = {}
<1>1. ASSUME CVInv, CVInv', [CVNext]_vars, NEW t \in Thread PROVE Delivered(t)
  <2> SUFFICES ASSUME Notifying(t), cvpc'[t] = "none" PROVE Delivered(t)
    BY DEF Notifying
  <2> USE DEF CVInv, CVTypeOK, CVGoto, cvVars
  <2>1. \A u \in Thread : cvpc[u] = "unlocking" => cur_sequence[u] < sequence_
    BY <1>1 DEF Sequences
  <2>2. SignalWake(t) \/ BroadcastRequeue(t)
    <3>1. ASSUME NEW u \in Thread, MutexStep(u) PROVE FALSE
      BY <1>1, <3>1 DEF MutexStep, Notifying
    <3>2. ASSUME NEW u \in Thread, u # t, CVStep(u) \/ WaitHoldingLocks(u) \/ WaitBroken(u)
          PROVE  FALSE
      BY <1>1, <3>2 DEF CVStep, CVFutexWait, WaitAgain, WaitWoken, WaitBroken, Relock, WaitReturns,
         SignalWake, BroadcastRequeue, WaitHoldingLocks, Notifying
    <3>3. ASSUME NEW u \in Thread, NEW op \in {"signal", "broadcast"}, NextSequence(u, op)
          PROVE  FALSE
      BY <1>1, <3>3 DEF NextSequence, Notifying
    <3>4. ASSUME CVStep(t) \/ WaitHoldingLocks(t) \/ WaitBroken(t)
          PROVE  SignalWake(t) \/ BroadcastRequeue(t)
      BY <1>1, <3>4 DEF CVStep, CVFutexWait, WaitAgain, WaitWoken, WaitBroken, Relock, WaitReturns,
         WaitHoldingLocks, Notifying
    <3>5. CASE UNCHANGED vars
      BY <3>5 DEF vars, Notifying
    <3> QED
      BY <1>1, <3>1, <3>2, <3>3, <3>4, <3>5 DEF CVNext
  <2>3. Waiting' = cvq'
    BY <1>1, <2>1, <2>2 DEF SignalWake, BroadcastRequeue, Waiting
  <2>4. cvq \subseteq snapshot
    BY <1>1 DEF Sequences
  <2> QED
    BY <1>1, <2>2, <2>3, <2>4 DEF SignalWake, BroadcastRequeue
<1>2. CVInv /\ CVInv' /\ [CVNext]_vars => [\A t \in Thread : Delivered(t)]_vars
  BY <1>1
<1> QED
  BY <1>2, ConditionVariableInv, PTL DEF CVSpec, SignalsDelivered

\* A released waiter does not sleep on sequence_ again, and a wait returns
\* holding guard_ as deep as before it (mutex.cc:761-843).
THEOREM WaitsReturnHolding == CVSpec => WaitReturnsHolding
<1> DEFINE Returned(t) ==
        /\ cvpc[t] \in {"unlocking", "asleep"} /\ t \notin Waiting => t \notin Waiting'
        /\ cvpc[t] = "locking" /\ cvpc'[t] = "none"
             => /\ exclusive_owner_' = t /\ state_' = 1
                /\ recursion_count_' = old_recursion_count[t]
<1>1. ASSUME CVInv, [CVNext]_vars, NEW t \in Thread PROVE Returned(t)
  <2> USE DEF CVInv, CVTypeOK, TypeOK, CVGoto, Goto, cvVars, mutexVars, Waiting
  <2>1. ASSUME NEW u \in Thread, MutexStep(u) PROVE Returned(t)
    BY <2>1 DEF MutexStep
  <2>2. ASSUME NEW u \in Thread, CVFutexWait(u) PROVE Returned(t)
    BY <1>1, <2>2 DEF CVFutexWait
  <2>3. ASSUME NEW u \in Thread, WaitAgain(u) \/ WaitWoken(u) \/ WaitBroken(u) PROVE Returned(t)
    BY <1>1, <2>3 DEF WaitAgain, WaitWoken, WaitBroken, Relock
  <2>4. ASSUME NEW u \in Thread, WaitReturns(u) PROVE Returned(t)
    BY <1>1, <2>4 DEF WaitReturns, Ownership, Owning
  <2>5. ASSUME NEW u \in Thread, WaitHoldingLocks(u) PROVE Returned(t)
    BY <1>1, <2>5 DEF WaitHoldingLocks
  <2>6. ASSUME NEW u \in Thread, SignalWake(u) \/ BroadcastRequeue(u) PROVE Returned(t)
    BY <1>1, <2>6 DEF SignalWake, BroadcastRequeue
  <2>7. ASSUME NEW u \in Thread, NEW op \in {"signal", "broadcast"}, NextSequence(u, op)
        PROVE  Returned(t)
    BY <1>1, <2>7 DEF NextSequence, Sequences
  <2>8. CASE UNCHANGED vars
    BY <2>8 DEF vars
  <2> HIDE DEF Returned
  <2> QED
    BY <1>1, <2>1, <2>2, <2>3, <2>4, <2>5, <2>6, <2>7, <2>8 DEF CVNext, CVStep
<1>2. CVInv /\ [CVNext]_vars => [\A t \in Thread : Returned(t)]_vars
  BY <1>1
<1> QED
  BY <1>2, ConditionVariableInv, PTL DEF CVSpec, WaitReturnsHolding

\* num_waiters_ and num_contenders_ are exact, so Signal and Broadcast do not
\* overlook a waiter, and no unlock of guard_ leaves a waiter that a Broadcast
\* moved there asleep on a free guard_ (mutex.cc:717, 743, 768).
THEOREM ConditionVariableWakeup == CVSpec => [](WaitersCounted /\ NoLostWaiter)
<1>1. CVInv => WaitersCounted /\ NoLostWaiter
  BY DEF CVInv
<1> QED
  BY <1>1, ConditionVariableInv, PTL
=============================================================================
