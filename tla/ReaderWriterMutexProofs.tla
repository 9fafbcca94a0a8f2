----------------------- MODULE ReaderWriterMutexProofs -----------------------
(***************************************************************************)
(* Proofs about ReaderWriterMutex, for any finite set of threads.          *)
(*                                                                         *)
(* state_ is tied to the sets of readers and writers by their cardinality, *)
(* so that a compare-exchange on a local copy of state_ changes the sets   *)
(* exactly as it changes the word.  NoLostWakeup rests on the exact counts *)
(* of pending threads, as for Mutex.                                       *)
(***************************************************************************)
EXTENDS ReaderWriterMutex, FiniteSetTheorems, TLAPS

SharedPenders == {t \in Thread : pc[t] \in SharedPending}
ExclusivePenders == {t \in Thread : pc[t] \in ExclusivePending}

\* Sets of threads are finite, so that they can be counted.
LEMMA Finite ==
    /\ IsFiniteSet(Readers) /\ Cardinality(Readers) \in Nat
    /\ IsFiniteSet(SharedPenders) /\ Cardinality(SharedPenders) \in Nat
    /\ IsFiniteSet(ExclusivePenders) /\ Cardinality(ExclusivePenders) \in Nat
<1>1. ASSUME NEW S \in SUBSET Thread PROVE IsFiniteSet(S) /\ Cardinality(S) \in Nat
  BY <1>1, ThreadAssumption, FS_Subset, FS_CardinalityType
<1>2. Readers \in SUBSET Thread /\ SharedPenders \in SUBSET Thread /\ ExclusivePenders \in SUBSET Thread
  BY DEF Readers, SharedPenders, ExclusivePenders
<1> QED
  BY <1>1, <1>2

-----------------------------------------------------------------------------
\* A new ReaderWriterMutex (mutex.cc:459) satisfies the inductive invariant.
LEMMA InitInv == Init => Inv
<1> SUFFICES ASSUME Init PROVE Inv
  OBVIOUS
<1>1. Readers = {} /\ Writers = {} /\ SharedPenders = {} /\ ExclusivePenders = {}
  BY DEF Init, Readers, Writers, SharedPenders, ExclusivePenders, SharedOwning, ExclusiveOwning,
     SharedPending, ExclusivePending
<1>2. aborted \in BOOLEAN
  BY Zenon DEF Init
<1>3. TypeOK
  BY <1>2 DEF Init, TypeOK, PC
<1>4. LocalCopies /\ Ownership /\ SleepersWait /\ NoLostWakeup
  BY ThreadAssumption DEF Init, LocalCopies, Ownership, SleepersWait, NoLostWakeup
<1>5. Cardinality({}) = 0
  BY FS_EmptySet
<1>6. Exclusion /\ SharesCounted
  BY <1>1, <1>5 DEF Init, Exclusion, SharesCounted
<1>7. PendingCounted
  BY <1>1, <1>5 DEF Init, PendingCounted, SharedPenders, ExclusivePenders
<1> QED
  BY <1>3, <1>4, <1>6, <1>7 DEF Inv

\* Every step moves program counters within the code and keeps the types.
LEMMA NextTypeOK == TypeOK /\ [Next]_vars => TypeOK'
<1> SUFFICES ASSUME TypeOK, [Next]_vars PROVE TypeOK'
  OBVIOUS
<1> USE DEF TypeOK, PC, SharedPending, ExclusivePending, SharedOwning, ExclusiveOwning, Goto, SetCur,
        pendingVars
<1>1. ASSUME NEW t \in Thread, Call(t) PROVE TypeOK'
  BY <1>1 DEF Call, SharedLock, SharedTryLock, Unlock, SharedUnlock, ExclusiveUnlock, ExclusiveLock,
     Local
<1>2. ASSUME NEW t \in Thread, SharedLoad(t) \/ SharedTryLoad(t) \/ ExclusiveLoad(t) PROVE TypeOK'
  BY <1>2 DEF SharedLoad, SharedTryLoad, ExclusiveLoad, Local
<1>3. ASSUME NEW t \in Thread, SharedCas(t) \/ SharedTryCas(t) \/ ExclusiveCas(t) PROVE TypeOK'
  BY <1>3 DEF SharedCas, SharedTryCas, ExclusiveCas, Cas
<1>4. ASSUME NEW t \in Thread, SharedCount(t) \/ SharedUncount(t) PROVE TypeOK'
  BY <1>4 DEF SharedCount, SharedUncount
<1>5. ASSUME NEW t \in Thread, ExclusiveCount(t) \/ ExclusiveUncount(t) PROVE TypeOK'
  BY <1>5 DEF ExclusiveCount, ExclusiveUncount
<1>6. ASSUME NEW t \in Thread, SharedFutexWait(t) \/ ExclusiveFutexWait(t) PROVE TypeOK'
  BY <1>6 DEF SharedFutexWait, ExclusiveFutexWait, FutexWait
<1>7. ASSUME NEW t \in Thread, SharedFutexReturn(t) \/ ExclusiveFutexReturn(t) PROVE TypeOK'
  BY <1>7 DEF SharedFutexReturn, ExclusiveFutexReturn, FutexReturn
<1>8. ASSUME NEW t \in Thread, BecomeOwner(t) \/ ClearOwner(t) PROVE TypeOK'
  BY <1>8 DEF BecomeOwner, ClearOwner
<1>9. ASSUME NEW t \in Thread, SharedUnlockLoad(t) \/ SharedUnlockCas(t) \/ ExclusiveUnlockCas(t)
      PROVE  TypeOK'
  BY <1>9 DEF SharedUnlockLoad, SharedUnlockCas, ExclusiveUnlockCas, Cas, Local
<1>10. ASSUME NEW t \in Thread, CheckPending(t) PROVE TypeOK'
  BY <1>10 DEF CheckPending, Local
<1>11. ASSUME NEW t \in Thread, WakeAll(t) PROVE TypeOK'
  BY <1>11 DEF WakeAll
<1>12. ASSUME NEW t \in Thread, ExclusiveBroken(t) \/ ExclusiveTooLate(t) PROVE TypeOK'
  BY <1>12 DEF ExclusiveBroken, ExclusiveTooLate
<1>13. ASSUME NEW t \in Thread, SharedInterrupted(t) PROVE TypeOK'
  <2>1. aborted' \in BOOLEAN
    BY <1>13, Zenon DEF SharedInterrupted
  <2> QED
    BY <1>13, <2>1 DEF SharedInterrupted
<1>14. CASE UNCHANGED vars
  BY <1>14 DEF vars
<1> QED
  BY <1>1, <1>2, <1>3, <1>4, <1>5, <1>6, <1>7, <1>8, <1>9, <1>10, <1>11, <1>12, <1>13, <1>14
     DEF Next, LockStep, UnlockStep

-----------------------------------------------------------------------------
\* A compare-exchange changes the sets of readers and writers as it changes
\* state_; all other steps leave both alone.
LEMMA NextSharesCounted ==
    TypeOK /\ LocalCopies /\ Exclusion /\ SharesCounted /\ [Next]_vars
        => (Exclusion /\ SharesCounted)'
<1> SUFFICES ASSUME TypeOK, LocalCopies, Exclusion, SharesCounted, [Next]_vars
             PROVE  (Exclusion /\ SharesCounted)'
  OBVIOUS
<1> DEFINE Same == Readers' = Readers /\ Writers' = Writers /\ state_' = state_
<1>1. ASSUME Same PROVE (Exclusion /\ SharesCounted)'
  BY <1>1 DEF Exclusion, SharesCounted
<1> USE DEF Goto, SetCur, TypeOK, Readers, Writers, SharedOwning, ExclusiveOwning
<1>2. ASSUME NEW t \in Thread, SharedCas(t) \/ SharedTryCas(t), ~Same
      PROVE  (Exclusion /\ SharesCounted)'
  <2>1. state_ >= 0 /\ state_' = state_ + 1
    BY <1>2 DEF SharedCas, SharedTryCas, Cas, LocalCopies
  <2>2. t \notin Readers /\ Readers' = Readers \cup {t}
    BY <1>2 DEF SharedCas, SharedTryCas, Cas
  <2>3. Writers' = Writers
    BY <1>2 DEF SharedCas, SharedTryCas, Cas
  <2>4. Cardinality(Readers') = Cardinality(Readers) + 1
    BY <2>2, Finite, FS_AddElement
  <2>5. Writers = {} /\ state_ = Cardinality(Readers)
    BY <2>1 DEF SharesCounted
  <2> QED
    BY <2>1, <2>3, <2>4, <2>5 DEF Exclusion, SharesCounted
<1>3. ASSUME NEW t \in Thread, SharedUnlockCas(t), ~Same PROVE (Exclusion /\ SharesCounted)'
  <2>1. state_ > 0 /\ state_' = state_ - 1
    BY <1>3 DEF SharedUnlockCas, Cas, LocalCopies
  <2>2. t \in Readers /\ Readers' = Readers \ {t}
    BY <1>3 DEF SharedUnlockCas, Cas
  <2>3. Writers' = Writers
    BY <1>3 DEF SharedUnlockCas, Cas
  <2>4. Cardinality(Readers') = Cardinality(Readers) - 1
    BY <2>2, Finite, FS_RemoveElement
  <2>5. Writers = {} /\ state_ = Cardinality(Readers)
    BY <2>1 DEF SharesCounted
  <2> QED
    BY <2>1, <2>3, <2>4, <2>5 DEF Exclusion, SharesCounted
<1>4. ASSUME NEW t \in Thread, ExclusiveCas(t), ~Same PROVE (Exclusion /\ SharesCounted)'
  <2>1. state_ = 0 /\ state_' = -1
    BY <1>4 DEF ExclusiveCas, Cas, LocalCopies
  <2>2. Readers' = Readers /\ Writers' = Writers \cup {t}
    BY <1>4 DEF ExclusiveCas, Cas
  <2>3. Writers = {} /\ Cardinality(Readers) = 0
    BY <2>1 DEF SharesCounted
  <2>4. Readers = {}
    BY <2>3, Finite, FS_EmptySet
  <2> QED
    BY <2>1, <2>2, <2>3, <2>4 DEF Exclusion, SharesCounted
<1>5. ASSUME NEW t \in Thread, ExclusiveUnlockCas(t), ~Same PROVE (Exclusion /\ SharesCounted)'
  <2>1. state_ = -1 /\ state_' = 0
    BY <1>5 DEF ExclusiveUnlockCas, Cas, LocalCopies
  <2>2. t \in Writers /\ Readers' = Readers /\ Writers' = Writers \ {t}
    BY <1>5 DEF ExclusiveUnlockCas, Cas
  <2>3. Writers' = {} /\ Readers = {}
    BY <2>2 DEF Exclusion
  <2> QED
    BY <2>1, <2>2, <2>3, FS_EmptySet DEF Exclusion, SharesCounted
<1>6. ASSUME NEW t \in Thread, Call(t) PROVE Same
  BY <1>6 DEF Call, SharedLock, SharedTryLock, Unlock, SharedUnlock, ExclusiveUnlock, ExclusiveLock,
     Local, pendingVars
<1>7. ASSUME NEW t \in Thread, SharedLoad(t) \/ SharedTryLoad(t) \/ ExclusiveLoad(t) PROVE Same
  BY <1>7 DEF SharedLoad, SharedTryLoad, ExclusiveLoad, Local
<1>8. ASSUME NEW t \in Thread,
             SharedCount(t) \/ SharedUncount(t) \/ ExclusiveCount(t) \/ ExclusiveUncount(t)
      PROVE  Same
  BY <1>8 DEF SharedCount, SharedUncount, ExclusiveCount, ExclusiveUncount
<1>9. ASSUME NEW t \in Thread,
             \/ SharedFutexWait(t) \/ ExclusiveFutexWait(t)
             \/ SharedFutexReturn(t) \/ ExclusiveFutexReturn(t)
      PROVE  Same
  BY <1>9 DEF SharedFutexWait, ExclusiveFutexWait, FutexWait, SharedFutexReturn,
     ExclusiveFutexReturn, FutexReturn
<1>10. ASSUME NEW t \in Thread, BecomeOwner(t) \/ ClearOwner(t) \/ SharedUnlockLoad(t) PROVE Same
  BY <1>10 DEF BecomeOwner, ClearOwner, SharedUnlockLoad, Local
<1>11. ASSUME NEW t \in Thread, CheckPending(t) \/ WakeAll(t) PROVE Same
  BY <1>11 DEF CheckPending, WakeAll, Local
<1>12. ASSUME NEW t \in Thread, SharedInterrupted(t) \/ ExclusiveBroken(t) \/ ExclusiveTooLate(t)
       PROVE  Same
  BY <1>12 DEF SharedInterrupted, ExclusiveBroken, ExclusiveTooLate
<1>13. CASE UNCHANGED vars
  BY <1>1, <1>13 DEF vars
<1> QED
  BY <1>1, <1>2, <1>3, <1>4, <1>5, <1>6, <1>7, <1>8, <1>9, <1>10, <1>11, <1>12, <1>13
     DEF Next, LockStep, UnlockStep

\* A local copy of state_ is read once and kept until it is used.
LEMMA NextLocalCopies == TypeOK /\ LocalCopies /\ [Next]_vars => LocalCopies'
<1> SUFFICES ASSUME TypeOK, LocalCopies, [Next]_vars PROVE LocalCopies'
  OBVIOUS
<1> USE DEF TypeOK, LocalCopies, Goto, SetCur
<1>1. ASSUME NEW t \in Thread, Call(t) PROVE LocalCopies'
  BY <1>1 DEF Call, SharedLock, SharedTryLock, Unlock, SharedUnlock, ExclusiveUnlock, ExclusiveLock,
     Local, pendingVars
<1>2. ASSUME NEW t \in Thread, SharedLoad(t) \/ SharedTryLoad(t) \/ ExclusiveLoad(t)
      PROVE  LocalCopies'
  BY <1>2 DEF SharedLoad, SharedTryLoad, ExclusiveLoad, Local
<1>3. ASSUME NEW t \in Thread,
             \/ SharedCas(t) \/ SharedTryCas(t) \/ ExclusiveCas(t)
             \/ SharedUnlockCas(t) \/ ExclusiveUnlockCas(t)
      PROVE  LocalCopies'
  BY <1>3 DEF SharedCas, SharedTryCas, ExclusiveCas, SharedUnlockCas, ExclusiveUnlockCas, Cas
<1>4. ASSUME NEW t \in Thread,
             SharedCount(t) \/ SharedUncount(t) \/ ExclusiveCount(t) \/ ExclusiveUncount(t)
      PROVE  LocalCopies'
  BY <1>4 DEF SharedCount, SharedUncount, ExclusiveCount, ExclusiveUncount
<1>5. ASSUME NEW t \in Thread,
             \/ SharedFutexWait(t) \/ ExclusiveFutexWait(t)
             \/ SharedFutexReturn(t) \/ ExclusiveFutexReturn(t)
      PROVE  LocalCopies'
  BY <1>5 DEF SharedFutexWait, ExclusiveFutexWait, FutexWait, SharedFutexReturn,
     ExclusiveFutexReturn, FutexReturn
<1>6. ASSUME NEW t \in Thread, BecomeOwner(t) \/ ClearOwner(t) \/ SharedUnlockLoad(t)
      PROVE  LocalCopies'
  BY <1>6 DEF BecomeOwner, ClearOwner, SharedUnlockLoad, Local
<1>7. ASSUME NEW t \in Thread, CheckPending(t) \/ WakeAll(t) PROVE LocalCopies'
  BY <1>7 DEF CheckPending, WakeAll, Local
<1>8. ASSUME NEW t \in Thread, SharedInterrupted(t) \/ ExclusiveBroken(t) \/ ExclusiveTooLate(t)
      PROVE  LocalCopies'
  BY <1>8 DEF SharedInterrupted, ExclusiveBroken, ExclusiveTooLate
<1>9. CASE UNCHANGED vars
  BY <1>9 DEF vars
<1> QED
  BY <1>1, <1>2, <1>3, <1>4, <1>5, <1>6, <1>7, <1>8, <1>9 DEF Next, LockStep, UnlockStep

\* exclusive_owner_ is changed only by the writer, between the compare-exchange
\* that takes the word and the one that gives it back.
LEMMA NextOwnership ==
    TypeOK /\ LocalCopies /\ Exclusion /\ SharesCounted /\ Ownership /\ [Next]_vars => Ownership'
<1> SUFFICES ASSUME TypeOK, LocalCopies, Exclusion, SharesCounted, Ownership, [Next]_vars
             PROVE  Ownership'
  OBVIOUS
<1>0. /\ \A t, u \in Thread : pc[t] \in ExclusiveOwning /\ pc[u] \in ExclusiveOwning => t = u
      /\ \A t \in Thread : pc[t] \in ExclusiveOwning => state_ = -1
  BY DEF Exclusion, SharesCounted, Writers
<1> USE <1>0, ThreadAssumption DEF TypeOK, Ownership, ExclusiveOwning, Goto, SetCur
<1>1. ASSUME NEW t \in Thread, Call(t) PROVE Ownership'
  BY <1>1 DEF Call, SharedLock, SharedTryLock, Unlock, SharedUnlock, ExclusiveUnlock, ExclusiveLock,
     Local, pendingVars
<1>2. ASSUME NEW t \in Thread, SharedLoad(t) \/ SharedTryLoad(t) \/ ExclusiveLoad(t)
      PROVE  Ownership'
  BY <1>2 DEF SharedLoad, SharedTryLoad, ExclusiveLoad, Local
<1>3. ASSUME NEW t \in Thread, SharedCas(t) \/ SharedTryCas(t) \/ SharedUnlockCas(t)
      PROVE  Ownership'
  BY <1>3 DEF SharedCas, SharedTryCas, SharedUnlockCas, Cas, LocalCopies
<1>4. ASSUME NEW t \in Thread, ExclusiveCas(t) \/ ExclusiveUnlockCas(t) PROVE Ownership'
  BY <1>4 DEF ExclusiveCas, ExclusiveUnlockCas, Cas, LocalCopies
<1>5. ASSUME NEW t \in Thread,
             SharedCount(t) \/ SharedUncount(t) \/ ExclusiveCount(t) \/ ExclusiveUncount(t)
      PROVE  Ownership'
  BY <1>5 DEF SharedCount, SharedUncount, ExclusiveCount, ExclusiveUncount
<1>6. ASSUME NEW t \in Thread,
             \/ SharedFutexWait(t) \/ ExclusiveFutexWait(t)
             \/ SharedFutexReturn(t) \/ ExclusiveFutexReturn(t)
      PROVE  Ownership'
  BY <1>6 DEF SharedFutexWait, ExclusiveFutexWait, FutexWait, SharedFutexReturn,
     ExclusiveFutexReturn, FutexReturn
<1>7. ASSUME NEW t \in Thread, BecomeOwner(t) \/ ClearOwner(t) \/ SharedUnlockLoad(t)
      PROVE  Ownership'
  BY <1>7 DEF BecomeOwner, ClearOwner, SharedUnlockLoad, Local
<1>8. ASSUME NEW t \in Thread, CheckPending(t) \/ WakeAll(t) PROVE Ownership'
  BY <1>8 DEF CheckPending, WakeAll, Local
<1>9. ASSUME NEW t \in Thread, SharedInterrupted(t) \/ ExclusiveBroken(t) \/ ExclusiveTooLate(t)
      PROVE  Ownership'
  BY <1>9 DEF SharedInterrupted, ExclusiveBroken, ExclusiveTooLate
<1>10. CASE UNCHANGED vars
  BY <1>10 DEF vars
<1> QED
  BY <1>1, <1>2, <1>3, <1>4, <1>5, <1>6, <1>7, <1>8, <1>9, <1>10 DEF Next, LockStep, UnlockStep

-----------------------------------------------------------------------------
\* The pending counts follow the sets of pending threads: each changes by one
\* with its set on every way into and out of FUTEX_WAIT, time-outs included.
LEMMA NextPendingCounted == TypeOK /\ PendingCounted /\ [Next]_vars => PendingCounted'
<1> SUFFICES ASSUME TypeOK, PendingCounted, [Next]_vars PROVE PendingCounted'
  OBVIOUS
<1> DEFINE SameReaders == SharedPenders' = SharedPenders /\ UNCHANGED num_pending_readers_
           SameWriters == ExclusivePenders' = ExclusivePenders /\ UNCHANGED num_pending_writers_
           ReadersCounted == num_pending_readers_ = Cardinality(SharedPenders)
           WritersCounted == num_pending_writers_ = Cardinality(ExclusivePenders)
<1>1. ReadersCounted /\ WritersCounted
  BY DEF PendingCounted, SharedPenders, ExclusivePenders
<1>2. ReadersCounted' /\ WritersCounted' => PendingCounted'
  BY DEF PendingCounted, SharedPenders, ExclusivePenders
<1>3. /\ SameReaders => ReadersCounted'
      /\ SameWriters => WritersCounted'
  BY <1>1
<1>4. SameReaders /\ SameWriters => PendingCounted'
  BY <1>2, <1>3
<1> HIDE DEF ReadersCounted, WritersCounted
<1> USE DEF TypeOK, SharedPenders, ExclusivePenders, SharedPending, ExclusivePending, Goto, SetCur,
        pendingVars
<1>5. ASSUME NEW t \in Thread, SharedCount(t) PROVE PendingCounted'
  <2>1. SameWriters /\ t \notin SharedPenders /\ SharedPenders' = SharedPenders \cup {t}
    BY <1>5 DEF SharedCount
  <2>2. num_pending_readers_' = num_pending_readers_ + 1
    BY <1>5 DEF SharedCount
  <2> HIDE DEF SharedPenders
  <2>3. Cardinality(SharedPenders') = Cardinality(SharedPenders) + 1
    BY <2>1, Finite, FS_AddElement
  <2>4. ReadersCounted'
    BY <1>1, <2>2, <2>3 DEF ReadersCounted
  <2> QED
    BY <1>2, <1>3, <2>1, <2>4
<1>6. ASSUME NEW t \in Thread, SharedUncount(t) PROVE PendingCounted'
  <2>1. SameWriters /\ t \in SharedPenders /\ SharedPenders' = SharedPenders \ {t}
    BY <1>6 DEF SharedUncount
  <2>2. num_pending_readers_' = num_pending_readers_ - 1
    BY <1>6 DEF SharedUncount
  <2> HIDE DEF SharedPenders
  <2>3. Cardinality(SharedPenders') = Cardinality(SharedPenders) - 1
    BY <2>1, Finite, FS_RemoveElement
  <2>4. ReadersCounted'
    BY <1>1, <2>2, <2>3 DEF ReadersCounted
  <2> QED
    BY <1>2, <1>3, <2>1, <2>4
<1>7. ASSUME NEW t \in Thread, ExclusiveCount(t) PROVE PendingCounted'
  <2>1. SameReaders /\ t \notin ExclusivePenders /\ ExclusivePenders' = ExclusivePenders \cup {t}
    BY <1>7 DEF ExclusiveCount
  <2>2. num_pending_writers_' = num_pending_writers_ + 1
    BY <1>7 DEF ExclusiveCount
  <2> HIDE DEF ExclusivePenders
  <2>3. Cardinality(ExclusivePenders') = Cardinality(ExclusivePenders) + 1
    BY <2>1, Finite, FS_AddElement
  <2>4. WritersCounted'
    BY <1>1, <2>2, <2>3 DEF WritersCounted
  <2> QED
    BY <1>2, <1>3, <2>1, <2>4
<1>8. ASSUME NEW t \in Thread, ExclusiveUncount(t) PROVE PendingCounted'
  <2>1. SameReaders /\ t \in ExclusivePenders /\ ExclusivePenders' = ExclusivePenders \ {t}
    BY <1>8 DEF ExclusiveUncount
  <2>2. num_pending_writers_' = num_pending_writers_ - 1
    BY <1>8 DEF ExclusiveUncount
  <2> HIDE DEF ExclusivePenders
  <2>3. Cardinality(ExclusivePenders') = Cardinality(ExclusivePenders) - 1
    BY <2>1, Finite, FS_RemoveElement
  <2>4. WritersCounted'
    BY <1>1, <2>2, <2>3 DEF WritersCounted
  <2> QED
    BY <1>2, <1>3, <2>1, <2>4
<1>9. ASSUME NEW t \in Thread, Call(t) PROVE SameReaders /\ SameWriters
  BY <1>9 DEF Call, SharedLock, SharedTryLock, Unlock, SharedUnlock, ExclusiveUnlock, ExclusiveLock,
     Local
<1>10. ASSUME NEW t \in Thread, SharedLoad(t) \/ SharedTryLoad(t) \/ ExclusiveLoad(t)
       PROVE  SameReaders /\ SameWriters
  BY <1>10 DEF SharedLoad, SharedTryLoad, ExclusiveLoad, Local
<1>11. ASSUME NEW t \in Thread,
              \/ SharedCas(t) \/ SharedTryCas(t) \/ ExclusiveCas(t)
              \/ SharedUnlockCas(t) \/ ExclusiveUnlockCas(t)
       PROVE  SameReaders /\ SameWriters
  BY <1>11 DEF SharedCas, SharedTryCas, ExclusiveCas, SharedUnlockCas, ExclusiveUnlockCas, Cas
<1>12. ASSUME NEW t \in Thread,
              \/ SharedFutexWait(t) \/ ExclusiveFutexWait(t)
              \/ SharedFutexReturn(t) \/ ExclusiveFutexReturn(t)
       PROVE  SameReaders /\ SameWriters
  BY <1>12 DEF SharedFutexWait, ExclusiveFutexWait, FutexWait, SharedFutexReturn,
     ExclusiveFutexReturn, FutexReturn
<1>13. ASSUME NEW t \in Thread, BecomeOwner(t) \/ ClearOwner(t) \/ SharedUnlockLoad(t)
       PROVE  SameReaders /\ SameWriters
  BY <1>13 DEF BecomeOwner, ClearOwner, SharedUnlockLoad, Local
<1>14. ASSUME NEW t \in Thread, CheckPending(t) \/ WakeAll(t) PROVE SameReaders /\ SameWriters
  BY <1>14 DEF CheckPending, WakeAll, Local
<1>15. ASSUME NEW t \in Thread, SharedInterrupted(t) \/ ExclusiveBroken(t) \/ ExclusiveTooLate(t)
       PROVE  SameReaders /\ SameWriters
  BY <1>15 DEF SharedInterrupted, ExclusiveBroken, ExclusiveTooLate
<1>16. CASE UNCHANGED vars
  BY <1>4, <1>16 DEF vars
<1> QED
  BY <1>4, <1>5, <1>6, <1>7, <1>8, <1>9, <1>10, <1>11, <1>12, <1>13, <1>14, <1>15, <1>16
     DEF Next, LockStep, UnlockStep

-----------------------------------------------------------------------------
\* A thread enters the futex's queue only in FUTEX_WAIT and leaves the call
\* only when it is out of the queue.
LEMMA NextSleepersWait == TypeOK /\ SleepersWait /\ [Next]_vars => SleepersWait'
<1> SUFFICES ASSUME TypeOK, SleepersWait, [Next]_vars PROVE SleepersWait'
  OBVIOUS
<1> USE DEF TypeOK, SleepersWait, Goto
<1>1. ASSUME NEW t \in Thread, Call(t) PROVE SleepersWait'
  BY <1>1 DEF Call, SharedLock, SharedTryLock, Unlock, SharedUnlock, ExclusiveUnlock, ExclusiveLock,
     Local
<1>2. ASSUME NEW t \in Thread, SharedLoad(t) \/ SharedTryLoad(t) \/ ExclusiveLoad(t)
      PROVE  SleepersWait'
  BY <1>2 DEF SharedLoad, SharedTryLoad, ExclusiveLoad, Local
<1>3. ASSUME NEW t \in Thread,
             \/ SharedCas(t) \/ SharedTryCas(t) \/ ExclusiveCas(t)
             \/ SharedUnlockCas(t) \/ ExclusiveUnlockCas(t)
      PROVE  SleepersWait'
  BY <1>3 DEF SharedCas, SharedTryCas, ExclusiveCas, SharedUnlockCas, ExclusiveUnlockCas, Cas
<1>4. ASSUME NEW t \in Thread,
             SharedCount(t) \/ SharedUncount(t) \/ ExclusiveCount(t) \/ ExclusiveUncount(t)
      PROVE  SleepersWait'
  BY <1>4 DEF SharedCount, SharedUncount, ExclusiveCount, ExclusiveUncount
<1>5. ASSUME NEW t \in Thread,
             \/ SharedFutexWait(t) \/ ExclusiveFutexWait(t)
             \/ SharedFutexReturn(t) \/ ExclusiveFutexReturn(t)
      PROVE  SleepersWait'
  BY <1>5 DEF SharedFutexWait, ExclusiveFutexWait, FutexWait, SharedFutexReturn,
     ExclusiveFutexReturn, FutexReturn
<1>6. ASSUME NEW t \in Thread, BecomeOwner(t) \/ ClearOwner(t) \/ SharedUnlockLoad(t)
      PROVE  SleepersWait'
  BY <1>6 DEF BecomeOwner, ClearOwner, SharedUnlockLoad, Local
<1>7. ASSUME NEW t \in Thread, CheckPending(t) \/ WakeAll(t) PROVE SleepersWait'
  BY <1>7 DEF CheckPending, WakeAll, Local
<1>8. ASSUME NEW t \in Thread, SharedInterrupted(t) \/ ExclusiveBroken(t) \/ ExclusiveTooLate(t)
      PROVE  SleepersWait'
  BY <1>8 DEF SharedInterrupted, ExclusiveBroken, ExclusiveTooLate
<1>9. CASE UNCHANGED vars
  BY <1>9 DEF vars
<1> QED
  BY <1>1, <1>2, <1>3, <1>4, <1>5, <1>6, <1>7, <1>8, <1>9 DEF Next, LockStep, UnlockStep

\* A sleeper is counted among the pending threads of its kind.
LEMMA SleeperCounted ==
    ASSUME TypeOK, PendingCounted, NEW t \in Thread
    PROVE  /\ pc[t] = "s_asleep" => num_pending_readers_ > 0
           /\ pc[t] = "x_asleep" => num_pending_writers_ > 0
<1>1. ASSUME pc[t] = "s_asleep" PROVE num_pending_readers_ > 0
  <2>1. SharedPenders # {}
    BY <1>1 DEF SharedPenders, SharedPending
  <2>2. Cardinality(SharedPenders) # 0
    BY <2>1, Finite, FS_EmptySet
  <2> QED
    BY <2>2, Finite DEF PendingCounted, SharedPenders
<1>2. ASSUME pc[t] = "x_asleep" PROVE num_pending_writers_ > 0
  <2>1. ExclusivePenders # {}
    BY <1>2 DEF ExclusivePenders, ExclusivePending
  <2>2. Cardinality(ExclusivePenders) # 0
    BY <2>1, Finite, FS_EmptySet
  <2> QED
    BY <2>2, Finite DEF PendingCounted, ExclusivePenders
<1> QED
  BY <1>1, <1>2

\* Whoever attends to a sleeper goes on doing so, or has woken another who does.
LEMMA NextNoLostWakeup == Inv /\ [Next]_vars => NoLostWakeup'
<1> SUFFICES ASSUME Inv, [Next]_vars, state_' = 0, NEW t \in futexq'
             PROVE  \E u \in Thread : Attends(u, t)'
  BY DEF NoLostWakeup
<1> USE DEF Inv, TypeOK, Goto, SetCur, Attends
<1>1. ASSUME NEW u \in Thread,
             SharedUnlockCas(u) \/ ExclusiveUnlockCas(u), state_ # 0
      PROVE  Attends(u, t)'
  BY <1>1 DEF SharedUnlockCas, ExclusiveUnlockCas, Cas, LocalCopies
<1>2. ASSUME NEW u \in Thread,
             SharedCas(u) \/ SharedTryCas(u) \/ ExclusiveCas(u), state_ # 0
      PROVE  FALSE
  BY <1>2 DEF SharedCas, SharedTryCas, ExclusiveCas, Cas, LocalCopies
<1>3. ASSUME state_ = 0, t \in futexq,
             NEW v \in Thread, pc'[v] = pc[v], v \notin futexq => v \notin futexq',
             pc'[t] = pc[t], Attends(v, t)
      PROVE  Attends(v, t)'
  BY <1>3
<1>4. ASSUME state_ = 0, t \in futexq PROVE \E v \in Thread : Attends(v, t)
  BY <1>4 DEF NoLostWakeup
<1>5. t \in futexq => pc[t] \in {"s_asleep", "x_asleep"} /\ t \in Thread
  BY DEF SleepersWait
<1>6. ASSUME NEW u \in Thread, Call(u) PROVE \E v \in Thread : Attends(v, t)'
  BY <1>3, <1>4, <1>5, <1>6 DEF Call, SharedLock, SharedTryLock, Unlock, SharedUnlock,
     ExclusiveUnlock, ExclusiveLock, Local
<1>7. ASSUME NEW u \in Thread, SharedLoad(u) \/ SharedTryLoad(u) \/ ExclusiveLoad(u)
      PROVE  \E v \in Thread : Attends(v, t)'
  BY <1>3, <1>4, <1>5, <1>7 DEF SharedLoad, SharedTryLoad, ExclusiveLoad, Local
<1>8. ASSUME NEW u \in Thread, state_ = 0,
             \/ SharedCas(u) \/ SharedTryCas(u) \/ ExclusiveCas(u)
             \/ SharedUnlockCas(u) \/ ExclusiveUnlockCas(u)
      PROVE  \E v \in Thread : Attends(v, t)'
  BY <1>3, <1>4, <1>5, <1>8 DEF SharedCas, SharedTryCas, ExclusiveCas, SharedUnlockCas,
     ExclusiveUnlockCas, Cas, LocalCopies
<1>9. ASSUME NEW u \in Thread,
             SharedCount(u) \/ SharedUncount(u) \/ ExclusiveCount(u) \/ ExclusiveUncount(u)
      PROVE  \E v \in Thread : Attends(v, t)'
  BY <1>3, <1>4, <1>5, <1>9 DEF SharedCount, SharedUncount, ExclusiveCount, ExclusiveUncount
<1>10. ASSUME NEW u \in Thread, SharedFutexWait(u) \/ ExclusiveFutexWait(u)
       PROVE  Attends(u, t)'
  BY <1>10 DEF SharedFutexWait, ExclusiveFutexWait, FutexWait, LocalCopies
<1>11. ASSUME NEW u \in Thread, SharedFutexReturn(u) \/ ExclusiveFutexReturn(u)
       PROVE  Attends(u, t)'
  BY <1>11 DEF SharedFutexReturn, ExclusiveFutexReturn, FutexReturn
<1>12. ASSUME NEW u \in Thread, BecomeOwner(u) \/ ClearOwner(u) \/ SharedUnlockLoad(u)
       PROVE  \E v \in Thread : Attends(v, t)'
  BY <1>3, <1>4, <1>5, <1>12 DEF BecomeOwner, ClearOwner, SharedUnlockLoad, Local
<1>13. ASSUME NEW u \in Thread, CheckPending(u) PROVE \E v \in Thread : Attends(v, t)'
  <2>1. /\ pc[t] = "s_asleep" => num_pending_readers_ > 0
        /\ pc[t] = "x_asleep" => num_pending_writers_ > 0
        /\ state_ = 0 /\ t \in futexq /\ UNCHANGED futexq
    BY <1>5, <1>13, SleeperCounted DEF CheckPending, Local
  <2> QED
    BY <1>3, <1>4, <1>5, <1>13, <2>1 DEF CheckPending, Local
<1>14. ASSUME NEW u \in Thread, WakeAll(u) PROVE \E v \in Thread : Attends(v, t)'
  <2>1. PICK v \in futexq : v \notin futexq'
    BY <1>14 DEF WakeAll
  <2>2. v \in Thread /\ pc[v] \in {"s_asleep", "x_asleep"} /\ pc'[v] = pc[v]
    BY <1>14, <2>1 DEF WakeAll, SleepersWait
  <2> QED
    BY <2>1, <2>2
<1>15. ASSUME NEW u \in Thread, SharedInterrupted(u) \/ ExclusiveBroken(u) \/ ExclusiveTooLate(u)
       PROVE  \E v \in Thread : Attends(v, t)'
  BY <1>3, <1>4, <1>5, <1>15 DEF SharedInterrupted, ExclusiveBroken, ExclusiveTooLate
<1>16. CASE UNCHANGED vars
  BY <1>3, <1>4, <1>16 DEF vars
<1> QED
  BY <1>1, <1>2, <1>6, <1>7, <1>8, <1>9, <1>10, <1>11, <1>12, <1>13, <1>14, <1>15, <1>16
     DEF Next, LockStep, UnlockStep

-----------------------------------------------------------------------------
\* The inductive invariant holds in every reachable state of a
\* ReaderWriterMutex.
THEOREM RWMutexInv == Spec => []Inv
<1>1. Inv /\ [Next]_vars => Inv'
  BY NextTypeOK, NextLocalCopies, NextSharesCounted, NextOwnership, NextPendingCounted,
     NextSleepersWait, NextNoLostWakeup DEF Inv
<1> QED
  BY <1>1, InitInv, PTL DEF Spec

\* A writer excludes writers and readers, and state_ is -1 or the exact number
\* of shares: neither unlock reaches its LOG(FATAL).
THEOREM RWMutexExclusion == Spec => [](Exclusion /\ SharesCounted)
<1>1. Inv => Exclusion /\ SharesCounted
  BY DEF Inv
<1> QED
  BY <1>1, RWMutexInv, PTL

\* The owner that IsExclusiveHeld reports is never stale.
THEOREM RWMutexOwner == Spec => []OwnerFaithful
<1>1. Inv => OwnerFaithful
  <2> SUFFICES ASSUME Inv PROVE OwnerFaithful
    OBVIOUS
  <2>1. ASSUME NEW t \in Thread, exclusive_owner_ = t PROVE pc[t] \in {"exclusive", "xu_clear"}
    <3>1. PICK u \in Thread : pc[u] \in ExclusiveOwning
      BY <2>1, ThreadAssumption DEF Inv, Ownership, SharesCounted, Writers
    <3> QED
      BY <2>1, <3>1, ThreadAssumption DEF Inv, Ownership, ExclusiveOwning
  <2> QED
    BY <2>1 DEF OwnerFaithful, Inv, Ownership
<1> QED
  BY <1>1, RWMutexInv, PTL

\* No unlock leaves a sleeper behind on a free lock, and the counts it relies
\* on are exact whatever signals and time-outs do.
THEOREM RWMutexWakeup == Spec => [](NoLostWakeup /\ PendingCounted)
<1>1. Inv => NoLostWakeup /\ PendingCounted
  BY DEF Inv
<1> QED
  BY <1>1, RWMutexInv, PTL

-----------------------------------------------------------------------------
\* Whoever has exchanged state_ for -1 is the writer of the abstract lock.
LEMMA WriterIs ==
    ASSUME Exclusion
    PROVE  /\ \A t \in Writers : Writer = t
           /\ Writers = {} => Writer = NoThread
  BY DEF Exclusion, Writer, Writers

\* The lock implements AbstractRWLock: its four operations are the successful
\* compare-exchanges, all else is a stutter.
THEOREM RWMutexImplementsRWLock == Spec => ImplementsRWLock
<1>1. Init => Abstract!Init
  BY DEF Init, Abstract!Init, Writer, Writers, Readers, SharedOwning, ExclusiveOwning
<1>2. Inv /\ Inv' /\ [Next]_vars => [Abstract!Next]_<<Writer, Readers>>
  <2> SUFFICES ASSUME Inv, Inv', [Next]_vars PROVE [Abstract!Next]_<<Writer, Readers>>
    OBVIOUS
  <2>1. (\A t \in Writers : Writer = t) /\ (Writers = {} => Writer = NoThread)
    BY WriterIs DEF Inv
  <2>2. (\A t \in Writers' : Writer' = t) /\ (Writers' = {} => Writer' = NoThread)
    BY DEF Inv, Exclusion, Writer, Writers
  <2> DEFINE Same == Readers' = Readers /\ Writers' = Writers
  <2>3. ASSUME Same PROVE UNCHANGED <<Writer, Readers>>
    BY <2>1, <2>2, <2>3
  <2> USE DEF Inv, TypeOK, Goto, SetCur, Readers, Writers, SharedOwning, ExclusiveOwning
  <2>4. ASSUME NEW t \in Thread, SharedCas(t) \/ SharedTryCas(t), ~Same
        PROVE  Abstract!SharedLock(t)
    <3>1. Writers = {} /\ Writers' = {}
      BY <2>4 DEF SharedCas, SharedTryCas, Cas, LocalCopies, SharesCounted
    <3>2. t \notin Readers /\ Readers' = Readers \cup {t}
      BY <2>4 DEF SharedCas, SharedTryCas, Cas
    <3> QED
      BY <2>1, <2>2, <3>1, <3>2 DEF Abstract!SharedLock
  <2>5. ASSUME NEW t \in Thread, SharedUnlockCas(t), ~Same PROVE Abstract!SharedUnlock(t)
    <3>1. Writers = {} /\ Writers' = {}
      BY <2>5 DEF SharedUnlockCas, Cas, LocalCopies, SharesCounted
    <3>2. t \in Readers /\ Readers' = Readers \ {t}
      BY <2>5 DEF SharedUnlockCas, Cas
    <3> QED
      BY <2>1, <2>2, <3>1, <3>2 DEF Abstract!SharedUnlock
  <2>6. ASSUME NEW t \in Thread, ExclusiveCas(t), ~Same PROVE Abstract!ExclusiveLock(t)
    <3>1. Writers = {} /\ t \in Writers' /\ Readers' = Readers
      BY <2>6 DEF ExclusiveCas, Cas, LocalCopies, SharesCounted
    <3>2. Readers = {}
      BY <3>1 DEF Exclusion
    <3> QED
      BY <2>1, <2>2, <3>1, <3>2 DEF Abstract!ExclusiveLock
  <2>7. ASSUME NEW t \in Thread, ExclusiveUnlockCas(t), ~Same PROVE Abstract!ExclusiveUnlock(t)
    <3>1. t \in Writers /\ Writers' = Writers \ {t} /\ Readers' = Readers
      BY <2>7 DEF ExclusiveUnlockCas, Cas
    <3>2. Writers' = {}
      BY <3>1 DEF Exclusion
    <3> QED
      BY <2>1, <2>2, <3>1, <3>2 DEF Abstract!ExclusiveUnlock
  <2>8. ASSUME NEW t \in Thread, Call(t) PROVE Same
    BY <2>8 DEF Call, SharedLock, SharedTryLock, Unlock, SharedUnlock, ExclusiveUnlock,
       ExclusiveLock, Local
  <2>9. ASSUME NEW t \in Thread, SharedLoad(t) \/ SharedTryLoad(t) \/ ExclusiveLoad(t) PROVE Same
    BY <2>9 DEF SharedLoad, SharedTryLoad, ExclusiveLoad, Local
  <2>10. ASSUME NEW t \in Thread,
                SharedCount(t) \/ SharedUncount(t) \/ ExclusiveCount(t) \/ ExclusiveUncount(t)
         PROVE  Same
    BY <2>10 DEF SharedCount, SharedUncount, ExclusiveCount, ExclusiveUncount
  <2>11. ASSUME NEW t \in Thread,
                \/ SharedFutexWait(t) \/ ExclusiveFutexWait(t)
                \/ SharedFutexReturn(t) \/ ExclusiveFutexReturn(t)
         PROVE  Same
    BY <2>11 DEF SharedFutexWait, ExclusiveFutexWait, FutexWait, SharedFutexReturn,
       ExclusiveFutexReturn, FutexReturn
  <2>12. ASSUME NEW t \in Thread, BecomeOwner(t) \/ ClearOwner(t) \/ SharedUnlockLoad(t) PROVE Same
    BY <2>12 DEF BecomeOwner, ClearOwner, SharedUnlockLoad, Local
  <2>13. ASSUME NEW t \in Thread, CheckPending(t) \/ WakeAll(t) PROVE Same
    BY <2>13 DEF CheckPending, WakeAll, Local
  <2>14. ASSUME NEW t \in Thread,
                SharedInterrupted(t) \/ ExclusiveBroken(t) \/ ExclusiveTooLate(t)
         PROVE  Same
    BY <2>14 DEF SharedInterrupted, ExclusiveBroken, ExclusiveTooLate
  <2>15. CASE UNCHANGED vars
    BY <2>3, <2>15 DEF vars
  <2> HIDE DEF Same
  <2> QED
    BY <2>3, <2>4, <2>5, <2>6, <2>7, <2>8, <2>9, <2>10, <2>11, <2>12, <2>13, <2>14, <2>15
       DEF Next, LockStep, UnlockStep, Abstract!Next
<1> QED
  BY <1>1, <1>2, RWMutexInv, PTL DEF Spec, ImplementsRWLock, Abstract!Spec
=============================================================================
