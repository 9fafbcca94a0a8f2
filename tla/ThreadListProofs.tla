-------------------------- MODULE ThreadListProofs --------------------------
(***************************************************************************)
(* Proofs about ThreadList, for any finite set of threads and any number   *)
(* of suspensions.                                                         *)
(*                                                                         *)
(* Everything rests on exact counting: the suspend count of an attached    *)
(* thread is the number of threads that are stopping the world plus the    *)
(* number that suspend it.  So a count is positive as long as anyone wants *)
(* the thread suspended, the request flag follows, and the flag keeps the  *)
(* thread out of the Runnable state and in the list.                       *)
(***************************************************************************)
EXTENDS ThreadList, FiniteSetTheorems, TLAPS

Stoppers == {u \in Thread : StoppingTheWorld(u)}
StoppersBut(t) == {u \in Thread \ {t} : StoppingTheWorld(u)}
SuspendersOf(t) == {u \in Thread : Suspending(u, t)}

\* The steps that leave counts, flags, the list and all requests alone.
QuietStep(t) ==
    \/ (TransitionStep(t) \/ SpuriousWakeup(t) \/ TransitionCall(t)) /\ UNCHANGED listVars
    \/ Unregister(t) \/ LockMutator(t) \/ ResumeAll(t) \/ ResumeWake(t)

\* The steps of Next, the quiet ones taken together.
LEMMA NextCases ==
    ASSUME Next
    PROVE  \E t \in Thread :
               \/ QuietStep(t) \/ Register(t) \/ RemoveFromList(t) \/ SuspendAll(t)
               \/ ResumeAllWake(t) \/ SuspendThreadStep(t) \/ Resume(t)
               \/ \E u \in Thread : SuspendThread(t, u)
BY DEF Next, InternalStep, FreeCall, SuspendThreadAgain, QuietStep, TransitionCall

\* Sets of threads are finite, so that they can be counted.
LEMMA Finite ==
    ASSUME NEW S \in SUBSET Thread
    PROVE  IsFiniteSet(S) /\ Cardinality(S) \in Nat /\ (S # {} => Cardinality(S) > 0)
<1>1. IsFiniteSet(S) /\ Cardinality(S) \in Nat
  BY ThreadAssumption, FS_Subset, FS_CardinalityType
<1>2. Cardinality(S) = 0 <=> S = {}
  BY <1>1, FS_EmptySet
<1> QED
  BY <1>1, <1>2

\* Adding a thread to a set, or removing one, changes its size by one.
LEMMA Counting ==
    ASSUME NEW S \in SUBSET Thread, NEW t \in Thread
    PROVE  /\ t \notin S => Cardinality(S \cup {t}) = Cardinality(S) + 1
           /\ t \in S => Cardinality(S \ {t}) = Cardinality(S) - 1
BY Finite, FS_AddElement, FS_RemoveElement

\* The sets that are counted are sets of threads.
LEMMA Counted ==
    ASSUME NEW t
    PROVE  /\ Stoppers \in SUBSET Thread /\ StoppersBut(t) \in SUBSET Thread
           /\ SuspendersOf(t) \in SUBSET Thread
           /\ StoppersBut(t) = Stoppers \ {t}
BY DEF Stoppers, StoppersBut, SuspendersOf

\* Who is wanted suspended by anyone has a positive count.
CountPositive ==
    \A t \in Thread :
        /\ StoppingTheWorld(t) => suspend_all_count_ > 0
        /\ \A u \in list_ \ {t} : StoppingTheWorld(t) => suspend_count[u] > 0
        /\ \A u \in list_ : Suspending(t, u) => suspend_count[u] > 0

\* Whoever lowers a count (ResumeAll, Resume, the time-out) finds it positive.
LEMMA Positive == TypeOK /\ RequestsCounted /\ CountsBalanced => CountPositive
<1> SUFFICES ASSUME TypeOK, RequestsCounted, CountsBalanced, NEW t \in Thread
             PROVE  /\ StoppingTheWorld(t) => suspend_all_count_ > 0
                    /\ \A u \in list_ \ {t} : StoppingTheWorld(t) => suspend_count[u] > 0
                    /\ \A u \in list_ : Suspending(t, u) => suspend_count[u] > 0
  BY DEF CountPositive
<1>1. StoppingTheWorld(t) => suspend_all_count_ > 0
  <2>1. StoppingTheWorld(t) => Stoppers # {}
    BY DEF Stoppers
  <2> QED
    BY <2>1, Counted, Finite DEF RequestsCounted, Stoppers
<1>2. ASSUME NEW u \in list_
      PROVE  /\ u # t /\ StoppingTheWorld(t) => suspend_count[u] > 0
             /\ Suspending(t, u) => suspend_count[u] > 0
  <2>1. /\ StoppingTheWorld(t) /\ u # t => StoppersBut(u) # {}
        /\ Suspending(t, u) => SuspendersOf(u) # {}
    BY DEF StoppersBut, SuspendersOf
  <2>2. suspend_count[u] = Cardinality(StoppersBut(u)) + Cardinality(SuspendersOf(u))
    BY DEF CountsBalanced, StoppersBut, SuspendersOf
  <2>3. /\ Cardinality(StoppersBut(u)) \in Nat /\ Cardinality(SuspendersOf(u)) \in Nat
        /\ StoppersBut(u) # {} => Cardinality(StoppersBut(u)) > 0
        /\ SuspendersOf(u) # {} => Cardinality(SuspendersOf(u)) > 0
    BY Counted, Finite
  <2> QED
    BY <2>1, <2>2, <2>3
<1> QED
  BY <1>1, <1>2

-----------------------------------------------------------------------------
\* At the start nobody is attached and the inductive invariant holds.
LEMMA InitInv == Init => Inv
<1> SUFFICES ASSUME Init PROVE Inv
  OBVIOUS
<1> USE DEF Init, StateInit
<1>1. TypeOK
  BY CallsAssumption DEF TypeOK, StateTypeOK, TransitionPC
<1>2. StateAt
  BY ThreadAssumption DEF StateAt
<1>3. MutatorLockExclusion /\ FlagFollowsCount /\ CountsBalanced /\ TargetStays /\ ResumeNotLost
  BY DEF MutatorLockExclusion, FlagFollowsCount, CountsBalanced, TargetStays, ResumeNotLost
<1>4. RequestsCounted
  <2>1. {u \in Thread : StoppingTheWorld(u)} = {}
    BY DEF StoppingTheWorld
  <2> QED
    BY <2>1, FS_EmptySet DEF RequestsCounted
<1>5. NoSuspendCycle
  BY DEF NoSuspendCycle, Suspending
<1> QED
  BY <1>1, <1>2, <1>3, <1>4, <1>5 DEF Inv

-----------------------------------------------------------------------------
\* Quiet steps change none of what is counted.
LEMMA Quiet ==
    ASSUME TypeOK, NEW t \in Thread, QuietStep(t)
    PROVE  /\ UNCHANGED <<suspend_count, flags, listVars>>
           /\ \A u \in Thread : StoppingTheWorld(u)' = StoppingTheWorld(u)
<1> USE DEF TypeOK, StoppingTheWorld, Goto, listVars
<1>1. CASE TransitionStep(t) /\ UNCHANGED listVars
  BY <1>1 DEF TransitionStep, SeeCheckpoint, LeaveRunnable, ReleaseShare, LoadFlags,
     WaitWhileRequested, Woken, AcquireShare, BecomeRunnable, FailToRun
<1>2. CASE (SpuriousWakeup(t) \/ TransitionCall(t)) /\ UNCHANGED listVars
  BY <1>2 DEF SpuriousWakeup, TransitionCall, TransitionFromRunnableToSuspended,
     TransitionFromSuspendedToRunnable
<1>3. CASE Unregister(t) \/ LockMutator(t) \/ ResumeAll(t) \/ ResumeWake(t)
  BY <1>3 DEF Unregister, LockMutator, ResumeAll, ResumeWake
<1> QED
  BY <1>1, <1>2, <1>3 DEF QuietStep

\* The types are kept; a count is lowered only while it is positive.
LEMMA NextTypeOK == Inv /\ [Next]_threadListVars => TypeOK'
<1> SUFFICES ASSUME Inv, [Next]_threadListVars PROVE TypeOK'
  OBVIOUS
<1> TypeOK /\ TargetStays /\ CountPositive
  BY Positive DEF Inv
<1> USE DEF TypeOK, StateTypeOK, TransitionPC, Goto
<1>1. ASSUME NEW t \in Thread, QuietStep(t) PROVE TypeOK'
  <2> USE DEF listVars
  <2>1. CASE TransitionStep(t) /\ UNCHANGED listVars
    BY <2>1 DEF TransitionStep, SeeCheckpoint, LeaveRunnable, ReleaseShare, LoadFlags,
       WaitWhileRequested, Woken, AcquireShare, BecomeRunnable, FailToRun
  <2>2. CASE (SpuriousWakeup(t) \/ TransitionCall(t)) /\ UNCHANGED listVars
    BY <2>2 DEF SpuriousWakeup, TransitionCall, TransitionFromRunnableToSuspended,
       TransitionFromSuspendedToRunnable
  <2>3. CASE Unregister(t) \/ LockMutator(t) \/ ResumeAll(t) \/ ResumeWake(t)
    BY <2>3 DEF Unregister, LockMutator, ResumeAll, ResumeWake, BroadcastResume
  <2> QED
    BY <1>1, <2>1, <2>2, <2>3 DEF QuietStep
<1>2. ASSUME NEW t \in Thread, Register(t) \/ RemoveFromList(t) PROVE TypeOK'
  BY <1>2 DEF Register, RemoveFromList
<1>3. ASSUME NEW t \in Thread, SuspendAll(t) PROVE TypeOK'
  BY <1>3, CallsAssumption DEF SuspendAll, ModifySuspendCount, StartCall
<1>4. ASSUME NEW t \in Thread, ResumeAllWake(t) PROVE TypeOK'
  <2>1. StoppingTheWorld(t)
    BY <1>4 DEF ResumeAllWake, StoppingTheWorld
  <2>2. suspend_all_count_ > 0 /\ \A u \in list_ \ {t} : suspend_count[u] > 0
    BY <2>1 DEF CountPositive
  <2> QED
    BY <1>4, <2>2 DEF ResumeAllWake, ModifySuspendCount, BroadcastResume
<1>5. ASSUME NEW t \in Thread, NEW u \in Thread, SuspendThread(t, u) PROVE TypeOK'
  BY <1>5, CallsAssumption DEF SuspendThread, SetRequest, StartCall
<1>6. ASSUME NEW t \in Thread, Resume(t) \/ SuspendThreadStep(t) PROVE TypeOK'
  <2>1. request[t] \in {"raised", "held"} => target[t] \in list_ /\ suspend_count[target[t]] > 0
    BY DEF CountPositive, TargetStays, Suspending
  <2>2. CASE Resume(t)
    BY <2>1, <2>2 DEF Resume, ModifySuspendCount, SetRequest
  <2>3. ASSUME SuspendThreadStep(t), NotFound(t) \/ GiveWay(t) \/ PollSuspended(t) PROVE TypeOK'
    BY <2>3 DEF SuspendThreadStep, NotFound, GiveWay, PollSuspended, SetRequest
  <2>4. ASSUME SuspendThreadStep(t), RaiseCount(t) PROVE TypeOK'
    BY <2>4 DEF SuspendThreadStep, RaiseCount, ModifySuspendCount, SetRequest
  <2>5. ASSUME SuspendThreadStep(t), TimeOut(t) PROVE TypeOK'
    BY <2>1, <2>5 DEF SuspendThreadStep, TimeOut, ModifySuspendCount, SetRequest
  <2> QED
    BY <1>6, <2>2, <2>3, <2>4, <2>5 DEF SuspendThreadStep
<1>7. CASE UNCHANGED threadListVars
  BY <1>7 DEF threadListVars, stateVars, listVars
<1> QED
  BY <1>1, <1>2, <1>3, <1>4, <1>5, <1>6, <1>7, NextCases

\* State words, shares, exclusive holder, list and sleepers follow the program
\* counters, and mutator_lock_ excludes readers while it has a writer.
LEMMA NextStateAt ==
    TypeOK /\ StateAt /\ MutatorLockExclusion /\ [Next]_threadListVars
        => StateAt' /\ MutatorLockExclusion'
<1> SUFFICES ASSUME TypeOK, StateAt, MutatorLockExclusion, [Next]_threadListVars
             PROVE  StateAt' /\ MutatorLockExclusion'
  OBVIOUS
<1> USE ThreadAssumption DEF TypeOK, StateTypeOK, TransitionPC, Goto, StateAt, MutatorLockExclusion
<1>1. ASSUME NEW t \in Thread, TransitionStep(t), UNCHANGED listVars
      PROVE  StateAt' /\ MutatorLockExclusion'
  <2> USE DEF listVars
  <2>1. CASE SeeCheckpoint(t) \/ LeaveRunnable(t)
    BY <1>1, <2>1 DEF SeeCheckpoint, LeaveRunnable
  <2>2. CASE ReleaseShare(t)
    BY <1>1, <2>2 DEF ReleaseShare
  <2>3. CASE LoadFlags(t) \/ FailToRun(t)
    BY <1>1, <2>3 DEF LoadFlags, FailToRun
  <2>4. CASE WaitWhileRequested(t) \/ Woken(t)
    BY <1>1, <2>4 DEF WaitWhileRequested, Woken
  <2>5. CASE AcquireShare(t) \/ BecomeRunnable(t)
    BY <1>1, <2>5 DEF AcquireShare, BecomeRunnable
  <2> QED
    BY <1>1, <2>1, <2>2, <2>3, <2>4, <2>5 DEF TransitionStep
<1>2. ASSUME NEW t \in Thread, SpuriousWakeup(t) \/ TransitionCall(t), UNCHANGED listVars
      PROVE  StateAt' /\ MutatorLockExclusion'
  BY <1>2 DEF SpuriousWakeup, TransitionCall, TransitionFromRunnableToSuspended,
     TransitionFromSuspendedToRunnable, listVars
<1>3. ASSUME NEW t \in Thread, Unregister(t) \/ LockMutator(t) \/ ResumeAll(t)
      PROVE  StateAt' /\ MutatorLockExclusion'
  BY <1>3 DEF Unregister, LockMutator, ResumeAll, listVars
<1>4. ASSUME NEW t \in Thread, ResumeWake(t) \/ ResumeAllWake(t)
      PROVE  StateAt' /\ MutatorLockExclusion'
  BY <1>4 DEF ResumeWake, ResumeAllWake, BroadcastResume, listVars
<1>5. ASSUME NEW t \in Thread, Register(t) \/ RemoveFromList(t) \/ SuspendAll(t)
      PROVE  StateAt' /\ MutatorLockExclusion'
  BY <1>5 DEF Register, RemoveFromList, SuspendAll
<1>6. ASSUME NEW t \in Thread, SuspendThreadStep(t) \/ Resume(t) \/ \E u \in Thread : SuspendThread(t, u)
      PROVE  StateAt' /\ MutatorLockExclusion'
  BY <1>6 DEF SuspendThreadStep, Resume, SuspendThread
<1>7. CASE UNCHANGED threadListVars
  BY <1>7 DEF threadListVars, stateVars, listVars
<1> QED
  BY <1>1, <1>2, <1>3, <1>4, <1>5, <1>6, <1>7, NextCases DEF QuietStep

\* ModifySuspendCount keeps the request flag in step with the count.
LEMMA ModifyFollows ==
    ASSUME TypeOK, TypeOK', FlagFollowsCount, NEW S, NEW delta \in Int, ModifySuspendCount(S, delta)
    PROVE  FlagFollowsCount'
BY DEF TypeOK, StateTypeOK, FlagFollowsCount, ModifySuspendCount

\* The request flag follows the suspend count in every step.
LEMMA NextFlagFollowsCount == Inv /\ [Next]_threadListVars => FlagFollowsCount'
<1> SUFFICES ASSUME Inv, [Next]_threadListVars PROVE FlagFollowsCount'
  OBVIOUS
<1> TypeOK /\ FlagFollowsCount /\ TypeOK'
  BY NextTypeOK DEF Inv
<1>1. ASSUME UNCHANGED <<suspend_count, flags>> PROVE FlagFollowsCount'
  BY <1>1 DEF FlagFollowsCount
<1>2. ASSUME NEW t \in Thread, Register(t) PROVE FlagFollowsCount'
  BY <1>2 DEF Register, FlagFollowsCount, TypeOK, StateTypeOK
<1>3. ASSUME NEW t \in Thread, SuspendAll(t) \/ ResumeAllWake(t) \/ Resume(t)
      PROVE  FlagFollowsCount'
  BY <1>3, ModifyFollows DEF SuspendAll, ResumeAllWake, Resume
<1>4. ASSUME NEW t \in Thread, SuspendThreadStep(t) PROVE FlagFollowsCount'
  <2>1. CASE NotFound(t) \/ GiveWay(t) \/ PollSuspended(t)
    BY <1>1, <2>1 DEF NotFound, GiveWay, PollSuspended
  <2>2. CASE RaiseCount(t) \/ TimeOut(t)
    BY <2>2, ModifyFollows DEF RaiseCount, TimeOut
  <2> QED
    BY <1>4, <2>1, <2>2 DEF SuspendThreadStep
<1>5. ASSUME NEW t \in Thread, RemoveFromList(t) \/ \E u \in Thread : SuspendThread(t, u)
      PROVE  FlagFollowsCount'
  BY <1>1, <1>5 DEF RemoveFromList, SuspendThread
<1>6. ASSUME NEW t \in Thread, QuietStep(t) PROVE FlagFollowsCount'
  BY <1>1, <1>6, Quiet
<1>7. CASE UNCHANGED threadListVars
  BY <1>1, <1>7 DEF threadListVars, stateVars
<1> QED
  BY <1>2, <1>3, <1>4, <1>5, <1>6, <1>7, NextCases

-----------------------------------------------------------------------------
\* The same sets with the same counts stay balanced.
LEMMA SameCounts ==
    ASSUME RequestsCounted, CountsBalanced, list_' \subseteq list_,
           \A u \in Thread : StoppingTheWorld(u)' = StoppingTheWorld(u),
           \A u \in Thread, v \in list_ : Suspending(u, v)' = Suspending(u, v),
           UNCHANGED <<suspend_count, suspend_all_count_>>,
           \A t \in Thread : request'[t] # "none" => target'[t] \in Thread \ {t}
    PROVE  RequestsCounted' /\ CountsBalanced'
<1>1. Stoppers' = Stoppers
  BY DEF Stoppers
<1>2. \A v \in list_ : StoppersBut(v)' = StoppersBut(v) /\ SuspendersOf(v)' = SuspendersOf(v)
  BY DEF StoppersBut, SuspendersOf
<1>3. RequestsCounted'
  BY <1>1 DEF RequestsCounted, Stoppers
<1>4. CountsBalanced'
  BY <1>2 DEF CountsBalanced, StoppersBut, SuspendersOf
<1> QED
  BY <1>3, <1>4

\* The definition of the balance in the words of this module.
LEMMA Balance ==
    /\ RequestsCounted <=> /\ suspend_all_count_ = Cardinality(Stoppers)
                           /\ \A t \in Thread : request[t] # "none" => target[t] \in Thread \ {t}
    /\ CountsBalanced <=> \A t \in list_ : suspend_count[t] = Cardinality(StoppersBut(t))
                                                              + Cardinality(SuspendersOf(t))
BY DEF RequestsCounted, CountsBalanced, Stoppers, StoppersBut, SuspendersOf

\* SuspendAll and ResumeAll change the count of every other thread in the list
\* by one, and the set of the threads that stop the world by their caller.
LEMMA StopCounts ==
    ASSUME Inv, NEW t \in Thread, SuspendAll(t) \/ ResumeAllWake(t)
    PROVE  RequestsCounted' /\ CountsBalanced'
<1> TypeOK /\ RequestsCounted /\ CountsBalanced /\ StateAt
  BY DEF Inv
<1>1. list_' = list_ /\ request' = request /\ target' = target
  BY DEF SuspendAll, ResumeAllWake
<1>2. \A u \in list_ : SuspendersOf(u)' = SuspendersOf(u)
  BY <1>1 DEF SuspendersOf, Suspending
<1>3. \A u \in Thread : StoppersBut(u) = Stoppers \ {u} /\ StoppersBut(u)' = Stoppers' \ {u}
  BY DEF Stoppers, StoppersBut
<1>4. Stoppers \in SUBSET Thread /\ Stoppers' \in SUBSET Thread /\ list_ \in SUBSET Thread
  BY DEF Stoppers, TypeOK
<1>5. \A u \in list_ : /\ Cardinality(SuspendersOf(u)) \in Nat
                       /\ Cardinality(Stoppers \ {u}) \in Nat
                       /\ Cardinality(Stoppers) \in Nat
  BY <1>4, Counted, Finite
<1>6. CASE SuspendAll(t)
  <2>1. t \notin Stoppers /\ Stoppers' = Stoppers \cup {t}
    BY <1>6 DEF SuspendAll, Stoppers, StoppingTheWorld, Goto, TypeOK
  <2>2. /\ suspend_all_count_' = suspend_all_count_ + 1
        /\ \A u \in list_ : suspend_count'[u] = suspend_count[u] + (IF u = t THEN 0 ELSE 1)
    BY <1>6, <1>4 DEF SuspendAll, ModifySuspendCount, TypeOK, StateTypeOK
  <2>3. Cardinality(Stoppers') = Cardinality(Stoppers) + 1
    BY <2>1, <1>4, Counting
  <2>4. ASSUME NEW u \in list_
        PROVE  Cardinality(StoppersBut(u)') = Cardinality(StoppersBut(u)) + (IF u = t THEN 0 ELSE 1)
    <3>1. CASE u = t
      <4>1. StoppersBut(u)' = StoppersBut(u)
        BY <3>1, <2>1, <1>3
      <4>2. Cardinality(StoppersBut(u)) \in Nat
        BY <1>3, <1>4, <1>5
      <4> QED
        BY <3>1, <4>1, <4>2
    <3>2. CASE u # t
      <4>1. Stoppers' \ {u} = (Stoppers \ {u}) \cup {t}
        BY <3>2, <2>1
      <4>2. Cardinality((Stoppers \ {u}) \cup {t}) = Cardinality(Stoppers \ {u}) + 1
        BY <2>1, <1>4, Counting
      <4> QED
        BY <3>2, <4>1, <4>2, <1>3, <1>4
    <3> QED
      BY <3>1, <3>2
  <2>5. RequestsCounted'
    BY <1>1, <2>2, <2>3 DEF RequestsCounted, Stoppers
  <2>6. ASSUME NEW u \in list_
        PROVE  suspend_count'[u] = Cardinality(StoppersBut(u)') + Cardinality(SuspendersOf(u)')
    BY <1>2, <1>3, <1>4, <1>5, <2>2, <2>4, Balance
  <2> QED
    BY <1>1, <2>5, <2>6 DEF CountsBalanced, StoppersBut, SuspendersOf
<1>7. CASE ResumeAllWake(t)
  <2>1. t \in Stoppers /\ Stoppers' = Stoppers \ {t}
    BY <1>7 DEF ResumeAllWake, Stoppers, StoppingTheWorld, Goto, TypeOK
  <2>2. /\ suspend_all_count_' = suspend_all_count_ - 1
        /\ \A u \in list_ : suspend_count'[u] = suspend_count[u] - (IF u = t THEN 0 ELSE 1)
    BY <1>7, <1>4 DEF ResumeAllWake, ModifySuspendCount, TypeOK, StateTypeOK
  <2>3. Cardinality(Stoppers') = Cardinality(Stoppers) - 1
    BY <2>1, <1>4, Counting
  <2>4. ASSUME NEW u \in list_
        PROVE  Cardinality(StoppersBut(u)') = Cardinality(StoppersBut(u)) - (IF u = t THEN 0 ELSE 1)
    <3>1. CASE u = t
      <4>1. StoppersBut(u)' = StoppersBut(u)
        BY <3>1, <2>1, <1>3
      <4>2. Cardinality(StoppersBut(u)) \in Nat
        BY <1>3, <1>4, <1>5
      <4> QED
        BY <3>1, <4>1, <4>2
    <3>2. CASE u # t
      <4>1. Stoppers' \ {u} = (Stoppers \ {u}) \ {t}
        BY <3>2, <2>1
      <4>2. Cardinality((Stoppers \ {u}) \ {t}) = Cardinality(Stoppers \ {u}) - 1
        BY <2>1, <3>2, <1>4, Counting
      <4> QED
        BY <3>2, <4>1, <4>2, <1>3, <1>4
    <3> QED
      BY <3>1, <3>2
  <2>5. RequestsCounted'
    BY <1>1, <2>2, <2>3 DEF RequestsCounted, Stoppers
  <2>6. ASSUME NEW u \in list_
        PROVE  suspend_count'[u] = Cardinality(StoppersBut(u)') + Cardinality(SuspendersOf(u)')
    BY <1>2, <1>3, <1>4, <1>5, <2>2, <2>4, Balance
  <2> QED
    BY <1>1, <2>5, <2>6 DEF CountsBalanced, StoppersBut, SuspendersOf
<1> QED
  BY <1>6, <1>7

\* SuspendThreadByThreadId and Resume change the count of their target by one,
\* and the set of the threads that suspend it by their caller.
LEMMA TargetCounts ==
    ASSUME Inv, NEW t \in Thread, Resume(t) \/ SuspendThreadStep(t)
    PROVE  RequestsCounted' /\ CountsBalanced'
<1> TypeOK /\ RequestsCounted /\ CountsBalanced /\ TargetStays
  BY DEF Inv
<1>1. list_' = list_ /\ suspend_all_count_' = suspend_all_count_
  BY DEF SuspendThreadStep, Resume
<1>2. \A u \in Thread : StoppingTheWorld(u)' = StoppingTheWorld(u)
  BY DEF SuspendThreadStep, Resume, StoppingTheWorld, Goto, TypeOK
<1>3. \A u \in Thread : request'[u] # "none" => target'[u] \in Thread \ {u}
  BY DEF SuspendThreadStep, Resume, NotFound, GiveWay, RaiseCount, PollSuspended, TimeOut, SetRequest,
     TypeOK, RequestsCounted, InSuspendThread
<1>4. ASSUME SuspendThreadStep(t), NotFound(t) \/ GiveWay(t) \/ PollSuspended(t)
      PROVE  RequestsCounted' /\ CountsBalanced'
  <2>1. UNCHANGED suspend_count
    BY <1>4 DEF NotFound, GiveWay, PollSuspended
  <2>2. \A u \in Thread, v \in list_ : Suspending(u, v)' = Suspending(u, v)
    BY <1>4 DEF SuspendThreadStep, InSuspendThread, NotFound, GiveWay, PollSuspended, SetRequest,
       TargetStays, Suspending, TypeOK
  <2> QED
    BY <1>1, <1>2, <1>3, <2>1, <2>2, SameCounts
<1>5. RequestsCounted'
  <2>1. Stoppers' = Stoppers
    BY <1>2 DEF Stoppers
  <2> QED
    BY <1>1, <1>3, <2>1 DEF RequestsCounted, Stoppers
<1>6. \A u \in list_ : StoppersBut(u)' = StoppersBut(u)
  BY <1>2 DEF StoppersBut
<1>7. \A u \in list_ : /\ SuspendersOf(u) \in SUBSET Thread
                       /\ Cardinality(StoppersBut(u)) \in Nat /\ Cardinality(SuspendersOf(u)) \in Nat
  BY Counted, Finite
<1>8. ASSUME SuspendThreadStep(t), RaiseCount(t) PROVE CountsBalanced'
  <2>1. ASSUME NEW u \in list_
        PROVE  suspend_count'[u] = Cardinality(StoppersBut(u)') + Cardinality(SuspendersOf(u)')
    <3>1. suspend_count'[u] = suspend_count[u] + (IF u = target[t] THEN 1 ELSE 0)
      BY <1>8 DEF RaiseCount, ModifySuspendCount, TypeOK
    <3>2. SuspendersOf(u)' = IF u = target[t] THEN SuspendersOf(u) \cup {t} ELSE SuspendersOf(u)
      BY <1>8 DEF RaiseCount, SetRequest, SuspendersOf, Suspending, TypeOK
    <3>3. t \notin SuspendersOf(u)
      BY <1>8 DEF RaiseCount, SuspendersOf, Suspending
    <3>4. Cardinality(SuspendersOf(u)') = Cardinality(SuspendersOf(u)) + (IF u = target[t] THEN 1 ELSE 0)
      BY <1>7, <3>2, <3>3, Counting
    <3> QED
      BY <1>6, <1>7, <3>1, <3>4, Balance
  <2> QED
    BY <1>1, <2>1 DEF CountsBalanced, StoppersBut, SuspendersOf
<1>9. ASSUME Resume(t) \/ (SuspendThreadStep(t) /\ TimeOut(t)) PROVE CountsBalanced'
  <2>1. ASSUME NEW u \in list_
        PROVE  suspend_count'[u] = Cardinality(StoppersBut(u)') + Cardinality(SuspendersOf(u)')
    <3>1. suspend_count'[u] = suspend_count[u] - (IF u = target[t] THEN 1 ELSE 0)
      BY <1>9 DEF Resume, TimeOut, ModifySuspendCount, TypeOK, StateTypeOK
    <3>2. SuspendersOf(u)' = SuspendersOf(u) \ {t}
      BY <1>9 DEF Resume, TimeOut, SetRequest, SuspendersOf, Suspending, TypeOK
    <3>3. t \in SuspendersOf(u) <=> u = target[t]
      BY <1>9 DEF Resume, TimeOut, SuspendersOf, Suspending
    <3>4. Cardinality(SuspendersOf(u)') = Cardinality(SuspendersOf(u)) - (IF u = target[t] THEN 1 ELSE 0)
      <4>1. CASE u = target[t]
        BY <4>1, <1>7, <3>2, <3>3, Counting
      <4>2. CASE u # target[t]
        <5>1. SuspendersOf(u)' = SuspendersOf(u)
          BY <4>2, <3>2, <3>3
        <5> QED
          BY <4>2, <5>1, <1>7
      <4> QED
        BY <4>1, <4>2
    <3> QED
      BY <1>6, <1>7, <3>1, <3>4, Balance
  <2> QED
    BY <1>1, <2>1 DEF CountsBalanced, StoppersBut, SuspendersOf
<1> QED
  BY <1>4, <1>5, <1>8, <1>9 DEF SuspendThreadStep

\* A thread that attaches starts with the count of the SuspendAll calls under
\* way, and nobody suspends a thread that was not in the list.
LEMMA RegisterCounts ==
    ASSUME Inv, NEW t \in Thread, Register(t)
    PROVE  RequestsCounted' /\ CountsBalanced'
<1> TypeOK /\ RequestsCounted /\ CountsBalanced /\ TargetStays /\ StateAt
  BY DEF Inv
<1>1. Stoppers' = Stoppers /\ t \notin Stoppers
  BY DEF Register, Goto, Stoppers, StoppingTheWorld, TypeOK
<1>2. \A u \in Thread : /\ StoppersBut(u)' = StoppersBut(u)
                        /\ SuspendersOf(u)' = SuspendersOf(u)
  BY DEF Register, Goto, StoppersBut, StoppingTheWorld, SuspendersOf, Suspending, TypeOK
<1>3. RequestsCounted'
  BY <1>1 DEF Register, RequestsCounted, Stoppers
<1>4. ASSUME NEW u \in list_ \cup {t}
      PROVE  suspend_count'[u] = Cardinality(StoppersBut(u)) + Cardinality(SuspendersOf(u))
  <2>1. CASE u = t
    <3>1. StoppersBut(t) = Stoppers
      BY <1>1, Counted
    <3>2. SuspendersOf(t) = {}
      BY DEF SuspendersOf, Suspending, TargetStays, StateAt, Register, Goto
    <3>3. Cardinality(SuspendersOf(t)) = 0 /\ Cardinality(Stoppers) \in Nat
      BY <3>2, FS_EmptySet, Counted, Finite
    <3>4. suspend_count'[t] = Cardinality(Stoppers)
      BY Balance DEF Register, TypeOK, StateTypeOK
    <3> QED
      BY <2>1, <3>1, <3>3, <3>4
  <2>2. CASE u # t
    BY <2>2, Balance DEF Register, TypeOK, StateTypeOK
  <2> QED
    BY <2>1, <2>2
<1>5. CountsBalanced'
  <2>1. ASSUME NEW u \in list_'
        PROVE  suspend_count'[u] = Cardinality(StoppersBut(u)') + Cardinality(SuspendersOf(u)')
    BY <1>2, <1>4 DEF Register, TypeOK
  <2> QED
    BY <2>1 DEF CountsBalanced, StoppersBut, SuspendersOf
<1> QED
  BY <1>3, <1>5

\* Every step keeps the counts exact.
LEMMA NextCounts == Inv /\ [Next]_threadListVars => RequestsCounted' /\ CountsBalanced'
<1> SUFFICES ASSUME Inv, [Next]_threadListVars PROVE RequestsCounted' /\ CountsBalanced'
  OBVIOUS
<1> TypeOK /\ RequestsCounted /\ CountsBalanced
  BY DEF Inv
<1> USE DEF RequestsCounted
<1>1. ASSUME NEW t \in Thread, QuietStep(t) PROVE RequestsCounted' /\ CountsBalanced'
  <2> HIDE DEF RequestsCounted
  <2>1. /\ UNCHANGED <<suspend_count, list_, suspend_all_count_, request, target>>
        /\ \A u \in Thread : StoppingTheWorld(u)' = StoppingTheWorld(u)
    BY <1>1, Quiet DEF listVars
  <2>2. \A u \in Thread, v \in list_ : Suspending(u, v)' = Suspending(u, v)
    BY <2>1 DEF Suspending
  <2>3. \A u \in Thread : request'[u] # "none" => target'[u] \in Thread \ {u}
    BY <2>1 DEF RequestsCounted
  <2> QED
    BY <2>1, <2>2, <2>3, SameCounts
<1>2. ASSUME NEW t \in Thread, RemoveFromList(t) \/ \E u \in Thread : SuspendThread(t, u)
      PROVE  RequestsCounted' /\ CountsBalanced'
  <2>1. \A u \in Thread : StoppingTheWorld(u)' = StoppingTheWorld(u)
    BY <1>2 DEF RemoveFromList, SuspendThread, Goto, StoppingTheWorld, TypeOK
  <2>2. \A u \in Thread, v \in list_ : Suspending(u, v)' = Suspending(u, v)
    BY <1>2 DEF RemoveFromList, SuspendThread, SetRequest, Suspending, TypeOK
  <2>3. \A u \in Thread : request'[u] # "none" => target'[u] \in Thread \ {u}
    BY <1>2 DEF RemoveFromList, SuspendThread, SetRequest, TypeOK
  <2>4. list_' \subseteq list_ /\ UNCHANGED <<suspend_count, suspend_all_count_>>
    BY <1>2 DEF RemoveFromList, SuspendThread
  <2> QED
    BY <2>1, <2>2, <2>3, <2>4, SameCounts
<1>3. CASE UNCHANGED threadListVars
  <2>1. /\ \A u \in Thread : StoppingTheWorld(u)' = StoppingTheWorld(u)
        /\ \A u \in Thread, v \in list_ : Suspending(u, v)' = Suspending(u, v)
        /\ UNCHANGED <<suspend_count, list_, suspend_all_count_, request, target>>
    BY <1>3 DEF threadListVars, stateVars, listVars, StoppingTheWorld, Suspending
  <2> QED
    BY <2>1, SameCounts
<1> QED
  BY <1>1, <1>2, <1>3, NextCases, StopCounts, TargetCounts, RegisterCounts

-----------------------------------------------------------------------------
\* A target stays in the list and, once returned, suspended: its count is
\* positive, so its flag is set, so it neither leaves nor becomes Runnable.
LEMMA NextTargetStays == Inv /\ [Next]_threadListVars => TargetStays'
<1> SUFFICES ASSUME Inv, [Next]_threadListVars, NEW u \in Thread
             PROVE  /\ request'[u] \in {"raised", "held"} => target'[u] \in list_'
                    /\ request'[u] = "held" => IsSuspended(target[u])'
  BY DEF TargetStays
<1>1. TypeOK /\ StateAt /\ FlagFollowsCount /\ TargetStays /\ CountPositive
  BY Positive DEF Inv
<1>2. TypeOK' /\ FlagFollowsCount' /\ RequestsCounted' /\ CountsBalanced'
  BY NextTypeOK, NextFlagFollowsCount, NextCounts
<1>3. CountPositive'
  BY <1>2, Positive, PTL
<1> USE DEF TypeOK, StateTypeOK
<1> DEFINE Listed == request'[u] \in {"raised", "held"} => target'[u] \in list_'
           Stopped == request'[u] = "held" => state'[target'[u]] # "runnable"
<1>4. Listed
  <2>1. ASSUME NEW t \in Thread, RemoveFromList(t), request[u] \in {"raised", "held"}
        PROVE  target[u] # t
    <3>1. "kSuspendRequest" \notin flags[t] /\ t \in list_
      BY <1>1, <2>1 DEF RemoveFromList, Goto, StateAt, IsSuspended
    <3>2. suspend_count[t] = 0
      BY <1>1, <3>1 DEF FlagFollowsCount
    <3> QED
      BY <1>1, <2>1, <3>1, <3>2 DEF CountPositive, Suspending
  <2>2. ASSUME NEW t \in Thread, RemoveFromList(t) PROVE Listed
    BY <1>1, <2>1, <2>2 DEF RemoveFromList, TargetStays
  <2>3. ASSUME NEW t \in Thread, SuspendThreadStep(t) \/ Resume(t) PROVE Listed
    BY <1>1, <2>3 DEF SuspendThreadStep, Resume, NotFound, GiveWay, RaiseCount, PollSuspended, TimeOut,
       SetRequest, TargetStays
  <2>4. ASSUME NEW t \in Thread, Register(t) \/ SuspendAll(t) \/ ResumeAllWake(t) PROVE Listed
    BY <1>1, <2>4 DEF Register, SuspendAll, ResumeAllWake, TargetStays
  <2>5. ASSUME NEW t \in Thread, \E v \in Thread : SuspendThread(t, v) PROVE Listed
    BY <1>1, <2>5 DEF SuspendThread, SetRequest, TargetStays
  <2>6. ASSUME NEW t \in Thread, QuietStep(t) PROVE Listed
    BY <1>1, <2>6, Quiet DEF TargetStays, listVars
  <2>7. CASE UNCHANGED threadListVars
    BY <1>1, <2>7 DEF threadListVars, listVars, TargetStays
  <2> QED
    BY <2>2, <2>3, <2>4, <2>5, <2>6, <2>7, NextCases
<1>5. Stopped
  <2>1. ASSUME NEW t \in Thread, BecomeRunnable(t), UNCHANGED listVars PROVE Stopped
    <3>1. request[u] = "held" => target[u] # t
      BY <1>1, <2>1 DEF TargetStays, IsSuspended, BecomeRunnable
    <3> QED
      BY <1>1, <2>1, <3>1 DEF BecomeRunnable, TargetStays, IsSuspended, listVars
  <2>2. ASSUME NEW t \in Thread, LeaveRunnable(t), UNCHANGED listVars PROVE Stopped
    BY <1>1, <2>2 DEF LeaveRunnable, TargetStays, IsSuspended, listVars
  <2>3. ASSUME UNCHANGED <<state, request, target>> PROVE Stopped
    BY <1>1, <2>3 DEF TargetStays, IsSuspended
  <2>4. ASSUME NEW t \in Thread, QuietStep(t) PROVE Stopped
    BY <2>1, <2>2, <2>3, <2>4 DEF QuietStep, listVars, TransitionStep, SeeCheckpoint, ReleaseShare,
       LoadFlags, WaitWhileRequested, Woken, AcquireShare, FailToRun, SpuriousWakeup, TransitionCall,
       TransitionFromRunnableToSuspended, TransitionFromSuspendedToRunnable, Unregister, LockMutator,
       ResumeAll, ResumeWake
  <2>5. ASSUME NEW t \in Thread, SuspendThreadStep(t) PROVE Stopped
    BY <1>1, <2>5 DEF SuspendThreadStep, NotFound, GiveWay, RaiseCount, PollSuspended, TimeOut,
       SetRequest, TargetStays, IsSuspended
  <2>6. ASSUME NEW t \in Thread, Resume(t) \/ \E v \in Thread : SuspendThread(t, v) PROVE Stopped
    BY <1>1, <2>6 DEF Resume, SuspendThread, SetRequest, TargetStays, IsSuspended
  <2>7. ASSUME NEW t \in Thread, Register(t) \/ RemoveFromList(t) \/ SuspendAll(t) \/ ResumeAllWake(t)
        PROVE  Stopped
    BY <2>3, <2>7 DEF Register, RemoveFromList, SuspendAll, ResumeAllWake
  <2>8. CASE UNCHANGED threadListVars
    BY <2>3, <2>8 DEF threadListVars, stateVars, listVars
  <2> QED
    BY <2>4, <2>5, <2>6, <2>7, <2>8, NextCases
<1>6. request'[u] = "held" => "kSuspendRequest" \in flags'[target'[u]]
  <2>1. ASSUME request'[u] = "held" PROVE target'[u] \in list_' /\ Suspending(u, target[u])'
    BY <1>4, <2>1 DEF Suspending
  <2>2. request'[u] = "held" => suspend_count'[target'[u]] > 0
    BY <1>3, <2>1 DEF CountPositive
  <2> QED
    BY <1>2, <2>1, <2>2 DEF FlagFollowsCount
<1> QED
  BY <1>4, <1>5, <1>6 DEF IsSuspended

\* A thread asks for a suspension only while its own count is zero, that is
\* while nobody suspends it: the new edge starts where no edge ends, so it
\* closes no cycle.
LEMMA NextNoSuspendCycle == Inv /\ [Next]_threadListVars => NoSuspendCycle'
<1> SUFFICES ASSUME Inv, [Next]_threadListVars PROVE NoSuspendCycle'
  OBVIOUS
<1>1. TypeOK /\ StateAt /\ RequestsCounted /\ TargetStays /\ NoSuspendCycle /\ CountPositive
  BY Positive DEF Inv
<1>2. ASSUME \A a, b \in Thread : Suspending(a, b)' => Suspending(a, b) PROVE NoSuspendCycle'
  BY <1>1, <1>2 DEF NoSuspendCycle
<1>3. ASSUME NEW t \in Thread, SuspendThreadStep(t), RaiseCount(t) PROVE NoSuspendCycle'
  <2>1. target[t] \in Thread /\ target[t] # t /\ target[t] \in list_
    BY <1>1, <1>3 DEF RaiseCount, RequestsCounted
  <2>2. \A a, b \in Thread : Suspending(a, b)' => Suspending(a, b) \/ (a = t /\ b = target[t])
    BY <1>1, <1>3 DEF RaiseCount, SetRequest, Suspending, TypeOK
  <2>3. \A a \in Thread : ~Suspending(a, t)
    <3>1. t \in list_ /\ suspend_count[t] = 0
      BY <1>1, <1>3 DEF SuspendThreadStep, RaiseCount, Goto, StateAt
    <3> QED
      BY <1>1, <3>1 DEF CountPositive
  <2>4. ASSUME NEW S \in SUBSET Thread, S # {}
        PROVE  \E a \in S : \A b \in S : ~Suspending(b, a)'
    <3>1. CASE t \in S
      BY <2>1, <2>2, <2>3, <3>1
    <3>2. CASE t \notin S
      BY <1>1, <2>2, <2>4, <3>2 DEF NoSuspendCycle
    <3> QED
      BY <3>1, <3>2
  <2> QED
    BY <2>4 DEF NoSuspendCycle
<1>4. ASSUME NEW t \in Thread, SuspendThreadStep(t), ~RaiseCount(t) PROVE NoSuspendCycle'
  <2>1. \A a, b \in Thread : Suspending(a, b)' => Suspending(a, b)
    BY <1>1, <1>4 DEF SuspendThreadStep, NotFound, GiveWay, PollSuspended, TimeOut, SetRequest,
       Suspending, TypeOK
  <2> QED
    BY <1>2, <2>1
<1>5. ASSUME NEW t \in Thread, Resume(t) \/ \E u \in Thread : SuspendThread(t, u) PROVE NoSuspendCycle'
  <2>1. \A a, b \in Thread : Suspending(a, b)' => Suspending(a, b)
    BY <1>1, <1>5 DEF Resume, SuspendThread, SetRequest, Suspending, TypeOK
  <2> QED
    BY <1>2, <2>1
<1>6. ASSUME UNCHANGED <<request, target>> PROVE NoSuspendCycle'
  BY <1>2, <1>6 DEF Suspending
<1>7. ASSUME NEW t \in Thread, Register(t) \/ RemoveFromList(t) \/ SuspendAll(t) \/ ResumeAllWake(t)
      PROVE  NoSuspendCycle'
  BY <1>6, <1>7 DEF Register, RemoveFromList, SuspendAll, ResumeAllWake
<1>8. ASSUME NEW t \in Thread, QuietStep(t) PROVE NoSuspendCycle'
  BY <1>1, <1>6, <1>8, Quiet DEF listVars
<1>9. CASE UNCHANGED threadListVars
  BY <1>6, <1>9 DEF threadListVars, listVars
<1> QED
  BY <1>3, <1>4, <1>5, <1>7, <1>8, <1>9, NextCases

-----------------------------------------------------------------------------
\* Who is asleep on resume_cond_ is not forgotten: the flag is cleared with the
\* broadcast (ResumeAll), before it (Resume), or under a target that is awake
\* (the time-out, which finds its target not suspended).
LEMMA NextResumeNotLost == Inv /\ [Next]_threadListVars => ResumeNotLost'
<1> SUFFICES ASSUME Inv, [Next]_threadListVars PROVE ResumeNotLost'
  OBVIOUS
<1>1. TypeOK /\ StateAt /\ FlagFollowsCount /\ TargetStays /\ ResumeNotLost /\ CountPositive
  BY Positive DEF Inv
<1> USE DEF TypeOK, StateTypeOK
<1>2. ASSUME resume_waiters' \subseteq resume_waiters,
             \A u \in resume_waiters :
                 "kSuspendRequest" \in flags[u] => "kSuspendRequest" \in flags'[u],
             \A u \in Thread : pc[u] \in {"resumed_run", "resumed_out"} => pc'[u] = pc[u]
      PROVE  ResumeNotLost'
  BY <1>1, <1>2 DEF ResumeNotLost
<1>3. ASSUME NEW t \in Thread, TransitionStep(t), UNCHANGED listVars PROVE ResumeNotLost'
  <2>1. CASE WaitWhileRequested(t)
    BY <1>1, <2>1 DEF WaitWhileRequested, Goto, ResumeNotLost
  <2>2. CASE ~WaitWhileRequested(t)
    BY <1>1, <1>2, <1>3, <2>2 DEF TransitionStep, SeeCheckpoint, LeaveRunnable, ReleaseShare, LoadFlags,
       Woken, AcquireShare, BecomeRunnable, FailToRun, Goto
  <2> QED
    BY <2>1, <2>2
<1>4. ASSUME NEW t \in Thread, SpuriousWakeup(t) \/ TransitionCall(t) PROVE ResumeNotLost'
  BY <1>1, <1>2, <1>4 DEF SpuriousWakeup, TransitionCall, TransitionFromRunnableToSuspended,
     TransitionFromSuspendedToRunnable, Goto
<1>5. ASSUME NEW t \in Thread, Unregister(t) \/ LockMutator(t) \/ ResumeAll(t) PROVE ResumeNotLost'
  BY <1>1, <1>2, <1>5 DEF Unregister, LockMutator, ResumeAll, Goto
<1>6. ASSUME NEW t \in Thread, ResumeWake(t) \/ ResumeAllWake(t) PROVE ResumeNotLost'
  BY <1>6 DEF ResumeWake, ResumeAllWake, BroadcastResume, ResumeNotLost
<1>7. ASSUME NEW t \in Thread, Register(t) \/ RemoveFromList(t) PROVE ResumeNotLost'
  BY <1>1, <1>2, <1>7 DEF Register, RemoveFromList, Goto, StateAt
<1>8. ASSUME NEW t \in Thread, SuspendAll(t) PROVE ResumeNotLost'
  BY <1>1, <1>2, <1>8 DEF SuspendAll, ModifySuspendCount, Goto
<1>9. ASSUME NEW t \in Thread, \E u \in Thread : SuspendThread(t, u) PROVE ResumeNotLost'
  BY <1>1, <1>2, <1>9 DEF SuspendThread, Goto
<1>10. ASSUME NEW t \in Thread, Resume(t) PROVE ResumeNotLost'
  BY <1>1, <1>10 DEF Resume, Goto, ResumeNotLost
<1>11. ASSUME NEW t \in Thread, SuspendThreadStep(t) PROVE ResumeNotLost'
  <2>1. resume_waiters' = resume_waiters
    BY <1>11 DEF SuspendThreadStep
  <2>2. \A u \in Thread : pc[u] \in {"resumed_run", "resumed_out"} => pc'[u] = pc[u]
    BY <1>1, <1>11 DEF SuspendThreadStep, Goto
  <2>3. CASE NotFound(t) \/ GiveWay(t) \/ PollSuspended(t)
    BY <1>2, <2>1, <2>2, <2>3 DEF NotFound, GiveWay, PollSuspended
  <2>4. CASE RaiseCount(t)
    <3>1. \A u \in Thread : "kSuspendRequest" \in flags[u] => "kSuspendRequest" \in flags'[u]
      BY <1>1, <2>4 DEF RaiseCount, ModifySuspendCount
    <3> QED
      BY <1>1, <1>2, <2>1, <2>2, <3>1
  <2>5. CASE TimeOut(t)
    <3>1. target[t] \in list_ /\ suspend_count[target[t]] > 0
      BY <1>1, <2>5 DEF TimeOut, CountPositive, Suspending
    <3>2. state[target[t]] = "runnable"
      BY <1>1, <2>5, <3>1 DEF TimeOut, IsSuspended, FlagFollowsCount
    <3>3. target[t] \notin resume_waiters
      BY <1>1, <3>1, <3>2 DEF StateAt
    <3>4. \A u \in resume_waiters : flags'[u] = flags[u]
      BY <1>1, <2>5, <3>3 DEF TimeOut, ModifySuspendCount
    <3> QED
      BY <1>2, <2>1, <2>2, <3>4
  <2> QED
    BY <1>11, <2>3, <2>4, <2>5 DEF SuspendThreadStep
<1>12. CASE UNCHANGED threadListVars
  BY <1>2, <1>12 DEF threadListVars, stateVars
<1> QED
  BY <1>3, <1>4, <1>5, <1>6, <1>7, <1>8, <1>9, <1>10, <1>11, <1>12, NextCases DEF QuietStep

-----------------------------------------------------------------------------
\* The inductive invariant holds in every reachable state: the counts, the
\* flags, the state words and mutator_lock_ agree, whoever suspends whom.
THEOREM ThreadListInv == Spec => []Inv
<1>1. Inv /\ [Next]_threadListVars => Inv'
  <2> SUFFICES ASSUME Inv, [Next]_threadListVars PROVE Inv'
    OBVIOUS
  <2>1. TypeOK /\ StateAt /\ MutatorLockExclusion
    BY DEF Inv
  <2>2. TypeOK' /\ StateAt' /\ MutatorLockExclusion' /\ FlagFollowsCount'
    BY <2>1, NextTypeOK, NextStateAt, NextFlagFollowsCount
  <2>3. RequestsCounted' /\ CountsBalanced' /\ TargetStays' /\ NoSuspendCycle' /\ ResumeNotLost'
    BY NextCounts, NextTargetStays, NextNoSuspendCycle, NextResumeNotLost
  <2> QED
    BY <2>2, <2>3 DEF Inv
<1> QED
  BY <1>1, InitInv, PTL DEF Spec

\* SuspendAll stops the world (thread_list.cc:304): once its caller holds
\* mutator_lock_ every other attached thread is suspended, also one that
\* attached meanwhile, until ResumeAll.
THEOREM ThreadListStopTheWorld == Spec => []StopTheWorld
<1>1. Inv => StopTheWorld
  <2> SUFFICES ASSUME Inv, NEW t \in Thread, pc[t] = "stopped", NEW u \in list_ \ {t}
               PROVE  IsSuspended(u)
    BY DEF StopTheWorld
  <2>1. TypeOK /\ StateAt /\ MutatorLockExclusion /\ FlagFollowsCount /\ CountPositive
    BY Positive DEF Inv
  <2>2. mutator_readers = {}
    BY <2>1, ThreadAssumption DEF StateAt, MutatorLockExclusion
  <2>3. state[u] # "runnable"
    BY <2>1, <2>2 DEF StateAt, TypeOK
  <2>4. suspend_count[u] > 0
    BY <2>1 DEF CountPositive, StoppingTheWorld
  <2> QED
    BY <2>1, <2>3, <2>4 DEF IsSuspended, FlagFollowsCount, TypeOK
<1> QED
  BY <1>1, ThreadListInv, PTL

\* Suspend counts are exact, targets stay, suspensions form no cycle and no
\* wake-up is lost: SuspendThreadByThreadId (thread_list.cc:538) and Resume
\* keep their promises for any number of threads.
THEOREM ThreadListSuspension ==
    Spec => [](CountsBalanced /\ TargetStays /\ NoSuspendCycle /\ ResumeNotLost)
<1>1. Inv => CountsBalanced /\ TargetStays /\ NoSuspendCycle /\ ResumeNotLost
  BY DEF Inv
<1> QED
  BY <1>1, ThreadListInv, PTL

\* A Runnable thread holds a share of mutator_lock_, and a set request flag
\* means a positive suspend count (thread.h:91) and conversely.
THEOREM ThreadListState == Spec => [](RunnableHoldsShare /\ FlagFollowsCount)
<1>1. Inv => RunnableHoldsShare /\ FlagFollowsCount
  BY DEF Inv, StateAt, RunnableHoldsShare
<1> QED
  BY <1>1, ThreadListInv, PTL
=============================================================================
