----------------------- MODULE RuntimeShutdownProofs -----------------------
(***************************************************************************)
(* No thread is left behind by the destruction of the runtime, for any     *)
(* finite set of threads and any number of tries.                          *)
(***************************************************************************)
EXTENDS RuntimeShutdown, FiniteSetTheorems, TLAPS

\* The births under way: a creator before pthread_create, or a thread before
\* the end of its birth.
Born == {t \in All : pc[t] \in {"Creating", "Started"}}

\* Where the destroying thread is before shutting_down_ is set.
BeforeShutdown ==
  {"Unborn", "Attached", "Creating", "AwaitBirths", "CheckBirths"}

Late == {"SuspendDaemons", "Look", "ThreadListDeleted", "RuntimeDeleted"}

\* The counter counts the births, and no two creators start the same thread.
BirthInv ==
  /\ threads_being_born_ = Cardinality(Born)
  /\ \A p \in All : pc[p] = "Creating" =>
       child[p] \in Threads /\ pc[child[p]] = "Unborn"
  /\ \A p, q \in All :
       pc[p] = "Creating" /\ pc[q] = "Creating" /\ child[p] = child[q] => p = q

\* What NoThreadLeftBehind needs to be inductive: the counter is right, and
\* ~Runtime is past its wait only with shutting_down_ set.
IInv ==
  /\ pc \in [All -> ThreadPCs \cup MainPCs]
  /\ child \in [All -> Threads \cup {None}]
  /\ BirthInv
  /\ shutting_down_ => Born = {}
  /\ shutting_down_ \/ pc[Main] \in BeforeShutdown
  /\ pc[Main] \in Late => list_ \subseteq Daemons
  /\ pc[Main] \in Late \ {"SuspendDaemons"} => list_ \subseteq suspend_count

\* Births are finitely many.
LEMMA BornFinite == IsFiniteSet(Born) /\ Cardinality(Born) \in Nat
<1>1. IsFiniteSet(All)
  BY ShutdownAssumption, FS_AddElement DEF All
<1>2. Born \in SUBSET All
  BY DEF Born
<1> QED BY <1>1, <1>2, FS_Subset, FS_CardinalityType

\* The initial state satisfies the inductive invariant.
LEMMA InitInv == Init => IInv
<1> SUFFICES ASSUME Init PROVE IInv
  OBVIOUS
<1>1. Born = {}
  BY DEF Init, Born
<1>2. BirthInv
  BY <1>1, FS_EmptySet DEF Init, BirthInv
<1>3. pc[Main] \in BeforeShutdown /\ pc[Main] \notin Late
  BY DEF Init, BeforeShutdown, Late, All
<1> QED BY <1>1, <1>2, <1>3 DEF Init, IInv, All, None, ThreadPCs

\* The counter and the births agree after a step that changes neither.
LEMMA BirthsKept ==
  ASSUME IInv, UNCHANGED <<threads_being_born_, child>>,
         pc' \in [All -> ThreadPCs \cup MainPCs],
         \A t \in All : pc'[t] # pc[t] =>
           /\ pc[t] \notin {"Creating", "Started"}
           /\ pc'[t] \notin {"Creating", "Started"}
           /\ pc[t] = "Unborn" => \A q \in All : child[q] # t \/ pc[q] # "Creating"
  PROVE  BirthInv' /\ Born' = Born
<1>1. Born' = Born
  BY DEF Born
<1>2. \A p \in All : pc'[p] = "Creating" <=> pc[p] = "Creating"
  OBVIOUS
<1>3. \A p \in All : pc[p] = "Creating" =>
        child[p] \in All /\ pc'[child[p]] = "Unborn"
  BY DEF IInv, BirthInv, All
<1> QED BY <1>1, <1>2, <1>3 DEF IInv, BirthInv

\* A step of the life or the exit of a thread preserves the invariant.
LEMMA LifeInv ==
  ASSUME IInv, NEW t \in All,
         \/ t \in Threads /\ AttachReadsRuntime(t)
         \/ BecomeRunnable(t) \/ LeaveRunnable(t) \/ Destroy(t)
         \/ Destroyed(t) \/ RemoveSelf(t) \/ ReleaseThreadId(t)
         \/ SignalExit(t)
  PROVE  IInv'
<1> USE ShutdownAssumption DEF All, IInv, BeforeShutdown, Late, ThreadPCs, MainPCs
<1>1. CASE t \in Threads /\ AttachReadsRuntime(t)
  <2>1. BirthInv' /\ Born' = Born
    BY <1>1, BirthsKept DEF AttachReadsRuntime
  <2> QED BY <1>1, <2>1 DEF AttachReadsRuntime
<1>2. CASE BecomeRunnable(t)
  <2>1. BirthInv' /\ Born' = Born
    BY <1>2, BirthsKept DEF BecomeRunnable
  <2> QED BY <1>2, <2>1 DEF BecomeRunnable
<1>3. CASE LeaveRunnable(t)
  <2>1. BirthInv' /\ Born' = Born
    BY <1>3, BirthsKept DEF LeaveRunnable
  <2> QED BY <1>3, <2>1 DEF LeaveRunnable
<1>4. CASE Destroy(t)
  <2>1. BirthInv' /\ Born' = Born
    BY <1>4, BirthsKept DEF Destroy
  <2> QED BY <1>4, <2>1 DEF Destroy
<1>5. CASE Destroyed(t)
  <2>1. BirthInv' /\ Born' = Born
    BY <1>5, BirthsKept DEF Destroyed
  <2> QED BY <1>5, <2>1 DEF Destroyed
<1>6. CASE RemoveSelf(t)
  <2>1. BirthInv' /\ Born' = Born
    BY <1>6, BirthsKept DEF RemoveSelf
  <2> QED BY <1>6, <2>1 DEF RemoveSelf
<1>7. CASE ReleaseThreadId(t)
  <2>1. BirthInv' /\ Born' = Born
    BY <1>7, BirthsKept DEF ReleaseThreadId
  <2> QED BY <1>7, <2>1 DEF ReleaseThreadId
<1>8. CASE SignalExit(t)
  <2>1. BirthInv' /\ Born' = Born
    BY <1>8, BirthsKept DEF SignalExit
  <2> QED BY <1>8, <2>1 DEF SignalExit
<1> QED BY <1>1, <1>2, <1>3, <1>4, <1>5, <1>6, <1>7, <1>8

\* The wait of ~Runtime: shutting_down_ is set when no birth is under way.
LEMMA WaitForBirthsInv ==
  ASSUME IInv, pc[Main] \in {"Unborn", "Attached", "CheckBirths"}, WaitForBirths,
         UNCHANGED <<threads_being_born_, list_, suspend_count, child>>
  PROVE  IInv'
<1> USE ShutdownAssumption DEF All, IInv, BeforeShutdown, Late, ThreadPCs, MainPCs
<1>1. pc' \in [All -> ThreadPCs \cup MainPCs]
  BY DEF WaitForBirths
<1>2. BirthInv' /\ Born' = Born
  <2>1. \A q \in All : pc[q] = "Creating" => child[q] # Main
    BY DEF BirthInv
  <2> QED BY <1>1, <2>1, BirthsKept DEF WaitForBirths
<1>3. threads_being_born_ = 0 => Born = {}
  BY BornFinite, FS_EmptySet DEF BirthInv
<1>4. CASE threads_being_born_ > 0
  BY <1>1, <1>2, <1>4 DEF WaitForBirths
<1>5. CASE ~(threads_being_born_ > 0)
  <2>1. Born = {}
    BY <1>3, <1>5, BornFinite DEF BirthInv
  <2> QED BY <1>1, <1>2, <1>5, <2>1 DEF WaitForBirths
<1> QED BY <1>4, <1>5

\* The steps of ~Runtime and ~ThreadList preserve the invariant.
LEMMA MainInv ==
  ASSUME IInv, DestroyJavaVM \/ MainStep
  PROVE  IInv'
<1> USE ShutdownAssumption DEF All, IInv, BeforeShutdown, Late, ThreadPCs, MainPCs
<1>1. CASE DestroyJavaVM
  BY <1>1, WaitForBirthsInv DEF DestroyJavaVM
<1>2. CASE CheckBirths
  BY <1>2, WaitForBirthsInv DEF CheckBirths
<1>3. CASE DeleteThreadList
  <2>1. BirthInv' /\ Born' = Born
    BY <1>3, BirthsKept DEF DeleteThreadList
  <2> QED BY <1>3, <2>1 DEF DeleteThreadList
<1>4. CASE CheckNoBirths
  <2>1. BirthInv' /\ Born' = Born
    BY <1>4, BirthsKept DEF CheckNoBirths
  <2> QED BY <1>4, <2>1 DEF CheckNoBirths
<1>5. CASE ScanForNonDaemons
  <2>1. BirthInv' /\ Born' = Born
    BY <1>5, BirthsKept DEF ScanForNonDaemons
  <2> QED BY <1>5, <2>1 DEF ScanForNonDaemons
<1>6. CASE SuspendAllDaemonThreads
  <2>1. BirthInv' /\ Born' = Born
    BY <1>6, BirthsKept DEF SuspendAllDaemonThreads
  <2> QED BY <1>6, <2>1 DEF SuspendAllDaemonThreads
<1>7. CASE LookAtDaemons
  <2>1. pc' \in [All -> ThreadPCs \cup MainPCs]
    BY <1>7 DEF LookAtDaemons
  <2>2. BirthInv' /\ Born' = Born
    BY <1>7, <2>1, BirthsKept DEF LookAtDaemons
  <2> QED BY <1>7, <2>1, <2>2 DEF LookAtDaemons
<1>8. CASE DeleteRuntime
  <2>1. BirthInv' /\ Born' = Born
    BY <1>8, BirthsKept DEF DeleteRuntime
  <2> QED BY <1>8, <2>1 DEF DeleteRuntime
<1> QED BY <1>1, <1>2, <1>3, <1>4, <1>5, <1>6, <1>7, <1>8 DEF MainStep

\* The start of a birth counts it; it cannot happen once shutting_down_ is set.
LEMMA CreateInv ==
  ASSUME IInv, NEW p \in All, NEW c \in Threads, CreateNativeThread(p, c)
  PROVE  IInv'
<1> USE ShutdownAssumption DEF All, IInv, BeforeShutdown, Late, ThreadPCs, MainPCs
<1>1. Born' = Born \cup {p} /\ p \notin Born
  BY DEF CreateNativeThread, Born
<1>2. threads_being_born_' = Cardinality(Born')
  BY <1>1, BornFinite, FS_AddElement DEF CreateNativeThread, BirthInv
<1>3. ASSUME NEW q \in All, pc'[q] = "Creating"
      PROVE  child'[q] \in Threads /\ pc'[child'[q]] = "Unborn"
  BY <1>3 DEF CreateNativeThread, BirthInv
<1>4. ASSUME NEW q \in All, NEW r \in All, pc'[q] = "Creating",
             pc'[r] = "Creating", child'[q] = child'[r]
      PROVE  q = r
  BY <1>4 DEF CreateNativeThread, BirthInv
<1>5. BirthInv'
  BY <1>2, <1>3, <1>4 DEF BirthInv
<1> QED BY <1>5 DEF CreateNativeThread

\* A successful pthread_create hands the birth to the new thread.
LEMMA PthreadCreateInv ==
  ASSUME IInv, NEW p \in All, PthreadCreate(p)
  PROVE  IInv'
<1> USE ShutdownAssumption DEF All, IInv, BeforeShutdown, Late, ThreadPCs, MainPCs
<1> DEFINE c == child[p]
<1>1. c \in Threads /\ pc[c] = "Unborn" /\ c # p
  BY DEF PthreadCreate, BirthInv
<1>2. p \in Born /\ c \notin Born /\ Born' = (Born \ {p}) \cup {c}
  BY <1>1 DEF PthreadCreate, Born
<1>3. Cardinality(Born') = Cardinality(Born)
  <2>1. IsFiniteSet(Born \ {p}) /\ Cardinality(Born \ {p}) = Cardinality(Born) - 1
    BY <1>2, BornFinite, FS_RemoveElement
  <2> HIDE DEF c
  <2>2. Cardinality((Born \ {p}) \cup {c}) = Cardinality(Born \ {p}) + 1
    BY <1>2, <2>1, FS_AddElement
  <2> QED BY <1>2, <2>1, <2>2, BornFinite
<1>4. ASSUME NEW q \in All, pc'[q] = "Creating"
      PROVE  q # p /\ pc[q] = "Creating" /\ child'[q] = child[q]
  BY <1>1, <1>4 DEF PthreadCreate
<1>5. ASSUME NEW q \in All, pc'[q] = "Creating"
      PROVE  child'[q] \in Threads /\ pc'[child'[q]] = "Unborn"
  <2>1. child[q] # c /\ child[q] # p
    BY <1>4, <1>5 DEF PthreadCreate, BirthInv
  <2> QED BY <1>4, <1>5, <2>1 DEF PthreadCreate, BirthInv
<1>6. BirthInv'
  BY <1>3, <1>4, <1>5 DEF BirthInv, PthreadCreate
<1>7. ~shutting_down_
  BY <1>2
<1> QED BY <1>1, <1>6, <1>7 DEF PthreadCreate, None

\* The end of a birth uncounts it; waking ~Runtime disturbs nothing.
LEMMA EndBirth ==
  ASSUME IInv, NEW x \in Born, NEW newpc \in [All -> ThreadPCs \cup MainPCs],
         {t \in All : newpc[t] \in {"Creating", "Started"}} = Born \ {x},
         EndThreadBirth(threads_being_born_, newpc)
  PROVE  /\ pc' \in [All -> ThreadPCs \cup MainPCs]
         /\ \A t \in All : pc'[t] = newpc[t] \/
              (t = Main /\ newpc[t] = "AwaitBirths" /\ pc'[t] = "CheckBirths")
         /\ threads_being_born_' = Cardinality(Born')
<1>1. /\ pc' \in [All -> ThreadPCs \cup MainPCs]
      /\ \A t \in All : pc'[t] = newpc[t] \/
           (t = Main /\ newpc[t] = "AwaitBirths" /\ pc'[t] = "CheckBirths")
  BY DEF EndThreadBirth, All, ThreadPCs, MainPCs
<1>2. Born' = Born \ {x}
  BY <1>1 DEF Born
<1>3. Cardinality(Born') = Cardinality(Born) - 1
  BY <1>2, BornFinite, FS_RemoveElement
<1> QED BY <1>1, <1>3 DEF EndThreadBirth, IInv, BirthInv

\* A failed pthread_create ends the birth it started.
LEMMA PthreadCreateFailsInv ==
  ASSUME IInv, NEW p \in All, PthreadCreateFails(p)
  PROVE  IInv'
<1> USE ShutdownAssumption DEF All, IInv, BeforeShutdown, Late, ThreadPCs, MainPCs
<1> DEFINE c == child[p]
           newpc == [pc EXCEPT ![p] = "Attached", ![c] = "Gone"]
<1>1. c \in Threads /\ pc[c] = "Unborn" /\ c # p
  BY DEF PthreadCreateFails, BirthInv
<1>2. /\ p \in Born
      /\ newpc \in [All -> ThreadPCs \cup MainPCs]
      /\ {t \in All : newpc[t] \in {"Creating", "Started"}} = Born \ {p}
  BY <1>1 DEF PthreadCreateFails, Born
<1>3. /\ pc' \in [All -> ThreadPCs \cup MainPCs]
      /\ \A t \in All : pc'[t] = newpc[t] \/
           (t = Main /\ newpc[t] = "AwaitBirths" /\ pc'[t] = "CheckBirths")
      /\ threads_being_born_' = Cardinality(Born')
  BY <1>2, EndBirth DEF PthreadCreateFails
<1>4. ASSUME NEW q \in All, pc'[q] = "Creating"
      PROVE  q # p /\ pc[q] = "Creating" /\ child'[q] = child[q]
  BY <1>1, <1>3, <1>4 DEF PthreadCreateFails
<1>5. ASSUME NEW q \in All, pc'[q] = "Creating"
      PROVE  child'[q] \in Threads /\ pc'[child'[q]] = "Unborn"
  <2>1. child[q] # c /\ child[q] # p
    BY <1>4, <1>5 DEF PthreadCreateFails, BirthInv
  <2> QED BY <1>3, <1>4, <1>5, <2>1 DEF BirthInv
<1>6. BirthInv'
  BY <1>3, <1>4, <1>5 DEF BirthInv
<1>7. ~shutting_down_
  BY <1>2
<1> QED BY <1>1, <1>3, <1>6, <1>7 DEF PthreadCreateFails, None

\* CreateCallback: the thread is in the list before its birth ends, so that
\* it is there when ~Runtime looks for threads.
LEMMA CreateCallbackInv ==
  ASSUME IInv, NEW c \in All, CreateCallback(c)
  PROVE  IInv'
<1> USE ShutdownAssumption DEF All, IInv, BeforeShutdown, Late, ThreadPCs, MainPCs
<1> DEFINE newpc == [pc EXCEPT ![c] = "Attached"]
<1>1. /\ c \in Born
      /\ newpc \in [All -> ThreadPCs \cup MainPCs]
      /\ {t \in All : newpc[t] \in {"Creating", "Started"}} = Born \ {c}
  BY DEF CreateCallback, Born
<1>2. /\ pc' \in [All -> ThreadPCs \cup MainPCs]
      /\ \A t \in All : pc'[t] = newpc[t] \/
           (t = Main /\ newpc[t] = "AwaitBirths" /\ pc'[t] = "CheckBirths")
      /\ threads_being_born_' = Cardinality(Born')
  BY <1>1, EndBirth DEF CreateCallback
<1>3. ~shutting_down_
  BY <1>1
<1>4. \A q \in All : pc'[q] = "Creating" => pc[q] = "Creating"
  BY <1>2 DEF CreateCallback
<1>5. ASSUME NEW q \in All, pc'[q] = "Creating"
      PROVE  child'[q] \in Threads /\ pc'[child'[q]] = "Unborn"
  BY <1>2, <1>4, <1>5 DEF BirthInv, CreateCallback
<1>6. BirthInv'
  BY <1>2, <1>4, <1>5 DEF BirthInv, CreateCallback
<1> QED BY <1>2, <1>3, <1>6 DEF CreateCallback

\* Attach: nothing once shutting_down_ is set, else a whole birth in one
\* critical section.
LEMMA AttachInv ==
  ASSUME IInv, NEW c \in All, Attach(c)
  PROVE  IInv'
<1> USE ShutdownAssumption DEF All, IInv, BeforeShutdown, Late, ThreadPCs, MainPCs
<1>1. CASE shutting_down_
  <2>1. /\ pc' = [pc EXCEPT ![c] = "Gone"] /\ pc[c] = "Attaching"
        /\ UNCHANGED <<threads_being_born_, list_, child, shutting_down_, suspend_count>>
    BY <1>1 DEF Attach
  <2>2. BirthInv' /\ Born' = Born
    BY <2>1, BirthsKept
  <2> QED BY <1>1, <2>1, <2>2
<1>2. CASE ~shutting_down_
  <2> DEFINE newpc == [pc EXCEPT ![c] = "Attached"]
  <2>1. /\ pc[c] = "Attaching"
        /\ EndThreadBirth(threads_being_born_ + 1, newpc)
        /\ UNCHANGED <<child, shutting_down_, suspend_count>>
    BY <1>2 DEF Attach
  <2>2. /\ pc' \in [All -> ThreadPCs \cup MainPCs]
        /\ \A t \in All : pc'[t] = newpc[t] \/
             (t = Main /\ newpc[t] = "AwaitBirths" /\ pc'[t] = "CheckBirths")
    BY <2>1 DEF EndThreadBirth
  <2>3. UNCHANGED threads_being_born_
    BY <2>1, BornFinite DEF EndThreadBirth, BirthInv
  <2>4. BirthInv' /\ Born' = Born
    BY <2>1, <2>2, <2>3, BirthsKept
  <2> QED BY <1>2, <2>1, <2>2, <2>4
<1> QED BY <1>1, <1>2

\* The inductive invariant holds throughout.
THEOREM Invariance == Spec => []IInv
<1>1. IInv /\ [Next]_vars => IInv'
  <2> SUFFICES ASSUME IInv, [Next]_vars PROVE IInv'
    OBVIOUS
  <2>1. CASE DestroyJavaVM \/ MainStep
    BY <2>1, MainInv
  <2>2. CASE \E p \in All, c \in Threads : CreateNativeThread(p, c)
    BY <2>2, CreateInv
  <2>3. CASE \E p \in All : PthreadCreate(p) \/ PthreadCreateFails(p)
    BY <2>3, PthreadCreateInv, PthreadCreateFailsInv
  <2>4. CASE \E c \in Threads : AttachReadsRuntime(c)
    BY <2>4, LifeInv DEF All
  <2>5. CASE \E t \in All : Unavoidable(t) \/ BecomeRunnable(t) \/ LeaveRunnable(t)
                              \/ Destroy(t)
    BY <2>5, CreateCallbackInv, AttachInv, LifeInv DEF Unavoidable
  <2>6. CASE UNCHANGED vars
    BY <2>6 DEF vars, IInv, BirthInv, Born
  <2> QED BY <2>1, <2>2, <2>3, <2>4, <2>5, <2>6 DEF Next
<1> QED BY InitInv, <1>1, PTL DEF Spec

\* Whatever threads are born, attached or exit while the runtime is destroyed,
\* none is between the start and the end of its birth once shutting_down_ is
\* set, and the thread list is deleted with only daemons of raised suspend
\* count in it.
THEOREM ShutdownLeavesNoThread == Spec => []NoThreadLeftBehind
<1>1. IInv => NoThreadLeftBehind
  <2> SUFFICES ASSUME IInv PROVE NoThreadLeftBehind
    OBVIOUS
  <2>1. shutting_down_ => threads_being_born_ = 0
    BY FS_EmptySet DEF IInv, BirthInv
  <2>2. shutting_down_ => \A t \in All : pc[t] \notin {"Creating", "Started"}
    BY DEF IInv, Born
  <2> QED BY <2>1, <2>2 DEF IInv, Late, NoThreadLeftBehind
<1> QED BY <1>1, Invariance, PTL
=============================================================================
