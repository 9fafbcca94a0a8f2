-------------------------- MODULE ThreadPoolProofs --------------------------
(***************************************************************************)
(* ThreadPool::Wait returns only when no task is queued or running, for    *)
(* any finite set of workers.                                              *)
(***************************************************************************)
EXTENDS ThreadPool, FiniteSetTheorems, TLAPS

WorkerPC == {"get", "sleep", "woken", "run", "exit"}

\* The workers inside task_queue_condition_.Wait, the signalled ones included.
Waiting == {w \in Worker : worker[w] \in {"sleep", "woken"}}

\* The counter counts the workers that wait, and the pool is destroyed by a
\* client that is not in Wait.
IInv ==
    /\ worker \in [Worker -> WorkerPC]
    /\ waiting_count_ = Cardinality(Waiting)
    /\ pool_shutting_down_ => client \in {"join", "gone"}

\* Finitely many workers wait, and all do when the counter says so.
LEMMA WaitingFinite ==
    /\ IsFiniteSet(Waiting) /\ Cardinality(Waiting) \in Nat
    /\ Cardinality(Waiting) = ThreadCount => Waiting = Worker
<1>1. Waiting \in SUBSET Worker
    BY DEF Waiting
<1> QED BY <1>1, WorkerAssumption, FS_Subset, FS_CardinalityType DEF ThreadCount

\* The initial state satisfies the inductive invariant.
LEMMA InitInv == PoolInit => IInv
<1> SUFFICES ASSUME PoolInit PROVE IInv
    OBVIOUS
<1>1. Waiting = {}
    BY DEF PoolInit, Waiting
<1> QED BY <1>1, FS_EmptySet DEF PoolInit, IInv, WorkerPC

\* A signal leaves the workers it wakes counted.
LEMMA SignalInv ==
    ASSUME IInv, UNCHANGED waiting_count_,
           pool_shutting_down_' => client' \in {"join", "gone"},
           worker' \in [Worker -> WorkerPC],
           \A w \in Worker : worker'[w] = worker[w] \/
               (worker[w] = "sleep" /\ worker'[w] = "woken") \/ (worker[w] = "run" /\ worker'[w] = "get")
    PROVE  IInv'
<1>1. Waiting' = Waiting
    BY DEF Waiting
<1> QED BY <1>1 DEF IInv

\* One turn of GetTask: the worker that returns from its sleep is uncounted,
\* the one that goes to sleep is counted.
LEMMA GetTaskInv ==
    ASSUME IInv, NEW w \in Worker, GetTask(w)
    PROVE  IInv'
<1> USE DEF IInv, WorkerPC
<1> DEFINE waiting == IF worker[w] = "woken" THEN waiting_count_ - 1 ELSE waiting_count_
<1>1. waiting = Cardinality(Waiting \ {w}) /\ IsFiniteSet(Waiting \ {w})
    <2>1. w \in Waiting <=> worker[w] = "woken"
        BY DEF GetTask, Waiting
    <2> QED BY <2>1, WaitingFinite, FS_RemoveElement
<1>2. /\ worker' \in [Worker -> WorkerPC]
      /\ pool_shutting_down_' => client' \in {"join", "gone"}
    BY DEF GetTask, switches
<1>3. CASE worker'[w] \in {"exit", "run"}
    <2>1. waiting_count_' = waiting /\ Waiting' = Waiting \ {w}
        BY <1>3 DEF GetTask, Waiting
    <2> QED BY <1>1, <1>2, <2>1
<1>4. CASE worker'[w] = "sleep"
    <2>1. waiting_count_' = waiting + 1 /\ Waiting' = (Waiting \ {w}) \cup {w}
        BY <1>4 DEF GetTask, Waiting
    <2> HIDE DEF waiting
    <2>2. Cardinality((Waiting \ {w}) \cup {w}) = Cardinality(Waiting \ {w}) + 1
        BY <1>1, FS_AddElement
    <2> QED BY <1>1, <1>2, <2>1, <2>2
<1> QED BY <1>3, <1>4 DEF GetTask

\* The inductive invariant holds throughout.
THEOREM PoolInvariance == PoolSpec => []IInv
<1>1. IInv /\ [PoolNext]_poolVars => IInv'
    <2> SUFFICES ASSUME IInv, [PoolNext]_poolVars PROVE IInv'
        OBVIOUS
    <2> USE DEF IInv, switches, WorkerPC
    <2>1. CASE ClientStep
        <3>1. CASE ClientAddsTask
            BY <3>1, SignalInv DEF ClientAddsTask, AddTask, Asleep
        <3>2. CASE StartWorkers
            BY <3>2, SignalInv DEF StartWorkers, WakeAll
        <3>3. CASE StopWorkers
            BY <3>3, SignalInv DEF StopWorkers
        <3>4. CASE \E n \in 1..ThreadCount : SetMaxActiveWorkers(n)
            BY <3>4, SignalInv DEF SetMaxActiveWorkers
        <3>5. CASE \E b \in BOOLEAN : Wait(b)
            BY <3>5, SignalInv DEF Wait
        <3>6. CASE Shutdown
            BY <3>6, SignalInv DEF Shutdown, WakeAll
        <3> QED BY <2>1, <3>1, <3>2, <3>3, <3>4, <3>5, <3>6 DEF ClientStep
    <2>2. CASE WaitStep
        BY <2>2, SignalInv DEF WaitStep, ClientWorks, ClientTaskDone, ClientWaits, Joined
    <2>3. CASE TaskAddsTask
        BY <2>3, SignalInv DEF TaskAddsTask, AddTask, Asleep
    <2>4. ASSUME NEW w \in Worker, GetTask(w) PROVE IInv'
        BY <2>4, GetTaskInv
    <2>5. ASSUME NEW w \in Worker, TaskDone(w) \/ SpuriousWakeup(w) PROVE IInv'
        BY <2>5, SignalInv DEF TaskDone, SpuriousWakeup
    <2>6. CASE UNCHANGED poolVars
        BY <2>6, SignalInv DEF poolVars
    <2> QED BY <2>1, <2>2, <2>3, <2>4, <2>5, <2>6 DEF PoolNext, WorkerStep
<1> QED BY InitInv, <1>1, PTL DEF PoolSpec

\* When ThreadPool::Wait returns, no task is queued and no worker runs one: a
\* waiting count equal to the number of workers leaves no worker elsewhere.
THEOREM WaitReturnsWhenDone == PoolSpec => WaitMeansDone
<1>1. IInv /\ [PoolNext]_poolVars =>
        [client = "check" /\ client' = "idle" =>
            tasks_ = <<>> /\ \A w \in Worker : worker[w] # "run"]_poolVars
    <2> SUFFICES ASSUME IInv, PoolNext, client = "check", client' = "idle"
                 PROVE  tasks_ = <<>> /\ \A w \in Worker : worker[w] # "run"
        OBVIOUS
    <2>1. ClientWaits
        BY DEF PoolNext, ClientStep, WaitStep, WorkerStep, ClientAddsTask, TaskAddsTask, StartWorkers,
               StopWorkers, SetMaxActiveWorkers, Wait, Shutdown, ClientWorks, ClientTaskDone,
               Joined, GetTask, TaskDone, SpuriousWakeup
    <2>2. waiting_count_ = ThreadCount /\ tasks_ = <<>>
        BY <2>1 DEF ClientWaits, IInv
    <2>3. Waiting = Worker
        BY <2>2, WaitingFinite DEF IInv
    <2> QED BY <2>2, <2>3 DEF Waiting
<1> QED BY <1>1, PoolInvariance, PTL DEF PoolSpec, WaitMeansDone
=============================================================================
