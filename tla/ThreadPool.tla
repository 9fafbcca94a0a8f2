----------------------------- MODULE ThreadPool -----------------------------
(***************************************************************************)
(* The thread pool of the collector and the compiler driver:               *)
(* runtime/thread_pool.cc.                                                 *)
(*                                                                         *)
(* Every critical section of task_queue_lock_ is one step; the condition   *)
(* variables keep the promise ConditionVariable is checked for.  The pool  *)
(* has one client, as in the code: it adds tasks, starts, stops and limits *)
(* the workers, waits and destroys the pool.  A running task may add tasks *)
(* (as MarkStackTask does).                                                *)
(***************************************************************************)
EXTENDS Naturals, Sequences, FiniteSets

CONSTANTS
    Worker,         \* the worker threads
    MaxTasks,       \* bounds the tasks ever added
    InitialActive,  \* max_active_workers_ when the pool has been constructed
    NoTask

ASSUME WorkerAssumption == IsFiniteSet(Worker) /\ Worker # {}
ASSUME BoundAssumption == MaxTasks \in Nat /\ InitialActive \in 0..Cardinality(Worker)
ASSUME NoTaskAssumption == NoTask \notin Nat

VARIABLES
    tasks_,
    started_,
    pool_shutting_down_,    \* shutting_down_ of the pool
    waiting_count_,
    max_active_workers_,
    worker,         \* where each worker is; asleep on task_queue_condition_ at "sleep"
    task,           \* the task it runs
    client,         \* where the client is; asleep on completion_condition_ at "sleep"
    clientTask,     \* the task the client runs
    added           \* how many tasks have been added

switches == <<started_, pool_shutting_down_, max_active_workers_>>
poolVars == <<tasks_, waiting_count_, switches, worker, task, client, clientTask, added>>

ThreadCount == Cardinality(Worker)
Task == 1..MaxTasks

PoolTypeOK ==
    /\ tasks_ \in Seq(Task)
    /\ started_ \in BOOLEAN /\ pool_shutting_down_ \in BOOLEAN
    /\ waiting_count_ \in 0..ThreadCount
    /\ max_active_workers_ \in 0..ThreadCount
    /\ worker \in [Worker -> {"get", "sleep", "woken", "run", "exit"}]
    /\ task \in [Worker -> Task \cup {NoTask}]
    /\ client \in {"idle", "work", "run", "check", "sleep", "join", "gone"}
    /\ clientTask \in Task \cup {NoTask}
    /\ added \in 0..MaxTasks

\* The constructor returns when every worker has passed the creation barrier.
PoolInit ==
    /\ tasks_ = <<>>
    /\ started_ = FALSE /\ pool_shutting_down_ = FALSE
    /\ waiting_count_ = 0
    /\ max_active_workers_ = InitialActive
    /\ worker = [w \in Worker |-> "get"]
    /\ task = [w \in Worker |-> NoTask]
    /\ client = "idle" /\ clientTask = NoTask
    /\ added = 0

Asleep == {w \in Worker : worker[w] = "sleep"}
WakeAll == [w \in Worker |-> IF worker[w] = "sleep" THEN "woken" ELSE worker[w]]
-----------------------------------------------------------------------------
\* By the client or by a running task.
AddTask ==
    /\ added < MaxTasks
    /\ added' = added + 1
    /\ tasks_' = Append(tasks_, added + 1)
    /\ IF started_ /\ waiting_count_ # 0 /\ Asleep # {}
       THEN \E w \in Asleep : worker' = [worker EXCEPT ![w] = "woken"]
       ELSE UNCHANGED worker
    /\ UNCHANGED <<waiting_count_, switches, task, clientTask>>

ClientAddsTask == client = "idle" /\ AddTask /\ UNCHANGED client
TaskAddsTask == (client = "run" \/ \E w \in Worker : worker[w] = "run") /\ AddTask /\ UNCHANGED client

StartWorkers ==
    /\ client = "idle"
    /\ started_' = TRUE
    /\ worker' = WakeAll
    /\ UNCHANGED <<tasks_, waiting_count_, pool_shutting_down_, max_active_workers_, task, client,
                   clientTask, added>>

StopWorkers ==
    /\ client = "idle"
    /\ started_' = FALSE
    /\ UNCHANGED <<tasks_, waiting_count_, pool_shutting_down_, max_active_workers_, worker, task, client,
                   clientTask, added>>

\* The collector sets it to one less than its threads, of which it has two or
\* more.
SetMaxActiveWorkers(n) ==
    /\ client = "idle"
    /\ max_active_workers_' = n
    /\ UNCHANGED <<tasks_, waiting_count_, started_, pool_shutting_down_, worker, task, client, clientTask,
                   added>>

-----------------------------------------------------------------------------
\* Mutant of AllWait: the worker does not count itself.
AllOthersWait(waiting) == waiting = ThreadCount /\ tasks_ = <<>>

\* "We may be done": announced by the worker that waits last.
AllWait(waiting) == waiting + 1 = ThreadCount /\ tasks_ = <<>>

\* One turn of the loop of GetTask, from where the lock is acquired.
GetTask(w) ==
    /\ worker[w] \in {"get", "woken"}
    /\ LET waiting == IF worker[w] = "woken" THEN waiting_count_ - 1 ELSE waiting_count_
       IN  \/ /\ pool_shutting_down_
              /\ worker' = [worker EXCEPT ![w] = "exit"]
              /\ waiting_count_' = waiting
              /\ UNCHANGED <<tasks_, task, client>>
           \/ /\ ~pool_shutting_down_
              /\ ThreadCount - waiting <= max_active_workers_ /\ started_ /\ tasks_ # <<>>
              /\ task' = [task EXCEPT ![w] = Head(tasks_)]
              /\ tasks_' = Tail(tasks_)
              /\ worker' = [worker EXCEPT ![w] = "run"]
              /\ waiting_count_' = waiting
              /\ UNCHANGED client
           \/ /\ ~pool_shutting_down_
              /\ ~(ThreadCount - waiting <= max_active_workers_ /\ started_ /\ tasks_ # <<>>)
              /\ waiting_count_' = waiting + 1
              /\ client' = IF AllWait(waiting) /\ client = "sleep" THEN "check" ELSE client
              /\ worker' = [worker EXCEPT ![w] = "sleep"]
              /\ UNCHANGED <<tasks_, task>>
    /\ UNCHANGED <<switches, clientTask, added>>

\* Run and Finalize return.
TaskDone(w) ==
    /\ worker[w] = "run"
    /\ worker' = [worker EXCEPT ![w] = "get"]
    /\ task' = [task EXCEPT ![w] = NoTask]
    /\ UNCHANGED <<tasks_, waiting_count_, switches, client, clientTask, added>>

SpuriousWakeup(w) ==
    /\ worker[w] = "sleep"
    /\ worker' = [worker EXCEPT ![w] = "woken"]
    /\ UNCHANGED <<tasks_, waiting_count_, switches, task, client, clientTask, added>>

-----------------------------------------------------------------------------
Wait(do_work) ==
    /\ client = "idle"
    /\ client' = IF do_work THEN "work" ELSE "check"
    /\ UNCHANGED <<tasks_, waiting_count_, switches, worker, task, clientTask, added>>

\* TryGetTask in the loop of Wait.
ClientWorks ==
    /\ client = "work"
    /\ IF started_ /\ tasks_ # <<>>
       THEN client' = "run" /\ clientTask' = Head(tasks_) /\ tasks_' = Tail(tasks_)
       ELSE client' = "check" /\ UNCHANGED <<tasks_, clientTask>>
    /\ UNCHANGED <<waiting_count_, switches, worker, task, added>>

ClientTaskDone ==
    /\ client = "run"
    /\ client' = "work" /\ clientTask' = NoTask
    /\ UNCHANGED <<tasks_, waiting_count_, switches, worker, task, added>>

\* Mutant of ClientWaits: only the queue is looked at.
ClientWaitsForQueue ==
    /\ client = "check"
    /\ client' = IF ~pool_shutting_down_ /\ tasks_ # <<>> THEN "sleep" ELSE "idle"
    /\ UNCHANGED <<tasks_, waiting_count_, switches, worker, task, clientTask, added>>

ClientWaits ==
    /\ client = "check"
    /\ client' = IF ~pool_shutting_down_ /\ (waiting_count_ # ThreadCount \/ tasks_ # <<>>)
                 THEN "sleep" ELSE "idle"
    /\ UNCHANGED <<tasks_, waiting_count_, switches, worker, task, clientTask, added>>

\* The destructor: every worker is told, and joined.
Shutdown ==
    /\ client = "idle"
    /\ pool_shutting_down_' = TRUE
    /\ worker' = WakeAll
    /\ client' = "join"
    /\ UNCHANGED <<tasks_, waiting_count_, started_, max_active_workers_, task, clientTask, added>>

Joined ==
    /\ client = "join"
    /\ \A w \in Worker : worker[w] = "exit"
    /\ client' = "gone"
    /\ UNCHANGED <<tasks_, waiting_count_, switches, worker, task, clientTask, added>>

-----------------------------------------------------------------------------
ClientStep ==
    \/ ClientAddsTask \/ StartWorkers \/ StopWorkers
    \/ \E n \in 1..ThreadCount : SetMaxActiveWorkers(n)
    \/ \E b \in BOOLEAN : Wait(b)
    \/ Shutdown
WaitStep == ClientWorks \/ ClientTaskDone \/ ClientWaits \/ Joined
WorkerStep(w) == GetTask(w) \/ TaskDone(w)

PoolNext ==
    \/ ClientStep \/ WaitStep \/ TaskAddsTask
    \/ \E w \in Worker : WorkerStep(w) \/ SpuriousWakeup(w)

PoolSpec == PoolInit /\ [][PoolNext]_poolVars

\* Threads run, and tasks end; the client need not call anything.
FairSpec == PoolSpec /\ WF_poolVars(WaitStep) /\ \A w \in Worker : WF_poolVars(WorkerStep(w))
-----------------------------------------------------------------------------
\* Wait returns only when every task added before, and every task those added,
\* has been run, though it looks at waiting_count_, in which woken workers are
\* still counted, and not at who runs a task.
WaitMeansDone ==
    [][client = "check" /\ client' = "idle" =>
          tasks_ = <<>> /\ \A w \in Worker : worker[w] # "run"]_poolVars

\* A started pool empties its queue, Wait on it returns, and so does the
\* destructor, whatever the workers are doing.
PoolProgress ==
    /\ started_ /\ tasks_ # <<>> ~> tasks_ = <<>> \/ ~started_ \/ pool_shutting_down_
    /\ started_ /\ client \in {"work", "run", "check", "sleep"} ~> client = "idle"
    /\ client = "join" ~> client = "gone"

\* "the first available started worker will process it" (thread_pool.h:76): a
\* task added to a started pool is taken from the queue.
TaskProcessed == started_ /\ tasks_ # <<>> ~> tasks_ = <<>> \/ ~started_ \/ pool_shutting_down_
=============================================================================
