--------------------------- MODULE RuntimeShutdown ---------------------------
(***************************************************************************)
(* Thread birth, thread exit and the destruction of the runtime:          *)
(* Thread::CreateNativeThread, CreateCallback, Attach and                 *)
(* ThreadList::Unregister racing with ~Runtime and ~ThreadList.           *)
(*                                                                         *)
(* Critical sections are atomic steps: runtime_shutdown_lock_ is held only *)
(* inside one, and thread_list_lock_ is held across steps only by          *)
(* SuspendAllDaemonThreads, which sleeps with it (ListLockFree).  Waiting  *)
(* on shutdown_cond_ and thread_exit_cond_ is a pc of its own that only a  *)
(* signal leaves, so that a missing signal is a shutdown that never ends.  *)
(* Suspension by other suspenders is the subject of module ThreadList.     *)
(* A thread that uses the ThreadList after it is deleted acts as if its    *)
(* memory were unchanged.                                                  *)
(***************************************************************************)
EXTENDS Naturals, FiniteSets

CONSTANTS
  Threads,   \* threads the application starts or attaches, each once
  Daemons,   \* those among them that are daemons
  Main,      \* the thread that calls DestroyJavaVM
  Tries      \* how often SuspendAllDaemonThreads looks (10 in the code)

ASSUME ShutdownAssumption ==
  /\ IsFiniteSet(Threads)
  /\ Daemons \subseteq Threads
  /\ Main \notin Threads
  /\ Tries \in Nat \ {0}

VARIABLES
  shutting_down_started_,
  shutting_down_,
  threads_being_born_,
  list_,           \* ThreadList::list_
  runnable,        \* threads whose state is kRunnable
  suspend_count,   \* threads with a raised suspend count
  pc,              \* where each thread is
  child,           \* the thread each creator is starting
  tries            \* iterations of SuspendAllDaemonThreads made

vars == <<shutting_down_started_, shutting_down_, threads_being_born_, list_,
          runnable, suspend_count, pc, child, tries>>

All == Threads \cup {Main}

\* What child holds outside CreateNativeThread: nobody starts Main.
None == Main

ThreadPCs ==
  {"Unborn", "Creating", "Started", "Attaching", "Attached",
   "Destroying", "Removing", "Removed", "Released", "Gone"}

MainPCs ==
  {"AwaitBirths", "CheckBirths", "DeleteThreadList", "Detach",
   "WaitNonDaemons", "Scan", "AwaitExit", "SuspendDaemons", "Look",
   "ThreadListDeleted", "RuntimeDeleted"}

TypeOK ==
  /\ shutting_down_started_ \in BOOLEAN
  /\ shutting_down_ \in BOOLEAN
  /\ threads_being_born_ \in 0 .. Cardinality(Threads)
  /\ list_ \subseteq All
  /\ runnable \subseteq All
  /\ suspend_count \subseteq Threads
  /\ pc \in [All -> ThreadPCs \cup MainPCs]
  /\ child \in [All -> Threads \cup {None}]
  /\ tries \in 0 .. Tries

\* DestroyJavaVM may be called by an attached thread or by one that is not.
Init ==
  /\ shutting_down_started_ = FALSE
  /\ shutting_down_ = FALSE
  /\ threads_being_born_ = 0
  /\ list_ \in {{}, {Main}}
  /\ runnable = {}
  /\ suspend_count = {}
  /\ pc = [t \in All |-> IF t \in list_ THEN "Attached" ELSE "Unborn"]
  /\ child = [t \in All |-> None]
  /\ tries = 0

ListLockFree == pc[Main] # "Look"

-----------------------------------------------------------------------------
(* Birth *)

\* Mutant: the broadcast is left to births that end before shutdown starts.
EndBirthSilently(born, newpc) ==
  /\ threads_being_born_' = born - 1
  /\ pc' = newpc

\* Runtime::EndThreadBirth, when born threads are being born: the last birth
\* wakes ~Runtime.
EndThreadBirth(born, newpc) ==
  /\ threads_being_born_' = born - 1
  /\ pc' = IF shutting_down_started_ /\ born - 1 = 0
                /\ newpc[Main] = "AwaitBirths"
           THEN [newpc EXCEPT ![Main] = "CheckBirths"]
           ELSE newpc

\* Mutant: the test of IsShuttingDownLocked is forgotten.
StartUnchecked(p, c) ==
  /\ pc[p] = "Attached" /\ p \notin runnable
  /\ pc[c] = "Unborn" /\ \A q \in All : child[q] # c
  /\ threads_being_born_' = threads_being_born_ + 1
  /\ pc' = [pc EXCEPT ![p] = "Creating"]
  /\ child' = [child EXCEPT ![p] = c]
  /\ UNCHANGED <<shutting_down_started_, shutting_down_, list_, runnable,
                 suspend_count, tries>>

\* Thread::CreateNativeThread up to pthread_create: p starts the birth of c,
\* or throws InternalError (no state changes) once shutting_down_ is set.
CreateNativeThread(p, c) ==
  /\ pc[p] = "Attached" /\ p \notin runnable
  /\ pc[c] = "Unborn" /\ \A q \in All : child[q] # c
  /\ ~shutting_down_
  /\ threads_being_born_' = threads_being_born_ + 1
  /\ pc' = [pc EXCEPT ![p] = "Creating"]
  /\ child' = [child EXCEPT ![p] = c]
  /\ UNCHANGED <<shutting_down_started_, shutting_down_, list_, runnable,
                 suspend_count, tries>>

\* pthread_create succeeds: c is on its way to CreateCallback.
PthreadCreate(p) ==
  /\ pc[p] = "Creating"
  /\ pc' = [pc EXCEPT ![p] = "Attached", ![child[p]] = "Started"]
  /\ child' = [child EXCEPT ![p] = None]
  /\ UNCHANGED <<shutting_down_started_, shutting_down_, threads_being_born_,
                 list_, runnable, suspend_count, tries>>

\* pthread_create fails: the creator ends the birth and deletes the Thread.
PthreadCreateFails(p) ==
  /\ pc[p] = "Creating"
  /\ EndThreadBirth(threads_being_born_,
                    [pc EXCEPT ![p] = "Attached", ![child[p]] = "Gone"])
  /\ child' = [child EXCEPT ![p] = None]
  /\ UNCHANGED <<shutting_down_started_, shutting_down_, list_, runnable,
                 suspend_count, tries>>

\* Thread::CreateCallback under runtime_shutdown_lock_: Init registers the
\* thread, and its birth ends.  NoThreadLeftBehind states its CHECK.
CreateCallback(c) ==
  /\ pc[c] = "Started"
  /\ ListLockFree
  /\ list_' = list_ \cup {c}
  /\ EndThreadBirth(threads_being_born_, [pc EXCEPT ![c] = "Attached"])
  /\ UNCHANGED <<shutting_down_started_, shutting_down_, runnable,
                 suspend_count, child, tries>>

\* Thread::Attach reads Runtime::Current(), null once ~Runtime has cleared it.
AttachReadsRuntime(c) ==
  /\ pc[c] = "Unborn" /\ \A q \in All : child[q] # c
  /\ pc[Main] # "RuntimeDeleted"
  /\ pc' = [pc EXCEPT ![c] = "Attaching"]
  /\ UNCHANGED <<shutting_down_started_, shutting_down_, threads_being_born_,
                 list_, runnable, suspend_count, child, tries>>

\* Thread::Attach under runtime_shutdown_lock_: nothing happens when the
\* runtime is shutting down, else birth, registration and the birth's end.
Attach(c) ==
  /\ pc[c] = "Attaching"
  /\ UNCHANGED <<shutting_down_started_, shutting_down_, runnable,
                 suspend_count, child, tries>>
  /\ \/ /\ shutting_down_
        /\ pc' = [pc EXCEPT ![c] = "Gone"]
        /\ UNCHANGED <<threads_being_born_, list_>>
     \/ /\ ~shutting_down_
        /\ list_' = list_ \cup {c}
        /\ EndThreadBirth(threads_being_born_ + 1,
                          [pc EXCEPT ![c] = "Attached"])

-----------------------------------------------------------------------------
(* Life and exit *)

\* TransitionFromSuspendedToRunnable: waits while the suspend count is raised.
BecomeRunnable(t) ==
  /\ pc[t] = "Attached"
  /\ t \notin suspend_count
  /\ runnable' = runnable \cup {t}
  /\ UNCHANGED <<shutting_down_started_, shutting_down_, threads_being_born_,
                 list_, suspend_count, pc, child, tries>>

\* The end of managed code, or a suspend check that finds a request.
LeaveRunnable(t) ==
  /\ pc[t] = "Attached" /\ t \in runnable
  /\ runnable' = runnable \ {t}
  /\ UNCHANGED <<shutting_down_started_, shutting_down_, threads_being_born_,
                 list_, suspend_count, pc, child, tries>>

\* ThreadList::Unregister, Thread::Destroy enters managed code to leave its
\* thread group and to wake joiners.
Destroy(t) ==
  /\ \/ t \in Threads /\ pc[t] = "Attached"
     \/ t = Main /\ pc[t] = "Detach"
  /\ t \notin runnable /\ t \notin suspend_count
  /\ runnable' = runnable \cup {t}
  /\ pc' = [pc EXCEPT ![t] = "Destroying"]
  /\ UNCHANGED <<shutting_down_started_, shutting_down_, threads_being_born_,
                 list_, suspend_count, child, tries>>

Destroyed(t) ==
  /\ pc[t] = "Destroying"
  /\ runnable' = runnable \ {t}
  /\ pc' = [pc EXCEPT ![t] = "Removing"]
  /\ UNCHANGED <<shutting_down_started_, shutting_down_, threads_being_born_,
                 list_, suspend_count, child, tries>>

\* The loop of Unregister: the thread removes and deletes itself under
\* thread_list_lock_, and spins while IsSuspended.
RemoveSelf(t) ==
  /\ pc[t] = "Removing"
  /\ ListLockFree
  /\ t \notin suspend_count
  /\ list_' = list_ \ {t}
  /\ pc' = [pc EXCEPT ![t] = "Removed"]
  /\ UNCHANGED <<shutting_down_started_, shutting_down_, threads_being_born_,
                 runnable, suspend_count, child, tries>>

\* ThreadList::ReleaseThreadId: clears a bit of the list's allocated_ids_.
ReleaseThreadId(t) ==
  /\ pc[t] = "Removed"
  /\ pc' = [pc EXCEPT ![t] = "Released"]
  /\ UNCHANGED <<shutting_down_started_, shutting_down_, threads_being_born_,
                 list_, runnable, suspend_count, child, tries>>

\* The end of Unregister: thread_exit_cond_ is signalled.  Main is back in
\* ~ThreadList.
SignalExit(t) ==
  /\ pc[t] = "Released"
  /\ ListLockFree
  /\ pc' = [pc EXCEPT ![t] = IF t = Main THEN "WaitNonDaemons" ELSE "Gone",
                      ![Main] = IF t = Main \/ @ = "AwaitExit"
                                THEN "WaitNonDaemons" ELSE @]
  /\ UNCHANGED <<shutting_down_started_, shutting_down_, threads_being_born_,
                 list_, runnable, suspend_count, child, tries>>

-----------------------------------------------------------------------------
(* ~Runtime *)

\* The loop of ~Runtime under runtime_shutdown_lock_: wait for the births
\* under way, or set shutting_down_.
WaitForBirths ==
  IF threads_being_born_ > 0
  THEN pc' = [pc EXCEPT ![Main] = "AwaitBirths"] /\ UNCHANGED shutting_down_
  ELSE pc' = [pc EXCEPT ![Main] = "DeleteThreadList"] /\ shutting_down_' = TRUE

\* DestroyJavaVM: ~Runtime up to the first wait.
DestroyJavaVM ==
  /\ pc[Main] \in {"Unborn", "Attached"} /\ Main \notin runnable
  /\ shutting_down_started_' = TRUE
  /\ WaitForBirths
  /\ UNCHANGED <<threads_being_born_, list_, runnable, suspend_count, child,
                 tries>>

\* shutdown_cond_->Wait returns.
CheckBirths ==
  /\ pc[Main] = "CheckBirths"
  /\ WaitForBirths
  /\ UNCHANGED <<shutting_down_started_, threads_being_born_, list_, runnable,
                 suspend_count, child, tries>>

\* ~ThreadList detaches the current thread if it is attached.
DeleteThreadList ==
  /\ pc[Main] = "DeleteThreadList"
  /\ ListLockFree
  /\ pc' = [pc EXCEPT ![Main] = IF Main \in list_ THEN "Detach"
                                ELSE "WaitNonDaemons"]
  /\ UNCHANGED <<shutting_down_started_, shutting_down_, threads_being_born_,
                 list_, runnable, suspend_count, child, tries>>

\* WaitForOtherNonDaemonThreadsToExit: the CHECKs that no birth is under way.
CheckNoBirths ==
  /\ pc[Main] = "WaitNonDaemons"
  /\ pc' = [pc EXCEPT ![Main] = "Scan"]
  /\ UNCHANGED <<shutting_down_started_, shutting_down_, threads_being_born_,
                 list_, runnable, suspend_count, child, tries>>

\* ... and the scan of the list, which waits for an exit when it meets a
\* thread that is not a daemon.
ScanForNonDaemons ==
  /\ pc[Main] = "Scan"
  /\ pc' = [pc EXCEPT ![Main] = IF list_ \subseteq Daemons
                                THEN "SuspendDaemons" ELSE "AwaitExit"]
  /\ UNCHANGED <<shutting_down_started_, shutting_down_, threads_being_born_,
                 list_, runnable, suspend_count, child, tries>>

\* SuspendAllDaemonThreads raises every suspend count ...
SuspendAllDaemonThreads ==
  /\ pc[Main] = "SuspendDaemons"
  /\ suspend_count' = suspend_count \cup list_
  /\ pc' = [pc EXCEPT ![Main] = "Look"]
  /\ UNCHANGED <<shutting_down_started_, shutting_down_, threads_being_born_,
                 list_, runnable, child, tries>>

\* ... and looks a number of times, after a sleep, whether all are suspended.
LookAtDaemons ==
  /\ pc[Main] = "Look"
  /\ tries' = tries + 1
  /\ pc' = [pc EXCEPT ![Main] =
              IF list_ \cap runnable = {} \/ tries' = Tries
              THEN "ThreadListDeleted" ELSE @]
  /\ UNCHANGED <<shutting_down_started_, shutting_down_, threads_being_born_,
                 list_, runnable, suspend_count, child>>

\* The rest of ~Runtime deletes what the threads use and clears instance_.
DeleteRuntime ==
  /\ pc[Main] = "ThreadListDeleted"
  /\ pc' = [pc EXCEPT ![Main] = "RuntimeDeleted"]
  /\ UNCHANGED <<shutting_down_started_, shutting_down_, threads_being_born_,
                 list_, runnable, suspend_count, child, tries>>

-----------------------------------------------------------------------------
MainStep ==
  \/ CheckBirths \/ DeleteThreadList \/ CheckNoBirths \/ ScanForNonDaemons
  \/ SuspendAllDaemonThreads \/ LookAtDaemons \/ DeleteRuntime

\* The steps of births and exits under way.
Unavoidable(t) ==
  \/ CreateCallback(t) \/ Attach(t)
  \/ Destroyed(t) \/ RemoveSelf(t) \/ ReleaseThreadId(t) \/ SignalExit(t)

Next ==
  \/ DestroyJavaVM
  \/ MainStep
  \/ \E p \in All, c \in Threads : CreateNativeThread(p, c)
  \/ \E p \in All : PthreadCreate(p) \/ PthreadCreateFails(p)
  \/ \E c \in Threads : AttachReadsRuntime(c)
  \/ \E t \in All :
       \/ Unavoidable(t)
       \/ BecomeRunnable(t) \/ LeaveRunnable(t) \/ Destroy(t)

Spec == Init /\ [][Next]_vars

\* Threads that have started a birth or an exit go on with it.  A thread that
\* is not a daemon returns from its run method: however often it enters
\* managed code it reaches its exit (strong fairness), and ~Runtime waits for
\* it by design.  Nothing is assumed of daemons that run, nor that anybody
\* destroys the runtime.
Fairness ==
  /\ WF_vars(MainStep)
  /\ \A p \in All : WF_vars(PthreadCreate(p) \/ PthreadCreateFails(p))
  /\ \A t \in All : WF_vars(Unavoidable(t))
  /\ \A t \in All \ Daemons : WF_vars(LeaveRunnable(t)) /\ SF_vars(Destroy(t))

LiveSpec == Spec /\ Fairness

-----------------------------------------------------------------------------
(* Properties *)

\* The CHECKs of CreateCallback, WaitForOtherNonDaemonThreadsToExit and
\* SuspendAllDaemonThreads hold, whatever is born, attached or exits while the
\* runtime is destroyed: once shutting_down_ is set no thread is between the
\* start and the end of its birth, only daemons are listed once the scan has
\* found so, and when the list is deleted every thread left in it has a raised
\* suspend count, so that it cannot become runnable again.
NoThreadLeftBehind ==
  /\ shutting_down_ =>
       /\ threads_being_born_ = 0
       /\ \A t \in All : pc[t] \notin {"Creating", "Started"}
  /\ pc[Main] \in {"SuspendDaemons", "Look", "ThreadListDeleted",
                  "RuntimeDeleted"} => list_ \subseteq Daemons
  /\ pc[Main] \in {"ThreadListDeleted", "RuntimeDeleted"} =>
       list_ \subseteq suspend_count

\* ~Runtime, once started, finishes: the wake-ups of shutdown_cond_ and
\* thread_exit_cond_ are not lost, whichever births fail and in whatever
\* order the threads exit.
ShutdownCompletes ==
  shutting_down_started_ ~> pc[Main] = "RuntimeDeleted"

\* What runtime.cc:189 says of threads that are not daemons: they have
\* terminated when the list is deleted; at least they are out of Unregister,
\* which goes on using the list after the thread has left it.
NonDaemonsTerminated ==
  pc[Main] \in {"ThreadListDeleted", "RuntimeDeleted"} =>
    \A t \in Threads \ Daemons : pc[t] \notin {"Removed", "Released"}

\* What runtime.cc:189 says of daemons: they are suspended when the list is
\* deleted.
DaemonsSuspended ==
  pc[Main] \in {"ThreadListDeleted", "RuntimeDeleted"} => list_ \cap runnable = {}
=============================================================================
