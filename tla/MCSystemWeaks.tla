--------------------------- MODULE MCSystemWeaks ---------------------------
(***************************************************************************)
(* What the runtime keeps about objects in tables of its own, for TLC: the *)
(* interned strings and the monitors.  The two do not interact; part says  *)
(* which of them moves in a behaviour, and the other stays as it is at     *)
(* first.  Monitors are checked twice: with every operation for the threads*)
(* of Thread, and, where a signal has to choose among several sleepers,    *)
(* without interrupts and hash codes for those of Contender.  The threads  *)
(* are interchangeable, and so are the strings: which of them the image    *)
(* has, if any, makes no difference.                                       *)
(***************************************************************************)
EXTENDS InternTable, TLC

CONSTANTS NoThread, HashCode, kThinLockMaxCount, MaxDepth, Moving, Calls,
          Contender, ContenderDepth, ContenderCalls

VARIABLES
    part,
    lock_word, owner_, lock_count_, num_waiters_, hash_code_, wait_set_, contenders,
    wait_monitor_, interrupted_, suspended, pc, op, word, saved, bailing, stale, hashes

monitor == <<lock_word, owner_, lock_count_, num_waiters_, hash_code_, wait_set_, contenders,
             wait_monitor_, interrupted_, suspended, pc, op, word, saved, bailing, stale, hashes>>

M == INSTANCE Monitor
C == INSTANCE Monitor WITH
         Thread <- Contender, MaxDepth <- ContenderDepth, Calls <- ContenderCalls, Moving <- FALSE
ASSUME M!MonitorAssumption /\ C!MonitorAssumption

Symm == Permutations(Thread) \cup Permutations(Contender)

TablesInit ==
    /\ Init
    /\ \/ part = "interns" /\ M!Init /\ image \in {Null, CHOOSE s \in String : TRUE}
       \/ part = "monitors" /\ M!Init /\ image = Null
       \/ part = "contenders" /\ C!Init /\ image = Null
TablesNext ==
    /\ part' = part
    /\ \/ part = "interns" /\ Next /\ UNCHANGED monitor
       \/ part = "monitors" /\ M!Next /\ UNCHANGED vars
       \/ part = "contenders" /\ C!Next /\ UNCHANGED vars
TablesSpec == TablesInit /\ [][TablesNext]_<<part, vars, monitor>>

\* Monitor!ImplementsMonitor: the lock of an object, thin, fat or changing, is
\* a recursive lock with waits.
ImplementsMonitor ==
    /\ IF part = "contenders" THEN C!AM!Init ELSE M!AM!Init
    /\ [][IF part = "contenders" THEN [C!AM!Next]_(C!AM!vars) ELSE [M!AM!Next]_(M!AM!vars)]_<<part, monitor>>

\* Monitor!NoStaleMonitor: nobody uses a monitor that has been deflated.
NoStaleMonitor == IF part = "contenders" THEN C!NoStaleMonitor ELSE M!NoStaleMonitor

\* Monitor!ContenderNotLost: nobody sleeps at a free monitor unless another
\* thread is awake to take it, which it may have signalled instead.
ContenderNotLost == IF part = "contenders" THEN C!ContenderNotLost ELSE M!ContenderNotLost
=============================================================================
