--------------------------- MODULE AbstractRWLock ---------------------------
(***************************************************************************)
(* What a readers-writer lock promises its clients, the state table of     *)
(* class ReaderWriterMutex in base/mutex.h: Free, Exclusive (one writer)   *)
(* or Shared(n).                                                           *)
(***************************************************************************)
CONSTANTS Thread,    \* the threads
          NoThread   \* stands for "no writer"

VARIABLES writer,    \* the exclusive holder, or NoThread
          readers    \* the shared holders

Init == writer = NoThread /\ readers = {}

ExclusiveLock(t) ==
    /\ writer = NoThread /\ readers = {}
    /\ writer' = t /\ UNCHANGED readers

ExclusiveUnlock(t) ==
    /\ writer = t
    /\ writer' = NoThread /\ UNCHANGED readers

SharedLock(t) ==
    /\ writer = NoThread /\ t \notin readers
    /\ readers' = readers \cup {t} /\ UNCHANGED writer

SharedUnlock(t) ==
    /\ t \in readers
    /\ readers' = readers \ {t} /\ UNCHANGED writer

Next == \E t \in Thread :
    ExclusiveLock(t) \/ ExclusiveUnlock(t) \/ SharedLock(t) \/ SharedUnlock(t)

Spec == Init /\ [][Next]_<<writer, readers>>
=============================================================================
