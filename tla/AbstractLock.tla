---------------------------- MODULE AbstractLock ----------------------------
(***************************************************************************)
(* What an exclusive lock promises its clients: at any time it has at most *)
(* one holder; a thread becomes the holder only when there is none, and    *)
(* only the holder gives it up.  base/mutex.h documents this contract in   *)
(* the state tables of class Mutex; module Mutex implements it with an     *)
(* atomic word and a futex.                                                *)
(***************************************************************************)
CONSTANTS Thread,    \* the threads
          NoThread   \* stands for "no holder"

VARIABLE holder

Init == holder = NoThread

Acquire(t) == holder = NoThread /\ holder' = t

Release(t) == holder = t /\ holder' = NoThread

Next == \E t \in Thread : Acquire(t) \/ Release(t)

Spec == Init /\ [][Next]_holder
=============================================================================
