--------------------------- MODULE AbstractMonitor ---------------------------
(***************************************************************************)
(* What the monitor of an object promises (the comment at                  *)
(* runtime/monitor.cc:57): one thread owns it at a time, as often as it has *)
(* entered it; a thread that waits has given it up completely and returns  *)
(* as deep in it as it was.                                                *)
(***************************************************************************)
EXTENDS Naturals

CONSTANT Thread

VARIABLES
    depth,      \* how often each thread has entered and not left
    waiting     \* the threads in Object.wait

vars == <<depth, waiting>>

Owns(t) == depth[t] > 0 /\ t \notin waiting
Free(t) == \A u \in Thread \ {t} : ~Owns(u)

Init ==
    /\ depth = [t \in Thread |-> 0]
    /\ waiting = {}

Enter(t) ==
    /\ Free(t) /\ t \notin waiting
    /\ depth' = [depth EXCEPT ![t] = @ + 1]
    /\ UNCHANGED waiting

Exit(t) ==
    /\ Owns(t)
    /\ depth' = [depth EXCEPT ![t] = @ - 1]
    /\ UNCHANGED waiting

Wait(t) ==
    /\ Owns(t)
    /\ waiting' = waiting \cup {t}
    /\ UNCHANGED depth

Return(t) ==
    /\ Free(t) /\ t \in waiting
    /\ waiting' = waiting \ {t}
    /\ UNCHANGED depth

Next == \E t \in Thread : Enter(t) \/ Exit(t) \/ Wait(t) \/ Return(t)

Spec == Init /\ [][Next]_vars
=============================================================================
