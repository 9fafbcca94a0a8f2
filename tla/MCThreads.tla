----------------------------- MODULE MCThreads -----------------------------
(***************************************************************************)
(* Threads that come and go, for TLC: the runtime's threads at its         *)
(* destruction (RuntimeShutdown) and the workers of a pool (ThreadPool).   *)
(* The two do not interact; part says which of them moves in a behaviour,  *)
(* and the other stays as it is at first.                                  *)
(***************************************************************************)
EXTENDS RuntimeShutdown, ThreadPool

VARIABLE part

ThreadsInit == part \in {"shutdown", "pool"} /\ Init /\ PoolInit
ThreadsNext ==
    /\ part' = part
    /\ \/ part = "shutdown" /\ Next /\ UNCHANGED poolVars
       \/ part = "pool" /\ PoolNext /\ UNCHANGED vars

\* The fairness of the two; nothing that RuntimeShutdown is fair to can happen
\* in its initial states.
ThreadsSpec ==
    /\ ThreadsInit /\ [][ThreadsNext]_<<part, vars, poolVars>>
    /\ Fairness
    /\ WF_poolVars(part = "pool" /\ WaitStep)
    /\ \A w \in Worker : WF_poolVars(part = "pool" /\ WorkerStep(w))
=============================================================================
