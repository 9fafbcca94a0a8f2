----------------------------- MODULE MCClasses -----------------------------
(***************************************************************************)
(* The two halves of the class linker for TLC, each on its own: part says  *)
(* which of them moves in a behaviour, and the other stays as it is at     *)
(* first.                                                                  *)
(*   "loading"       ClassLoading: a class over an abstract class over an  *)
(*                   interface, or two classes that extend each other      *)
(*   "initializing"  ClassInit: a class P with two subclasses, whose       *)
(*                   initializers use each other's class, and that of C    *)
(*                   also C itself, so that a thread meets the             *)
(*                   initialization it is performing                       *)
(***************************************************************************)
EXTENDS ClassLoading, TLC

CONSTANTS A, B, I, P, C, D, InitializingMayFail

VARIABLES
    part,
    init_status, clinit_thread_id, init_monitor, waiting, init_frames, ran, init_aborted

initializing == <<init_status, clinit_thread_id, init_monitor, waiting, init_frames, ran,
                  init_aborted>>

Acyclic == (A :> <<B, I>>) @@ (B :> <<I>>) @@ (I :> <<>>)
Cyclic == (A :> <<B>>) @@ (B :> <<A>>) @@ (I :> <<>>)
MCHierarchy == {Acyclic, Cyclic}

MCClass == {P, C, D}
MCSuper == (P :> Null) @@ (C :> P) @@ (D :> P)
MCUses == (P :> <<>>) @@ (C :> <<D, C>>) @@ (D :> <<C>>)

K == INSTANCE ClassInit WITH
         Class <- MCClass, Super <- MCSuper, Uses <- MCUses,
         MayFail <- InitializingMayFail,
         status <- init_status, monitor <- init_monitor, frames <- init_frames,
         aborted <- init_aborted

ASSUME K!ClassAssumption

ClassesInit ==
    /\ part \in {"loading", "initializing"}
    /\ Init /\ K!Init
    /\ part = "initializing" => parents = Acyclic

ClassesNext ==
    /\ part' = part
    /\ \/ part = "loading" /\ Next /\ UNCHANGED initializing
       \/ part = "initializing" /\ K!Next /\ UNCHANGED vars

\* The fairness of ClassLoading and ClassInit, asked of the part that moves.
ClassesFairness ==
    \A t \in Thread :
        /\ WF_vars(part = "loading" /\ Run(t))
        /\ WF_initializing(part = "initializing" /\ K!Run(t))

ClassesSpec == ClassesInit /\ [][ClassesNext]_<<part, vars, initializing>> /\ ClassesFairness

\* ClassInit!InitializedBeforeUse: a class is initialized once, before its use.
InitializedBeforeUse == K!InitializedBeforeUse

\* ClassInit!EnsureInitializedReturns: no thread waits for ever for a class
\* that another one initializes, but in a ring of initializers.
EnsureInitializedReturns == K!EnsureInitializedReturns
=============================================================================
