---------------------------- MODULE MCCollection ----------------------------
(***************************************************************************)
(* Collections for TLC.  part says what moves in a behaviour, the other    *)
(* stays as it is at first:                                                *)
(*   "references"   ReferenceProcessor, from the states in which the       *)
(*                  mutators already hold everything that is marked.  A    *)
(*                  mutator that holds less can take no step that one that *)
(*                  holds more cannot, and what it holds only grows: the   *)
(*                  other initial states add no behaviour of the           *)
(*                  references, of the collector or of GetReferent         *)
(*   "collections"  HeapCollection, with a thread that allocates, the      *)
(*                  daemon and a thread in JNI code                        *)
(***************************************************************************)
EXTENDS ReferenceProcessor, TLC

CONSTANTS
    mutator, daemon, native, Foreground, Background, CompactForOom, IgnoreMaxFootprint, MaxPlan

VARIABLES part, heap_, suspender, shutting_down, frames, failure

collections == <<heap_, suspender, shutting_down, frames, failure>>

MCThread == {mutator, daemon, native}
MCDoes ==
    (mutator :> {"alloc", "nonmoving", "collect"}) @@ (daemon :> {"daemon"}) @@ (native :> {"critical"})

H == INSTANCE HeapCollection WITH heap <- heap_, Thread <- MCThread, Does <- MCDoes

ASSUME H!HeapAssumption

CollectionInit ==
    /\ part \in {"references", "collections"}
    /\ Init /\ roots = [t \in Mutator |-> marked]
    /\ IF part = "collections"
       THEN /\ H!Init
            /\ field = [n \in Object |-> Null] /\ referent = [r \in Reference |-> Null]
            /\ marked = FinalizerReference /\ queue = {}
       ELSE /\ heap_ = <<>> /\ suspender = <<>> /\ shutting_down = <<>> /\ frames = <<>>
            /\ failure = <<>>

CollectionNext ==
    /\ part' = part
    /\ \/ part = "references" /\ Next /\ UNCHANGED collections
       \/ part = "collections" /\ H!Next /\ UNCHANGED vars

\* The fairness of ReferenceProcessor, asked when it moves.
CollectionSpec ==
    /\ CollectionInit /\ [][CollectionNext]_<<part, vars, collections>>
    /\ WF_vars(part = "references" /\ Collector)
    /\ \A t \in Mutator : WF_vars(part = "references" /\ (TestSlowPath(t) \/ TryReferent(t)))

\* HeapCollection!CriticalNotMoved: nothing moves while a thread is in a
\* critical section of JNI code.
CriticalNotMoved == part = "collections" => H!CriticalNotMoved

\* HeapCollection!ConcurrentGcEnabled: concurrent collections are never
\* disabled for good.
ConcurrentGcEnabled == part = "collections" => H!ConcurrentGcEnabled
=============================================================================
