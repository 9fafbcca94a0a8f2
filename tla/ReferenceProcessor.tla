------------------------- MODULE ReferenceProcessor -------------------------
(***************************************************************************)
(* java.lang.ref processing of a concurrent collection                     *)
(* (runtime/gc/reference_processor.cc, runtime/gc/reference_queue.cc).     *)
(* The behaviour starts where MarkSweep::PausePhase ends: marking has      *)
(* finished, the slow path of Reference.get() is enabled, and mutators run *)
(* again while the collector forwards, clears and enqueues references and  *)
(* then sweeps.                                                            *)
(*                                                                         *)
(* An object has one strong field.  A reference has its referent, which    *)
(* marking does not follow, and, for a finalizer reference, the zombie     *)
(* field.  A circular pendingNext list is abstracted to the set of its     *)
(* elements: the order of processing does not matter to the properties.    *)
(***************************************************************************)
EXTENDS FiniteSets

CONSTANTS
    Object, Reference, Null,
    SoftReference, WeakReference, FinalizerReference, PhantomReference,
    Enqueuable,             \* references created with a ReferenceQueue
    Mutator,
    clear_soft_references

Node == Object \cup Reference

Kinds == {SoftReference, WeakReference, FinalizerReference, PhantomReference}

ASSUME KindsPartition ==
    /\ UNION Kinds = Reference
    /\ \A K, L \in Kinds : K # L => K \cap L = {}
    /\ FinalizerReference \subseteq Enqueuable
    /\ Null \notin Node

VARIABLES
    field,                  \* the strong field of each object
    referent, zombie,       \* the fields of each reference
    marked, gray,           \* mark bitmap, mark stack
    current,                \* the finalizer reference being enqueued
    queue,                  \* union of the soft, weak, finalizer and phantom queues
    cleared,                \* cleared_references_
    slowPath,               \* Reference.slowPathEnabled
    callback,               \* is_marked_callback_ != nullptr
    preserving,             \* preserving_references_
    gc,                     \* where the collector is
    swept,
    roots,                  \* the local references of each mutator
    pc, target, val,        \* GetReferent: where each mutator is, its argument, its first read
    strong,                 \* history: what was marked before any finalizable object was
    unchecked               \* history: what could be reached from the white referents that fast
                            \* paths had read and not yet returned when the slow path was disabled

heap == <<field, referent, zombie>>
flags == <<slowPath, callback, preserving>>
local == <<target, val>>
outer == <<swept, strong, unchecked>>
vars == <<heap, marked, gray, current, queue, cleared, flags, gc, outer, roots, pc, local>>

Strong(n) == IF n \in Object THEN {field[n]} \ {Null} ELSE {zombie[n]} \ {Null}

White(r) == referent[r] # Null /\ referent[r] \notin marked

IsEnqueued(r) == r \in queue \cup cleared

\* What a mutator can go to from n, and from a set of nodes in any number of steps.
Successors(n) == Strong(n) \cup (IF n \in Reference THEN {referent[n]} \ {Null} ELSE {})

Closed(C) == \A n \in C : Successors(n) \subseteq C

Reachable(S) == {n \in Node : \A C \in SUBSET Node : S \subseteq C /\ Closed(C) => n \in C}

TypeOK ==
    /\ field \in [Object -> Node \cup {Null}]
    /\ referent \in [Reference -> Object \cup {Null}]
    /\ zombie \in [Reference -> Object \cup {Null}]
    /\ marked \subseteq Node /\ gray \subseteq marked
    /\ current \in FinalizerReference \cup {Null}
    /\ queue \subseteq Reference /\ cleared \subseteq Reference
    /\ slowPath \in BOOLEAN /\ callback \in BOOLEAN /\ preserving \in BOOLEAN
    /\ swept \subseteq Node /\ strong \subseteq Node /\ unchecked \subseteq Node
    /\ roots \in [Mutator -> SUBSET Node]
    /\ pc \in [Mutator -> {"run", "fast", "slow", "wait"}]
    /\ target \in [Mutator -> Reference \cup {Null}]
    /\ val \in [Mutator -> Object \cup {Null}]

(***************************************************************************)
(* The end of the pause.  What is marked is closed under strong fields and *)
(* holds every root and the finalizer references, which libcore links in a *)
(* global list; it may hold garbage too.  A marked reference whose         *)
(* referent is white was delayed; one whose referent was marked after the  *)
(* reference was scanned is still in its queue.  libcore makes at most one *)
(* finalizer reference for an object.                                      *)
(***************************************************************************)
Init ==
    /\ field \in [Object -> Node \cup {Null}]
    /\ referent \in [Reference -> Object \cup {Null}]
    /\ \A r, q \in FinalizerReference : referent[r] = referent[q] /\ referent[r] # Null => r = q
    /\ zombie = [r \in Reference |-> Null]
    /\ marked \in {M \in SUBSET Node : FinalizerReference \subseteq M
                                       /\ \A n \in M : Strong(n) \subseteq M}
    /\ gray = {}
    /\ current = Null
    /\ queue \in {Q \in SUBSET {r \in marked \cap Reference : referent[r] # Null} :
                    \A r \in marked \cap Reference : White(r) => r \in Q}
    /\ cleared = {}
    /\ slowPath = TRUE /\ callback = FALSE /\ preserving = FALSE
    /\ gc = "args"
    /\ swept = {}
    /\ roots \in [Mutator -> SUBSET marked]
    /\ pc = [t \in Mutator |-> "run"]
    /\ target = [t \in Mutator |-> Null] /\ val = [t \in Mutator |-> Null]
    /\ strong = marked /\ unchecked = {}

(***************************************************************************)
(* The collector: ProcessReferences(concurrent = true, ...).               *)
(***************************************************************************)
\* Mutant: the waiters are not woken.
BroadcastMissing == pc' = pc

Broadcast == pc' = [t \in Mutator |-> IF pc[t] = "wait" THEN "slow" ELSE pc[t]]

SetArgs ==
    /\ gc = "args"
    /\ callback' = TRUE
    /\ gc' = IF clear_soft_references THEN "clear" ELSE "preserveSoft"
    /\ UNCHANGED <<heap, marked, gray, queue, cleared, slowPath, preserving, current, outer,
                   roots, pc, local>>

StartPreservingReferences ==
    /\ gc \in {"preserveSoft", "preserveFinalizer"}
    /\ preserving' = TRUE
    /\ gc' = IF gc = "preserveSoft" THEN "forward" ELSE "finalize"
    /\ UNCHANGED <<heap, marked, gray, queue, cleared, slowPath, callback, current, outer, roots,
                   pc, local>>

Mark(o) ==
    /\ marked' = marked \cup {o}
    /\ gray' = gray \cup ({o} \ marked)

ForwardSoftReference ==
    /\ gc = "forward"
    /\ \E r \in queue \cap SoftReference : White(r) /\ Mark(referent[r])
    /\ UNCHANGED <<heap, queue, cleared, flags, gc, current, outer, roots, pc, local>>

\* The referent is marked first and cleared afterwards; in between the mutators run.
MarkFinalizerReferent ==
    /\ gc = "finalize" /\ current = Null
    /\ \E r \in queue \cap FinalizerReference :
        /\ queue' = queue \ {r}
        /\ IF White(r) THEN Mark(referent[r]) /\ current' = r
                       ELSE UNCHANGED <<marked, gray, current>>
    /\ UNCHANGED <<heap, cleared, flags, gc, outer, roots, pc, local>>

EnqueueFinalizerReference ==
    /\ gc = "finalize" /\ current # Null
    /\ zombie' = [zombie EXCEPT ![current] = referent[current]]
    /\ referent' = [referent EXCEPT ![current] = Null]
    /\ cleared' = cleared \cup {current}
    /\ current' = Null
    /\ UNCHANGED <<field, marked, gray, queue, flags, gc, outer, roots, pc, local>>

\* The list has been walked: process_mark_stack_callback.
ListDone ==
    /\ \/ gc = "forward" /\ (\A r \in queue \cap SoftReference : ~White(r)) /\ gc' = "scanSoft"
       \/ /\ gc = "finalize" /\ current = Null /\ queue \cap FinalizerReference = {}
          /\ gc' = "scanFinalizer"
    /\ UNCHANGED <<heap, marked, gray, queue, cleared, flags, current, outer, roots, pc, local>>

\* MarkSweep::ScanObject of one object of the mark stack, with DelayReferenceReferent.
ScanObject ==
    /\ gc \in {"scanSoft", "scanFinalizer"}
    /\ \E n \in gray :
        /\ marked' = marked \cup Strong(n)
        /\ gray' = (gray \ {n}) \cup (Strong(n) \ marked)
        /\ queue' = IF n \in Reference /\ White(n) /\ ~IsEnqueued(n)
                    THEN queue \cup {n} ELSE queue
    /\ UNCHANGED <<heap, cleared, flags, gc, current, outer, roots, pc, local>>

\* Mutant: the first round of ClearWhiteReferences is left to the second.
StopPreservingFinalizersNext ==
    /\ gc \in {"scanSoft", "scanFinalizer"} /\ gray = {}
    /\ preserving' = FALSE
    /\ gc' = IF gc = "scanSoft" THEN "preserveFinalizer" ELSE "clearAgain"
    /\ strong' = IF gc = "scanSoft" THEN marked ELSE strong
    /\ Broadcast
    /\ UNCHANGED <<heap, marked, gray, queue, cleared, slowPath, callback, current, swept, unchecked,
                   roots, local>>

StopPreservingReferences ==
    /\ gc \in {"scanSoft", "scanFinalizer"} /\ gray = {}
    /\ preserving' = FALSE
    /\ gc' = IF gc = "scanSoft" THEN "clear" ELSE "clearAgain"
    /\ strong' = IF gc = "scanSoft" THEN marked ELSE strong
    /\ Broadcast
    /\ UNCHANGED <<heap, marked, gray, queue, cleared, slowPath, callback, current, swept, unchecked,
                   roots, local>>

\* The queue that ClearWhiteReferences empties next.
ToClear ==
    IF queue \cap SoftReference # {} THEN queue \cap SoftReference
    ELSE IF queue \cap WeakReference # {} THEN queue \cap WeakReference
    ELSE IF gc = "clearAgain" THEN queue \cap PhantomReference ELSE {}

ClearWhiteReference ==
    /\ gc \in {"clear", "clearAgain"}
    /\ \E r \in ToClear :
        /\ queue' = queue \ {r}
        /\ referent' = IF White(r) THEN [referent EXCEPT ![r] = Null] ELSE referent
        /\ cleared' = IF White(r) /\ r \in Enqueuable THEN cleared \cup {r} ELSE cleared
    /\ UNCHANGED <<field, zombie, marked, gray, flags, gc, current, outer, roots, pc, local>>

ClearDone ==
    /\ gc \in {"clear", "clearAgain"} /\ ToClear = {}
    /\ gc' = IF gc = "clear" THEN "preserveFinalizer" ELSE "disable"
    /\ UNCHANGED <<heap, marked, gray, queue, cleared, flags, current, outer, roots, pc, local>>

\* The white referents that fast paths have read: when the slow path is disabled, they are returned.
InFastPath == {val[t] : t \in {t \in Mutator : pc[t] = "fast"}} \ (marked \cup {Null})

DisableSlowPath ==
    /\ gc = "disable"
    /\ callback' = FALSE /\ slowPath' = FALSE
    /\ Broadcast
    /\ unchecked' = Reachable(InFastPath)
    /\ gc' = "sweep"
    /\ UNCHANGED <<heap, marked, gray, queue, cleared, preserving, current, swept, strong, roots,
                   local>>

Sweep ==
    /\ gc = "sweep"
    /\ swept' = Node \ marked
    /\ gc' = "enqueue"
    /\ UNCHANGED <<heap, marked, gray, queue, cleared, current, flags, roots, pc, local, strong,
                   unchecked>>

\* ReferenceQueue.add hands the list to the daemons, which read the zombies.
EnqueueClearedReferences ==
    /\ gc = "enqueue"
    /\ \E t \in Mutator :
        roots' = [roots EXCEPT ![t] = @ \cup cleared
                                        \cup ({zombie[r] : r \in cleared} \ {Null})]
    /\ cleared' = {}
    /\ gc' = "end"
    /\ UNCHANGED <<heap, marked, gray, queue, flags, current, outer, pc, local>>

Collector ==
    \/ SetArgs \/ StartPreservingReferences \/ ForwardSoftReference
    \/ MarkFinalizerReferent \/ EnqueueFinalizerReference \/ ListDone \/ ScanObject
    \/ StopPreservingReferences \/ ClearWhiteReference \/ ClearDone \/ DisableSlowPath \/ Sweep
    \/ EnqueueClearedReferences

(***************************************************************************)
(* Mutators.                                                               *)
(***************************************************************************)
LoadField(t) ==
    /\ pc[t] = "run"
    /\ \E o \in roots[t] \cap Object :
        /\ field[o] # Null
        /\ roots' = [roots EXCEPT ![t] = @ \cup {field[o]}]
    /\ UNCHANGED <<heap, marked, gray, queue, cleared, flags, gc, current, outer, pc, local>>

StoreField(t) ==
    /\ pc[t] = "run"
    /\ \E o \in roots[t] \cap Object, v \in roots[t] \cup {Null} :
        field' = [field EXCEPT ![o] = v]
    /\ UNCHANGED <<referent, zombie, marked, gray, queue, cleared, flags, gc, current, outer,
                   roots, pc, local>>

\* GetReferent returns o to the mutator.
Return(t, o) ==
    /\ roots' = [roots EXCEPT ![t] = @ \cup ({o} \ {Null})]
    /\ pc' = [pc EXCEPT ![t] = "run"]
    /\ target' = [target EXCEPT ![t] = Null] /\ val' = [val EXCEPT ![t] = Null]

ReadReferent(t) ==
    /\ pc[t] = "run"
    /\ \E r \in roots[t] \cap Reference :
        /\ target' = [target EXCEPT ![t] = r]
        /\ val' = [val EXCEPT ![t] = referent[r]]
    /\ pc' = [pc EXCEPT ![t] = "fast"]
    /\ UNCHANGED <<heap, marked, gray, queue, cleared, flags, gc, current, outer, roots>>

TestSlowPath(t) ==
    /\ pc[t] = "fast"
    /\ IF ~slowPath \/ val[t] = Null
       THEN Return(t, val[t])
       ELSE pc' = [pc EXCEPT ![t] = "slow"] /\ UNCHANGED <<roots, local>>
    /\ UNCHANGED <<heap, marked, gray, queue, cleared, flags, gc, current, outer>>

\* Mutant: any marked referent is returned.
MayReturnMarked(r) == callback /\ referent[r] \in marked

\* A marked referent may be returned: it is black, not gray.
MayReturn(r) ==
    /\ callback /\ referent[r] \in marked
    /\ ~preserving \/ (r \notin FinalizerReference /\ ~IsEnqueued(r))

\* One turn of the loop, under reference_processor_lock_.
TryReferent(t) ==
    /\ pc[t] = "slow"
    /\ IF ~slowPath \/ referent[target[t]] = Null \/ MayReturn(target[t])
       THEN Return(t, referent[target[t]])
       ELSE pc' = [pc EXCEPT ![t] = "wait"] /\ UNCHANGED <<roots, local>>
    /\ UNCHANGED <<heap, marked, gray, queue, cleared, flags, gc, current, outer>>

GetReferent(t) == ReadReferent(t) \/ TestSlowPath(t) \/ TryReferent(t)

Next ==
    \/ Collector
    \/ \E t \in Mutator : LoadField(t) \/ StoreField(t) \/ GetReferent(t)

Spec == Init /\ [][Next]_vars

\* The collector thread runs on, and a mutator inside GetReferent does when it is not waiting.
FairSpec ==
    /\ Spec
    /\ WF_vars(Collector)
    /\ \A t \in Mutator : WF_vars(TestSlowPath(t) \/ TryReferent(t))

(***************************************************************************)
(* Properties.                                                             *)
(***************************************************************************)

\* No mutator ever holds an object that the sweep has freed: GetReferent lets no white object
\* escape, and no gray one through which a white one could be loaded.  The comments of GetReferent
\* promise it; the fast path breaks it, since it reads the referent before the flag.
HeldNotSwept == \A t \in Mutator : roots[t] \cap swept = {}

\* The fast path is the only leak: what a mutator holds of swept objects can be reached from a white
\* referent that a fast path had read when DisableSlowPath cleared the flag.  In particular the slow
\* path returns no white object and no gray one through which a white one could be loaded, in none
\* of the phases, and a fast path that begins after the flag was cleared returns none either.
OnlyFastPathLeaks == \A t \in Mutator : roots[t] \cap swept \subseteq unchecked

\* Once processing is over, no reference the program can reach refers to a swept object, and a
\* soft or weak reference that was marked before finalizable objects were no longer refers to an
\* object that was not: it was cleared before its referent could be finalized.  A finalizer
\* reference with such a referent has moved it to the zombie field, marked.
ReferencesProcessed ==
    gc \in {"sweep", "enqueue", "end"} =>
        /\ queue = {}
        /\ \A r \in marked \cap Reference : ~White(r) /\ zombie[r] \in marked \cup {Null}
        /\ \A r \in strong \cap (SoftReference \cup WeakReference \cup FinalizerReference) :
            referent[r] \in strong \cup {Null}

\* Reference.get() returns: a mutator that blocks on the reference processor is woken.
GetReferentReturns == \A t \in Mutator : pc[t] = "slow" ~> pc[t] = "run"
=============================================================================
