---------------------- MODULE ReferenceProcessorProofs ----------------------
(***************************************************************************)
(* For any heap, any references and any number of mutators: references are *)
(* cleared, preserved and enqueued as java.lang.ref promises; and whatever *)
(* a mutator holds of swept objects, it has from a fast path of            *)
(* GetReferent that was under way when the slow path was disabled.         *)
(***************************************************************************)
EXTENDS ReferenceProcessor, TLAPS

Preserving == {"forward", "scanSoft", "finalize", "scanFinalizer"}
Over == {"sweep", "enqueue", "end"}
Finalized == {"scanFinalizer", "clearAgain", "disable"} \cup Over
Cleared == {"preserveFinalizer", "finalize"} \cup Finalized
Phases == {"args", "preserveSoft", "clear", "preserveFinalizer", "clearAgain", "disable"}
             \cup Preserving \cup Over

\* The phases of the collector and the flags it sets.
PhaseInv ==
    /\ gc \in Phases
    /\ preserving <=> gc \in Preserving
    /\ callback <=> gc \notin {"args"} \cup Over
    /\ slowPath <=> gc \notin Over
    /\ gc \notin Preserving => gray = {}
    /\ gc # "finalize" => current = Null
    /\ gc \in {"scanFinalizer", "clearAgain"} => queue \cap FinalizerReference = {}
    /\ gc = "preserveFinalizer" => queue \cap (SoftReference \cup WeakReference) = {}
    /\ gc \in {"disable"} \cup Over => queue = {}
    /\ gc \notin {"enqueue", "end"} => swept = {}
    /\ swept \cap marked = {}
    /\ gc \notin Over => unchecked = {}

\* The queues and the marks: a black reference to a white object waits in its
\* queue, and what is cleared or enqueued is marked.
QueueInv ==
    /\ FinalizerReference \subseteq marked \ gray
    /\ queue \subseteq marked /\ cleared \subseteq marked
    /\ current # Null => referent[current] \in marked
    /\ \A r \in cleared : referent[r] = Null
    /\ \A r \in Reference : zombie[r] \in marked \cup {Null}
    /\ \A r \in (marked \ gray) \cap Reference : White(r) => r \in queue

\* References are cleared before finalizable objects are marked: from then on
\* a reference that was strong refers to nothing that only a finalizer keeps.
\* A finalizable object has one finalizer reference, so a reference whose
\* referent is marked for being finalizable is the one being enqueued.
OrderInv ==
    /\ strong \subseteq marked
    /\ gc \in {"args", "preserveSoft", "clear", "preserveFinalizer"} => strong = marked
    /\ \A r, q \in FinalizerReference : referent[r] = referent[q] /\ referent[r] # Null => r = q
    /\ gc \in Cleared =>
        \A r \in strong \cap (SoftReference \cup WeakReference) : referent[r] \in strong \cup {Null}
    /\ gc = "finalize" =>
        \A r \in FinalizerReference : referent[r] \in marked \ strong => r = current
    /\ gc \in Finalized =>
        \A r \in FinalizerReference : referent[r] \in strong \cup {Null}

\* Where the mutators are in GetReferent.
TargetInv == \A t \in Mutator : pc[t] # "run" => target[t] \in roots[t] \cap Reference

ProcessInv == TypeOK /\ PhaseInv /\ QueueInv /\ OrderInv /\ TargetInv

\* What mutators can get at once processing is over: what is marked, and what
\* the fast paths let through.
Known == marked \cup unchecked

\* The strong field of a black object is known.
FieldInv == \A o \in (marked \ gray) \cap Object : field[o] \in Known \cup {Null}

\* What the fast path has read when processing is over.
FastInv == \A t \in Mutator : pc[t] = "fast" /\ gc \in Over => val[t] \in Known \cup {Null}

\* What the mutators may reach, while objects are being preserved: black
\* objects closed under their fields, and under their referents but for those
\* that GetReferent refuses.  Afterwards the fast paths may have added to it.
Shield(B) ==
    /\ \A t \in Mutator : roots[t] \subseteq B
    /\ \A o \in B \cap Object : field[o] \in B \cup {Null}
    /\ \A r \in B \cap Reference :
        referent[r] \in B \cup {Null} \/ r \in queue \cup FinalizerReference
    /\ gc \notin Preserving => B = Known

IInv == ProcessInv /\ FieldInv /\ FastInv /\ \E B \in SUBSET (Known \ gray) : Shield(B)

\* The state at the end of the pause satisfies the inductive invariant.
LEMMA InitInv == Init => IInv
<1> SUFFICES ASSUME Init PROVE IInv
    OBVIOUS
<1> USE KindsPartition DEF Node, Kinds, Known
<1>1. TypeOK
    BY DEF Init, TypeOK
<1>2. PhaseInv
    BY DEF Init, PhaseInv, Phases, Preserving, Over
<1>3. QueueInv /\ FieldInv
    BY DEF Init, QueueInv, FieldInv, White, Strong
<1>4. TargetInv /\ FastInv
    BY DEF Init, TargetInv, FastInv
<1>5. Shield(marked) /\ Known \ gray = marked
    BY <1>1, <1>3 DEF Init, Shield, QueueInv, FieldInv, White, Strong, TypeOK, Preserving
<1>6. OrderInv
    BY DEF Init, OrderInv, Cleared, Finalized, Over
<1> QED BY <1>1, <1>2, <1>3, <1>4, <1>5, <1>6 DEF IInv, ProcessInv

\* A step of the collector preserves the invariant of references: it moves
\* each from phase to phase before its referent can be marked for another
\* reason.
LEMMA CollectorProcess ==
    ASSUME ProcessInv, Collector
    PROVE  ProcessInv'
<1> USE KindsPartition DEF Node, Kinds, heap, flags, local, outer, ProcessInv
<1>1. CASE SetArgs
    <2>1. TypeOK'
        BY <1>1 DEF SetArgs, TypeOK, White, QueueInv
    <2>2. PhaseInv'
        BY <1>1 DEF SetArgs, PhaseInv, Phases, Preserving, Over, TypeOK, QueueInv
    <2>3. QueueInv'
        BY <1>1 DEF SetArgs, QueueInv, TypeOK, PhaseInv, White
    <2>4. OrderInv'
        BY <1>1 DEF SetArgs, OrderInv, Cleared, Finalized, Over, Preserving, QueueInv,
            PhaseInv, TypeOK, White
    <2>5. TargetInv'
        BY <1>1 DEF SetArgs, TargetInv, TypeOK
    <2> QED BY <2>1, <2>2, <2>3, <2>4, <2>5
<1>2. CASE StartPreservingReferences
    <2>1. TypeOK'
        BY <1>2 DEF StartPreservingReferences, TypeOK, White, QueueInv
    <2>2. PhaseInv'
        BY <1>2 DEF StartPreservingReferences, PhaseInv, Phases, Preserving, Over,
            TypeOK, QueueInv
    <2>3. QueueInv'
        BY <1>2 DEF StartPreservingReferences, QueueInv, TypeOK, PhaseInv, White
    <2>4. OrderInv'
        BY <1>2 DEF StartPreservingReferences, OrderInv, Cleared, Finalized, Over,
            Preserving, QueueInv, PhaseInv, TypeOK, White
    <2>5. TargetInv'
        BY <1>2 DEF StartPreservingReferences, TargetInv, TypeOK
    <2> QED BY <2>1, <2>2, <2>3, <2>4, <2>5
<1>3. CASE ForwardSoftReference
    <2>1. TypeOK'
        BY <1>3 DEF ForwardSoftReference, Mark, TypeOK, White, QueueInv
    <2>2. PhaseInv'
        BY <1>3 DEF ForwardSoftReference, Mark, PhaseInv, Phases, Preserving, Over,
            TypeOK, QueueInv
    <2>3. QueueInv'
        BY <1>3 DEF ForwardSoftReference, Mark, QueueInv, TypeOK, PhaseInv, White
    <2>4. OrderInv'
        BY <1>3 DEF ForwardSoftReference, Mark, OrderInv, Cleared, Finalized, Over,
            Preserving, QueueInv, PhaseInv, TypeOK, White
    <2>5. TargetInv'
        BY <1>3 DEF ForwardSoftReference, Mark, TargetInv, TypeOK
    <2> QED BY <2>1, <2>2, <2>3, <2>4, <2>5
<1>4. CASE MarkFinalizerReferent
    <2>1. TypeOK'
        BY <1>4 DEF MarkFinalizerReferent, Mark, TypeOK, White, QueueInv
    <2>2. PhaseInv'
        BY <1>4 DEF MarkFinalizerReferent, Mark, PhaseInv, Phases, Preserving, Over,
            TypeOK, QueueInv
    <2>3. QueueInv'
        BY <1>4 DEF MarkFinalizerReferent, Mark, QueueInv, TypeOK, PhaseInv, White
    <2>4. OrderInv'
        BY <1>4 DEF MarkFinalizerReferent, Mark, OrderInv, Cleared, Finalized, Over,
            Preserving, QueueInv, PhaseInv, TypeOK, White
    <2>5. TargetInv'
        BY <1>4 DEF MarkFinalizerReferent, Mark, TargetInv, TypeOK
    <2> QED BY <2>1, <2>2, <2>3, <2>4, <2>5
<1>5. CASE EnqueueFinalizerReference
    <2>1. TypeOK'
        BY <1>5 DEF EnqueueFinalizerReference, TypeOK, White, QueueInv
    <2>2. PhaseInv'
        BY <1>5 DEF EnqueueFinalizerReference, PhaseInv, Phases, Preserving, Over,
            TypeOK, QueueInv
    <2>3. QueueInv'
        BY <1>5 DEF EnqueueFinalizerReference, QueueInv, TypeOK, PhaseInv, White
    <2>4. OrderInv'
        BY <1>5 DEF EnqueueFinalizerReference, OrderInv, Cleared, Finalized, Over,
            Preserving, QueueInv, PhaseInv, TypeOK, White
    <2>5. TargetInv'
        BY <1>5 DEF EnqueueFinalizerReference, TargetInv, TypeOK
    <2> QED BY <2>1, <2>2, <2>3, <2>4, <2>5
<1>6. CASE ListDone
    <2>1. TypeOK'
        BY <1>6 DEF ListDone, TypeOK, White, QueueInv
    <2>2. PhaseInv'
        BY <1>6 DEF ListDone, PhaseInv, Phases, Preserving, Over, TypeOK, QueueInv
    <2>3. QueueInv'
        BY <1>6 DEF ListDone, QueueInv, TypeOK, PhaseInv, White
    <2>4. OrderInv'
        BY <1>6 DEF ListDone, OrderInv, Cleared, Finalized, Over, Preserving, QueueInv,
            PhaseInv, TypeOK, White
    <2>5. TargetInv'
        BY <1>6 DEF ListDone, TargetInv, TypeOK
    <2> QED BY <2>1, <2>2, <2>3, <2>4, <2>5
<1>7. CASE ScanObject
    <2>1. TypeOK'
        BY <1>7 DEF ScanObject, Strong, IsEnqueued, TypeOK, White, QueueInv
    <2>2. PhaseInv'
        BY <1>7 DEF ScanObject, Strong, IsEnqueued, PhaseInv, Phases, Preserving, Over,
            TypeOK, QueueInv
    <2>3. QueueInv'
        BY <1>7 DEF ScanObject, Strong, IsEnqueued, QueueInv, TypeOK, PhaseInv, White
    <2>4. OrderInv'
        BY <1>7 DEF ScanObject, Strong, IsEnqueued, OrderInv, Cleared, Finalized, Over,
            Preserving, QueueInv, PhaseInv, TypeOK, White
    <2>5. TargetInv'
        BY <1>7 DEF ScanObject, Strong, IsEnqueued, TargetInv, TypeOK
    <2> QED BY <2>1, <2>2, <2>3, <2>4, <2>5
<1>8. CASE StopPreservingReferences
    <2>1. TypeOK'
        BY <1>8 DEF StopPreservingReferences, Broadcast, TypeOK, White, QueueInv
    <2>2. PhaseInv'
        BY <1>8 DEF StopPreservingReferences, Broadcast, PhaseInv, Phases, Preserving,
            Over, TypeOK, QueueInv
    <2>3. QueueInv'
        BY <1>8 DEF StopPreservingReferences, Broadcast, QueueInv, TypeOK, PhaseInv, White
    <2>4. OrderInv'
        BY <1>8 DEF StopPreservingReferences, Broadcast, OrderInv, Cleared, Finalized,
            Over, Preserving, QueueInv, PhaseInv, TypeOK, White
    <2>5. TargetInv'
        BY <1>8 DEF StopPreservingReferences, Broadcast, TargetInv, TypeOK
    <2> QED BY <2>1, <2>2, <2>3, <2>4, <2>5
<1>9. CASE ClearWhiteReference
    <2>1. TypeOK'
        BY <1>9 DEF ClearWhiteReference, ToClear, TypeOK, White, QueueInv
    <2>2. PhaseInv'
        BY <1>9 DEF ClearWhiteReference, ToClear, PhaseInv, Phases, Preserving, Over,
            TypeOK, QueueInv
    <2>3. QueueInv'
        BY <1>9 DEF ClearWhiteReference, ToClear, QueueInv, TypeOK, PhaseInv, White
    <2>4. OrderInv'
        BY <1>9 DEF ClearWhiteReference, ToClear, OrderInv, Cleared, Finalized, Over,
            Preserving, QueueInv, PhaseInv, TypeOK, White
    <2>5. TargetInv'
        BY <1>9 DEF ClearWhiteReference, ToClear, TargetInv, TypeOK
    <2> QED BY <2>1, <2>2, <2>3, <2>4, <2>5
<1>10. CASE ClearDone
    <2>1. TypeOK'
        BY <1>10 DEF ClearDone, ToClear, TypeOK, White, QueueInv
    <2>2. PhaseInv'
        BY <1>10 DEF ClearDone, ToClear, PhaseInv, Phases, Preserving, Over, TypeOK, QueueInv
    <2>3. QueueInv'
        BY <1>10 DEF ClearDone, ToClear, QueueInv, TypeOK, PhaseInv, White
    <2>4. OrderInv'
        BY <1>10 DEF ClearDone, ToClear, OrderInv, Cleared, Finalized, Over, Preserving,
            QueueInv, PhaseInv, TypeOK, White
    <2>5. TargetInv'
        BY <1>10 DEF ClearDone, ToClear, TargetInv, TypeOK
    <2> QED BY <2>1, <2>2, <2>3, <2>4, <2>5
<1>11. CASE DisableSlowPath
    <2>1. TypeOK'
        <3>1. unchecked' \in SUBSET Node
            BY <1>11 DEF DisableSlowPath, Reachable
        <3> QED BY <1>11, <3>1 DEF DisableSlowPath, Broadcast, TypeOK
    <2>2. PhaseInv'
        BY <1>11 DEF DisableSlowPath, Broadcast, PhaseInv, Phases, Preserving, Over,
            TypeOK, QueueInv
    <2>3. QueueInv'
        BY <1>11 DEF DisableSlowPath, Broadcast, QueueInv, TypeOK, PhaseInv, White
    <2>4. OrderInv'
        BY <1>11 DEF DisableSlowPath, Broadcast, OrderInv, Cleared, Finalized, Over,
            Preserving, QueueInv, PhaseInv, TypeOK, White
    <2>5. TargetInv'
        BY <1>11 DEF DisableSlowPath, Broadcast, TargetInv, TypeOK
    <2> QED BY <2>1, <2>2, <2>3, <2>4, <2>5
<1>12. CASE Sweep
    <2>1. TypeOK'
        BY <1>12 DEF Sweep, TypeOK, White, QueueInv
    <2>2. PhaseInv'
        BY <1>12 DEF Sweep, PhaseInv, Phases, Preserving, Over, TypeOK, QueueInv
    <2>3. QueueInv'
        BY <1>12 DEF Sweep, QueueInv, TypeOK, PhaseInv, White
    <2>4. OrderInv'
        BY <1>12 DEF Sweep, OrderInv, Cleared, Finalized, Over, Preserving, QueueInv,
            PhaseInv, TypeOK, White
    <2>5. TargetInv'
        BY <1>12 DEF Sweep, TargetInv, TypeOK
    <2> QED BY <2>1, <2>2, <2>3, <2>4, <2>5
<1>13. CASE EnqueueClearedReferences
    <2>1. TypeOK'
        BY <1>13 DEF EnqueueClearedReferences, TypeOK, White, QueueInv
    <2>2. PhaseInv'
        BY <1>13 DEF EnqueueClearedReferences, PhaseInv, Phases, Preserving, Over,
            TypeOK, QueueInv
    <2>3. QueueInv'
        BY <1>13 DEF EnqueueClearedReferences, QueueInv, TypeOK, PhaseInv, White
    <2>4. OrderInv'
        BY <1>13 DEF EnqueueClearedReferences, OrderInv, Cleared, Finalized, Over,
            Preserving, QueueInv, PhaseInv, TypeOK, White
    <2>5. TargetInv'
        BY <1>13 DEF EnqueueClearedReferences, TargetInv, TypeOK
    <2> QED BY <2>1, <2>2, <2>3, <2>4, <2>5
<1> QED BY <1>1, <1>2, <1>3, <1>4, <1>5, <1>6, <1>7,
           <1>8, <1>9, <1>10, <1>11, <1>12, <1>13 DEF Collector

\* What a step of a mutator leaves alone: everything but the fields of objects,
\* the local references and the state of GetReferent.
Frame ==
    <<referent, zombie, marked, gray, current, queue, cleared, slowPath, callback, preserving,
      gc, swept, strong, unchecked>>

LEMMA MutatorFrame ==
    ASSUME NEW t \in Mutator, LoadField(t) \/ StoreField(t) \/ GetReferent(t)
    PROVE  UNCHANGED Frame
<1> USE DEF heap, flags, outer, Frame
<1>1. CASE LoadField(t)
    BY <1>1 DEF LoadField
<1>2. CASE StoreField(t)
    BY <1>2 DEF StoreField
<1>3. CASE ReadReferent(t)
    BY <1>3 DEF ReadReferent
<1>4. CASE TestSlowPath(t)
    BY <1>4 DEF TestSlowPath
<1>5. CASE TryReferent(t)
    BY <1>5 DEF TryReferent
<1> QED BY <1>1, <1>2, <1>3, <1>4, <1>5 DEF GetReferent

\* What the invariant says of the collector depends on nothing else.
LEMMA FrameKeepsOrder ==
    ASSUME PhaseInv, QueueInv, OrderInv, UNCHANGED Frame
    PROVE  PhaseInv' /\ QueueInv' /\ OrderInv'
<1>1. PhaseInv'
    BY DEF Frame, PhaseInv
<1>2. QueueInv'
    <2>1. \A r : White(r)' <=> White(r)
        BY DEF Frame, White
    <2> QED BY <2>1 DEF Frame, QueueInv
<1>3. OrderInv'
    BY DEF Frame, OrderInv
<1> QED BY <1>1, <1>2, <1>3

\* A step of a mutator preserves it, whatever it loads and stores: it changes
\* neither referents nor marks.
LEMMA MutatorProcess ==
    ASSUME ProcessInv, NEW t \in Mutator, LoadField(t) \/ StoreField(t) \/ GetReferent(t)
    PROVE  ProcessInv'
<1> USE KindsPartition DEF Node, Kinds, heap, flags, local, outer, ProcessInv
<1>1. PhaseInv' /\ QueueInv' /\ OrderInv'
    BY MutatorFrame, FrameKeepsOrder
<1>2. TypeOK' /\ TargetInv'
    <2>1. CASE LoadField(t)
        BY <2>1 DEF LoadField, TypeOK, TargetInv
    <2>2. CASE StoreField(t)
        BY <2>2 DEF StoreField, TypeOK, TargetInv
    <2>3. CASE ReadReferent(t)
        BY <2>3 DEF ReadReferent, TypeOK, TargetInv
    <2>4. CASE TestSlowPath(t)
        BY <2>4 DEF TestSlowPath, Return, TypeOK, TargetInv
    <2>5. CASE TryReferent(t)
        <3>1. target[t] \in Reference /\ referent[target[t]] \in Object \cup {Null}
            BY <2>5 DEF TryReferent, TypeOK, TargetInv
        <3> QED BY <2>5, <3>1 DEF TryReferent, Return, TypeOK, TargetInv
    <2> QED BY <2>1, <2>2, <2>3, <2>4, <2>5 DEF GetReferent
<1> QED BY <1>1, <1>2

\* What can be reached from a set contains it, and leads nowhere else.
LEMMA ReachableSet ==
    ASSUME TypeOK, NEW S \in SUBSET Node
    PROVE  S \subseteq Reachable(S) /\ Closed(Reachable(S))
<1>1. S \subseteq Reachable(S)
    BY DEF Reachable
<1>2. ASSUME NEW n \in Reachable(S), NEW m \in Successors(n)
      PROVE  m \in Reachable(S)
    <2>1. m \in Node
        BY DEF Reachable, Successors, Strong, TypeOK, Node
    <2>2. \A C \in SUBSET Node : S \subseteq C /\ Closed(C) => m \in C
        BY DEF Reachable, Closed
    <2> QED BY <2>1, <2>2 DEF Reachable
<1> QED BY <1>1, <1>2 DEF Closed

\* A step of the collector preserves the shield: it marks outside what the
\* mutators may reach, and when it stops preserving, all that is marked is
\* black.
LEMMA CollectorInv ==
    ASSUME IInv, Collector
    PROVE  IInv'
<1> USE KindsPartition DEF Node, Kinds, heap, flags, local, outer, Known
<1>0. PICK B \in SUBSET (Known \ gray) : Shield(B)
    BY DEF IInv
<1>a. ProcessInv'
    BY CollectorProcess DEF IInv
<1> USE DEF IInv, ProcessInv
<1>b. gc \in Preserving => unchecked = {}
    BY DEF PhaseInv, Preserving, Over
<1>1. CASE SetArgs
    <2>1. FieldInv'
        BY <1>1 DEF SetArgs, FieldInv, QueueInv, TypeOK, PhaseInv, White
    <2>2. FastInv'
        BY <1>1 DEF SetArgs, FastInv, QueueInv, PhaseInv, Over, TypeOK
    <2>3. B \in SUBSET (Known' \ gray') /\ Shield(B)'
        BY <1>0, <1>1 DEF SetArgs, Shield, TypeOK, PhaseInv, QueueInv, FieldInv,
            Preserving, White
    <2> QED BY <1>a, <2>1, <2>2, <2>3
<1>2. CASE StartPreservingReferences
    <2>1. FieldInv'
        BY <1>2 DEF StartPreservingReferences, FieldInv, QueueInv, TypeOK, PhaseInv, White
    <2>2. FastInv'
        BY <1>2 DEF StartPreservingReferences, FastInv, QueueInv, PhaseInv, Over, TypeOK
    <2>3. B \in SUBSET (Known' \ gray') /\ Shield(B)'
        BY <1>0, <1>2 DEF StartPreservingReferences, Shield, TypeOK, PhaseInv, QueueInv,
            FieldInv, Preserving, White
    <2> QED BY <1>a, <2>1, <2>2, <2>3
<1>3. CASE ForwardSoftReference
    <2>1. FieldInv'
        BY <1>3 DEF ForwardSoftReference, Mark, FieldInv, QueueInv, TypeOK, PhaseInv, White
    <2>2. FastInv'
        BY <1>3 DEF ForwardSoftReference, Mark, FastInv, QueueInv, PhaseInv, Over, TypeOK
    <2>3. B \in SUBSET (Known' \ gray') /\ Shield(B)'
        BY <1>0, <1>3 DEF ForwardSoftReference, Mark, Shield, TypeOK, PhaseInv,
            QueueInv, FieldInv, Preserving, White
    <2> QED BY <1>a, <2>1, <2>2, <2>3
<1>4. CASE MarkFinalizerReferent
    <2>1. FieldInv'
        BY <1>4 DEF MarkFinalizerReferent, Mark, FieldInv, QueueInv, TypeOK, PhaseInv, White
    <2>2. FastInv'
        BY <1>4 DEF MarkFinalizerReferent, Mark, FastInv, QueueInv, PhaseInv, Over, TypeOK
    <2>3. B \in SUBSET (Known' \ gray') /\ Shield(B)'
        <3>1. PICK r \in queue \cap FinalizerReference :
                  /\ queue' = queue \ {r}
                  /\ IF White(r) THEN Mark(referent[r]) /\ current' = r
                                 ELSE UNCHANGED <<marked, gray, current>>
            BY <1>4 DEF MarkFinalizerReferent
        <3>2. UNCHANGED <<field, referent, roots, gc, unchecked>> /\ gc \in Preserving
            BY <1>4 DEF MarkFinalizerReferent, Preserving
        <3>3. B \in SUBSET (Known' \ gray')
            BY <1>0, <1>b, <3>1, <3>2 DEF Mark
        <3>4. queue' \cup FinalizerReference = queue \cup FinalizerReference
            BY <3>1
        <3> QED BY <1>0, <3>2, <3>3, <3>4 DEF Shield
    <2> QED BY <1>a, <2>1, <2>2, <2>3
<1>5. CASE EnqueueFinalizerReference
    <2>1. FieldInv'
        BY <1>5 DEF EnqueueFinalizerReference, FieldInv, QueueInv, TypeOK, PhaseInv, White
    <2>2. FastInv'
        BY <1>5 DEF EnqueueFinalizerReference, FastInv, QueueInv, PhaseInv, Over, TypeOK
    <2>3. B \in SUBSET (Known' \ gray') /\ Shield(B)'
        BY <1>0, <1>5 DEF EnqueueFinalizerReference, Shield, TypeOK, PhaseInv, QueueInv,
            FieldInv, Preserving, White
    <2> QED BY <1>a, <2>1, <2>2, <2>3
<1>6. CASE ListDone
    <2>1. FieldInv'
        BY <1>6 DEF ListDone, FieldInv, QueueInv, TypeOK, PhaseInv, White
    <2>2. FastInv'
        BY <1>6 DEF ListDone, FastInv, QueueInv, PhaseInv, Over, TypeOK
    <2>3. B \in SUBSET (Known' \ gray') /\ Shield(B)'
        BY <1>0, <1>6 DEF ListDone, Shield, TypeOK, PhaseInv, QueueInv, FieldInv,
            Preserving, White
    <2> QED BY <1>a, <2>1, <2>2, <2>3
<1>7. CASE ScanObject
    <2>1. FieldInv'
        <3>1. PICK n \in gray : /\ marked' = marked \cup Strong(n)
                                /\ gray' = (gray \ {n}) \cup (Strong(n) \ marked)
                                /\ UNCHANGED unchecked
            BY <1>7 DEF ScanObject
        <3> SUFFICES ASSUME NEW o \in (marked' \ gray') \cap Object
                     PROVE  field[o] \in Known' \cup {Null}
            BY <1>7 DEF ScanObject, FieldInv
        <3>2. CASE o = n
            BY <3>1, <3>2 DEF Strong
        <3>3. CASE o # n
            <4>1. o \in (marked \ gray) \cap Object
                BY <3>1, <3>3
            <4> QED BY <3>1, <4>1 DEF FieldInv
        <3> QED BY <3>2, <3>3
    <2>2. FastInv'
        BY <1>7 DEF ScanObject, Strong, IsEnqueued, FastInv, QueueInv, PhaseInv, Over, TypeOK
    <2>3. B \in SUBSET (Known' \ gray') /\ Shield(B)'
        <3>1. /\ UNCHANGED <<field, referent, roots, gc, unchecked>> /\ gc \in Preserving
              /\ marked \subseteq marked' /\ gray' \cap marked \subseteq gray
              /\ queue \subseteq queue'
            BY <1>7 DEF ScanObject, Preserving
        <3>2. B \in SUBSET (Known' \ gray')
            BY <1>0, <1>b, <3>1
        <3> QED BY <1>0, <3>1, <3>2 DEF Shield
    <2> QED BY <1>a, <2>1, <2>2, <2>3
<1>8. CASE StopPreservingReferences
    <2>1. FieldInv'
        BY <1>8 DEF StopPreservingReferences, Broadcast, FieldInv, QueueInv, TypeOK,
            PhaseInv, White
    <2>2. FastInv'
        BY <1>8 DEF StopPreservingReferences, Broadcast, FastInv, QueueInv, PhaseInv,
            Over, TypeOK
    <2>3. Known' \in SUBSET (Known' \ gray') /\ Shield(Known)'
        <3>1. /\ UNCHANGED <<field, referent, roots, marked, gray, queue, unchecked>>
              /\ gc \in Preserving /\ gray = {}
            BY <1>8 DEF StopPreservingReferences, Preserving
        <3>2. Known = marked /\ B \subseteq marked
            BY <1>0, <1>b, <3>1
        <3>3. \A t \in Mutator : roots[t] \subseteq marked
            BY <1>0, <3>2 DEF Shield
        <3>4. \A o \in marked \cap Object : field[o] \in marked \cup {Null}
            BY <3>1, <3>2 DEF FieldInv
        <3>5. \A r \in marked \cap Reference : referent[r] \in marked \cup {Null} \/ r \in queue
            BY <3>1 DEF QueueInv, White
        <3> QED BY <3>1, <3>2, <3>3, <3>4, <3>5 DEF Shield
    <2> QED BY <1>a, <2>1, <2>2, <2>3
<1>9. CASE ClearWhiteReference
    <2>1. FieldInv'
        BY <1>9 DEF ClearWhiteReference, ToClear, FieldInv, QueueInv, TypeOK, PhaseInv, White
    <2>2. FastInv'
        BY <1>9 DEF ClearWhiteReference, ToClear, FastInv, QueueInv, PhaseInv, Over, TypeOK
    <2>3. B \in SUBSET (Known' \ gray') /\ Shield(B)'
        <3>1. PICK r \in ToClear :
                  /\ queue' = queue \ {r}
                  /\ referent' = IF White(r) THEN [referent EXCEPT ![r] = Null] ELSE referent
            BY <1>9 DEF ClearWhiteReference
        <3>2. r \in queue \cap Reference
            BY <3>1 DEF ToClear, TypeOK
        <3>3. UNCHANGED <<field, marked, unchecked, gray, roots, gc>> /\ gc \notin Preserving
            BY <1>9 DEF ClearWhiteReference, Preserving
        <3>4. B = marked
            BY <1>0, <1>9, <3>3 DEF Shield, ClearWhiteReference, PhaseInv, Over
        <3>5. ASSUME NEW p \in B \cap Reference
              PROVE  referent'[p] \in B \cup {Null} \/ p \in queue' \cup FinalizerReference
            <4>1. CASE p = r
                BY <3>1, <3>2, <3>4, <4>1 DEF White, TypeOK
            <4>2. CASE p # r
                <5>1. referent'[p] = referent[p] /\ (p \in queue' <=> p \in queue)
                    BY <3>1, <4>2 DEF TypeOK
                <5> QED BY <1>0, <5>1 DEF Shield
            <4> QED BY <4>1, <4>2
        <3> QED BY <1>0, <3>3, <3>4, <3>5 DEF Shield
    <2> QED BY <1>a, <2>1, <2>2, <2>3
<1>10. CASE ClearDone
    <2>1. FieldInv'
        BY <1>10 DEF ClearDone, ToClear, FieldInv, QueueInv, TypeOK, PhaseInv, White
    <2>2. FastInv'
        BY <1>10 DEF ClearDone, ToClear, FastInv, QueueInv, PhaseInv, Over, TypeOK
    <2>3. B \in SUBSET (Known' \ gray') /\ Shield(B)'
        BY <1>0, <1>10 DEF ClearDone, ToClear, Shield, TypeOK, PhaseInv, QueueInv,
            FieldInv, Preserving, White
    <2> QED BY <1>a, <2>1, <2>2, <2>3
<1>11. CASE DisableSlowPath
    <2>1. /\ UNCHANGED <<field, referent, marked, gray, roots, val, queue>>
          /\ unchecked' = Reachable(InFastPath) /\ gc' \in Over /\ gc' \notin Preserving
          /\ \A t \in Mutator : pc'[t] = "fast" => pc[t] = "fast"
        BY <1>11 DEF DisableSlowPath, Broadcast, Over, Preserving
    <2>2. gray = {} /\ queue = {} /\ unchecked = {} /\ B = marked
        BY <1>0, <1>11 DEF DisableSlowPath, PhaseInv, Preserving, Over, Shield
    <2>3. InFastPath \in SUBSET Node
        BY DEF InFastPath, TypeOK
    <2>4. InFastPath \subseteq unchecked' /\ Closed(unchecked')
        BY <2>1, <2>3, ReachableSet
    <2>5. FieldInv'
        BY <2>1, <2>2 DEF FieldInv
    <2>6. FastInv'
        BY <2>1, <2>4 DEF FastInv, InFastPath
    <2>7. ASSUME NEW o \in Known' \cap Object PROVE field[o] \in Known' \cup {Null}
        <3>1. CASE o \in marked
            BY <1>0, <2>1, <2>2, <3>1 DEF Shield
        <3>2. CASE o \in unchecked'
            BY <2>4, <3>2 DEF Closed, Successors, Strong
        <3> QED BY <2>1, <3>1, <3>2
    <2>8. ASSUME NEW r \in Known' \cap Reference
          PROVE  referent[r] \in Known' \cup {Null} \/ r \in FinalizerReference
        <3>1. CASE r \in marked
            BY <1>0, <2>1, <2>2, <3>1 DEF Shield
        <3>2. CASE r \in unchecked'
            BY <2>4, <3>2 DEF Closed, Successors
        <3> QED BY <2>1, <3>1, <3>2
    <2>9. Known' \in SUBSET (Known' \ gray') /\ Shield(Known)'
        BY <1>0, <2>1, <2>2, <2>7, <2>8 DEF Shield
    <2> QED BY <1>a, <2>5, <2>6, <2>9
<1>12. CASE Sweep
    <2>1. FieldInv'
        BY <1>12 DEF Sweep, FieldInv, QueueInv, TypeOK, PhaseInv, White
    <2>2. FastInv'
        BY <1>12 DEF Sweep, FastInv, QueueInv, PhaseInv, Over, TypeOK
    <2>3. B \in SUBSET (Known' \ gray') /\ Shield(B)'
        BY <1>0, <1>12 DEF Sweep, Shield, TypeOK, PhaseInv, QueueInv, FieldInv,
            Preserving, White
    <2> QED BY <1>a, <2>1, <2>2, <2>3
<1>13. CASE EnqueueClearedReferences
    <2>1. FieldInv'
        BY <1>13 DEF EnqueueClearedReferences, FieldInv, QueueInv, TypeOK, PhaseInv, White
    <2>2. FastInv'
        BY <1>13 DEF EnqueueClearedReferences, FastInv, QueueInv, PhaseInv, Over, TypeOK
    <2>3. B \in SUBSET (Known' \ gray') /\ Shield(B)'
        <3>1. /\ UNCHANGED <<field, referent, marked, unchecked, gray, queue>>
              /\ gc \notin Preserving /\ gc' \notin Preserving
            BY <1>13 DEF EnqueueClearedReferences, Preserving
        <3>2. B = Known
            BY <1>0, <3>1 DEF Shield
        <3>3. cleared \cup ({zombie[r] : r \in cleared} \ {Null}) \subseteq B
            BY <3>2 DEF QueueInv, TypeOK
        <3>4. \A t \in Mutator : roots'[t] \subseteq B
            <4> DEFINE targets == {zombie[r] : r \in cleared} \ {Null}
            <4>1. PICK u \in Mutator : roots' = [roots EXCEPT ![u] = @ \cup cleared \cup targets]
                BY <1>13, Zenon DEF EnqueueClearedReferences
            <4>2. cleared \subseteq B /\ targets \subseteq B
                BY <3>3
            <4>3. roots \in [Mutator -> SUBSET Node] /\ \A t \in Mutator : roots[t] \subseteq B
                BY <1>0 DEF Shield, TypeOK
            <4> HIDE DEF targets
            <4>4. \A t \in Mutator : roots'[t] = roots[t] \/ roots'[t] = roots[t] \cup cleared \cup targets
                BY <4>1, <4>3
            <4> QED BY <4>2, <4>3, <4>4
        <3> QED BY <1>0, <3>1, <3>2, <3>4 DEF Shield
    <2> QED BY <1>a, <2>1, <2>2, <2>3
<1> QED BY <1>1, <1>2, <1>3, <1>4, <1>5, <1>6, <1>7,
           <1>8, <1>9, <1>10, <1>11, <1>12, <1>13, Zenon DEF Collector

\* What GetReferent may return lies within the shield.
LEMMA ReturnedIsShielded ==
    ASSUME IInv, NEW t \in Mutator,
           NEW B \in SUBSET (Known \ gray), Shield(B)
    PROVE  /\ pc[t] = "fast" /\ (~slowPath \/ val[t] = Null) => val[t] \in B \cup {Null}
           /\ pc[t] = "slow"
              /\ (~slowPath \/ referent[target[t]] = Null \/ MayReturn(target[t]))
              => referent[target[t]] \in B \cup {Null}
<1> USE DEF IInv, ProcessInv, Known
<1>1. ~slowPath => gc \in Over /\ gc \notin Preserving /\ B = Known /\ gray = {} /\ queue = {}
    BY DEF PhaseInv, Over, Preserving, Shield
<1>2. ASSUME pc[t] = "fast", ~slowPath \/ val[t] = Null
      PROVE  val[t] \in B \cup {Null}
    BY <1>1, <1>2 DEF FastInv
<1>3. ASSUME pc[t] = "slow", ~slowPath \/ referent[target[t]] = Null \/ MayReturn(target[t])
      PROVE  referent[target[t]] \in B \cup {Null}
    <2> DEFINE r == target[t]
    <2>1. r \in B \cap Reference
        BY <1>3 DEF TargetInv, Shield
    <2>2. CASE ~slowPath
        <3>1. CASE r \in FinalizerReference
            BY <1>1, <2>1, <2>2, <3>1 DEF QueueInv, White
        <3>2. CASE r \notin FinalizerReference
            BY <1>1, <2>1, <2>2, <3>2 DEF Shield
        <3> QED BY <3>1, <3>2
    <2>3. CASE MayReturn(r)
        <3>1. CASE ~preserving
            BY <2>3, <3>1 DEF MayReturn, PhaseInv, Shield
        <3>2. CASE r \notin FinalizerReference /\ ~IsEnqueued(r)
            BY <2>1, <3>2 DEF IsEnqueued, Shield
        <3> QED BY <2>3, <3>1, <3>2 DEF MayReturn
    <2> QED BY <1>3, <2>2, <2>3
<1> QED BY <1>2, <1>3

\* A step of a mutator preserves the shield: it stays within what it may
\* reach.
LEMMA MutatorStepInv ==
    ASSUME IInv, NEW t \in Mutator,
           LoadField(t) \/ StoreField(t) \/ GetReferent(t)
    PROVE  IInv'
<1> USE DEF heap, flags, local, outer, Known
<1>0. PICK B \in SUBSET (Known \ gray) : Shield(B)
    BY DEF IInv
<1>1. ProcessInv'
    BY MutatorProcess DEF IInv
<1>2. UNCHANGED Frame
    BY MutatorFrame
<1>3. TypeOK /\ TargetInv /\ FieldInv /\ FastInv /\ PhaseInv /\ QueueInv
    BY DEF IInv, ProcessInv
<1>4. /\ \A q \in Mutator : roots[q] \subseteq B
      /\ \A o \in B \cap Object : field[o] \in B \cup {Null}
    BY <1>0 DEF Shield
<1>5. (\A q \in Mutator : roots'[q] \subseteq B) /\ (\A o \in B \cap Object : field'[o] \in B \cup {Null})
      => B \in SUBSET (Known' \ gray') /\ Shield(B)'
    BY <1>0, <1>2 DEF Shield, Frame
<1>6. UNCHANGED field => FieldInv' /\ (\A o \in B \cap Object : field'[o] \in B \cup {Null})
    BY <1>2, <1>3, <1>4 DEF FieldInv, Frame
<1>7. UNCHANGED <<pc, val>> => FastInv'
    BY <1>2, <1>3 DEF FastInv, Frame
<1>8. ASSUME NEW o \in B \cup {Null}, roots' = [roots EXCEPT ![t] = @ \cup ({o} \ {Null})]
      PROVE  \A q \in Mutator : roots'[q] \subseteq B
    BY <1>3, <1>4, <1>8 DEF TypeOK
<1>9. UNCHANGED roots => \A q \in Mutator : roots'[q] \subseteq B
    BY <1>4
<1>10. ASSUME pc' = [pc EXCEPT ![t] = pc'[t]], val' = [val EXCEPT ![t] = val'[t]],
              pc'[t] = "fast" /\ gc \in Over => val'[t] \in Known \cup {Null}
       PROVE  FastInv'
    <2> SUFFICES ASSUME NEW q \in Mutator, pc'[q] = "fast", gc' \in Over
                 PROVE  val'[q] \in Known' \cup {Null}
        BY DEF FastInv
    <2>1. CASE q = t
        BY <1>2, <1>10, <2>1 DEF Frame
    <2>2. CASE q # t
        <3>1. pc'[q] = pc[q] /\ val'[q] = val[q]
            BY <1>3, <1>10, <2>2 DEF TypeOK
        <3> QED BY <1>2, <1>3, <3>1 DEF FastInv, Frame
    <2> QED BY <2>1, <2>2
<1>11. CASE LoadField(t)
    <2>1. UNCHANGED <<field, pc, val>>
        BY <1>11 DEF LoadField
    <2>2. PICK o \in roots[t] \cap Object :
              field[o] # Null /\ roots' = [roots EXCEPT ![t] = @ \cup {field[o]}]
        BY <1>11 DEF LoadField
    <2>3. field[o] \in B \cup {Null} /\ {field[o]} = {field[o]} \ {Null}
        BY <1>4, <2>2
    <2>4. \A q \in Mutator : roots'[q] \subseteq B
        BY <1>8, <2>2, <2>3
    <2> QED BY <1>1, <1>5, <1>6, <1>7, <2>1, <2>4 DEF IInv
<1>12. CASE StoreField(t)
    <2>1. UNCHANGED <<roots, pc, val>>
        BY <1>12 DEF StoreField
    <2>2. PICK o \in roots[t] \cap Object, v \in roots[t] \cup {Null} :
              field' = [field EXCEPT ![o] = v]
        BY <1>12 DEF StoreField
    <2>3. v \in B \cup {Null} /\ v \in Known \cup {Null}
        BY <1>4, <2>2
    <2>4. \A p \in B \cap Object : field'[p] \in B \cup {Null}
        BY <1>3, <1>4, <2>2, <2>3 DEF TypeOK
    <2>5. FieldInv'
        <3> SUFFICES ASSUME NEW p \in (marked \ gray) \cap Object
                     PROVE  field'[p] \in Known \cup {Null}
            BY <1>2 DEF FieldInv, Frame
        <3>1. field'[p] = field[p] \/ field'[p] = v
            BY <1>3, <2>2 DEF TypeOK
        <3> QED BY <1>3, <2>3, <3>1 DEF FieldInv
    <2> QED BY <1>1, <1>5, <1>7, <1>9, <2>1, <2>4, <2>5 DEF IInv
<1>13. CASE ReadReferent(t)
    <2>1. UNCHANGED <<field, roots>>
        BY <1>13 DEF ReadReferent
    <2>2. PICK r \in roots[t] \cap Reference : val' = [val EXCEPT ![t] = referent[r]]
        BY <1>13 DEF ReadReferent
    <2>3. pc' = [pc EXCEPT ![t] = pc'[t]] /\ val' = [val EXCEPT ![t] = val'[t]] /\ val'[t] = referent[r]
        BY <1>3, <1>13, <2>2 DEF ReadReferent, TypeOK
    <2>4. gc \in Over => gray = {} /\ queue = {} /\ r \in B \cap Reference /\ B = Known
        BY <1>0, <1>3, <1>4 DEF PhaseInv, Over, Preserving, Shield
    <2>5. gc \in Over => val'[t] \in Known \cup {Null}
        <3>1. CASE r \in FinalizerReference
            BY <1>3, <2>3, <2>4, <3>1 DEF QueueInv, White
        <3>2. CASE r \notin FinalizerReference
            BY <1>0, <2>3, <2>4, <3>2 DEF Shield
        <3> QED BY <3>1, <3>2
    <2> QED BY <1>1, <1>5, <1>6, <1>9, <1>10, <2>1, <2>3, <2>5 DEF IInv
<1>14. CASE TestSlowPath(t)
    <2>1. UNCHANGED field
        BY <1>14 DEF TestSlowPath
    <2>2. \A q \in Mutator : roots'[q] \subseteq B
        <3>1. CASE ~slowPath \/ val[t] = Null
            <4>1. val[t] \in B \cup {Null}
                BY <1>0, <1>14, <3>1, ReturnedIsShielded DEF TestSlowPath
            <4> QED BY <1>8, <1>14, <3>1, <4>1 DEF TestSlowPath, Return
        <3>2. CASE ~(~slowPath \/ val[t] = Null)
            BY <1>9, <1>14, <3>2 DEF TestSlowPath
        <3> QED BY <3>1, <3>2
    <2>3. pc' = [pc EXCEPT ![t] = pc'[t]] /\ val' = [val EXCEPT ![t] = val'[t]] /\ pc'[t] # "fast"
        BY <1>3, <1>14 DEF TestSlowPath, Return, TypeOK
    <2> QED BY <1>1, <1>5, <1>6, <1>10, <2>1, <2>2, <2>3 DEF IInv
<1>15. CASE TryReferent(t)
    <2> DEFINE Returns == ~slowPath \/ referent[target[t]] = Null \/ MayReturn(target[t])
    <2>1. UNCHANGED field
        BY <1>15 DEF TryReferent
    <2>2. \A q \in Mutator : roots'[q] \subseteq B
        <3>1. CASE Returns
            <4>1. referent[target[t]] \in B \cup {Null}
                BY <1>0, <1>15, <3>1, ReturnedIsShielded DEF TryReferent
            <4> QED BY <1>8, <1>15, <3>1, <4>1 DEF TryReferent, Return
        <3>2. CASE ~Returns
            BY <1>9, <1>15, <3>2 DEF TryReferent
        <3> QED BY <3>1, <3>2
    <2>3. pc' = [pc EXCEPT ![t] = pc'[t]] /\ val' = [val EXCEPT ![t] = val'[t]] /\ pc'[t] # "fast"
        BY <1>3, <1>15 DEF TryReferent, Return, TypeOK
    <2> QED BY <1>1, <1>5, <1>6, <1>10, <2>1, <2>2, <2>3 DEF IInv
<1> QED BY <1>11, <1>12, <1>13, <1>14, <1>15 DEF GetReferent

\* The invariant of references says nothing of anything but the variables.
LEMMA StutterProcess ==
    ASSUME ProcessInv, UNCHANGED vars
    PROVE  ProcessInv'
<1> USE DEF vars, heap, flags, local, outer, ProcessInv
<1>1. PhaseInv' /\ QueueInv' /\ OrderInv'
    BY FrameKeepsOrder DEF Frame
<1>2. TypeOK'
    BY DEF TypeOK
<1>3. TargetInv'
    BY DEF TargetInv
<1> QED BY <1>1, <1>2, <1>3

\* The invariant of references holds throughout.
THEOREM ProcessingOrder == Spec => []ProcessInv
<1>1. ProcessInv /\ [Next]_vars => ProcessInv'
    <2> SUFFICES ASSUME ProcessInv, [Next]_vars PROVE ProcessInv'
        OBVIOUS
    <2>1. CASE Collector
        BY <2>1, CollectorProcess
    <2>2. CASE \E t \in Mutator : LoadField(t) \/ StoreField(t) \/ GetReferent(t)
        BY <2>2, MutatorProcess
    <2>3. CASE UNCHANGED vars
        BY <2>3, StutterProcess
    <2> QED BY <2>1, <2>2, <2>3 DEF Next
<1>2. Init => ProcessInv
    BY InitInv DEF IInv
<1> QED BY <1>1, <1>2, PTL DEF Spec

\* When processing is over the queues are empty, no reference that is reachable
\* refers to an object that is swept, and no soft, weak or finalizer reference
\* that was strong refers to an object that only finalization kept.
THEOREM ReferencesAreProcessed == Spec => []ReferencesProcessed
<1>1. ProcessInv => ReferencesProcessed
    BY KindsPartition DEF Kinds, ProcessInv, PhaseInv, Preserving, QueueInv, OrderInv, Cleared,
       Finalized, Over, ReferencesProcessed, White
<1> QED BY <1>1, ProcessingOrder, PTL

\* The inductive invariant holds throughout.
THEOREM ProcessingInvariance == Spec => []IInv
<1>1. IInv /\ [Next]_vars => IInv'
    <2> SUFFICES ASSUME IInv, [Next]_vars PROVE IInv'
        OBVIOUS
    <2>1. CASE Collector
        BY <2>1, CollectorInv
    <2>2. CASE \E t \in Mutator : LoadField(t) \/ StoreField(t) \/ GetReferent(t)
        BY <2>2, MutatorStepInv
    <2>3. CASE UNCHANGED vars
        <3>1. ProcessInv'
            BY <2>3, StutterProcess DEF IInv
        <3>2. FieldInv' /\ FastInv' /\ \E B \in SUBSET (Known' \ gray') : Shield(B)'
            BY <2>3 DEF vars, heap, flags, local, outer, IInv, FieldInv, FastInv, Shield, Known
        <3> QED BY <3>1, <3>2 DEF IInv
    <2> QED BY <2>1, <2>2, <2>3 DEF Next
<1> QED BY InitInv, <1>1, PTL DEF Spec

\* A mutator holds a swept object only if a fast path of GetReferent that was
\* under way when the slow path was disabled let through a white referent from
\* which it can be reached: the black referents that the slow path returns lead
\* to no white object.
THEOREM OnlyTheFastPathLeaks == Spec => []OnlyFastPathLeaks
<1>1. IInv => OnlyFastPathLeaks
    BY DEF IInv, ProcessInv, PhaseInv, Shield, Known, OnlyFastPathLeaks
<1> QED BY <1>1, ProcessingInvariance, PTL
=============================================================================
