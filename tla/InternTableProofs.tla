------------------------- MODULE InternTableProofs -------------------------
(***************************************************************************)
(* Interned strings are alive and canonical, for any set of strings and    *)
(* threads.                                                                *)
(***************************************************************************)
EXTENDS InternTable, TLAPS

Interns == strong_interns \cup weak_interns

Safe == marked \cup fresh \cup ImageStrings

\* What the properties need to be inductive.  The table has at most one entry, that of the image if
\* it has one, and it holds what any thread interned.  From the visit of all roots to the pause, a strong intern is marked or
\* logged; from the pause to the sweep, whatever is rooted is marked or younger than the pause;
\* while interning is disallowed, interned strings are marked.
IInv ==
    /\ TypeOK
    /\ \A a, b \in Interns : a = b
    /\ image # Null => Interns \subseteq {image}
    /\ image # Null /\ image_added => image \in strong_interns
    /\ ImageStrings \subseteq used
    /\ \A t \in Thread : interned[t] # Null => interned[t] \in Interns
    /\ InternsAlive
    /\ marked \subseteq used /\ fresh \subseteq used
    /\ new_strong_intern_roots \subseteq strong_interns
    /\ \A t \in Thread : waiting[t] # "no" => str[t] # Null
    /\ allow_new_interns <=> gc \notin {"weaks", "allow"}
    /\ log_new_roots <=> gc \in {"preclean", "newroots", "pause"}
    /\ gc \in {"preclean", "newroots", "pause"} =>
        strong_interns \subseteq marked \cup new_strong_intern_roots
    /\ gc \in {"weaks", "allow", "sweep"} =>
        /\ strong_interns \subseteq Safe
        /\ \A t \in Thread : Roots(t) \subseteq Safe
    /\ gc = "weaks" => \A t \in Thread : interned[t] # Null => interned[t] \in marked
    /\ gc \in {"allow", "sweep"} => weak_interns \subseteq Safe

\* The initial state satisfies the inductive invariant.
LEMMA InitInv == Init => IInv
<1> SUFFICES ASSUME Init PROVE IInv
    OBVIOUS
<1> USE NullAssumption DEF Init
<1>1. TypeOK
    BY DEF TypeOK, ImageStrings
<1>2. \A t \in Thread : Roots(t) = {}
    BY DEF Roots
<1>3. Interns = {} /\ InternsAlive
    BY <1>2 DEF Interns, InternsAlive
<1> QED BY <1>1, <1>2, <1>3 DEF IInv, Safe

\* Lookup, the critical section of InternTable::Insert, keeps the table canonical and alive.
LEMMA MutatorInv ==
    ASSUME IInv, NEW t \in Thread,
           NewString(t) \/ Forget(t) \/ Resume(t) \/ \E k \in {"weak", "strong"} : Insert(t, k)
    PROVE  IInv'
<1> USE NullAssumption DEF IInv, TypeOK, Interns, ImageStrings, InternsAlive, Roots, Safe
<1>1. CASE NewString(t)
    BY <1>1 DEF NewString, table, log
<1>2. CASE Forget(t)
    BY <1>2 DEF Forget, table, log
<1>3. ASSUME NEW k \in {"weak", "strong"}, Insert(t, k) PROVE IInv'
    BY <1>3 DEF Insert, Lookup, FromImage, InsertStrong, table, log, locals
<1>4. CASE Resume(t)
    <2>1. PICK k \in {"weak", "strong"} : Lookup(t, k)
        BY <1>4 DEF Resume
    <2>2. UNCHANGED <<used, log_new_roots, allow_new_interns, gc, todo, marked, fresh>>
        BY <1>4 DEF Resume
    <2>3. allow_new_interns /\ str[t] # Null
        BY <1>4 DEF Resume
    <2> QED BY <2>1, <2>2, <2>3 DEF Lookup, FromImage, InsertStrong, locals
<1> QED BY <1>1, <1>2, <1>3, <1>4

\* The image's string enters the strong table as any new strong intern does.
LEMMA ImageInv == IInv /\ AddImageStringsToTable => IInv'
BY NullAssumption DEF AddImageStringsToTable, InsertStrong, locals, IInv, TypeOK, Interns,
    ImageStrings, InternsAlive, Roots, Safe

\* The collector's steps.
LEMMA CollectorInv == IInv /\ Collector => IInv'
<1> SUFFICES ASSUME IInv, Collector PROVE IInv'
    OBVIOUS
<1> USE NullAssumption DEF IInv, TypeOK, Interns, ImageStrings, InternsAlive, Roots, Safe, table, log, locals
<1>1. CASE Begin
    BY <1>1 DEF Begin
<1>2. ASSUME NEW t \in Thread, MarkThreadRoots(t) PROVE IInv'
    BY <1>2 DEF MarkThreadRoots
<1>3. CASE VisitAllRoots
    BY <1>3 DEF VisitAllRoots
<1>4. CASE VisitNewRoots
    BY <1>4 DEF VisitNewRoots
<1>5. CASE PausePhase
    <2>1. /\ UNCHANGED <<used, str, interned, strong_interns, weak_interns, waiting, todo>>
          /\ UNCHANGED <<image, image_added>>
          /\ gc = "pause" /\ gc' = "weaks" /\ fresh' = {} /\ new_strong_intern_roots' = {}
          /\ allow_new_interns' = FALSE /\ log_new_roots' = FALSE
        BY <1>5 DEF PausePhase, DisallowNewInterns
    <2>2. marked' = marked \cup new_strong_intern_roots \cup UNION {Roots(t) : t \in Thread}
        BY <1>5 DEF PausePhase
    <2>3. /\ strong_interns \subseteq marked'
          /\ \A t \in Thread : Roots(t) \subseteq marked'
          /\ marked' \subseteq used
        <3> DEFINE held == UNION {Roots(t) : t \in Thread}
        <3>1. new_strong_intern_roots \subseteq used
            OBVIOUS
        <3>2. held \subseteq used /\ \A t \in Thread : Roots(t) \subseteq held
            OBVIOUS
        <3>3. marked' = marked \cup new_strong_intern_roots \cup held
            BY <2>2
        <3> QED BY <2>1, <3>1, <3>2, <3>3
    <2>4. TypeOK'
        BY <2>1, <2>3
    <2>5. ~allow_new_interns' /\ ~log_new_roots'
        BY <2>1
    <2>6. \A t \in Thread : interned[t] # Null => interned[t] \in marked'
        BY <2>3
    <2> QED BY <2>1, <2>3, <2>4, <2>5, <2>6
<1>6. CASE SweepInternTableWeaks
    BY <1>6 DEF SweepInternTableWeaks
<1>7. CASE AllowNewInterns
    BY <1>7 DEF AllowNewInterns
<1>8. CASE Sweep
    BY <1>8 DEF Sweep
<1> QED BY <1>1, <1>2, <1>3, <1>4, <1>5, <1>6, <1>7, <1>8 DEF Collector

\* The inductive invariant holds throughout.
THEOREM Invariance == Spec => []IInv
<1>1. IInv /\ [Next]_vars => IInv'
    <2> SUFFICES ASSUME IInv, [Next]_vars PROVE IInv'
        OBVIOUS
    <2>1. CASE UNCHANGED vars
        BY <2>1 DEF vars, table, log, locals, IInv, TypeOK, Interns, ImageStrings, InternsAlive, Roots, Safe
    <2> QED BY <2>1, MutatorInv, ImageInv, CollectorInv DEF Next
<1> QED BY InitInv, <1>1, PTL DEF Spec

\* No string in the intern table or held by a thread is ever freed: logging new strong interns and
\* disallowing interning around the sweep of the weak ones is enough.
THEOREM InternsStayAlive == Spec => []InternsAlive
<1>1. IInv => InternsAlive
    BY DEF IInv
<1> QED BY <1>1, Invariance, PTL

\* Equal strings intern to one object, across collections.
THEOREM InternsAreCanonical == Spec => []Canonical
<1>1. IInv => Canonical
    BY DEF IInv, Canonical
<1> QED BY <1>1, Invariance, PTL
=============================================================================
