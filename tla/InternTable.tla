---------------------------- MODULE InternTable ----------------------------
(***************************************************************************)
(* The intern table (runtime/intern_table.cc) and its part in a concurrent *)
(* collection: strong interns are roots that mutators add to while the     *)
(* collector marks, weak interns are system weaks that it sweeps.          *)
(*                                                                         *)
(* All strings of the model have the same contents: strings with different *)
(* contents never meet in the table.                                       *)
(***************************************************************************)
EXTENDS FiniteSets

CONSTANTS String, Null, Thread

ASSUME NullAssumption == Null \notin String

VARIABLES
    used,                       \* allocated strings
    str, interned,              \* each thread's new string, and what interning returned to it
    strong_interns, weak_interns,
    image,                      \* the image's string with these contents, or Null: never collected
    image_added,
    new_strong_intern_roots, log_new_roots, allow_new_interns,
    waiting,                    \* threads in new_intern_condition_
    gc, todo, marked,
    fresh                       \* allocated since the pause: not in the live stack

table == <<strong_interns, weak_interns, image, image_added>>
log == <<new_strong_intern_roots, log_new_roots>>
locals == <<str, interned>>
vars == <<used, locals, table, log, allow_new_interns, waiting, gc, todo, marked, fresh>>

ImageStrings == {image} \ {Null}

Roots(t) == {str[t], interned[t]} \ {Null}

TypeOK ==
    /\ used \subseteq String /\ marked \subseteq String /\ fresh \subseteq String
    /\ str \in [Thread -> String \cup {Null}] /\ interned \in [Thread -> String \cup {Null}]
    /\ strong_interns \subseteq String /\ weak_interns \subseteq String
    /\ image \in String \cup {Null} /\ image_added \in BOOLEAN
    /\ new_strong_intern_roots \subseteq String
    /\ log_new_roots \in BOOLEAN /\ allow_new_interns \in BOOLEAN
    /\ waiting \in [Thread -> {"no", "weak", "strong"}]
    /\ gc \in {"idle", "roots", "concurrent", "preclean", "newroots", "pause", "weaks", "allow",
               "sweep"}
    /\ todo \subseteq Thread

Init ==
    /\ image \in String \cup {Null} /\ image_added = FALSE
    /\ used = ImageStrings /\ marked = {} /\ fresh = {}
    /\ str = [t \in Thread |-> Null] /\ interned = [t \in Thread |-> Null]
    /\ strong_interns = {} /\ weak_interns = {}
    /\ new_strong_intern_roots = {} /\ log_new_roots = FALSE /\ allow_new_interns = TRUE
    /\ waiting = [t \in Thread |-> "no"]
    /\ gc = "idle" /\ todo = {}

(***************************************************************************)
(* Mutators.                                                               *)
(***************************************************************************)
NewString(t) ==
    /\ waiting[t] = "no" /\ str[t] = Null
    /\ \E s \in String \ used :
        /\ used' = used \cup {s} /\ fresh' = fresh \cup {s}
        /\ str' = [str EXCEPT ![t] = s]
    /\ UNCHANGED <<interned, table, log, allow_new_interns, waiting, gc, todo, marked>>

Forget(t) ==
    /\ waiting[t] = "no" /\ Roots(t) # {}
    /\ str' = [str EXCEPT ![t] = Null] /\ interned' = [interned EXCEPT ![t] = Null]
    /\ UNCHANGED <<used, table, log, allow_new_interns, waiting, gc, todo, marked, fresh>>

\* Mutant: a new strong intern is not logged.
InsertStrongUnlogged(s) ==
    /\ strong_interns' = strong_interns \cup {s}
    /\ UNCHANGED new_strong_intern_roots

InsertStrong(s) ==
    /\ strong_interns' = strong_interns \cup {s}
    /\ new_strong_intern_roots' =
        IF log_new_roots THEN new_strong_intern_roots \cup {s} ELSE new_strong_intern_roots

\* LookupStringFromImage, while the image's strings are not in the strong table.
FromImage == IF image_added THEN {} ELSE ImageStrings

\* Insert past the wait, under intern_table_lock_: the strong table, the image, the weak table,
\* then s itself.  A weak entry becomes a strong one; a string of the image leaves none.
Lookup(t, kind) ==
    LET strong == strong_interns
        weak == weak_interns
        found == IF strong # {} THEN strong
                 ELSE IF FromImage # {} THEN FromImage
                 ELSE IF weak # {} THEN weak ELSE {str[t]}
    IN \E s \in found :
        /\ interned' = [interned EXCEPT ![t] = s]
        /\ IF kind = "strong" /\ strong = {}
           THEN InsertStrong(s) /\ weak_interns' = weak \ ({s} \ FromImage)
           ELSE /\ weak_interns' = IF strong = {} THEN weak \cup {s} ELSE weak
                /\ UNCHANGED <<strong_interns, new_strong_intern_roots>>
        /\ str' = [str EXCEPT ![t] = Null]
        /\ waiting' = [waiting EXCEPT ![t] = "no"]
        /\ UNCHANGED <<image, image_added>>

Insert(t, kind) ==
    /\ str[t] # Null /\ waiting[t] = "no"
    /\ IF allow_new_interns THEN Lookup(t, kind)
       ELSE waiting' = [waiting EXCEPT ![t] = kind]
            /\ UNCHANGED <<locals, table, new_strong_intern_roots>>
    /\ UNCHANGED <<used, log_new_roots, allow_new_interns, gc, todo, marked, fresh>>

\* new_intern_condition_ was broadcast.
Resume(t) ==
    /\ waiting[t] # "no" /\ allow_new_interns
    /\ Lookup(t, waiting[t])
    /\ UNCHANGED <<used, log_new_roots, allow_new_interns, gc, todo, marked, fresh>>

\* A zygote does this once it has started; it does not wait for interning to be allowed.
AddImageStringsToTable ==
    /\ image # Null /\ ~image_added
    /\ IF strong_interns = {} THEN InsertStrong(image)
       ELSE UNCHANGED <<strong_interns, new_strong_intern_roots>>
    /\ image_added' = TRUE
    /\ UNCHANGED <<used, locals, weak_interns, image, log_new_roots, allow_new_interns, waiting, gc,
                   todo, marked, fresh>>

(***************************************************************************)
(* The collector's calls, in the order of MarkSweep::RunPhases.            *)
(***************************************************************************)
Begin ==
    /\ gc = "idle"
    /\ gc' = "roots" /\ todo' = Thread
    /\ UNCHANGED <<used, locals, table, log, allow_new_interns, waiting, marked, fresh>>

MarkThreadRoots(t) ==
    /\ gc \in {"roots", "preclean"} /\ t \in todo
    /\ marked' = marked \cup Roots(t)
    /\ todo' = todo \ {t}
    /\ gc' = IF todo # {t} THEN gc ELSE IF gc = "roots" THEN "concurrent" ELSE "newroots"
    /\ UNCHANGED <<used, locals, table, log, allow_new_interns, waiting, fresh>>

\* VisitRoots(kVisitRootFlagAllRoots | kVisitRootFlagStartLoggingNewRoots)
VisitAllRoots ==
    /\ gc = "concurrent"
    /\ marked' = marked \cup strong_interns
    /\ log_new_roots' = TRUE
    /\ gc' = "preclean" /\ todo' = Thread
    /\ UNCHANGED <<used, locals, table, new_strong_intern_roots, allow_new_interns, waiting,
                   fresh>>

\* VisitRoots(kVisitRootFlagNewRoots | kVisitRootFlagClearRootLog)
VisitNewRoots ==
    /\ gc = "newroots"
    /\ marked' = marked \cup new_strong_intern_roots
    /\ new_strong_intern_roots' = {}
    /\ gc' = "pause"
    /\ UNCHANGED <<used, locals, table, log_new_roots, allow_new_interns, waiting, todo, fresh>>

\* Mutant: interning stays allowed.
DisallowNothing == UNCHANGED allow_new_interns

DisallowNewInterns == allow_new_interns' = FALSE

\* The pause: all thread roots, the new roots, StopLoggingNewRoots, ClearRootLog, SwapStacks.
PausePhase ==
    /\ gc = "pause"
    /\ marked' = marked \cup new_strong_intern_roots \cup UNION {Roots(t) : t \in Thread}
    /\ new_strong_intern_roots' = {} /\ log_new_roots' = FALSE
    /\ DisallowNewInterns
    /\ fresh' = {}
    /\ gc' = "weaks"
    /\ UNCHANGED <<used, locals, table, waiting, todo>>

SweepInternTableWeaks ==
    /\ gc = "weaks"
    /\ weak_interns' = weak_interns \cap (marked \cup ImageStrings)
    /\ gc' = "allow"
    /\ UNCHANGED <<used, locals, strong_interns, image, image_added, log, allow_new_interns, waiting, todo, marked,
                   fresh>>

AllowNewInterns ==
    /\ gc = "allow"
    /\ allow_new_interns' = TRUE
    /\ gc' = "sweep"
    /\ UNCHANGED <<used, locals, table, log, waiting, todo, marked, fresh>>

Sweep ==
    /\ gc = "sweep"
    /\ used' = marked \cup fresh \cup ImageStrings
    /\ marked' = {}
    /\ gc' = "idle"
    /\ UNCHANGED <<locals, table, log, allow_new_interns, waiting, todo, fresh>>

Collector ==
    \/ Begin \/ (\E t \in Thread : MarkThreadRoots(t)) \/ VisitAllRoots \/ VisitNewRoots
    \/ PausePhase \/ SweepInternTableWeaks \/ AllowNewInterns \/ Sweep

Next ==
    \/ Collector \/ AddImageStringsToTable
    \/ \E t \in Thread : NewString(t) \/ Forget(t) \/ Resume(t)
                         \/ \E k \in {"weak", "strong"} : Insert(t, k)

Spec == Init /\ [][Next]_vars

(***************************************************************************)
(* Properties.                                                             *)
(***************************************************************************)

\* Neither the table nor a thread is left with a string that the collector has freed, although
\* strings enter the strong table after the collector has visited it and the weak table while it
\* is about to be swept.
InternsAlive ==
    strong_interns \cup weak_interns \cup UNION {Roots(t) : t \in Thread} \subseteq used

\* Interning is canonical: equal strings intern to one object as long as anybody holds it, across
\* any number of collections.
Canonical ==
    \A t, u \in Thread :
        interned[t] # Null /\ interned[u] # Null => interned[t] = interned[u]
=============================================================================
