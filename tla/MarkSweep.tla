----------------------------- MODULE MarkSweep -----------------------------
(***************************************************************************)
(* Concurrent mark-sweep, full and sticky                                  *)
(* (runtime/gc/collector/mark_sweep.cc, sticky_mark_sweep.cc), against     *)
(* mutators that allocate, load and store references.                      *)
(*                                                                         *)
(* A collection goes through the stages "initial" and "preclean" of        *)
(* MarkingPhase, the "pause" and the "sweep"; a stage consists of the      *)
(* steps "age" (ProcessCards), "roots", "cards" (ScanGrayObjects) and      *)
(* "drain" (ProcessMarkStack).  Every object has one reference field and a *)
(* card of its own.  A reference store is two steps in either order: the   *)
(* field and its card are written with no fence between them.              *)
(***************************************************************************)
EXTENDS Naturals, FiniteSets

CONSTANTS
    Object, Null, Mutator,
    Global,         \* slots for JNI global references
    GcType,
    MaxLocals       \* bound on the references a mutator holds at a time

ASSUME ConstantAssumption ==
    GcType \subseteq {"full", "sticky"} /\ Null \notin Object /\ Mutator \cap Global = {}

kCardDirty == 2     \* 0x70 in the code; an aged card is one less, a clean one is zero

VARIABLES
    used,                   \* allocated objects
    field, card,
    roots,                  \* local references of each mutator, contents of each global slot
    store,                  \* the reference store each mutator is executing
    live, marked,           \* live bitmap, mark bitmap
    mark_stack,
    allocation_stack, live_stack,
    type, stage, step,
    todo,                   \* cards or threads the current step has not visited
    garbage                 \* history: what no mutator could reach when the collection began

heap == <<used, field, card>>
mutators == <<roots, store>>
bitmaps == <<live, marked>>
stacks == <<allocation_stack, live_stack>>
where == <<type, stage, step>>
vars == <<heap, mutators, bitmaps, mark_stack, stacks, where, todo, garbage>>

NoStore == [obj |-> Null, val |-> Null, left |-> {}]

AtSafepoint(t) == store[t] = NoStore

Paused == stage = "pause"

AllRoots == UNION {roots[r] : r \in Mutator \cup Global}

\* Everything the program can reach.
Reachable ==
    LET Grow[S \in SUBSET Object] ==
            LET T == S \cup ({field[o] : o \in S} \ {Null}) IN IF T = S THEN S ELSE Grow[T]
    IN Grow[AllRoots]

TypeOK ==
    /\ used \subseteq Object
    /\ field \in [Object -> Object \cup {Null}]
    /\ card \in [Object -> 0..kCardDirty]
    /\ roots \in [Mutator \cup Global -> SUBSET Object]
    /\ store \in [Mutator -> [obj : Object \cup {Null}, val : Object \cup {Null},
                              left : SUBSET {"field", "card"}]]
    /\ live \subseteq used /\ marked \subseteq used /\ mark_stack \subseteq marked
    /\ allocation_stack \subseteq used /\ live_stack \subseteq used
    /\ type \in GcType \cup {"none"}
    /\ stage \in {"idle", "initial", "preclean", "pause", "sweep"}
    /\ step \in {"age", "roots", "cards", "drain"}
    /\ todo \subseteq Object \cup Mutator \cup Global
    /\ garbage \subseteq Object

Init ==
    /\ used = {} /\ field = [o \in Object |-> Null] /\ card = [o \in Object |-> 0]
    /\ roots = [r \in Mutator \cup Global |-> {}] /\ store = [t \in Mutator |-> NoStore]
    /\ live = {} /\ marked = {} /\ mark_stack = {}
    /\ allocation_stack = {} /\ live_stack = {}
    /\ type = "none" /\ stage = "idle" /\ step = "age"
    /\ todo = {} /\ garbage = {}

(***************************************************************************)
(* Mutators.  They stop only between two operations.                       *)
(***************************************************************************)
AllocObject(t) ==
    /\ ~Paused /\ AtSafepoint(t) /\ Cardinality(roots[t]) < MaxLocals
    /\ \E o \in Object \ used :
        /\ used' = used \cup {o}
        /\ field' = [field EXCEPT ![o] = Null]
        /\ roots' = [roots EXCEPT ![t] = @ \cup {o}]
        /\ allocation_stack' = allocation_stack \cup {o}
    /\ UNCHANGED <<card, store, bitmaps, mark_stack, live_stack, where, todo, garbage>>

LoadField(t) ==
    /\ ~Paused /\ AtSafepoint(t) /\ Cardinality(roots[t]) < MaxLocals
    /\ \E o \in roots[t] : /\ field[o] # Null
                           /\ roots' = [roots EXCEPT ![t] = @ \cup {field[o]}]
    /\ UNCHANGED <<heap, store, bitmaps, mark_stack, stacks, where, todo, garbage>>

DropLocal(t) ==
    /\ ~Paused /\ AtSafepoint(t)
    /\ \E o \in roots[t] : roots' = [roots EXCEPT ![t] = @ \ {o}]
    /\ UNCHANGED <<heap, store, bitmaps, mark_stack, stacks, where, todo, garbage>>

\* NewGlobalRef and DeleteGlobalRef.
SetGlobal(t) ==
    /\ ~Paused /\ AtSafepoint(t)
    /\ \E g \in Global, S \in {{}} \cup {{o} : o \in roots[t]} :
        roots' = [roots EXCEPT ![g] = S]
    /\ UNCHANGED <<heap, store, bitmaps, mark_stack, stacks, where, todo, garbage>>

LoadGlobal(t) ==
    /\ ~Paused /\ AtSafepoint(t)
    /\ \E g \in Global :
        /\ Cardinality(roots[t] \cup roots[g]) <= MaxLocals
        /\ roots' = [roots EXCEPT ![t] = @ \cup roots[g]]
    /\ UNCHANGED <<heap, store, bitmaps, mark_stack, stacks, where, todo, garbage>>

\* SetFieldObject: a null store marks no card.
SetFieldObject(t) ==
    /\ ~Paused /\ AtSafepoint(t)
    /\ \E o \in roots[t], v \in roots[t] \cup {Null} :
        /\ field[o] # v
        /\ store' = [store EXCEPT ![t] = [obj |-> o, val |-> v,
                                          left |-> IF v = Null THEN {"field"}
                                                               ELSE {"field", "card"}]]
    /\ UNCHANGED <<heap, roots, bitmaps, mark_stack, stacks, where, todo, garbage>>

StoreStep(t) ==
    /\ \E w \in store[t].left :
        /\ field' = IF w = "field" THEN [field EXCEPT ![store[t].obj] = store[t].val] ELSE field
        /\ card' = IF w = "card" THEN [card EXCEPT ![store[t].obj] = kCardDirty] ELSE card
        /\ store' = IF store[t].left = {w} THEN [store EXCEPT ![t] = NoStore]
                                           ELSE [store EXCEPT ![t].left = @ \ {w}]
    /\ UNCHANGED <<used, roots, bitmaps, mark_stack, stacks, where, todo, garbage>>

MutatorStep(t) ==
    \/ AllocObject(t) \/ LoadField(t) \/ DropLocal(t) \/ SetGlobal(t) \/ LoadGlobal(t)
    \/ SetFieldObject(t) \/ StoreStep(t)

(***************************************************************************)
(* The collector.                                                          *)
(***************************************************************************)
Goto(g, s, w) == stage' = g /\ step' = s /\ todo' = w

\* BindBitmaps: a sticky collection marks in the live bitmap.
Begin(k) ==
    /\ stage = "idle"
    /\ type' = k
    /\ marked' = IF k = "sticky" THEN live ELSE marked
    /\ garbage' = used \ Reachable
    /\ Goto("initial", "age", Object)
    /\ UNCHANGED <<heap, mutators, live, mark_stack, stacks>>

\* Mutant: PreCleanCards goes from the cards straight to scanning them, with no checkpoint.
AgeCardNoCheckpoint ==
    /\ step = "age"
    /\ \E c \in todo :
        /\ card' = [card EXCEPT ![c] = IF @ = kCardDirty THEN kCardDirty - 1 ELSE 0]
        /\ IF todo = {c} /\ stage = "preclean" THEN Goto(stage, "cards", Object)
           ELSE IF todo = {c} THEN Goto(stage, "roots", Mutator \cup Global)
           ELSE Goto(stage, step, todo \ {c})
    /\ UNCHANGED <<used, field, mutators, bitmaps, mark_stack, stacks, type, garbage>>

\* AgeCardVisitor on one card.
AgeCard ==
    /\ step = "age"
    /\ \E c \in todo :
        /\ card' = [card EXCEPT ![c] = IF @ = kCardDirty THEN kCardDirty - 1 ELSE 0]
        /\ IF todo = {c} THEN Goto(stage, "roots", Mutator \cup Global) ELSE Goto(stage, step, todo \ {c})
    /\ UNCHANGED <<used, field, mutators, bitmaps, mark_stack, stacks, type, garbage>>

MarkObjects(S) ==
    /\ marked' = marked \cup S
    /\ mark_stack' = mark_stack \cup (S \ marked)

\* MarkRootsCheckpoint: a thread marks its own roots at a safepoint.
CheckpointMarkThreadRoots(t) ==
    /\ step = "roots" /\ t \in todo /\ AtSafepoint(t)
    /\ MarkObjects(roots[t])
    /\ Goto(stage, step, todo \ {t})
    /\ UNCHANGED <<heap, mutators, live, stacks, type, garbage>>

\* MarkNonThreadRoots, after the barrier of the checkpoint.  Then a sticky collection forgets the
\* mark stack and turns to the cards; the first round of a full one drains the stack.
MarkNonThreadRoots ==
    /\ step = "roots" /\ todo \subseteq Global
    /\ LET S == UNION {roots[g] : g \in Global} IN
        /\ marked' = marked \cup S
        /\ mark_stack' = IF stage = "initial" /\ type = "sticky" THEN {}
                         ELSE mark_stack \cup (S \ marked)
    /\ IF stage = "initial" /\ type = "full" THEN Goto(stage, "drain", {})
                                             ELSE Goto(stage, "cards", Object)
    /\ UNCHANGED <<heap, mutators, live, stacks, type, garbage>>

MinimumAge == IF Paused THEN kCardDirty ELSE kCardDirty - 1

\* ScanGrayObjects: the marked object on one card is scanned if the card is young enough.
ScanCard ==
    /\ step = "cards"
    /\ \E c \in todo :
        /\ IF card[c] >= MinimumAge /\ c \in marked
           THEN MarkObjects({field[c]} \ {Null})
           ELSE UNCHANGED <<marked, mark_stack>>
        /\ IF todo = {c} THEN Goto(stage, "drain", {}) ELSE Goto(stage, step, todo \ {c})
    /\ UNCHANGED <<heap, mutators, live, stacks, type, garbage>>

ScanObject ==
    /\ step = "drain"
    /\ \E o \in mark_stack :
        /\ marked' = marked \cup ({field[o]} \ {Null})
        /\ mark_stack' = (mark_stack \ {o}) \cup (({field[o]} \ {Null}) \ marked)
    /\ UNCHANGED <<heap, mutators, live, stacks, where, todo, garbage>>

MarkingDone ==
    /\ step = "drain" /\ mark_stack = {} /\ stage = "initial"
    /\ Goto("preclean", "age", Object)
    /\ UNCHANGED <<heap, mutators, bitmaps, mark_stack, stacks, type, garbage>>

\* The world stops, and ReMarkRoots marks the roots of every thread.
PausePhase ==
    /\ step = "drain" /\ mark_stack = {} /\ stage = "preclean"
    /\ \A t \in Mutator : AtSafepoint(t)
    /\ MarkObjects(AllRoots)
    /\ Goto("pause", "cards", Object)
    /\ UNCHANGED <<heap, mutators, live, stacks, type, garbage>>

SwapStacks ==
    /\ step = "drain" /\ mark_stack = {} /\ Paused
    /\ live_stack' = allocation_stack /\ allocation_stack' = live_stack
    /\ Goto("sweep", "age", {})
    /\ UNCHANGED <<heap, mutators, bitmaps, mark_stack, type, garbage>>

\* A full collection sweeps the live bitmap with the live stack added to it, a sticky one only
\* the live stack.
Unmarked == (IF type = "full" THEN live \cup live_stack ELSE live_stack) \ marked

\* Mutant: the mark bitmap is not cleared.
ReclaimKeepMarks ==
    /\ stage = "sweep"
    /\ used' = used \ Unmarked
    /\ field' = [o \in Object |-> IF o \in Unmarked THEN Null ELSE field[o]]
    /\ live' = marked /\ marked' = marked
    /\ live_stack' = {}
    /\ Goto("idle", "age", {})
    /\ type' = "none" /\ garbage' = {}
    /\ UNCHANGED <<card, mutators, mark_stack, allocation_stack>>

\* Sweep, SwapBitmaps, UnBindBitmaps and FinishPhase, which clears the mark bitmap.
ReclaimPhase ==
    /\ stage = "sweep"
    /\ used' = used \ Unmarked
    /\ field' = [o \in Object |-> IF o \in Unmarked THEN Null ELSE field[o]]
    /\ live' = marked /\ marked' = {}
    /\ live_stack' = {}
    /\ Goto("idle", "age", {})
    /\ type' = "none" /\ garbage' = {}
    /\ UNCHANGED <<card, mutators, mark_stack, allocation_stack>>

Collector ==
    \/ \E k \in GcType : Begin(k)
    \/ AgeCard \/ (\E t \in Mutator : CheckpointMarkThreadRoots(t)) \/ MarkNonThreadRoots
    \/ ScanCard \/ ScanObject \/ MarkingDone \/ PausePhase \/ SwapStacks \/ ReclaimPhase

Next == Collector \/ \E t \in Mutator : MutatorStep(t)

Spec == Init /\ [][Next]_vars

(***************************************************************************)
(* Properties.                                                             *)
(***************************************************************************)

\* No root and no field of an allocated object refers to freed memory, whatever mutators load,
\* store and drop while the collector marks: concurrent marking, card ageing and the pause
\* together find every object still in use.
NoDanglingReference ==
    /\ AllRoots \subseteq used
    /\ \A o \in used : field[o] \in used \cup {Null}

\* A full collection frees all that was unreachable when it began: no mark of an earlier
\* collection, card or stack entry keeps garbage alive.
GarbageFreed == stage = "sweep" /\ type = "full" => garbage \subseteq Unmarked
=============================================================================
