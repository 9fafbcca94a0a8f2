-------------------------- MODULE MarkSweepProofs --------------------------
(***************************************************************************)
(* Concurrent mark-sweep leaves no dangling reference, for any heap and    *)
(* any number of mutators, global references and collections.              *)
(*                                                                         *)
(* The argument is the classical one of incremental-update marking: when a *)
(* marked object refers to an unmarked one, something guarantees that the  *)
(* object is scanned again before the pause ends.  The invariant says what *)
(* does so at each step of each stage.                                     *)
(***************************************************************************)
EXTENDS MarkSweep, TLAPS

\* A mutator is storing into o and has still to mark its card.
PendingCard(o) == \E t \in Mutator : store[t].obj = o /\ "card" \in store[t].left

\* The bitmap that records what survives: between collections, the live bitmap.
Black == IF stage = "idle" THEN live ELSE marked

White(o) == field[o] \notin Black \cup {Null}

\* The stages whose "cards" step scans aged cards.
ScansAged == stage = "preclean" \/ (stage = "initial" /\ type = "sticky")

\* A sticky collection has not yet turned from the roots to the cards: its mark stack is void.
StickyRoots == stage = "initial" /\ type = "sticky" /\ step \in {"age", "roots"}

\* The current stage will still scan the card of o, if it is aged.
WillScanAged(o) ==
    \/ step = "age" /\ o \notin todo
    \/ step = "roots"
    \/ step = "cards" /\ o \in todo

\* The collector will scan o (again) before the pause ends.
Covered(o) ==
    \/ o \in mark_stack /\ ~StickyRoots
    \/ stage # "pause" /\ (card[o] = kCardDirty \/ PendingCard(o))
    \/ ScansAged /\ card[o] = kCardDirty - 1 /\ WillScanAged(o)
    \/ stage = "pause" /\ step = "cards" /\ o \in todo /\ card[o] = kCardDirty

\* The objects whose white field must be covered.
Watched ==
    IF stage = "idle" \/ StickyRoots THEN used
    ELSE IF stage = "sweep" THEN marked \cup allocation_stack
    ELSE marked

WhiteIsCovered == \A o \in Watched : White(o) => Covered(o)

\* A store under way is between two of the mutator's locals.
StoreOK(t) ==
    \/ store[t] = NoStore
    \/ /\ store[t].obj \in roots[t] /\ store[t].val \in roots[t] \cup {Null}
       /\ store[t].left # {}

\* A store whose card came first: the card is still dirty, or was aged in the current stage,
\* whose checkpoint the mutator has not reached.
CardFirst(t) ==
    store[t].val # Null /\ store[t].left = {"field"} =>
        \/ card[store[t].obj] = kCardDirty
        \/ /\ stage \in {"initial", "preclean"} /\ card[store[t].obj] = kCardDirty - 1
           /\ \/ step = "age" /\ store[t].obj \notin todo
              \/ step = "roots" /\ t \in todo

\* Which steps the stages have, and what the bitmaps and stacks hold between them.
Control ==
    /\ stage = "idle" => type = "none" /\ marked = {}
    /\ stage # "idle" => type \in GcType
    /\ stage \in {"idle", "sweep"} => step = "age" /\ todo = {}
    /\ stage = "pause" => step \in {"cards", "drain"}
    /\ stage = "initial" /\ type = "full" => step # "cards"
    /\ step \in {"age", "cards"} => todo \subseteq Object
    /\ step = "age" => mark_stack = {}
    /\ stage = "initial" /\ type = "full" /\ step \in {"age", "roots"} => marked \subseteq mark_stack
    /\ type = "sticky" => live \subseteq marked

\* Where allocated objects are, and what the sweep relies on.
Stacks ==
    /\ used = live \cup allocation_stack \cup live_stack
    /\ stage # "sweep" => live_stack = {}
    /\ stage = "pause" => AllRoots \subseteq marked /\ \A t \in Mutator : store[t] = NoStore
    /\ stage = "sweep" =>
        /\ allocation_stack \cap (live \cup live_stack \cup marked) = {}
        /\ AllRoots \subseteq marked \cup allocation_stack
        /\ \A o \in marked \cup allocation_stack :
            field[o] \in marked \cup allocation_stack \cup {Null}

IInv ==
    /\ TypeOK
    /\ NoDanglingReference
    /\ \A t \in Mutator : StoreOK(t) /\ CardFirst(t)
    /\ Control
    /\ Stacks
    /\ WhiteIsCovered

-----------------------------------------------------------------------------
LEMMA UnionOfRoots ==
    ASSUME NEW f, NEW D, NEW S
    PROVE  UNION {f[r] : r \in D} \subseteq S <=> \A r \in D : f[r] \subseteq S
  OBVIOUS

LEMMA InitInv == Init => IInv
<1> SUFFICES ASSUME Init PROVE IInv
  OBVIOUS
<1> USE ConstantAssumption
<1>1. TypeOK
  BY DEF Init, TypeOK, NoStore, kCardDirty
<1>2. AllRoots = {}
  BY DEF Init, AllRoots
<1> QED
  BY <1>1, <1>2 DEF Init, IInv, NoDanglingReference, StoreOK, CardFirst, NoStore, Control, Stacks,
                    WhiteIsCovered, Watched

\* The mutators' loads change nothing but their locals, and find only what is in use.
LEMMA LocalsInv ==
    ASSUME IInv, ~Paused, NEW t \in Mutator, AtSafepoint(t),
           NEW r \in Mutator \cup Global, r \in Mutator => r = t,
           NEW S \in SUBSET Object, roots' = [roots EXCEPT ![r] = S],
           S \subseteq used, stage = "sweep" => S \subseteq marked \cup allocation_stack,
           UNCHANGED <<heap, store, bitmaps, mark_stack, stacks, where, todo, garbage>>
    PROVE  IInv'
<1> USE ConstantAssumption
<1>1. TypeOK'
  BY DEF IInv, TypeOK, heap, bitmaps, stacks, where, kCardDirty
<1>2. NoDanglingReference'
  <2>1. \A q \in Mutator \cup Global : roots[q] \subseteq used
    BY UnionOfRoots DEF IInv, NoDanglingReference, AllRoots
  <2>2. \A q \in Mutator \cup Global : roots'[q] \subseteq used'
    BY <2>1 DEF IInv, TypeOK, heap
  <2>3. AllRoots' \subseteq used'
    BY <2>2, UnionOfRoots DEF AllRoots
  <2> QED
    BY <2>3 DEF IInv, NoDanglingReference, heap
<1>3. \A q \in Mutator : StoreOK(q)' /\ CardFirst(q)'
  BY DEF IInv, TypeOK, StoreOK, CardFirst, AtSafepoint, heap, where
<1>4. Control'
  BY DEF IInv, Control, bitmaps, where
<1>5. Stacks'
  <2>1. stage = "sweep" => \A q \in Mutator \cup Global : roots[q] \subseteq marked \cup allocation_stack
    BY UnionOfRoots DEF IInv, Stacks, AllRoots
  <2>2. stage = "sweep" => \A q \in Mutator \cup Global : roots'[q] \subseteq (marked \cup allocation_stack)'
    BY <2>1 DEF IInv, TypeOK, bitmaps, stacks
  <2>3. stage = "sweep" => AllRoots' \subseteq (marked \cup allocation_stack)'
    BY <2>2, UnionOfRoots DEF AllRoots
  <2> QED
    BY <2>3 DEF IInv, Stacks, Paused, heap, bitmaps, stacks, where
<1>6. WhiteIsCovered'
  BY DEF IInv, WhiteIsCovered, Watched, White, Black, Covered, StickyRoots, ScansAged, WillScanAged,
         PendingCard, heap, bitmaps, stacks, where
<1> QED
  BY <1>1, <1>2, <1>3, <1>4, <1>5, <1>6 DEF IInv

LEMMA LoadInv ==
    ASSUME IInv, NEW t \in Mutator,
           LoadField(t) \/ DropLocal(t) \/ SetGlobal(t) \/ LoadGlobal(t)
    PROVE  IInv'
<1> USE ConstantAssumption
<1>1. \A q \in Mutator \cup Global : roots[q] \subseteq used /\ roots[q] \in SUBSET Object
  BY UnionOfRoots DEF IInv, NoDanglingReference, AllRoots, TypeOK
<1>2. stage = "sweep" => \A q \in Mutator \cup Global : roots[q] \subseteq marked \cup allocation_stack
  BY UnionOfRoots DEF IInv, Stacks, AllRoots
<1>3. CASE LoadField(t)
  <2>1. PICK o \in roots[t] : /\ field[o] # Null
                              /\ roots' = [roots EXCEPT ![t] = roots[t] \cup {field[o]}]
    BY <1>3 DEF LoadField, IInv, TypeOK
  <2>2. o \in used /\ field[o] \in used /\ field[o] \in Object
    BY <1>1, <2>1 DEF IInv, NoDanglingReference, TypeOK
  <2>3. stage = "sweep" => field[o] \in marked \cup allocation_stack
    BY <1>2, <2>1 DEF IInv, Stacks
  <2> DEFINE S == roots[t] \cup {field[o]}
  <2>4. S \in SUBSET Object /\ S \subseteq used /\ (stage = "sweep" => S \subseteq marked \cup allocation_stack)
    BY <1>1, <1>2, <2>2, <2>3
  <2>5. roots' = [roots EXCEPT ![t] = S]
    BY <2>1
  <2> HIDE DEF S
  <2> QED
    BY <1>3, <2>4, <2>5, LocalsInv DEF LoadField
<1>4. CASE DropLocal(t)
  <2>1. PICK o \in roots[t] : roots' = [roots EXCEPT ![t] = roots[t] \ {o}]
    BY <1>4 DEF DropLocal
  <2> DEFINE S == roots[t] \ {o}
  <2>4. S \in SUBSET Object /\ S \subseteq used /\ (stage = "sweep" => S \subseteq marked \cup allocation_stack)
    BY <1>1, <1>2
  <2>5. roots' = [roots EXCEPT ![t] = S]
    BY <2>1
  <2> HIDE DEF S
  <2> QED
    BY <1>4, <2>4, <2>5, LocalsInv DEF DropLocal
<1>5. CASE SetGlobal(t)
  <2>1. PICK g \in Global, S \in {{}} \cup {{o} : o \in roots[t]} : roots' = [roots EXCEPT ![g] = S]
    BY <1>5 DEF SetGlobal
  <2>2. S \subseteq roots[t]
    BY <2>1
  <2>3. S \in SUBSET Object /\ S \subseteq used /\ (stage = "sweep" => S \subseteq marked \cup allocation_stack)
    BY <1>1, <1>2, <2>2
  <2> QED
    BY <1>5, <2>1, <2>3, LocalsInv DEF SetGlobal
<1>6. CASE LoadGlobal(t)
  <2>1. PICK g \in Global : roots' = [roots EXCEPT ![t] = roots[t] \cup roots[g]]
    BY <1>6 DEF LoadGlobal
  <2> DEFINE S == roots[t] \cup roots[g]
  <2>4. S \in SUBSET Object /\ S \subseteq used /\ (stage = "sweep" => S \subseteq marked \cup allocation_stack)
    BY <1>1, <1>2
  <2>5. roots' = [roots EXCEPT ![t] = S]
    BY <2>1
  <2> HIDE DEF S
  <2> QED
    BY <1>6, <2>4, <2>5, LocalsInv DEF LoadGlobal
<1> QED
  BY <1>3, <1>4, <1>5, <1>6

LEMMA AllocInv ==
    ASSUME IInv, NEW t \in Mutator, AllocObject(t)
    PROVE  IInv'
<1> USE ConstantAssumption
<1>1. PICK o \in Object \ used : /\ used' = used \cup {o}
                                 /\ field' = [field EXCEPT ![o] = Null]
                                 /\ roots' = [roots EXCEPT ![t] = roots[t] \cup {o}]
                                 /\ allocation_stack' = allocation_stack \cup {o}
  BY DEF AllocObject
<1>2. /\ ~Paused /\ AtSafepoint(t)
      /\ UNCHANGED <<card, store, live, marked, mark_stack, live_stack, type, stage, step, todo, garbage>>
  BY DEF AllocObject, bitmaps, where
<1>3. TypeOK'
  BY <1>1, <1>2 DEF IInv, TypeOK, kCardDirty
<1>4. NoDanglingReference'
  <2>1. \A q \in Mutator \cup Global : roots[q] \subseteq used
    BY UnionOfRoots DEF IInv, NoDanglingReference, AllRoots
  <2>2. \A q \in Mutator \cup Global : roots'[q] \subseteq used'
    BY <1>1, <2>1 DEF IInv, TypeOK
  <2>3. AllRoots' \subseteq used'
    BY <2>2, UnionOfRoots DEF AllRoots
  <2>4. \A p \in used' : field'[p] \in used' \cup {Null}
    BY <1>1 DEF IInv, TypeOK, NoDanglingReference
  <2> QED
    BY <2>3, <2>4 DEF NoDanglingReference
<1>5. \A q \in Mutator : StoreOK(q)' /\ CardFirst(q)'
  BY <1>1, <1>2 DEF IInv, TypeOK, StoreOK, CardFirst, AtSafepoint
<1>6. Control'
  BY <1>2 DEF IInv, Control
<1>7. Stacks'
  <2>1. stage = "sweep" => \A q \in Mutator \cup Global : roots[q] \subseteq marked \cup allocation_stack
    BY UnionOfRoots DEF IInv, Stacks, AllRoots
  <2>2. stage = "sweep" => \A q \in Mutator \cup Global : roots'[q] \subseteq (marked \cup allocation_stack)'
    BY <1>1, <1>2, <2>1 DEF IInv, TypeOK
  <2>3. stage = "sweep" => AllRoots' \subseteq (marked \cup allocation_stack)'
    BY <2>2, UnionOfRoots DEF AllRoots
  <2>4. stage = "sweep" => allocation_stack' \cap (live \cup live_stack \cup marked) = {}
    BY <1>1 DEF IInv, Stacks, TypeOK
  <2>5. stage = "sweep" => \A p \in (marked \cup allocation_stack)' :
                              field'[p] \in (marked \cup allocation_stack)' \cup {Null}
    BY <1>1, <1>2 DEF IInv, Stacks, TypeOK
  <2>6. used' = (live \cup allocation_stack \cup live_stack)'
    BY <1>1, <1>2 DEF IInv, Stacks
  <2> QED
    BY <1>2, <2>3, <2>4, <2>5, <2>6 DEF IInv, Stacks, Paused
<1>8. WhiteIsCovered'
  <2>1. SUFFICES ASSUME NEW p \in Watched', White(p)' PROVE Covered(p)'
    BY DEF WhiteIsCovered
  <2>2. p # o
    BY <1>1, <2>1 DEF White, IInv, TypeOK
  <2>3. p \in Watched /\ White(p)
    BY <1>1, <1>2, <2>1, <2>2 DEF Watched, White, Black, StickyRoots, IInv, TypeOK
  <2>4. Covered(p)
    BY <2>3 DEF IInv, WhiteIsCovered
  <2> QED
    BY <1>2, <2>4 DEF Covered, StickyRoots, ScansAged, WillScanAged, PendingCard
<1> QED
  BY <1>3, <1>4, <1>5, <1>6, <1>7, <1>8 DEF IInv

LEMMA SetFieldInv ==
    ASSUME IInv, NEW t \in Mutator, SetFieldObject(t)
    PROVE  IInv'
<1> USE ConstantAssumption
<1>1. PICK o \in roots[t], v \in roots[t] \cup {Null} :
        store' = [store EXCEPT ![t] = [obj |-> o, val |-> v,
                                       left |-> IF v = Null THEN {"field"} ELSE {"field", "card"}]]
  BY DEF SetFieldObject
<1>2. /\ ~Paused /\ store[t] = NoStore
      /\ UNCHANGED <<used, field, card, roots, live, marked, mark_stack, allocation_stack, live_stack,
                     type, stage, step, todo, garbage>>
  BY DEF SetFieldObject, AtSafepoint, heap, bitmaps, stacks, where
<1>3. TypeOK'
  BY <1>1, <1>2 DEF IInv, TypeOK, kCardDirty
<1>4. NoDanglingReference'
  BY <1>2 DEF IInv, NoDanglingReference, AllRoots
<1>5. \A q \in Mutator : StoreOK(q)'
  BY <1>1, <1>2 DEF IInv, TypeOK, StoreOK
<1>6. \A q \in Mutator : CardFirst(q)'
  <2>1. "card" \notin {"field"}
    OBVIOUS
  <2>2. store'[t].val # Null => "card" \in store'[t].left
    BY <1>1, <1>2 DEF IInv, TypeOK
  <2>3. \A q \in Mutator \ {t} : store'[q] = store[q]
    BY <1>1 DEF IInv, TypeOK
  <2> QED
    BY <1>2, <2>1, <2>2, <2>3 DEF IInv, CardFirst
<1>7. Control'
  BY <1>2 DEF IInv, Control
<1>8. Stacks'
  BY <1>2 DEF IInv, Stacks, Paused, AllRoots
<1>9. WhiteIsCovered'
  <2>1. \A p : PendingCard(p) => PendingCard(p)'
    BY <1>1, <1>2 DEF PendingCard, NoStore, IInv, TypeOK
  <2> QED
    BY <1>2, <2>1 DEF IInv, WhiteIsCovered, Watched, White, Black, Covered, StickyRoots, ScansAged,
                      WillScanAged
<1> QED
  BY <1>3, <1>4, <1>5, <1>6, <1>7, <1>8, <1>9 DEF IInv

\* The two halves of a store: either order leaves the object covered.
LEMMA StoreInv ==
    ASSUME IInv, NEW t \in Mutator, StoreStep(t)
    PROVE  IInv'
<1> USE ConstantAssumption
<1> DEFINE o == store[t].obj
           v == store[t].val
<1>1. PICK w \in store[t].left :
        /\ field' = IF w = "field" THEN [field EXCEPT ![o] = v] ELSE field
        /\ card' = IF w = "card" THEN [card EXCEPT ![o] = kCardDirty] ELSE card
        /\ store' = IF store[t].left = {w} THEN [store EXCEPT ![t] = NoStore]
                                           ELSE [store EXCEPT ![t].left = store[t].left \ {w}]
  BY DEF StoreStep
<1>2. UNCHANGED <<used, roots, live, marked, mark_stack, allocation_stack, live_stack,
                  type, stage, step, todo, garbage>>
  BY DEF StoreStep, bitmaps, stacks, where
<1>3. /\ store[t] # NoStore /\ stage # "pause"
      /\ o \in roots[t] /\ v \in roots[t] \cup {Null} /\ w \in {"field", "card"}
  BY <1>1 DEF IInv, StoreOK, Stacks, NoStore, TypeOK
<1>4. /\ roots[t] \subseteq used /\ roots[t] \subseteq Object
      /\ stage = "sweep" => roots[t] \subseteq marked \cup allocation_stack
  BY DEF IInv, NoDanglingReference, Stacks, AllRoots, TypeOK
<1>5. TypeOK'
  <2>1. store' \in [Mutator -> [obj : Object \cup {Null}, val : Object \cup {Null},
                                left : SUBSET {"field", "card"}]]
    BY <1>1, <1>3 DEF IInv, TypeOK, NoStore
  <2>2. field' \in [Object -> Object \cup {Null}] /\ card' \in [Object -> 0..kCardDirty]
    BY <1>1, <1>3, <1>4 DEF IInv, TypeOK, kCardDirty
  <2> QED
    BY <1>2, <2>1, <2>2 DEF IInv, TypeOK
<1>6. NoDanglingReference'
  <2>1. \A p \in used : field'[p] \in used \cup {Null}
    BY <1>1, <1>3, <1>4 DEF IInv, NoDanglingReference, TypeOK
  <2> QED
    BY <1>2, <2>1 DEF IInv, NoDanglingReference, AllRoots
<1>7. /\ \A q \in Mutator \ {t} : store'[q] = store[q]
      /\ store[t].left = {w} => store'[t] = NoStore
      /\ store[t].left # {w} => /\ store'[t].obj = o /\ store'[t].val = v
                                /\ store'[t].left = store[t].left \ {w}
  BY <1>1 DEF IInv, TypeOK
<1>8. \A q \in Mutator : StoreOK(q)'
  BY <1>1, <1>2, <1>3, <1>7 DEF IInv, StoreOK
<1>9. /\ \A p \in Object : card'[p] = card[p] \/ card'[p] = kCardDirty
      /\ w = "card" => card'[o] = kCardDirty
      /\ \A p \in Object \ {o} : field'[p] = field[p]
      /\ w = "card" => field' = field
      /\ w = "field" => field'[o] = v /\ card' = card
  BY <1>1, <1>3, <1>4 DEF IInv, TypeOK
<1>10. \A q \in Mutator : CardFirst(q)'
  <2>1. CardFirst(t)'
    BY <1>1, <1>3, <1>7, <1>9 DEF CardFirst, NoStore
  <2>2. ASSUME NEW q \in Mutator \ {t} PROVE CardFirst(q)'
    <3>1. CASE store[q] = NoStore
      BY <1>7, <3>1 DEF CardFirst, NoStore
    <3>2. CASE store[q] # NoStore
      <4>1. store[q].obj \in Object
        BY <3>2 DEF IInv, StoreOK, TypeOK
      <4> QED
        BY <1>2, <1>7, <1>9, <4>1 DEF IInv, CardFirst
    <3> QED
      BY <3>1, <3>2
  <2> QED
    BY <2>1, <2>2
<1>11. Control'
  BY <1>2 DEF IInv, Control
<1>12. Stacks'
  <2>1. stage = "sweep" => \A p \in marked \cup allocation_stack :
                              field'[p] \in marked \cup allocation_stack \cup {Null}
    BY <1>3, <1>4, <1>9 DEF IInv, Stacks, TypeOK
  <2> QED
    BY <1>2, <1>3, <2>1 DEF IInv, Stacks, AllRoots
<1>13. WhiteIsCovered'
  <2>1. SUFFICES ASSUME NEW p \in Watched', White(p)' PROVE Covered(p)'
    BY DEF WhiteIsCovered
  <2>2. p \in Watched /\ p \in Object
    BY <1>2, <2>1 DEF Watched, StickyRoots, IInv, TypeOK
  <2>3. CASE p # o
    <3>1. White(p)
      BY <1>2, <1>9, <2>1, <2>2, <2>3 DEF White, Black
    <3>2. Covered(p)
      BY <2>2, <3>1 DEF IInv, WhiteIsCovered
    <3>3. PendingCard(p) => PendingCard(p)'
      BY <1>7, <2>3 DEF PendingCard
    <3>4. card'[p] = card[p]
      BY <1>1, <2>2, <2>3 DEF IInv, TypeOK
    <3> QED
      BY <1>2, <3>2, <3>3, <3>4 DEF Covered, StickyRoots, ScansAged, WillScanAged
  <2>4. CASE p = o /\ w = "card"
    BY <1>2, <1>3, <1>9, <2>4 DEF Covered
  <2>5. CASE p = o /\ w = "field" /\ store[t].left # {w}
    <3>1. "card" \in store[t].left
      BY <1>1, <2>5 DEF IInv, TypeOK
    <3>2. PendingCard(p)'
      BY <1>7, <2>5, <3>1 DEF PendingCard
    <3> QED
      BY <1>2, <1>3, <3>2 DEF Covered
  <2>6. CASE p = o /\ w = "field" /\ store[t].left = {w}
    <3>1. v # Null
      BY <1>9, <2>1, <2>6 DEF White
    <3>2. CardFirst(t)
      BY DEF IInv
    <3>3. card[o] = kCardDirty => Covered(p)'
      BY <1>2, <1>3, <1>9, <2>6 DEF Covered
    <3>4. CASE /\ stage \in {"initial", "preclean"} /\ card[o] = kCardDirty - 1
               /\ ((step = "age" /\ o \notin todo) \/ (step = "roots" /\ t \in todo))
      <4>1. CASE ScansAged
        BY <1>2, <1>9, <2>6, <3>4, <4>1 DEF Covered, ScansAged, WillScanAged
      <4>2. CASE ~ScansAged
        <5>1. stage = "initial" /\ type = "full" /\ step \in {"age", "roots"}
          BY <3>4, <4>2 DEF ScansAged, IInv, Control
        <5>2. p \in mark_stack
          BY <2>2, <5>1 DEF IInv, Control, Watched, StickyRoots
        <5> QED
          BY <1>2, <5>1, <5>2 DEF Covered, StickyRoots
      <4> QED
        BY <4>1, <4>2
    <3>5. store[t].left = {"field"}
      BY <2>6
    <3>6. \/ card[o] = kCardDirty
          \/ /\ stage \in {"initial", "preclean"} /\ card[o] = kCardDirty - 1
             /\ ((step = "age" /\ o \notin todo) \/ (step = "roots" /\ t \in todo))
      BY <3>1, <3>2, <3>5 DEF CardFirst
    <3> QED
      BY <3>3, <3>4, <3>6
  <2> QED
    BY <1>3, <2>3, <2>4, <2>5, <2>6
<1> QED
  BY <1>5, <1>6, <1>8, <1>10, <1>11, <1>12, <1>13 DEF IInv

LEMMA MutatorInv ==
    ASSUME IInv, NEW t \in Mutator, MutatorStep(t)
    PROVE  IInv'
  BY LoadInv, AllocInv, SetFieldInv, StoreInv DEF MutatorStep

-----------------------------------------------------------------------------
\* The roots are in use, and the collector's work list names objects or threads.
LEMMA RootsUsed ==
    ASSUME IInv
    PROVE  \A r \in Mutator \cup Global : roots[r] \subseteq used
  BY UnionOfRoots DEF IInv, NoDanglingReference, AllRoots

LEMMA BeginInv ==
    ASSUME IInv, NEW k \in GcType, Begin(k)
    PROVE  IInv'
<1> USE ConstantAssumption
<1>1. /\ stage = "idle" /\ stage' = "initial" /\ step' = "age" /\ todo' = Object /\ type' = k
      /\ marked' = IF k = "sticky" THEN live ELSE marked
      /\ UNCHANGED <<used, field, card, roots, store, live, mark_stack, allocation_stack, live_stack>>
      /\ garbage' = used \ Reachable
  BY DEF Begin, Goto, heap, mutators, stacks
<1>2. marked = {} /\ mark_stack = {} /\ type = "none"
  BY <1>1 DEF IInv, Control
<1>3. TypeOK'
  BY <1>1, <1>2 DEF IInv, TypeOK
<1>4. NoDanglingReference'
  BY <1>1 DEF IInv, NoDanglingReference, AllRoots
<1>5. \A q \in Mutator : StoreOK(q)' /\ CardFirst(q)'
  BY <1>1 DEF IInv, StoreOK, CardFirst
<1>6. Control'
  BY <1>1, <1>2 DEF IInv, Control
<1>7. Stacks'
  BY <1>1 DEF IInv, Stacks, AllRoots
<1>8. WhiteIsCovered'
  <2>1. CASE k = "sticky"
    BY <1>1, <1>2, <2>1 DEF IInv, WhiteIsCovered, Watched, White, Black, Covered, StickyRoots, ScansAged,
                            PendingCard
  <2>2. CASE k # "sticky"
    BY <1>1, <1>2, <2>2 DEF WhiteIsCovered, Watched, StickyRoots
  <2> QED
    BY <2>1, <2>2
<1> QED
  BY <1>3, <1>4, <1>5, <1>6, <1>7, <1>8 DEF IInv

LEMMA AgeCardInv ==
    ASSUME IInv, AgeCard
    PROVE  IInv'
<1> USE ConstantAssumption
<1>1. PICK c \in todo :
        /\ card' = [card EXCEPT ![c] = IF card[c] = kCardDirty THEN kCardDirty - 1 ELSE 0]
        /\ IF todo = {c} THEN step' = "roots" /\ todo' = Mutator \cup Global
                         ELSE step' = step /\ todo' = todo \ {c}
  BY DEF AgeCard, Goto
<1>2. /\ step = "age" /\ stage' = stage
      /\ UNCHANGED <<used, field, roots, store, live, marked, mark_stack, allocation_stack, live_stack,
                     type, garbage>>
  BY DEF AgeCard, Goto, mutators, bitmaps, stacks
<1>3. /\ c \in Object /\ todo \subseteq Object /\ mark_stack = {}
      /\ stage \in {"initial", "preclean"} /\ type \in {"full", "sticky"}
  BY <1>1, <1>2 DEF IInv, Control, TypeOK
<1>4. /\ \A p \in Object \ {c} : card'[p] = card[p]
      /\ card'[c] = IF card[c] = kCardDirty THEN kCardDirty - 1 ELSE 0
  BY <1>1, <1>3 DEF IInv, TypeOK
<1>5. TypeOK'
  <2>1. card' \in [Object -> 0..kCardDirty]
    BY <1>1, <1>3 DEF IInv, TypeOK, kCardDirty
  <2> QED
    BY <1>1, <1>2, <2>1 DEF IInv, TypeOK
<1>6. NoDanglingReference'
  BY <1>2 DEF IInv, NoDanglingReference, AllRoots
<1>7. \A q \in Mutator : StoreOK(q)'
  BY <1>2 DEF IInv, StoreOK
<1>8. ASSUME NEW q \in Mutator PROVE CardFirst(q)'
  <2>1. SUFFICES ASSUME store[q].val # Null, store[q].left = {"field"} PROVE CardFirst(q)'
    BY <1>2 DEF CardFirst
  <2> DEFINE o == store[q].obj
  <2>2. o \in Object
    BY <2>1 DEF IInv, StoreOK, NoStore, TypeOK
  <2>3. card[o] = kCardDirty \/ (card[o] = kCardDirty - 1 /\ o \notin todo)
    BY <1>2, <2>1 DEF IInv, CardFirst
  <2>4. CASE todo = {c}
    BY <1>1, <1>2, <1>3, <1>4, <2>2, <2>3, <2>4 DEF CardFirst
  <2>5. CASE todo # {c}
    BY <1>1, <1>2, <1>3, <1>4, <2>2, <2>3, <2>5 DEF CardFirst
  <2> QED
    BY <2>4, <2>5
<1>9. Control'
  BY <1>1, <1>2, <1>3 DEF IInv, Control
<1>10. Stacks'
  BY <1>2 DEF IInv, Stacks, AllRoots
<1>11. WhiteIsCovered'
  <2>1. SUFFICES ASSUME NEW p \in Watched', White(p)' PROVE Covered(p)'
    BY DEF WhiteIsCovered
  <2>2. /\ p \in Watched /\ White(p) /\ p \in Object
    BY <1>1, <1>2, <1>3, <2>1 DEF Watched, White, Black, StickyRoots, IInv, TypeOK
  <2>3. Covered(p)
    BY <2>2 DEF IInv, WhiteIsCovered
  <2>4. ScansAged
    BY <1>2, <1>3, <2>2 DEF ScansAged, Watched, StickyRoots, IInv, Control
  <2>5. PendingCard(p) => PendingCard(p)'
    BY <1>2 DEF PendingCard
  <2>6. card[p] = kCardDirty \/ PendingCard(p) \/ (card[p] = kCardDirty - 1 /\ p \notin todo)
    BY <1>2, <1>3, <2>3 DEF Covered, WillScanAged
  <2>7. ScansAged' /\ stage' # "pause"
    BY <1>2, <1>3, <2>4 DEF ScansAged
  <2>8. CASE todo = {c}
    BY <1>1, <1>4, <2>2, <2>5, <2>6, <2>7, <2>8 DEF Covered, WillScanAged
  <2>9. CASE todo # {c}
    BY <1>1, <1>2, <1>4, <2>2, <2>5, <2>6, <2>7, <2>9 DEF Covered, WillScanAged
  <2> QED
    BY <2>8, <2>9
<1> QED
  BY <1>5, <1>6, <1>7, <1>8, <1>9, <1>10, <1>11 DEF IInv

LEMMA CheckpointInv ==
    ASSUME IInv, NEW t \in Mutator, CheckpointMarkThreadRoots(t)
    PROVE  IInv'
<1> USE ConstantAssumption
<1>1. /\ step = "roots" /\ t \in todo /\ store[t] = NoStore
      /\ marked' = marked \cup roots[t] /\ mark_stack' = mark_stack \cup (roots[t] \ marked)
      /\ todo' = todo \ {t}
      /\ UNCHANGED <<used, field, card, roots, store, live, allocation_stack, live_stack,
                     type, stage, step, garbage>>
  BY DEF CheckpointMarkThreadRoots, AtSafepoint, MarkObjects, Goto, heap, mutators, stacks
<1>2. stage \in {"initial", "preclean"} /\ type \in {"full", "sticky"}
  BY <1>1 DEF IInv, Control, TypeOK
<1>3. TypeOK'
  BY <1>1, RootsUsed DEF IInv, TypeOK
<1>4. NoDanglingReference'
  BY <1>1 DEF IInv, NoDanglingReference, AllRoots
<1>5. ASSUME NEW q \in Mutator PROVE StoreOK(q)' /\ CardFirst(q)'
  <2>1. StoreOK(q) /\ CardFirst(q)
    BY DEF IInv
  <2>2. CASE q = t
    <3>1. store'[t] = NoStore /\ store'[t].val = Null
      BY <1>1 DEF NoStore
    <3> QED
      BY <2>2, <3>1 DEF StoreOK, CardFirst
  <2>3. CASE q # t
    BY <1>1, <2>1, <2>3 DEF StoreOK, CardFirst
  <2> QED
    BY <2>2, <2>3
<1>6. Control'
  BY <1>1, <1>2 DEF IInv, Control
<1>7. Stacks'
  BY <1>1, <1>2 DEF IInv, Stacks, AllRoots
<1>8. WhiteIsCovered'
  BY <1>1, <1>2 DEF IInv, WhiteIsCovered, Watched, White, Black, Covered, StickyRoots, ScansAged,
                    WillScanAged, PendingCard
<1> QED
  BY <1>3, <1>4, <1>5, <1>6, <1>7, <1>8 DEF IInv

LEMMA NonThreadRootsInv ==
    ASSUME IInv, MarkNonThreadRoots
    PROVE  IInv'
<1> USE ConstantAssumption
<1> DEFINE S == UNION {roots[g] : g \in Global}
<1>1. /\ step = "roots" /\ todo \subseteq Global
      /\ marked' = marked \cup S
      /\ mark_stack' = IF stage = "initial" /\ type = "sticky" THEN {} ELSE mark_stack \cup (S \ marked)
      /\ IF stage = "initial" /\ type = "full" THEN step' = "drain" /\ todo' = {}
                                               ELSE step' = "cards" /\ todo' = Object
      /\ UNCHANGED <<used, field, card, roots, store, live, allocation_stack, live_stack,
                     type, stage, garbage>>
  BY DEF MarkNonThreadRoots, Goto, heap, mutators, stacks
<1>2. stage \in {"initial", "preclean"} /\ type \in {"full", "sticky"}
  BY <1>1 DEF IInv, Control, TypeOK
<1>3. S \subseteq used
  BY RootsUsed
<1> HIDE DEF S
<1>4. TypeOK'
  BY <1>1, <1>3 DEF IInv, TypeOK
<1>5. NoDanglingReference'
  BY <1>1 DEF IInv, NoDanglingReference, AllRoots
<1>6. \A q \in Mutator : StoreOK(q)'
  BY <1>1 DEF IInv, StoreOK
<1>7. \A q \in Mutator : CardFirst(q)'
  BY <1>1 DEF IInv, CardFirst
<1>8. Control'
  BY <1>1, <1>2 DEF IInv, Control
<1>9. Stacks'
  BY <1>1, <1>2 DEF IInv, Stacks, AllRoots
<1>10. WhiteIsCovered'
  <2>1. SUFFICES ASSUME NEW p \in Watched', White(p)' PROVE Covered(p)'
    BY DEF WhiteIsCovered
  <2>2. /\ p \in marked' /\ p \in Object /\ field[p] \notin marked \cup {Null}
    BY <1>1, <1>2, <1>3, <2>1 DEF Watched, White, Black, StickyRoots, IInv, TypeOK
  <2>3. PendingCard(p) => PendingCard(p)'
    BY <1>1 DEF PendingCard
  <2>4. CASE stage = "initial" /\ type = "full"
    BY <1>1, <2>2, <2>4 DEF IInv, Control, Covered, StickyRoots
  <2>5. CASE stage = "initial" /\ type = "sticky"
    <3>1. Covered(p)
      BY <1>1, <1>3, <2>2, <2>5 DEF IInv, TypeOK, WhiteIsCovered, Watched, White, Black, StickyRoots
    <3> QED
      BY <1>1, <2>2, <2>3, <2>5, <3>1 DEF Covered, StickyRoots, ScansAged, WillScanAged
  <2>6. CASE stage = "preclean"
    <3>1. CASE p \in marked
      <4>1. Covered(p)
        BY <2>2, <2>6, <3>1 DEF IInv, WhiteIsCovered, Watched, White, Black, StickyRoots
      <4> QED
        BY <1>1, <2>2, <2>3, <2>6, <4>1 DEF Covered, StickyRoots, ScansAged, WillScanAged
    <3>2. CASE p \notin marked
      BY <1>1, <2>2, <2>6, <3>2 DEF Covered, StickyRoots
    <3> QED
      BY <3>1, <3>2
  <2> QED
    BY <1>2, <2>4, <2>5, <2>6
<1> QED
  BY <1>4, <1>5, <1>6, <1>7, <1>8, <1>9, <1>10 DEF IInv

LEMMA ScanCardInv ==
    ASSUME IInv, ScanCard
    PROVE  IInv'
<1> USE ConstantAssumption
<1>1. PICK c \in todo :
        /\ IF card[c] >= MinimumAge /\ c \in marked
           THEN /\ marked' = marked \cup ({field[c]} \ {Null})
                /\ mark_stack' = mark_stack \cup (({field[c]} \ {Null}) \ marked)
           ELSE UNCHANGED <<marked, mark_stack>>
        /\ IF todo = {c} THEN step' = "drain" /\ todo' = {} ELSE step' = step /\ todo' = todo \ {c}
  BY DEF ScanCard, MarkObjects, Goto
<1>2. /\ step = "cards"
      /\ UNCHANGED <<used, field, card, roots, store, live, allocation_stack, live_stack,
                     type, stage, garbage>>
  BY DEF ScanCard, Goto, heap, mutators, stacks
<1>3. /\ c \in Object /\ todo \subseteq Object
      /\ stage \in {"initial", "preclean", "pause"} /\ type \in {"full", "sticky"}
      /\ stage = "initial" => type = "sticky"
  BY <1>1, <1>2 DEF IInv, Control, TypeOK
<1>4. c \in marked => field[c] \in used \cup {Null}
  BY DEF IInv, NoDanglingReference, TypeOK
<1>5. /\ marked \subseteq marked' /\ mark_stack \subseteq mark_stack'
      /\ marked' \ marked \subseteq mark_stack' /\ mark_stack' \subseteq marked' /\ marked' \subseteq used
      /\ card[c] >= MinimumAge /\ c \in marked => field[c] \in marked' \cup {Null}
  BY <1>1, <1>4 DEF IInv, TypeOK
<1>6. TypeOK'
  BY <1>1, <1>2, <1>5 DEF IInv, TypeOK
<1>7. NoDanglingReference'
  BY <1>2 DEF IInv, NoDanglingReference, AllRoots
<1>8. \A q \in Mutator : StoreOK(q)'
  BY <1>2 DEF IInv, StoreOK
<1>9. \A q \in Mutator : CardFirst(q)'
  BY <1>2 DEF IInv, CardFirst
<1>10. Control'
  BY <1>1, <1>2, <1>3, <1>5 DEF IInv, Control
<1>11. Stacks'
  BY <1>2, <1>3, <1>5 DEF IInv, Stacks, AllRoots
<1>12. WhiteIsCovered'
  <2>1. SUFFICES ASSUME NEW p \in Watched', White(p)' PROVE Covered(p)'
    BY DEF WhiteIsCovered
  <2>2. /\ p \in marked' /\ p \in Object /\ field[p] \notin marked' \cup {Null}
    BY <1>1, <1>2, <1>3, <1>5, <2>1 DEF Watched, White, Black, StickyRoots, IInv, TypeOK
  <2>3. PendingCard(p) => PendingCard(p)'
    BY <1>2 DEF PendingCard
  <2>4. p \in mark_stack' => Covered(p)'
    BY <1>1, <1>2 DEF Covered, StickyRoots
  <2>5. CASE p \in marked
    <3>1. Covered(p)
      BY <1>2, <1>3, <1>5, <2>2, <2>5 DEF IInv, WhiteIsCovered, Watched, White, Black, StickyRoots
    <3>2. CASE p # c
      BY <1>1, <1>2, <1>3, <1>5, <2>2, <2>3, <2>4, <3>1, <3>2 DEF Covered, ScansAged, WillScanAged
    <3>3. CASE p = c
      <4>1. card[p] < MinimumAge
        BY <1>3, <1>5, <2>2, <2>5, <3>3 DEF MinimumAge, kCardDirty, IInv, TypeOK
      <4>2. CASE stage = "pause"
        <5>1. card[p] # kCardDirty
          BY <4>1, <4>2 DEF MinimumAge, Paused, kCardDirty
        <5>2. p \in mark_stack
          BY <3>1, <4>2, <5>1 DEF Covered, ScansAged
        <5> QED
          BY <1>5, <2>4, <5>2
      <4>3. CASE stage # "pause"
        <5>1. p \in mark_stack \/ PendingCard(p)
          BY <3>1, <4>1, <4>3 DEF Covered, MinimumAge, Paused, kCardDirty
        <5> QED
          BY <1>2, <1>5, <2>3, <2>4, <4>3, <5>1 DEF Covered
      <4> QED
        BY <4>2, <4>3
    <3> QED
      BY <3>2, <3>3
  <2>6. CASE p \notin marked
    BY <1>5, <2>2, <2>4, <2>6
  <2> QED
    BY <2>5, <2>6
<1> QED
  BY <1>6, <1>7, <1>8, <1>9, <1>10, <1>11, <1>12 DEF IInv

LEMMA ScanObjectInv ==
    ASSUME IInv, ScanObject
    PROVE  IInv'
<1> USE ConstantAssumption
<1>1. PICK o \in mark_stack :
        /\ marked' = marked \cup ({field[o]} \ {Null})
        /\ mark_stack' = (mark_stack \ {o}) \cup (({field[o]} \ {Null}) \ marked)
  BY DEF ScanObject
<1>2. /\ step = "drain"
      /\ UNCHANGED <<used, field, card, roots, store, live, allocation_stack, live_stack,
                     type, stage, step, todo, garbage>>
  BY DEF ScanObject, heap, mutators, stacks, where
<1>3. stage \in {"initial", "preclean", "pause"}
  BY <1>2 DEF IInv, Control, TypeOK
<1>4. o \in marked /\ field[o] \in used \cup {Null}
  BY <1>1 DEF IInv, NoDanglingReference, TypeOK
<1>5. TypeOK'
  BY <1>1, <1>2, <1>4 DEF IInv, TypeOK
<1>6. NoDanglingReference'
  BY <1>2 DEF IInv, NoDanglingReference, AllRoots
<1>7. \A q \in Mutator : StoreOK(q)' /\ CardFirst(q)'
  BY <1>2 DEF IInv, StoreOK, CardFirst
<1>8. Control'
  BY <1>1, <1>2, <1>3 DEF IInv, Control
<1>9. Stacks'
  BY <1>1, <1>2, <1>3 DEF IInv, Stacks, AllRoots
<1>10. WhiteIsCovered'
  BY <1>1, <1>2, <1>3, <1>4 DEF IInv, WhiteIsCovered, Watched, White, Black, Covered, StickyRoots,
                                ScansAged, WillScanAged, PendingCard
<1> QED
  BY <1>5, <1>6, <1>7, <1>8, <1>9, <1>10 DEF IInv

LEMMA MarkingDoneInv ==
    ASSUME IInv, MarkingDone
    PROVE  IInv'
<1> USE ConstantAssumption
<1>1. /\ step = "drain" /\ mark_stack = {} /\ stage = "initial"
      /\ stage' = "preclean" /\ step' = "age" /\ todo' = Object
      /\ UNCHANGED <<used, field, card, roots, store, live, marked, mark_stack, allocation_stack,
                     live_stack, type, garbage>>
  BY DEF MarkingDone, Goto, heap, mutators, bitmaps, stacks
<1>2. TypeOK'
  BY <1>1 DEF IInv, TypeOK
<1>3. NoDanglingReference'
  BY <1>1 DEF IInv, NoDanglingReference, AllRoots
<1>4. \A q \in Mutator : StoreOK(q)' /\ CardFirst(q)'
  BY <1>1 DEF IInv, StoreOK, CardFirst
<1>5. Control' /\ Stacks'
  BY <1>1 DEF IInv, Control, Stacks, AllRoots
<1>6. WhiteIsCovered'
  BY <1>1 DEF IInv, WhiteIsCovered, Watched, White, Black, Covered, StickyRoots, ScansAged,
              WillScanAged, PendingCard
<1> QED
  BY <1>2, <1>3, <1>4, <1>5, <1>6 DEF IInv

\* The pause finds every store finished: what is covered is on a dirty card.
LEMMA PauseInv ==
    ASSUME IInv, PausePhase
    PROVE  IInv'
<1> USE ConstantAssumption
<1>1. /\ step = "drain" /\ mark_stack = {} /\ stage = "preclean"
      /\ \A t \in Mutator : store[t] = NoStore
      /\ marked' = marked \cup AllRoots /\ mark_stack' = mark_stack \cup (AllRoots \ marked)
      /\ stage' = "pause" /\ step' = "cards" /\ todo' = Object
      /\ UNCHANGED <<used, field, card, roots, store, live, allocation_stack, live_stack, type, garbage>>
  BY DEF PausePhase, AtSafepoint, MarkObjects, Goto, heap, mutators, stacks
<1>2. AllRoots \subseteq used /\ AllRoots' = AllRoots
  BY <1>1 DEF IInv, NoDanglingReference, AllRoots
<1>3. TypeOK'
  BY <1>1, <1>2 DEF IInv, TypeOK
<1>4. NoDanglingReference'
  BY <1>1, <1>2 DEF IInv, NoDanglingReference
<1>5. \A q \in Mutator : StoreOK(q)' /\ CardFirst(q)'
  <2>1. \A q \in Mutator : store'[q] = NoStore /\ store'[q].val = Null
    BY <1>1 DEF NoStore
  <2> QED
    BY <2>1 DEF StoreOK, CardFirst
<1>6. Control'
  BY <1>1 DEF IInv, Control
<1>7. Stacks'
  BY <1>1, <1>2 DEF IInv, Stacks
<1>8. WhiteIsCovered'
  <2>1. NoStore.left = {}
    BY DEF NoStore
  <2>2. \A t \in Mutator : store[t].left = {}
    BY <1>1, <2>1
  <2>3. \A p : ~PendingCard(p)
    BY <2>2 DEF PendingCard
  <2> QED
    BY <1>1, <2>3 DEF IInv, TypeOK, WhiteIsCovered, Watched, White, Black, Covered, StickyRoots,
                      ScansAged, WillScanAged
<1> QED
  BY <1>3, <1>4, <1>5, <1>6, <1>7, <1>8 DEF IInv

\* Nothing is covered any more when the pause ends: the marked objects are closed.
LEMMA SwapInv ==
    ASSUME IInv, SwapStacks
    PROVE  IInv'
<1> USE ConstantAssumption
<1>1. /\ step = "drain" /\ mark_stack = {} /\ stage = "pause"
      /\ live_stack' = allocation_stack /\ allocation_stack' = live_stack
      /\ stage' = "sweep" /\ step' = "age" /\ todo' = {}
      /\ UNCHANGED <<used, field, card, roots, store, live, marked, mark_stack, type, garbage>>
  BY DEF SwapStacks, Paused, Goto, heap, mutators, bitmaps
<1>2. AllRoots \subseteq marked /\ AllRoots' = AllRoots /\ live_stack = {}
  BY <1>1 DEF IInv, Stacks, AllRoots
<1>3. \A o \in marked : field[o] \in marked \cup {Null}
  BY <1>1 DEF IInv, WhiteIsCovered, Watched, White, Black, Covered, StickyRoots, ScansAged
<1>4. TypeOK'
  BY <1>1 DEF IInv, TypeOK
<1>5. NoDanglingReference'
  BY <1>1, <1>2 DEF IInv, NoDanglingReference
<1>6. \A q \in Mutator : StoreOK(q)' /\ CardFirst(q)'
  BY <1>1 DEF IInv, Stacks, StoreOK, CardFirst, NoStore
<1>7. Control'
  BY <1>1 DEF IInv, Control
<1>8. Stacks'
  BY <1>1, <1>2, <1>3 DEF IInv, Stacks
<1>9. WhiteIsCovered'
  BY <1>1, <1>2, <1>3 DEF WhiteIsCovered, Watched, White, Black, StickyRoots
<1> QED
  BY <1>4, <1>5, <1>6, <1>7, <1>8, <1>9 DEF IInv

LEMMA ReclaimInv ==
    ASSUME IInv, ReclaimPhase
    PROVE  IInv'
<1> USE ConstantAssumption
<1>1. /\ stage = "sweep" /\ used' = used \ Unmarked
      /\ field' = [o \in Object |-> IF o \in Unmarked THEN Null ELSE field[o]]
      /\ live' = marked /\ marked' = {} /\ live_stack' = {}
      /\ stage' = "idle" /\ step' = "age" /\ todo' = {} /\ type' = "none" /\ garbage' = {}
      /\ UNCHANGED <<card, roots, store, mark_stack, allocation_stack>>
  BY DEF ReclaimPhase, Goto, mutators
<1>2. /\ mark_stack = {} /\ type \in {"full", "sticky"} /\ (type = "sticky" => live \subseteq marked)
  BY <1>1 DEF IInv, Control
<1>3. /\ used \ Unmarked = marked \cup allocation_stack
      /\ Unmarked \cap (marked \cup allocation_stack) = {}
  BY <1>1, <1>2 DEF IInv, Stacks, TypeOK, Unmarked
<1>4. /\ AllRoots' \subseteq marked \cup allocation_stack
      /\ \A o \in marked \cup allocation_stack :
            /\ field'[o] = field[o]
            /\ field[o] \in marked \cup allocation_stack \cup {Null}
  <2>1. AllRoots' = AllRoots
    BY <1>1 DEF AllRoots
  <2>2. /\ AllRoots \subseteq marked \cup allocation_stack
        /\ \A o \in marked \cup allocation_stack :
              field[o] \in marked \cup allocation_stack \cup {Null}
    BY <1>1 DEF IInv, Stacks
  <2>3. \A o \in marked \cup allocation_stack : o \in Object /\ o \notin Unmarked
    BY <1>3 DEF IInv, TypeOK
  <2>4. \A o \in marked \cup allocation_stack : field'[o] = field[o]
    BY <1>1, <2>3
  <2> QED
    BY <2>1, <2>2, <2>4
<1>5. TypeOK'
  <2>1. field' \in [Object -> Object \cup {Null}]
    BY <1>1 DEF IInv, TypeOK
  <2>2. /\ used' \subseteq Object /\ live' \subseteq used' /\ marked' \subseteq used'
        /\ mark_stack' \subseteq marked' /\ allocation_stack' \subseteq used' /\ live_stack' \subseteq used'
    BY <1>1, <1>2, <1>3 DEF IInv, TypeOK
  <2> QED
    BY <1>1, <2>1, <2>2 DEF IInv, TypeOK
<1>6. NoDanglingReference'
  BY <1>1, <1>3, <1>4 DEF NoDanglingReference
<1>7. \A q \in Mutator : StoreOK(q)' /\ CardFirst(q)'
  BY <1>1 DEF IInv, StoreOK, CardFirst
<1>8. Control'
  BY <1>1, <1>2 DEF Control
<1>9. Stacks'
  BY <1>1, <1>3 DEF IInv, Stacks
<1>10. WhiteIsCovered'
  BY <1>1, <1>2, <1>3, <1>4 DEF IInv, WhiteIsCovered, Watched, White, Black, Covered, StickyRoots,
                                ScansAged, PendingCard
<1> QED
  BY <1>5, <1>6, <1>7, <1>8, <1>9, <1>10 DEF IInv

LEMMA CollectorInv ==
    ASSUME IInv, Collector
    PROVE  IInv'
  BY BeginInv, AgeCardInv, CheckpointInv, NonThreadRootsInv, ScanCardInv, ScanObjectInv, MarkingDoneInv,
     PauseInv, SwapInv, ReclaimInv DEF Collector

-----------------------------------------------------------------------------
\* Every reachable state satisfies the inductive invariant: whenever a marked object refers to an
\* unmarked one, the collector will scan it again before the pause ends.
THEOREM MarkingInvariance == Spec => []IInv
<1>1. IInv /\ [Next]_vars => IInv'
  <2> SUFFICES ASSUME IInv, [Next]_vars PROVE IInv'
    OBVIOUS
  <2>1. CASE Next
    BY <2>1, MutatorInv, CollectorInv DEF Next
  <2>2. CASE UNCHANGED vars
    <3> USE <2>2 DEF vars, heap, mutators, bitmaps, stacks, where, IInv
    <3>1. TypeOK' /\ NoDanglingReference'
      BY DEF TypeOK, NoDanglingReference, AllRoots
    <3>2. \A t \in Mutator : StoreOK(t)' /\ CardFirst(t)'
      BY DEF StoreOK, CardFirst
    <3>3. Control'
      BY DEF Control
    <3>4. Stacks'
      BY DEF Stacks, AllRoots
    <3>5. WhiteIsCovered'
      BY DEF WhiteIsCovered, Watched, White, Black, Covered, StickyRoots, ScansAged, WillScanAged,
             PendingCard
    <3> QED
      BY <3>1, <3>2, <3>3, <3>4, <3>5
  <2> QED
    BY <2>1, <2>2
<1> QED
  BY <1>1, InitInv, PTL DEF Spec

\* The collector never frees an object a mutator, a global reference or a field still refers to:
\* mark_sweep.cc with its card ageing, pre-cleaning, pause and sweep, full and sticky.
THEOREM NoObjectInUseIsFreed == Spec => []NoDanglingReference
<1>1. IInv => NoDanglingReference
  BY DEF IInv
<1> QED
  BY <1>1, MarkingInvariance, PTL
=============================================================================
