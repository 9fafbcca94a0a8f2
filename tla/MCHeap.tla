------------------------------- MODULE MCHeap -------------------------------
(***************************************************************************)
(* The heap for TLC: what one collection does to the objects (MarkSweep),  *)
(* and the memory of the objects (RosAlloc).  part says which of them      *)
(* moves in a behaviour; the other stays as it is at first.  Objects and   *)
(* mutators are interchangeable.                                           *)
(***************************************************************************)
EXTENDS MarkSweep, RosAlloc, TLC

VARIABLE part

\* Two brackets: runs of one page with two slots in two words of a bit map,
\* which threads own, and runs of two pages with two slots, which they share.
MCBracketSizes == [i \in 0 .. 1 |-> IF i = 0 THEN 1 ELSE 4]
MCNumOfPages == [i \in 0 .. 1 |-> i + 1]

\* Bound: in the allocator a bulk free of several objects and ReleasePages
\* happen while no thread has runs of its own, and the two do not meet.
LittleAtOnce ==
    LET owners == {t \in Thread : refilling[t] # -1 \/ \E i \in ThreadLocalBracket :
                                      rosalloc_runs[t][i] # FullRun}
    IN  /\ Cardinality(gc.ptrs) > 1 => owners = {}
        /\ release.at < MaxCapacity => owners = {} /\ Cardinality(gc.ptrs) <= 1

Symm == Permutations(Object) \cup Permutations(Mutator) \cup Permutations(Thread)

HeapInit ==
    /\ part \in {"mark_sweep", "allocator"}
    /\ Init
    /\ IF part = "allocator" THEN AllocatorInit
       ELSE /\ ros = <<>> /\ rosalloc_runs = <<>> /\ refilling = <<>> /\ objects = <<>>
            /\ gc = <<>> /\ release = <<>>
HeapNext ==
    /\ part' = part
    /\ \/ part = "mark_sweep" /\ Next /\ UNCHANGED allocator
       \/ part = "allocator" /\ AllocatorNext /\ LittleAtOnce' /\ UNCHANGED vars
HeapSpec == HeapInit /\ [][HeapNext]_<<part, vars, allocator>>

\* RosAlloc!Verified: no slot is handed out twice or lost.
SlotsVerified == part = "allocator" => Verified

\* RosAlloc!OnlyUsedMemoryIsWritten: memory that can be handed out is zero, and
\* no object or header is wiped.
FreeMemoryIsZero == part = "allocator" => OnlyUsedMemoryIsWritten
=============================================================================
