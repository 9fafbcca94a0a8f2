------------------------------ MODULE RosAlloc ------------------------------
(***************************************************************************)
(* The runs-of-slots allocator (runtime/gc/allocator/rosalloc.cc) below    *)
(* the RosAlloc space.  Memory is an array of cells, kPageSize of them to  *)
(* a page.  A page is free, part of a large object, or part of a run; a    *)
(* run begins with a header (its bracket and three bit maps) and goes on   *)
(* with equal slots.  Mutators allocate from their thread-local runs       *)
(* without a lock, and from the shared runs and the page map under locks;  *)
(* the collector frees whole lists of slots at once, marking them first in *)
(* a bit map of its own.                                                   *)
(*                                                                         *)
(* The allocator object is the record ros, whose fields have the names of  *)
(* the class's members; its methods are operators from a record to a       *)
(* record.  A critical section of a size bracket lock is one step: the     *)
(* bit maps and run sets of a bracket are only written under its lock, and *)
(* the page map under lock_, which is taken inside it.  Steps of their own *)
(* are what the code does outside the locks: the allocation from a         *)
(* thread-local run, the marking of the bulk free bit maps, and the        *)
(* reading of the page map by ReleasePages.  The build is the one without  *)
(* kIsDebugBuild, so there are no full_runs_ and no magic numbers.         *)
(***************************************************************************)
EXTENDS Integers, FiniteSets, FiniteSetsExt

CONSTANTS
    Thread,             \* the mutators
    kPageSize,          \* cells of a page
    kBitsPerVec,        \* bits of a word of a bit map
    fixed_header_size,  \* cells of a header before its bit maps
    bracketSizes,       \* [0 .. n-1 -> cells of a slot]
    numOfPages,         \* [0 .. n-1 -> pages of a run]
    kNumThreadLocalSizeBrackets,
    LargeObjectPages,   \* the sizes, in pages, of the large objects asked for
    MorecoreStart, InitialSize, MaxCapacity,   \* pages
    GrowIncrement,      \* 2 * MB, in pages
    page_release_mode, page_release_size_threshold,
    MaxBulk             \* bound: the pointers of one BulkFree

Bracket == DOMAIN bracketSizes

ThreadLocalBracket == {i \in Bracket : i < kNumThreadLocalSizeBrackets}

CeilDiv(a, b) == (a + b - 1) \div b

(* Initialize(): the bit maps take a cell per word, and the header is      *)
(* rounded up to whole slots.                                              *)
UnalignedHeader(s) == fixed_header_size + 3 * CeilDiv(s, kBitsPerVec)

AlignedHeader(i, s) == CeilDiv(UnalignedHeader(s), bracketSizes[i]) * bracketSizes[i]

RunSize(i) == kPageSize * numOfPages[i]

numOfSlots == [i \in Bracket |->
    Max({s \in 0 .. RunSize(i) \div bracketSizes[i] :
            bracketSizes[i] * s + AlignedHeader(i, s) <= RunSize(i)})]

headerSizes == [i \in Bracket |->
    AlignedHeader(i, numOfSlots[i]) + (RunSize(i) % bracketSizes[i])]

\* The CHECKs at the end of Initialize(): every bracket has slots, and they
\* fill the run after its header.
ASSUME LayoutAssumption ==
    \A i \in Bracket :
        /\ numOfSlots[i] > 0
        /\ headerSizes[i] + numOfSlots[i] * bracketSizes[i] = RunSize(i)

Page == 0 .. MaxCapacity - 1

NumberOfBitmapVectors(i) == CeilDiv(numOfSlots[i], kBitsPerVec)

AllBits(i) == 0 .. NumberOfBitmapVectors(i) * kBitsPerVec - 1

InvalidSlots(i) == AllBits(i) \ (0 .. numOfSlots[i] - 1)

FullRun == -1          \* dedicated_full_run_

NoRun == [size_bracket_idx |-> 0, is_thread_local |-> FALSE, first_search |-> 0,
          alloc |-> {}, bulk |-> {}, tl |-> {}]

VARIABLES
    ros,            \* the RosAlloc object, its run headers and the memory
    rosalloc_runs,  \* [Thread -> [ThreadLocalBracket -> Page \cup {FullRun}]]
    refilling,      \* [Thread -> the bracket whose run the thread found full, or -1]
    objects,        \* what has been handed out and not freed: [at, size] in cells
    gc,             \* the collector: its phase, pointers still to mark, runs still to merge
    release         \* ReleasePages: the page it is at, and whether it saw it free

allocator == <<ros, rosalloc_runs, refilling, objects, gc, release>>

Cells(at, size) == at .. at + size - 1

PageCells(p, n) == Cells(p * kPageSize, n * kPageSize)

IsFreePage(r, p) == r.page_map[p] \in {"Released", "Empty"}

(* The size of a free page run, zero for any other page (the code keeps    *)
(* the last size of a page that is not free, and never reads it).          *)
EndOf(r, p) == p + r.size_map[p]

-----------------------------------------------------------------------------
(* Pages.                                                                  *)

ReleasePageRange(r, p, n) ==
    [r EXCEPT !.page_map = [q \in Page |-> IF q \in p .. p + n - 1 THEN "Released" ELSE @[q]],
              !.dirty = @ \ PageCells(p, n)]

ShouldReleasePages(r, p) ==
    CASE page_release_mode = "SizeAndEnd" ->
            /\ r.size_map[p] >= page_release_size_threshold
            /\ EndOf(r, p) = r.footprint
      [] page_release_mode = "All" -> TRUE

TakePages(r, p, n, type, part) ==
    LET remainder == r.size_map[p] - n
    IN  [r EXCEPT
            !.free_page_runs = (@ \ {p}) \cup (IF remainder > 0 THEN {p + n} ELSE {}),
            !.size_map = [q \in Page |-> CASE q = p -> 0
                                           [] q = p + n /\ remainder > 0 -> remainder
                                           [] OTHER -> @[q]],
            !.page_map = [q \in Page |-> CASE q = p -> type
                                           [] q \in p + 1 .. p + n - 1 -> part
                                           [] OTHER -> @[q]]]

\* The free page run that ends where the footprint ends, if there is one.
LastRun(r) == {p \in r.free_page_runs : EndOf(r, p) = r.footprint}

LastRunSize(r) == IF LastRun(r) = {} THEN 0 ELSE r.size_map[Max(LastRun(r))]

GrowFootprint(r, n) ==
    LET increment == Min({Max({GrowIncrement, n - LastRunSize(r)}), r.capacity - r.footprint})
        last == IF LastRun(r) = {} THEN r.footprint ELSE Max(LastRun(r))
    IN  [r EXCEPT !.free_page_runs = @ \cup {last},
                  !.size_map[last] = LastRunSize(r) + increment,
                  !.footprint = @ + increment]

(* AllocPages(): the lowest free page run that is large enough, or the     *)
(* last one after growing the footprint; at is FullRun when it fails.      *)
AllocPages(r, n, type, part) ==
    LET fits == {p \in r.free_page_runs : n <= r.size_map[p]}
        grown == GrowFootprint(r, n)
    IN  IF fits # {} THEN [ros |-> TakePages(r, Min(fits), n, type, part), at |-> Min(fits)]
        ELSE IF r.capacity > r.footprint /\ r.capacity - r.footprint + LastRunSize(r) >= n
             THEN [ros |-> TakePages(grown, Max(grown.free_page_runs), n, type, part),
                   at |-> Max(grown.free_page_runs)]
             ELSE [ros |-> r, at |-> FullRun]

PartType(type) == IF type = "Run" THEN "RunPart" ELSE "LargeObjectPart"

\* The pages from p on that the page map says are one run or large object.
PagesAt(r, p) ==
    LET ends == {q \in p + 1 .. r.footprint - 1 : r.page_map[q] # PartType(r.page_map[p])}
    IN  (IF ends = {} THEN r.footprint ELSE Min(ends)) - p

(* FreePages(): zero the pages, coalesce them with the free page runs that *)
(* adjoin them above and below, and release the result to the system.      *)
FreePages(r, p, already_zero) ==
    LET n == PagesAt(r, p)
        zeroed == [r EXCEPT
            !.page_map = [q \in Page |-> IF q \in p .. p + n - 1 THEN "Empty" ELSE @[q]],
            !.dirty = IF ~already_zero /\ page_release_mode # "All"
                      THEN @ \ PageCells(p, n) ELSE @]
        higher == {q \in r.free_page_runs : q = p + n}
        lower == {q \in r.free_page_runs : EndOf(r, q) = p}
        at == Min({p} \cup lower)
        size == (p - at) + n + (IF higher = {} THEN 0 ELSE r.size_map[p + n])
        freed == [zeroed EXCEPT
            !.free_page_runs = (@ \ higher) \cup {at},
            !.size_map = [q \in Page |-> CASE q = at -> size [] q \in higher -> 0 [] OTHER -> @[q]]]
    IN  IF ShouldReleasePages(freed, at) THEN ReleasePageRange(freed, at, size) ELSE freed

-----------------------------------------------------------------------------
(* Runs.                                                                   *)

IsFull(run) == run.alloc = AllBits(run.size_bracket_idx)

IsAllFree(run) == run.alloc = InvalidSlots(run.size_bracket_idx)

SlotAddr(r, p, s) ==
    LET i == r.run[p].size_bracket_idx
    IN  p * kPageSize + headerSizes[i] + s * bracketSizes[i]

SlotOf(r, p, at) ==
    LET i == r.run[p].size_bracket_idx
    IN  (at - (p * kPageSize + headerSizes[i])) \div bracketSizes[i]

(* AllocSlot(): the first free bit from the word the run searches first;   *)
(* slot is -1 when the run is full.                                        *)
AllocSlot(run) ==
    LET i == run.size_bracket_idx
        free == {s \in AllBits(i) \ run.alloc : s \div kBitsPerVec >= run.first_search}
    IN  IF free = {}
        THEN [run |-> [run EXCEPT !.first_search = NumberOfBitmapVectors(i) - 1], slot |-> -1]
        ELSE [run |-> [run EXCEPT !.alloc = @ \cup {Min(free)},
                                  !.first_search = Min(free) \div kBitsPerVec],
              slot |-> Min(free)]

ClearBits(run, bits) ==
    [run EXCEPT !.alloc = @ \ bits,
                !.first_search = Min({@} \cup {s \div kBitsPerVec : s \in bits})]

MergeThreadLocalFreeBitMapToAllocBitMap(run) == [ClearBits(run, run.tl) EXCEPT !.tl = {}]

MergeBulkFreeBitMapIntoAllocBitMap(run) == [ClearBits(run, run.bulk) EXCEPT !.bulk = {}]

UnionBulkFreeBitMapToThreadLocalFreeBitMap(run) ==
    [run EXCEPT !.tl = @ \cup run.bulk, !.bulk = {}]

\* Set the header of the run at p, and note which of its cells are zero.
SetRun(r, p, run) == [r EXCEPT !.run[p] = run]

ZeroHeader(r, p) ==
    [r EXCEPT !.run[p] = NoRun,
              !.dirty = @ \ Cells(p * kPageSize, headerSizes[r.run[p].size_bracket_idx])]

FreeRun(r, p) == FreePages(ZeroHeader(r, p), p, TRUE)

AllocRun(r, i) ==
    LET pages == AllocPages(r, numOfPages[i], "Run", "RunPart")
        p == pages.at
    IN  IF p = FullRun THEN pages
        ELSE [ros |-> [SetRun(pages.ros, p, [NoRun EXCEPT !.size_bracket_idx = i,
                                                          !.alloc = InvalidSlots(i)])
                       EXCEPT !.dirty = @ \cup Cells(p * kPageSize, headerSizes[i])],
              at |-> p]

RefillRun(r, i) ==
    IF r.non_full_runs[i] # {}
    THEN [ros |-> [r EXCEPT !.non_full_runs[i] = @ \ {Min(@)}], at |-> Min(r.non_full_runs[i])]
    ELSE AllocRun(r, i)

RevokeRun(r, i, p) ==
    IF IsFull(r.run[p]) THEN r
    ELSE IF IsAllFree(r.run[p]) THEN FreeRun(r, p)
    ELSE [r EXCEPT !.non_full_runs[i] = @ \cup {p}]

-----------------------------------------------------------------------------
(* The initial state: the constructor, and CreateRosAlloc's                *)
(* SetFootprintLimit.                                                      *)

AllocatorInit ==
    /\ ros = [page_map |-> [p \in Page |-> "Released"],
              size_map |-> [p \in Page |-> IF p = 0 THEN MorecoreStart ELSE 0],
              free_page_runs |-> {0},
              footprint |-> MorecoreStart, capacity |-> InitialSize,
              current_runs |-> [i \in Bracket |-> FullRun],
              non_full_runs |-> [i \in Bracket |-> {}],
              run |-> [p \in Page |-> NoRun],
              dirty |-> {}]
    /\ rosalloc_runs = [t \in Thread |-> [i \in ThreadLocalBracket |-> FullRun]]
    /\ refilling = [t \in Thread |-> -1]
    /\ objects = {}
    /\ gc = [phase |-> "idle", ptrs |-> {}, runs |-> {}]
    /\ release = [at |-> MaxCapacity, saw |-> FALSE]

WorldStopped == gc.phase \in {"revoke", "copy", "revoke_again"}

BulkFreeLocked == gc.phase \in {"mark", "merge"}

\* The state r with an object handed out at the given address and written to.
HandOut(r, at, size) ==
    /\ ros' = [r EXCEPT !.dirty = @ \cup Cells(at, size)]
    /\ objects' = objects \cup {[at |-> at, size |-> size]}

-----------------------------------------------------------------------------
(* Allocation.                                                             *)

CanAllocate(t) == ~WorldStopped /\ refilling[t] = -1

(* AllocFromRun() with a thread-local run, before it takes a lock: a slot  *)
(* of the run, or the run is full.                                         *)
AllocFromThreadLocalRun(t, i) ==
    LET p == rosalloc_runs[t][i]
        slot == AllocSlot(ros.run[p])
    IN  /\ CanAllocate(t)
        /\ IF p # FullRun /\ slot.slot # -1
           THEN /\ HandOut(SetRun(ros, p, slot.run), SlotAddr(ros, p, slot.slot), bracketSizes[i])
                /\ UNCHANGED refilling
           ELSE /\ refilling' = [refilling EXCEPT ![t] = i]
                /\ ros' = IF p = FullRun THEN ros ELSE SetRun(ros, p, slot.run)
                /\ UNCHANGED objects
        /\ UNCHANGED <<rosalloc_runs, gc, release>>

(* AllocFromRun() under the bracket lock: take the slots freed in the full *)
(* run, or leave it and take another run.                                  *)
RefillThreadLocalRun(t) ==
    LET i == refilling[t]
        p == rosalloc_runs[t][i]
        kept == SetRun(ros, p, MergeThreadLocalFreeBitMapToAllocBitMap(ros.run[p]))
        left == IF p = FullRun THEN ros
                ELSE SetRun(ros, p, [ros.run[p] EXCEPT !.is_thread_local = FALSE])
        refill == IF p # FullRun /\ ros.run[p].tl # {} THEN [ros |-> kept, at |-> p]
                  ELSE RefillRun(left, i)
        slot == AllocSlot([refill.ros.run[refill.at] EXCEPT !.is_thread_local = TRUE])
    IN  /\ i # -1
        /\ refilling' = [refilling EXCEPT ![t] = -1]
        /\ rosalloc_runs' = [rosalloc_runs EXCEPT ![t][i] = refill.at]
        /\ IF refill.at = FullRun THEN ros' = refill.ros /\ UNCHANGED objects
           ELSE HandOut(SetRun(refill.ros, refill.at, slot.run),
                        SlotAddr(refill.ros, refill.at, slot.slot), bracketSizes[i])
        /\ UNCHANGED <<gc, release>>

AllocFromCurrentRunUnlocked(i) ==
    LET p == ros.current_runs[i]
        full == p = FullRun \/ AllocSlot(ros.run[p]).slot = -1
        refill == IF full THEN RefillRun(ros, i) ELSE [ros |-> ros, at |-> p]
        current == [refill.ros EXCEPT !.current_runs[i] = refill.at]
        slot == AllocSlot(refill.ros.run[refill.at])
    IN  IF refill.at = FullRun THEN ros' = current /\ UNCHANGED objects
        ELSE HandOut(SetRun(current, refill.at, slot.run),
                     SlotAddr(current, refill.at, slot.slot), bracketSizes[i])

\* AllocFromRun() in a bracket without thread-local runs.
AllocFromCurrentRun(t, i) ==
    /\ CanAllocate(t)
    /\ AllocFromCurrentRunUnlocked(i)
    /\ UNCHANGED <<rosalloc_runs, refilling, gc, release>>

\* The collector copies an object into the space while the mutators are suspended.
AllocFromRunThreadUnsafe(i) ==
    /\ gc.phase = "copy"
    /\ AllocFromCurrentRunUnlocked(i)
    /\ UNCHANGED <<rosalloc_runs, refilling, gc, release>>

AllocLargeObject(t, n) ==
    LET pages == AllocPages(ros, n, "LargeObject", "LargeObjectPart")
    IN  /\ CanAllocate(t)
        /\ pages.at # FullRun
        /\ HandOut(pages.ros, pages.at * kPageSize, n * kPageSize)
        /\ UNCHANGED <<rosalloc_runs, refilling, gc, release>>

(* SetFootprintLimit(): the limit only grows, so when AllocWithGrowth      *)
(* raises it to the size of the space and puts it back, it stays raised.   *)
SetFootprintLimit(n) ==
    /\ ros.capacity < n
    /\ ros' = [ros EXCEPT !.capacity = n]
    /\ UNCHANGED <<rosalloc_runs, refilling, objects, gc, release>>

-----------------------------------------------------------------------------
(* Freeing.                                                                *)

\* The run a pointer is in: the nearest page at or below it that begins a run.
RunOf(r, at) == Max({p \in 0 .. at \div kPageSize : r.page_map[p] = "Run"})

IsLargeObject(r, at) == r.page_map[at \div kPageSize] = "LargeObject"

\* A run that is not thread-local and has just got free slots.
FreeFromRun(r, o, p) ==
    LET s == SlotOf(r, p, o.at)
        i == r.run[p].size_bracket_idx
        wiped == [r EXCEPT !.dirty = @ \ Cells(o.at, o.size)]
        freed == SetRun(wiped, p, ClearBits(r.run[p], {s}))
        empty == [freed EXCEPT !.non_full_runs[i] = @ \ {p},
                               !.current_runs[i] = IF @ = p THEN FullRun ELSE @]
    IN  IF r.run[p].is_thread_local
        THEN SetRun(wiped, p, [r.run[p] EXCEPT !.tl = @ \cup {s}])
        ELSE IF IsAllFree(freed.run[p]) THEN FreeRun(empty, p)
        ELSE IF p # r.current_runs[i] THEN [freed EXCEPT !.non_full_runs[i] = @ \cup {p}]
        ELSE freed

(* Free(), a reader of bulk_free_lock_.  The run of an object cannot       *)
(* change while the object is in it, so finding it and freeing from it,    *)
(* two critical sections, are one step.                                    *)
Free(t, o) ==
    /\ CanAllocate(t) /\ ~BulkFreeLocked
    /\ ros' = IF IsLargeObject(ros, o.at) THEN FreePages(ros, o.at \div kPageSize, FALSE)
              ELSE FreeFromRun(ros, o, RunOf(ros, o.at))
    /\ objects' = objects \ {o}
    /\ UNCHANGED <<rosalloc_runs, refilling, gc, release>>

\* BulkFree() takes bulk_free_lock_ for writing.
BulkFree(ptrs) ==
    /\ gc.phase = "idle"
    /\ gc' = [phase |-> "mark", ptrs |-> ptrs, runs |-> {}]
    /\ UNCHANGED <<ros, rosalloc_runs, refilling, objects, release>>

(* One pointer of the list: its run is found in the page map without a     *)
(* lock, and its slot is marked in the bulk free bit map without a lock.   *)
MarkBulkFree(o) ==
    LET p == RunOf(ros, o.at)
        wiped == [ros EXCEPT !.dirty = @ \ Cells(o.at, o.size)]
        large == IsLargeObject(ros, o.at)
        runs == IF large THEN gc.runs ELSE gc.runs \cup {p}
    IN  /\ gc.phase = "mark"
        /\ ros' = IF large THEN FreePages(ros, o.at \div kPageSize, FALSE)
                  ELSE SetRun(wiped, p, [ros.run[p] EXCEPT !.bulk = @ \cup {SlotOf(ros, p, o.at)}])
        /\ objects' = objects \ {o}
        /\ gc' = [phase |-> IF gc.ptrs # {o} THEN "mark" ELSE IF runs # {} THEN "merge" ELSE "idle",
                  ptrs |-> gc.ptrs \ {o}, runs |-> runs]
        /\ UNCHANGED <<rosalloc_runs, refilling, release>>

\* Mutant of BulkFreeRun: a run that was full is not listed again.
BulkFreeRunUnlisted(r, p) ==
    LET run == r.run[p]
        i == run.size_bracket_idx
        merged == SetRun(r, p, MergeBulkFreeBitMapIntoAllocBitMap(run))
    IN  IF run.is_thread_local
        THEN SetRun(r, p, UnionBulkFreeBitMapToThreadLocalFreeBitMap(run))
        ELSE IF p # r.current_runs[i] /\ IsAllFree(merged.run[p])
             THEN FreeRun([merged EXCEPT !.non_full_runs[i] = @ \ {p}], p)
        ELSE merged

\* The second loop of BulkFree(), for one run under its bracket lock.
BulkFreeRun(r, p) ==
    LET run == r.run[p]
        i == run.size_bracket_idx
        merged == SetRun(r, p, MergeBulkFreeBitMapIntoAllocBitMap(run))
    IN  IF run.is_thread_local
        THEN SetRun(r, p, UnionBulkFreeBitMapToThreadLocalFreeBitMap(run))
        ELSE IF p = r.current_runs[i] THEN merged
        ELSE IF IsAllFree(merged.run[p])
             THEN FreeRun(IF IsFull(run) THEN merged ELSE [merged EXCEPT !.non_full_runs[i] = @ \ {p}], p)
        ELSE IF IsFull(run) THEN [merged EXCEPT !.non_full_runs[i] = @ \cup {p}]
        ELSE merged

MergeBulkFree(p) ==
    /\ gc.phase = "merge"
    /\ ros' = BulkFreeRun(ros, p)
    /\ gc' = [gc EXCEPT !.runs = @ \ {p}, !.phase = IF gc.runs = {p} THEN "idle" ELSE "merge"]
    /\ UNCHANGED <<rosalloc_runs, refilling, objects, release>>

RevokeThreadLocalRun(r, t, i) ==
    LET p == rosalloc_runs[t][i]
        run == MergeThreadLocalFreeBitMapToAllocBitMap(r.run[p])
        merged == MergeBulkFreeBitMapIntoAllocBitMap([run EXCEPT !.is_thread_local = FALSE])
    IN  IF p = FullRun THEN r ELSE RevokeRun(SetRun(r, p, merged), i, p)

(* RevokeThreadLocalRuns(), a reader of bulk_free_lock_: by the thread, or *)
(* by the collector for a thread that is suspended and so not allocating.  *)
RevokeThreadLocalRuns(t) ==
    /\ refilling[t] = -1 /\ gc.phase # "copy"
    /\ ~BulkFreeLocked
    /\ \E i \in ThreadLocalBracket : rosalloc_runs[t][i] # FullRun
    /\ ros' = FoldSet(LAMBDA i, r : RevokeThreadLocalRun(r, t, i), ros, ThreadLocalBracket)
    /\ rosalloc_runs' = [rosalloc_runs EXCEPT ![t] = [i \in ThreadLocalBracket |-> FullRun]]
    /\ UNCHANGED <<refilling, objects, gc, release>>

\* The collector suspends the mutators; none of them is in the allocator.
Pause ==
    /\ gc.phase = "idle"
    /\ \A t \in Thread : refilling[t] = -1
    /\ gc' = [gc EXCEPT !.phase = "revoke"]
    /\ UNCHANGED <<ros, rosalloc_runs, refilling, objects, release>>

(* RevokeAllThreadLocalRuns(), done before and after the collector copies  *)
(* objects into the space: when the threads' runs are revoked, revoke the  *)
(* current runs of the thread-local brackets.                              *)
RevokeThreadUnsafeCurrentRuns ==
    LET Revoke(i, r) ==
            IF r.current_runs[i] = FullRun THEN r
            ELSE [RevokeRun(r, i, r.current_runs[i]) EXCEPT !.current_runs[i] = FullRun]
    IN  /\ gc.phase \in {"revoke", "revoke_again"}
        /\ \A t \in Thread : \A i \in ThreadLocalBracket : rosalloc_runs[t][i] = FullRun
        /\ ros' = FoldSet(Revoke, ros, ThreadLocalBracket)
        /\ gc' = [gc EXCEPT !.phase = IF @ = "revoke" THEN "copy" ELSE "idle"]
        /\ UNCHANGED <<rosalloc_runs, refilling, objects, release>>

EndOfCopying ==
    /\ gc.phase = "copy"
    /\ gc' = [gc EXCEPT !.phase = "revoke_again"]
    /\ UNCHANGED <<ros, rosalloc_runs, refilling, objects, release>>

-----------------------------------------------------------------------------
(* Giving memory back.                                                     *)

TrimmedFootprint(r) == IF LastRun(r) = {} THEN r.footprint ELSE Max(LastRun(r))

(* RosAllocSpace::Trim(): drop the free page run at the end, then, unless  *)
(* every free page is released at once, start ReleasePages().              *)
Trim ==
    LET end == TrimmedFootprint(ros)
    IN  /\ release.at = MaxCapacity
        /\ ros' = [ros EXCEPT
               !.free_page_runs = @ \ LastRun(ros),
               !.size_map = [p \in Page |-> IF p \in LastRun(ros) THEN 0 ELSE @[p]],
               !.page_map = [p \in Page |-> IF p >= end THEN "Released" ELSE @[p]],
               !.dirty = @ \ PageCells(end, ros.footprint - end),
               !.footprint = end]
        /\ release' = IF page_release_mode = "All" THEN release ELSE [release EXCEPT !.at = 0]
        /\ UNCHANGED <<rosalloc_runs, refilling, objects, gc>>

\* ReleasePages() reads the page map without the lock.
LookAtPage ==
    /\ release.at < MaxCapacity /\ ~release.saw
    /\ release' = IF release.at >= ros.footprint THEN [release EXCEPT !.at = MaxCapacity]
                  ELSE IF IsFreePage(ros, release.at) THEN [release EXCEPT !.saw = TRUE]
                  ELSE [release EXCEPT !.at = @ + 1]
    /\ UNCHANGED <<ros, rosalloc_runs, refilling, objects, gc>>

\* Mutant: without checking again under the lock.
ReleaseWithoutChecking ==
    LET p == release.at
        n == Max({1, ros.size_map[p]})
    IN  /\ release.saw
        /\ ros' = ReleasePageRange(ros, p, n)
        /\ release' = [at |-> p + n, saw |-> FALSE]
        /\ UNCHANGED <<rosalloc_runs, refilling, objects, gc>>

\* It takes the lock and releases the pages if a free page run still begins there.
ReleaseFreePageRun ==
    LET p == release.at
        still == IsFreePage(ros, p) /\ p \in ros.free_page_runs
    IN  /\ release.saw
        /\ ros' = IF still THEN ReleasePageRange(ros, p, ros.size_map[p]) ELSE ros
        /\ release' = [at |-> IF still THEN EndOf(ros, p) ELSE p + 1, saw |-> FALSE]
        /\ UNCHANGED <<rosalloc_runs, refilling, objects, gc>>

AllocatorNext ==
    \/ \E t \in Thread :
        \/ \E i \in ThreadLocalBracket : AllocFromThreadLocalRun(t, i)
        \/ RefillThreadLocalRun(t)
        \/ \E i \in Bracket \ ThreadLocalBracket : AllocFromCurrentRun(t, i)
        \/ \E n \in LargeObjectPages : AllocLargeObject(t, n)
        \/ \E o \in objects : Free(t, o)
        \/ RevokeThreadLocalRuns(t)
    \/ SetFootprintLimit(MaxCapacity)
    \/ \E n \in 1 .. MaxBulk : \E ptrs \in kSubset(n, objects) : BulkFree(ptrs)
    \/ \E o \in gc.ptrs : MarkBulkFree(o)
    \/ \E p \in gc.runs : MergeBulkFree(p)
    \/ Pause
    \/ RevokeThreadUnsafeCurrentRuns
    \/ \E i \in Bracket : AllocFromRunThreadUnsafe(i)
    \/ EndOfCopying
    \/ Trim
    \/ LookAtPage
    \/ ReleaseFreePageRun

AllocatorSpec == AllocatorInit /\ [][AllocatorNext]_allocator

-----------------------------------------------------------------------------
(* What RosAlloc::Verify() and Run::Verify() check of a quiet allocator.   *)

\* The pages at which something begins, in the order Verify() walks them.
Begins(r) == {p \in 0 .. r.footprint - 1 :
                 p \in r.free_page_runs \/ r.page_map[p] \in {"Run", "LargeObject"}}

PagesFrom(r, p) ==
    IF p \in r.free_page_runs THEN r.size_map[p]
    ELSE IF r.page_map[p] = "Run" THEN numOfPages[r.run[p].size_bracket_idx]
    ELSE PagesAt(r, p)

(* Every page below the footprint is part of exactly one free page run,    *)
(* run or large object, and its entry in the page map says so.             *)
PageMapVerified(r) ==
    LET pages == [b \in Begins(r) |-> b .. b + PagesFrom(r, b) - 1]
    IN  /\ UNION {pages[b] : b \in DOMAIN pages} = 0 .. r.footprint - 1
        /\ \A b, c \in DOMAIN pages : b # c => pages[b] \cap pages[c] = {}
        /\ \A b \in DOMAIN pages : \A p \in pages[b] :
            /\ IsFreePage(r, p) <=> b \in r.free_page_runs
            /\ r.page_map[b] \in {"Run", "LargeObject"} /\ p # b =>
                   r.page_map[p] = PartType(r.page_map[b])

Owners(p) == {<<t, i>> \in Thread \X ThreadLocalBracket : rosalloc_runs[t][i] = p}

RunVerified(r, p) ==
    LET run == r.run[p]
        i == run.size_bracket_idx
    IN  /\ run.bulk = {}
        /\ InvalidSlots(i) \subseteq run.alloc
        /\ \A s \in AllBits(i) : s \div kBitsPerVec < run.first_search => s \in run.alloc
        /\ run.tl \subseteq run.alloc
        /\ IF run.is_thread_local
           THEN Cardinality(Owners(p)) = 1 /\ Owners(p) \subseteq Thread \X {i}
           ELSE /\ run.tl = {} /\ Owners(p) = {}
                /\ \A j \in Bracket \ {i} : r.current_runs[j] # p
                /\ p # r.current_runs[i] =>
                       /\ ~IsAllFree(run)
                       /\ p \in r.non_full_runs[i] <=> ~IsFull(run)

AllRuns(r) == {p \in 0 .. r.footprint - 1 : r.page_map[p] = "Run"}

\* The objects the page map and the bit maps say are there.
Allocated(r) ==
    {[at |-> SlotAddr(r, p, s), size |-> bracketSizes[r.run[p].size_bracket_idx]] :
        <<p, s>> \in UNION {{q} \X (r.run[q].alloc \
                (r.run[q].tl \cup r.run[q].bulk \cup InvalidSlots(r.run[q].size_bracket_idx))) :
            q \in AllRuns(r)}}
    \cup {[at |-> p * kPageSize, size |-> PagesAt(r, p) * kPageSize] :
            p \in {q \in 0 .. r.footprint - 1 : r.page_map[q] = "LargeObject"}}

(* At every moment the allocated slots and pages are exactly the objects   *)
(* handed out and not freed, none of which overlaps another; and whenever  *)
(* no bulk free is under way, the checks of Verify() hold, and no two free *)
(* page runs adjoin.  So no slot is handed out twice or lost, whatever the *)
(* mutators, a bulk free, a revocation and a trim do at the same time.     *)
Verified ==
    /\ objects = Allocated(ros)
    /\ \A o, q \in objects : o # q => Cells(o.at, o.size) \cap Cells(q.at, q.size) = {}
    /\ PageMapVerified(ros)
    /\ \A p \in ros.free_page_runs : EndOf(ros, p) \notin ros.free_page_runs
    /\ gc.phase \notin {"mark", "merge"} => \A p \in AllRuns(ros) : RunVerified(ros, p)

(* The cells that are not zero are exactly those of the objects and of the *)
(* headers of the runs.  So memory that can be handed out is zero, as      *)
(* Alloc() promises its caller and only checks in a debug build; and no    *)
(* object or header is wiped by freeing another object, by a trim, or by   *)
(* ReleasePages, which looks at the page map without the lock.             *)
OnlyUsedMemoryIsWritten ==
    ros.dirty =
        UNION {Cells(o.at, o.size) : o \in objects}
        \cup UNION {Cells(p * kPageSize, headerSizes[ros.run[p].size_bracket_idx]) : p \in AllRuns(ros)}

(* What the page release mode kPageReleaseModeSizeAndEnd is documented to  *)
(* do: the pages of a free page run that is larger than the threshold or   *)
(* at the end of the space are released.                                   *)
LargeOrLastIsReleased ==
    page_release_mode = "SizeAndEnd" =>
        \A p \in ros.free_page_runs :
            (ros.size_map[p] >= page_release_size_threshold \/ EndOf(ros, p) = ros.footprint) =>
                \A q \in p .. EndOf(ros, p) - 1 : ros.page_map[q] = "Released"
=============================================================================
