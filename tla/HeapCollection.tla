--------------------------- MODULE HeapCollection ---------------------------
(***************************************************************************)
(* What decides which collection runs when, and what it may do             *)
(* (runtime/gc/heap.cc): collections, homogeneous space compactions,       *)
(* collector transitions and heap trims exclude each other through         *)
(* collector_type_running_ under gc_complete_lock_; JNI critical sections  *)
(* keep objects from being moved; allocations that fail try all of these.  *)
(*                                                                         *)
(* A section under gc_complete_lock_ is one step, and the wait for a       *)
(* running collection is its guard.  A thread that is not in a waiting     *)
(* state takes no step while another has suspended all.                    *)
(***************************************************************************)
EXTENDS Naturals, Sequences

CONSTANTS
    Thread, Null,
    Does,               \* operations each thread performs
    Foreground,         \* foreground_collector_type_ at the start: "CMS" or "SS"
    Background,         \* background_collector_type_: "CMS", "SS" or "HSC"
    CompactForOom,      \* use_homogeneous_space_compaction_for_oom_
    IgnoreMaxFootprint, \* ignore_max_footprint_
    MaxPlan             \* bound: further collections of gc_plan_ that an allocation tries

\* What the module assumes of its constants.
HeapAssumption ==
    /\ Does \in [Thread -> SUBSET {"alloc", "nonmoving", "collect", "daemon", "critical"}]
    /\ Foreground \in {"CMS", "SS"} /\ Background \in {"CMS", "SS", "HSC"}
    /\ CompactForOom \in BOOLEAN /\ IgnoreMaxFootprint \in BOOLEAN /\ MaxPlan \in Nat

VARIABLES
    heap,               \* the fields of Heap below
    suspender,          \* the thread that has suspended all, or Null
    shutting_down,
    frames,             \* calls each thread is in, innermost first
    failure             \* "none", or what went wrong: "space" is not movable, "allocator" has no space

vars == <<heap, suspender, shutting_down, frames, failure>>

IsMovingGc(type) == type \in {"SS", "HSC"}
IsGcConcurrent == heap.collector_type_ = "CMS"
NewMainSpace(foreground, background) ==
    IF IsMovingGc(background) # IsMovingGc(foreground) \/ CompactForOom THEN "movable" ELSE "fixed"

Init ==
    /\ heap = [collector_type_ |-> Foreground,
               running |-> "None",              \* collector_type_running_
               foreground |-> Foreground, background |-> Background, desired |-> Foreground,
               disable_count |-> 0,             \* disable_moving_gc_count_
               \* "none", "movable", "fixed", or "shared" with the non-moving space
               main_space |-> IF IsMovingGc(Foreground) THEN "none"
                                                        ELSE NewMainSpace(Foreground, Background),
               \* concurrent_start_bytes_ is a threshold, not the largest number
               concurrent_start |-> Foreground = "CMS" /\ ~IgnoreMaxFootprint,
               collected |-> FALSE]             \* last_gc_type_ is not kGcTypeNone
    /\ suspender = Null /\ shutting_down = FALSE
    /\ frames = [t \in Thread |-> <<>>]
    /\ failure = "none"

(***************************************************************************)
(* Calls.  A frame has its program counter, what it was called with, and   *)
(* the result of the call it made last.                                    *)
(***************************************************************************)
Frame(pc, type) ==
    [pc |-> pc, type |-> type, plan |-> 0, res |-> FALSE, cleared |-> FALSE]
Top(t) == frames[t][1]
At(t, pc) == frames[t] # <<>> /\ Top(t).pc = pc /\ failure = "none"
Goto(t, pc) == frames' = [frames EXCEPT ![t][1].pc = pc]
Call(t, f, caller) == frames' = [frames EXCEPT ![t] = <<f, caller>> \o Tail(@)]
Return(t, res) ==
    frames' = [frames EXCEPT ![t] =
        IF Len(@) = 1 THEN <<>> ELSE <<[@[2] EXCEPT !.res = res]>> \o SubSeq(@, 3, Len(@))]

Idle(t, op) == frames[t] = <<>> /\ op \in Does[t] /\ suspender = Null /\ failure = "none"
Begin(t, f) == frames' = [frames EXCEPT ![t] = <<f>>]
Runnable == suspender = Null

\* gc_complete_lock_ is held and no collection runs.
GcComplete == heap.running = "None"

FinishGC(ran) == heap' = [heap EXCEPT !.running = "None", !.collected = @ \/ ran]

(***************************************************************************)
(* CollectGarbageInternal.                                                 *)
(***************************************************************************)
CollectGarbage(t) ==
    /\ Idle(t, "collect")
    /\ Begin(t, Frame("collect", "none"))
    /\ UNCHANGED <<heap, suspender, shutting_down, failure>>

\* Mutant: concurrent collections are disabled before the others are excluded.
CollectGarbageInternalEarly(t) ==
    /\ At(t, "collect")
    /\ \/ /\ heap.concurrent_start /\ IsGcConcurrent
          /\ heap' = [heap EXCEPT !.concurrent_start = FALSE] /\ UNCHANGED frames
       \/ /\ GcComplete
          /\ IF IsMovingGc(heap.collector_type_) /\ heap.disable_count # 0
             THEN Return(t, FALSE) /\ UNCHANGED heap
             ELSE heap' = [heap EXCEPT !.running = heap.collector_type_] /\ Goto(t, "run")
    /\ UNCHANGED <<suspender, shutting_down, failure>>

\* A collection that moves objects is skipped while that is disabled.
CollectGarbageInternal(t) ==
    /\ At(t, "collect") /\ GcComplete
    /\ IF IsMovingGc(heap.collector_type_) /\ heap.disable_count # 0
       THEN Return(t, FALSE) /\ UNCHANGED heap
       ELSE heap' = [heap EXCEPT !.running = heap.collector_type_] /\ Goto(t, "run")
    /\ UNCHANGED <<suspender, shutting_down, failure>>

\* No more requests for a concurrent collection; then the collector runs.
RunCollector(t) ==
    /\ At(t, "run")
    /\ heap' = [heap EXCEPT !.concurrent_start = @ /\ ~IsGcConcurrent]
    /\ Goto(t, IF IsMovingGc(heap.collector_type_) THEN "pause" ELSE "grow")
    /\ UNCHANGED <<suspender, shutting_down, failure>>

Pause(t) ==
    /\ At(t, "pause") /\ suspender = Null
    /\ suspender' = t
    /\ Goto(t, "moving")
    /\ UNCHANGED <<heap, shutting_down, failure>>

Moved(t) ==
    /\ At(t, "moving")
    /\ suspender' = Null
    /\ Goto(t, "grow")
    /\ UNCHANGED <<heap, shutting_down, failure>>

GrowForUtilization(t) ==
    /\ At(t, "grow")
    /\ heap' = [heap EXCEPT !.concurrent_start = @ \/ (IsGcConcurrent /\ ~IgnoreMaxFootprint)]
    /\ Goto(t, "finish")
    /\ UNCHANGED <<suspender, shutting_down, failure>>

Finish(t) ==
    /\ At(t, "finish")
    /\ FinishGC(TRUE)
    /\ Return(t, TRUE)
    /\ UNCHANGED <<suspender, shutting_down, failure>>

(***************************************************************************)
(* PerformHomogeneousSpaceCompact, TransitionCollector, DisableMovingGc    *)
(* and Trim.                                                               *)
(***************************************************************************)
PerformHomogeneousSpaceCompact(t) ==
    /\ At(t, "compact") /\ GcComplete
    /\ IF heap.disable_count # 0 \/ IsMovingGc(heap.collector_type_) \/ heap.main_space # "movable"
       THEN Return(t, FALSE) /\ UNCHANGED heap
       ELSE heap' = [heap EXCEPT !.running = "HSC"] /\ Goto(t, "compactSuspend")
    /\ UNCHANGED <<suspender, shutting_down, failure>>

\* With all suspended, the objects of the main space move; it has to allow that (SemiSpace).
MoveFromMainSpace(t, pc) ==
    IF heap.main_space = "movable"
    THEN suspender' = t /\ Goto(t, pc) /\ UNCHANGED failure
    ELSE failure' = "space" /\ UNCHANGED <<suspender, frames>>

CompactSuspend(t) ==
    /\ At(t, "compactSuspend")
    /\ IF shutting_down
       THEN FinishGC(FALSE) /\ Return(t, FALSE) /\ UNCHANGED <<suspender, failure>>
       ELSE suspender = Null /\ MoveFromMainSpace(t, "moving") /\ UNCHANGED heap
    /\ UNCHANGED shutting_down

TransitionCollector(t) ==
    /\ At(t, "transition")
    /\ IF Top(t).type = heap.collector_type_ THEN Return(t, TRUE) ELSE Goto(t, "transitionWait")
    /\ UNCHANGED <<heap, suspender, shutting_down, failure>>

\* Mutant: the transition does not look at the number of critical sections.
TransitionWaitAlways(t) ==
    /\ At(t, "transitionWait") /\ GcComplete
    /\ LET copying == IsMovingGc(heap.collector_type_) # IsMovingGc(Top(t).type) IN
        IF Top(t).type = heap.collector_type_
        THEN Return(t, TRUE) /\ UNCHANGED heap
        ELSE /\ heap' = [heap EXCEPT !.running = IF copying THEN "SS" ELSE Top(t).type]
             /\ Goto(t, "transitionSuspend")
    /\ UNCHANGED <<suspender, shutting_down, failure>>

\* A transition that moves objects sleeps until that is not disabled.
TransitionWait(t) ==
    /\ At(t, "transitionWait") /\ GcComplete
    /\ LET copying == IsMovingGc(heap.collector_type_) # IsMovingGc(Top(t).type) IN
        IF Top(t).type = heap.collector_type_
        THEN Return(t, TRUE) /\ UNCHANGED heap
        ELSE /\ ~copying \/ heap.disable_count = 0
             /\ heap' = [heap EXCEPT !.running = IF copying THEN "SS" ELSE Top(t).type]
             /\ Goto(t, "transitionSuspend")
    /\ UNCHANGED <<suspender, shutting_down, failure>>

TransitionSuspend(t) ==
    /\ At(t, "transitionSuspend")
    /\ IF shutting_down
       THEN FinishGC(FALSE) /\ Return(t, TRUE) /\ UNCHANGED <<suspender, failure>>
       ELSE /\ suspender = Null
            /\ IF Top(t).type = "SS" THEN MoveFromMainSpace(t, "transitionMove")
               ELSE suspender' = t /\ Goto(t, "transitionMove") /\ UNCHANGED failure
            /\ UNCHANGED heap
    /\ UNCHANGED shutting_down

\* The main space is there for the collectors that do not move objects (ChangeCollector).
TransitionMoved(t) ==
    /\ At(t, "transitionMove")
    /\ heap' = [heap EXCEPT
           !.collector_type_ = Top(t).type,
           !.main_space = IF Top(t).type = "SS" THEN "none" ELSE NewMainSpace(heap.foreground, heap.background),
           !.concurrent_start = Top(t).type = "CMS"]
    /\ suspender' = Null
    /\ Goto(t, "grow")
    /\ UNCHANGED <<shutting_down, failure>>

DisableMovingGc(t) ==
    /\ At(t, "disable") /\ Runnable
    /\ LET foreground == IF IsMovingGc(heap.foreground) THEN "CMS" ELSE heap.foreground IN
        /\ heap' = [heap EXCEPT !.foreground = foreground,
                                !.background = IF IsMovingGc(@) THEN foreground ELSE @]
        /\ Call(t, Frame("transition", foreground), [Top(t) EXCEPT !.pc = "disableSuspend"])
    /\ UNCHANGED <<suspender, shutting_down, failure>>

\* With all suspended, the main space becomes the non-moving space.
DisableSuspend(t) ==
    /\ At(t, "disableSuspend") /\ suspender = Null
    /\ heap' = [heap EXCEPT !.main_space = IF IsMovingGc(heap.collector_type_) THEN @ ELSE "shared"]
    /\ Return(t, TRUE)
    /\ UNCHANGED <<suspender, shutting_down, failure>>

\* A trim, if one is pending, pretends to be a collection.
Trim(t) ==
    /\ At(t, "trim")
    /\ \/ Return(t, TRUE) /\ UNCHANGED heap
       \/ GcComplete /\ heap' = [heap EXCEPT !.running = "HeapTrim"] /\ Goto(t, "trimming")
    /\ UNCHANGED <<suspender, shutting_down, failure>>

Trimmed(t) ==
    /\ At(t, "trimming") /\ Runnable
    /\ FinishGC(FALSE)
    /\ Return(t, TRUE)
    /\ UNCHANGED <<suspender, shutting_down, failure>>

(***************************************************************************)
(* Requests to the daemons.                                                *)
(***************************************************************************)
\* The process moves between the foreground and the background.
UpdateProcessState ==
    /\ \E type \in {heap.foreground, heap.background} : heap' = [heap EXCEPT !.desired = type]
    /\ failure = "none"
    /\ UNCHANGED <<suspender, shutting_down, frames, failure>>

DoPendingTransitionOrTrim(t) ==
    /\ Idle(t, "daemon")
    /\ IF heap.desired = "HSC" THEN Begin(t, Frame("compact", "none"))
       ELSE frames' = [frames EXCEPT ![t] = <<Frame("transition", heap.desired),
                                              Frame("trim", "none")>>]
    /\ UNCHANGED <<heap, suspender, shutting_down, failure>>

\* A request is dropped when a collection has just been waited for.
ConcurrentGC(t) ==
    /\ Idle(t, "daemon") /\ ~shutting_down
    /\ Begin(t, Frame(IF GcComplete THEN "concurrent" ELSE "concurrentWait", "none"))
    /\ UNCHANGED <<heap, suspender, shutting_down, failure>>

ConcurrentWait(t) ==
    /\ At(t, "concurrentWait") /\ GcComplete
    /\ IF heap.collected THEN Return(t, TRUE) ELSE Goto(t, "concurrent")
    /\ UNCHANGED <<heap, suspender, shutting_down, failure>>

\* Other types are tried as long as no collection was run.
ConcurrentCollect(t) ==
    /\ At(t, "concurrent")
    /\ IF Top(t).res \/ Top(t).plan > MaxPlan THEN Return(t, TRUE)
       ELSE Call(t, Frame("collect", "none"), [Top(t) EXCEPT !.plan = @ + 1])
    /\ UNCHANGED <<heap, suspender, shutting_down, failure>>

ShutDown ==
    /\ ~shutting_down /\ shutting_down' = TRUE
    /\ UNCHANGED <<heap, suspender, frames, failure>>

(***************************************************************************)
(* JNI critical sections (GetPrimitiveArrayCritical and its release).      *)
(***************************************************************************)
IsMovableObject == heap.main_space \in {"none", "movable"}

GetCritical(t) ==
    /\ Idle(t, "critical")
    /\ Begin(t, Frame(IF IsMovableObject THEN "increment" ELSE "critical", "none"))
    /\ UNCHANGED <<heap, suspender, shutting_down, failure>>

\* The thread is in a waiting state from here on until the section begins.
IncrementDisableMovingGC(t) ==
    /\ At(t, "increment")
    /\ heap' = [heap EXCEPT !.disable_count = @ + 1]
    /\ Goto(t, IF IsMovingGc(heap.running) THEN "incrementWait" ELSE "incremented")
    /\ UNCHANGED <<suspender, shutting_down, failure>>

IncrementWait(t) ==
    /\ At(t, "incrementWait") /\ GcComplete
    /\ Goto(t, "incremented")
    /\ UNCHANGED <<heap, suspender, shutting_down, failure>>

BeginCritical(t) ==
    /\ At(t, "incremented") /\ Runnable
    /\ Goto(t, "critical")
    /\ UNCHANGED <<heap, suspender, shutting_down, failure>>

ReleaseCritical(t) ==
    /\ At(t, "critical") /\ Runnable
    /\ heap' = [heap EXCEPT !.disable_count = IF IsMovableObject THEN @ - 1 ELSE @]
    /\ Return(t, TRUE)
    /\ UNCHANGED <<suspender, shutting_down, failure>>

(***************************************************************************)
(* AllocateInternalWithGc: the frame's type is the allocator.              *)
(***************************************************************************)
CurrentAllocator == IF IsMovingGc(heap.collector_type_) THEN "bump" ELSE "ros"
AllocatorChanged(t) == Top(t).type # "nonmoving" /\ Top(t).type # CurrentAllocator
Collect == Frame("collect", "none")

Alloc(t) ==
    /\ \/ Idle(t, "alloc") /\ Begin(t, Frame("allocWait", CurrentAllocator))
       \/ Idle(t, "nonmoving") /\ Begin(t, Frame("allocWait", "nonmoving"))
    /\ UNCHANGED <<heap, suspender, shutting_down, failure>>

\* Nothing has been collected for an allocation that did not have to wait.
AllocWait(t) ==
    /\ At(t, "allocWait")
    /\ IF GcComplete THEN Call(t, Collect, [Top(t) EXCEPT !.pc = "allocCollected"])
                     ELSE Goto(t, "allocWaiting")
    /\ UNCHANGED <<heap, suspender, shutting_down, failure>>

AllocWaiting(t) ==
    /\ At(t, "allocWaiting") /\ GcComplete
    /\ IF heap.collected THEN Goto(t, "allocWaited")
                         ELSE Call(t, Collect, [Top(t) EXCEPT !.pc = "allocCollected"])
    /\ UNCHANGED <<heap, suspender, shutting_down, failure>>

AllocWaited(t) ==
    /\ At(t, "allocWaited") /\ Runnable
    /\ \/ Return(t, TRUE)
       \/ ~AllocatorChanged(t) /\ Call(t, Collect, [Top(t) EXCEPT !.pc = "allocCollected"])
    /\ UNCHANGED <<heap, suspender, shutting_down, failure>>

\* The other types of the plan, then the heap may grow, then soft references go.
AllocCollected(t) ==
    /\ At(t, "allocCollected") /\ Runnable
    /\ \/ (Top(t).res \/ AllocatorChanged(t) \/ Top(t).plan = MaxPlan) /\ Return(t, TRUE)
       \/ /\ ~AllocatorChanged(t) /\ Top(t).plan < MaxPlan
          /\ Call(t, Collect, [Top(t) EXCEPT !.plan = @ + 1])
       \/ /\ ~AllocatorChanged(t) /\ Top(t).plan = MaxPlan
          /\ Call(t, Collect, [Top(t) EXCEPT !.pc = "allocSoft"])
    /\ UNCHANGED <<heap, suspender, shutting_down, failure>>

AllocSoft(t) ==
    /\ At(t, "allocSoft") /\ Runnable
    /\ LET caller == [Top(t) EXCEPT !.cleared = Top(t).res] IN
        \/ Return(t, TRUE)
        \/ /\ ~AllocatorChanged(t) /\ Top(t).type = "ros" /\ CompactForOom
           /\ Call(t, Frame("compact", "none"), [caller EXCEPT !.pc = "allocCompacted"])
        \/ /\ Top(t).type = "nonmoving"
           /\ Call(t, Frame("disable", "none"), [caller EXCEPT !.pc = "allocDisabled"])
        \/ /\ ~AllocatorChanged(t)
           /\ frames' = [frames EXCEPT ![t][1] = [caller EXCEPT !.pc = "oom"]]
    /\ UNCHANGED <<heap, suspender, shutting_down, failure>>

\* After a compaction, the allocation from the main space is tried again.
AllocCompacted(t) ==
    /\ At(t, "allocCompacted") /\ Runnable
    /\ IF Top(t).res /\ heap.main_space = "none"
       THEN failure' = "allocator" /\ UNCHANGED frames
       ELSE ((Top(t).res /\ Return(t, TRUE)) \/ Goto(t, "oom")) /\ UNCHANGED failure
    /\ UNCHANGED <<heap, suspender, shutting_down>>

AllocDisabled(t) ==
    /\ At(t, "allocDisabled") /\ Runnable
    /\ \/ ~IsMovingGc(heap.collector_type_) /\ Return(t, TRUE)
       \/ Goto(t, "oom")
    /\ UNCHANGED <<heap, suspender, shutting_down, failure>>

ThrowOutOfMemoryError(t) ==
    /\ At(t, "oom") /\ Return(t, FALSE)
    /\ UNCHANGED <<heap, suspender, shutting_down, failure>>

Next ==
    \/ UpdateProcessState \/ ShutDown
    \/ \E t \in Thread :
        \/ CollectGarbage(t) \/ CollectGarbageInternal(t) \/ RunCollector(t) \/ Pause(t) \/ Moved(t)
        \/ GrowForUtilization(t) \/ Finish(t)
        \/ PerformHomogeneousSpaceCompact(t) \/ CompactSuspend(t)
        \/ TransitionCollector(t) \/ TransitionWait(t) \/ TransitionSuspend(t) \/ TransitionMoved(t)
        \/ DisableMovingGc(t) \/ DisableSuspend(t) \/ Trim(t) \/ Trimmed(t)
        \/ DoPendingTransitionOrTrim(t) \/ ConcurrentGC(t) \/ ConcurrentWait(t) \/ ConcurrentCollect(t)
        \/ GetCritical(t) \/ IncrementDisableMovingGC(t) \/ IncrementWait(t) \/ BeginCritical(t)
        \/ ReleaseCritical(t)
        \/ Alloc(t) \/ AllocWait(t) \/ AllocWaiting(t) \/ AllocWaited(t) \/ AllocCollected(t)
        \/ AllocSoft(t) \/ AllocCompacted(t) \/ AllocDisabled(t) \/ ThrowOutOfMemoryError(t)

Spec == Init /\ [][Next]_vars

(***************************************************************************)
(* Properties.                                                             *)
(***************************************************************************)
\* While a thread is in a JNI critical section nothing moves objects: not a collection, not a
\* compaction and not a transition, even one that was on its way when the section was entered
\* (IncrementDisableMovingGC counts, then waits for a running one).
CriticalNotMoved ==
    \A t, u \in Thread : At(t, "critical") => ~At(u, "moving") /\ ~At(u, "transitionMove")

\* With a concurrent collector and no collection running, concurrent_start_bytes_ is a threshold,
\* unless the maximum footprint is ignored: concurrent collections are never disabled for good
\* (CollectGarbageInternal, GrowForUtilization, ChangeCollector).
ConcurrentGcEnabled ==
    GcComplete /\ IsGcConcurrent /\ ~IgnoreMaxFootprint => heap.concurrent_start

\* The objects of a space that is being compacted may be moved, as SemiSpace asserts.
MovableSpace == failure # "space"

\* An allocation that went through a suspension is tried with an allocator that is still there.
AllocatorThere == failure # "allocator"

\* Soft references have been cleared before an allocation throws OutOfMemoryError.
SoftReferencesCleared == \A t \in Thread : At(t, "oom") => Top(t).cleared
=============================================================================
