------------------------- MODULE RegisterAllocator -------------------------
(***************************************************************************)
(* The linear scan register allocator of the optimizing compiler           *)
(* (compiler/optimizing/register_allocator.cc), with the locations that    *)
(* the x86 code generator asks for, for 32-bit values.  Afterwards the     *)
(* program is run with the locations and the moves that Resolve gave it.   *)
(*                                                                         *)
(* Instructions are "param" (in register reg, or on the stack when reg is  *)
(* 0), "const", "add" (the first input in a register, the output in the    *)
(* same), "cond" (the first input in a register; the branch that follows   *)
(* reads its inputs), "if", "goto", "return" (the input in register 1) and *)
(* "exit".                                                                 *)
(***************************************************************************)
EXTENDS SsaLiveness

CONSTANTS
    Programs,           \* the programs, as SsaLiveness describes them
    R                   \* number of registers that are not blocked

\* One instruction may need a register for its input and another for its output.
ASSUME RegisterAllocatorAssumption == R \in Nat /\ R >= 2

VARIABLES
    prog,
    order,              \* the blocks in linear post order
    live,               \* ranges and uses of each value, live_in of each block
    starts,             \* lifetime start of each block
    intervals,          \* the live intervals, by index
    unhandled, active, inactive,
    slots,              \* spill_slots_: where each slot's interval ends
    code,               \* each block with the parallel moves that Resolve inserts
    locs,               \* the location of each input and output
    phase,
    pc,                 \* the block run, or the index of the step in its phase
    held, right         \* while running: the values in each location, whether all inputs were found

scan == <<intervals, unhandled, active, inactive, slots>>
vars == <<prog, order, live, starts, scan, code, locs, phase, pc, held, right>>

kMaxLifetimePosition == 1000
kNoLifetime == -1
kNoRegister == 0
NoSlot == <<>>

Registers == 1..R
Reg(r) == <<"reg", r>>
Slot(s) == <<"slot", s>>
ParamSlot(v) == <<"param", v>>
Const(v) == <<"const", v>>

DefinedBy(v) ==
    LET found == {i \in UNION {ToSet(prog.blocks[b].code) : b \in Blocks(prog)} : i.v = v}
    IN  IF found = {} THEN [op |-> "phi", v |-> v] ELSE CHOOSE i \in found : TRUE
RequiresRegister(op, index) == op \in {"add", "cond"} /\ index = 1
OutRequiresRegister(v) == DefinedBy(v).op = "add"

(***************************************************************************)
(* LiveInterval                                                            *)
(***************************************************************************)
Start(interval) == interval.ranges[1][1]
End(interval) == Last(interval.ranges)[2]
IsDeadAt(interval, position) == End(interval) <= position
Covers(interval, position) ==
    \E range \in ToSet(interval.ranges) : range[1] <= position /\ position < range[2]

FirstIntersection(one, other) ==
    LET both == {<<a, b>> \in ToSet(one.ranges) \X ToSet(other.ranges) : a[1] < b[2] /\ b[1] < a[2]}
    IN  IF both = {} THEN kNoLifetime ELSE Min({Max({p[1][1], p[2][1]}) : p \in both})

FirstRegisterUseAfter(id, interval, position) ==
    LET uses == {use \in ToSet(live.uses[interval.v]) :
                    /\ position <= use.position /\ use.position <= End(interval) /\ use.at # 0
                    /\ RequiresRegister(prog.blocks[use.block].code[use.at].op, use.index)}
    IN  IF position = Start(interval) /\ interval.parent = id /\ OutRequiresRegister(interval.v)
        THEN position
        ELSE IF uses = {} THEN kNoLifetime ELSE Min({use.position : use \in uses})

SplitAt(ivs, id, position) ==
    LET old == ivs[id]
        Before(range) == range[1] < position
        After(range) == range[2] > position
        first == SelectSeq(old.ranges, Before)
        rest == SelectSeq(old.ranges, After)
    IN  Append([ivs EXCEPT ![id].ranges = [first EXCEPT ![Len(first)][2] = Min({@, position})],
                           ![id].next = Len(ivs) + 1],
               [old EXCEPT !.ranges = StartAt(rest, Max({rest[1][1], position})), !.reg = kNoRegister,
                           !.slot = NoSlot])

(* Split returns the intervals and the interval that starts at position. *)
Split(ivs, id, position) ==
    IF position = Start(ivs[id]) THEN [ivs |-> [ivs EXCEPT ![id].reg = kNoRegister], id |-> id]
    ELSE [ivs |-> SplitAt(ivs, id, position), id |-> Len(ivs) + 1]

AddToUnhandled(ivs, list, id) ==
    LET after == {i \in DOMAIN list : Start(ivs[list[i]]) >= Start(ivs[id])}
    IN  InsertAt(list, IF after = {} THEN 1 ELSE Max(after) + 1, id)

(***************************************************************************)
(* AllocateRegistersInternal: the intervals, with one for each register    *)
(* that an instruction fixes.                                              *)
(***************************************************************************)
NewInterval(v, ranges, id) ==
    [v |-> v, ranges |-> ranges, next |-> 0, parent |-> id, reg |-> kNoRegister, slot |-> NoSlot,
     fixed |-> FALSE]

BlockRegister(acc, reg, position) ==
    LET known == {i \in DOMAIN acc.ivs : acc.ivs[i].fixed /\ acc.ivs[i].reg = reg}
        new == [NewInterval(0, <<<<position, position + 1>>>>, 0) EXCEPT !.reg = reg, !.fixed = TRUE]
    IN  IF known = {}
        THEN [acc EXCEPT !.ivs = Append(@, new), !.inactive = Append(@, Len(acc.ivs) + 1)]
        ELSE [acc EXCEPT !.ivs[Min(known)].ranges = AddRange(@, position, position + 1)]

AddInterval(acc, id) ==
    LET interval == acc.ivs[id]
        def == DefinedBy(interval.v)
        slotted == IF def.op = "param" THEN [acc EXCEPT !.ivs[id].slot = ParamSlot(interval.v)] ELSE acc
        use == FirstRegisterUseAfter(id, interval, Start(interval))
        split == Split(slotted.ivs, id, use - 1)
        position == Start(interval)
    IN  IF def.op = "param" /\ def.reg # 0
        THEN LET blocked == BlockRegister(acc, def.reg, position)
             IN  [blocked EXCEPT !.ivs[id].ranges = StartAt(@, position + 1), !.ivs[id].reg = def.reg,
                                 !.inactive = Append(@, id)]
        ELSE IF def.op \in {"param", "const"}
        THEN IF use = kNoLifetime THEN slotted
             ELSE [slotted EXCEPT !.ivs = split.ivs,
                                  !.unhandled = AddToUnhandled(split.ivs, @, split.id)]
        ELSE [acc EXCEPT !.unhandled = Append(@, id)]

AllocateRegistersInternal(values) ==
    LET ivs == FoldLeft(LAMBDA made, v : Append(made, NewInterval(v, live.ranges[v], Len(made) + 1)),
                        <<>>, values)
    IN  FoldLeft(AddInterval, [ivs |-> ivs, unhandled |-> <<>>, inactive |-> <<>>],
                 Reverse([id \in DOMAIN values |-> id]))

Init ==
    /\ prog \in Programs
    /\ order = <<>> /\ live = <<>> /\ starts = <<>> /\ intervals = <<>> /\ unhandled = <<>> /\ active = <<>>
    /\ inactive = <<>> /\ slots = <<>> /\ code = <<>> /\ locs = <<>> /\ held = <<>>
    /\ phase = "ssa" /\ pc = 1 /\ right = TRUE

Linearize ==
    /\ phase = "ssa" /\ phase' = "linear"
    /\ order' = LinearPostOrder(prog) /\ starts' = LifetimeStarts(prog, order')
    /\ live' = NothingLive(prog)
    /\ UNCHANGED <<prog, scan, code, locs, pc, held, right>>

VisitBlock ==
    /\ phase = "linear" /\ pc <= Len(order)
    /\ live' = ComputeLiveRanges(prog, starts, live, order[pc]) /\ pc' = pc + 1
    /\ UNCHANGED <<prog, order, starts, scan, code, locs, phase, held, right>>

LiveSets ==
    /\ phase = "linear" /\ pc > Len(order) /\ phase' = "analyzed" /\ pc' = 1
    /\ live' = ComputeLiveInAndLiveOutSets(prog, live)
    /\ UNCHANGED <<prog, order, starts, scan, code, locs, held, right>>

CreateIntervals ==
    /\ phase = "analyzed" /\ phase' = "scanning"
    /\ LET made == AllocateRegistersInternal(SsaOrder(prog, order))
       IN  intervals' = made.ivs /\ unhandled' = made.unhandled /\ inactive' = made.inactive
    /\ UNCHANGED <<prog, order, live, starts, active, slots, code, locs, pc, held, right>>

(***************************************************************************)
(* AllocateSpillSlotFor: the slot is the parent's, for its whole lifetime. *)
(***************************************************************************)
EndOfSiblings(ivs, id) ==
    LET RECURSIVE LastOf(_)
        LastOf(i) == IF ivs[i].next = 0 THEN i ELSE LastOf(ivs[i].next)
    IN  End(ivs[LastOf(id)])

AllocateOneSpillSlot(s, parent, end) ==
    LET free == {i \in DOMAIN s.slots : s.slots[i] <= Start(s.ivs[parent])}
        slot == IF free = {} THEN Len(s.slots) + 1 ELSE Min(free)
    IN  [s EXCEPT !.slots = IF free = {} THEN Append(@, end) ELSE [@ EXCEPT ![slot] = end],
                  !.ivs[parent].slot = Slot(slot)]

AllocateSpillSlotFor(s, id) ==
    LET parent == s.ivs[id].parent
        op == DefinedBy(s.ivs[id].v).op
    IN  IF s.ivs[parent].slot # NoSlot \/ op = "const" THEN s
        ELSE IF op = "param" THEN [s EXCEPT !.ivs[parent].slot = ParamSlot(s.ivs[id].v)]
        ELSE AllocateOneSpillSlot(s, parent, EndOfSiblings(s.ivs, id))

(***************************************************************************)
(* LinearScan                                                              *)
(***************************************************************************)
FirstOfHighest(until) == CHOOSE r \in Registers :
    /\ \A other \in Registers : until[other] <= until[r]
    /\ \A other \in 1..(r - 1) : until[other] < until[r]

FreeUntil(s, current) ==
    LET Inactive(until, id) ==
            LET next == FirstIntersection(s.ivs[id], s.ivs[current])
            IN  IF next = kNoLifetime THEN until ELSE [until EXCEPT ![s.ivs[id].reg] = next]
        Active(until, id) == [until EXCEPT ![s.ivs[id].reg] = 0]
    IN  FoldLeft(Active,
                 FoldLeft(Inactive, [r \in Registers |-> kMaxLifetimePosition], s.inactive), s.active)

TakeFreeReg(s, current, reg, until) ==
    LET taken == [s EXCEPT !.ivs[current].reg = reg, !.active = Append(@, current)]
        split == Split(taken.ivs, current, until)
    IN  IF IsDeadAt(s.ivs[current], until) THEN taken
        ELSE [taken EXCEPT !.ivs = split.ivs, !.unhandled = AddToUnhandled(split.ivs, @, split.id)]

NextUse(s, current) ==
    LET start == Start(s.ivs[current])
        UseOf(id) == FirstRegisterUseAfter(id, s.ivs[id], start)
        Active(next, id) ==
            IF s.ivs[id].fixed THEN [next EXCEPT ![s.ivs[id].reg] = start]
            ELSE IF UseOf(id) = kNoLifetime THEN next
            ELSE [next EXCEPT ![s.ivs[id].reg] = UseOf(id)]
        Inactive(next, id) ==
            LET meets == FirstIntersection(s.ivs[id], s.ivs[current])
                use == IF s.ivs[id].fixed THEN meets ELSE UseOf(id)
            IN  IF meets = kNoLifetime \/ use = kNoLifetime THEN next
                ELSE [next EXCEPT ![s.ivs[id].reg] = Min({use, @})]
    IN  FoldLeft(Inactive,
                 FoldLeft(Active, [r \in Registers |-> kMaxLifetimePosition], s.active), s.inactive)

SpillActive(s, current, reg) ==
    LET holders == {i \in DOMAIN s.active : s.ivs[s.active[i]].reg = reg}
        split == Split(s.ivs, s.active[Min(holders)], Start(s.ivs[current]))
    IN  IF holders = {} THEN s
        ELSE [s EXCEPT !.active = RemoveAt(@, Min(holders)), !.ivs = split.ivs,
                       !.unhandled = AddToUnhandled(split.ivs, @, split.id)]

SpillInactive(current, reg, s, id) ==
    LET meets == FirstIntersection(s.ivs[id], s.ivs[current])
        split == IF s.ivs[id].fixed THEN Split(s.ivs, current, meets)
                 ELSE Split(s.ivs, id, Start(s.ivs[current]))
    IN  IF s.ivs[id].reg # reg \/ meets = kNoLifetime THEN s
        ELSE [s EXCEPT !.inactive = IF s.ivs[id].fixed THEN @ ELSE SelectSeq(@, LAMBDA i : i # id),
                       !.ivs = split.ivs, !.unhandled = AddToUnhandled(split.ivs, @, split.id)]

AllocateBlockedReg(s, current) ==
    LET use == FirstRegisterUseAfter(current, s.ivs[current], Start(s.ivs[current]))
        next == NextUse(s, current)
        reg == FirstOfHighest(next)
        spilled == AllocateSpillSlotFor(s, current)
        split == Split(spilled.ivs, current, use - 1)
        evicted == SpillActive([s EXCEPT !.ivs[current].reg = reg], current, reg)
        SpillEach(t, id) == SpillInactive(current, reg, t, id)
    IN  IF use = kNoLifetime THEN spilled
        ELSE IF use >= next[reg]
        THEN [spilled EXCEPT !.ivs = split.ivs, !.unhandled = AddToUnhandled(split.ivs, @, split.id)]
        ELSE [FoldLeft(SpillEach, evicted, evicted.inactive) EXCEPT !.active = Append(@, current)]

(* Intervals that end leave the lists, those in a lifetime hole are inactive. *)
Advance(s, position) ==
    LET IsLive(id) == ~IsDeadAt(s.ivs[id], position)
        Here(id) == IsLive(id) /\ Covers(s.ivs[id], position)
        Hole(id) == IsLive(id) /\ ~Covers(s.ivs[id], position)
        waiting == s.inactive \o SelectSeq(s.active, Hole)
    IN  [s EXCEPT !.active = SelectSeq(s.active, Here) \o SelectSeq(waiting, Here),
                  !.inactive = SelectSeq(waiting, Hole)]

LinearScan ==
    /\ phase = "scanning" /\ unhandled # <<>>
    /\ LET current == Last(unhandled)
           s == Advance([ivs |-> intervals, unhandled |-> Front(unhandled), active |-> active,
                         inactive |-> inactive, slots |-> slots], Start(intervals[current]))
           until == FreeUntil(s, current)
           reg == FirstOfHighest(until)
           done == IF until[reg] # 0 THEN TakeFreeReg(s, current, reg, until[reg])
                   ELSE AllocateBlockedReg(s, current)
       IN  /\ intervals' = done.ivs /\ unhandled' = done.unhandled /\ active' = done.active
           /\ inactive' = done.inactive /\ slots' = done.slots
    /\ UNCHANGED <<prog, order, live, starts, code, locs, phase, pc, held, right>>

(***************************************************************************)
(* Inserting moves.  An item of a block is an instruction or a parallel    *)
(* move, which has the lifetime position that tells its kind: 0 for input  *)
(* moves.                                                                  *)
(***************************************************************************)
kInputMoveLifetimePosition == 0
IsMoveAt(items, n, position) ==
    n \in DOMAIN items /\ items[n].at = 0 /\ items[n].position = position
IsMove(items, n) == n \in DOMAIN items /\ items[n].at = 0
IndexOfInstruction(items, i) == CHOOSE n \in DOMAIN items : items[n].at = i

AddMove(items, n, source, destination) ==
    [items EXCEPT ![n].moves = Append(@, <<source, destination>>)]
InsertMove(items, n, position, source, destination) ==
    InsertAt(items, n, [at |-> 0, position |-> position, moves |-> <<<<source, destination>>>>])

AddInputMoveFor(items, i, source, destination) ==
    LET n == IndexOfInstruction(items, i)
    IN  IF source = destination THEN items
        ELSE IF IsMoveAt(items, n - 1, kInputMoveLifetimePosition)
        THEN AddMove(items, n - 1, source, destination)
        ELSE InsertMove(items, n, kInputMoveLifetimePosition, source, destination)

InsertParallelMoveAt(blocks, position, source, destination) ==
    LET b == CHOOSE c \in Blocks(prog) : starts[c] <= position /\ position < LifetimeEnd(prog, starts, c)
        i == (position - starts[b]) \div 2
        n == IndexOfInstruction(blocks[b], i)
        sibling == IF IsMove(blocks[b], n - 1) /\ ~IsMoveAt(blocks[b], n - 1, position) THEN n - 2 ELSE n - 1
    IN  IF source = destination \/ i = 0 THEN blocks
        ELSE [blocks EXCEPT ![b] =
                 IF position % 2 = 1
                 THEN IF IsMoveAt(@, n + 1, position) THEN AddMove(@, n + 1, source, destination)
                      ELSE InsertMove(@, n + 1, position, source, destination)
                 ELSE IF IsMove(@, sibling) THEN AddMove(@, sibling, source, destination)
                      ELSE InsertMove(@, n, position, source, destination)]

InsertParallelMoveAtExitOf(blocks, b, source, destination) ==
    LET end == LifetimeEnd(prog, starts, b)
        n == Len(blocks[b])
    IN  IF source = destination THEN blocks
        ELSE [blocks EXCEPT ![b] =
                 IF IsMoveAt(@, n - 1, end) THEN AddMove(@, n - 1, source, destination)
                 ELSE InsertMove(@, n, end, source, destination)]

InsertParallelMoveAtEntryOf(blocks, b, source, destination) ==
    IF source = destination THEN blocks
    ELSE [blocks EXCEPT ![b] =
             IF IsMoveAt(@, 1, starts[b]) THEN AddMove(@, 1, source, destination)
             ELSE InsertMove(@, 1, starts[b], source, destination)]

InsertMoveAfter(blocks, v, source, destination) ==
    LET phiBlocks == {b \in Blocks(prog) : \E phi \in ToSet(prog.blocks[b].phis) : phi.v = v}
        b == CHOOSE c \in Blocks(prog) : \E i \in ToSet(prog.blocks[c].code) : i.v = v
        i == CHOOSE k \in DOMAIN prog.blocks[b].code : prog.blocks[b].code[k].v = v
        n == IndexOfInstruction(blocks[b], i) + 1
        position == starts[b] + 2 * i + 1
    IN  IF source = destination THEN blocks
        ELSE IF phiBlocks # {}
        THEN InsertParallelMoveAtEntryOf(blocks, CHOOSE c \in phiBlocks : TRUE, source, destination)
        ELSE [blocks EXCEPT ![b] =
                 IF IsMoveAt(@, n, position) THEN AddMove(@, n, source, destination)
                 ELSE InsertMove(@, n, position, source, destination)]

(***************************************************************************)
(* Resolve                                                                 *)
(***************************************************************************)
ConvertToLocation(id) ==
    IF intervals[id].reg # kNoRegister THEN Reg(intervals[id].reg)
    ELSE IF DefinedBy(intervals[id].v).op = "const" THEN Const(intervals[id].v)
    ELSE intervals[intervals[id].parent].slot

Siblings(id) ==
    LET RECURSIVE From(_)
        From(i) == IF i = 0 THEN <<>> ELSE <<i>> \o From(intervals[i].next)
    IN  From(id)

IntervalOf(v) == CHOOSE id \in DOMAIN intervals : intervals[id].v = v /\ intervals[id].parent = id

Unallocated == <<>>
ExpectedLocation(instruction, k) ==
    CASE instruction.op = "return" -> Reg(1)
      [] instruction.op = "add" /\ k = 1 -> ConvertToLocation(IntervalOf(instruction.v))
      [] OTHER -> Unallocated

UpdateUse(acc, use, source) ==
    IF use.at = 0 THEN acc
    ELSE IF acc.in[use.block][use.at][use.index] = Unallocated
    THEN [acc EXCEPT !.in[use.block][use.at][use.index] = source]
    ELSE [acc EXCEPT !.blocks[use.block] =
             AddInputMoveFor(@, use.at, source, acc.in[use.block][use.at][use.index])]

ConnectSiblings(acc, id) ==
    LET siblings == Siblings(id)
        eager == intervals[id].slot # NoSlot /\ intervals[id].reg # kNoRegister
        spilled == IF eager THEN [acc EXCEPT !.blocks = InsertMoveAfter(@, intervals[id].v,
                                      Reg(intervals[id].reg), intervals[id].slot)]
                   ELSE acc
        From(n) == IF n = 1 THEN kNoLifetime ELSE End(intervals[siblings[n - 1]])
        UsesOf(n) == SelectSeq(live.uses[intervals[id].v],
                               LAMBDA use : From(n) < use.position /\ use.position <= End(intervals[siblings[n]]))
        Connect(a, n) ==
            LET source == ConvertToLocation(siblings[n])
                used == FoldLeft(LAMBDA t, use : UpdateUse(t, use, source), a, UsesOf(n))
                adjacent == /\ n < Len(siblings) /\ intervals[siblings[n + 1]].reg # kNoRegister
                            /\ End(intervals[siblings[n]]) = Start(intervals[siblings[n + 1]])
            IN  IF adjacent
                THEN [used EXCEPT !.blocks = InsertParallelMoveAt(@, End(intervals[siblings[n]]), source,
                                                 ConvertToLocation(siblings[n + 1]))]
                ELSE used
    IN  FoldLeft(Connect, spilled, [n \in DOMAIN siblings |-> n])

SiblingAt(id, position) == CHOOSE s \in ToSet(Siblings(id)) : Covers(intervals[s], position)

\* Mutant: the parts of a split interval are only connected inside a block
ConnectInsideBlocks(blocks, id, from, to) == blocks

ConnectSplitSiblings(blocks, id, from, to) ==
    LET source == SiblingAt(id, LifetimeEnd(prog, starts, from) - 1)
        destination == SiblingAt(id, starts[to])
    IN  IF intervals[id].next = 0 \/ source = destination \/ intervals[destination].reg = kNoRegister
        THEN blocks
        ELSE IF Len(prog.blocks[from].succ) = 1
        THEN InsertParallelMoveAtExitOf(blocks, from, ConvertToLocation(source), ConvertToLocation(destination))
        ELSE InsertParallelMoveAtEntryOf(blocks, to, ConvertToLocation(source), ConvertToLocation(destination))

Parents == [id \in 1..Cardinality(ValuesOf(prog)) |-> id]

LiveInEdges ==
    LET Ids(b) == SelectSeq(Parents, LAMBDA id : intervals[id].v \in live.live_in[b])
        EdgesOf(b, id) == [p \in DOMAIN prog.blocks[b].pred |-> <<id, prog.blocks[b].pred[p], b>>]
        Into(b) == FlattenSeq([k \in DOMAIN Ids(b) |-> EdgesOf(b, Ids(b)[k])])
    IN  FlattenSeq([n \in DOMAIN order |-> Into(Reverse(order)[n])])

PhiEdges ==
    LET EdgesOf(b, phi) == [p \in DOMAIN phi.in |-> <<phi.v, phi.in[p], prog.blocks[b].pred[p]>>]
        Into(b) == FlattenSeq([k \in DOMAIN prog.blocks[b].phis |-> EdgesOf(b, prog.blocks[b].phis[k])])
    IN  FlattenSeq([n \in DOMAIN order |-> Into(Reverse(order)[n])])

ResolvePhi(blocks, edge) ==
    LET last == LifetimeEnd(prog, starts, edge[3]) - 2
    IN  InsertParallelMoveAtExitOf(blocks, edge[3], ConvertToLocation(SiblingAt(IntervalOf(edge[2]), last)),
                                   ConvertToLocation(IntervalOf(edge[1])))

(* Where the calling convention passes a parameter. *)
ParamLocation(v) == IF DefinedBy(v).reg # 0 THEN Reg(DefinedBy(v).reg) ELSE ParamSlot(v)

(* Resolve, one interval, edge or phi input at a time.  A parameter keeps the
   location it is passed in, every other value takes that of its interval. *)
BeginResolve ==
    /\ phase = "scanning" /\ unhandled = <<>> /\ phase' = "siblings"
    /\ LET Item(b, i) == [at |-> i, position |-> starts[b] + 2 * i, moves |-> <<>>]
           Inputs(instruction) == [k \in DOMAIN instruction.in |-> ExpectedLocation(instruction, k)]
       IN  /\ code' = [b \in Blocks(prog) |-> [i \in DOMAIN prog.blocks[b].code |-> Item(b, i)]]
           /\ locs' = [in |-> [b \in Blocks(prog) |->
                                 [i \in DOMAIN prog.blocks[b].code |-> Inputs(prog.blocks[b].code[i])]],
                       out |-> [v \in ValuesOf(prog) |->
                                  IF DefinedBy(v).op = "param" THEN ParamLocation(v)
                                  ELSE ConvertToLocation(IntervalOf(v))]]
    /\ UNCHANGED <<prog, order, live, starts, scan, pc, held, right>>

ResolveSiblings ==
    /\ phase = "siblings" /\ pc <= Len(Parents) /\ pc' = pc + 1
    /\ LET connected == ConnectSiblings([blocks |-> code, in |-> locs.in], pc)
       IN  code' = connected.blocks /\ locs' = [locs EXCEPT !.in = connected.in]
    /\ UNCHANGED <<prog, order, live, starts, scan, phase, held, right>>

ResolveEdge ==
    /\ phase = "edges" /\ pc <= Len(LiveInEdges) /\ pc' = pc + 1
    /\ LET edge == LiveInEdges[pc]
       IN  code' = ConnectSplitSiblings(code, edge[1], edge[2], edge[3])
    /\ UNCHANGED <<prog, order, live, starts, scan, locs, phase, held, right>>

ResolvePhiInput ==
    /\ phase = "phis" /\ pc <= Len(PhiEdges) /\ pc' = pc + 1
    /\ code' = ResolvePhi(code, PhiEdges[pc])
    /\ UNCHANGED <<prog, order, live, starts, scan, locs, phase, held, right>>

NextResolve ==
    /\ \/ phase = "siblings" /\ pc > Len(Parents) /\ phase' = "edges"
       \/ phase = "edges" /\ pc > Len(LiveInEdges) /\ phase' = "phis"
       \/ phase = "phis" /\ pc > Len(PhiEdges) /\ phase' = "resolved"
    /\ pc' = 1 /\ UNCHANGED <<prog, order, live, starts, scan, code, locs, held, right>>

(***************************************************************************)
(* Running the program, a block at a time.  A value that is computed again *)
(* is a new value.  A condition is evaluated by the branch that follows.   *)
(***************************************************************************)
Holds(where, location) ==
    IF location \in DOMAIN where THEN where[location]
    ELSE IF location # NoSlot /\ location[1] = "const" THEN {location[2]} ELSE {}

ParallelMove(where, moves) ==
    LET Sources(l) == {Holds(where, m[1]) : m \in {n \in ToSet(moves) : n[2] = l}}
    IN  [l \in DOMAIN where |-> IF Sources(l) = {} THEN where[l]
                                ELSE {v \in UNION Sources(l) : \A source \in Sources(l) : v \in source}]

Defined(where, v) == [l \in DOMAIN where |-> IF l = locs.out[v] THEN {v} ELSE where[l] \ {v}]

InPlace(where, b, i) ==
    LET in == prog.blocks[b].code[i].in
    IN  \A k \in DOMAIN in : in[k] \in Holds(where, locs.in[b][i][k])

Allocated(v) == ConvertToLocation(IntervalOf(v))

RunItem(b, acc, item) ==
    IF item.at = 0 THEN [acc EXCEPT !.held = ParallelMove(@, item.moves)]
    ELSE LET i == prog.blocks[b].code[item.at]
         IN  CASE i.op = "add" -> [held |-> Defined(acc.held, i.v),
                                   right |-> acc.right /\ InPlace(acc.held, b, item.at)]
               [] i.op = "return" -> [acc EXCEPT !.right = @ /\ InPlace(acc.held, b, item.at)]
               [] i.op = "if" -> [acc EXCEPT !.right = @ /\ InPlace(acc.held, b, item.at - 1)]
               [] i.op = "param" -> [acc EXCEPT !.right = @ /\ i.v \in Holds(acc.held, Allocated(i.v))]
               [] OTHER -> acc

EnteredFrom(where, b, from) ==
    LET phis == ToSet(prog.blocks[b].phis)
        p == CHOOSE i \in DOMAIN prog.blocks[b].pred : prog.blocks[b].pred[i] = from
    IN  [l \in DOMAIN where |-> (where[l] \ {phi.v : phi \in phis})
                                    \union {phi.v : phi \in {q \in phis : q.in[p] \in where[l]}}]

Enter ==
    /\ phase = "resolved" /\ phase' = "running"
    /\ LET Params == {v \in ValuesOf(prog) : DefinedBy(v).op = "param"}
       IN  held' = [l \in {Reg(r) : r \in Registers} \union {Slot(n) : n \in DOMAIN slots}
                              \union {ParamSlot(v) : v \in Params} |-> {v \in Params : locs.out[v] = l}]
    /\ UNCHANGED <<prog, order, live, starts, scan, code, locs, pc, right>>

RunBlock ==
    /\ phase = "running"
    /\ LET run == FoldLeft(LAMBDA acc, item : RunItem(pc, acc, item),
                           [held |-> held, right |-> right], code[pc])
       IN  /\ right' = run.right
           /\ \E b \in ToSet(prog.blocks[pc].succ) : pc' = b /\ held' = EnteredFrom(run.held, b, pc)
    /\ UNCHANGED <<prog, order, live, starts, scan, code, locs, phase>>

Next ==
    \/ Linearize \/ VisitBlock \/ LiveSets \/ CreateIntervals \/ LinearScan
    \/ BeginResolve \/ ResolveSiblings \/ ResolveEdge \/ ResolvePhiInput \/ NextResolve
    \/ Enter \/ RunBlock

Spec == Init /\ [][Next]_vars

-----------------------------------------------------------------------------
(* When the program runs, every instruction finds its inputs in the locations
   that the allocator gave them, on every path: no value is overwritten while
   it is still needed, and the moves at splits, block boundaries and phis
   carry each value to where it is expected (LinearScan, Resolve). *)
InputsInPlace == right
=============================================================================
