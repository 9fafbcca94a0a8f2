---------------------------- MODULE SsaLiveness ----------------------------
(***************************************************************************)
(* The liveness analysis of the optimizing compiler                        *)
(* (compiler/optimizing/ssa_liveness_analysis.cc and .h): the linear order *)
(* of the blocks, the lifetime positions, and the ranges and uses of each  *)
(* SSA value.                                                              *)
(*                                                                         *)
(* A program is                                                            *)
(*   [blocks : Seq([succ, pred : Seq(block), phis : Seq([v, in]),          *)
(*                  code : Seq([op, v, in, reg])]),                        *)
(*    loops : set of [header, back, blocks]]                               *)
(* in SSA form.  Values are positive; v = 0 is an instruction without a    *)
(* value.  The entry block is 1.                                           *)
(***************************************************************************)
EXTENDS Integers, SequencesExt

Blocks(prog) == DOMAIN prog.blocks
ValuesOf(prog) ==
    UNION {{phi.v : phi \in ToSet(prog.blocks[b].phis)} : b \in Blocks(prog)}
        \union (UNION {{i.v : i \in ToSet(prog.blocks[b].code)} : b \in Blocks(prog)} \ {0})

(***************************************************************************)
(* LinearizeGraph                                                          *)
(***************************************************************************)
NoLoop == [header |-> 0, back |-> 0, blocks |-> {}]

LoopOf(prog, b) ==
    LET around == {loop \in prog.loops : b \in loop.blocks}
    IN  IF around = {} THEN NoLoop
        ELSE CHOOSE loop \in around : \A other \in around : loop.blocks \subseteq other.blocks

IsIn(loop, other) == loop.header \in other.blocks
IsLoopExit(current, to) == to = NoLoop \/ (current # to /\ IsIn(current, to))
IsInnerLoop(outer, inner) ==
    inner # outer /\ inner # NoLoop /\ outer # NoLoop /\ IsIn(inner, outer)

VisitInOrder(prog, b) ==
    LET succ == prog.blocks[b].succ
        mine == LoopOf(prog, b)
        first == LoopOf(prog, succ[1])
        second == LoopOf(prog, succ[2])
        swapped == \/ IsLoopExit(mine, second) /\ mine = first
                   \/ IsInnerLoop(mine, first) /\ ~IsInnerLoop(mine, second)
    IN  IF Len(succ) < 2 \/ mine = NoLoop THEN succ
        ELSE IF swapped THEN Reverse(succ) ELSE succ

RECURSIVE VisitBlockForLinearization(_, _, _)
VisitBlockForLinearization(prog, acc, b) ==
    LET Visit(to, next) == VisitBlockForLinearization(prog, to, next)
        below == FoldLeft(Visit, [acc EXCEPT !.visited = @ \union {b}], VisitInOrder(prog, b))
    IN  IF b \in acc.visited THEN acc ELSE [below EXCEPT !.order = Append(@, b)]

LinearPostOrder(prog) ==
    VisitBlockForLinearization(prog, [order |-> <<>>, visited |-> {}], 1).order

(***************************************************************************)
(* NumberInstructions: a phi is at the start of its block, instruction i   *)
(* at the start plus 2 * i.                                                *)
(***************************************************************************)
LifetimeStarts(prog, postOrder) ==
    LET Number(acc, b) ==
            [start |-> [acc.start EXCEPT ![b] = acc.position],
             position |-> acc.position + 2 * (Len(prog.blocks[b].code) + 1)]
    IN  FoldLeft(Number, [start |-> [b \in Blocks(prog) |-> 0], position |-> 0],
                 Reverse(postOrder)).start

LifetimeEnd(prog, starts, b) == starts[b] + 2 * (Len(prog.blocks[b].code) + 1)

SsaOrder(prog, postOrder) ==
    LET Of(b) == [i \in DOMAIN prog.blocks[b].phis |-> prog.blocks[b].phis[i].v]
                     \o SelectSeq([i \in DOMAIN prog.blocks[b].code |-> prog.blocks[b].code[i].v],
                                  LAMBDA v : v # 0)
    IN  FoldLeft(LAMBDA all, b : all \o Of(b), <<>>, Reverse(postOrder))

(***************************************************************************)
(* The ranges of an interval, built from the last to the first.            *)
(***************************************************************************)
StartAt(ranges, start) == [ranges EXCEPT ![1][1] = start]

AddRange(ranges, start, end) ==
    IF ranges # <<>> /\ ranges[1][1] = end THEN StartAt(ranges, start)
    ELSE <<<<start, end>>>> \o ranges

AddUseRange(ranges, start, end, position) ==
    IF ranges = <<>> THEN <<<<start, position>>>>
    ELSE IF ranges[1][1] = start THEN ranges
    ELSE IF ranges[1][1] = end THEN StartAt(ranges, start)
    ELSE <<<<start, position>>>> \o ranges

AddLoopRange(ranges, start, end) ==
    LET after == SelectSeq(ranges, LAMBDA range : range[2] >= end)
    IN  IF after = <<>> THEN <<<<start, end>>>> ELSE StartAt(after, start)

SetFrom(ranges, from) ==
    IF ranges = <<>> THEN <<<<from, from + 2>>>> ELSE StartAt(ranges, from)

(***************************************************************************)
(* ComputeLiveRanges                                                       *)
(***************************************************************************)
AddUses(live, b, i, start, end, in) ==
    LET position == start + 2 * i + 1
        AddUse(acc, k) ==
            [acc EXCEPT !.live_in[b] = @ \union {in[k]},
                        !.ranges[in[k]] = AddUseRange(@, start, end, position),
                        !.uses[in[k]] = <<[position |-> position, block |-> b, at |-> i, index |-> k]>> \o @]
    IN  FoldLeft(AddUse, live, [k \in DOMAIN in |-> k])

AddPhiUses(prog, live, b, end) ==
    LET AddPhiUse(index, acc, phi) ==
            [acc EXCEPT !.live_in[b] = @ \union {phi.in[index]},
                        !.uses[phi.in[index]] = <<[position |-> end, block |-> b, at |-> 0, index |-> index]>> \o @]
        FromSuccessor(acc, succ) ==
            LET index == CHOOSE i \in DOMAIN prog.blocks[succ].pred : prog.blocks[succ].pred[i] = b
            IN  FoldLeft(LAMBDA a, phi : AddPhiUse(index, a, phi),
                         [acc EXCEPT !.live_in[b] = @ \union acc.live_in[succ]], prog.blocks[succ].phis)
    IN  FoldLeft(FromSuccessor, live, prog.blocks[b].succ)

Kill(live, b, v, position) ==
    IF v = 0 THEN live
    ELSE [live EXCEPT !.kill[b] = @ \union {v}, !.live_in[b] = @ \ {v}, !.ranges[v] = SetFrom(@, position)]

NothingLive(prog) ==
    LET nothing == [b \in Blocks(prog) |-> {}]
        never == [v \in ValuesOf(prog) |-> <<>>]
    IN  [live_in |-> nothing, kill |-> nothing, ranges |-> never, uses |-> never]

(* One block of ComputeLiveRanges, which visits them in linear post order. *)
ComputeLiveRanges(prog, starts, live, b) ==
    LET start == starts[b]
        end == LifetimeEnd(prog, starts, b)
        code == prog.blocks[b].code
        out == AddPhiUses(prog, live, b, end)
        Cover(v, acc) == [acc EXCEPT !.ranges[v] = AddRange(@, start, end)]
        covered == FoldSet(Cover, out, out.live_in[b])
        Backward(acc, i) == AddUses(Kill(acc, b, code[i].v, start + 2 * i), b, i, start, end, code[i].in)
        body == FoldLeft(Backward, covered, Reverse([i \in DOMAIN code |-> i]))
        phis == FoldLeft(LAMBDA acc, phi : Kill(acc, b, phi.v, start), body, prog.blocks[b].phis)
        headed == {loop \in prog.loops : loop.header = b}
        loopEnd == LifetimeEnd(prog, starts, (CHOOSE loop \in headed : TRUE).back)
        CoverLoop(v, acc) == [acc EXCEPT !.ranges[v] = AddLoopRange(@, start, loopEnd)]
    IN  IF headed = {} THEN phis ELSE FoldSet(CoverLoop, phis, phis.live_in[b])

ComputeLiveInAndLiveOutSets(prog, live) ==
    LET RECURSIVE Grow(_)
        Grow(in) ==
            LET Out(b) == UNION {in[s] : s \in ToSet(prog.blocks[b].succ)}
                more == [b \in Blocks(prog) |-> in[b] \union (Out(b) \ live.kill[b])]
            IN  IF more = in THEN in ELSE Grow(more)
    IN  [live EXCEPT !.live_in = Grow(@)]
=============================================================================
