---------------------------- MODULE ControlFlow ----------------------------
(***************************************************************************)
(* The control-flow graph of a method in the optimizing compiler           *)
(* (compiler/optimizing/nodes.cc): back edges, dead blocks, the graph's    *)
(* simplification, the dominator tree and the natural loops, for every     *)
(* graph that HGraphBuilder makes of a given number of blocks.             *)
(*                                                                         *)
(* Blocks are numbered in the order of the code; 1 is the entry block, and *)
(* the exit block comes last.  0 is a null pointer.                        *)
(***************************************************************************)
EXTENDS Integers, SequencesExt

CONSTANT N              \* number of blocks between the entry and the exit block

\* What the module assumes of its constant.
ControlFlowAssumption == N \in Nat \ {0}

VARIABLES
    graph,              \* the graph, by block
    built,              \* the successors as they were built
    visited,            \* the blocks that FindBackEdges has visited
    next,               \* the next block to simplify
    phase

vars == <<graph, built, visited, next, phase>>

Entry == 1
Exit == N + 2

(***************************************************************************)
(* HGraphBuilder: a block goes to one block, returns, or branches to a     *)
(* block or the next one.  Blocks begin where branches go and after them.  *)
(***************************************************************************)
ReachableFrom(succ, from, without) ==
    LET RECURSIVE Grow(_)
        Grow(set) ==
            LET more == set \union (UNION {ToSet(succ[b]) : b \in set} \ without)
            IN  IF more = set THEN set ELSE Grow(more)
    IN  Grow(from \ without)

Ends(b) ==
    {<<Exit>>} \union {<<target>> : target \in 2..(N + 1)}
        \union {<<target, b + 1>> : target \in IF b = N + 1 THEN {} ELSE 2..(N + 1)}

CanBuild(succ) ==
    \A b \in 2..N : succ[b] = <<Exit>> => \E from \in DOMAIN succ : Contains(succ[from], b + 1)

AddBlock(g) ==
    [g EXCEPT !.succ = Append(@, <<>>), !.pred = Append(@, <<>>), !.back = Append(@, <<>>),
              !.dom = Append(@, 0), !.loop = Append(@, 0)]

AddSuccessor(g, b, to) ==
    [g EXCEPT !.succ[b] = Append(@, to), !.pred[to] = Append(@, b)]

NoBlocks == [succ |-> <<>>, pred |-> <<>>, back |-> <<>>, dom |-> <<>>, loop |-> <<>>,
             rpo |-> <<>>, blocks |-> <<>>, natural |-> TRUE]

BuildGraph(succ) ==
    LET empty == FoldLeft(LAMBDA g, b : AddBlock(g), NoBlocks, succ)
        Edges(g, b) == FoldLeft(LAMBDA h, to : AddSuccessor(h, b, to), g, succ[b])
    IN  FoldLeftDomain(Edges, empty, succ)

Init ==
    /\ built = <<<<2>>>> /\ graph = NoBlocks
    /\ visited = {} /\ next = 1 /\ phase = "building"

BuildBlock ==
    /\ phase = "building" /\ Len(built) <= N
    /\ \E end \in Ends(Len(built) + 1) : built' = Append(built, end)
    /\ UNCHANGED <<graph, visited, next, phase>>

BuildExit ==
    /\ phase = "building" /\ Len(built) = N + 1 /\ phase' = "built"
    /\ built' = Append(built, <<>>)
    /\ CanBuild(built')
    /\ graph' = BuildGraph(built')
    /\ UNCHANGED <<visited, next>>

(***************************************************************************)
(* GrowableArray::Delete deletes the last element if it does not find the  *)
(* one it is to delete.                                                    *)
(***************************************************************************)
Delete(seq, e) ==
    LET i == SelectInSeq(seq, LAMBDA x : x = e) IN RemoveAt(seq, IF i = 0 THEN Len(seq) ELSE i)

RemovePredecessor(g, b, from) == [g EXCEPT !.pred[b] = Delete(@, from)]

ReplaceSuccessor(g, b, existing, new) ==
    LET i == SelectInSeq(g.succ[b], LAMBDA x : x = existing) IN
        [RemovePredecessor(g, existing, b) EXCEPT !.pred[new] = Append(@, b), !.succ[b][i] = new]

IsLoopHeader(g, b) == g.back[b] # <<>>

(***************************************************************************)
(* Back edges and dead blocks.                                             *)
(***************************************************************************)
RECURSIVE VisitBlockForBackEdges(_, _)
VisitBlockForBackEdges(b, s) ==
    LET Edge(t, successor) ==
            IF successor \in t.visiting
            THEN [t EXCEPT !.graph.back[successor] = Append(@, b)]
            ELSE VisitBlockForBackEdges(successor, t)
        entered == [s EXCEPT !.visited = @ \union {b}, !.visiting = @ \union {b}]
    IN  IF b \in s.visited THEN s
        ELSE [FoldLeft(Edge, entered, s.graph.succ[b]) EXCEPT !.visiting = @ \ {b}]

FindBackEdges ==
    /\ phase = "built" /\ phase' = "found"
    /\ LET s == VisitBlockForBackEdges(Entry, [graph |-> graph, visited |-> {}, visiting |-> {}]) IN
        graph' = s.graph /\ visited' = s.visited
    /\ UNCHANGED <<built, next>>

\* A dead block is no longer a predecessor, but keeps its successors.
RemoveDeadBlocks ==
    /\ phase = "found" /\ phase' = "simplifying"
    /\ LET Dead(g, b) ==
                IF b \in visited THEN g
                ELSE FoldLeft(LAMBDA h, to : RemovePredecessor(h, to, b), g, g.succ[b])
       IN  graph' = FoldLeftDomain(Dead, graph, graph.succ)
    /\ UNCHANGED <<built, visited, next>>

(***************************************************************************)
(* SimplifyCFG, one block at a time.                                       *)
(***************************************************************************)
SplitCriticalEdge(g, b, successor) ==
    LET new == Len(g.succ) + 1
        h == AddSuccessor(ReplaceSuccessor(AddBlock(g), b, successor, new), new, successor)
    IN  IF Contains(g.back[successor], b)
        THEN [h EXCEPT !.back[successor] = Append(Delete(@, b), new)]
        ELSE h

RECURSIVE SplitCriticalEdges(_, _, _)
SplitCriticalEdges(g, b, j) ==
    IF j > Len(g.succ[b]) THEN g
    ELSE IF Len(g.pred[g.succ[b][j]]) > 1
         THEN SplitCriticalEdges(SplitCriticalEdge(g, b, g.succ[b][j]), b, j)
         ELSE SplitCriticalEdges(g, b, j + 1)

\* A block through which the given predecessors go to the header.
Redirect(g, header, from) ==
    LET new == Len(g.succ) + 1
        Replace(h, b) == ReplaceSuccessor(h, b, header, new)
    IN  AddSuccessor(FoldLeft(Replace, AddBlock(g), from), new, header)

\* Mutant: the only back edge remains the last of the old ones.
MergeBackEdgesStale(g, header) ==
    IF Len(g.back[header]) > 1
    THEN [Redirect(g, header, g.back[header]) EXCEPT !.back[header] = <<Last(g.back[header])>>]
    ELSE g

MergeBackEdges(g, header) ==
    IF Len(g.back[header]) > 1
    THEN [Redirect(g, header, g.back[header]) EXCEPT !.back[header] = <<Len(g.succ) + 1>>]
    ELSE g

MakePreHeader(g, header) ==
    IF Len(g.pred[header]) - Len(g.back[header]) # 1
    THEN Redirect(g, header, SelectSeq(g.pred[header], LAMBDA b : b # g.back[header][1]))
    ELSE g

SimplifyBlock ==
    /\ phase = "simplifying" /\ next <= Len(graph.succ)
    /\ LET split == IF Len(graph.succ[next]) > 1 THEN SplitCriticalEdges(graph, next, 1) ELSE graph IN
        graph' = IF IsLoopHeader(split, next) THEN MakePreHeader(MergeBackEdges(split, next), next)
                                              ELSE split
    /\ next' = next + 1
    /\ UNCHANGED <<built, visited, phase>>

(***************************************************************************)
(* The dominator tree.                                                     *)
(***************************************************************************)
RECURSIVE Dominators(_, _)
Dominators(g, b) == IF b = 0 THEN <<>> ELSE <<b>> \o Dominators(g, g.dom[b])

Dominates(g, a, b) == Contains(Dominators(g, b), a)

FindCommonDominator(g, first, second) ==
    LET common == SelectSeq(Dominators(g, second), LAMBDA b : Dominates(g, b, first))
    IN  IF common = <<>> THEN 0 ELSE common[1]

RECURSIVE VisitBlockForDominatorTree(_, _, _)
VisitBlockForDominatorTree(b, predecessor, s) ==
    LET dominator == IF s.graph.dom[b] = 0 THEN predecessor
                     ELSE FindCommonDominator(s.graph, s.graph.dom[b], predecessor)
        t == [s EXCEPT !.graph.dom[b] = dominator, !.visits[b] = @ + 1]
    IN  IF t.visits[b] = Len(t.graph.pred[b]) - Len(t.graph.back[b])
        THEN FoldLeft(LAMBDA u, successor : VisitBlockForDominatorTree(successor, b, u),
                      [t EXCEPT !.graph.rpo = Append(@, b)], t.graph.succ[b])
        ELSE t

BuildDominatorTree ==
    /\ phase = "simplifying" /\ next > Len(graph.succ) /\ phase' = "dominated"
    /\ LET start == [graph |-> [graph EXCEPT !.rpo = <<Entry>>],
                     visits |-> [b \in DOMAIN graph.succ |-> 0]]
       IN  graph' = FoldLeft(LAMBDA s, successor : VisitBlockForDominatorTree(successor, Entry, s),
                             start, graph.succ[Entry]).graph
    /\ UNCHANGED <<built, visited, next>>

(***************************************************************************)
(* Natural loops.  graph.blocks[h] is the set of blocks of the loop with   *)
(* header h, and graph.loop[b] the header of the loop b is in, or 0.       *)
(***************************************************************************)
\* An outer loop is overridden.
SetInLoop(g, b, header) ==
    IF IsLoopHeader(g, b) \/ (g.loop[b] # 0 /\ header \notin g.blocks[g.loop[b]]) THEN g
    ELSE [g EXCEPT !.loop[b] = header]

RECURSIVE PopulateRecursive(_, _, _)
PopulateRecursive(g, header, b) ==
    IF b \in g.blocks[header] THEN g
    ELSE FoldLeft(LAMBDA h, from : PopulateRecursive(h, header, from),
                  SetInLoop([g EXCEPT !.blocks[header] = @ \union {b}], b, header), g.pred[b])

Populate(g, header) ==
    IF ~g.natural \/ ~IsLoopHeader(g, header) THEN g
    ELSE IF ~Dominates(g, header, g.back[header][1]) THEN [g EXCEPT !.natural = FALSE]
    ELSE PopulateRecursive([g EXCEPT !.blocks[header] = {header}], header, g.back[header][1])

FindNaturalLoops ==
    /\ phase = "dominated" /\ phase' = "done"
    /\ graph' = FoldLeftDomain(Populate, [graph EXCEPT !.blocks = [b \in DOMAIN graph.succ |-> {}]],
                               graph.succ)
    /\ UNCHANGED <<built, visited, next>>

Next ==
    \/ BuildBlock \/ BuildExit
    \/ FindBackEdges \/ RemoveDeadBlocks \/ SimplifyBlock \/ BuildDominatorTree \/ FindNaturalLoops

Spec == Init /\ [][Next]_vars

(***************************************************************************)
(* Properties.                                                             *)
(***************************************************************************)
Live == ReachableFrom(graph.succ, {Entry}, {})

\* Every path from the entry to b goes through a.
OnEveryPath(a, b) == b \notin ReachableFrom(graph.succ, {Entry}, {a})

RECURSIVE Original(_)
Original(b) == IF b <= N + 2 THEN b ELSE Original(graph.succ[b][1])

SamePaths ==
    \A b \in visited : built[b] = [i \in DOMAIN graph.succ[b] |-> Original(graph.succ[b][i])]

NoCriticalEdge ==
    \A b \in Live : Len(graph.succ[b]) > 1 => \A to \in ToSet(graph.succ[b]) : Len(graph.pred[to]) = 1

ImmediateDominators ==
    \A b \in Live \ {Entry} :
        LET strict == {a \in Live \ {b} : OnEveryPath(a, b)} IN
            graph.dom[b] \in strict /\ \A a \in strict : OnEveryPath(a, graph.dom[b])

\* The order has every live block once, after its dominator.
Ordered ==
    /\ ToSet(graph.rpo) = Live /\ Len(graph.rpo) = Cardinality(Live)
    /\ \A i \in 2..Len(graph.rpo) : \E j \in 1..(i - 1) : graph.rpo[j] = graph.dom[graph.rpo[i]]

Headers == {b \in Live : IsLoopHeader(graph, b)}

\* A header has its pre-header and one back edge as predecessors; the loop is what reaches the
\* back edge without the header, and a block is in the innermost of its loops.
Loops ==
    /\ \A h \in Headers : LET edge == graph.back[h][1] IN
        /\ ToSet(graph.pred[h]) = {graph.dom[h], edge} /\ Len(graph.pred[h]) = 2
        /\ graph.blocks[h] = {h} \union {b \in Live : edge \in ReachableFrom(graph.succ, {b}, {h})}
    /\ \A b \in Live \ Headers : LET around == {h \in Headers : b \in graph.blocks[h]} IN
        IF around = {} THEN graph.loop[b] = 0
        ELSE graph.loop[b] \in around /\ \A h \in around : graph.loop[b] \in graph.blocks[h]

\* The predecessors of a live block are the live blocks that go to it, each as often as it does.
Occurs(b, seq) == Len(SelectSeq(seq, LAMBDA x : x = b))
Linked ==
    \A b \in Live, a \in DOMAIN graph.succ :
        Occurs(a, graph.pred[b]) = IF a \in Live THEN Occurs(b, graph.succ[a]) ELSE 0

\* A dead block ends with a conditional branch to a block where edges of live blocks join.
DeadBranchToJoin ==
    \E b \in DOMAIN built \ visited : \E join \in ToSet(built[b]) \cap visited :
        /\ Len(built[b]) > 1
        /\ Cardinality({e \in visited \X {1, 2} : e[2] \in DOMAIN built[e[1]] /\ built[e[1]][e[2]] = join}) > 1

\* The analyses agree with their definitions: simplification keeps the paths of the live blocks
\* and leaves no critical edge; it also keeps predecessors and successors in step, except where
\* SimplifyCFG splits an edge of a dead block, which is no longer a predecessor.  When they are in
\* step the loops are reported as natural exactly when each header is on every path to its back
\* edge; and then the dominators, the order and the loops are right, though BuildDominatorTree never
\* looks at a back edge.
GraphAnalysed ==
    phase = "done" =>
        /\ SamePaths /\ NoCriticalEdge
        /\ Linked \/ DeadBranchToJoin
        /\ Linked =>
            /\ graph.natural = \A h \in Headers : OnEveryPath(h, graph.back[h][1])
            /\ graph.natural => ImmediateDominators /\ Ordered /\ Loops

\* The compiler goes on with the right dominators, whatever FindNaturalLoops reports.
DominatorsRight == phase = "done" => ImmediateDominators

\* Every block that can be executed is in the order in which the compiler visits the blocks:
\* BuildDominatorTree visits "the successors of a block only when all its forward branches have been
\* processed" (nodes.cc:84-86).  But a dead block's branch is split, and waited for.
LiveBlocksVisited == phase \in {"dominated", "done"} => ToSet(graph.rpo) = Live
=============================================================================
