----------------------------- MODULE MCCompiler -----------------------------
(***************************************************************************)
(* The passes of the optimizing compiler for TLC, each on inputs of its    *)
(* own: part says which pass runs in a behaviour.                          *)
(*   "flow"       ControlFlow, on every graph of N blocks                  *)
(*   "ssa"        SsaConstruction, on methods over the graphs below        *)
(*   "registers"  RegisterAllocator, on the programs below                 *)
(*   "moves"      ParallelMove, on every parallel move of MaxMoves moves   *)
(***************************************************************************)
EXTENDS RegisterAllocator

CONSTANTS
    N,
    L, MaxOps,
    Arch, CoreRegisters, StackSlots, DoubleStackSlots, MaxMoves

VARIABLES
    part,
    flow_graph, built, visited, next, flow_phase,
    ssa_graph, params, ops, ssa, worklist, ssa_phase, block, same,
    arch, parallel_move, moves_, index, move_phase, machine

flow == <<flow_graph, built, visited, next, flow_phase>>
construction == <<ssa_graph, params, ops, ssa, worklist, ssa_phase, block, same>>
moves == <<arch, parallel_move, moves_, index, move_phase, machine>>

-----------------------------------------------------------------------------
(* Graphs for SsaConstruction.                                             *)

\* while (..) do .. while (..);
NestedLoops ==
    [succ |-> <<<<2>>, <<3, 6>>, <<4>>, <<4, 5>>, <<2>>, <<>>>>,
     pred |-> <<<<>>, <<1, 5>>, <<2>>, <<3, 4>>, <<4>>, <<2>>>>,
     loops |-> {[header |-> 2, pre |-> 1, blocks |-> 2..5],
                [header |-> 4, pre |-> 3, blocks |-> {4}]}]

\* if (..) ..; do .. while (..);  SimplifyLoop adds the pre-header 4 as the last
\* predecessor of the header
DiamondThenLoop ==
    [succ |-> <<<<2, 3>>, <<4>>, <<4>>, <<5>>, <<5, 6>>, <<>>>>,
     pred |-> <<<<>>, <<1>>, <<1>>, <<2, 3>>, <<5, 4>>, <<5>>>>,
     loops |-> {[header |-> 5, pre |-> 4, blocks |-> {5}]}]

MCGraphs == {NestedLoops, DiamondThenLoop}

-----------------------------------------------------------------------------
(* Programs for RegisterAllocator.                                         *)

I(op, v, in, reg) == [op |-> op, v |-> v, in |-> in, reg |-> reg]
ParamIn(v, reg) == I("param", v, <<>>, reg)
ConstantOf(v) == I("const", v, <<>>, 0)
Add(v, a, b) == I("add", v, <<a, b>>, 0)
Cond(a, b) == I("cond", 0, <<a, b>>, 0)
If == I("if", 0, <<>>, 0)
Goto == I("goto", 0, <<>>, 0)
Return(a) == I("return", 0, <<a>>, 0)
ExitBlock(pred) == [succ |-> <<>>, pred |-> pred, phis |-> <<>>, code |-> <<I("exit", 0, <<>>, 0)>>]
Block(pred, succ, phis, body) == [succ |-> succ, pred |-> pred, phis |-> phis, code |-> body]

\* Parameters 1 (in a register) and 2 (on the stack), constant 3
EntryCode == <<ParamIn(1, 2), ParamIn(2, 0), ConstantOf(3), Goto>>

Phi(v, in) == [v |-> v, in |-> in]
Pairs(S) == S \X S

\* Sums, then the return of one of them
Straight(a, b, c, d, e) ==
    [blocks |-> <<Block(<<>>, <<2>>, <<>>, EntryCode),
                  Block(<<1>>, <<3>>, <<>>,
                        <<Add(4, a[1], a[2]), Add(5, b[1], b[2]), Add(6, c[1], c[2]), Add(7, d[1], d[2]), Return(e)>>),
                  ExitBlock(<<2>>)>>,
     loops |-> {}]
Straights == {Straight(a, b, c, d, e) : a \in Pairs({1, 2}), b \in {<<1, 4>>, <<4, 4>>},
                c \in Pairs({1, 5}), d \in {<<2, 5>>, <<5, 6>>, <<6, 6>>}, e \in {7}}

\* x = ..; y = ..; if (..) u = ..; else w = ..; z = phi(..) + ..; return ..
Diamond(a, b, c, d, e, f, g) ==
    [blocks |-> <<Block(<<>>, <<2>>, <<>>, EntryCode),
                  Block(<<1>>, <<3, 4>>, <<>>, <<Add(4, 1, 2), Add(5, a[1], a[2]), Cond(b, 3), If>>),
                  Block(<<2>>, <<5>>, <<>>, <<Add(6, c[1], c[2]), Goto>>),
                  Block(<<2>>, <<5>>, <<>>, <<Add(7, d[1], d[2]), Goto>>),
                  Block(<<3, 4>>, <<6>>, <<Phi(8, e)>>, <<Add(9, f[1], f[2]), Return(g)>>),
                  ExitBlock(<<5>>)>>,
     loops |-> {}]
Diamonds == {Diamond(a, b, c, d, e, f, g) : a \in Pairs({1, 4}), b \in {1, 5},
                c \in {<<1, 4>>, <<3, 2>>}, d \in {<<5, 2>>, <<4, 4>>, <<3, 1>>},
                e \in {<<6, 7>>, <<4, 7>>, <<6, 3>>}, f \in {<<8, 5>>, <<4, 8>>}, g \in {9}}

\* for (i = ..; ..; i = ..) { .. } with two phis
Loop(a, b, c, d, e, f, g) ==
    [blocks |-> <<Block(<<>>, <<2>>, <<>>, EntryCode),
                  Block(<<1, 3>>, <<3, 4>>, <<Phi(4, a), Phi(5, b)>>, <<Cond(c[1], c[2]), If>>),
                  Block(<<2>>, <<2>>, <<>>, <<Add(6, d[1], d[2]), Add(7, e[1], e[2]), Goto>>),
                  Block(<<2>>, <<5>>, <<>>, <<Add(8, f[1], f[2]), Return(g)>>),
                  ExitBlock(<<4>>)>>,
     loops |-> {[header |-> 2, back |-> 3, blocks |-> {2, 3}]}]
Loops == {Loop(a, b, c, d, e, f, g) : a \in {<<1, 6>>, <<3, 7>>, <<2, 5>>}, b \in {<<3, 4>>, <<2, 7>>},
                c \in {<<4, 1>>, <<1, 5>>, <<5, 2>>}, d \in Pairs({4, 1}), e \in {<<6, 5>>, <<5, 2>>, <<3, 4>>},
                f \in {<<4, 5>>}, g \in {8}}

\* while (..) { x = ..; if (..) break; y = ..; } with a phi after it
Break(a, b, c, d, e, f) ==
    [blocks |-> <<Block(<<>>, <<2>>, <<>>, EntryCode),
                  Block(<<1, 4>>, <<3, 6>>, <<Phi(4, a)>>, <<Cond(4, 3), If>>),
                  Block(<<2>>, <<4, 5>>, <<>>, <<Add(5, b[1], b[2]), Cond(c[1], c[2]), If>>),
                  Block(<<3>>, <<2>>, <<>>, <<Add(6, d[1], d[2]), Goto>>),
                  Block(<<3>>, <<7>>, <<>>, <<Goto>>),
                  Block(<<2>>, <<7>>, <<>>, <<Goto>>),
                  Block(<<5, 6>>, <<8>>, <<Phi(7, e)>>, <<Add(8, f[1], f[2]), Return(8)>>),
                  ExitBlock(<<7>>)>>,
     loops |-> {[header |-> 2, back |-> 4, blocks |-> {2, 3, 4}]}]
Breaks == {Break(a, b, c, d, e, f) : a \in {<<1, 6>>, <<3, 5>>}, b \in {<<4, 1>>, <<2, 4>>},
                c \in {<<5, 1>>, <<2, 5>>}, d \in {<<5, 4>>, <<1, 5>>, <<5, 2>>},
                e \in {<<5, 4>>, <<4, 1>>, <<2, 3>>}, f \in {<<7, 1>>, <<4, 7>>}}

\* for (..) { for (..) .. } with a phi for each loop
Nest(a, b, c, d, e) ==
    [blocks |-> <<Block(<<>>, <<2>>, <<>>, EntryCode),
                  Block(<<1, 6>>, <<3, 7>>, <<Phi(4, <<1, a>>)>>, <<Cond(4, b), If>>),
                  Block(<<2>>, <<4>>, <<>>, <<Goto>>),
                  Block(<<3, 5>>, <<5, 6>>, <<Phi(5, <<c, 6>>)>>, <<Cond(5, 4), If>>),
                  Block(<<4>>, <<4>>, <<>>, <<Add(6, d[1], d[2]), Goto>>),
                  Block(<<4>>, <<2>>, <<>>, <<Add(7, 5, e), Goto>>),
                  Block(<<2>>, <<8>>, <<>>, <<Return(4)>>),
                  ExitBlock(<<7>>)>>,
     loops |-> {[header |-> 2, back |-> 6, blocks |-> 2..6], [header |-> 4, back |-> 5, blocks |-> {4, 5}]}]
Nests == {Nest(a, b, c, d, e) : a \in {5, 7}, b \in {1, 2, 3}, c \in {2, 3, 4},
                d \in {<<5, 1>>, <<4, 5>>, <<2, 1>>, <<5, 5>>}, e \in {1, 4}}

MCPrograms == Straights \union Diamonds \union Loops \union Breaks \union Nests

-----------------------------------------------------------------------------
F == INSTANCE ControlFlow WITH graph <- flow_graph, phase <- flow_phase

S == INSTANCE SsaConstruction WITH Graphs <- MCGraphs, graph <- ssa_graph, phase <- ssa_phase

M == INSTANCE ParallelMove WITH phase <- move_phase

ASSUME F!ControlFlowAssumption /\ S!SsaConstructionAssumption /\ M!MoveAssumption

\* A pass that does not run has no input.
CompilerInit ==
    /\ part \in {"flow", "ssa", "registers", "moves"}
    /\ F!Init
    /\ IF part = "ssa" THEN S!Init
       ELSE /\ ssa_graph = <<>> /\ params = {} /\ ops = <<>> /\ ssa = <<>> /\ worklist = <<>>
            /\ ssa_phase = "none" /\ block = 1 /\ same = <<>>
    /\ IF part = "registers" THEN Init
       ELSE /\ prog = <<>> /\ order = <<>> /\ live = <<>> /\ starts = <<>> /\ intervals = <<>>
            /\ unhandled = <<>> /\ active = <<>> /\ inactive = <<>> /\ slots = <<>> /\ code = <<>>
            /\ locs = <<>> /\ held = <<>> /\ phase = "none" /\ pc = 1 /\ right = TRUE
    /\ IF part = "moves" THEN M!Init
       ELSE /\ arch = "none" /\ parallel_move = <<>> /\ moves_ = <<>> /\ index = 1
            /\ move_phase = "none" /\ machine = <<>>

CompilerNext ==
    /\ part' = part
    /\ \/ part = "flow" /\ F!Next /\ UNCHANGED <<construction, vars, moves>>
       \/ part = "ssa" /\ S!Next /\ UNCHANGED <<flow, vars, moves>>
       \/ part = "registers" /\ Next /\ UNCHANGED <<flow, construction, moves>>
       \/ part = "moves" /\ M!Next /\ UNCHANGED <<flow, construction, vars>>

CompilerSpec == CompilerInit /\ [][CompilerNext]_<<part, flow, construction, vars, moves>>

\* ControlFlow!GraphAnalysed: dominators, back edges and natural loops are
\* those of the graph.
GraphAnalysed == part = "flow" => F!GraphAnalysed

\* SsaConstruction!SsaValuesRight: a use in SSA form reads what was last stored.
SsaValuesRight == part = "ssa" => S!SsaValuesRight

\* ParallelMove!MovesInParallel: the moves happen as if at once.
MovesInParallel == part = "moves" => M!MovesInParallel
=============================================================================
