-------------------------- MODULE SsaConstruction --------------------------
(***************************************************************************)
(* SSA form in the optimizing compiler: SsaBuilder                         *)
(* (compiler/optimizing/ssa_builder.cc), which replaces the loads and      *)
(* stores of dex registers by values and phis, and the elimination of      *)
(* redundant and of dead phis (compiler/optimizing/ssa_phi_elimination.cc).*)
(*                                                                         *)
(* A graph is one that BuildDominatorTree and SimplifyCFG leave: blocks are *)
(* numbered from 1 in the order of reverse_post_order_, a loop header has one *)
(* pre-header and one back edge.  A block holds at most one of: a store of a *)
(* value it defines, a move between locals, a use of a local; at least one *)
(* holds a use.  The graph is then run, and at each use the value that SSA *)
(* form reads is compared with what the local holds.  No instruction has an *)
(* environment: the eliminations run only when CanAllocateRegistersFor has *)
(* found none.                                                             *)
(***************************************************************************)
EXTENDS Integers, SequencesExt

CONSTANTS
    Graphs,             \* the graphs, [succ, pred : Seq(Seq(block)), loops : set of [header, pre, blocks]]
    L,                  \* number of locals
    MaxOps              \* bound: how many blocks hold an instruction

\* What the module assumes of its constants.
SsaConstructionAssumption == L \in Nat \ {0} /\ MaxOps \in Nat

VARIABLES
    graph,
    params,             \* the locals that hold a parameter on entry
    ops,                \* the instruction of each block
    ssa,                \* locals_for_, the phis, the inputs and the use lists
    worklist,           \* worklist_ of the running elimination
    phase,
    block,              \* the block that is being visited or run
    same                \* while running, the SSA values that are equal to each local

vars == <<graph, params, ops, ssa, worklist, phase, block, same>>

Locals == 1..L
LocalsInOrder == [l \in Locals |-> l]
Blocks(g) == DOMAIN g.succ
Null == <<>>
Nothing == [op |-> "none"]
Ops ==
    [op : {"store"}, to : Locals] \union [op : {"use"}, from : Locals]
        \union {m \in [op : {"move"}, to : Locals, from : Locals] : m.to # m.from}

Param(l) == <<"param", l>>
Def(b) == <<"def", b>>
Use(b) == <<"use", b>>
Phi(b, l) == <<"phi", b, l>>
IsPhi(instruction) == instruction[1] = "phi"
LoopAt(b) == {loop \in graph.loops : loop.header = b}
IsInLoop(b) == \E loop \in graph.loops : b \in loop.blocks

Init ==
    /\ graph \in Graphs /\ params \in {Locals, Locals \ {L}}
    /\ ops = <<>> /\ worklist = <<>> /\ phase = "building" /\ block = 1 /\ same = <<>>
    /\ ssa = [locals |-> [b \in Blocks(graph) |-> [l \in Locals |-> Null]],
              phis |-> [b \in Blocks(graph) |-> <<>>],
              inputs |-> <<>>, uses |-> <<>>, live |-> {}]

(***************************************************************************)
(* The verifier accepts a read of a local that every path assigns.         *)
(***************************************************************************)
AssignedAt ==
    LET assigned[b \in Blocks(graph)] ==
            IF b = 1 THEN params
            ELSE LET earlier == {p \in ToSet(graph.pred[b]) : p < b}
                     Leaves(p) == assigned[p] \union IF ops[p].op \in {"store", "move"} THEN {ops[p].to} ELSE {}
                 IN  {l \in Locals : \A p \in earlier : l \in Leaves(p)}
    IN  assigned

Build ==
    /\ phase = "building" /\ Len(ops) < Len(graph.succ)
    /\ \/ ops' = Append(ops, Nothing)
       \/ /\ Cardinality({b \in DOMAIN ops : ops[b] # Nothing}) < MaxOps
          /\ \E op \in Ops :
                /\ op.op \in {"use", "move"} => op.from \in AssignedAt[Len(ops) + 1]
                /\ ops' = Append(ops, op)
    /\ Len(ops') = Len(graph.succ) => \E b \in DOMAIN ops' : ops'[b].op = "use"
    /\ UNCHANGED <<graph, params, ssa, worklist, phase, block, same>>

(***************************************************************************)
(* The use lists: the last use added comes first.                          *)
(***************************************************************************)
AddUseAt(s, value, user, index) == [s EXCEPT !.uses[value] = <<<<user, index>>>> \o @]

RemoveUser(s, value, user, index) ==
    [s EXCEPT !.uses[value] = SelectSeq(@, LAMBDA use : use # <<user, index>>)]

AddInput(s, phi, value) ==
    AddUseAt([s EXCEPT !.inputs[phi] = Append(@, value)], value, phi, Len(s.inputs[phi]) + 1)

AddPhi(s, b, l, values) ==
    FoldLeft(LAMBDA t, value : AddInput(t, Phi(b, l), value),
             [s EXCEPT !.phis[b] = Append(@, Phi(b, l)), !.locals[b][l] = Phi(b, l)], values)

\* Mutant: the users keep the phi as their input
ReplaceWithUsesOnly(s, phi, other) ==
    LET Replace(t, use) == AddUseAt(t, other, use[1], use[2])
    IN  [FoldLeft(Replace, s, s.uses[phi]) EXCEPT !.uses[phi] = <<>>]

ReplaceWith(s, phi, other) ==
    LET Replace(t, use) ==
            AddUseAt([t EXCEPT !.inputs[use[1]][use[2]] = other], other, use[1], use[2])
    IN  [FoldLeft(Replace, s, s.uses[phi]) EXCEPT !.uses[phi] = <<>>]

RemovePhi(s, b, phi) ==
    LET RemoveUse(t, i) == RemoveUser(t, t.inputs[phi][i], phi, i)
    IN  FoldLeft(RemoveUse, [s EXCEPT !.phis[b] = SelectSeq(@, LAMBDA p : p # phi)],
                 [i \in DOMAIN s.inputs[phi] |-> i])

(***************************************************************************)
(* SsaBuilder.  A loop header gets a phi for each local that its           *)
(* pre-header has; another block a phi where its predecessors differ.      *)
(***************************************************************************)
EnterLoopHeader(s, b, pre) ==
    LET PhiFor(t, l) == IF s.locals[pre][l] = Null THEN t ELSE AddPhi(t, b, l, <<>>)
    IN  FoldLeft(PhiFor, s, LocalsInOrder)

EnterMerge(s, b) ==
    LET MergeLocal(t, l) ==
            LET values == [i \in DOMAIN graph.pred[b] |-> s.locals[graph.pred[b][i]][l]]
            IN  IF Contains(values, Null) THEN t
                ELSE IF Cardinality(ToSet(values)) > 1 THEN AddPhi(t, b, l, values)
                ELSE [t EXCEPT !.locals[b][l] = values[1]]
    IN  FoldLeft(MergeLocal, s, LocalsInOrder)

EnterBlock(s, b) ==
    IF LoopAt(b) # {} THEN EnterLoopHeader(s, b, (CHOOSE loop \in LoopAt(b) : TRUE).pre)
    ELSE IF b = 1 THEN [s EXCEPT !.locals[b] = [l \in Locals |-> IF l \in params THEN Param(l) ELSE Null]]
    ELSE EnterMerge(s, b)

VisitInstruction(s, b) ==
    LET op == ops[b]
    IN  CASE op.op = "none" -> s
          [] op.op = "store" -> [s EXCEPT !.locals[b][op.to] = Def(b)]
          [] op.op = "move" -> [s EXCEPT !.locals[b][op.to] = s.locals[b][op.from]]
          [] op.op = "use" -> AddInput(s, Use(b), s.locals[b][op.from])

StartBuildSsa ==
    /\ phase = "building" /\ Len(ops) = Len(graph.succ) /\ phase' = "visiting"
    /\ LET phis == {Phi(b, l) : b \in Blocks(graph), l \in Locals}
           users == phis \union {Use(b) : b \in Blocks(graph)}
           values == phis \union {Def(b) : b \in Blocks(graph)} \union {Param(l) : l \in Locals}
       IN  ssa' = [ssa EXCEPT !.inputs = [user \in users |-> <<>>], !.uses = [value \in values |-> <<>>]]
    /\ UNCHANGED <<graph, params, ops, worklist, block, same>>

VisitBasicBlock ==
    /\ phase = "visiting" /\ block \in Blocks(graph)
    /\ ssa' = VisitInstruction(EnterBlock(ssa, block), block)
    /\ block' = block + 1
    /\ UNCHANGED <<graph, params, ops, worklist, phase, same>>

Headers == SetToSortSeq({loop.header : loop \in graph.loops}, <)

SetLoopPhiInputs ==
    /\ phase = "visiting" /\ block \notin Blocks(graph) /\ phase' = "ssa" /\ block' = 1
    /\ LET InputsOf(s, phi) ==
               FoldLeft(LAMBDA t, p : AddInput(t, phi, ssa.locals[p][phi[3]]), s, graph.pred[phi[2]])
           Header(s, h) == FoldLeft(InputsOf, s, s.phis[h])
       IN  ssa' = FoldLeft(Header, ssa, Headers)
    /\ UNCHANGED <<graph, params, ops, worklist, same>>

(***************************************************************************)
(* SsaRedundantPhiElimination                                              *)
(***************************************************************************)
AllPhis == FlattenSeq(ssa.phis)
IsInBlock(phi) == Contains(ssa.phis[phi[2]], phi)
PhiUsers(phi) == SelectSeq([i \in DOMAIN ssa.uses[phi] |-> ssa.uses[phi][i][1]], IsPhi)

Candidate(phi) ==
    LET inputs == ssa.inputs[phi]
    IN  IF \A i \in 2..Len(inputs) : inputs[i] \in {inputs[1], phi} THEN inputs[1] ELSE Null

StartRedundantPhiElimination ==
    /\ phase = "ssa" /\ phase' = "eliminating" /\ worklist' = AllPhis
    /\ UNCHANGED <<graph, params, ops, ssa, block, same>>

RedundantPhiElimination ==
    /\ phase = "eliminating" /\ worklist # <<>>
    /\ LET phi == Last(worklist)
           candidate == Candidate(phi)
       IN  IF ~IsInBlock(phi) \/ candidate = Null
           THEN worklist' = Front(worklist) /\ UNCHANGED ssa
           ELSE /\ worklist' = Front(worklist) \o IF IsInLoop(phi[2]) THEN PhiUsers(phi) ELSE <<>>
                /\ ssa' = RemovePhi(ReplaceWith(ssa, phi, candidate), phi[2], phi)
    /\ UNCHANGED <<graph, params, ops, phase, block, same>>

(***************************************************************************)
(* SsaDeadPhiElimination                                                   *)
(***************************************************************************)
MarkedLive(users) ==
    users # <<>> /\ ~IsPhi(Last(users))

StartDeadPhiElimination ==
    /\ phase = "eliminating" /\ worklist = <<>> /\ phase' = "marking"
    /\ LET Users(phi) == [i \in DOMAIN ssa.uses[phi] |-> ssa.uses[phi][i][1]]
           Added(phi) == [i \in DOMAIN SelectSeq(Users(phi), LAMBDA u : ~IsPhi(u)) |-> phi]
       IN  /\ worklist' = FoldLeft(LAMBDA list, phi : list \o Added(phi), <<>>, AllPhis)
           /\ ssa' = [ssa EXCEPT !.live = {phi \in ToSet(AllPhis) : MarkedLive(Users(phi))}]
    /\ UNCHANGED <<graph, params, ops, block, same>>

PropagateLiveness ==
    /\ phase = "marking" /\ worklist # <<>>
    /\ LET Revive(acc, input) ==
               IF IsPhi(input) /\ input \notin acc.live
               THEN [live |-> acc.live \union {input}, list |-> Append(acc.list, input)] ELSE acc
           revived == FoldLeft(Revive, [live |-> ssa.live, list |-> Front(worklist)],
                               ssa.inputs[Last(worklist)])
       IN  worklist' = revived.list /\ ssa' = [ssa EXCEPT !.live = revived.live]
    /\ UNCHANGED <<graph, params, ops, phase, block, same>>

RemoveDeadPhis ==
    /\ phase = "marking" /\ worklist = <<>> /\ phase' = "done"
    /\ LET RemoveIfDead(s, phi) == IF phi \in s.live THEN s ELSE RemovePhi(s, phi[2], phi)
       IN  ssa' = FoldLeft(RemoveIfDead, ssa, FlattenSeq(Reverse(ssa.phis)))
    /\ UNCHANGED <<graph, params, ops, worklist, block, same>>

(***************************************************************************)
(* Running the graph, as SSA form stands after each pass.  A value that is *)
(* computed again is a new value.                                          *)
(***************************************************************************)
Executed(held, b) ==
    LET op == ops[b]
    IN  CASE op.op \in {"none", "use"} -> held
          [] op.op = "store" -> [l \in Locals |-> IF l = op.to THEN {Def(b)} ELSE held[l] \ {Def(b)}]
          [] op.op = "move" -> [held EXCEPT ![op.to] = held[op.from]]

EnteredFrom(held, b, p) ==
    LET phis == ToSet(ssa.phis[b])
        index == CHOOSE i \in DOMAIN graph.pred[b] : graph.pred[b][i] = p
    IN  [l \in Locals |-> {value \in held[l] : IsPhi(value) => value[2] # b}
                              \union {phi \in phis : ssa.inputs[phi][index] \in held[l]}]

Start ==
    /\ \/ phase = "ssa" /\ phase' = "run_ssa"
       \/ phase = "eliminating" /\ worklist = <<>> /\ phase' = "run_redundant"
       \/ phase = "done" /\ phase' = "run_dead"
    /\ block' = 1
    /\ same' = [l \in Locals |-> IF l \in params THEN {Param(l)} ELSE {}]
    /\ UNCHANGED <<graph, params, ops, ssa, worklist>>

Running == {"run_ssa", "run_redundant", "run_dead"}

Run ==
    /\ phase \in Running
    /\ \E b \in ToSet(graph.succ[block]) :
          block' = b /\ same' = EnteredFrom(Executed(same, block), b, block)
    /\ UNCHANGED <<graph, params, ops, ssa, worklist, phase>>

Next ==
    \/ Build \/ StartBuildSsa \/ VisitBasicBlock \/ SetLoopPhiInputs
    \/ StartRedundantPhiElimination \/ RedundantPhiElimination
    \/ StartDeadPhiElimination \/ PropagateLiveness \/ RemoveDeadPhis
    \/ Start \/ Run

Spec == Init /\ [][Next]_vars

-----------------------------------------------------------------------------
UseIsRight ==
    ops[block].op = "use" => ssa.inputs[Use(block)][1] \in same[ops[block].from]

(* On every path through the graph, a use of a local in SSA form reads the
   value that the last store on that path put there: phis stand where values
   meet, also around loops, and redundant phis are replaced by what they
   stand for (SsaBuilder::BuildSsa, SsaRedundantPhiElimination::Run). *)
SsaValuesRight == phase \in {"run_ssa", "run_redundant"} => UseIsRight

(* The elimination of dead phis keeps the value of every use: a phi is
   removed only when it has no user ("we only remove phis with no users",
   SsaDeadPhiElimination::Run). *)
DeadPhisOnly == phase = "run_dead" => UseIsRight

(* "A loop phi cannot have itself as the first phi"
   (SsaRedundantPhiElimination::Run). *)
FirstInputNotItself ==
    phase = "eliminating" /\ worklist # <<>> /\ IsInBlock(Last(worklist))
        => ssa.inputs[Last(worklist)][1] # Last(worklist)
=============================================================================
