---------------------------- MODULE ParallelMove ----------------------------
(***************************************************************************)
(* The parallel move resolver of the optimizing compiler                   *)
(* (compiler/optimizing/parallel_move_resolver.cc) with the moves and      *)
(* swaps that its x86, ARM and x86-64 back ends emit.                      *)
(*                                                                         *)
(* The emitted instructions are executed as they are emitted, on a machine *)
(* whose registers hold one word of 32 bits or two, and whose stack is     *)
(* addressed in words of 32 bits relative to its pointer.                  *)
(***************************************************************************)
EXTENDS Integers, Sequences

CONSTANTS
    Arch,               \* back ends: a subset of {"x86", "arm", "x86_64"}
    CoreRegisters,      \* number of registers, EAX, RAX or R0 being register 1
    StackSlots,         \* offsets of stack slots of one word
    DoubleStackSlots,   \* offsets of stack slots of two words
    MaxMoves            \* bound: moves of one parallel move

\* What the module assumes of its constants.
MoveAssumption ==
    /\ Arch \subseteq {"x86", "arm", "x86_64"} /\ CoreRegisters \in Nat /\ CoreRegisters >= 2
    /\ StackSlots \cap DoubleStackSlots = {} /\ MaxMoves \in Nat

VARIABLES
    arch, parallel_move,    \* the back end and the parallel move to resolve
    moves_,                 \* list of moves not yet resolved
    index,                  \* the next move of EmitNativeCode
    phase,                  \* its loop: "moves", "constants", "done"
    machine                 \* registers, stack and stack pointer

vars == <<arch, parallel_move, moves_, index, phase, machine>>

(***************************************************************************)
(* Locations, and moves of values of w words.                              *)
(***************************************************************************)
Loc(k, n) == [k |-> k, n |-> n]
NoLocation == Loc("none", 0)

Width(k) == IF k = "dslot" THEN 2 ELSE 1
Registers == {Loc("reg", r) : r \in 1..CoreRegisters}
Slots == {Loc("slot", n) : n \in StackSlots} \cup {Loc("dslot", n) : n \in DoubleStackSlots}

\* Moves of a value of w words; a constant is a source that no move writes.
Moves(w) ==
    LET slots == {s \in Slots : Width(s.k) = w}
    IN [src : Registers \cup slots \cup {Loc("const", 0)}, dst : Registers \cup slots, w : {w}]

\* Parallel moves the register allocator can ask for: no location is written twice, and what a
\* register holds has one type.  Values of two words are there on x86-64 only, and mix with others.
ParallelMoves(a) ==
    LET moves == UNION {Moves(w) : w \in IF a = "x86_64" THEN {1, 2} ELSE {1}}
    IN {s \in UNION {[1..n -> moves] : n \in 0..MaxMoves} :
            \A i, j \in DOMAIN s : i # j =>
                s[i].dst # s[j].dst /\ (s[i].src = s[j].src => s[i].w = s[j].w)}

IsEliminated(move) == move.src = NoLocation
IsPending(move) == move.dst = NoLocation /\ move.src # NoLocation
Blocks(move, loc) == ~IsEliminated(move) /\ move.src = loc
IsRedundant(move) == IsEliminated(move) \/ move.dst = NoLocation \/ move.src = move.dst
Eliminate(moves, i) == [moves EXCEPT ![i].src = NoLocation, ![i].dst = NoLocation]

(***************************************************************************)
(* The machine.  An operand is a register, a word of the stack at an       *)
(* offset from the stack pointer, or an immediate.  TMP is R11 or IP.      *)
(***************************************************************************)
Reg(r) == [k |-> "reg", n |-> r]
Address(n) == [k |-> "mem", n |-> n]
Imm(n) == [k |-> "imm", n |-> n]
TMP == CoreRegisters + 1

Operand(loc, offset) ==
    CASE loc.k = "reg" -> Reg(loc.n)
      [] loc.k \in {"slot", "dslot"} -> Address(loc.n + offset)
      [] loc.k = "const" -> Imm(loc.n)

Word(m, op, i) ==
    CASE op.k = "reg" -> m.reg[op.n][i]
      [] op.k = "mem" -> m.stack[m.sp + op.n + i - 1]
      [] op.k = "imm" -> <<"imm", op.n, i>>

\* A move of w words: the other half of a register becomes zero, the rest of the stack stays.
Mov(m, w, dst, src) ==
    IF dst.k = "reg"
    THEN [m EXCEPT !.reg[dst.n] = [i \in 1..2 |-> IF i <= w THEN Word(m, src, i) ELSE <<"zero">>]]
    ELSE [m EXCEPT !.stack = [a \in DOMAIN @ |->
            IF a - m.sp - dst.n \in 0..(w - 1) THEN Word(m, src, a - m.sp - dst.n + 1) ELSE @[a]]]

Xchg(m, r1, r2) == [m EXCEPT !.reg[r1] = m.reg[r2], !.reg[r2] = m.reg[r1]]

WordSize(a) == IF a = "x86_64" THEN 2 ELSE 1

\* Words below the stack pointer are there to be pushed on.
InitialMachine ==
    [reg |-> [r \in 1..TMP |-> [i \in 1..2 |-> <<"reg", r, i>>]],
     stack |-> [a \in -4..6 |-> <<"stack", a>>],
     sp |-> 0]

(***************************************************************************)
(* Scratch registers: one that is going to be written and is not going to  *)
(* be read, or else one that is saved on the stack.                        *)
(***************************************************************************)
\* Mutant: a register that is going to be written is free.
IsScratchLocationRead(moves, loc) == \E i \in DOMAIN moves : moves[i].dst = loc

IsScratchLocation(moves, loc) ==
    /\ \A i \in DOMAIN moves : ~Blocks(moves[i], loc)
    /\ \E i \in DOMAIN moves : moves[i].dst = loc

kNoRegister == -1

AllocateScratchRegister(moves, blocked, if_scratch) ==
    LET free == {r \in 1..CoreRegisters : r # blocked /\ IsScratchLocation(moves, Loc("reg", r))}
    IN IF free = {} THEN [reg |-> if_scratch, spilled |-> TRUE]
       ELSE [reg |-> CHOOSE r \in free : \A q \in free : r <= q, spilled |-> FALSE]

StackOffset(a, scratch) == IF scratch.spilled THEN WordSize(a) ELSE 0

SpillScratch(a, m, scratch) ==
    IF ~scratch.spilled THEN m
    ELSE Mov([m EXCEPT !.sp = @ - WordSize(a)], WordSize(a), Address(0), Reg(scratch.reg))

RestoreScratch(a, m, scratch) ==
    IF ~scratch.spilled THEN m
    ELSE [Mov(m, WordSize(a), Reg(scratch.reg), Address(0)) EXCEPT !.sp = @ + WordSize(a)]

(***************************************************************************)
(* EmitMove and EmitSwap of the back ends.                                 *)
(***************************************************************************)
\* Through a scratch register on x86, through TMP elsewhere.
MoveMemoryToMemory(a, m, moves, w, dst, src) ==
    LET scratch == AllocateScratchRegister(moves, kNoRegister, 1)
        offset == StackOffset(a, scratch)
        load == Mov(SpillScratch(a, m, scratch), w, Reg(scratch.reg), Address(src + offset))
    IN IF a = "x86" THEN RestoreScratch(a, Mov(load, w, Address(dst + offset), Reg(scratch.reg)), scratch)
       ELSE Mov(Mov(m, w, Reg(TMP), Address(src)), w, Address(dst), Reg(TMP))

EmitMove(a, m, moves, i) ==
    LET src == moves[i].src
        dst == moves[i].dst
        w == IF a # "x86_64" THEN 1
             ELSE IF src.k = "reg" /\ dst.k = "reg" THEN 2
             ELSE IF src.k = "const" THEN moves[i].w
             ELSE IF "dslot" \in {src.k, dst.k} THEN 2 ELSE 1
    IN IF src.k \in {"slot", "dslot"} /\ dst.k \in {"slot", "dslot"}
       THEN MoveMemoryToMemory(a, m, moves, w, dst.n, src.n)
       ELSE Mov(m, w, Operand(dst, 0), Operand(src, 0))

\* A register and the stack: the third register is a scratch register on x86, TMP elsewhere.
ExchangeRegister(a, m, moves, w, reg, mem) ==
    LET scratch == IF a = "x86" THEN AllocateScratchRegister(moves, reg, IF reg = 1 THEN 2 ELSE 1)
                                ELSE [reg |-> TMP, spilled |-> FALSE]
        offset == StackOffset(a, scratch)
        load == Mov(SpillScratch(a, m, scratch), w, Reg(scratch.reg), Address(mem + offset))
        store == Mov(load, w, Address(mem + offset), Reg(reg))
    IN RestoreScratch(a, Mov(store, w, Reg(reg), Reg(scratch.reg)), scratch)

\* Two places on the stack: two scratch registers on x86, TMP and a scratch register elsewhere.
ExchangeMemory(a, m, moves, w, mem1, mem2) ==
    LET first == IF a = "x86" THEN AllocateScratchRegister(moves, kNoRegister, 1)
                              ELSE [reg |-> TMP, spilled |-> FALSE]
        second == AllocateScratchRegister(moves, first.reg, IF first.reg = 1 THEN 2 ELSE 1)
        offset == StackOffset(a, first) + StackOffset(a, second)
        spilled == SpillScratch(a, SpillScratch(a, m, first), second)
        load == Mov(Mov(spilled, w, Reg(first.reg), Address(mem1 + offset)),
                    w, Reg(second.reg), Address(mem2 + offset))
        store == Mov(Mov(load, w, Address(mem2 + offset), Reg(first.reg)),
                     w, Address(mem1 + offset), Reg(second.reg))
    IN RestoreScratch(a, RestoreScratch(a, store, second), first)

\* The width of a swap with the stack is the one of the slot.  The swap of a slot and a double slot
\* is not implemented (LOG(FATAL)).
EmitSwap(a, m, moves, i) ==
    LET src == moves[i].src
        dst == moves[i].dst
    IN CASE src.k = "reg" /\ dst.k = "reg" -> Xchg(m, dst.n, src.n)
         [] src.k = "reg" /\ dst.k # "reg" -> ExchangeRegister(a, m, moves, Width(dst.k), src.n, dst.n)
         [] src.k # "reg" /\ dst.k = "reg" -> ExchangeRegister(a, m, moves, Width(src.k), dst.n, src.n)
         [] src.k # "reg" /\ dst.k = src.k -> ExchangeMemory(a, m, moves, Width(src.k), dst.n, src.n)

(***************************************************************************)
(* PerformMove, on a state [moves, machine].                               *)
(***************************************************************************)
RECURSIVE PerformMove(_, _, _), PerformBlocking(_, _, _, _)

\* The moves whose source is the destination of a pending move, from the ith on.
PerformBlocking(a, st, destination, i) ==
    IF i > Len(st.moves) THEN st
    ELSE IF Blocks(st.moves[i], destination) /\ ~IsPending(st.moves[i])
         THEN PerformBlocking(a, PerformMove(a, st, i), destination, i + 1)
         ELSE PerformBlocking(a, st, destination, i + 1)

\* Sources after a swap of two locations.
Swapped(moves, source, destination) ==
    [j \in DOMAIN moves |-> [moves[j] EXCEPT !.src =
        IF Blocks(moves[j], source) THEN destination
        ELSE IF Blocks(moves[j], destination) THEN source ELSE @]]

PerformMove(a, st, i) ==
    LET destination == st.moves[i].dst
        pending == [st EXCEPT !.moves[i].dst = NoLocation]
        after == PerformBlocking(a, pending, destination, 1)
        moves == [after.moves EXCEPT ![i].dst = destination]
        source == moves[i].src
    IN IF source = destination
       THEN [after EXCEPT !.moves = Eliminate(moves, i)]
       ELSE IF \E j \in DOMAIN moves : Blocks(moves[j], destination)
       THEN [moves |-> Swapped(Eliminate(moves, i), source, destination),
             machine |-> EmitSwap(a, after.machine, moves, i)]
       ELSE [moves |-> Eliminate(moves, i),
             machine |-> EmitMove(a, after.machine, moves, i)]

(***************************************************************************)
(* EmitNativeCode.                                                         *)
(***************************************************************************)
BuildInitialMoveList(moves) ==
    LET needed(move) == ~IsRedundant(move) IN SelectSeq(moves, needed)

Init ==
    /\ arch \in Arch
    /\ parallel_move \in ParallelMoves(arch)
    /\ moves_ = BuildInitialMoveList(parallel_move)
    /\ index = 1 /\ phase = "moves"
    /\ machine = InitialMachine

\* The moves from locations, each with those that block it.
NextMove ==
    /\ phase = "moves" /\ index <= Len(moves_)
    /\ IF IsEliminated(moves_[index]) \/ moves_[index].src.k = "const"
       THEN UNCHANGED <<moves_, machine>>
       ELSE LET st == PerformMove(arch, [moves |-> moves_, machine |-> machine], index)
            IN moves_' = st.moves /\ machine' = st.machine
    /\ index' = index + 1
    /\ UNCHANGED <<arch, parallel_move, phase>>

\* The moves from constants; they stay in the list.
NextConstant ==
    /\ phase = "constants" /\ index <= Len(moves_)
    /\ machine' = IF IsEliminated(moves_[index]) THEN machine ELSE EmitMove(arch, machine, moves_, index)
    /\ index' = index + 1
    /\ UNCHANGED <<arch, parallel_move, moves_, phase>>

NextLoop ==
    /\ phase # "done" /\ index > Len(moves_)
    /\ index' = 1
    /\ phase' = IF phase = "moves" THEN "constants" ELSE "done"
    /\ moves_' = IF phase = "moves" THEN moves_ ELSE <<>>
    /\ UNCHANGED <<arch, parallel_move, machine>>

Next == NextMove \/ NextConstant \/ NextLoop

Spec == Init /\ [][Next]_vars

(***************************************************************************)
(* Properties.                                                             *)
(***************************************************************************)
\* The ith move is on a cycle of moves of which not all have its width.
Cyclic(C) == {parallel_move[i].src : i \in C} = {parallel_move[i].dst : i \in C}
OnMixedCycle(i) ==
    \E C \in SUBSET DOMAIN parallel_move :
        /\ i \in C /\ Cyclic(C) /\ \A D \in SUBSET C \ {{}, C} : ~Cyclic(D)
        /\ \E j \in C : parallel_move[j].w # parallel_move[i].w

\* What the emitted code does is what the parallel move asks for: every destination has the words its
\* source had before any move was made, and every register and stack slot that is no destination has
\* its own, whatever cycles, scratch registers and saved registers the resolver needed; the stack
\* pointer is back (EmitNativeCode, EmitMove, EmitSwap).  There is one exception: the upper half of a
\* long in a register that is swapped with the slot of an int, on a cycle that has both, is lost.
MovesInParallel ==
    phase = "done" =>
        /\ machine.sp = InitialMachine.sp
        /\ \A i \in DOMAIN parallel_move : LET move == parallel_move[i] IN
            \A h \in 1..move.w :
                \/ Word(machine, Operand(move.dst, 0), h) = Word(InitialMachine, Operand(move.src, 0), h)
                \/ h = 2 /\ OnMixedCycle(i)
        /\ \A loc \in (Registers \cup Slots) \ {parallel_move[i].dst : i \in DOMAIN parallel_move} :
            \A h \in 1..(IF loc.k = "reg" THEN WordSize(arch) ELSE Width(loc.k)) :
                Word(machine, Operand(loc, 0), h) = Word(InitialMachine, Operand(loc, 0), h)
=============================================================================
