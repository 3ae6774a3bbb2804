------------------------------- MODULE IR -------------------------------
(***************************************************************************)
(* The intermediate representation of src/compiler/include/ir/ir.hpp: the  *)
(* values, the nine instructions and the basic blocks, with the helpers of *)
(* ir::Function that append to them (src/compiler/src/ir/ir_builder.cpp).  *)
(*                                                                         *)
(* An instruction variant is one uniform record: its `tag` says which      *)
(* alternative it is, `dst` the temporary it writes (NoTemp when it writes *)
(* none), `sym` the operator, callee or local it names, `args` its value   *)
(* operands in order and `to` the labels a terminator may go to.           *)
(*                                                                         *)
(* A LabelId is the position of its block in Function::blocks, counted     *)
(* from 1: add_block gives out ids in order and pushes the block at once.  *)
(***************************************************************************)
EXTENDS Integers, Sequences, Functions

NoTemp == -1                    \* k_invalid_temp, and an absent Call::dst

(* Every literal is a STRING; the list spells out those this module uses    *)
(* for the provers, which know no string to be one.                         *)
Texts   == STRING \cup {"=", "+", "br", "jmp", "ret", "__if_result_", "__loop_result_"}
Symbols == [base : Texts, id : Int]
Symbol(base, id) == [base |-> base, id |-> id]
Name(x)  == Symbol(x, NoTemp)                    \* a source identifier
IfSlot(t)   == Symbol("__if_result_", t)         \* std::format("__if_result_{}", t)
LoopSlot(t) == Symbol("__loop_result_", t)

ValueKinds == {"temp", "i64", "bool", "char", "unit"}
Value == [k : ValueKinds, v : Int]

TempRef(t) == [k |-> "temp", v |-> t]
ImmI64(n)  == [k |-> "i64",  v |-> n]
ImmBool(b) == [k |-> "bool", v |-> IF b THEN 1 ELSE 0]
ImmChar(c) == [k |-> "char", v |-> c]
ImmUnit    == [k |-> "unit", v |-> 0]

Instr(tag, dst, sym, args, to) ==
    [tag |-> tag, dst |-> dst, sym |-> sym, args |-> args, to |-> to]

Assign(d, v)       == Instr("assign", d, Name("="), <<v>>, <<>>)
BinOp(d, op, l, r) == Instr("binop", d, Name(op), <<l, r>>, <<>>)
UnOp(d, op, v)     == Instr("unop", d, Name(op), <<v>>, <<>>)
Call(d, f, args)   == Instr("call", d, f, args, <<>>)
LoadLocal(d, x)    == Instr("load", d, x, <<>>, <<>>)
StoreLocal(x, v)   == Instr("store", NoTemp, x, <<v>>, <<>>)
Branch(c, t, f)    == Instr("branch", NoTemp, Name("br"), <<c>>, <<t, f>>)
Jump(l)            == Instr("jump", NoTemp, Name("jmp"), <<>>, <<l>>)
Return(val)        == Instr("return", NoTemp, Name("ret"), val, <<>>)   \* val: <<>> or <<v>>

Terminators == {"branch", "jump", "return"}
Tags == {"assign", "binop", "unop", "call", "load", "store"} \cup Terminators

BinOps == {"+", "-", "*", "/", "%", "==", "!=", "<", "<=", ">", ">=", "&&", "||"}

(* The fields of each alternative; only a call may have a dst or none. *)
Complete(i) ==
    /\ i.tag \in {"assign", "binop", "unop", "load"} => i.dst \in Nat
    /\ i.tag \in {"store", "branch", "jump", "return"} => i.dst = NoTemp
    /\ i.tag \in {"assign", "unop", "store", "branch"} => Len(i.args) = 1
    /\ i.tag = "binop" => Len(i.args) = 2 /\ i.sym.base \in BinOps
    /\ i.tag = "branch" => Len(i.to) = 2
    /\ i.tag = "jump" => Len(i.to) = 1
    /\ i.tag \notin {"branch", "jump"} => i.to = <<>>

Instruction == {i \in [tag : Tags, dst : Int, sym : Symbols, args : Seq(Value), to : Seq(Nat)] :
                  Complete(i)}
BasicBlock  == [instrs : Seq(Instruction), succ : Seq(Nat), pred : Seq(Nat)]

Function == [name : Symbols, params : Seq(Symbols), blocks : Seq(BasicBlock),
             temps : Nat, locals : Seq(Symbols)]

(* The temporaries an instruction reads. *)
Uses(i) == {i.args[a].v : a \in {b \in DOMAIN i.args : i.args[b].k = "temp"}}

(* The labels an instruction may transfer control to. *)
Targets(i) == {i.to[a] : a \in DOMAIN i.to}

(* ... and all those of a block may. *)
TargetsOf(blk) == UNION {Targets(i) : i \in Range(blk.instrs)}

(* BasicBlock::is_terminated: only the LAST instruction counts, so emitting *)
(* into a terminated block un-terminates it.                                *)
IsTerminated(blk) ==
    /\ blk.instrs # <<>>
    /\ blk.instrs[Len(blk.instrs)].tag \in Terminators

EmptyBlock == [instrs |-> <<>>, succ |-> <<>>, pred |-> <<>>]

(* Mutant: one label too few. *)
AddBlocksShort(bs, n) == bs \o [k \in 1..(n - 1) |-> EmptyBlock]

(* Function::add_block, n times. *)
AddBlocks(bs, n) == bs \o [k \in 1..n |-> EmptyBlock]

(* Function::emit, with b the current block. *)
Emit(bs, b, i) == [bs EXCEPT ![b].instrs = Append(@, i)]

(* Mutant: only the source of the edge records it. *)
ConnectForward(bs, p, s) == [bs EXCEPT ![p].succ = Append(@, s)]

(* Function::seal_block: the edge is recorded at both of its ends. *)
Connect(bs, p, s) ==
    LET out == [bs EXCEPT ![p].succ = Append(@, s)]
    IN  [out EXCEPT ![s].pred = Append(@, p)]

(* The emit/connect_blocks pairs the builder writes out at each of its jumps *)
(* and branches.                                                             *)
JumpTo(bs, b, l) == Connect(Emit(bs, b, Jump(l)), b, l)
BranchTo(bs, b, c, t, f) == Connect(Connect(Emit(bs, b, Branch(c, t, f)), b, t), b, f)
=============================================================================
