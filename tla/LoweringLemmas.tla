--------------------------- MODULE LoweringLemmas ---------------------------
(***************************************************************************)
(* Lemmas for the correctness of the lowering.  The first part is about    *)
(* the operations of ir::Function: what they return, which blocks they     *)
(* leave terminated and that they keep the edge lists and the terminators  *)
(* in step.  The second says how the parts of the inductive invariant of   *)
(* IRBuilderProofs about the activation records, the blocks and the loop   *)
(* contexts survive a push and a pop of the stack.  They are stated over   *)
(* values, so no step mentions a primed variable.                          *)
(*                                                                         *)
(* The third part is about the temporaries of a function under             *)
(* construction: which of them hold a value at the entry of each block, on *)
(* every path.  A certificate `a` gives every label the set of temporaries *)
(* that are certainly written when control gets there.  It is fixed when   *)
(* the label is allocated: what the open block knows at that point.  The   *)
(* lemmas say how it survives the emission of an instruction, new blocks,  *)
(* and the pushes and pops of the activation records, and that a finished  *)
(* function with a certificate defines its temporaries before it uses      *)
(* them.                                                                   *)
(***************************************************************************)
EXTENDS LoweringChecks, FiniteSetTheorems, WellFoundedInduction, NaturalsInduction, TLAPS

Labels(bs)     == 1..Len(bs)
Terminated(bs) == {b \in Labels(bs) : IsTerminated(bs[b])}

(* A control-flow graph: its labels name blocks, and the edge lists of both *)
(* ends say what the terminators say.                                       *)
EdgesInside(bs) == \A b \in Labels(bs) : TargetsOf(bs[b]) \subseteq Labels(bs)
EdgesMatch(bs) ==
    \A b \in Labels(bs) :
        /\ Range(bs[b].succ) = TargetsOf(bs[b])
        /\ Range(bs[b].pred) = {p \in Labels(bs) : b \in TargetsOf(bs[p])}
Graph(bs) == bs \in Seq(BasicBlock) /\ EdgesInside(bs) /\ EdgesMatch(bs)

(* Control stays inside of a finished function, and runs off none of its    *)
(* blocks.                                                                  *)
Sealed(bs) == \A b \in Labels(bs) : IsTerminated(bs[b]) /\ TargetsOf(bs[b]) \subseteq Labels(bs)

-----------------------------------------------------------------------------
(* Appending adds one element to the range of a sequence. *)
LEMMA RangeAppend ==
    ASSUME NEW S, NEW s \in Seq(S), NEW e \in S
    PROVE  Range(Append(s, e)) = Range(s) \cup {e}
<1>1. Append(s, e) \in Seq(S) /\ Len(Append(s, e)) = Len(s) + 1
  OBVIOUS
<1>2. DOMAIN Append(s, e) = 1..(Len(s) + 1) /\ DOMAIN s = 1..Len(s)
  BY <1>1
<1>3. Append(s, e)[Len(s) + 1] = e /\ \A k \in 1..Len(s) : Append(s, e)[k] = s[k]
  OBVIOUS
<1>4. Len(s) \in Nat
  OBVIOUS
<1> QED
  BY <1>2, <1>3, <1>4 DEF Range

(* Replacing one element of a sequence. *)
LEMMA Replace ==
    ASSUME NEW S, NEW s \in Seq(S), NEW k \in 1..Len(s), NEW e \in S
    PROVE  /\ [s EXCEPT ![k] = e] \in Seq(S)
           /\ Len([s EXCEPT ![k] = e]) = Len(s)
           /\ [s EXCEPT ![k] = e][k] = e
           /\ \A j \in 1..Len(s) : j # k => [s EXCEPT ![k] = e][j] = s[j]
OBVIOUS

LEMMA BlockFields ==
    ASSUME NEW bs \in Seq(BasicBlock), NEW b \in Labels(bs)
    PROVE  /\ bs[b] \in BasicBlock /\ bs[b].instrs \in Seq(Instruction)
           /\ bs[b].succ \in Seq(Nat) /\ bs[b].pred \in Seq(Nat)
<1>1. bs[b] \in BasicBlock
  BY DEF Labels
<1> QED
  BY <1>1 DEF BasicBlock

(* Function::emit appends to one block and leaves the others alone. *)
LEMMA EmitEffect ==
    ASSUME NEW bs \in Seq(BasicBlock), NEW b \in Labels(bs), NEW i \in Instruction
    PROVE  /\ Emit(bs, b, i) \in Seq(BasicBlock)
           /\ Len(Emit(bs, b, i)) = Len(bs)
           /\ Emit(bs, b, i)[b].instrs = Append(bs[b].instrs, i)
           /\ \A c \in Labels(bs) : c # b => Emit(bs, b, i)[c] = bs[c]
           /\ \A c \in Labels(bs) : /\ Emit(bs, b, i)[c].succ = bs[c].succ
                                    /\ Emit(bs, b, i)[c].pred = bs[c].pred
<1> DEFINE new == [bs[b] EXCEPT !.instrs = Append(bs[b].instrs, i)]
<1>1. Append(bs[b].instrs, i) \in Seq(Instruction)
  BY BlockFields
<1>2. /\ new \in BasicBlock /\ new.instrs = Append(bs[b].instrs, i)
      /\ new.succ = bs[b].succ /\ new.pred = bs[b].pred
  BY <1>1, BlockFields DEF BasicBlock
<1>3. Emit(bs, b, i) = [bs EXCEPT ![b] = new]
  BY DEF Emit
<1> HIDE DEF new
<1>4. /\ Emit(bs, b, i) \in Seq(BasicBlock) /\ Len(Emit(bs, b, i)) = Len(bs)
      /\ Emit(bs, b, i)[b] = new
      /\ \A c \in Labels(bs) : c # b => Emit(bs, b, i)[c] = bs[c]
  BY <1>2, <1>3, Replace DEF Labels
<1> QED
  BY <1>2, <1>4

(* Only the block emitted into can change its being terminated, and it is   *)
(* terminated afterwards exactly when the instruction is a terminator.      *)
LEMMA EmitTerminated ==
    ASSUME NEW bs \in Seq(BasicBlock), NEW b \in Labels(bs), NEW i \in Instruction
    PROVE  Terminated(Emit(bs, b, i)) =
               IF i.tag \in Terminators THEN Terminated(bs) \cup {b} ELSE Terminated(bs) \ {b}
<1> DEFINE new == Emit(bs, b, i)
<1>1. bs[b].instrs \in Seq(Instruction)
  BY BlockFields
<1>2. /\ new[b].instrs # <<>>
      /\ new[b].instrs[Len(new[b].instrs)] = i
  BY <1>1, EmitEffect
<1>3. IsTerminated(new[b]) <=> i.tag \in Terminators
  BY <1>2 DEF IsTerminated
<1>4. Labels(new) = Labels(bs)
  BY EmitEffect DEF Labels
<1>5. \A c \in Labels(bs) : c # b => new[c] = bs[c]
  BY EmitEffect
<1> QED
  BY <1>3, <1>4, <1>5 DEF Terminated
-----------------------------------------------------------------------------
(* Function::seal_block touches only the edge lists. *)
LEMMA ConnectEffect ==
    ASSUME NEW bs \in Seq(BasicBlock), NEW p \in Labels(bs), NEW s \in Labels(bs)
    PROVE  /\ Connect(bs, p, s) \in Seq(BasicBlock)
           /\ Len(Connect(bs, p, s)) = Len(bs)
           /\ \A c \in Labels(bs) :
                 /\ Connect(bs, p, s)[c].instrs = bs[c].instrs
                 /\ Connect(bs, p, s)[c].succ = IF c = p THEN Append(bs[c].succ, s) ELSE bs[c].succ
                 /\ Connect(bs, p, s)[c].pred = IF c = s THEN Append(bs[c].pred, p) ELSE bs[c].pred
<1> DEFINE from == [bs[p] EXCEPT !.succ = Append(bs[p].succ, s)]
           out  == [bs EXCEPT ![p] = from]
           to   == [out[s] EXCEPT !.pred = Append(out[s].pred, p)]
<1>1. /\ p \in Nat /\ s \in Nat
      /\ p \in 1..Len(bs) /\ s \in 1..Len(bs)
  BY DEF Labels
<1>2. Append(bs[p].succ, s) \in Seq(Nat)
  BY <1>1, BlockFields
<1>3. /\ from \in BasicBlock /\ from.succ = Append(bs[p].succ, s)
      /\ from.instrs = bs[p].instrs /\ from.pred = bs[p].pred
  BY <1>2, BlockFields DEF BasicBlock
<1>4. Connect(bs, p, s) = [out EXCEPT ![s] = to]
  BY DEF Connect
<1> HIDE DEF from
<1>5. /\ out \in Seq(BasicBlock) /\ Len(out) = Len(bs) /\ out[p] = from
      /\ \A c \in 1..Len(bs) : c # p => out[c] = bs[c]
  BY <1>1, <1>3, Replace
<1> HIDE DEF out
<1>6. out[s] \in BasicBlock /\ Append(out[s].pred, p) \in Seq(Nat)
  BY <1>1, <1>5, BlockFields DEF Labels
<1>7. /\ to \in BasicBlock /\ to.pred = Append(out[s].pred, p)
      /\ to.instrs = out[s].instrs /\ to.succ = out[s].succ
  BY <1>6 DEF BasicBlock
<1> HIDE DEF to
<1>8. /\ Connect(bs, p, s) \in Seq(BasicBlock) /\ Len(Connect(bs, p, s)) = Len(bs)
      /\ Connect(bs, p, s)[s] = to
      /\ \A c \in 1..Len(bs) : c # s => Connect(bs, p, s)[c] = out[c]
  BY <1>1, <1>4, <1>5, <1>7, Replace
<1> SUFFICES ASSUME NEW c \in Labels(bs)
             PROVE  /\ Connect(bs, p, s)[c].instrs = bs[c].instrs
                    /\ Connect(bs, p, s)[c].succ = IF c = p THEN Append(bs[c].succ, s) ELSE bs[c].succ
                    /\ Connect(bs, p, s)[c].pred = IF c = s THEN Append(bs[c].pred, p) ELSE bs[c].pred
  BY <1>8
<1>9. /\ out[c].instrs = bs[c].instrs /\ out[c].pred = bs[c].pred
      /\ out[c].succ = IF c = p THEN Append(bs[c].succ, s) ELSE bs[c].succ
  BY <1>3, <1>5 DEF Labels
<1> QED
  BY <1>7, <1>8, <1>9 DEF Labels

LEMMA ConnectTerminated ==
    ASSUME NEW bs \in Seq(BasicBlock), NEW p \in Labels(bs), NEW s \in Labels(bs)
    PROVE  Terminated(Connect(bs, p, s)) = Terminated(bs)
BY ConnectEffect DEF Terminated, IsTerminated, Labels

(* Function::add_block appends blocks without instructions or edges. *)
LEMMA AddBlocksEffect ==
    ASSUME NEW bs \in Seq(BasicBlock), NEW n \in Nat
    PROVE  /\ AddBlocks(bs, n) \in Seq(BasicBlock)
           /\ Len(AddBlocks(bs, n)) = Len(bs) + n
           /\ \A c \in Labels(AddBlocks(bs, n)) :
                 AddBlocks(bs, n)[c] = IF c \in Labels(bs) THEN bs[c] ELSE EmptyBlock
<1> DEFINE tail == [k \in 1..n |-> EmptyBlock]
<1>1. EmptyBlock \in BasicBlock
  BY DEF EmptyBlock, BasicBlock
<1>2. tail \in Seq(BasicBlock) /\ Len(tail) = n /\ \A k \in 1..n : tail[k] = EmptyBlock
  BY <1>1
<1>3. AddBlocks(bs, n) = bs \o tail
  BY DEF AddBlocks
<1> HIDE DEF tail
<1>4. /\ bs \o tail \in Seq(BasicBlock) /\ Len(bs \o tail) = Len(bs) + n
      /\ \A c \in 1..(Len(bs) + n) :
            (bs \o tail)[c] = IF c <= Len(bs) THEN bs[c] ELSE tail[c - Len(bs)]
  BY <1>2
<1>5. \A c \in 1..(Len(bs) + n) : c <= Len(bs) \/ c - Len(bs) \in 1..n
  OBVIOUS
<1> QED
  BY <1>2, <1>3, <1>4, <1>5 DEF Labels

LEMMA AddBlocksTerminated ==
    ASSUME NEW bs \in Seq(BasicBlock), NEW n \in Nat
    PROVE  Terminated(AddBlocks(bs, n)) = Terminated(bs)
<1>1. ~IsTerminated(EmptyBlock)
  BY DEF IsTerminated, EmptyBlock
<1>2. Labels(bs) \subseteq Labels(AddBlocks(bs, n))
  BY AddBlocksEffect DEF Labels
<1> QED
  BY <1>1, <1>2, AddBlocksEffect DEF Terminated
-----------------------------------------------------------------------------
LEMMA InTargetsOf ==
    \A blk, l : l \in TargetsOf(blk) <=> \E i \in Range(blk.instrs) : l \in Targets(i)
BY DEF TargetsOf

LEMMA TargetsOfMore ==
    ASSUME NEW old, NEW new, NEW i, Range(new.instrs) = Range(old.instrs) \cup {i}
    PROVE  TargetsOf(new) = TargetsOf(old) \cup Targets(i)
<1>1. \A l : l \in TargetsOf(new) <=> l \in TargetsOf(old) \/ l \in Targets(i)
  BY InTargetsOf
<1> QED
  BY <1>1

(* What the builder appends besides terminators leaves the graph alone. *)
LEMMA EmitTargets ==
    ASSUME NEW bs \in Seq(BasicBlock), NEW b \in Labels(bs), NEW i \in Instruction
    PROVE  \A c \in Labels(bs) :
               TargetsOf(Emit(bs, b, i)[c]) =
                   IF c = b THEN TargetsOf(bs[c]) \cup Targets(i) ELSE TargetsOf(bs[c])
<1>1. Range(Append(bs[b].instrs, i)) = Range(bs[b].instrs) \cup {i}
  BY BlockFields, RangeAppend
<1>2. TargetsOf(Emit(bs, b, i)[b]) = TargetsOf(bs[b]) \cup Targets(i)
  <2>1. Emit(bs, b, i)[b].instrs = Append(bs[b].instrs, i)
    BY EmitEffect
  <2> DEFINE new == Emit(bs, b, i)[b]
  <2>2. Range(new.instrs) = Range(bs[b].instrs) \cup {i}
    BY <1>1, <2>1
  <2> HIDE DEF new
  <2>3. TargetsOf(new) = TargetsOf(bs[b]) \cup Targets(i)
    BY <2>2, TargetsOfMore
  <2> QED
    BY <2>3 DEF new
<1> QED
  BY <1>2, EmitEffect

LEMMA EmitGraph ==
    ASSUME NEW bs, Graph(bs), NEW b \in Labels(bs), NEW i \in Instruction, i.to = <<>>
    PROVE  Graph(Emit(bs, b, i))
<1>1. Targets(i) = {}
  BY DEF Targets
<1>2. \A c \in Labels(bs) : TargetsOf(Emit(bs, b, i)[c]) = TargetsOf(bs[c])
  <2>1. bs \in Seq(BasicBlock)
    BY DEF Graph
  <2>2. \A c \in Labels(bs) :
            TargetsOf(Emit(bs, b, i)[c]) =
                IF c = b THEN TargetsOf(bs[c]) \cup Targets(i) ELSE TargetsOf(bs[c])
    BY <2>1, EmitTargets
  <2> QED
    BY <1>1, <2>2
<1>3. Emit(bs, b, i) \in Seq(BasicBlock) /\ Labels(Emit(bs, b, i)) = Labels(bs)
  BY EmitEffect DEF Graph, Labels
<1> QED
  BY <1>2, <1>3, EmitEffect DEF Graph, EdgesInside, EdgesMatch

LEMMA AddBlocksGraph ==
    ASSUME NEW bs, Graph(bs), NEW n \in Nat
    PROVE  Graph(AddBlocks(bs, n))
<1> DEFINE new == AddBlocks(bs, n)
<1>1. new \in Seq(BasicBlock) /\ Labels(bs) \subseteq Labels(new)
  BY AddBlocksEffect DEF Graph, Labels
<1>2. \A c \in Labels(new) : new[c] = IF c \in Labels(bs) THEN bs[c] ELSE EmptyBlock
  BY AddBlocksEffect DEF Graph
<1>3. TargetsOf(EmptyBlock) = {} /\ Range(EmptyBlock.succ) = {} /\ Range(EmptyBlock.pred) = {}
  BY DEF TargetsOf, EmptyBlock, Range
<1> HIDE DEF new
<1>4. EdgesInside(new)
  BY <1>1, <1>2, <1>3 DEF Graph, EdgesInside
<1>5. ASSUME NEW b \in Labels(new)
      PROVE  /\ Range(new[b].succ) = TargetsOf(new[b])
             /\ Range(new[b].pred) = {p \in Labels(new) : b \in TargetsOf(new[p])}
  <2>1. CASE b \in Labels(bs)
    <3>1. Range(bs[b].succ) = TargetsOf(bs[b])
      BY <2>1 DEF Graph, EdgesMatch
    <3>2. Range(bs[b].pred) = {p \in Labels(bs) : b \in TargetsOf(bs[p])}
      BY <2>1 DEF Graph, EdgesMatch
    <3>3. {p \in Labels(new) : b \in TargetsOf(new[p])} = {p \in Labels(bs) : b \in TargetsOf(bs[p])}
      BY <1>1, <1>2, <1>3
    <3> QED
      BY <1>2, <2>1, <3>1, <3>2, <3>3
  <2>2. CASE b \notin Labels(bs)
    <3>1. \A p \in Labels(new) : b \notin TargetsOf(new[p])
      BY <1>2, <1>3, <2>2 DEF Graph, EdgesInside
    <3> QED
      BY <1>2, <1>3, <2>2, <3>1
  <2> QED
    BY <2>1, <2>2
<1> QED
  BY <1>1, <1>4, <1>5 DEF Graph, EdgesMatch, new

-----------------------------------------------------------------------------
(* The instructions are well-typed, and say of themselves whether they end  *)
(* a block and where they go.                                               *)
LEMMA SymbolsTyped ==
    /\ NoTemp \in Int
    /\ \A x \in Texts : Name(x) \in Symbols
    /\ \A n \in Int : IfSlot(n) \in Symbols /\ LoopSlot(n) \in Symbols
    /\ Name("br") \in Symbols /\ Name("jmp") \in Symbols /\ Name("ret") \in Symbols /\ Name("=") \in Symbols
<1>1. NoTemp \in Int
  BY DEF NoTemp
<1>2. \A x \in Texts, n \in Int : Symbol(x, n) \in Symbols
  BY DEF Symbol, Symbols
<1>3. {"=", "br", "jmp", "ret", "__if_result_", "__loop_result_"} \subseteq Texts
  BY DEF Texts
<1> QED
  BY <1>1, <1>2, <1>3 DEF Name, IfSlot, LoopSlot

LEMMA TagsOf ==
    /\ Terminators \subseteq Tags
    /\ {"assign", "binop", "unop", "call", "load", "store"} \subseteq Tags \ Terminators
    /\ {"branch", "jump", "return"} \subseteq Terminators
BY DEF Tags, Terminators

LEMMA JumpTyped ==
    ASSUME NEW l \in Nat
    PROVE  Jump(l) \in Instruction /\ Jump(l).tag \in Terminators /\ Targets(Jump(l)) = {l}
<1>1. Name("jmp") \in Symbols /\ NoTemp \in Int
  BY SymbolsTyped
<1>2. <<>> \in Seq(Value) /\ <<l>> \in Seq(Nat) /\ "jump" \in Tags /\ "jump" \in Terminators
  BY TagsOf
<1>3. /\ Jump(l) \in Instruction /\ Jump(l).tag = "jump" /\ Jump(l).to = <<l>>
  BY <1>1, <1>2 DEF Jump, Instr, Instruction, Complete
<1>4. Targets(Jump(l)) = {l}
  BY <1>3 DEF Targets
<1> QED
  BY <1>2, <1>3, <1>4

LEMMA BranchTyped ==
    ASSUME NEW v \in Value, NEW t \in Nat, NEW f \in Nat
    PROVE  Branch(v, t, f) \in Instruction /\ Branch(v, t, f).tag \in Terminators /\ Targets(Branch(v, t, f)) = {t, f}
<1>1. Name("br") \in Symbols /\ NoTemp \in Int
  BY SymbolsTyped
<1>2. <<v>> \in Seq(Value) /\ <<t, f>> \in Seq(Nat) /\ "branch" \in Tags /\ "branch" \in Terminators
  BY TagsOf
<1>3. /\ Branch(v, t, f) \in Instruction /\ Branch(v, t, f).tag = "branch" /\ Branch(v, t, f).to = <<t, f>>
  BY <1>1, <1>2 DEF Branch, Instr, Instruction, Complete
<1>4. Targets(Branch(v, t, f)) = {t, f}
  BY <1>3 DEF Targets
<1> QED
  BY <1>2, <1>3, <1>4

LEMMA ValueTyped ==
   /\ ImmUnit \in Value
   /\ \A n \in Int : TempRef(n) \in Value /\ ImmI64(n) \in Value
BY DEF ImmUnit, TempRef, ImmI64, Value, ValueKinds

(* The instructions that are not terminators name no labels. *)
Plain(i) == i \in Instruction /\ i.tag \notin Terminators /\ i.to = <<>>

LEMMA PlainTyped ==
    ASSUME NEW d \in Int, NEW x \in Symbols, NEW v \in Value, NEW args \in Seq(Value)
    PROVE  Plain(StoreLocal(x, v)) /\ Plain(Call(d, x, args))
<1>1. <<>> \in Seq(Value) /\ <<>> \in Seq(Nat) /\ <<v>> \in Seq(Value) /\ NoTemp \in Int
  BY DEF NoTemp
<1>2. "store" \in Tags \ Terminators /\ "call" \in Tags \ Terminators
  BY TagsOf
<1>3. Plain(StoreLocal(x, v))
  BY <1>1, <1>2 DEF StoreLocal, Plain, Instr, Instruction, Complete
<1>4. Plain(Call(d, x, args))
  BY <1>1, <1>2 DEF Call, Plain, Instr, Instruction, Complete
<1> QED
  BY <1>3, <1>4

LEMMA LoadTyped ==
    ASSUME NEW d \in Nat, NEW x \in Symbols
    PROVE  Plain(LoadLocal(d, x))
<1>1. <<>> \in Seq(Value) /\ <<>> \in Seq(Nat)
  OBVIOUS
<1>2. "load" \in Tags \ Terminators
  BY TagsOf
<1> QED
  BY <1>1, <1>2 DEF LoadLocal, Plain, Instr, Instruction, Complete

LEMMA UnOpTyped ==
    ASSUME NEW d \in Nat, NEW v \in Value, NEW op \in Texts
    PROVE  Plain(UnOp(d, op, v))
<1>1. <<v>> \in Seq(Value) /\ <<>> \in Seq(Nat) /\ Name(op) \in Symbols
  BY SymbolsTyped
<1>2. "unop" \in Tags \ Terminators
  BY TagsOf
<1> QED
  BY <1>1, <1>2 DEF UnOp, Plain, Instr, Instruction, Complete

LEMMA BinOpTyped ==
    ASSUME NEW d \in Nat, NEW v \in Value, NEW w \in Value, NEW op \in Texts, op \in BinOps
    PROVE  Plain(BinOp(d, op, v, w))
<1>1. <<v, w>> \in Seq(Value) /\ <<>> \in Seq(Nat) /\ Len(<<v, w>>) = 2
  OBVIOUS
<1>2. "binop" \in Tags \ Terminators /\ Name(op) \in Symbols
  BY TagsOf, SymbolsTyped
<1>3. Name(op).base = op
  BY DEF Name, Symbol
<1> DEFINE i == BinOp(d, op, v, w)
<1>4. i = [tag |-> "binop", dst |-> d, sym |-> Name(op), args |-> <<v, w>>, to |-> <<>>]
  BY DEF BinOp, Instr
<1>5. i \in [tag : Tags, dst : Int, sym : Symbols, args : Seq(Value), to : Seq(Nat)]
  BY <1>1, <1>2, <1>4
<1>6. /\ i.tag = "binop" /\ i.dst \in Nat /\ i.sym.base \in BinOps /\ i.to = <<>> /\ Len(i.args) = 2
  BY <1>1, <1>3, <1>4
<1> HIDE DEF i
<1>7. Complete(i)
  BY <1>6 DEF Complete
<1> QED
  BY <1>2, <1>5, <1>6, <1>7 DEF Plain, Instruction, i

LEMMA ReturnTyped ==
    ASSUME NEW vals \in Seq(Value)
    PROVE  Return(vals) \in Instruction /\ Return(vals).tag \in Terminators /\ Return(vals).to = <<>>
<1>1. <<>> \in Seq(Nat) /\ NoTemp \in Int /\ Name("ret") \in Symbols
  BY SymbolsTyped DEF NoTemp
<1>2. "return" \in Tags /\ "return" \in Terminators
  BY TagsOf
<1> QED
  BY <1>1, <1>2 DEF Return, Instr, Instruction, Complete

(* Emitting anything but a terminator keeps the graph, and closes no block. *)
LEMMA EmitPlain ==
    ASSUME NEW bs, Graph(bs), NEW b \in Labels(bs), NEW i, Plain(i)
    PROVE  /\ Graph(Emit(bs, b, i)) /\ Len(Emit(bs, b, i)) = Len(bs)
           /\ Terminated(Emit(bs, b, i)) = Terminated(bs) \ {b}
<1>1. bs \in Seq(BasicBlock) /\ i \in Instruction /\ i.to = <<>> /\ i.tag \notin Terminators
  BY DEF Graph, Plain
<1>2. Graph(Emit(bs, b, i))
  BY <1>1, EmitGraph
<1>3. Len(Emit(bs, b, i)) = Len(bs)
  BY <1>1, EmitEffect
<1>4. Terminated(Emit(bs, b, i)) = Terminated(bs) \ {b}
  BY <1>1, EmitTerminated
<1> QED
  BY <1>2, <1>3, <1>4

(* ... and a return closes it. *)
LEMMA EmitReturn ==
    ASSUME NEW bs, Graph(bs), NEW b \in Labels(bs), NEW vals \in Seq(Value)
    PROVE  /\ Graph(Emit(bs, b, Return(vals))) /\ Len(Emit(bs, b, Return(vals))) = Len(bs)
           /\ Terminated(Emit(bs, b, Return(vals))) = Terminated(bs) \cup {b}
<1> DEFINE i == Return(vals)
<1>1. bs \in Seq(BasicBlock) /\ i \in Instruction /\ i.to = <<>> /\ i.tag \in Terminators
  BY ReturnTyped DEF Graph
<1> HIDE DEF i
<1>2. Graph(Emit(bs, b, i))
  BY <1>1, EmitGraph
<1>3. Len(Emit(bs, b, i)) = Len(bs)
  BY <1>1, EmitEffect
<1>4. Terminated(Emit(bs, b, i)) = Terminated(bs) \cup {b}
  BY <1>1, EmitTerminated
<1> QED
  BY <1>2, <1>3, <1>4 DEF i

-----------------------------------------------------------------------------
(* Adding the terminator of a block together with its edges keeps a graph. *)
LEMMA AddEdges ==
    ASSUME NEW bs, Graph(bs), NEW new \in Seq(BasicBlock), Len(new) = Len(bs),
           NEW b \in Labels(bs), NEW L \in SUBSET Labels(bs),
           \A c \in Labels(bs) :
              /\ TargetsOf(new[c])  = IF c = b THEN TargetsOf(bs[c]) \cup L ELSE TargetsOf(bs[c])
              /\ Range(new[c].succ) = IF c = b THEN Range(bs[c].succ) \cup L ELSE Range(bs[c].succ)
              /\ Range(new[c].pred) = IF c \in L THEN Range(bs[c].pred) \cup {b}
                                      ELSE Range(bs[c].pred)
    PROVE  Graph(new)
<1>1. Labels(new) = Labels(bs)
  BY DEF Labels
<1>2. EdgesInside(new)
  BY <1>1 DEF Graph, EdgesInside
<1>3. ASSUME NEW c \in Labels(bs)
      PROVE  /\ Range(new[c].succ) = TargetsOf(new[c])
             /\ Range(new[c].pred) = {p \in Labels(bs) : c \in TargetsOf(new[p])}
  <2>1. /\ Range(bs[c].succ) = TargetsOf(bs[c])
        /\ Range(bs[c].pred) = {p \in Labels(bs) : c \in TargetsOf(bs[p])}
    BY <1>3 DEF Graph, EdgesMatch
  <2> QED
    BY <1>3, <2>1
<1> QED
  BY <1>1, <1>2, <1>3 DEF Graph, EdgesMatch

(* The edge lists as sets. *)
LEMMA ConnectSuccs ==
    ASSUME NEW bs \in Seq(BasicBlock), NEW p \in Labels(bs), NEW s \in Labels(bs),
           NEW c \in Labels(bs)
    PROVE  /\ TargetsOf(Connect(bs, p, s)[c]) = TargetsOf(bs[c])
           /\ \A l : l \in Range(Connect(bs, p, s)[c].succ)
                      <=> l \in Range(bs[c].succ) \/ (c = p /\ l = s)
<1> s \in Nat /\ p \in Nat
  BY DEF Labels
<1>1. Range(Append(bs[c].succ, s)) = Range(bs[c].succ) \cup {s}
  BY BlockFields, RangeAppend
<1>2. /\ Connect(bs, p, s)[c].instrs = bs[c].instrs
      /\ Connect(bs, p, s)[c].succ = IF c = p THEN Append(bs[c].succ, s) ELSE bs[c].succ
  BY ConnectEffect
<1>3. TargetsOf(Connect(bs, p, s)[c]) = TargetsOf(bs[c])
  BY <1>2 DEF TargetsOf
<1> QED
  BY <1>1, <1>2, <1>3

LEMMA ConnectPreds ==
    ASSUME NEW bs \in Seq(BasicBlock), NEW p \in Labels(bs), NEW s \in Labels(bs),
           NEW c \in Labels(bs)
    PROVE  \A l : l \in Range(Connect(bs, p, s)[c].pred)
                  <=> l \in Range(bs[c].pred) \/ (c = s /\ l = p)
<1> s \in Nat /\ p \in Nat
  BY DEF Labels
<1>1. Range(Append(bs[c].pred, p)) = Range(bs[c].pred) \cup {p}
  BY BlockFields, RangeAppend
<1>2. /\ Connect(bs, p, s)[c].instrs = bs[c].instrs
      /\ Connect(bs, p, s)[c].succ = IF c = p THEN Append(bs[c].succ, s) ELSE bs[c].succ
      /\ Connect(bs, p, s)[c].pred = IF c = s THEN Append(bs[c].pred, p) ELSE bs[c].pred
  BY ConnectEffect
<1> QED
  BY <1>1, <1>2

(* A jump, with its edge recorded, closes the block it is emitted into. *)
LEMMA JumpToEffect ==
    ASSUME NEW bs, Graph(bs), NEW b \in Labels(bs), NEW l \in Labels(bs)
    PROVE  /\ Graph(JumpTo(bs, b, l)) /\ Len(JumpTo(bs, b, l)) = Len(bs)
           /\ Terminated(JumpTo(bs, b, l)) = Terminated(bs) \cup {b}
<1> DEFINE e == Emit(bs, b, Jump(l))
           c == Connect(e, b, l)
<1>1. Jump(l) \in Instruction /\ Jump(l).tag \in Terminators /\ Targets(Jump(l)) = {l}
  BY JumpTyped DEF Labels
<1>2. bs \in Seq(BasicBlock)
  BY DEF Graph
<1>3. /\ e \in Seq(BasicBlock) /\ Len(e) = Len(bs) /\ Labels(e) = Labels(bs)
      /\ Terminated(e) = Terminated(bs) \cup {b}
      /\ \A x \in Labels(bs) :
            /\ TargetsOf(e[x]) = IF x = b THEN TargetsOf(bs[x]) \cup {l} ELSE TargetsOf(bs[x])
            /\ e[x].succ = bs[x].succ /\ e[x].pred = bs[x].pred
  <2>1. /\ e \in Seq(BasicBlock) /\ Len(e) = Len(bs)
        /\ \A x \in Labels(bs) : e[x].succ = bs[x].succ /\ e[x].pred = bs[x].pred
    BY <1>1, <1>2, EmitEffect
  <2>2. Terminated(e) = Terminated(bs) \cup {b}
    BY <1>1, <1>2, EmitTerminated
  <2>3. \A x \in Labels(bs) :
            TargetsOf(e[x]) = IF x = b THEN TargetsOf(bs[x]) \cup Targets(Jump(l)) ELSE TargetsOf(bs[x])
    BY <1>1, <1>2, EmitTargets
  <2> QED
    BY <1>1, <2>1, <2>2, <2>3 DEF Labels
<1> HIDE DEF e
<1>4. /\ c \in Seq(BasicBlock) /\ Len(c) = Len(bs) /\ Terminated(c) = Terminated(bs) \cup {b}
  BY <1>3, ConnectEffect, ConnectTerminated
<1>5. Graph(c)
  <2>1. \A x \in Labels(bs) :
            /\ TargetsOf(c[x]) = TargetsOf(e[x])
            /\ Range(c[x].succ) = IF x = b THEN Range(e[x].succ) \cup {l} ELSE Range(e[x].succ)
            /\ Range(c[x].pred) = IF x = l THEN Range(e[x].pred) \cup {b} ELSE Range(e[x].pred)
    <3> TAKE x \in Labels(bs)
    <3>1. e \in Seq(BasicBlock) /\ b \in Labels(e) /\ l \in Labels(e) /\ x \in Labels(e)
      BY <1>3
    <3>2. TargetsOf(c[x]) = TargetsOf(e[x])
      BY <3>1, ConnectSuccs
    <3>3. \A y : y \in Range(c[x].succ) <=> y \in Range(e[x].succ) \/ (x = b /\ y = l)
      BY <3>1, ConnectSuccs
    <3>4. \A y : y \in Range(c[x].pred) <=> y \in Range(e[x].pred) \/ (x = l /\ y = b)
      BY <3>1, ConnectPreds
    <3> QED
      BY <3>2, <3>3, <3>4
  <2> HIDE DEF c
  <2>2. \A x \in Labels(bs) :
            /\ TargetsOf(c[x]) = IF x = b THEN TargetsOf(bs[x]) \cup {l} ELSE TargetsOf(bs[x])
            /\ Range(c[x].succ) = IF x = b THEN Range(bs[x].succ) \cup {l} ELSE Range(bs[x].succ)
            /\ Range(c[x].pred) = IF x \in {l} THEN Range(bs[x].pred) \cup {b}
                                  ELSE Range(bs[x].pred)
    BY <1>3, <2>1
  <2> QED
    <3>1. {l} \in SUBSET Labels(bs)
      OBVIOUS
    <3> QED
      BY <1>4, <2>2, <3>1, AddEdges
<1>6. c = JumpTo(bs, b, l)
  BY DEF c, e, JumpTo
<1> QED
  BY <1>4, <1>5, <1>6

LEMMA BranchToEffect ==
    ASSUME NEW bs, Graph(bs), NEW b \in Labels(bs), NEW v \in Value,
           NEW t \in Labels(bs), NEW f \in Labels(bs)
    PROVE  /\ Graph(BranchTo(bs, b, v, t, f)) /\ Len(BranchTo(bs, b, v, t, f)) = Len(bs)
           /\ Terminated(BranchTo(bs, b, v, t, f)) = Terminated(bs) \cup {b}
<1> DEFINE br == Branch(v, t, f)
           e  == Emit(bs, b, br)
           c  == Connect(e, b, t)
           d  == Connect(c, b, f)
<1>1. br \in Instruction /\ br.tag \in Terminators /\ Targets(br) = {t, f}
  BY BranchTyped DEF Labels
<1>2. bs \in Seq(BasicBlock)
  BY DEF Graph
<1> HIDE DEF br
<1>3. /\ e \in Seq(BasicBlock) /\ Len(e) = Len(bs) /\ Labels(e) = Labels(bs)
      /\ Terminated(e) = Terminated(bs) \cup {b}
      /\ \A x \in Labels(bs) :
            /\ TargetsOf(e[x]) = IF x = b THEN TargetsOf(bs[x]) \cup {t, f} ELSE TargetsOf(bs[x])
            /\ e[x].succ = bs[x].succ /\ e[x].pred = bs[x].pred
  <2>1. /\ e \in Seq(BasicBlock) /\ Len(e) = Len(bs)
        /\ \A x \in Labels(bs) : e[x].succ = bs[x].succ /\ e[x].pred = bs[x].pred
    BY <1>1, <1>2, EmitEffect
  <2>2. Terminated(e) = Terminated(bs) \cup {b}
    BY <1>1, <1>2, EmitTerminated
  <2>3. \A x \in Labels(bs) :
            TargetsOf(e[x]) = IF x = b THEN TargetsOf(bs[x]) \cup Targets(br) ELSE TargetsOf(bs[x])
    BY <1>1, <1>2, EmitTargets
  <2> QED
    BY <1>1, <2>1, <2>2, <2>3 DEF Labels
<1> HIDE DEF e
<1>4. /\ c \in Seq(BasicBlock) /\ Len(c) = Len(bs) /\ Labels(c) = Labels(bs)
      /\ Terminated(c) = Terminated(bs) \cup {b}
  BY <1>3, ConnectEffect, ConnectTerminated DEF Labels
<1>5. \A x \in Labels(bs) :
         /\ TargetsOf(c[x]) = TargetsOf(e[x])
         /\ Range(c[x].succ) = IF x = b THEN Range(e[x].succ) \cup {t} ELSE Range(e[x].succ)
         /\ Range(c[x].pred) = IF x = t THEN Range(e[x].pred) \cup {b} ELSE Range(e[x].pred)
  <2> TAKE x \in Labels(bs)
  <2>1. e \in Seq(BasicBlock) /\ b \in Labels(e) /\ t \in Labels(e) /\ x \in Labels(e)
    BY <1>3
  <2>2. TargetsOf(c[x]) = TargetsOf(e[x])
    BY <2>1, ConnectSuccs
  <2>3. \A y : y \in Range(c[x].succ) <=> y \in Range(e[x].succ) \/ (x = b /\ y = t)
    BY <2>1, ConnectSuccs
  <2>4. \A y : y \in Range(c[x].pred) <=> y \in Range(e[x].pred) \/ (x = t /\ y = b)
    BY <2>1, ConnectPreds
  <2> QED
    BY <2>2, <2>3, <2>4
<1> HIDE DEF c
<1>6. /\ d \in Seq(BasicBlock) /\ Len(d) = Len(bs)
      /\ Terminated(d) = Terminated(bs) \cup {b}
  BY <1>4, ConnectEffect, ConnectTerminated
<1>7. \A x \in Labels(bs) :
         /\ TargetsOf(d[x]) = TargetsOf(c[x])
         /\ Range(d[x].succ) = IF x = b THEN Range(c[x].succ) \cup {f} ELSE Range(c[x].succ)
         /\ Range(d[x].pred) = IF x = f THEN Range(c[x].pred) \cup {b} ELSE Range(c[x].pred)
  <2> TAKE x \in Labels(bs)
  <2>1. c \in Seq(BasicBlock) /\ b \in Labels(c) /\ f \in Labels(c) /\ x \in Labels(c)
    BY <1>4
  <2>2. TargetsOf(d[x]) = TargetsOf(c[x])
    BY <2>1, ConnectSuccs
  <2>3. \A y : y \in Range(d[x].succ) <=> y \in Range(c[x].succ) \/ (x = b /\ y = f)
    BY <2>1, ConnectSuccs
  <2>4. \A y : y \in Range(d[x].pred) <=> y \in Range(c[x].pred) \/ (x = f /\ y = b)
    BY <2>1, ConnectPreds
  <2> QED
    BY <2>2, <2>3, <2>4
<1> HIDE DEF d
<1>8. \A x \in Labels(bs) :
         /\ TargetsOf(d[x]) = IF x = b THEN TargetsOf(bs[x]) \cup {t, f} ELSE TargetsOf(bs[x])
         /\ Range(d[x].succ) = IF x = b THEN Range(bs[x].succ) \cup {t, f} ELSE Range(bs[x].succ)
         /\ Range(d[x].pred) = IF x \in {t, f} THEN Range(bs[x].pred) \cup {b} ELSE Range(bs[x].pred)
  BY <1>3, <1>5, <1>7
<1>9. Graph(d)
  <2>1. {t, f} \in SUBSET Labels(bs)
    OBVIOUS
  <2> QED
    BY <1>6, <1>8, <2>1, AddEdges
<1>10. d = BranchTo(bs, b, v, t, f)
  BY DEF d, c, e, br, BranchTo
<1> QED
  BY <1>6, <1>9, <1>10

-----------------------------------------------------------------------------
(* The activation records. *)

(* How many labels a visit of the node still has to switch to. *)
Due(node, pc) ==
    IF node.kind = "if" /\ pc = 2 THEN Len(node.kids) - 1
    ELSE IF node.kind = "while" /\ pc = 1 THEN 2
    ELSE IF \/ node.kind = "if" /\ pc = 3
            \/ node.kind = "while" /\ pc = 2
            \/ node.kind = "loop" /\ pc = 1 THEN 1 ELSE 0

(* What an activation record looks like between two actions. *)
Shaped(fn, f, L) ==
    LET node == fn.nodes[f.node]
    IN  /\ f.node \in DOMAIN fn.nodes
        /\ f.pc \in 0..Len(node.kids)
        /\ node.kind \in StraightLine /\ f.pc # 0 => Len(f.vals) = f.pc - 1
        /\ Len(f.labs) = Due(node, f.pc)
        /\ node.kind \in {"while", "loop"} /\ f.pc # 0 => f.head \in L
        /\ node.kind = "while" => f.slot = NoTemp

(* Every block is the open one, terminated, or waited for by one visit. *)
Accounted(st, bs, c) ==
    /\ c \in Labels(bs)
    /\ \A f \in DOMAIN st : Range(st[f].labs) \subseteq Labels(bs) \ (Terminated(bs) \cup {c})
    /\ \A f \in DOMAIN st : Len(st[f].labs) = 2 => st[f].labs[1] # st[f].labs[2]
    /\ \A f, g \in DOMAIN st : f # g => Range(st[f].labs) \cap Range(st[g].labs) = {}
    /\ \A l \in Labels(bs) :
          l \in Terminated(bs) \cup {c} \/ \E f \in DOMAIN st : l \in Range(st[f].labs)

(* LoopStackMatchesVisits over values; breaks in progress are inside loops. *)
Inside(fn, f) == \/ fn.nodes[f.node].kind = "while" /\ f.pc = 2
                 \/ fn.nodes[f.node].kind = "loop" /\ f.pc = 1
Within(fn, st, d) == {f \in 1..d : Inside(fn, st[f])}
CtxOf(f, ctx) == ctx.head = f.head /\ <<ctx.exit>> = f.labs /\ ctx.slot = f.slot
LoopsMatch(fn, st, ls) ==
    /\ Len(ls) = Cardinality(Within(fn, st, Len(st)))
    /\ \A f \in Within(fn, st, Len(st)) : CtxOf(st[f], ls[Cardinality(Within(fn, st, f))])
Breaking(fn, f) == fn.nodes[f.node].kind = "break" /\ f.pc = 1
BreaksInside(fn, st) ==
    \A f \in DOMAIN st : Breaking(fn, st[f]) => Within(fn, st, f) # {}
ContextsInside(ls, L) == \A d \in DOMAIN ls : ls[d].head \in L /\ ls[d].exit \in L

-----------------------------------------------------------------------------
(* Stack operations. *)
PopOf(st) == SubSeq(st, 1, Len(st) - 1)
PushOf(st, f, g) == Append([st EXCEPT ![Len(st)] = f], g)

LEMMA PopEffect ==
    ASSUME NEW S, NEW st \in Seq(S), st # <<>>
    PROVE  /\ PopOf(st) \in Seq(S) /\ Len(PopOf(st)) = Len(st) - 1
           /\ DOMAIN PopOf(st) = 1..(Len(st) - 1) /\ DOMAIN st = 1..Len(st)
           /\ Len(st) \in Nat \ {0} /\ st[Len(st)] \in S
           /\ \A f \in 1..(Len(st) - 1) : PopOf(st)[f] = st[f]
<1>1. Len(st) \in Nat \ {0}
  OBVIOUS
<1>2. DOMAIN st = 1..Len(st) /\ st[Len(st)] \in S
  BY <1>1
<1>3. PopOf(st) \in Seq(S) /\ Len(PopOf(st)) = Len(st) - 1
  BY <1>1 DEF PopOf
<1>4. DOMAIN PopOf(st) = 1..(Len(st) - 1)
  BY <1>3
<1>5. \A f \in 1..(Len(st) - 1) : PopOf(st)[f] = st[f]
  BY <1>1 DEF PopOf
<1> QED
  BY <1>1, <1>2, <1>3, <1>4, <1>5

LEMMA PushEffect ==
    ASSUME NEW S, NEW st \in Seq(S), st # <<>>, NEW f \in S, NEW g \in S
    PROVE  /\ PushOf(st, f, g) \in Seq(S) /\ Len(PushOf(st, f, g)) = Len(st) + 1
           /\ DOMAIN PushOf(st, f, g) = 1..(Len(st) + 1) /\ DOMAIN st = 1..Len(st)
           /\ Len(st) \in Nat \ {0} /\ st[Len(st)] \in S
           /\ \A k \in 1..(Len(st) - 1) : PushOf(st, f, g)[k] = st[k]
           /\ PushOf(st, f, g)[Len(st)] = f /\ PushOf(st, f, g)[Len(st) + 1] = g
<1> DEFINE d == Len(st)
           out == [st EXCEPT ![d] = f]
<1>1. d \in Nat \ {0} /\ d \in 1..d
  OBVIOUS
<1>2. DOMAIN st = 1..d /\ st[d] \in S
  BY <1>1
<1>3. /\ out \in Seq(S) /\ Len(out) = d /\ out[d] = f
      /\ \A k \in 1..d : k # d => out[k] = st[k]
  BY <1>1, Replace
<1>4. PushOf(st, f, g) = Append(out, g)
  BY DEF PushOf
<1> HIDE DEF out, d
<1>5. /\ Append(out, g) \in Seq(S) /\ Len(Append(out, g)) = d + 1
      /\ \A k \in 1..d : Append(out, g)[k] = out[k]
      /\ Append(out, g)[d + 1] = g
  BY <1>1, <1>3
<1>6. DOMAIN Append(out, g) = 1..(d + 1)
  BY <1>5
<1>7. \A k \in 1..(d - 1) : k \in 1..d /\ k # d
  BY <1>1
<1>8. \A k \in 1..(d - 1) : Append(out, g)[k] = st[k]
  BY <1>3, <1>5, <1>7
<1> QED
  BY <1>1, <1>2, <1>3, <1>4, <1>5, <1>6, <1>8 DEF d

-----------------------------------------------------------------------------
(* The accounting of blocks. *)

(* A step that stays in the open block. *)
LEMMA StayPopAccounted ==
    ASSUME NEW st \in Seq(FrameType), NEW bs, NEW bs2, NEW c, Accounted(st, bs, c),
           st # <<>>, st[Len(st)].labs = <<>>, Len(bs2) = Len(bs),
           Terminated(bs2) \cup {c} = Terminated(bs) \cup {c}
    PROVE  Accounted(PopOf(st), bs2, c)
<1> DEFINE d == Len(st)
           out == PopOf(st)
<1>1. /\ DOMAIN out = 1..(d - 1) /\ DOMAIN st = 1..d /\ d \in Nat \ {0}
      /\ \A f \in 1..(d - 1) : out[f] = st[f]
  BY PopEffect
<1>2. Labels(bs2) = Labels(bs)
  BY DEF Labels
<1>3. Range(st[d].labs) = {}
  BY DEF Range
<1> HIDE DEF out, d
<1>4. \A f \in 1..d : f = d \/ f \in 1..(d - 1)
  BY <1>1
<1>5. 1..(d - 1) \subseteq 1..d
  BY <1>1
<1>6. \A l \in Labels(bs2) :
          l \in Terminated(bs2) \cup {c} \/ \E f \in DOMAIN out : l \in Range(out[f].labs)
  BY <1>1, <1>2, <1>3, <1>4 DEF Accounted
<1>7. /\ c \in Labels(bs2)
      /\ \A f \in DOMAIN out : Range(out[f].labs) \subseteq Labels(bs2) \ (Terminated(bs2) \cup {c})
  BY <1>1, <1>2, <1>5 DEF Accounted
<1>8. /\ \A f \in DOMAIN out : Len(out[f].labs) = 2 => out[f].labs[1] # out[f].labs[2]
      /\ \A f, g \in DOMAIN out : f # g => Range(out[f].labs) \cap Range(out[g].labs) = {}
  <2>1. /\ \A f \in DOMAIN st : Len(st[f].labs) = 2 => st[f].labs[1] # st[f].labs[2]
        /\ \A f, g \in DOMAIN st : f # g => Range(st[f].labs) \cap Range(st[g].labs) = {}
    BY DEF Accounted
  <2>2. \A f \in DOMAIN out : f \in DOMAIN st /\ out[f] = st[f]
    BY <1>1, <1>5
  <2> QED
    BY <2>1, <2>2
<1>9. Accounted(out, bs2, c)
  BY <1>6, <1>7, <1>8 DEF Accounted
<1> QED
  BY <1>9 DEF out

LEMMA StayPushAccounted ==
    ASSUME NEW st \in Seq(FrameType), NEW bs, NEW c, Accounted(st, bs, c), st # <<>>,
           NEW f \in FrameType, NEW g \in FrameType, f.labs = st[Len(st)].labs, g.labs = <<>>
    PROVE  Accounted(PushOf(st, f, g), bs, c)
<1> DEFINE d == Len(st)
           out == PushOf(st, f, g)
<1>1. /\ DOMAIN out = 1..(d + 1) /\ DOMAIN st = 1..d /\ d \in Nat \ {0}
      /\ \A k \in 1..(d - 1) : out[k] = st[k]
      /\ out[d] = f /\ out[d + 1] = g
  <2>1. /\ DOMAIN out = 1..(d + 1) /\ DOMAIN st = 1..d /\ d \in Nat \ {0}
        /\ \A k \in 1..(d - 1) : out[k] = st[k]
    BY PushEffect
  <2>2. out[d] = f /\ out[d + 1] = g
    BY PushEffect
  <2> QED
    BY <2>1, <2>2
<1>2. Range(g.labs) = {} /\ Len(g.labs) = 0
  BY DEF Range
<1> HIDE DEF out
<1>3. f.labs = st[d].labs
  OBVIOUS
<1> HIDE DEF d
<1>4. \A k \in 1..(d + 1) : k = d + 1 \/ k = d \/ k \in 1..(d - 1)
  BY <1>1
<1>5. \A k \in 1..d : k \in 1..(d + 1) /\ k # d + 1 /\ (k = d \/ k \in 1..(d - 1))
  BY <1>1
<1>6. \A k \in 1..d : out[k].labs = st[k].labs
  BY <1>1, <1>3, <1>5
<1>7. \A k \in DOMAIN out :
          k \in DOMAIN st \/ (Range(out[k].labs) = {} /\ Len(out[k].labs) = 0)
  BY <1>1, <1>2, <1>4, <1>5
<1>8. DOMAIN st \subseteq DOMAIN out
  BY <1>1, <1>5
<1>9. /\ \A k \in DOMAIN out : Range(out[k].labs) \subseteq Labels(bs) \ (Terminated(bs) \cup {c})
      /\ \A k \in DOMAIN out : Len(out[k].labs) = 2 => out[k].labs[1] # out[k].labs[2]
  BY <1>1, <1>6, <1>7 DEF Accounted
<1>10. \A j, k \in DOMAIN out : j # k => Range(out[j].labs) \cap Range(out[k].labs) = {}
  BY <1>1, <1>6, <1>7 DEF Accounted
<1>11. \A l \in Labels(bs) :
          l \in Terminated(bs) \cup {c} \/ \E k \in DOMAIN out : l \in Range(out[k].labs)
  BY <1>1, <1>6, <1>8 DEF Accounted
<1>12. Accounted(out, bs, c)
  BY <1>9, <1>10, <1>11 DEF Accounted
<1> QED
  BY <1>12 DEF out

(* A step that ends a visit and opens the last block it waited for. *)
LEMMA MovePopAccounted ==
    ASSUME NEW st \in Seq(FrameType), NEW bs, NEW bs2, NEW c, Accounted(st, bs, c),
           st # <<>>, NEW l, Range(st[Len(st)].labs) = {l}, Len(bs2) = Len(bs),
           Terminated(bs2) = Terminated(bs) \cup {c}
    PROVE  Accounted(PopOf(st), bs2, l) /\ l \in Labels(bs) \ (Terminated(bs) \cup {c})
<1> DEFINE d == Len(st)
           out == PopOf(st)
<1>1. /\ DOMAIN out = 1..(d - 1) /\ DOMAIN st = 1..d /\ d \in Nat \ {0}
      /\ \A f \in 1..(d - 1) : out[f] = st[f]
  BY PopEffect
<1>2. Labels(bs2) = Labels(bs)
  BY DEF Labels
<1>3. Range(st[d].labs) = {l}
  OBVIOUS
<1> HIDE DEF out, d
<1>4. /\ \A f \in 1..d : f = d \/ f \in 1..(d - 1)
      /\ d \in 1..d
  BY <1>1
<1>5. \A f \in 1..(d - 1) : f \in 1..d /\ f # d
  BY <1>1
<1>6. l \in Labels(bs) \ (Terminated(bs) \cup {c})
  BY <1>1, <1>3, <1>4 DEF Accounted
<1>7. \A f \in DOMAIN out : l \notin Range(out[f].labs)
  <2> TAKE f \in DOMAIN out
  <2>1. f \in DOMAIN st /\ d \in DOMAIN st /\ f # d /\ out[f] = st[f]
    BY <1>1, <1>4, <1>5
  <2>2. Range(st[f].labs) \cap Range(st[d].labs) = {}
    BY <2>1 DEF Accounted
  <2> QED
    BY <1>3, <2>1, <2>2
<1>8. \A k \in Labels(bs2) :
          k \in Terminated(bs2) \cup {l} \/ \E f \in DOMAIN out : k \in Range(out[f].labs)
  BY <1>1, <1>2, <1>3, <1>4 DEF Accounted
<1>9. \A f \in DOMAIN out : Range(out[f].labs) \subseteq Labels(bs2) \ (Terminated(bs2) \cup {l})
  BY <1>1, <1>2, <1>5, <1>7 DEF Accounted
<1>10. /\ \A f \in DOMAIN out : Len(out[f].labs) = 2 => out[f].labs[1] # out[f].labs[2]
       /\ \A f, g \in DOMAIN out : f # g => Range(out[f].labs) \cap Range(out[g].labs) = {}
  <2>1. /\ \A f \in DOMAIN st : Len(st[f].labs) = 2 => st[f].labs[1] # st[f].labs[2]
        /\ \A f, g \in DOMAIN st : f # g => Range(st[f].labs) \cap Range(st[g].labs) = {}
    BY DEF Accounted
  <2>2. \A f \in DOMAIN out : f \in DOMAIN st /\ out[f] = st[f]
    BY <1>1, <1>5
  <2> QED
    BY <2>1, <2>2
<1>11. Accounted(out, bs2, l)
  BY <1>2, <1>6, <1>8, <1>9, <1>10 DEF Accounted
<1> QED
  BY <1>6, <1>11 DEF out

(* A step that starts a visit in a block it waited for or that is new. *)
LEMMA MovePushAccounted ==
    ASSUME NEW st \in Seq(FrameType), NEW bs, NEW bs2, NEW c, Accounted(st, bs, c), st # <<>>,
           NEW f \in FrameType, NEW g \in FrameType, g.labs = <<>>, NEW l,
           Labels(bs) \subseteq Labels(bs2), Terminated(bs2) = Terminated(bs) \cup {c},
           Range(f.labs) \cup {l} = Range(st[Len(st)].labs) \cup (Labels(bs2) \ Labels(bs)),
           l \notin Range(f.labs), Len(f.labs) = 2 => f.labs[1] # f.labs[2]
    PROVE  Accounted(PushOf(st, f, g), bs2, l) /\ l \in Labels(bs2) \ (Terminated(bs) \cup {c})
<1> DEFINE d == Len(st)
           out == PushOf(st, f, g)
<1>1. /\ DOMAIN out = 1..(d + 1) /\ DOMAIN st = 1..d /\ d \in Nat \ {0}
      /\ \A k \in 1..(d - 1) : out[k] = st[k]
      /\ out[d] = f /\ out[d + 1] = g
  BY PushEffect
<1>2. Range(g.labs) = {} /\ Len(g.labs) = 0
  BY DEF Range
<1>3. Range(f.labs) \cup {l} = Range(st[d].labs) \cup (Labels(bs2) \ Labels(bs))
  OBVIOUS
<1> HIDE DEF out, d
<1>4. /\ \A k \in 1..(d + 1) : k = d + 1 \/ k = d \/ k \in 1..(d - 1)
      /\ \A k \in 1..d : k = d \/ k \in 1..(d - 1)
      /\ \A k \in 1..(d - 1) : k \in 1..(d + 1) /\ k \in 1..d /\ k # d
      /\ d \in 1..d /\ d \in 1..(d + 1)
  BY <1>1
<1>5. Terminated(bs) \cup {c} \subseteq Labels(bs)
  BY DEF Accounted, Terminated
<1>6. Range(st[d].labs) \subseteq Labels(bs) \ (Terminated(bs) \cup {c})
  BY <1>1, <1>4 DEF Accounted
<1>7. /\ l \in Labels(bs2) \ (Terminated(bs) \cup {c})
      /\ Range(f.labs) \subseteq Labels(bs2) \ (Terminated(bs) \cup {c})
  BY <1>3, <1>5, <1>6
<1>8. \A k \in 1..(d - 1) :
          /\ Range(out[k].labs) \subseteq Labels(bs) \ (Terminated(bs) \cup {c})
          /\ Len(out[k].labs) = 2 => out[k].labs[1] # out[k].labs[2]
          /\ Range(out[k].labs) \cap Range(st[d].labs) = {}
  BY <1>1, <1>4 DEF Accounted
<1>9. \A k \in 1..(d - 1) : l \notin Range(out[k].labs) /\ Range(out[k].labs) \cap Range(f.labs) = {}
  BY <1>3, <1>8
<1>10. \A k \in DOMAIN out :
          /\ Range(out[k].labs) \subseteq Labels(bs2) \ (Terminated(bs2) \cup {l})
          /\ Len(out[k].labs) = 2 => out[k].labs[1] # out[k].labs[2]
  <2> TAKE k \in DOMAIN out
  <2>1. CASE k = d + 1
    BY <1>1, <1>2, <2>1
  <2>2. CASE k = d
    BY <1>1, <1>7, <2>2
  <2>3. CASE k \in 1..(d - 1)
    BY <1>8, <1>9, <2>3
  <2> QED
    BY <1>1, <1>4, <2>1, <2>2, <2>3
<1>11. \A j, k \in DOMAIN out : j # k => Range(out[j].labs) \cap Range(out[k].labs) = {}
  <2>1. \A j, k \in 1..(d - 1) : j # k => Range(out[j].labs) \cap Range(out[k].labs) = {}
    BY <1>1, <1>4 DEF Accounted
  <2> QED
    BY <1>1, <1>2, <1>4, <1>9, <2>1
<1>12. \A k \in Labels(bs2) :
          k \in Terminated(bs2) \cup {l} \/ \E j \in DOMAIN out : k \in Range(out[j].labs)
  <2> TAKE k \in Labels(bs2)
  <2>1. CASE k \in Range(f.labs) \cup {l}
    BY <1>1, <1>4, <2>1
  <2>2. CASE k \notin Range(f.labs) \cup {l}
    <3>1. k \in Labels(bs) /\ k \notin Range(st[d].labs)
      BY <1>3, <2>2
    <3>2. k \in Terminated(bs) \cup {c} \/ \E j \in 1..(d - 1) : k \in Range(st[j].labs)
      BY <1>1, <1>4, <3>1 DEF Accounted
    <3> QED
      BY <1>1, <1>4, <3>2
  <2> QED
    BY <2>1, <2>2
<1>13. Accounted(out, bs2, l)
  BY <1>7, <1>10, <1>11, <1>12 DEF Accounted
<1> QED
  BY <1>7, <1>13 DEF out

-----------------------------------------------------------------------------
(* The loop contexts. *)
LEMMA WithinCount ==
    ASSUME NEW fn, NEW st, NEW d \in Nat
    PROVE  /\ IsFiniteSet(Within(fn, st, d)) /\ Cardinality(Within(fn, st, d)) \in Nat
           /\ Within(fn, st, d) \subseteq 1..d
<1>1. IsFiniteSet(1..d) /\ Within(fn, st, d) \in SUBSET (1..d)
  BY FS_Interval DEF Within
<1>2. IsFiniteSet(Within(fn, st, d))
  BY <1>1, FS_Subset
<1> QED
  BY <1>1, <1>2, FS_CardinalityType

LEMMA WithinNext ==
    ASSUME NEW fn, NEW st, NEW d \in Nat \ {0}
    PROVE  /\ Inside(fn, st[d]) =>
                 /\ Within(fn, st, d) = Within(fn, st, d - 1) \cup {d}
                 /\ Cardinality(Within(fn, st, d)) = Cardinality(Within(fn, st, d - 1)) + 1
           /\ ~Inside(fn, st[d]) => Within(fn, st, d) = Within(fn, st, d - 1)
<1>1. d - 1 \in Nat /\ d \notin 1..(d - 1) /\ \A k : k \in 1..d <=> (k \in 1..(d - 1) \/ k = d)
  OBVIOUS
<1>2. Inside(fn, st[d]) => Within(fn, st, d) = Within(fn, st, d - 1) \cup {d}
  BY <1>1 DEF Within
<1>3. ~Inside(fn, st[d]) => Within(fn, st, d) = Within(fn, st, d - 1)
  BY <1>1 DEF Within
<1>4. IsFiniteSet(Within(fn, st, d - 1)) /\ d \notin Within(fn, st, d - 1)
  BY <1>1, WithinCount
<1>5. Cardinality(Within(fn, st, d - 1) \cup {d}) = Cardinality(Within(fn, st, d - 1)) + 1
  BY <1>4, FS_AddElement
<1> QED
  BY <1>2, <1>3, <1>5

LEMMA WithinAgree ==
    ASSUME NEW fn, NEW st, NEW st2, NEW d \in Nat, \A k \in 1..d : st2[k] = st[k]
    PROVE  \A e \in 0..d : Within(fn, st2, e) = Within(fn, st, e)
<1> TAKE e \in 0..d
<1>1. \A k \in 1..e : k \in 1..d
  OBVIOUS
<1> QED
  BY <1>1 DEF Within

(* The depth of a frame that lies in a loop body is an index of ls. *)
LEMMA WithinMonotone ==
    ASSUME NEW fn, NEW st, NEW d \in Nat, NEW e \in 0..d
    PROVE  Cardinality(Within(fn, st, e)) <= Cardinality(Within(fn, st, d))
<1>1. Within(fn, st, e) \in SUBSET Within(fn, st, d)
  <2>1. \A k \in 1..e : k \in 1..d
    OBVIOUS
  <2> QED
    BY <2>1 DEF Within
<1>2. IsFiniteSet(Within(fn, st, d))
  BY WithinCount
<1> QED
  BY <1>1, <1>2, FS_Subset

(* What the contexts of the frames below the top are, in any stack that has *)
(* the same frames there.                                                   *)
LEMMA LoopsBelow ==
    ASSUME NEW fn, NEW st \in Seq(FrameType), NEW ls, LoopsMatch(fn, st, ls), st # <<>>,
           NEW st2, \A k \in 1..(Len(st) - 1) : st2[k] = st[k]
    PROVE  /\ \A e \in 0..(Len(st) - 1) : Within(fn, st2, e) = Within(fn, st, e)
           /\ \A f \in Within(fn, st2, Len(st) - 1) :
                 /\ f \in 1..(Len(st) - 1) /\ f \in Within(fn, st, Len(st))
                 /\ CtxOf(st2[f], ls[Cardinality(Within(fn, st2, f))])
                 /\ Cardinality(Within(fn, st2, f)) \in 1..Cardinality(Within(fn, st, Len(st) - 1))
<1> DEFINE d == Len(st)
<1>1. d \in Nat \ {0} /\ d - 1 \in Nat
  OBVIOUS
<1>2. \A k \in 1..(d - 1) : st2[k] = st[k]
  OBVIOUS
<1>3. \A f \in Within(fn, st, d) : CtxOf(st[f], ls[Cardinality(Within(fn, st, f))])
  BY DEF LoopsMatch
<1> HIDE DEF d
<1>4. \A e \in 0..(d - 1) : Within(fn, st2, e) = Within(fn, st, e)
  BY <1>1, <1>2, WithinAgree
<1>5. ASSUME NEW f \in Within(fn, st2, d - 1)
      PROVE  /\ f \in 1..(d - 1) /\ f \in Within(fn, st, d)
             /\ CtxOf(st2[f], ls[Cardinality(Within(fn, st2, f))])
             /\ Cardinality(Within(fn, st2, f)) \in 1..Cardinality(Within(fn, st, d - 1))
  <2>1. f \in Within(fn, st, d - 1)
    BY <1>1, <1>4, <1>5
  <2>2. f \in 1..(d - 1) /\ Inside(fn, st[f])
    BY <2>1 DEF Within
  <2>3. f \in 1..d /\ f \in 0..(d - 1) /\ f \in Nat \ {0} /\ f - 1 \in Nat
    BY <1>1, <2>2
  <2>4. f \in Within(fn, st, d)
    BY <2>2, <2>3 DEF Within
  <2>5. Within(fn, st2, f) = Within(fn, st, f) /\ st2[f] = st[f]
    BY <1>2, <1>4, <2>2, <2>3
  <2>6. Cardinality(Within(fn, st, f)) <= Cardinality(Within(fn, st, d - 1))
    BY <1>1, <2>3, WithinMonotone
  <2>7. Cardinality(Within(fn, st, f)) = Cardinality(Within(fn, st, f - 1)) + 1
    BY <2>2, <2>3, WithinNext
  <2>8. /\ Cardinality(Within(fn, st, f - 1)) \in Nat /\ Cardinality(Within(fn, st, f)) \in Nat
        /\ Cardinality(Within(fn, st, d - 1)) \in Nat
    BY <1>1, <2>3, WithinCount
  <2> QED
    BY <1>3, <2>2, <2>4, <2>5, <2>6, <2>7, <2>8
<1> QED
  BY <1>4, <1>5 DEF d

LEMMA PopPlainLoops ==
    ASSUME NEW fn, NEW st \in Seq(FrameType), NEW ls, LoopsMatch(fn, st, ls), st # <<>>,
           ~Inside(fn, st[Len(st)])
    PROVE  LoopsMatch(fn, PopOf(st), ls)
<1> DEFINE d == Len(st)
           out == PopOf(st)
<1>1. d \in Nat \ {0} /\ Len(out) = d - 1 /\ \A f \in 1..(d - 1) : out[f] = st[f]
  BY PopEffect
<1>2. /\ \A e \in 0..(d - 1) : Within(fn, out, e) = Within(fn, st, e)
      /\ \A f \in Within(fn, out, d - 1) : CtxOf(out[f], ls[Cardinality(Within(fn, out, f))])
  BY <1>1, LoopsBelow
<1>3. Within(fn, st, d) = Within(fn, st, d - 1)
  BY <1>1, WithinNext
<1>4. Len(ls) = Cardinality(Within(fn, st, d))
  BY DEF LoopsMatch
<1> HIDE DEF out, d
<1>5. Within(fn, out, d - 1) = Within(fn, st, d - 1)
  BY <1>1, <1>2
<1>6. LoopsMatch(fn, out, ls)
  BY <1>1, <1>2, <1>3, <1>4, <1>5 DEF LoopsMatch
<1> QED
  BY <1>6 DEF out

LEMMA PopLeaveLoops ==
    ASSUME NEW fn, NEW st \in Seq(FrameType), NEW ls \in Seq(LoopContext),
           LoopsMatch(fn, st, ls), st # <<>>, Inside(fn, st[Len(st)])
    PROVE  LoopsMatch(fn, PopOf(st), PopOf(ls)) /\ ls # <<>>
<1> DEFINE d == Len(st)
           out == PopOf(st)
           n == Cardinality(Within(fn, st, d - 1))
<1>1. d \in Nat \ {0} /\ Len(out) = d - 1 /\ \A f \in 1..(d - 1) : out[f] = st[f]
  BY PopEffect
<1>2. /\ \A e \in 0..(d - 1) : Within(fn, out, e) = Within(fn, st, e)
      /\ \A f \in Within(fn, out, d - 1) :
            /\ CtxOf(out[f], ls[Cardinality(Within(fn, out, f))])
            /\ Cardinality(Within(fn, out, f)) \in 1..n
  BY <1>1, LoopsBelow
<1>3. Len(ls) = Cardinality(Within(fn, st, d))
  BY DEF LoopsMatch
<1>4. Inside(fn, st[d])
  OBVIOUS
<1> HIDE DEF out, d
<1>5. Len(ls) = n + 1 /\ n \in Nat
  BY <1>1, <1>3, <1>4, WithinNext, WithinCount
<1>6. ls # <<>>
  BY <1>5
<1>7. Len(PopOf(ls)) = n /\ \A k \in 1..n : PopOf(ls)[k] = ls[k]
  <2>1. Len(PopOf(ls)) = Len(ls) - 1 /\ \A k \in 1..(Len(ls) - 1) : PopOf(ls)[k] = ls[k]
    BY <1>6, PopEffect
  <2>2. Len(ls) - 1 = n
    BY <1>5
  <2> QED
    BY <2>1, <2>2
<1>8. Within(fn, out, d - 1) = Within(fn, st, d - 1)
  BY <1>1, <1>2
<1>9. LoopsMatch(fn, out, PopOf(ls))
  BY <1>1, <1>2, <1>7, <1>8 DEF LoopsMatch
<1> QED
  BY <1>6, <1>9 DEF out

LEMMA PushPlainLoops ==
    ASSUME NEW fn, NEW st \in Seq(FrameType), NEW ls, LoopsMatch(fn, st, ls), st # <<>>,
           NEW f \in FrameType, NEW g \in FrameType,
           ~Inside(fn, st[Len(st)]), ~Inside(fn, f), ~Inside(fn, g)
    PROVE  LoopsMatch(fn, PushOf(st, f, g), ls)
<1> DEFINE d == Len(st)
           out == PushOf(st, f, g)
<1>1. /\ d \in Nat \ {0} /\ Len(out) = d + 1 /\ \A k \in 1..(d - 1) : out[k] = st[k]
      /\ out[d] = f /\ out[d + 1] = g
  BY PushEffect
<1>2. /\ \A e \in 0..(d - 1) : Within(fn, out, e) = Within(fn, st, e)
      /\ \A k \in Within(fn, out, d - 1) : CtxOf(out[k], ls[Cardinality(Within(fn, out, k))])
  BY <1>1, LoopsBelow
<1>3. Len(ls) = Cardinality(Within(fn, st, d))
  BY DEF LoopsMatch
<1>4. Within(fn, st, d) = Within(fn, st, d - 1)
  BY <1>1, WithinNext
<1> HIDE DEF out, d
<1>5. Within(fn, out, d) = Within(fn, out, d - 1)
  BY <1>1, WithinNext
<1>6. Within(fn, out, d + 1) = Within(fn, out, d)
  <2>1. d + 1 \in Nat \ {0} /\ (d + 1) - 1 = d
    BY <1>1
  <2> QED
    BY <1>1, <2>1, WithinNext
<1>7. Within(fn, out, d - 1) = Within(fn, st, d - 1)
  BY <1>1, <1>2
<1>8. LoopsMatch(fn, out, ls)
  BY <1>1, <1>2, <1>3, <1>4, <1>5, <1>6, <1>7 DEF LoopsMatch
<1> QED
  BY <1>8 DEF out

LEMMA PushEnterLoops ==
    ASSUME NEW fn, NEW st \in Seq(FrameType), NEW ls \in Seq(LoopContext),
           LoopsMatch(fn, st, ls), st # <<>>,
           NEW f \in FrameType, NEW g \in FrameType, NEW ctx \in LoopContext,
           ~Inside(fn, st[Len(st)]), Inside(fn, f), ~Inside(fn, g), CtxOf(f, ctx)
    PROVE  LoopsMatch(fn, PushOf(st, f, g), Append(ls, ctx))
<1> DEFINE d == Len(st)
           out == PushOf(st, f, g)
           n == Cardinality(Within(fn, st, d - 1))
           ls2 == Append(ls, ctx)
<1>1. /\ d \in Nat \ {0} /\ Len(out) = d + 1 /\ \A k \in 1..(d - 1) : out[k] = st[k]
      /\ out[d] = f /\ out[d + 1] = g
  BY PushEffect
<1>2. /\ \A e \in 0..(d - 1) : Within(fn, out, e) = Within(fn, st, e)
      /\ \A k \in Within(fn, out, d - 1) :
            /\ CtxOf(out[k], ls[Cardinality(Within(fn, out, k))])
            /\ Cardinality(Within(fn, out, k)) \in 1..n
  BY <1>1, LoopsBelow
<1>3. Within(fn, st, d) = Within(fn, st, d - 1)
  BY <1>1, WithinNext
<1>4. Len(ls) = n /\ n \in Nat
  BY <1>1, <1>3, WithinCount DEF LoopsMatch
<1>5. Len(ls2) = n + 1 /\ ls2[n + 1] = ctx /\ \A k \in 1..n : ls2[k] = ls[k]
  BY <1>4
<1> HIDE DEF out, d, n, ls2
<1>6. Within(fn, out, d - 1) = Within(fn, st, d - 1)
  BY <1>1, <1>2
<1>7. /\ Within(fn, out, d) = Within(fn, out, d - 1) \cup {d}
      /\ Cardinality(Within(fn, out, d)) = n + 1
  BY <1>1, <1>6, WithinNext DEF n
<1>8. Within(fn, out, d + 1) = Within(fn, out, d)
  <2>1. d + 1 \in Nat \ {0} /\ (d + 1) - 1 = d
    BY <1>1
  <2> QED
    BY <1>1, <2>1, WithinNext
<1>9. \A k \in Within(fn, out, d) : CtxOf(out[k], ls2[Cardinality(Within(fn, out, k))])
  <2> TAKE k \in Within(fn, out, d)
  <2>1. CASE k = d
    BY <1>1, <1>5, <1>7, <2>1
  <2>2. CASE k \in Within(fn, out, d - 1)
    BY <1>2, <1>5, <2>2
  <2> QED
    BY <1>7, <2>1, <2>2
<1>10. LoopsMatch(fn, out, ls2)
  BY <1>1, <1>5, <1>7, <1>8, <1>9 DEF LoopsMatch
<1> QED
  BY <1>10 DEF out, ls2

(* Breaks whose value is being lowered stay inside a loop. *)
LEMMA PopBreaks ==
    ASSUME NEW fn, NEW st, NEW st2, NEW d \in Nat, DOMAIN st2 = 1..d, DOMAIN st2 \subseteq DOMAIN st,
           \A f \in DOMAIN st2 : st2[f] = st[f], BreaksInside(fn, st)
    PROVE  BreaksInside(fn, st2)
<1>1. \A e \in 0..d : Within(fn, st2, e) = Within(fn, st, e)
  BY WithinAgree
<1>2. \A f \in 1..d : f \in 0..d
  OBVIOUS
<1> QED
  BY <1>1, <1>2 DEF BreaksInside

LEMMA PushBreaks ==
    ASSUME NEW fn, NEW st \in Seq(FrameType), NEW ls, LoopsMatch(fn, st, ls), st # <<>>,
           BreaksInside(fn, st), NEW f \in FrameType, NEW g \in FrameType,
           ~Inside(fn, st[Len(st)]), ~Breaking(fn, g),
           Breaking(fn, f) => Len(ls) # 0 /\ ~Inside(fn, f)
    PROVE  BreaksInside(fn, PushOf(st, f, g))
<1> DEFINE d == Len(st)
           out == PushOf(st, f, g)
<1>1. /\ d \in Nat \ {0} /\ \A k \in 1..(d - 1) : out[k] = st[k]
      /\ out[d] = f /\ out[d + 1] = g
      /\ DOMAIN out = 1..(d + 1) /\ DOMAIN st = 1..d
  BY PushEffect
<1>2. \A e \in 0..(d - 1) : Within(fn, out, e) = Within(fn, st, e)
  BY <1>1, LoopsBelow
<1>3. Within(fn, st, d) = Within(fn, st, d - 1)
  BY <1>1, WithinNext
<1>4. Len(ls) = Cardinality(Within(fn, st, d))
  BY DEF LoopsMatch
<1> HIDE DEF out, d
<1>5. /\ \A k \in 1..(d + 1) : k = d + 1 \/ k = d \/ k \in 1..(d - 1)
      /\ \A k \in 1..(d - 1) : k \in 0..(d - 1) /\ k \in 1..d
      /\ d - 1 \in 0..(d - 1)
  BY <1>1
<1>6. ASSUME Breaking(fn, f)
      PROVE  Within(fn, out, d) # {}
  <2>1. Within(fn, out, d) = Within(fn, out, d - 1)
    BY <1>1, <1>6, WithinNext
  <2>2. Within(fn, out, d) = Within(fn, st, d)
    BY <1>2, <1>3, <1>5, <2>1
  <2>3. Cardinality(Within(fn, st, d)) # 0
    BY <1>4, <1>6
  <2> QED
    BY <2>2, <2>3, FS_EmptySet
<1>7. \A k \in DOMAIN out : Breaking(fn, out[k]) => Within(fn, out, k) # {}
  <2> TAKE k \in DOMAIN out
  <2>1. CASE k = d + 1
    BY <1>1, <2>1
  <2>2. CASE k = d
    BY <1>1, <1>6, <2>2
  <2>3. CASE k \in 1..(d - 1)
    BY <1>1, <1>2, <1>5, <2>3 DEF BreaksInside
  <2> QED
    BY <1>1, <1>5, <2>1, <2>2, <2>3
<1> QED
  BY <1>7 DEF BreaksInside, out

LEMMA PushShaped ==
    ASSUME NEW fn, NEW L, NEW st \in Seq(FrameType), st # <<>>, NEW f \in FrameType, NEW g \in FrameType,
           \A k \in DOMAIN st : Shaped(fn, st[k], L), Shaped(fn, f, L), Shaped(fn, g, L)
    PROVE  /\ PushOf(st, f, g) \in Seq(FrameType)
           /\ \A k \in DOMAIN PushOf(st, f, g) : Shaped(fn, PushOf(st, f, g)[k], L)
<1> DEFINE d == Len(st)
           out == PushOf(st, f, g)
<1>1. /\ d \in Nat \ {0} /\ \A k \in 1..(d - 1) : out[k] = st[k]
      /\ out[d] = f /\ out[d + 1] = g /\ out \in Seq(FrameType)
      /\ DOMAIN out = 1..(d + 1) /\ DOMAIN st = 1..d
  BY PushEffect
<1> HIDE DEF out, d
<1>2. /\ \A k \in 1..(d + 1) : k = d + 1 \/ k = d \/ k \in 1..(d - 1)
      /\ \A k \in 1..(d - 1) : k \in 1..d
  BY <1>1
<1>3. \A k \in DOMAIN out : Shaped(fn, out[k], L)
  BY <1>1, <1>2
<1> QED
  BY <1>1, <1>3 DEF out

-----------------------------------------------------------------------------
(* The instructions of every block. *)
Code(bs) == [b \in DOMAIN bs |-> bs[b].instrs]
Put(c, b, i) == [c EXCEPT ![b] = Append(@, i)]
Grow(c, n) == c \o [k \in 1..n |-> <<>>]
Codes == Seq(Seq(Instruction))

(* The temporaries a block writes, those it writes before its k-th          *)
(* instruction, and those among a sequence of values.                       *)
Dsts(is)      == {is[k].dst : k \in DOMAIN is} \ {NoTemp}
Before(is, k) == {is[j].dst : j \in 1..(k - 1)} \ {NoTemp}
Temps(vs)     == {vs[k].v : k \in {j \in DOMAIN vs : vs[j].k = "temp"}}

(* What is known at the end of block b. *)
Known(c, a, b) == a[b] \cup Dsts(c[b])

Certified(c, a) ==
    /\ DOMAIN a = DOMAIN c
    /\ 1 \in DOMAIN c => a[1] = {}
    /\ \A b \in DOMAIN c : \A t \in a[b] : \E d \in 1..(b - 1) : t \in Dsts(c[d])
    /\ \A b \in DOMAIN c : \A k \in DOMAIN c[b] :
          /\ Uses(c[b][k]) \subseteq a[b] \cup Before(c[b], k)
          /\ \A s \in Targets(c[b][k]) : s \in DOMAIN c /\ a[s] \subseteq a[b] \cup Before(c[b], k)

(* No temporary is written twice; those from n on are still free. *)
Once(c, n) ==
    /\ \A b \in DOMAIN c : \A k \in DOMAIN c[b] : c[b][k].dst \in {NoTemp} \cup 0..(n - 1)
    /\ \A b, d \in DOMAIN c : \A k \in DOMAIN c[b], j \in DOMAIN c[d] :
          c[b][k].dst = c[d][j].dst /\ c[b][k].dst # NoTemp => b = d /\ k = j

-----------------------------------------------------------------------------
(* Sequences of instructions. *)
LEMMA PutEffect ==
    ASSUME NEW c \in Codes, NEW b \in DOMAIN c, NEW i \in Instruction
    PROVE  /\ Put(c, b, i) \in Codes /\ DOMAIN Put(c, b, i) = DOMAIN c
           /\ c[b] \in Seq(Instruction) /\ Put(c, b, i)[b] = Append(c[b], i)
           /\ \A d \in DOMAIN c : d # b => Put(c, b, i)[d] = c[d]
<1>1. b \in 1..Len(c) /\ DOMAIN c = 1..Len(c) /\ c[b] \in Seq(Instruction)
  BY DEF Codes
<1>2. Append(c[b], i) \in Seq(Instruction)
  BY <1>1
<1>3. Put(c, b, i) = [c EXCEPT ![b] = Append(c[b], i)]
  BY DEF Put
<1>4. /\ Put(c, b, i) \in Codes /\ Len(Put(c, b, i)) = Len(c)
      /\ Put(c, b, i)[b] = Append(c[b], i)
      /\ \A d \in 1..Len(c) : d # b => Put(c, b, i)[d] = c[d]
  BY <1>1, <1>2, <1>3, Replace DEF Codes
<1>5. DOMAIN Put(c, b, i) = 1..Len(c)
  BY <1>4 DEF Codes
<1> QED
  BY <1>1, <1>4, <1>5

LEMMA GrowEffect2 ==
    ASSUME NEW c \in Codes, NEW n \in Nat
    PROVE  /\ Grow(c, n) \in Codes /\ DOMAIN Grow(c, n) = 1..(Len(c) + n) /\ DOMAIN c = 1..Len(c)
           /\ Len(c) \in Nat
           /\ \A b \in DOMAIN Grow(c, n) : Grow(c, n)[b] = IF b \in DOMAIN c THEN c[b] ELSE <<>>
<1> DEFINE S    == Seq(Instruction)
           tail == [k \in 1..n |-> <<>>]
<1>1. /\ tail \in Seq(S) /\ Len(tail) = n /\ \A k \in 1..n : tail[k] = <<>>
      /\ c \in Seq(S) /\ Codes = Seq(S)
  BY DEF Codes
<1>2. Grow(c, n) = c \o tail
  BY DEF Grow
<1> HIDE DEF tail, S
<1>3. /\ c \o tail \in Codes /\ Len(c \o tail) = Len(c) + n
      /\ \A b \in 1..(Len(c) + n) : (c \o tail)[b] = IF b <= Len(c) THEN c[b] ELSE tail[b - Len(c)]
  BY <1>1
<1>4. DOMAIN (c \o tail) = 1..(Len(c) + n) /\ DOMAIN c = 1..Len(c) /\ Len(c) \in Nat
  BY <1>1, <1>3
<1>5. \A b \in 1..(Len(c) + n) : (b <= Len(c) <=> b \in 1..Len(c))
                                /\ (b <= Len(c) \/ b - Len(c) \in 1..n)
  BY <1>4
<1> QED
  BY <1>1, <1>2, <1>3, <1>4, <1>5

LEMMA CodeOf ==
    ASSUME NEW bs \in Seq(BasicBlock)
    PROVE  /\ Code(bs) \in Codes /\ Len(Code(bs)) = Len(bs) /\ DOMAIN Code(bs) = Labels(bs)
           /\ \A b \in Labels(bs) : Code(bs)[b] = bs[b].instrs
<1>1. DOMAIN bs = 1..Len(bs) /\ Len(bs) \in Nat
  OBVIOUS
<1>2. \A b \in 1..Len(bs) : bs[b].instrs \in Seq(Instruction)
  BY BlockFields DEF Labels
<1>3. Code(bs) = [b \in 1..Len(bs) |-> bs[b].instrs]
  BY <1>1 DEF Code
<1> QED
  BY <1>1, <1>2, <1>3 DEF Codes, Labels

LEMMA SameCode ==
    ASSUME NEW c \in Codes, NEW e \in Codes, DOMAIN c = DOMAIN e, \A b \in DOMAIN c : c[b] = e[b]
    PROVE  c = e
BY DEF Codes

LEMMA CodeEmit ==
    ASSUME NEW bs \in Seq(BasicBlock), NEW b \in Labels(bs), NEW i \in Instruction
    PROVE  Code(Emit(bs, b, i)) = Put(Code(bs), b, i)
<1> DEFINE new == Emit(bs, b, i)
           c   == Code(bs)
<1>1. /\ new \in Seq(BasicBlock) /\ Len(new) = Len(bs)
      /\ new[b].instrs = Append(bs[b].instrs, i)
      /\ \A d \in Labels(bs) : d # b => new[d] = bs[d]
  BY EmitEffect
<1>2. /\ Code(new) \in Codes /\ DOMAIN Code(new) = Labels(bs)
      /\ \A d \in Labels(bs) : Code(new)[d] = new[d].instrs
  <2> HIDE DEF new
  <2> QED
    BY <1>1, CodeOf DEF Labels
<1>3. c \in Codes /\ DOMAIN c = Labels(bs) /\ \A d \in Labels(bs) : c[d] = bs[d].instrs
  BY CodeOf
<1> HIDE DEF new, c
<1>4. /\ Put(c, b, i) \in Codes /\ DOMAIN Put(c, b, i) = Labels(bs) 
      /\ Put(c, b, i)[b] = Append(c[b], i)
      /\ \A d \in Labels(bs) : d # b => Put(c, b, i)[d] = c[d]
  BY <1>3, PutEffect
<1>5. \A d \in Labels(bs) : Code(new)[d] = Put(c, b, i)[d]
  BY <1>1, <1>2, <1>3, <1>4
<1>6. Code(new) = Put(c, b, i)
  BY <1>2, <1>4, <1>5, SameCode
<1> QED
  BY <1>6 DEF new, c

(* Edge lists are not code. *)
LEMMA CodeConnect ==
    ASSUME NEW bs \in Seq(BasicBlock), NEW p \in Labels(bs), NEW s \in Labels(bs)
    PROVE  /\ Code(Connect(bs, p, s)) = Code(bs) /\ Connect(bs, p, s) \in Seq(BasicBlock)
           /\ Labels(Connect(bs, p, s)) = Labels(bs)
<1> DEFINE new == Connect(bs, p, s)
<1>1. /\ new \in Seq(BasicBlock) /\ Len(new) = Len(bs)
      /\ \A d \in Labels(bs) : new[d].instrs = bs[d].instrs
  BY ConnectEffect
<1> HIDE DEF new
<1>2. /\ Code(new) \in Codes /\ DOMAIN Code(new) = Labels(bs)
      /\ \A d \in Labels(bs) : Code(new)[d] = new[d].instrs
  BY <1>1, CodeOf DEF Labels
<1>3. Code(bs) \in Codes /\ DOMAIN Code(bs) = Labels(bs) /\ \A d \in Labels(bs) : Code(bs)[d] = bs[d].instrs
  BY CodeOf
<1>4. Code(new) = Code(bs)
  BY <1>1, <1>2, <1>3, SameCode
<1> QED
  BY <1>1, <1>4 DEF new, Labels

LEMMA CodeAdd ==
    ASSUME NEW bs \in Seq(BasicBlock), NEW n \in Nat
    PROVE  /\ Code(AddBlocks(bs, n)) = Grow(Code(bs), n) /\ AddBlocks(bs, n) \in Seq(BasicBlock)
           /\ Len(AddBlocks(bs, n)) = Len(bs) + n /\ Len(Code(bs)) = Len(bs)
<1> DEFINE new == AddBlocks(bs, n)
           c   == Code(bs)
<1>0. Len(bs) \in Nat
  OBVIOUS
<1>1. /\ new \in Seq(BasicBlock) /\ Len(new) = Len(bs) + n
      /\ \A d \in Labels(new) : new[d] = IF d \in Labels(bs) THEN bs[d] ELSE EmptyBlock
  BY AddBlocksEffect
<1> HIDE DEF new
<1>2. /\ Code(new) \in Codes /\ DOMAIN Code(new) = Labels(new)
      /\ \A d \in Labels(new) : Code(new)[d] = new[d].instrs
  BY <1>1, CodeOf
<1>3. c \in Codes /\ DOMAIN c = Labels(bs) /\ Len(c) = Len(bs) /\ \A d \in Labels(bs) : c[d] = bs[d].instrs
  BY CodeOf
<1> HIDE DEF c
<1>4. /\ Grow(c, n) \in Codes /\ DOMAIN Grow(c, n) = 1..(Len(bs) + n)
      /\ \A d \in DOMAIN Grow(c, n) : Grow(c, n)[d] = IF d \in DOMAIN c THEN c[d] ELSE <<>>
  BY <1>3, GrowEffect2
<1>5. Labels(new) = 1..(Len(bs) + n) /\ EmptyBlock.instrs = <<>>
  BY <1>0, <1>1 DEF Labels, EmptyBlock
<1>6. Code(new) = Grow(c, n)
  BY <1>1, <1>2, <1>3, <1>4, <1>5, SameCode
<1> QED
  BY <1>1, <1>3, <1>6 DEF new, c

LEMMA CodeJump ==
    ASSUME NEW bs \in Seq(BasicBlock), NEW b \in Labels(bs), NEW l \in Labels(bs)
    PROVE  /\ Code(JumpTo(bs, b, l)) = Put(Code(bs), b, Jump(l)) /\ Jump(l) \in Instruction
           /\ JumpTo(bs, b, l) \in Seq(BasicBlock) /\ Labels(JumpTo(bs, b, l)) = Labels(bs)
<1>1. Jump(l) \in Instruction
  BY JumpTyped DEF Labels
<1> DEFINE em == Emit(bs, b, Jump(l))
<1>2. em \in Seq(BasicBlock) /\ Labels(em) = Labels(bs) /\ Code(em) = Put(Code(bs), b, Jump(l))
  BY <1>1, EmitEffect, CodeEmit DEF Labels
<1>3. JumpTo(bs, b, l) = Connect(em, b, l)
  BY DEF JumpTo
<1> HIDE DEF em
<1> QED
  BY <1>1, <1>2, <1>3, CodeConnect

LEMMA CodeBranch ==
    ASSUME NEW bs \in Seq(BasicBlock), NEW b \in Labels(bs), NEW v \in Value,
           NEW l \in Labels(bs), NEW m \in Labels(bs)
    PROVE  /\ Code(BranchTo(bs, b, v, l, m)) = Put(Code(bs), b, Branch(v, l, m))
           /\ Branch(v, l, m) \in Instruction
<1>1. Branch(v, l, m) \in Instruction
  BY BranchTyped DEF Labels
<1> DEFINE em == Emit(bs, b, Branch(v, l, m))
           to == Connect(em, b, l)
<1>2. em \in Seq(BasicBlock) /\ Labels(em) = Labels(bs) /\ Code(em) = Put(Code(bs), b, Branch(v, l, m))
  BY <1>1, EmitEffect, CodeEmit DEF Labels
<1>3. BranchTo(bs, b, v, l, m) = Connect(to, b, m)
  BY DEF BranchTo
<1> HIDE DEF em
<1>4. Code(to) = Code(em) /\ to \in Seq(BasicBlock) /\ Labels(to) = Labels(em)
  BY <1>2, CodeConnect
<1> HIDE DEF to
<1> QED
  BY <1>1, <1>2, <1>3, <1>4, CodeConnect

-----------------------------------------------------------------------------
(* One more instruction in a block. *)
LEMMA AppendInstr ==
    ASSUME NEW is \in Seq(Instruction), NEW i \in Instruction
    PROVE  /\ Dsts(Append(is, i)) = Dsts(is) \cup ({i.dst} \ {NoTemp})
           /\ DOMAIN Append(is, i) = 1..(Len(is) + 1) /\ DOMAIN is = 1..Len(is) /\ Len(is) \in Nat
           /\ \A k \in 1..Len(is) : /\ Append(is, i)[k] = is[k]
                                    /\ Before(Append(is, i), k) = Before(is, k)
           /\ Append(is, i)[Len(is) + 1] = i
           /\ Before(Append(is, i), Len(is) + 1) = Dsts(is)
<1> DEFINE out == Append(is, i)
           n   == Len(is)
<1>1. /\ DOMAIN out = 1..(n + 1) /\ DOMAIN is = 1..n /\ n \in Nat
      /\ \A k \in 1..n : out[k] = is[k]
      /\ out[n + 1] = i
  OBVIOUS
<1> HIDE DEF out, n
<1>2. /\ \A k : k \in 1..(n + 1) <=> (k \in 1..n \/ k = n + 1)
      /\ (n + 1) - 1 = n
      /\ \A k \in 1..n : \A j \in 1..(k - 1) : j \in 1..n
  BY <1>1
<1>3. Dsts(out) = Dsts(is) \cup ({i.dst} \ {NoTemp})
  BY <1>1, <1>2 DEF Dsts
<1>4. \A k \in 1..n : Before(out, k) = Before(is, k)
  <2> TAKE k \in 1..n
  <2>1. \A j \in 1..(k - 1) : out[j] = is[j]
    BY <1>1, <1>2
  <2>2. {out[j].dst : j \in 1..(k - 1)} = {is[j].dst : j \in 1..(k - 1)}
    BY <2>1
  <2> QED
    BY <2>2 DEF Before
<1>5. Before(out, n + 1) = Dsts(is)
  <2>1. {out[j].dst : j \in 1..n} = {is[j].dst : j \in 1..n}
    BY <1>1
  <2> QED
    BY <1>1, <1>2, <2>1 DEF Before, Dsts
<1> QED
  BY <1>1, <1>3, <1>4, <1>5 DEF out, n

(* An instruction that uses what is known in its block, and goes to blocks  *)
(* that expect no more, keeps the certificate.                              *)
LEMMA CertPut ==
    ASSUME NEW c \in Codes, NEW a, Certified(c, a), NEW b \in DOMAIN c, NEW i \in Instruction,
           Uses(i) \subseteq Known(c, a, b),
           \A s \in Targets(i) : s \in DOMAIN c /\ a[s] \subseteq Known(c, a, b)
    PROVE  /\ Certified(Put(c, b, i), a)
           /\ Known(Put(c, b, i), a, b) = Known(c, a, b) \cup ({i.dst} \ {NoTemp})
<1> DEFINE e == Put(c, b, i)
           n == Len(c[b])
<1>1. /\ e \in Codes /\ DOMAIN e = DOMAIN c /\ c[b] \in Seq(Instruction) /\ e[b] = Append(c[b], i)
      /\ \A d \in DOMAIN c : d # b => e[d] = c[d]
  BY PutEffect
<1> HIDE DEF e
<1>2. /\ Dsts(e[b]) = Dsts(c[b]) \cup ({i.dst} \ {NoTemp})
      /\ DOMAIN e[b] = 1..(n + 1) /\ DOMAIN c[b] = 1..n /\ n \in Nat
      /\ \A k \in 1..n : e[b][k] = c[b][k] /\ Before(e[b], k) = Before(c[b], k)
      /\ e[b][n + 1] = i /\ Before(e[b], n + 1) = Dsts(c[b])
  BY <1>1, AppendInstr
<1> HIDE DEF n
<1>3. Known(e, a, b) = Known(c, a, b) \cup ({i.dst} \ {NoTemp})
  BY <1>2 DEF Known
<1>4. \A d \in DOMAIN c : Dsts(c[d]) \subseteq Dsts(e[d])
  BY <1>1, <1>2
<1>5. DOMAIN c = 1..Len(c) /\ Len(c) \in Nat
  BY DEF Codes
<1>6. ASSUME NEW d \in DOMAIN c, NEW t \in a[d]
      PROVE  \E f \in 1..(d - 1) : t \in Dsts(e[f])
  <2>1. PICK f \in 1..(d - 1) : t \in Dsts(c[f])
    BY <1>6 DEF Certified
  <2>2. f \in DOMAIN c
    BY <1>5, <2>1
  <2> QED
    BY <1>4, <2>1, <2>2
<1>7. ASSUME NEW d \in DOMAIN c, NEW k \in DOMAIN e[d]
      PROVE  /\ Uses(e[d][k]) \subseteq a[d] \cup Before(e[d], k)
             /\ \A s \in Targets(e[d][k]) : s \in DOMAIN c /\ a[s] \subseteq a[d] \cup Before(e[d], k)
  <2>1. CASE d = b /\ k = n + 1
    BY <1>2, <2>1 DEF Known
  <2>2. CASE d # b \/ k # n + 1
    <3>1. CASE d # b
      BY <1>1, <1>7, <3>1 DEF Certified
    <3>2. CASE d = b
      <4>1. k \in 1..n
        BY <1>2, <1>7, <2>2, <3>2
      <4>2. k \in DOMAIN c[d] /\ e[d][k] = c[d][k] /\ Before(e[d], k) = Before(c[d], k)
        BY <1>2, <3>2, <4>1
      <4> QED
        BY <4>2 DEF Certified
    <3> QED
      BY <3>1, <3>2
  <2> QED
    BY <2>1, <2>2
<1>8. DOMAIN a = DOMAIN e /\ (1 \in DOMAIN e => a[1] = {})
  BY <1>1 DEF Certified
<1>9. Certified(e, a)
  BY <1>1, <1>6, <1>7, <1>8 DEF Certified
<1> QED
  BY <1>3, <1>9 DEF e

(* A label allocated now may expect what is known now. *)
Extended(c, a, n, K) == [l \in 1..(Len(c) + n) |-> IF l \in DOMAIN c THEN a[l] ELSE K]

LEMMA CertGrow ==
    ASSUME NEW c \in Codes, NEW a, Certified(c, a), NEW b \in DOMAIN c, NEW n \in Nat
    PROVE  /\ Certified(Grow(c, n), Extended(c, a, n, Known(c, a, b)))
           /\ Known(Grow(c, n), Extended(c, a, n, Known(c, a, b)), b) = Known(c, a, b)
           /\ \A l \in DOMAIN c : /\ l \in DOMAIN Extended(c, a, n, Known(c, a, b))
                                  /\ Extended(c, a, n, Known(c, a, b))[l] = a[l]
           /\ \A k \in 1..n : /\ Len(c) + k \in DOMAIN Extended(c, a, n, Known(c, a, b))
                               /\ Extended(c, a, n, Known(c, a, b))[Len(c) + k] = Known(c, a, b)
<1> DEFINE K == Known(c, a, b)
           e == Extended(c, a, n, K)
           g == Grow(c, n)
           L == Len(c)
<1>1. /\ g \in Codes /\ DOMAIN g = 1..(L + n) /\ DOMAIN c = 1..L /\ L \in Nat
      /\ \A d \in 1..(L + n) : g[d] = IF d \in DOMAIN c THEN c[d] ELSE <<>>
  BY GrowEffect2
<1>2. DOMAIN e = 1..(L + n) /\ \A d \in 1..(L + n) : e[d] = IF d \in DOMAIN c THEN a[d] ELSE K
  BY DEF Extended
<1>3. K = a[b] \cup Dsts(c[b])
  BY DEF Known
<1> HIDE DEF g, e, K, L
<1>4. /\ \A d \in DOMAIN c : d \in 1..(L + n) /\ d - 1 \in Nat
      /\ \A k \in 1..n : L + k \in 1..(L + n) /\ L + k \notin DOMAIN c
      /\ \A d \in DOMAIN c : \A f \in 1..(d - 1) : f \in DOMAIN c /\ f \in 1..(L + n)
      /\ \A d \in 1..(L + n) : d \notin DOMAIN c =>
            \A f \in DOMAIN c : f \in 1..(d - 1)
  BY <1>1
<1>5. \A l \in DOMAIN c : l \in DOMAIN e /\ e[l] = a[l] /\ g[l] = c[l]
  BY <1>1, <1>2, <1>4
<1>6. \A k \in 1..n : L + k \in DOMAIN e /\ e[L + k] = K
  BY <1>2, <1>4
<1>7. Known(g, e, b) = K
  BY <1>3, <1>5 DEF Known
<1>8. ASSUME NEW d \in DOMAIN c, NEW t \in a[d]
      PROVE  \E f \in 1..(d - 1) : f \in DOMAIN c /\ t \in Dsts(g[f])
  <2>1. PICK f \in 1..(d - 1) : t \in Dsts(c[f])
    BY <1>8 DEF Certified
  <2> QED
    BY <1>4, <1>5, <2>1
<1>9. ASSUME NEW d \in DOMAIN g, NEW t \in e[d]
      PROVE  \E f \in 1..(d - 1) : t \in Dsts(g[f])
  <2>1. CASE d \in DOMAIN c
    BY <1>5, <1>8, <1>9, <2>1
  <2>2. CASE d \notin DOMAIN c
    <3>1. t \in a[b] \cup Dsts(g[b]) /\ b \in 1..(d - 1)
      BY <1>1, <1>2, <1>3, <1>4, <1>5, <1>9, <2>2
    <3>2. CASE t \in a[b]
      BY <1>1, <1>4, <1>8, <2>2, <3>2
    <3> QED
      BY <3>1, <3>2
  <2> QED
    BY <2>1, <2>2
<1>10. ASSUME NEW d \in DOMAIN g, NEW k \in DOMAIN g[d]
       PROVE  /\ Uses(g[d][k]) \subseteq e[d] \cup Before(g[d], k)
              /\ \A s \in Targets(g[d][k]) : s \in DOMAIN g /\ e[s] \subseteq e[d] \cup Before(g[d], k)
  <2>1. d \in DOMAIN c /\ k \in DOMAIN c[d]
    BY <1>1, <1>10
  <2>2. /\ Uses(c[d][k]) \subseteq a[d] \cup Before(c[d], k)
        /\ \A s \in Targets(c[d][k]) : s \in DOMAIN c /\ a[s] \subseteq a[d] \cup Before(c[d], k)
    BY <2>1 DEF Certified
  <2> QED
    BY <1>1, <1>4, <1>5, <2>1, <2>2
<1>11. DOMAIN e = DOMAIN g /\ (1 \in DOMAIN g => e[1] = {})
  <2>1. 1 \in DOMAIN c
    BY <1>1
  <2> QED
    BY <1>1, <1>2, <1>5, <2>1 DEF Certified
<1>12. Certified(g, e)
  BY <1>9, <1>10, <1>11 DEF Certified
<1> QED
  BY <1>5, <1>6, <1>7, <1>12 DEF g, e, K, L

-----------------------------------------------------------------------------
(* Writing a free temporary, or none. *)
LEMMA OncePut ==
    ASSUME NEW c \in Codes, NEW n \in Nat, Once(c, n), NEW b \in DOMAIN c, NEW i \in Instruction
    PROVE  /\ i.dst = NoTemp => Once(Put(c, b, i), n)
           /\ i.dst = n => Once(Put(c, b, i), n + 1)
<1> DEFINE e == Put(c, b, i)
           m == Len(c[b])
<1>1. /\ e \in Codes /\ DOMAIN e = DOMAIN c /\ c[b] \in Seq(Instruction) /\ e[b] = Append(c[b], i)
      /\ \A d \in DOMAIN c : d # b => e[d] = c[d]
  BY PutEffect
<1> HIDE DEF e
<1>2. /\ DOMAIN e[b] = 1..(m + 1) /\ DOMAIN c[b] = 1..m /\ m \in Nat
      /\ \A k \in 1..m : e[b][k] = c[b][k]
      /\ e[b][m + 1] = i
  BY <1>1, AppendInstr
<1> HIDE DEF m
<1>3. ASSUME NEW d \in DOMAIN c, NEW k \in DOMAIN e[d]
      PROVE  \/ d = b /\ k = m + 1 /\ e[d][k] = i
             \/ k \in DOMAIN c[d] /\ e[d][k] = c[d][k] /\ ~(d = b /\ k = m + 1)
  BY <1>1, <1>2, <1>3
<1>4. \A x \in {NoTemp} \cup 0..(n - 1) : x # n /\ x \in {NoTemp} \cup 0..((n + 1) - 1)
  BY DEF NoTemp
<1>5. NoTemp # n /\ n \in 0..((n + 1) - 1)
  BY DEF NoTemp
<1>6. ASSUME i.dst = NoTemp \/ i.dst = n, NEW d \in DOMAIN c, NEW f \in DOMAIN c,
             NEW k \in DOMAIN e[d], NEW j \in DOMAIN e[f],
             e[d][k].dst = e[f][j].dst, e[d][k].dst # NoTemp
      PROVE  d = f /\ k = j
  <2>1. /\ \A g \in DOMAIN c : \A h \in DOMAIN c[g] : c[g][h].dst \in {NoTemp} \cup 0..(n - 1)
        /\ \A g, h \in DOMAIN c : \A x \in DOMAIN c[g], y \in DOMAIN c[h] :
              c[g][x].dst = c[h][y].dst /\ c[g][x].dst # NoTemp => g = h /\ x = y
    BY DEF Once
  <2>2. /\ \/ d = b /\ k = m + 1 /\ e[d][k] = i
           \/ k \in DOMAIN c[d] /\ e[d][k] = c[d][k]
        /\ \/ f = b /\ j = m + 1 /\ e[f][j] = i
           \/ j \in DOMAIN c[f] /\ e[f][j] = c[f][j]
    BY <1>3
  <2> QED
    BY <1>4, <1>6, <2>1, <2>2
<1>7. ASSUME i.dst = NoTemp PROVE Once(e, n)
  <2>1. \A d \in DOMAIN e : \A k \in DOMAIN e[d] : e[d][k].dst \in {NoTemp} \cup 0..(n - 1)
    BY <1>1, <1>3, <1>7 DEF Once
  <2> QED
    BY <1>1, <1>6, <1>7, <2>1 DEF Once
<1>8. ASSUME i.dst = n PROVE Once(e, n + 1)
  <2>1. \A d \in DOMAIN e : \A k \in DOMAIN e[d] : e[d][k].dst \in {NoTemp} \cup 0..((n + 1) - 1)
    BY <1>1, <1>3, <1>4, <1>5, <1>8 DEF Once
  <2> QED
    BY <1>1, <1>6, <1>8, <2>1 DEF Once
<1> QED
  BY <1>7, <1>8 DEF e

LEMMA OnceMore ==
    ASSUME NEW c \in Codes, NEW n \in Nat, Once(c, n), NEW k \in Nat
    PROVE  Once(c, n + 1) /\ Once(Grow(c, k), n)
<1>1. 0..(n - 1) \subseteq 0..((n + 1) - 1)
  OBVIOUS
<1>2. Once(c, n + 1)
  BY <1>1 DEF Once
<1> DEFINE g == Grow(c, k)
<1>3. \A d \in DOMAIN g : g[d] = IF d \in DOMAIN c THEN c[d] ELSE <<>>
  BY GrowEffect2
<1> HIDE DEF g
<1>4. \A d \in DOMAIN g : \A j \in DOMAIN g[d] : d \in DOMAIN c /\ j \in DOMAIN c[d] /\ g[d][j] = c[d][j]
  BY <1>3
<1>5. Once(g, n)
  BY <1>4 DEF Once
<1> QED
  BY <1>2, <1>5 DEF g

-----------------------------------------------------------------------------
(* The labels a visit goes on to or jumps back to. *)
Ahead(fn, f) ==
    Range(f.labs) \cup (IF fn.nodes[f.node].kind \in {"while", "loop"} /\ f.pc > 0 THEN {f.head} ELSE {})

(* What the activation records hold is known in the open block, and in      *)
(* every block they, or the records above them, still go to.                *)
HeldBy(fn, st, a, f, l) ==
    \A g \in 1..f : /\ Temps(st[g].vals) \subseteq a[l]
                    /\ \A m \in Ahead(fn, st[g]) : a[m] \subseteq a[l]
Held(fn, st, K, a) ==
    \A f \in DOMAIN st :
        /\ Temps(st[f].vals) \subseteq K
        /\ \A l \in Ahead(fn, st[f]) : l \in DOMAIN a /\ a[l] \subseteq K /\ HeldBy(fn, st, a, f, l)

LEMMA HeldMore ==
    ASSUME NEW fn, NEW st, NEW a, NEW K, NEW M, Held(fn, st, K, a), K \subseteq M
    PROVE  Held(fn, st, M, a)
BY DEF Held

LEMMA HeldGrow ==
    ASSUME NEW fn, NEW st \in Seq(FrameType), NEW a, NEW K, NEW e, Held(fn, st, K, a),
           \A l \in DOMAIN a : l \in DOMAIN e /\ e[l] = a[l]
    PROVE  Held(fn, st, K, e)
<1>1. DOMAIN st = 1..Len(st) /\ Len(st) \in Nat
  OBVIOUS
<1>2. \A f \in DOMAIN st : \A g \in 1..f : g \in DOMAIN st
  BY <1>1
<1>3. \A f \in DOMAIN st : \A l \in Ahead(fn, st[f]) : l \in DOMAIN a /\ l \in DOMAIN e /\ e[l] = a[l]
  BY DEF Held
<1>4. \A f \in DOMAIN st : \A l \in Ahead(fn, st[f]) : HeldBy(fn, st, e, f, l)
  BY <1>2, <1>3 DEF Held, HeldBy
<1> QED
  BY <1>3, <1>4 DEF Held

(* In a block the innermost visit goes on to. *)
LEMMA HeldAt ==
    ASSUME NEW fn, NEW st \in Seq(FrameType), NEW a, NEW K, Held(fn, st, K, a), st # <<>>,
           NEW l \in Ahead(fn, st[Len(st)])
    PROVE  /\ Held(fn, st, a[l], a) /\ l \in DOMAIN a /\ a[l] \subseteq K
           /\ \A m \in Ahead(fn, st[Len(st)]) : m \in DOMAIN a /\ a[m] = a[l]
<1>1. DOMAIN st = 1..Len(st) /\ Len(st) \in Nat /\ Len(st) \in DOMAIN st
  OBVIOUS
<1>2. \A f \in DOMAIN st : f \in 1..Len(st)
  BY <1>1
<1>3. Len(st) \in 1..Len(st)
  BY <1>1
<1>4. l \in DOMAIN a /\ a[l] \subseteq K /\ HeldBy(fn, st, a, Len(st), l)
  BY <1>1 DEF Held
<1>5. \A f \in DOMAIN st : /\ Temps(st[f].vals) \subseteq a[l]
                           /\ \A m \in Ahead(fn, st[f]) : a[m] \subseteq a[l]
  BY <1>2, <1>4 DEF HeldBy
<1>6. Held(fn, st, a[l], a)
  BY <1>5 DEF Held
<1>7. \A m \in Ahead(fn, st[Len(st)]) : m \in DOMAIN a /\ a[l] \subseteq a[m]
  BY <1>1, <1>3 DEF Held, HeldBy
<1> QED
  BY <1>1, <1>4, <1>5, <1>6, <1>7

LEMMA HeldPop ==
    ASSUME NEW fn, NEW st \in Seq(FrameType), NEW a, NEW K, Held(fn, st, K, a), st # <<>>
    PROVE  Held(fn, PopOf(st), K, a)
<1> DEFINE out == PopOf(st)
           d   == Len(st)
<1>1. /\ DOMAIN out = 1..(d - 1) /\ DOMAIN st = 1..d /\ d \in Nat \ {0}
      /\ \A f \in 1..(d - 1) : out[f] = st[f]
  BY PopEffect
<1> HIDE DEF out, d
<1>2. \A f \in 1..(d - 1) : f \in DOMAIN st /\ \A g \in 1..f : g \in 1..(d - 1)
  BY <1>1
<1>3. \A f \in DOMAIN out : \A l : HeldBy(fn, st, a, f, l) => HeldBy(fn, out, a, f, l)
  BY <1>1, <1>2 DEF HeldBy
<1>4. Held(fn, out, K, a)
  BY <1>1, <1>2, <1>3 DEF Held
<1> QED
  BY <1>4 DEF out

(* The record left behind may go to any block that expects what is known. *)
LEMMA HeldPush ==
    ASSUME NEW fn, NEW st \in Seq(FrameType), NEW a, NEW K, Held(fn, st, K, a), st # <<>>,
           NEW f \in FrameType, NEW g \in FrameType,
           Temps(f.vals) \subseteq K, \A l \in Ahead(fn, f) : l \in DOMAIN a /\ a[l] = K,
           Temps(g.vals) = {}, Ahead(fn, g) = {}
    PROVE  Held(fn, PushOf(st, f, g), K, a)
<1> DEFINE out == PushOf(st, f, g)
           d   == Len(st)
<1>1. /\ DOMAIN out = 1..(d + 1) /\ DOMAIN st = 1..d /\ d \in Nat \ {0}
      /\ \A k \in 1..(d - 1) : out[k] = st[k]
      /\ out[d] = f /\ out[d + 1] = g
  BY PushEffect
<1> HIDE DEF out, d
<1>2. /\ \A k \in DOMAIN out : k \in 1..(d - 1) \/ k = d \/ k = d + 1
      /\ \A k \in 1..(d - 1) : k \in DOMAIN st /\ \A j \in 1..k : j \in 1..(d - 1)
      /\ \A j \in 1..d : j \in 1..(d - 1) \/ j = d
  BY <1>1
<1>3. \A k \in 1..(d - 1) : \A l : HeldBy(fn, st, a, k, l) => HeldBy(fn, out, a, k, l)
  BY <1>1, <1>2 DEF HeldBy
<1>4. \A k \in 1..d : Temps(out[k].vals) \subseteq K /\ \A m \in Ahead(fn, out[k]) : a[m] \subseteq K
  BY <1>1, <1>2 DEF Held
<1>5. \A l \in Ahead(fn, f) : HeldBy(fn, out, a, d, l)
  BY <1>4 DEF HeldBy
<1>6. \A k \in DOMAIN out : Temps(out[k].vals) \subseteq K
  BY <1>1, <1>2 DEF Held
<1>7. \A k \in DOMAIN out : \A l \in Ahead(fn, out[k]) :
          l \in DOMAIN a /\ a[l] \subseteq K /\ HeldBy(fn, out, a, k, l)
  <2> TAKE k \in DOMAIN out
  <2>1. CASE k \in 1..(d - 1)
    BY <1>1, <1>2, <1>3, <2>1 DEF Held
  <2>2. CASE k = d
    BY <1>1, <1>5, <2>2
  <2>3. CASE k = d + 1
    BY <1>1, <2>3
  <2> QED
    BY <1>2, <2>1, <2>2, <2>3
<1>8. Held(fn, out, K, a)
  BY <1>6, <1>7 DEF Held
<1> QED
  BY <1>8 DEF out

-----------------------------------------------------------------------------
(* The natural numbers are well-founded, as a statement about sets. *)
LEMMA Least ==
    ASSUME NEW T, T \subseteq Nat, T # {}
    PROVE  \E m \in T : \A k \in T : m <= k
<1> DEFINE R == {ss \in Nat \X Nat : ss[1] < ss[2]}
<1>1. IsWellFoundedOn(R, Nat)
  BY NatLessThanWellFounded DEF OpToRel
<1>2. \E m \in T : \A k \in T : ~(<<k, m>> \in R)
  <2> HIDE DEF R
  <2> QED
    BY <1>1, WFMin
<1>3. ASSUME NEW k \in Nat, NEW m \in Nat, k < m PROVE <<k, m>> \in R
  BY <1>3
<1> HIDE DEF R
<1>4. PICK m \in T : \A k \in T : ~(<<k, m>> \in R)
  BY <1>2
<1>5. \A k \in T : ~(k < m)
  BY <1>3, <1>4
<1> QED
  BY <1>5

(* The nodes from which one in B is reached along the edges E, as the least *)
(* set that is closed under them: it solves the recursion of Finds.        *)
LeadTo(D, B, E) ==
    {n \in D : \A S \in SUBSET D :
                  (\A k \in D : (k \in B \/ \E m \in S : <<k, m>> \in E) => k \in S) => n \in S}

LEMMA LeadToNext ==
    ASSUME NEW D, NEW B, NEW E
    PROVE  /\ LeadTo(D, B, E) \in SUBSET D
           /\ \A n \in D : n \in LeadTo(D, B, E) <=>
                              (n \in B \/ \E m \in LeadTo(D, B, E) : <<n, m>> \in E)
<1> DEFINE Closed(S) == \A n \in D : (n \in B \/ \E m \in S : <<n, m>> \in E) => n \in S
           L == LeadTo(D, B, E)
           M == {n \in D : n \in B \/ \E m \in L : <<n, m>> \in E}
<1>1. Closed(L)
  <2> SUFFICES ASSUME NEW n \in D, n \in B \/ \E m \in L : <<n, m>> \in E,
                      NEW S \in SUBSET D, Closed(S)
               PROVE  n \in S
    BY DEF LeadTo
  <2> QED
    BY DEF LeadTo
<1>2. M \subseteq L
  BY <1>1
<1>3. Closed(M)
  BY <1>2
<1>4. L \subseteq M
  BY <1>3 DEF LeadTo
<1>5. L \in SUBSET D
  BY DEF LeadTo
<1> QED
  BY <1>2, <1>4, <1>5

(* Finds satisfies its recursion, in every well-formed tree. *)
LEMMA FindsNext ==
    ASSUME NEW fn, fn.nodes \in Seq(AstNode), \A n \in DOMAIN fn.nodes : WellFormedNode(fn, n),
           NEW B, NEW E, NEW n \in DOMAIN fn.nodes
    PROVE  Finds(fn, B, E)[n] <=>
              \/ n \in B
              \/ \E k \in DOMAIN fn.nodes[n].kids :
                    <<n, k>> \in E /\ Finds(fn, B, E)[fn.nodes[n].kids[k]]
<1> DEFINE D == DOMAIN fn.nodes
           Body(r) == [x \in D |-> \/ x \in B
                                   \/ \E k \in DOMAIN fn.nodes[x].kids :
                                         <<x, k>> \in E /\ r[fn.nodes[x].kids[k]]]
           G == {e \in D \X D : \E k \in DOMAIN fn.nodes[e[1]].kids :
                                   <<e[1], k>> \in E /\ fn.nodes[e[1]].kids[k] = e[2]}
<1>0. \A T, H : /\ LeadTo(T, B, H) \in SUBSET T
                /\ \A x \in T : x \in LeadTo(T, B, H) <=>
                                   (x \in B \/ \E m \in LeadTo(T, B, H) : <<x, m>> \in H)
  BY LeadToNext
<1>1. \A x \in D : \A k \in DOMAIN fn.nodes[x].kids : fn.nodes[x].kids[k] \in D
  <2> TAKE x \in D
  <2> TAKE k \in DOMAIN fn.nodes[x].kids
  <2>1. fn.nodes[x].kids[k] \in 1..(x - 1)
    BY DEF WellFormedNode
  <2> QED
    BY <2>1
<1> DEFINE S == LeadTo(D, B, G)
<1>2. S \in SUBSET D /\ \A x \in D : x \in S <=> (x \in B \/ \E m \in S : <<x, m>> \in G)
  <2> HIDE DEF D, G
  <2> QED
    BY <1>0
<1> HIDE DEF S
<1> DEFINE s == [x \in D |-> x \in S]
<1>3. ASSUME NEW x \in D
      PROVE  s[x] = (\/ x \in B
                     \/ \E k \in DOMAIN fn.nodes[x].kids : <<x, k>> \in E /\ s[fn.nodes[x].kids[k]])
  <2>1. (\E m \in S : <<x, m>> \in G) <=>
           \E k \in DOMAIN fn.nodes[x].kids : <<x, k>> \in E /\ fn.nodes[x].kids[k] \in S
    BY <1>1, <1>3
  <2>2. x \in S <=> (x \in B \/ \E m \in S : <<x, m>> \in G)
    BY <1>2, <1>3
  <2>3. \A k \in DOMAIN fn.nodes[x].kids : s[fn.nodes[x].kids[k]] = (fn.nodes[x].kids[k] \in S)
    BY <1>1, <1>3
  <2>4. s[x] = (x \in S)
    BY <1>3
  <2> HIDE DEF s, G, D
  <2>5. (\E k \in DOMAIN fn.nodes[x].kids : <<x, k>> \in E /\ s[fn.nodes[x].kids[k]])
           <=> \E k \in DOMAIN fn.nodes[x].kids : <<x, k>> \in E /\ fn.nodes[x].kids[k] \in S
    BY <2>3, Zenon
  <2> HIDE DEF S
  <2> DEFINE Q == \/ x \in B
                  \/ \E k \in DOMAIN fn.nodes[x].kids : <<x, k>> \in E /\ s[fn.nodes[x].kids[k]]
  <2>6. x \in S <=> Q
    BY <2>1, <2>2, <2>5, Zenon
  <2> HIDE DEF Q
  <2>7. (x \in S) = Q
    BY <2>6
  <2> USE DEF Q
  <2> QED
    BY <2>4, <2>7, Zenon
<1>4. s = Body(s)
  BY <1>3
<1>5. Finds(fn, B, E) = CHOOSE r : r = Body(r)
  BY DEF Finds
<1> HIDE DEF Body, s
<1>6. Finds(fn, B, E) = Body(Finds(fn, B, E))
  BY <1>4, <1>5
<1> QED
  BY <1>6 DEF Body

(* The edges that Finds is used with. *)
LEMMA EdgesOf ==
    ASSUME NEW fn, NEW n \in DOMAIN fn.nodes, NEW k
    PROVE  /\ <<n, k>> \in OperandsOf(fn) <=> k \in DOMAIN fn.nodes[n].kids
           /\ <<n, k>> \in OutsideLoops(fn) <=>
                 k \in DOMAIN fn.nodes[n].kids /\ ~IsLoopBody(fn.nodes[n], k)
<1>1. <<n, k>> \in OperandsOf(fn) <=> k \in DOMAIN fn.nodes[n].kids
  BY DEF OperandsOf
<1>2. <<n, k>>[1] = n /\ <<n, k>>[2] = k
  OBVIOUS
<1> QED
  BY <1>1, <1>2 DEF OutsideLoops

LEMMA StrayNext ==
    ASSUME NEW fn, fn.nodes \in Seq(AstNode), \A n \in DOMAIN fn.nodes : WellFormedNode(fn, n),
           NEW n \in DOMAIN fn.nodes
    PROVE  Stray(fn)[n] <=>
              \/ fn.nodes[n].kind \in {"break", "continue"}
              \/ \E k \in DOMAIN fn.nodes[n].kids :
                    ~IsLoopBody(fn.nodes[n], k) /\ Stray(fn)[fn.nodes[n].kids[k]]
<1> DEFINE B == NodesOf(fn, {"break", "continue"})
<1>1. n \in B <=> fn.nodes[n].kind \in {"break", "continue"}
  BY DEF NodesOf
<1>2. \A k \in DOMAIN fn.nodes[n].kids : <<n, k>> \in OutsideLoops(fn) <=> ~IsLoopBody(fn.nodes[n], k)
  BY EdgesOf
<1> HIDE DEF B
<1>3. Finds(fn, B, OutsideLoops(fn))[n] <=>
         \/ n \in B
         \/ \E k \in DOMAIN fn.nodes[n].kids :
               <<n, k>> \in OutsideLoops(fn) /\ Finds(fn, B, OutsideLoops(fn))[fn.nodes[n].kids[k]]
  BY FindsNext
<1>4. Stray(fn) = Finds(fn, B, OutsideLoops(fn))
  BY DEF Stray, B
<1> QED
  BY <1>1, <1>2, <1>3, <1>4, Zenon

LEMMA HasLoopNext ==
    ASSUME NEW fn, fn.nodes \in Seq(AstNode), \A n \in DOMAIN fn.nodes : WellFormedNode(fn, n),
           NEW n \in DOMAIN fn.nodes
    PROVE  HasLoop(fn)[n] <=>
              \/ fn.nodes[n].kind \in {"while", "loop"}
              \/ \E k \in DOMAIN fn.nodes[n].kids : HasLoop(fn)[fn.nodes[n].kids[k]]
<1> DEFINE B == NodesOf(fn, {"while", "loop"})
<1>1. n \in B <=> fn.nodes[n].kind \in {"while", "loop"}
  BY DEF NodesOf
<1>2. \A k \in DOMAIN fn.nodes[n].kids : <<n, k>> \in OperandsOf(fn)
  BY EdgesOf
<1> HIDE DEF B
<1>3. Finds(fn, B, OperandsOf(fn))[n] <=>
         \/ n \in B
         \/ \E k \in DOMAIN fn.nodes[n].kids :
               <<n, k>> \in OperandsOf(fn) /\ Finds(fn, B, OperandsOf(fn))[fn.nodes[n].kids[k]]
  BY FindsNext
<1>4. HasLoop(fn) = Finds(fn, B, OperandsOf(fn))
  BY DEF HasLoop, B
<1> QED
  BY <1>1, <1>2, <1>3, <1>4, Zenon

LEMMA BareNext ==
    ASSUME NEW fn, fn.nodes \in Seq(AstNode), \A n \in DOMAIN fn.nodes : WellFormedNode(fn, n),
           NEW n \in DOMAIN fn.nodes
    PROVE  Bare(fn)[n] <=>
              \/ fn.nodes[n].kind = "break" /\ fn.nodes[n].kids = <<>>
              \/ \E k \in DOMAIN fn.nodes[n].kids :
                    ~IsLoopBody(fn.nodes[n], k) /\ Bare(fn)[fn.nodes[n].kids[k]]
<1> DEFINE B == {b \in NodesOf(fn, {"break"}) : fn.nodes[b].kids = <<>>}
<1>1. n \in B <=> fn.nodes[n].kind = "break" /\ fn.nodes[n].kids = <<>>
  BY DEF NodesOf
<1>2. \A k \in DOMAIN fn.nodes[n].kids : <<n, k>> \in OutsideLoops(fn) <=> ~IsLoopBody(fn.nodes[n], k)
  BY EdgesOf
<1> HIDE DEF B
<1>3. Finds(fn, B, OutsideLoops(fn))[n] <=>
         \/ n \in B
         \/ \E k \in DOMAIN fn.nodes[n].kids :
               <<n, k>> \in OutsideLoops(fn) /\ Finds(fn, B, OutsideLoops(fn))[fn.nodes[n].kids[k]]
  BY FindsNext
<1>4. Bare(fn) = Finds(fn, B, OutsideLoops(fn))
  BY DEF Bare, B
<1> QED
  BY <1>1, <1>2, <1>3, <1>4, Zenon

LEMMA ReadsNext ==
    ASSUME NEW fn, fn.nodes \in Seq(AstNode), \A n \in DOMAIN fn.nodes : WellFormedNode(fn, n),
           NEW n \in DOMAIN fn.nodes, NEW x
    PROVE  /\ fn.nodes[n].kind = "ident" /\ fn.nodes[n].sym = x => Reads(fn, x)[n]
           /\ \A k \in DOMAIN fn.nodes[n].kids :
                 Reads(fn, x)[fn.nodes[n].kids[k]] => Reads(fn, x)[n] \/ x \in LetsBefore(fn, n, k)
<1> DEFINE B == {b \in NodesOf(fn, {"ident"}) : fn.nodes[b].sym = x}
           E == {e \in OperandsOf(fn) : x \notin LetsBefore(fn, e[1], e[2])}
<1>1. n \in B <=> fn.nodes[n].kind = "ident" /\ fn.nodes[n].sym = x
  BY DEF NodesOf
<1>2. \A k \in DOMAIN fn.nodes[n].kids : <<n, k>> \in E <=> x \notin LetsBefore(fn, n, k)
  <2> TAKE k \in DOMAIN fn.nodes[n].kids
  <2>1. <<n, k>> \in OperandsOf(fn) /\ <<n, k>>[1] = n /\ <<n, k>>[2] = k
    BY EdgesOf
  <2> QED
    BY <2>1
<1> HIDE DEF B, E
<1>3. Finds(fn, B, E)[n] <=>
         \/ n \in B
         \/ \E k \in DOMAIN fn.nodes[n].kids : <<n, k>> \in E /\ Finds(fn, B, E)[fn.nodes[n].kids[k]]
  BY FindsNext
<1>4. Reads(fn, x) = Finds(fn, B, E)
  BY DEF Reads, B, E
<1> QED
  BY <1>1, <1>2, <1>3, <1>4, Zenon

-----------------------------------------------------------------------------
(* Blocks outside of a set that the entry block is in, and that control     *)
(* leaves only from a block to be avoided, are not entered.                 *)
LEMMA EnteredInside ==
    ASSUME NEW fn, NEW N \in Nat, Check!Labels(fn) = 1..N, Len(fn.blocks) = N, NEW avoid, NEW S,
           S \subseteq 1..N, 1 \in S,
           \A b \in 1..N : Check!FlowTo(fn, b) \subseteq 1..N,
           \A b \in S : b \notin avoid => Check!FlowTo(fn, b) \subseteq S
    PROVE  Check!EnteredAvoiding(fn, avoid) \subseteq S
<1> DEFINE U == 1..N
           Flow(b) == Check!FlowTo(fn, b)
           Body(r) == [n \in 0..N |->
                         IF n = 0 THEN {1}
                         ELSE LET before == r[n - 1]
                              IN  before \cup UNION {Check!FlowTo(fn, b) : b \in before \ avoid}]
           D == (0..N) \X U
           B == {<<0, 1>>}
           E == {e \in D \X D : /\ e[1][1] > 0 /\ e[2][1] = e[1][1] - 1
                                /\ \/ e[2][2] = e[1][2]
                                   \/ e[2][2] \notin avoid /\ e[1][2] \in Flow(e[2][2])}
           R == LeadTo(D, B, E)
           g == [n \in 0..N |-> {b \in U : <<n, b>> \in R}]
<1>1. /\ R \in SUBSET D
      /\ \A x \in D : x \in R <=> (x \in B \/ \E y \in R : <<x, y>> \in E)
  <2> HIDE DEF D, B, E
  <2> QED
    BY LeadToNext
<1> HIDE DEF R
<1>2. \A n \in 0..N, b \in U : <<n, b>> \in D
  OBVIOUS
<1>3. g[0] = {1}
  <2>1. \A b \in U : <<0, b>> \in R <=> b = 1
    <3> TAKE b \in U
    <3>1. <<0, b>> \in D
      BY <1>2
    <3>2. \A y \in R : <<<<0, b>>, y>> \notin E
      OBVIOUS
    <3> HIDE DEF E, D
    <3>3. <<0, b>> \in R <=> <<0, b>> \in B
      BY <1>1, <3>1, <3>2
    <3> QED
      BY <3>3
  <2>2. 1 \in U /\ 0 \in 0..N
    OBVIOUS
  <2> QED
    BY <2>1, <2>2
<1>4. ASSUME NEW n \in 1..N
      PROVE  g[n] = g[n - 1] \cup UNION {Flow(b) : b \in g[n - 1] \ avoid}
  <2>1. n \in 0..N /\ n - 1 \in 0..N /\ n > 0
    BY <1>4
  <2>2. g[n] = {b \in U : <<n, b>> \in R} /\ g[n - 1] = {b \in U : <<n - 1, b>> \in R}
    BY <2>1
  <2>3. ASSUME NEW b \in U
        PROVE  <<n, b>> \in R <=> \E d \in U : /\ <<n - 1, d>> \in R
                                               /\ d = b \/ (d \notin avoid /\ b \in Flow(d))
    <3>1. <<n, b>> \in D /\ <<n, b>> \notin B /\ \A d \in U : <<n - 1, d>> \in D
      BY <1>2, <2>1, <2>3
    <3>2. <<n, b>> \in R <=> \E y \in R : <<<<n, b>>, y>> \in E
      <4> HIDE DEF D, B, E
      <4> QED
        BY <1>1, <3>1
    <3>3. ASSUME NEW y \in R, <<<<n, b>>, y>> \in E
          PROVE  \E d \in U : <<n - 1, d>> \in R /\ (d = b \/ (d \notin avoid /\ b \in Flow(d)))
      <4>1. y \in D /\ y[1] = n - 1 /\ (y[2] = b \/ (y[2] \notin avoid /\ b \in Flow(y[2])))
        BY <1>1, <3>3
      <4>2. y = <<n - 1, y[2]>> /\ y[2] \in U
        BY <4>1
      <4> QED
        BY <3>3, <4>1, <4>2
    <3>4. ASSUME NEW d \in U, <<n - 1, d>> \in R, d = b \/ (d \notin avoid /\ b \in Flow(d))
          PROVE  <<<<n, b>>, <<n - 1, d>>>> \in E
      BY <2>1, <3>1, <3>4
    <3> HIDE DEF E
    <3> QED
      BY <3>2, <3>3, <3>4
  <2>4. \A d \in U : Flow(d) \subseteq U
    OBVIOUS
  <2> HIDE DEF g, Flow, U
  <2>5. \A b : b \in g[n] <=> b \in g[n - 1] \cup UNION {Flow(d) : d \in g[n - 1] \ avoid}
    <3> TAKE b
    <3>1. ASSUME b \in g[n]
          PROVE  b \in g[n - 1] \cup UNION {Flow(d) : d \in g[n - 1] \ avoid}
      <4>1. PICK d \in U : <<n - 1, d>> \in R /\ (d = b \/ (d \notin avoid /\ b \in Flow(d)))
        BY <2>2, <2>3, <3>1
      <4> QED
        BY <2>2, <4>1
    <3>2. ASSUME b \in g[n - 1]
          PROVE  b \in g[n]
      BY <2>2, <2>3, <3>2
    <3>3. ASSUME NEW d \in g[n - 1] \ avoid, b \in Flow(d)
          PROVE  b \in g[n]
      BY <2>2, <2>3, <2>4, <3>3
    <3> QED
      BY <3>1, <3>2, <3>3
  <2> QED
    BY <2>5
<1>5. g = Body(g)
  <2>1. \A n \in 0..N : n # 0 => n \in 1..N
    OBVIOUS
  <2>2. \A n \in 0..N : g[n] = IF n = 0 THEN {1}
                               ELSE g[n - 1] \cup UNION {Check!FlowTo(fn, b) : b \in g[n - 1] \ avoid}
    <3> HIDE DEF g
    <3> QED
      BY <1>3, <1>4, <2>1
  <2>3. g = [n \in 0..N |-> g[n]]
    OBVIOUS
  <2> HIDE DEF g
  <2> QED
    BY <2>2, <2>3
<1> DEFINE entered == CHOOSE r : r = Body(r)
<1>6. Check!EnteredAvoiding(fn, avoid) = entered[N]
  BY DEF Check!EnteredAvoiding
<1> HIDE DEF g
<1>7. entered = Body(entered)
  <2> HIDE DEF Body
  <2> QED
    BY <1>5
<1> HIDE DEF entered
<1>8. /\ entered[0] = {1}
      /\ \A n \in 1..N : entered[n] = entered[n - 1] \cup UNION {Flow(b) : b \in entered[n - 1] \ avoid}
  <2>1. \A n \in 0..N : entered[n] = IF n = 0 THEN {1}
           ELSE entered[n - 1] \cup UNION {Check!FlowTo(fn, b) : b \in entered[n - 1] \ avoid}
    BY <1>7
  <2>2. 0 \in 0..N /\ \A n \in 1..N : n \in 0..N /\ n # 0
    OBVIOUS
  <2> QED
    BY <2>1, <2>2
<1> HIDE DEF Flow, Body
<1>9. ASSUME NEW n \in 1..N, entered[n - 1] \subseteq S
      PROVE  entered[n] \subseteq S
  <2>1. \A b \in S : b \notin avoid => Flow(b) \subseteq S
    BY DEF Flow
  <2>2. \A b \in entered[n - 1] \ avoid : Flow(b) \subseteq S
    BY <1>9, <2>1
  <2>3. UNION {Flow(b) : b \in entered[n - 1] \ avoid} \subseteq S
    BY <2>2
  <2>4. entered[n] = entered[n - 1] \cup UNION {Flow(b) : b \in entered[n - 1] \ avoid}
    BY <1>8
  <2> QED
    BY <1>9, <2>3, <2>4
<1> DEFINE T == {n \in 0..N : ~(entered[n] \subseteq S)}
<1>10. T = {}
  <2> SUFFICES ASSUME T # {} PROVE FALSE
    OBVIOUS
  <2>1. PICK m \in T : \A k \in T : m <= k
    <3>1. T \subseteq Nat
      OBVIOUS
    <3> HIDE DEF T
    <3> QED
      BY <3>1, Least
  <2>2. m # 0
    BY <1>8, <2>1
  <2>3. m \in 1..N /\ m - 1 \in 0..N /\ ~(m <= m - 1)
    BY <2>1, <2>2
  <2>4. entered[m - 1] \subseteq S
    BY <2>1, <2>3
  <2> QED
    BY <1>9, <2>1, <2>3, <2>4
<1>11. N \in 0..N
  OBVIOUS
<1> QED
  BY <1>6, <1>10, <1>11

-----------------------------------------------------------------------------
(* A function whose code has a certificate. *)
LEMMA PositionsOf ==
    ASSUME NEW fn, fn.blocks \in Seq(BasicBlock)
    PROVE  /\ Check!Labels(fn) = 1..Len(fn.blocks) /\ Len(fn.blocks) \in Nat
           /\ Code(fn.blocks) \in Codes /\ DOMAIN Code(fn.blocks) = Check!Labels(fn)
           /\ \A p : p \in Check!Positions(fn) <=>
                        \E b \in Check!Labels(fn) : \E k \in DOMAIN Code(fn.blocks)[b] : p = <<b, k>>
           /\ \A b \in Check!Labels(fn) : \A k : Check!At(fn, <<b, k>>) = Code(fn.blocks)[b][k]
           /\ \A b \in Check!Labels(fn) : DOMAIN Code(fn.blocks)[b] = 1..Len(Code(fn.blocks)[b])
                                          /\ Code(fn.blocks)[b] = fn.blocks[b].instrs
                                          /\ Len(Code(fn.blocks)[b]) \in Nat
<1> DEFINE bs == fn.blocks
           c  == Code(bs)
<1>1. Check!Labels(fn) = 1..Len(bs) /\ Len(bs) \in Nat
  BY DEF Check!Labels
<1>2. /\ c \in Codes /\ DOMAIN c = 1..Len(bs) /\ \A b \in 1..Len(bs) : c[b] = bs[b].instrs
  BY CodeOf DEF Labels
<1>3. \A b \in 1..Len(bs) : c[b] \in Seq(Instruction)
  BY <1>2 DEF Codes
<1>4. \A b \in 1..Len(bs) : DOMAIN c[b] = 1..Len(c[b]) /\ Len(c[b]) \in Nat
  BY <1>3
<1>5. \A b \in 1..Len(bs) : \A k : Check!At(fn, <<b, k>>) = c[b][k]
  BY <1>2 DEF Check!At
<1>6. \A p : p \in Check!Positions(fn) <=> \E b \in 1..Len(bs) : \E k \in DOMAIN c[b] : p = <<b, k>>
  <2> TAKE p
  <2>1. p \in Check!Positions(fn) <=> \E b \in 1..Len(bs) : p \in {b} \X DOMAIN bs[b].instrs
    BY <1>1 DEF Check!Positions
  <2>2. \A b \in 1..Len(bs) : p \in {b} \X DOMAIN bs[b].instrs <=> \E k \in DOMAIN c[b] : p = <<b, k>>
    BY <1>2
  <2> QED
    BY <2>1, <2>2
<1> QED
  BY <1>1, <1>2, <1>4, <1>5, <1>6

LEMMA DefinedWhere ==
    ASSUME NEW fn, fn.blocks \in Seq(BasicBlock), NEW b \in Check!Labels(fn),
           NEW t, t # NoTemp
    PROVE  /\ t \in Dsts(Code(fn.blocks)[b]) =>
                 \E j \in DOMAIN Code(fn.blocks)[b] : <<b, j>> \in Check!DefsOf(fn, t)
           /\ \A k \in DOMAIN Code(fn.blocks)[b] :
                 t \in Before(Code(fn.blocks)[b], k) =>
                    \E j \in 1..(k - 1) : j \in DOMAIN Code(fn.blocks)[b] /\ <<b, j>> \in Check!DefsOf(fn, t)
<1> DEFINE c == Code(fn.blocks)
<1>1. \A j \in DOMAIN c[b] : <<b, j>> \in Check!Positions(fn) /\ Check!At(fn, <<b, j>>) = c[b][j]
  BY PositionsOf
<1>2. DOMAIN c[b] = 1..Len(c[b]) /\ Len(c[b]) \in Nat
  BY PositionsOf
<1> HIDE DEF c
<1>3. \A j \in DOMAIN c[b] : c[b][j].dst = t => <<b, j>> \in Check!DefsOf(fn, t)
  BY <1>1 DEF Check!DefsOf
<1>4. \A k \in DOMAIN c[b] : \A j \in 1..(k - 1) : j \in DOMAIN c[b]
  BY <1>2
<1>5. t \in Dsts(c[b]) => \E j \in DOMAIN c[b] : <<b, j>> \in Check!DefsOf(fn, t)
  BY <1>3 DEF Dsts
<1>6. ASSUME NEW k \in DOMAIN c[b], t \in Before(c[b], k)
      PROVE  \E j \in 1..(k - 1) : j \in DOMAIN c[b] /\ <<b, j>> \in Check!DefsOf(fn, t)
  <2>1. PICK j \in 1..(k - 1) : c[b][j].dst = t
    BY <1>6 DEF Before
  <2> QED
    BY <1>3, <1>4, <2>1
<1> QED
  BY <1>5, <1>6 DEF c

(* The definitions of IR as module IRCheck sees them. *)
LEMMA SameIR == Check!NoTemp = NoTemp /\ \A i : Check!Uses(i) = Uses(i) /\ Check!Targets(i) = Targets(i)
BY DEF Check!NoTemp, NoTemp, Check!Uses, Uses, Check!Targets, Targets

(* The temporaries used at a position are among those known before it. *)
LEMMA UsesKnown ==
    ASSUME NEW fn, fn.blocks \in Seq(BasicBlock), NEW a, Certified(Code(fn.blocks), a),
           NEW b \in Check!Labels(fn), NEW k \in DOMAIN Code(fn.blocks)[b],
           NEW t \in Uses(Check!At(fn, <<b, k>>))
    PROVE  /\ t # NoTemp
           /\ \/ t \in Before(Code(fn.blocks)[b], k)
              \/ t \in a[b] /\ \E d \in 1..(b - 1) : t \in Dsts(Code(fn.blocks)[d])
<1> DEFINE c == Code(fn.blocks)
<1>1. DOMAIN c = Check!Labels(fn) /\ Check!At(fn, <<b, k>>) = c[b][k]
  BY PositionsOf
<1> HIDE DEF c
<1>2. Uses(c[b][k]) \subseteq a[b] \cup Before(c[b], k) /\ \A s \in a[b] : \E d \in 1..(b - 1) : s \in Dsts(c[d])
  <2> k \in DOMAIN c[b] /\ Certified(c, a)
    BY DEF c
  <2> QED
    BY <1>1 DEF Certified
<1>3. t \in Before(c[b], k) \/ (t \in a[b] /\ \E d \in 1..(b - 1) : t \in Dsts(c[d]))
  BY <1>1, <1>2
<1>4. t # NoTemp
  BY <1>3 DEF Before, Dsts
<1> QED
  BY <1>3, <1>4 DEF c

LEMMA CertifiedInListOrder ==
    ASSUME NEW fn, fn.blocks \in Seq(BasicBlock), NEW a, Certified(Code(fn.blocks), a)
    PROVE  Check!DefinedInListOrder(fn)
<1> DEFINE c == Code(fn.blocks)
<1> SUFFICES ASSUME NEW p \in Check!Positions(fn), NEW t \in Uses(Check!At(fn, p))
             PROVE  \E q \in Check!DefsOf(fn, t) : q[1] < p[1] \/ (q[1] = p[1] /\ q[2] < p[2])
  BY SameIR DEF Check!DefinedInListOrder
<1>1a. PICK b \in Check!Labels(fn) : \E k \in DOMAIN c[b] : p = <<b, k>>
  BY PositionsOf
<1>1. PICK k \in DOMAIN c[b] : p = <<b, k>>
  BY <1>1a
<1>2. /\ t # NoTemp
      /\ t \in Before(c[b], k) \/ \E d \in 1..(b - 1) : t \in Dsts(c[d])
  BY <1>1, UsesKnown
<1>3. /\ DOMAIN c[b] = 1..Len(c[b]) /\ Len(c[b]) \in Nat
      /\ Check!Labels(fn) = 1..Len(fn.blocks) /\ Len(fn.blocks) \in Nat
  BY PositionsOf
<1>4. p[1] = b /\ p[2] = k
  BY <1>1
<1>5. CASE t \in Before(c[b], k)
  <2>1. PICK j \in 1..(k - 1) : <<b, j>> \in Check!DefsOf(fn, t)
    BY <1>2, <1>5, DefinedWhere
  <2>2. j < k
    BY <1>3, <2>1
  <2>3. <<b, j>>[1] = b /\ <<b, j>>[2] = j
    OBVIOUS
  <2> QED
    BY <1>4, <2>1, <2>2, <2>3
<1>6. CASE \E d \in 1..(b - 1) : t \in Dsts(c[d])
  <2>1. PICK d \in 1..(b - 1) : t \in Dsts(c[d])
    BY <1>6
  <2>2. d \in Check!Labels(fn) /\ d < b
    BY <1>3, <2>1
  <2>3. PICK j : <<d, j>> \in Check!DefsOf(fn, t)
    BY <1>2, <2>1, <2>2, DefinedWhere
  <2>4. <<d, j>>[1] = d
    OBVIOUS
  <2> QED
    BY <1>4, <2>2, <2>3, <2>4
<1> QED
  BY <1>2, <1>5, <1>6

LEMMA CertifiedOnEveryPath ==
    ASSUME NEW fn, fn.blocks \in Seq(BasicBlock), NEW a, Certified(Code(fn.blocks), a)
    PROVE  Check!DefinedOnEveryPath(fn)
<1> DEFINE c == Code(fn.blocks)
           N == Len(fn.blocks)
<1> SUFFICES ASSUME NEW p \in Check!LiveUses(fn), NEW t \in Uses(Check!At(fn, p))
             PROVE  Check!PassedBefore(fn, p, Check!DefsOf(fn, t))
  BY SameIR DEF Check!DefinedOnEveryPath
<1>1. p \in Check!Positions(fn) /\ Check!Live(fn, p)
  BY DEF Check!LiveUses
<1>2a. PICK b \in Check!Labels(fn) : \E k \in DOMAIN c[b] : p = <<b, k>>
  BY <1>1, PositionsOf
<1>2. PICK k \in DOMAIN c[b] : p = <<b, k>>
  BY <1>2a
<1>3. p[1] = b /\ p[2] = k
  BY <1>2
<1>4. t # NoTemp /\ (t \in Before(c[b], k) \/ t \in a[b])
  BY <1>2, UsesKnown
<1>5. /\ DOMAIN c = 1..N /\ Check!Labels(fn) = 1..N /\ N \in Nat
      /\ \A d \in 1..N : DOMAIN c[d] = 1..Len(c[d]) /\ Len(c[d]) \in Nat /\ c[d] = fn.blocks[d].instrs
      /\ \A d \in 1..N : \A j : Check!At(fn, <<d, j>>) = c[d][j]
  BY PositionsOf
<1>6. CASE t \in Before(c[b], k)
  <2>1. PICK j \in 1..(k - 1) : <<b, j>> \in Check!DefsOf(fn, t)
    BY <1>4, <1>6, DefinedWhere
  <2>2. j < k /\ <<b, j>>[1] = b /\ <<b, j>>[2] = j
    BY <1>5, <2>1
  <2> QED
    BY <1>3, <2>1, <2>2 DEF Check!PassedBefore
<1>7. CASE t \in a[b]
  <2> DEFINE defs  == Check!DefsOf(fn, t)
             avoid == {q[1] : q \in {r \in defs : Check!Live(fn, r)}}
             S     == {d \in 1..N : t \notin a[d]}
  <2>1. 1 \in S
    <3>1. 1 \in 1..N
      BY <1>5
    <3> QED
      BY <1>5, <3>1 DEF Certified
  <2>2. ASSUME NEW d \in 1..N, NEW s \in Check!FlowTo(fn, d)
        PROVE  \E j \in DOMAIN c[d] : /\ Check!Live(fn, <<d, j>>) /\ s \in Targets(c[d][j])
                                      /\ s \in 1..N /\ a[s] \subseteq a[d] \cup Before(c[d], j)
    <3>1. PICK j \in Check!Exits(fn, d) : Check!Live(fn, <<d, j>>) /\ s \in Targets(Check!At(fn, <<d, j>>))
      BY <2>2, SameIR DEF Check!FlowTo
    <3>2. j \in DOMAIN c[d] /\ Check!At(fn, <<d, j>>) = c[d][j]
      BY <1>5, <3>1 DEF Check!Exits
    <3>3. s \in DOMAIN c /\ a[s] \subseteq a[d] \cup Before(c[d], j)
      BY <1>5, <3>1, <3>2 DEF Certified
    <3> QED
      BY <1>5, <3>1, <3>2, <3>3
  <2>3. ASSUME NEW d \in S, d \notin avoid
        PROVE  Check!FlowTo(fn, d) \subseteq S
    <3> SUFFICES ASSUME NEW s \in Check!FlowTo(fn, d) PROVE s \in S
      OBVIOUS
    <3>1. PICK j \in DOMAIN c[d] : /\ Check!Live(fn, <<d, j>>)
                                   /\ s \in 1..N /\ a[s] \subseteq a[d] \cup Before(c[d], j)
      BY <2>2
    <3>2. ASSUME t \in a[s] PROVE FALSE
      <4>1. t \in Before(c[d], j)
        BY <3>1, <3>2
      <4>2. PICK i \in 1..(j - 1) : <<d, i>> \in defs
        BY <1>4, <1>5, <3>1, <4>1, DefinedWhere
      <4>3. Check!Live(fn, <<d, i>>)
        <5>1. \A e \in Check!Exits(fn, d) : j <= e /\ e \in Nat
          BY <1>5, <3>1 DEF Check!Live, Check!Exits
        <5>2. \A e \in Check!Exits(fn, d) : i <= e
          BY <1>5, <3>1, <4>2, <5>1
        <5> QED
          BY <5>2 DEF Check!Live
      <4>4. d \in avoid
        <5>1. <<d, i>>[1] = d
          OBVIOUS
        <5> QED
          BY <4>2, <4>3, <5>1
      <4> QED
        BY <2>3, <4>4
    <3> QED
      BY <3>1, <3>2
  <2>4. S \subseteq 1..N /\ \A d \in 1..N : Check!FlowTo(fn, d) \subseteq 1..N
    BY <2>2
  <2>5. Check!EnteredAvoiding(fn, avoid) \subseteq S
    <3> HIDE DEF S, avoid, N
    <3> QED
      BY <1>5, <2>1, <2>3, <2>4, EnteredInside DEF N
  <2>6. p[1] \notin Check!EnteredAvoiding(fn, avoid)
    BY <1>3, <1>7, <2>5
  <2> QED
    BY <2>6 DEF Check!PassedBefore
<1> QED
  BY <1>4, <1>6, <1>7

LEMMA OnceWritten ==
    ASSUME NEW fn, fn.blocks \in Seq(BasicBlock), NEW n, Once(Code(fn.blocks), n)
    PROVE  Check!WrittenOnce(fn)
<1> DEFINE c == Code(fn.blocks)
<1> SUFFICES ASSUME NEW p \in Check!Positions(fn), NEW q \in Check!Positions(fn),
                    Check!At(fn, p).dst = Check!At(fn, q).dst, Check!At(fn, p).dst # NoTemp
             PROVE  p = q
  BY SameIR DEF Check!WrittenOnce
<1>1a. PICK b \in Check!Labels(fn) : \E k \in DOMAIN c[b] : p = <<b, k>>
  BY PositionsOf
<1>1. PICK k \in DOMAIN c[b] : p = <<b, k>>
  BY <1>1a
<1>2a. PICK d \in Check!Labels(fn) : \E j \in DOMAIN c[d] : q = <<d, j>>
  BY PositionsOf
<1>2. PICK j \in DOMAIN c[d] : q = <<d, j>>
  BY <1>2a
<1>3. DOMAIN c = Check!Labels(fn) /\ Check!At(fn, p) = c[b][k] /\ Check!At(fn, q) = c[d][j]
  BY <1>1, <1>2, PositionsOf
<1> HIDE DEF c
<1>4. b = d /\ k = j
  <2> Once(c, n)
    BY DEF c
  <2> QED
    BY <1>3 DEF Once
<1> QED
  BY <1>1, <1>2, <1>4
=============================================================================
