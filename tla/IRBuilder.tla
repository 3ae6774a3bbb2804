---------------------------- MODULE IRBuilder ----------------------------
(***************************************************************************)
(* The lowering of the typed syntax tree to the IR:                        *)
(* src/compiler/src/ir/ir_builder.cpp.                                     *)
(*                                                                         *)
(* The visitor is a recursion over the tree; here its activation records   *)
(* are the explicit stack `stack`, and every action is the code a visit    *)
(* function runs between two of its calls to accept().  The tree of a      *)
(* function is the table `nodes` of its nodes, a pointer to a node is its  *)
(* position there.  A node is a record [kind, kids, sym, val, ty, tail]:   *)
(* the operands in visiting order, the name/operator/callee, the literal,  *)
(* the resolved type and whether a block ends in a tail expression.        *)
(*                                                                         *)
(* The builder writes into one open block at a time (`cur`); labels are    *)
(* allocated before the code that is to fill them, so a block may wait     *)
(* empty for a long time, and code after a `return` or `break` is still    *)
(* emitted, behind the terminator.                                         *)
(***************************************************************************)
EXTENDS IR, IRModule, FiniteSets

CONSTANT Programs     \* the programs lower() may be given: sequences of functions

AstNode == [kind : STRING, kids : Seq(Nat), sym : Symbols, val : Value, ty : STRING,
            tail : BOOLEAN, mut : BOOLEAN, ann : STRING]
AstFn   == [name : Symbols, params : Seq(Symbols), ret : STRING,
            nodes : Seq(AstNode), body : Nat]

(* The types whose expressions are given a result slot. *)
HasResult(ty) == ty \notin {"unit", "unknown"}

(* What the parser's constructors guarantee of node n of fn: its operands   *)
(* are earlier in the table, and a control expression has those it needs.   *)
(* The analysis gives an `if` without an else the type unit.                *)
WellFormedNode(fn, n) ==
    LET node == fn.nodes[n]
    IN  /\ \A k \in DOMAIN node.kids : node.kids[k] \in 1..(n - 1)
        /\ node.kind = "if" => Len(node.kids) \in {2, 3}
        /\ node.kind = "if" /\ HasResult(node.ty) => Len(node.kids) = 3
        /\ node.kind = "while" => Len(node.kids) = 2
        /\ node.kind = "loop" => Len(node.kids) = 1
        /\ node.kind \in {"let", "assign", "unary"} => Len(node.kids) = 1
        /\ node.kind = "binary" => Len(node.kids) = 2 /\ node.sym.base \in BinOps
        /\ node.kind \in {"return", "break"} => Len(node.kids) <= 1
        /\ node.kind = "block" /\ node.tail => node.kids # <<>>
        /\ node.kind = "literal" => node.val.k # "temp"

(* Finds(fn, B, E)[n] says that a node of B is at or below node n, reached  *)
(* by the operands in E: <<m, k>> is operand k of node m.                   *)
Finds(fn, B, E) ==
    LET finds[n \in DOMAIN fn.nodes] ==
            \/ n \in B
            \/ \E k \in DOMAIN fn.nodes[n].kids : <<n, k>> \in E /\ finds[fn.nodes[n].kids[k]]
    IN  finds
NodesOf(fn, kinds) == {n \in DOMAIN fn.nodes : fn.nodes[n].kind \in kinds}
OperandsOf(fn) == UNION {{n} \X DOMAIN fn.nodes[n].kids : n \in DOMAIN fn.nodes}

(* What the semantic analysis guarantees: no break or continue is outside   *)
(* of the body of a loop, and no break of a loop with a result is bare.     *)
(* Stray and Bare find those below a node that are not inside a loop below. *)
IsLoopBody(node, k) == node.kind = "loop" \/ (node.kind = "while" /\ k = 2)
OutsideLoops(fn) == {e \in OperandsOf(fn) : ~IsLoopBody(fn.nodes[e[1]], e[2])}
Stray(fn) == Finds(fn, NodesOf(fn, {"break", "continue"}), OutsideLoops(fn))
Bare(fn)  == Finds(fn, {n \in NodesOf(fn, {"break"}) : fn.nodes[n].kids = <<>>}, OutsideLoops(fn))

ASSUME ProgramAssumption ==
    \A p \in Programs :
        /\ p \in Seq(AstFn)
        /\ \A i \in DOMAIN p :
              /\ p[i].body \in DOMAIN p[i].nodes
              /\ ~Stray(p[i])[p[i].body]
              /\ \A n \in DOMAIN p[i].nodes : WellFormedNode(p[i], n)
              /\ \A n \in NodesOf(p[i], {"loop"}) :
                    HasResult(p[i].nodes[n].ty) => ~Bare(p[i])[p[i].nodes[n].kids[1]]

VARIABLES
    program,    \* the tree being lowered (never changes)
    status,     \* "idle" between functions, "lowering" inside lower_fn, "failed"
    blocks,     \* current_fn_->blocks
    cur,        \* current_fn_->current_block_id_
    nextTemp,   \* current_fn_->next_temp_id
    locals,     \* the names in current_fn_->locals
    stack,      \* activation records of the visit functions, innermost last
    lastValue,  \* last_value_, <<>> when empty
    loopStack,  \* loop_stack_
    loopCap     \* loop_stack_.capacity()

fnVars   == <<blocks, cur, nextTemp, locals>>
loopVars == <<loopStack, loopCap>>
vars     == <<program, module, status, fnVars, stack, lastValue, loopVars>>

-----------------------------------------------------------------------------
(* Activation records: `pc` counts the operands visited, `vals` holds the   *)
(* values taken from them, `labs` the labels the node still has to switch   *)
(* to, in that order, `head` the label its body jumps back to, `slot` its   *)
(* result slot and `cap` the capacity loop_stack_ had when the node bound a *)
(* reference into it.                                                       *)
Frame(n) == [node |-> n, pc |-> 0, vals |-> <<>>, labs |-> <<>>,
             head |-> 0, slot |-> NoTemp, cap |-> 0]

Fn   == program[Len(module) + 1]
Top  == stack[Len(stack)]
Node == Fn.nodes[Top.node]
Kids == Node.kids

Label == DOMAIN blocks
Visiting(kinds) == status = "lowering" /\ stack # <<>> /\ Node.kind \in kinds
At(kind, pc)    == Visiting({kind}) /\ Top.pc = pc
AtEnd(kind)     == Visiting({kind}) /\ Top.pc = Len(Kids)

(* accept() on operand k, with the caller's record left as f. *)
Accept(f, k) ==
    stack' = Append([stack EXCEPT ![Len(stack)] = [f EXCEPT !.pc = k]], Frame(Kids[k]))
ReturnFromVisit == stack' = SubSeq(stack, 1, Len(stack) - 1)

(* Mutant: the temporary allocated next is named instead of the last one. *)
TakeNextTemp ==
    IF lastValue # <<>> /\ lastValue[1].k = "temp" THEN TempRef(lastValue[1].v + 1)
    ELSE IF lastValue = <<>> THEN ImmUnit ELSE lastValue[1]

TakeValue == IF lastValue = <<>> THEN ImmUnit ELSE lastValue[1]
SetValue(v) == lastValue' = <<v>>

(* The operand values of a node all of whose operands were visited. *)
Operands == IF Kids = <<>> THEN <<>> ELSE Append(Top.vals, TakeValue)

UnchangedFn   == UNCHANGED fnVars
UnchangedRest == UNCHANGED <<program, module, status>>

-----------------------------------------------------------------------------
Init ==
    /\ program \in Programs
    /\ module = <<>> /\ status = "idle"
    /\ blocks = <<>> /\ cur = 0 /\ nextTemp = 0 /\ locals = <<>>
    /\ stack = <<>> /\ lastValue = <<>>
    /\ loopStack = <<>> /\ loopCap = 0

(* Mutant: the last function is forgotten. *)
MoreThanOneFn == Len(module) + 1 < Len(program)

(* The loop of lower() over the functions. *)
MoreFns == Len(module) < Len(program)

(* lower_fn up to the visit of the body: the parameters become locals and   *)
(* each is loaded once into a temporary nobody reads.                       *)
BeginFn ==
    /\ status = "idle" /\ MoreFns
    /\ blocks' = <<[EmptyBlock EXCEPT !.instrs =
                      [i \in 1..Len(Fn.params) |-> LoadLocal(i - 1, Fn.params[i])]]>>
    /\ nextTemp' = Len(Fn.params)
    /\ locals' = Fn.params
    /\ stack' = <<Frame(Fn.body)>>
    /\ cur' = 1
    /\ status' = "lowering"
    /\ UNCHANGED <<program, module, lastValue, loopVars>>

(* Mutant: current_fn_ is not reset, and the last block not closed. *)
EndFnKeepsBlocks ==
    /\ status = "lowering" /\ stack = <<>>
    /\ module' = Append(module, [name |-> Fn.name, params |-> Fn.params,
                                 blocks |-> blocks, temps |-> nextTemp, locals |-> locals])
    /\ status' = "idle"
    /\ UNCHANGED <<program, fnVars, stack, lastValue, loopVars>>

(* lower_fn after the body: close the last block and hand the function over. *)
EndFn ==
    /\ status = "lowering" /\ stack = <<>>
    /\ LET ret == Return(IF Fn.ret = "unit" THEN <<>> ELSE <<TakeValue>>)
           bs  == IF IsTerminated(blocks[cur]) THEN blocks ELSE Emit(blocks, cur, ret)
       IN  module' = Append(module, [name |-> Fn.name, params |-> Fn.params,
                                     blocks |-> bs, temps |-> nextTemp, locals |-> locals])
    /\ status' = "idle"
    /\ blocks' = <<>> /\ cur' = 0 /\ nextTemp' = 0 /\ locals' = <<>>
    /\ UNCHANGED <<program, stack, lastValue, loopVars>>

-----------------------------------------------------------------------------
(* Straight-line nodes.  Their operands are visited left to right and the   *)
(* value of each is taken before the next is visited.                       *)
StraightLine == {"let", "exprstmt", "assign", "binary", "unary", "call", "return"}

VisitOperand ==
    /\ Visiting(StraightLine) /\ Top.pc < Len(Kids)
    /\ Accept([Top EXCEPT !.vals = IF Top.pc = 0 THEN <<>> ELSE Append(@, TakeValue)],
              Top.pc + 1)
    /\ UnchangedFn /\ UNCHANGED <<lastValue, loopVars>> /\ UnchangedRest

(* visit(IntLiteralExpr), visit(BoolLiteralExpr), visit(CharLiteralExpr) and *)
(* visit(UnitLiteralExpr).                                                   *)
VisitLiteral ==
    /\ AtEnd("literal")
    /\ SetValue(Node.val)
    /\ ReturnFromVisit /\ UnchangedFn /\ UNCHANGED loopVars /\ UnchangedRest

(* Mutant: the temporary is used but its counter not advanced. *)
ComputeReusing(instr) ==
    /\ blocks' = Emit(blocks, cur, instr)
    /\ SetValue(TempRef(nextTemp))
    /\ ReturnFromVisit
    /\ UNCHANGED <<cur, nextTemp, locals, loopVars>> /\ UnchangedRest

(* The common end of the nodes that compute into a fresh temporary. *)
Compute(instr) ==
    /\ blocks' = Emit(blocks, cur, instr)
    /\ nextTemp' = nextTemp + 1
    /\ SetValue(TempRef(nextTemp))
    /\ ReturnFromVisit
    /\ UNCHANGED <<cur, locals, loopVars>> /\ UnchangedRest

VisitIdent  == AtEnd("ident")  /\ Compute(LoadLocal(nextTemp, Node.sym))
FinishUnary == AtEnd("unary")  /\ Compute(UnOp(nextTemp, Node.sym.base, Operands[1]))
FinishBinary ==
    AtEnd("binary") /\ Compute(BinOp(nextTemp, Node.sym.base, Operands[1], Operands[2]))
FinishCall ==
    /\ AtEnd("call") /\ Node.ty # "unit"
    /\ Compute(Call(nextTemp, Node.sym, Operands))

FinishUnitCall ==
    /\ AtEnd("call") /\ Node.ty = "unit"
    /\ blocks' = Emit(blocks, cur, Call(NoTemp, Node.sym, Operands))
    /\ SetValue(ImmUnit)
    /\ ReturnFromVisit
    /\ UNCHANGED <<cur, nextTemp, locals, loopVars>> /\ UnchangedRest

(* visit(LetStmt): the store is by name; last_value_ keeps the initializer. *)
FinishLet ==
    /\ AtEnd("let")
    /\ blocks' = Emit(blocks, cur, StoreLocal(Node.sym, TakeValue))
    /\ locals' = Append(locals, Node.sym)
    /\ ReturnFromVisit
    /\ UNCHANGED <<cur, nextTemp, lastValue, loopVars>> /\ UnchangedRest

FinishAssign ==
    /\ AtEnd("assign")
    /\ blocks' = Emit(blocks, cur, StoreLocal(Node.sym, TakeValue))
    /\ SetValue(TakeValue)
    /\ ReturnFromVisit
    /\ UNCHANGED <<cur, nextTemp, locals, loopVars>> /\ UnchangedRest

FinishExprStmt ==
    /\ AtEnd("exprstmt")
    /\ lastValue' = <<>>
    /\ ReturnFromVisit /\ UnchangedFn /\ UNCHANGED loopVars /\ UnchangedRest

FinishReturn ==
    /\ AtEnd("return")
    /\ blocks' = Emit(blocks, cur, Return(Operands))
    /\ SetValue(ImmUnit)
    /\ ReturnFromVisit
    /\ UNCHANGED <<cur, nextTemp, locals, loopVars>> /\ UnchangedRest

(* visit(BlockExpr): statements, then the tail expression if there is one. *)
VisitBlockItem ==
    /\ Visiting({"block"}) /\ Top.pc < Len(Kids)
    /\ Accept(Top, Top.pc + 1)
    /\ UnchangedFn /\ UNCHANGED <<lastValue, loopVars>> /\ UnchangedRest

FinishBlock ==
    /\ AtEnd("block")
    /\ lastValue' = IF Node.tail THEN lastValue ELSE <<ImmUnit>>
    /\ ReturnFromVisit /\ UnchangedFn /\ UNCHANGED loopVars /\ UnchangedRest
-----------------------------------------------------------------------------
(* Mutants: a jump behind a terminator, none into the open end of a branch; *)
(* only the else branch stores its value.                                   *)
FallThroughInverted(bs, l) == IF IsTerminated(bs[cur]) THEN JumpTo(bs, cur, l) ELSE bs
StoreResultOnce(bs, f) ==
    IF f.slot # NoTemp /\ f.pc = 3 /\ ~IsTerminated(bs[cur])
    THEN Emit(bs, cur, StoreLocal(IfSlot(f.slot), TakeValue)) ELSE bs

(* The end of a branch or of a loop body: fall through to l unless the      *)
(* block already ends in a terminator, storing the result on the way.       *)
FallThrough(bs, l) == IF IsTerminated(bs[cur]) THEN bs ELSE JumpTo(bs, cur, l)
StoreResult(bs, f) ==
    IF f.slot # NoTemp /\ ~IsTerminated(bs[cur])
    THEN Emit(bs, cur, StoreLocal(IfSlot(f.slot), TakeValue)) ELSE bs

(* A node with a result slot ends by loading it, one without is unit. *)
LoadSlot(bs, b, has, x) ==
    /\ blocks' = IF has THEN Emit(bs, b, LoadLocal(nextTemp, x)) ELSE bs
    /\ nextTemp' = IF has THEN nextTemp + 1 ELSE nextTemp
    /\ SetValue(IF has THEN TempRef(nextTemp) ELSE ImmUnit)

(* visit(IfExpr). *)
IfCondition ==
    /\ At("if", 0)
    /\ Accept(Top, 1)
    /\ UnchangedFn /\ UNCHANGED <<lastValue, loopVars>> /\ UnchangedRest

IfThen ==
    /\ At("if", 1)
    /\ LET hasElse == Len(Kids) = 3
           then    == Len(blocks) + 1
           merge   == Len(blocks) + 2
           else    == IF hasElse THEN Len(blocks) + 3 ELSE merge
           hasSlot == HasResult(Node.ty)
       IN  /\ blocks' = BranchTo(AddBlocks(blocks, IF hasElse THEN 3 ELSE 2),
                                 cur, TakeValue, then, else)
           /\ cur' = then
           /\ nextTemp' = IF hasSlot THEN nextTemp + 1 ELSE nextTemp
           /\ Accept([Top EXCEPT !.labs = IF hasElse THEN <<else, merge>> ELSE <<merge>>,
                                 !.slot = IF hasSlot THEN nextTemp ELSE NoTemp], 2)
    /\ UNCHANGED <<locals, lastValue, loopVars>> /\ UnchangedRest

IfElse ==
    /\ At("if", 2) /\ Len(Kids) = 3
    /\ blocks' = FallThrough(StoreResult(blocks, Top), Top.labs[2])
    /\ cur' = Top.labs[1]
    /\ Accept([Top EXCEPT !.labs = <<Top.labs[2]>>], 3)
    /\ UNCHANGED <<nextTemp, locals, lastValue, loopVars>> /\ UnchangedRest

IfMerge ==
    /\ AtEnd("if")
    /\ LET merge == Top.labs[1]
       IN  /\ LoadSlot(FallThrough(StoreResult(blocks, Top), merge), merge,
                       Top.slot # NoTemp, IfSlot(Top.slot))
           /\ cur' = merge
    /\ ReturnFromVisit
    /\ UNCHANGED <<locals, loopVars>> /\ UnchangedRest

-----------------------------------------------------------------------------
(* loop_stack_ is a std::vector: push_back moves its elements to a larger   *)
(* buffer when it is full, pop_back keeps the buffer.                       *)
PushLoop(head, exit, slot) ==
    /\ loopStack' = Append(loopStack, [head |-> head, exit |-> exit, slot |-> slot])
    /\ loopCap' = IF Len(loopStack) < loopCap THEN loopCap
                  ELSE IF loopCap = 0 THEN 1 ELSE 2 * loopCap
PopLoop ==
    /\ loopStack' = SubSeq(loopStack, 1, Len(loopStack) - 1)
    /\ UNCHANGED loopCap
Innermost == loopStack[Len(loopStack)]

(* visit(WhileExpr): the loop is pushed after its condition was lowered. *)
WhileHeader ==
    /\ At("while", 0)
    /\ LET head == Len(blocks) + 1
       IN  /\ blocks' = JumpTo(AddBlocks(blocks, 3), cur, head)
           /\ cur' = head
           /\ Accept([Top EXCEPT !.labs = <<head + 1, head + 2>>, !.head = head], 1)
    /\ UNCHANGED <<nextTemp, locals, lastValue, loopVars>> /\ UnchangedRest

WhileBody ==
    /\ At("while", 1)
    /\ LET body == Top.labs[1]
           exit == Top.labs[2]
       IN  /\ blocks' = BranchTo(blocks, cur, TakeValue, body, exit)
           /\ cur' = body
           /\ PushLoop(Top.head, exit, NoTemp)
           /\ Accept([Top EXCEPT !.labs = <<exit>>], 2)
    /\ UNCHANGED <<nextTemp, locals, lastValue>> /\ UnchangedRest

(* Mutants: the loop context stays on loop_stack_; code after the loop goes *)
(* into its header.                                                         *)
WhileExitKeepsContext ==
    /\ At("while", 2)
    /\ blocks' = FallThrough(blocks, Top.head)
    /\ cur' = Top.labs[1]
    /\ SetValue(ImmUnit)
    /\ ReturnFromVisit
    /\ UNCHANGED <<nextTemp, locals, loopVars>> /\ UnchangedRest
WhileExitReopens ==
    /\ At("while", 2)
    /\ blocks' = FallThrough(blocks, Top.head)
    /\ cur' = Top.head
    /\ PopLoop
    /\ SetValue(ImmUnit)
    /\ ReturnFromVisit
    /\ UNCHANGED <<nextTemp, locals>> /\ UnchangedRest

WhileExit ==
    /\ At("while", 2)
    /\ blocks' = FallThrough(blocks, Top.head)
    /\ cur' = Top.labs[1]
    /\ PopLoop
    /\ SetValue(ImmUnit)
    /\ ReturnFromVisit
    /\ UNCHANGED <<nextTemp, locals>> /\ UnchangedRest

(* visit(LoopExpr). *)
LoopBody ==
    /\ At("loop", 0)
    /\ LET start   == Len(blocks) + 1
           exit    == Len(blocks) + 2
           hasSlot == HasResult(Node.ty)
           slot    == IF hasSlot THEN nextTemp ELSE NoTemp
       IN  /\ blocks' = JumpTo(AddBlocks(blocks, 2), cur, start)
           /\ cur' = start
           /\ nextTemp' = IF hasSlot THEN nextTemp + 1 ELSE nextTemp
           /\ PushLoop(start, exit, slot)
           /\ Accept([Top EXCEPT !.labs = <<exit>>, !.head = start, !.slot = slot], 1)
    /\ UNCHANGED <<locals, lastValue>> /\ UnchangedRest

LoopExit ==
    /\ At("loop", 1)
    /\ LET exit == Top.labs[1]
       IN  /\ LoadSlot(FallThrough(blocks, Top.head), exit,
                       Top.slot # NoTemp, LoopSlot(Top.slot))
           /\ cur' = exit
    /\ PopLoop
    /\ ReturnFromVisit
    /\ UNCHANGED locals /\ UnchangedRest

-----------------------------------------------------------------------------
(* visit(BreakExpr): the value is lowered only for a loop with a result     *)
(* slot, and the reference `ctx` into loop_stack_ is held across it.        *)
BreakHasSlot == loopStack # <<>> /\ Kids # <<>> /\ Innermost.slot # NoTemp

BreakValue ==
    /\ At("break", 0) /\ BreakHasSlot
    /\ Accept([Top EXCEPT !.cap = loopCap], 1)
    /\ UnchangedFn /\ UNCHANGED <<lastValue, loopVars>> /\ UnchangedRest

BreakWithoutValue ==
    /\ At("break", 0) /\ ~BreakHasSlot
    /\ IF loopStack = <<>>
       THEN UNCHANGED <<blocks, lastValue>>
       ELSE blocks' = JumpTo(blocks, cur, Innermost.exit) /\ SetValue(ImmUnit)
    /\ ReturnFromVisit
    /\ UNCHANGED <<cur, nextTemp, locals, loopVars>> /\ UnchangedRest

BreakStore ==
    /\ At("break", 1)
    /\ blocks' = JumpTo(Emit(blocks, cur, StoreLocal(LoopSlot(Innermost.slot), TakeValue)),
                        cur, Innermost.exit)
    /\ SetValue(ImmUnit)
    /\ ReturnFromVisit
    /\ UNCHANGED <<cur, nextTemp, locals, loopVars>> /\ UnchangedRest

(* A loop inside the value may have reallocated loop_stack_; `ctx` then     *)
(* dangles.  Either the freed buffer still holds the old context            *)
(* (BreakStore), or it was overwritten: the exit label read from it may     *)
(* happen to name a block, with any number for the slot (nextTemp stands    *)
(* for those no slot has), or Function::block throws out of lower().        *)
BreakGarbage ==
    /\ At("break", 1) /\ Top.cap # loopCap
    /\ \E exit \in Label, slot \in 0..nextTemp :
          blocks' = JumpTo(Emit(blocks, cur, StoreLocal(LoopSlot(slot), TakeValue)), cur, exit)
    /\ SetValue(ImmUnit)
    /\ ReturnFromVisit
    /\ UNCHANGED <<cur, nextTemp, locals, loopVars>> /\ UnchangedRest

BreakDangling ==
    /\ At("break", 1) /\ Top.cap # loopCap
    /\ status' = "failed"
    /\ UNCHANGED <<program, module, fnVars, stack, lastValue, loopVars>>

VisitContinue ==
    /\ At("continue", 0)
    /\ IF loopStack = <<>>
       THEN UNCHANGED <<blocks, lastValue>>
       ELSE blocks' = JumpTo(blocks, cur, Innermost.head) /\ SetValue(ImmUnit)
    /\ ReturnFromVisit
    /\ UNCHANGED <<cur, nextTemp, locals, loopVars>> /\ UnchangedRest

-----------------------------------------------------------------------------
VisitStep ==
    \/ VisitOperand \/ VisitLiteral \/ VisitIdent
    \/ FinishUnary \/ FinishBinary \/ FinishCall \/ FinishUnitCall
    \/ FinishLet \/ FinishAssign \/ FinishExprStmt \/ FinishReturn
    \/ VisitBlockItem \/ FinishBlock
    \/ IfCondition \/ IfThen \/ IfElse \/ IfMerge
    \/ WhileHeader \/ WhileBody \/ WhileExit
    \/ LoopBody \/ LoopExit
    \/ BreakValue \/ BreakWithoutValue \/ BreakStore \/ BreakGarbage \/ BreakDangling
    \/ VisitContinue

Next == BeginFn \/ EndFn \/ VisitStep

Spec == Init /\ [][Next]_vars
FairSpec == Spec /\ WF_vars(Next)

Done == status = "idle" /\ Len(module) = Len(program)
-----------------------------------------------------------------------------
(* Correctness.                                                             *)

FrameType == [node : Nat, pc : Nat, vals : Seq(Value), labs : Seq(Nat),
              head : Nat, slot : Int, cap : Nat]
LoopContext == [head : Nat, exit : Nat, slot : Int]

(* The builder's data structures keep their types; the open block exists    *)
(* whenever a function is being lowered.                                    *)
TypeOK ==
    /\ program \in Programs
    /\ module \in Seq(Function) /\ Len(module) <= Len(program)
    /\ status \in {"idle", "lowering", "failed"}
    /\ blocks \in Seq(BasicBlock)
    /\ cur \in Nat /\ nextTemp \in Nat /\ locals \in Seq(Symbols)
    /\ stack \in Seq(FrameType)
    /\ lastValue \in Seq(Value) /\ Len(lastValue) <= 1
    /\ loopStack \in Seq(LoopContext) /\ loopCap \in Nat
    /\ status = "idle" => stack = <<>> /\ blocks = <<>>
    /\ status = "lowering" => Len(module) < Len(program) /\ cur \in Label

(* Function::block never throws (ir_builder.cpp:28-36): every label in a    *)
(* terminator, in an edge list, in the loop stack or waiting in a visit     *)
(* function names a block of the function under construction.               *)
LabelsExist ==
    status = "lowering" =>
    /\ \A b \in Label : TargetsOf(blocks[b]) \cup Range(blocks[b].succ) \cup Range(blocks[b].pred)
                           \subseteq Label
    /\ \A d \in DOMAIN loopStack : {loopStack[d].head, loopStack[d].exit} \subseteq Label
    /\ \A f \in DOMAIN stack : Range(stack[f].labs) \subseteq Label

(* Code after a `return` or `break` un-terminates the open block, so that a *)
(* block is terminated is never settled while it is open.  Still, every     *)
(* block of a function that was handed over ends in a terminator: code      *)
(* generation lays blocks out one after the other and relies on it.         *)
FinishedBlocksTerminated ==
    \A f \in DOMAIN module : \A b \in DOMAIN module[f].blocks : IsTerminated(module[f].blocks[b])

(* successors and predecessors record exactly the targets of the            *)
(* terminators, from both ends (Architecture.md calls the blocks a CFG).    *)
EdgesMatchTerminators ==
    \A b \in Label :
        /\ Range(blocks[b].succ) = TargetsOf(blocks[b])
        /\ \A s \in Label : s \in Range(blocks[b].succ) <=> b \in Range(blocks[s].pred)

(* A break or continue goes to the innermost enclosing loop: loop_stack_    *)
(* lists the header and exit labels of exactly the loops whose bodies are   *)
(* being visited, innermost last, also after an inner loop was left.        *)
InBody(f) == \/ Fn.nodes[f.node].kind = "while" /\ f.pc = 2
             \/ Fn.nodes[f.node].kind = "loop" /\ f.pc = 1
Bodies(d) == {f \in 1..d : InBody(stack[f])}
Depth(d)  == Cardinality(Bodies(d))

LoopStackMatchesVisits ==
    status = "lowering" =>
    /\ Len(loopStack) = Depth(Len(stack))
    /\ \A f \in Bodies(Len(stack)) :
          LET ctx == loopStack[Depth(f)]
          IN  ctx.head = stack[f].head /\ <<ctx.exit>> = stack[f].labs /\ ctx.slot = stack[f].slot

(* Architecture.md:146-149 keeps loop_stack_ so that a break reaches the    *)
(* right target "regardless of nesting depth": when the value of a break    *)
(* has been lowered, the reference to its loop's context is still valid.    *)
BreakContextValid == At("break", 1) => Top.cap = loopCap

(* Every accepted program is lowered to the end, without an exception.      *)
EventuallyDone == <>Done

(* The block structure follows BlockDiscipline.                             *)
Discipline == INSTANCE BlockDiscipline WITH
    allocated <- Len(blocks),
    open      <- IF status = "idle" THEN {} ELSE {cur},
    closed    <- {b \in Label : b # cur /\ IsTerminated(blocks[b])}
RefinesBlockDiscipline == Discipline!Spec
=============================================================================
