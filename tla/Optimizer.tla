---------------------------- MODULE Optimizer ----------------------------
(***************************************************************************)
(* The five optimization passes of src/compiler/src/optimizer/passes.cpp,  *)
(* one operator from functions to functions each.  A pass also reports     *)
(* whether it changed anything: that report is computed the way the code   *)
(* computes it, not by comparing the result with the input.                *)
(***************************************************************************)
EXTENDS IR

CONSTANT Width                    \* the bits of std::int64_t

IntMin  == -(2 ^ (Width - 1))
Wrap(n) == ((n - IntMin) % (2 ^ Width)) + IntMin

(* Division in C++ and by `idiv` truncates towards zero. *)
AbsOf(n)   == IF n < 0 THEN -n ELSE n
Quot(l, r) == IF (l < 0) = (r < 0) THEN AbsOf(l) \div AbsOf(r) ELSE -(AbsOf(l) \div AbsOf(r))
Rest(l, r) == l - r * Quot(l, r)

Dividing == {"/", "%"}

(* fold_binop, but for the divisions that have no value: by zero it folds   *)
(* nothing, and IntMin by -1 raises the processor's divide error.           *)
Arith(op, l, r) ==
    CASE op = "+"  -> ImmI64(Wrap(l + r))
      [] op = "-"  -> ImmI64(Wrap(l - r))
      [] op = "*"  -> ImmI64(Wrap(l * r))
      [] op = "/"  -> ImmI64(Quot(l, r))
      [] op = "%"  -> ImmI64(Rest(l, r))
      [] op = "==" -> ImmBool(l = r)
      [] op = "!=" -> ImmBool(l # r)
      [] op = "<"  -> ImmBool(l < r)
      [] op = "<=" -> ImmBool(l <= r)
      [] op = ">"  -> ImmBool(l > r)
      [] op = ">=" -> ImmBool(l >= r)
      [] op = "&&" -> ImmBool(l # 0 /\ r # 0)
      [] op = "||" -> ImmBool(l # 0 \/ r # 0)
Negate(op, n) == IF op = "-" THEN ImmI64(Wrap(-n)) ELSE ImmBool(n = 0)

DivideError(op, l, r) == op \in Dividing /\ l = IntMin /\ r = -1

-----------------------------------------------------------------------------
(* A pass over the instructions of a function in list order. *)
WithInstrs(fn, is) ==
    [fn EXCEPT !.blocks = [b \in DOMAIN fn.blocks |-> [fn.blocks[b] EXCEPT !.instrs = is[b]]]]
Rewritten(fn, R(_)) ==
    WithInstrs(fn, [b \in DOMAIN fn.blocks |->
        [k \in DOMAIN fn.blocks[b].instrs |-> R(fn.blocks[b].instrs[k])]])
SomeInstr(fn, P(_)) ==
    \E b \in DOMAIN fn.blocks : \E k \in DOMAIN fn.blocks[b].instrs : P(fn.blocks[b].instrs[k])

-----------------------------------------------------------------------------
(* ConstantFoldingPass: one map from temporaries to constants serves the    *)
(* whole function, and the blocks are swept in list order.                  *)
IsNumber(v) == v.k \in {"i64", "bool"}            \* as_i64 and as_bool have a value
NoConsts    == [t \in {} |-> ImmUnit]

Resolve(consts, v) == IF v.k = "temp" /\ v.v \in DOMAIN consts THEN consts[v.v] ELSE v

Foldable(i, args) ==
    /\ i.tag = "binop" /\ IsNumber(args[1]) /\ IsNumber(args[2])
    /\ ~(i.sym.base \in Dividing /\ args[2].v = 0)

(* The constant an instruction was found to compute, <<>> when none. *)
ConstOf(i, args) ==
    IF i.tag = "assign" /\ args[1].k # "temp" THEN <<args[1]>>
    ELSE IF Foldable(i, args) THEN <<Arith(i.sym.base, args[1].v, args[2].v)>>
    ELSE IF i.tag = "unop" /\ IsNumber(args[1]) THEN <<Negate(i.sym.base, args[1].v)>>
    ELSE <<>>

(* Mutant: the branch is taken the wrong way round. *)
FoldBranchSwapped(i, cond) == Jump(i.to[IF cond.v # 0 THEN 2 ELSE 1])

FoldBranch(i, cond) == Jump(i.to[IF cond.v # 0 THEN 1 ELSE 2])

(* What the sweep holds once it has come past an instruction: the constants *)
(* found, whether a change was reported, whether the folded division took   *)
(* the compiler down, and the instruction it left in that place.            *)
AtStart == [consts |-> NoConsts, changed |-> FALSE, crashed |-> FALSE, left |-> Return(<<>>)]

WithConst(consts, t, v) == [d \in DOMAIN consts \cup {t} |-> IF d = t THEN v ELSE consts[d]]

(* One instruction: a store, return or partly constant operation is given   *)
(* its operands without that being reported as a change; the arguments of a *)
(* call are never resolved.                                                 *)
FoldInstr(st, i) ==
    LET args == [a \in DOMAIN i.args |-> Resolve(st.consts, i.args[a])]
        c    == ConstOf(i, args)
    IN  IF Foldable(i, args) /\ DivideError(i.sym.base, args[1].v, args[2].v)
        THEN [st EXCEPT !.crashed = TRUE]
        ELSE IF c # <<>>
        THEN [st EXCEPT !.consts = WithConst(@, i.dst, c[1]), !.changed = TRUE,
                        !.left = Assign(i.dst, c[1])]
        ELSE IF i.tag = "branch" /\ IsNumber(args[1])
        THEN [st EXCEPT !.changed = TRUE, !.left = FoldBranch(i, args[1])]
        ELSE [st EXCEPT !.left = IF i.tag = "call" THEN i ELSE [i EXCEPT !.args = args]]

(* Folding(st, is)[k] is what it holds past the k-th instruction of a block *)
(* entered with st, FoldingBlocks(blocks)[b] past the b-th block.           *)
Folding(st, is) ==
    LET past[k \in 0..Len(is)] == IF k = 0 THEN st ELSE FoldInstr(past[k - 1], is[k])
    IN  past
FoldingBlocks(blocks) ==
    LET past[b \in 0..Len(blocks)] ==
            IF b = 0 THEN AtStart
            ELSE Folding(past[b - 1], blocks[b].instrs)[Len(blocks[b].instrs)]
    IN  past

ConstantFolding(fn) ==
    LET past  == FoldingBlocks(fn.blocks)
        end   == past[Len(fn.blocks)]
        is(b) == fn.blocks[b].instrs
    IN  [fn |-> WithInstrs(fn, [b \in DOMAIN fn.blocks |->
                   LET folding == Folding(past[b - 1], is(b))
                   IN  [k \in DOMAIN is(b) |-> folding[k].left]]),
         changed |-> end.changed, crashed |-> end.crashed]

-----------------------------------------------------------------------------
(* AlgebraicSimplificationPass::simplify: the identities, <<>> when none    *)
(* applies.                                                                 *)
Is(v, n)     == v = ImmI64(n)
Unit(op, v)  == \/ op \in {"+", "-"} /\ Is(v, 0)
                \/ op \in {"*", "/"} /\ Is(v, 1)
                \/ op = "&&" /\ v = ImmBool(TRUE)
                \/ op = "||" /\ v = ImmBool(FALSE)
Zero(op, v)  == \/ op = "*" /\ Is(v, 0)
                \/ op = "&&" /\ v = ImmBool(FALSE)
                \/ op = "||" /\ v = ImmBool(TRUE)
Commutes(op) == op \in {"+", "*", "&&", "||"}

Simplify(i) ==
    LET op == i.sym.base
        l  == i.args[1]
        r  == i.args[2]
    IN  IF Commutes(op) /\ (Zero(op, l) \/ Zero(op, r))
        THEN <<IF Zero(op, l) THEN l ELSE r>>
        ELSE IF Commutes(op) /\ Unit(op, l) THEN <<r>>
        ELSE IF Unit(op, r) THEN <<l>>
        ELSE IF op = "-" /\ l.k = "temp" /\ l = r THEN <<ImmI64(0)>>
        ELSE <<>>
Simplifies(i) == i.tag = "binop" /\ Simplify(i) # <<>>

AlgebraicSimplification(fn) ==
    [fn |-> Rewritten(fn, LAMBDA i : IF Simplifies(i) THEN Assign(i.dst, Simplify(i)[1]) ELSE i),
     changed |-> SomeInstr(fn, Simplifies)]

-----------------------------------------------------------------------------
(* StrengthReductionPass: x * 2^k becomes x + k. *)
Exponents == 0..(Width - 2)
PowerOfTwo(v) == v.k = "i64" /\ \E k \in Exponents : v.v = 2 ^ k
Log2(n) == CHOOSE k \in Exponents : n = 2 ^ k

(* The constant operand is the right one when both are. *)
ConstSide(i) == IF i.args[2].k = "i64" THEN i.args[2] ELSE i.args[1]
VarSide(i)   == IF i.args[2].k = "i64" THEN i.args[1] ELSE i.args[2]
Reduces(i)   == i.tag = "binop" /\ i.sym.base = "*" /\ PowerOfTwo(ConstSide(i))

StrengthReduction(fn) ==
    [fn |-> Rewritten(fn, LAMBDA i :
               IF Reduces(i) THEN BinOp(i.dst, "+", VarSide(i), ImmI64(Log2(ConstSide(i).v))) ELSE i),
     changed |-> SomeInstr(fn, Reduces)]

-----------------------------------------------------------------------------
(* DeadCodeEliminationPass: one set of used temporaries, one sweep. *)
(* Mutant: what only the arithmetic reads is used. *)
UsedByOperators(fn) ==
    UNION {UNION {Uses(i) : i \in {j \in Range(fn.blocks[b].instrs) :
                                     j.tag \in {"assign", "binop", "unop", "branch", "return"}}} :
             b \in DOMAIN fn.blocks}

(* Mutant: what the entry block reads is used. *)
UsedInEntry(fn) == UNION {Uses(i) : i \in Range(fn.blocks[1].instrs)}

UsedTemps(fn) ==
    UNION {UNION {Uses(i) : i \in Range(fn.blocks[b].instrs)} : b \in DOMAIN fn.blocks}
(* Mutant: a copy is never removed. *)
PureOperators == {"binop", "unop"}

Pure == {"assign", "binop", "unop"}

Dead(i, used) == i.tag \in Pure /\ i.dst \notin used

(* new_instrs: those at the positions outside of dead, in their order.      *)
Without(is, dead) ==
    LET kept[k \in 0..Len(is)] ==
            IF k = 0 THEN <<>>
            ELSE IF k \in dead THEN kept[k - 1] ELSE Append(kept[k - 1], is[k])
    IN  kept[Len(is)]

DeadCodeElimination(fn) ==
    LET used  == UsedTemps(fn)
        is(b) == fn.blocks[b].instrs
    IN  [fn |-> WithInstrs(fn, [b \in DOMAIN fn.blocks |->
                   Without(is(b), {k \in DOMAIN is(b) : Dead(is(b)[k], used)})]),
         changed |-> SomeInstr(fn, LAMBDA i : Dead(i, used))]

-----------------------------------------------------------------------------
(* ControlFlowSimplificationPass: a block that is one jump is bypassed, one *)
(* such block after the other in list order; edge lists are left alone.     *)
(* `seen[l]` is what a label that was l at first has become by now.  A      *)
(* block that jumps to itself by then is no longer bypassed.                *)
SoleJump(blk) == Len(blk.instrs) = 1 /\ blk.instrs[1].tag = "jump"

BypassBlock(fn, seen, b) ==
    IF ~SoleJump(fn.blocks[b]) THEN seen
    ELSE LET target == seen[fn.blocks[b].instrs[1].to[1]]
         IN  IF target = b THEN seen
             ELSE [l \in DOMAIN seen |-> IF seen[l] = b THEN target ELSE seen[l]]

NewLabels(fn) ==
    LET seen[b \in 0..Len(fn.blocks)] ==
            IF b = 0 THEN [l \in DOMAIN fn.blocks |-> l] ELSE BypassBlock(fn, seen[b - 1], b)
    IN  seen[Len(fn.blocks)]

ControlFlowSimplification(fn) ==
    LET new == NewLabels(fn)
    IN  [fn |-> Rewritten(fn, LAMBDA i : [i EXCEPT !.to = [a \in DOMAIN i.to |-> new[i.to[a]]]]),
         changed |-> SomeInstr(fn, LAMBDA i : \E l \in Targets(i) : new[l] # l)]

-----------------------------------------------------------------------------
Passes == {"constant-folding", "algebraic-simplification", "strength-reduction",
           "dead-code-elimination", "cf-simplification"}

ApplyTo(pass, fn) ==
    CASE pass = "constant-folding"         -> ConstantFolding(fn)
      [] pass = "algebraic-simplification" -> AlgebraicSimplification(fn)
      [] pass = "strength-reduction"       -> StrengthReduction(fn)
      [] pass = "dead-code-elimination"    -> DeadCodeElimination(fn)
      [] pass = "cf-simplification"        -> ControlFlowSimplification(fn)

(* OptimizationPass::run: every function of the module. *)
Apply(pass, mod) ==
    LET results == [f \in DOMAIN mod |-> ApplyTo(pass, mod[f])]
    IN  [module  |-> [f \in DOMAIN mod |-> results[f].fn],
         changed |-> \E f \in DOMAIN mod : results[f].changed]

(* Constant folding takes the compiler down with the division it folds.     *)
Crashes(pass, mod) ==
    pass = "constant-folding" /\ \E f \in DOMAIN mod : ConstantFolding(mod[f]).crashed
=============================================================================
