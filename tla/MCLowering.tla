----------------------------- MODULE MCLowering -----------------------------
(***************************************************************************)
(* The lowering of every control-flow tree of a small grammar, of operands *)
(* and calls of every kind, and of loops inside the value of a break.      *)
(***************************************************************************)
EXTENDS LoweringChecks, Programs

(* Control flow: jumps, straight-line code behind a jump, nesting to depth  *)
(* two, one side of an `if` at a time.                                      *)
Atoms == {Lit(1), X, Break, BreakWith(Lit(2)), Continue, ReturnWith(Lit(7)),
          AssignTo("x", Lit(3))}
Pairs == {BlockTail(<<Stmt(e)>>, f) : e \in {Break, Continue, AssignTo("x", Lit(3))},
                                      f \in {Lit(1), BreakWith(Lit(2))}}
Around(shape, b, o) ==
    CASE shape = "if" -> If(Cond, b)
      [] shape = "while" -> While(Cond, b)
      [] shape = "loop" -> Loop(b)
      [] shape = "then" -> IfThenElse(Cond, b, o)
      [] shape = "else" -> IfThenElse(Cond, o, b)
Compound(bs, others) ==
    {Around(s, b, o) : s \in {"if", "while", "loop", "then", "else"}, b \in bs, o \in others}
Shallow == Compound(BodiesOf(Atoms) \cup Pairs, BodiesOf({Lit(1), Break, AssignTo("x", Lit(3))}))
Nested  == Compound(BodiesOf(Shallow), {BlockTail(<<>>, Lit(1)), Block(<<Stmt(Continue)>>)})

FlowSources == {<<m>> : m \in InMain(Nested)}

(* Values: operands, calls and results that pass through slots. *)
Operand == {Lit(1), X, CallFn("f", <<X>>), IfThenElse(Cond, BlockTail(<<>>, X), BlockTail(<<>>, Lit(4))),
            Loop(Block(<<Stmt(BreakWith(X))>>)), AssignTo("x", Lit(3)),
            BlockTail(<<Let("y", FALSE, "i32", X)>>, Ident("y")), ReturnWith(X)}
Result == {Unary("-", e) : e \in Operand} \cup {Binary("+", e, f) : e, f \in Operand}
          \cup {CallFn("f", <<e>>) : e \in Operand} \cup {CallFn("g", <<e, f>>) : e, f \in Operand}
Helpers == <<FnDecl("f", <<Name("a")>>, <<"i32">>, "i32", BlockTail(<<>>, Ident("a"))),
             FnDecl("g", <<Name("a"), Name("b")>>, <<"i32", "i32">>, "unit", Block(<<>>))>>
ValueSources == {<<m>> \o Helpers : m \in InMain(Result)}

(* Loops inside the value of a break. *)
InBreaks == {Loop(Block(<<Stmt(BreakWith(X))>>)),
             BlockTail(<<Stmt(While(Cond, Block(<<Stmt(AssignTo("x", Lit(3)))>>)))>>, X)}
Outer == {Loop(Block(<<Stmt(BreakWith(e))>>)) : e \in InBreaks}
         \cup {Loop(Block(<<Stmt(If(Cond, Block(<<Stmt(BreakWith(e))>>)))>>)) : e \in InBreaks}
BreakValueSources == {<<m>> : m \in InMain(Outer)}

SomePrograms  == Inputs(FlowSources) \cup Inputs(ValueSources) \cup Inputs(BreakValueSources)
MCPrograms    == SomePrograms
BreakPrograms == Inputs(BreakValueSources)

(* No program of the family names a function as a value. *)
ASSUME AllNamesBound == \A p \in MCPrograms : \A i \in DOMAIN p : NamesBound(p[i])
=============================================================================
