----------------------------- MODULE MCAnalysis -----------------------------
(* Functions built from every small expression in every place of a body,   *)
(* well typed and not, jumps in and out of loops, names of every scope, and *)
(* pairs of functions that call and take each other.                        *)
EXTENDS Analysis, Examples

Y == Ident("y")
Boolean(b) == Literal(ImmBool(b))
True == Boolean(TRUE)
Fn(f, params, ret, body) == FnDecl(f, [k \in DOMAIN params |-> Name(params[k])],
                                   [k \in DOMAIN params |-> "i32"], ret, body)

Atoms == {Lit(1), True, X, Y, P}
Small == {Binary(op, a, b) : op \in {"+", "<", "&&"}, a, b \in {Lit(1), True, X, P}}
         \cup {Unary(op, a) : op \in {"-", "!"}, a \in {Lit(1), True, X}}
         \cup {AssignTo(x, a) : x \in {"x", "y", "p", "f"}, a \in {Lit(1), True, X}}
         \cup {CallFn(f, args) : f \in {"f", "x", "nobody"}, args \in {<<>>, <<P>>, <<True>>, <<X>>, <<P, P>>}}
Branches == {Val(Lit(2)), Val(True), Val(X), Block(<<>>), Val(ReturnWith(P)), Block(<<Stmt(ReturnWith(True))>>)}
Ifs    == {IfThenElse(c, t, e) : c \in {True, Lit(1)}, t, e \in Branches} \cup {If(True, t) : t \in Branches}
Inner  == {BlockTail(<<Let("y", mut, "none", a), Stmt(AssignTo("y", b))>>, c) :
              mut \in BOOLEAN, a, b \in {Lit(1), True}, c \in {X, Y}}
          \cup {BlockTail(<<Let("x", FALSE, "none", a), Let(x, FALSE, "none", X)>>, X) :
                   a \in {X, True}, x \in {"x", "y", "f"}}

(* Loops with one or two ways out, and a loop in a loop. *)
Outs  == {Break, BreakWith(Lit(1)), BreakWith(True), BreakWith(X), Continue, ReturnWith(P), ReturnUnit}
Maybe(e) == Stmt(If(True, Block(<<Stmt(e)>>)))
Within == {Block(<<>>), Block(<<Stmt(While(Boolean(FALSE), Block(<<>>)))>>),
           Block(<<Stmt(Loop(Block(<<Stmt(Break)>>)))>>)}
Rounds == {Loop(Block(<<Maybe(e), Stmt(w), Stmt(f)>>)) : e, f \in Outs, w \in Within}
          \cup {While(c, Block(<<Maybe(e)>>)) : c \in {True, Lit(1)}, e \in Outs}
          \cup {Loop(Block(<<Stmt(Loop(Block(<<Maybe(e), Stmt(f)>>))), Stmt(Break)>>)) : e, f \in Outs}


(* Jumps in the condition of a while: out of the loop around, if there is one. *)
Jumping(e)  == BlockTail(<<Stmt(e)>>, True)
Conditions  == {Loop(Block(<<Stmt(While(Jumping(e), Block(<<Stmt(Break)>>))), Maybe(f)>>)) : e, f \in Outs}
               \cup {While(c, Block(<<Stmt(While(Jumping(e), Block(<<>>)))>>)) : c \in {True, Jumping(Break)}, e \in Outs}

Expressions == Atoms \cup Small \cup Ifs \cup Inner \cup Rounds \cup Outs \cup Conditions
Lets == {Let("x", mut, ann, a) : mut \in BOOLEAN, ann \in {"none", "i32", "bool"}, a \in {Lit(1), True}}
FF   == Fn("f", <<"q">>, "i32", Val(Ident("q")))
One  == {<<Fn("g", <<"p">>, ret, BlockTail(<<l>>, e)), FF>> :
            ret \in {"i32", "bool"}, l \in Lets, e \in Expressions}
Two  == {<<Fn("g", <<"p">>, "unit", Block(<<Let("x", TRUE, "none", a), Stmt(e), Let(y, FALSE, "none", X), Stmt(Y)>>)), FF>> :
            a \in {Lit(1), True}, e \in Expressions, y \in {"y", "x", "f"}}

(* Pairs of functions: parameters and names twice, every name used or called. *)
Takers == {Lit(1), Ident("a"), Ident("b"), Ident("f"), CallFn("g", <<Lit(1)>>), CallFn("f", <<Lit(1)>>), CallFn("h", <<>>),
         BlockTail(<<Let("a", FALSE, "none", Ident("f"))>>, Lit(1)),
         BlockTail(<<Let("a", FALSE, "none", Ident("g"))>>, CallFn("a", <<Lit(1)>>)),
         IfThenElse(True, Val(Ident("f")), Val(Ident("f")))}
Pairs == {<<Fn("f", ps, "i32", Val(e)), Fn(g, <<"b">>, ret, Val(u)), Fn("h", <<>>, "unit", Val(v))>> :
             ps \in {<<"a">>, <<"a", "a">>}, e, u \in Takers, v \in {Lit(1), Ident("f"), CallFn("f", <<Lit(1)>>)},
             g \in {"f", "g"}, ret \in {"i32", "unit"}}

(* src/tests/test_semantic.cpp: two functions that call each other. *)
Parity(f, g, zero) == Fn(f, <<"n">>, "bool",
    Val(IfThenElse(Binary("==", N, Lit(0)), Val(Boolean(zero)), Val(Call1(g, Less(N, 1))))))
OddBeforeEven == {<<Parity("odd", "even", FALSE), Parity("even", "odd", TRUE)>>}

MCSources == OddBeforeEven \cup One \cup Two \cup Pairs
=============================================================================
