----------------------------- MODULE Examples -----------------------------
(* Whole programs: the examples of the repository, recursion with values    *)
(* alive across the calls, six arguments, loops with every way out, blocks  *)
(* that declare names of their own, and all operators of the language.      *)
EXTENDS Programs
P == Ident("p")
N == Ident("n")
I32(f, params, body) == FnDecl(f, [k \in DOMAIN params |-> Name(params[k])],
                               [k \in DOMAIN params |-> "i32"], "i32", body)
MainOf(body) == I32("main", <<"p">>, body)
Val(e) == BlockTail(<<>>, e)
Tenths(a, b) == Binary("+", Binary("*", a, Lit(5)), b)
Call1(f, e) == CallFn(f, <<e>>)
Less(e, k) == Binary("-", e, Lit(k))

(* src/examples: factorial.ric, fibonacci.ric and collatz.ric. *)
Factorial ==
    <<I32("factorial", <<"n">>,
          BlockTail(<<>>, IfThenElse(Binary("<=", N, Lit(1)), Val(Lit(1)),
                                     Val(Binary("*", N, Call1("factorial", Less(N, 1))))))),
      MainOf(Val(Call1("factorial", P)))>>
Fibonacci ==
    <<I32("fib", <<"n">>,
          BlockTail(<<Stmt(If(Binary("<=", N, Lit(1)), Block(<<Stmt(ReturnWith(N))>>)))>>,
                    Binary("+", Call1("fib", Less(N, 1)), Call1("fib", Less(N, 2))))),
      MainOf(Val(Call1("fib", P)))>>

Collatz ==
    <<MainOf(BlockTail(<<Let("x", TRUE, "none", P), Let("steps", TRUE, "none", Lit(0)),
        Stmt(While(Binary("<", Lit(1), X), Block(<<
            Stmt(IfThenElse(Binary("==", Binary("%", X, Lit(2)), Lit(0)),
                            Block(<<Stmt(AssignTo("x", Binary("/", X, Lit(2))))>>),
                            Block(<<Stmt(AssignTo("x", Binary("+", Binary("*", X, Lit(3)), Lit(1))))>>))),
            Stmt(AssignTo("steps", Binary("+", Ident("steps"), Lit(1))))>>)))>>, Ident("steps")))>>

(* Deeper than the stack for the larger inputs. *)
Deep == <<I32("count", <<"n">>, Val(IfThenElse(Binary("<=", N, Lit(0)), Val(Lit(0)),
                 Val(Binary("+", Call1("count", Less(N, 1)), Lit(1)))))),
          MainOf(Val(Call1("count", Binary("*", P, Lit(5)))))>>

(* Two functions that call each other, with a variable alive in each. *)
Even(f, g, k) ==
    I32(f, <<"n">>, BlockTail(<<Let("was", FALSE, "none", N)>>,
        IfThenElse(Binary("<=", N, Lit(0)), Val(Lit(k)),
                   Val(Binary("+", Call1(g, Less(N, 1)), Ident("was"))))))
Mutual == <<MainOf(Val(Call1("even", P))), Even("even", "odd", 0), Even("odd", "even", 1)>>

Letters == <<"a", "b", "c", "d", "e", "f">>
Six == <<I32("six", Letters,
             Val(Tenths(Tenths(Tenths(Ident("a"), Ident("b")), Binary("-", Ident("c"), Ident("d"))),
                        Binary("%", Ident("e"), Ident("f"))))),
         MainOf(Val(CallFn("six", <<P, Lit(2), Binary("+", P, Lit(1)), P, Lit(7), Lit(3)>>)))>>

(* A unit function called for nothing, and a call inside an operand. *)
Helper == <<FnDecl("nothing", <<Name("n")>>, <<"i32">>, "unit",
                   Block(<<Stmt(If(Binary("<", N, Lit(2)), Block(<<Stmt(ReturnUnit)>>))),
                           Stmt(Call1("nothing", Less(N, 1)))>>)),
            MainOf(BlockTail(<<Let("x", FALSE, "none", Binary("*", P, P)), Stmt(Call1("nothing", P))>>,
                             Binary("-", X, Binary("/", Lit(6), P))))>>

(* Loops: every way out, values of breaks, names declared in bodies. *)
Inc(x)  == Stmt(AssignTo(x, Binary("+", Ident(x), Lit(1))))
Exits   == {Break, Continue, ReturnWith(X), Block(<<Stmt(Break)>>)}
Whiles  == {<<MainOf(BlockTail(<<LetX, Stmt(While(c, Block(<<Inc("x"),
                        Let("y", FALSE, "none", Binary("*", X, P)),
                        Stmt(If(Binary("<", P, Ident("y")), Block(<<Stmt(e)>>))), Inc("x")>>)))>>, X))>> :
              c \in {Binary("<", X, P), Binary("&&", Binary("<", X, Lit(5)), Binary("!=", X, P))}, e \in Exits}
Loops   == {<<MainOf(BlockTail(<<LetX, Let("r", FALSE, "none",
                       Loop(Block(<<Inc("x"), Stmt(If(c, Block(<<Stmt(BreakWith(v))>>))),
                                    Stmt(If(Binary("<", Lit(4), X), Block(<<Stmt(w)>>)))>>)))>>,
                     Binary("-", Ident("r"), P)))>> :
              c \in {Binary("==", X, P), Binary("<", P, X)}, v \in {X, Binary("%", X, P)},
              w \in {BreakWith(Lit(0)), ReturnWith(P)}}
NestedLoops == {<<MainOf(BlockTail(<<LetX, Stmt(While(Binary("<", X, P),
                  Block(<<Inc("x"), Let("z", TRUE, "none", Lit(0)),
                          Stmt(Loop(Block(<<Inc("z"), Stmt(If(Binary("<=", X, Ident("z")),
                                                              Block(<<Stmt(e)>>)))>>)))>>)))>>, X))>> :
                  e \in {Break, ReturnWith(Ident("z"))}}

(* Expressions: every operator, with values that come out of other blocks. *)
Ops   == {"+", "-", "*", "/", "%"}
Tests == {"==", "!=", "<", "<=", ">", ">="}
Pick(c) == IfThenElse(c, Val(P), Val(Lit(3)))
Computed == {MainOf(Val(Binary(op, a, b))) :
               op \in Ops \ {"/", "%"}, a, b \in {P, Lit(3), Unary("-", P), Pick(Binary("<", P, Lit(1)))}}
(* What is divided is not negative; elsewhere, negative numbers are divided *)
(* without remainder only.                                                  *)
Divided  == {MainOf(Val(Binary(op, a, b))) :
               op \in {"/", "%"}, a \in {Lit(3), Lit(7), Binary("*", P, P), Pick(Binary("<", Lit(0), P))},
               b \in {P, Lit(3), Unary("-", P), Pick(Binary("<", P, Lit(1)))}}
Identities == {MainOf(Val(Binary("+", Binary(op, P, Lit(k)), Binary(o, Lit(k), P)))) :
                 op \in Ops, o \in {"+", "*"}, k \in {0, 1}}
Decided  == {MainOf(Val(Pick(c))) :
               c \in LET ts == {Binary(t, P, Lit(1)) : t \in Tests}
                     IN  ts \cup {Unary("!", t) : t \in ts}
                         \cup {Binary(op, t, Binary("==", Binary("/", Lit(3), P), Lit(1))) :
                                 op \in {"&&", "||"}, t \in ts}}
Declared == {MainOf(BlockTail(<<LetX, Let("y", FALSE, "none",
               BlockTail(<<Let("inner", FALSE, "none", P), Stmt(AssignTo("x", e))>>, Ident("inner"))),
               Stmt(Block(<<Let("inner", FALSE, "none", Lit(9)), Inc("x")>>))>>,
               Tenths(X, Ident("y")))) : e \in {Ident("inner"), P, Binary("-", Ident("inner"), X)}}
(* Temporaries alive across calls, in operands, arguments, branches, loops. *)
Triple  == I32("triple", <<"n">>, BlockTail(<<Let("x", TRUE, "none", N)>>,
               Loop(Block(<<Inc("x"), Stmt(If(Binary("<=", Binary("*", N, Lit(3)), X),
                                              Block(<<Stmt(BreakWith(X))>>)))>>))))
T(e)    == Call1("triple", e)
Parts   == {P, T(P), Binary("-", T(P), P), Pick(Binary("<", T(P), Lit(4))), T(T(P))}
Alive   == {<<MainOf(Val(Binary(op, a, b))), Triple>> : op \in {"-", "%"}, a, b \in Parts}
           \cup {<<MainOf(BlockTail(<<LetX, Stmt(While(Binary("<", X, a), Block(<<Inc("x"),
                       Stmt(If(Binary("==", b, X), Block(<<Stmt(e)>>)))>>)))>>, X)), Triple>> :
                    a, b \in {P, T(P), Binary("-", T(P), P)}, e \in {Break, ReturnWith(T(X))}}
Singles == {<<m>> : m \in Computed \cup Divided \cup Identities \cup Decided \cup Declared}

Whole == Singles \cup Whiles \cup Loops \cup NestedLoops \cup Alive
         \cup {Deep, Factorial, Fibonacci, Collatz, Mutual, Six, Helper}
=============================================================================
