----------------------------- MODULE MCPasses -----------------------------
(* The optimizer on every lowered function of a small grammar: arithmetic   *)
(* over constants and the parameter, conditions and loops with constant and *)
(* variable conditions, values that pass through result slots, and calls    *)
(* none of whose arguments is computed from constants (module MCClaims has  *)
(* that one).    *)
EXTENDS CompilerChecks
P == Ident("p")
Leaves  == {Lit(0), Lit(1), Lit(2), P}
MinusOne == Unary("-", Lit(1))
Ops     == {"+", "-", "*", "/", "%"}
Simple  == {Binary(op, a, b) : op \in Ops, a, b \in Leaves}
Deeper  == {Binary(op, a, b) : op \in {"-", "/"}, a \in Simple, b \in {Lit(1), P}}
           \cup {Unary("-", a) : a \in Simple}
Lowest  == Binary("-", Unary("-", Lit(7)), Lit(1))
Special == {Binary("/", Lowest, MinusOne), Binary("/", Lowest, P), Binary("%", P, MinusOne)}

Truth == {Literal(ImmBool(TRUE)), Literal(ImmBool(FALSE)), Binary("<", P, Lit(2)),
          Binary("==", P, P), Unary("!", Binary("<", Lit(1), Lit(2)))}
Conds == Truth \cup {Binary(op, a, b) : op \in {"&&", "||"}, a, b \in Truth}

Returning(e) == <<FnDecl("main", <<Name("p")>>, <<"i32">>, "i32", e)>>
Computes == {Returning(BlockTail(<<>>, e)) : e \in Simple \cup Deeper \cup Special}
Stores   == {Returning(BlockTail(<<Let("x", TRUE, "none", e)>>, Binary("+", X, P))) : e \in Simple}
Drops    == {Returning(BlockTail(<<Stmt(e)>>, P)) : e \in Simple}
Chooses  == {Returning(BlockTail(<<>>, IfThenElse(c, BlockTail(<<>>, P), BlockTail(<<>>, Lit(2))))) :
               c \in Conds}
Count    == Stmt(AssignTo("x", Binary("+", X, Lit(1))))
Repeats  == {Returning(BlockTail(<<LetX, Stmt(w)>>, X)) :
               w \in {While(c, Block(<<Count, Stmt(b)>>)) :
                        c \in Truth \cup {Binary("<", X, P)},
                        b \in {Break, Continue, If(Binary("<", Lit(1), X), Block(<<Stmt(Break)>>))}}}
(* A result slot stored on several ways out. *)
Leaving(e) == Block(<<Stmt(If(e, Block(<<Stmt(BreakWith(P))>>))), Stmt(BreakWith(Lit(2)))>>)
Slots   == {Returning(BlockTail(<<>>, Binary("+", Loop(Leaving(c)), P))) : c \in Conds}
           \cup {Returning(BlockTail(<<>>, IfThenElse(c, BlockTail(<<>>, Loop(Leaving(d))),
                                                         BlockTail(<<>>, Lit(1))))) : c, d \in Truth}

F(e)    == CallFn("f", <<e>>)
Callers == {F(P), F(Lit(1)), Binary("+", F(P), F(Binary("+", P, Lit(1)))), Binary("/", F(P), P),
            Binary("-", F(F(P)), Lit(0)), IfThenElse(Binary("<", F(P), P), BlockTail(<<>>, F(P)),
                                                                          BlockTail(<<>>, P))}
Helper  == FnDecl("f", <<Name("a")>>, <<"i32">>, "i32", BlockTail(<<>>, Binary("*", Ident("a"), Lit(1))))
Calls   == {Append(Returning(BlockTail(<<Let("x", FALSE, "none", e), Stmt(d)>>, Binary("+", X, d))), Helper) :
              e, d \in Callers}

SomePrograms == Inputs(Computes \cup Stores \cup Drops \cup Chooses \cup Repeats \cup Slots \cup Calls)
MCPrograms   == SomePrograms
MCArguments  == {-1, 0, 2}

(* No break here holds a reference across a loop, so nothing is left out.  *)
ASSUME AllReferencesHold == \A p \in Programs : \A i \in DOMAIN p : ReferenceHolds(p[i])
=============================================================================
