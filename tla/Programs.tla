----------------------------- MODULE Programs -----------------------------
(***************************************************************************)
(* Building blocks for the families of source programs the models are      *)
(* checked on, and the step from a family of syntax trees to the annotated *)
(* programs the rest of the compiler sees: those the semantic analysis     *)
(* accepts, with the types it resolved.                                    *)
(***************************************************************************)
EXTENDS Ast, TLC
Sem == INSTANCE Semantic

Lit(n) == Literal(ImmI64(n))
X == Ident("x")
Cond == Binary("<", X, Lit(2))
Body(e, tail) == IF tail THEN BlockTail(<<>>, e) ELSE Block(<<Stmt(e)>>)
BodiesOf(es) == {Body(e, tail) : e \in es, tail \in BOOLEAN}

Main(body) == FnDecl("main", <<Name("p")>>, <<"i32">>, "i32", body)
LetX == Let("x", TRUE, "none", Lit(0))
MainWith(e, tail) ==
    Main(IF tail THEN BlockTail(<<LetX>>, e) ELSE BlockTail(<<LetX, Stmt(e)>>, X))
InMain(es) == {MainWith(e, tail) : e \in es, tail \in BOOLEAN}

Accepted(sources) == {r.prog : r \in {a \in {Sem!Analyze(p) : p \in sources} : a.errs = {}}}

(* The accepted programs of a family in the form the builder is given. *)
RECURSIVE TabulateFrom(_, _)
TabulateFrom(prog, k) ==
    IF k > Len(prog) THEN <<>> ELSE <<Tabulated(prog[k])>> \o TabulateFrom(prog, k + 1)
Inputs(sources) == {TabulateFrom(p, 1) : p \in Accepted(sources)}
=============================================================================
