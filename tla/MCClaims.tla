----------------------------- MODULE MCClaims -----------------------------
(* A smallest program on which the pass manager does not end.               *)
EXTENDS CompilerChecks
Returning(e) == FnDecl("main", <<Name("p")>>, <<"i32">>, "i32", BlockTail(<<>>, e))
Helper == FnDecl("f", <<Name("a")>>, <<"i32">>, "i32", BlockTail(<<>>, Ident("a")))

Constant == Inputs({<<Returning(CallFn("f", <<Binary("+", Lit(1), Lit(2))>>)), Helper>>})

MCConstant  == Constant
MCArguments == {-1, 0, 2}
=============================================================================
