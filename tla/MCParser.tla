------------------------------ MODULE MCParser ------------------------------
(* Texts of programs, with every semicolon and with as few as possible, and *)
(* every short sequence of tokens in a function and outside of one.         *)
EXTENDS Parser, Examples
Two == {"||", "&&", "==", "<", "-", "%"}
Q   == Ident("q")
Grouped == {Binary(o, Binary(p, P, Q), Lit(1)) : o, p \in Two}
           \cup {Binary(o, P, Binary(p, Q, Lit(1))) : o, p \in Two}
           \cup {Unary(u, Binary(o, Unary("-", P), Q)) : u \in {"-", "!"}, o \in Two}
           \cup {Binary(o, P, e) : o \in {"-", "&&"}, e \in {AssignTo("q", Lit(1)), BreakWith(Q),
                       ReturnWith(Binary("+", P, Q)), Pick(P), Loop(Block(<<>>)), Unary("!", Q)}}
           \cup {AssignTo("p", AssignTo("q", Binary("||", P, Q))), Literal(ImmUnit),
                 CallFn("f", <<>>), CallFn("f", <<AssignTo("p", Q), Val(P)>>),
                 IfThenElse(P, Val(Q), IfThenElse(Val(Q), Val(P), Block(<<>>))),
                 IfThenElse(If(P, Block(<<>>)), Block(<<>>), Val(If(P, Block(<<>>))))}
(* A while is a statement, never the tail of a body: one that ends a body has *)
(* its semicolon.                                                             *)
Placed(e) == {BlockTail(<<>>, e), Block(<<Stmt(e)>>), BlockTail(<<Stmt(e)>>, Unary("-", P)),
              Block(<<Let("q", TRUE, "char", e)>>), BlockTail(<<Stmt(While(e, Block(<<Stmt(Continue)>>)))>>, Q),
              Block(<<Stmt(While(e, Block(<<Stmt(Continue)>>)))>>)}
Placings == {<<FnDecl("f", <<Name("p"), Name("q")>>, <<"i64", "unit">>, r, b)>> :
                r \in {"unit", "bool"}, b \in UNION {Placed(e) : e \in Grouped}}

TextsOf(progs) == {[tokens |-> Printed(p, terse), written |-> p] : p \in progs, terse \in BOOLEAN}

(* Pieces of text, between a beginning and an end. *)
Piece(kind) == CASE kind \in {"f", "g", "x"} -> Word(kind) [] kind = "1" -> Token("literal", "", ImmI64(1)) [] OTHER -> Sign(kind)
Pieces(kinds, n) == UNION {[1..m -> {Piece(k) : k \in kinds}] : m \in 0..n}
In(before, middles, after) ==
    LET Text(kinds) == [k \in DOMAIN kinds |-> Piece(kinds[k])]
    IN  {[tokens |-> Text(before) \o s \o Text(after \o <<"eof">>), written |-> <<>>] : s \in middles}
OpenF == <<"fn", "f", "(", ")", "{">>
FnG   == <<"fn", "g", "(", ")", "{", "}">>
Bodies   == In(OpenF, Pieces({"x", "1", "-", "=", "let", "if", "{", "}", ";", "break", "("}, 4), <<"}">>)
Branches == In(OpenF \o <<"if", "x", "{">>, Pieces({"x", "-", "}", "else", "if", "{", ";"}, 4), <<"}", "}">>)
Calls    == In(OpenF \o <<"x", "(">>, Pieces({"x", "1", ",", ")", "(", ";"}, 4), <<")", "}">>)
Headers  == In(<<"fn">>, Pieces({"x", "(", ")", "i32", ":", ",", "->", "{"}, 4), <<"}">>)
Recovery == In(OpenF, Pieces({"x", "=", ";", "}", "let", "["}, 4), FnG)
Topmost  == In(<<>>, Pieces({"fn", "x", "}", "let"}, 3), FnG)

MCSourceTexts == TextsOf(Whole \cup Placings) \cup Bodies \cup Branches \cup Calls
                 \cup Headers \cup Recovery \cup Topmost
=============================================================================
