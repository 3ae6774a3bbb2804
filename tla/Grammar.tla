------------------------------- MODULE Grammar -------------------------------
(***************************************************************************)
(* The concrete syntax of the language, as a reference for the parser: the *)
(* text of a program, with the parentheses that the precedence of the      *)
(* operators asks for (src/docs/Architecture.md:56-60) and no others.      *)
(***************************************************************************)
EXTENDS Ast, SequencesExt

Token(kind, text, val) == [kind |-> kind, text |-> text, val |-> val]
Sign(kind)  == Token(kind, kind, ImmUnit)
Word(text)  == Token("name", text, ImmUnit)
Signs(kinds) == [k \in DOMAIN kinds |-> Sign(kinds[k])]

(* How tightly an expression holds together. *)
Binding(op) ==
    CASE op = "||" -> 1 [] op = "&&" -> 2 [] op \in {"==", "!="} -> 3
      [] op \in {"<", "<=", ">", ">="} -> 4 [] op \in {"+", "-"} -> 5 [] OTHER -> 6
Tightness(e) ==
    CASE e.kind = "binary" -> Binding(e.sym.base)
      [] e.kind = "unary"  -> 7
      [] e.kind \in {"assign", "break", "return"} -> 0
      [] OTHER -> 8

TypeText(ty) == IF ty = "unit" THEN Signs(<<"(", ")">>) ELSE <<Sign(ty)>>
Separated(parts) ==
    FoldLeft(LAMBDA text, part : IF text = <<>> THEN part ELSE text \o <<Sign(",")>> \o part, <<>>, parts)

(* `terse`: without the semicolons that may be left out after a statement   *)
(* that ends in a block.                                                    *)
RECURSIVE PrintedExpr(_, _, _), PrintedStmt(_, _, _)
PrintedExpr(e, tight, terse) ==
    LET Part(k, t) == PrintedExpr(e.kids[k], t, terse)
        op     == Sign(e.sym.base)
        b      == Binding(e.sym.base)
        Body   == IF e.tail
                  THEN FoldRight(LAMBDA s, rest : PrintedStmt(s, rest, terse),
                                 Front(e.kids), Part(Len(e.kids), 0))
                  ELSE FoldRight(LAMBDA s, rest : PrintedStmt(s, rest, terse), e.kids, <<>>)
        text   ==
            CASE e.kind = "literal" -> IF e.val = ImmUnit THEN Signs(<<"(", ")">>)
                                       ELSE <<Token("literal", "", e.val)>>
              [] e.kind = "ident"  -> <<Word(e.sym.base)>>
              [] e.kind = "unary"  -> <<op>> \o Part(1, 7)
              [] e.kind = "binary" -> Part(1, b) \o <<op>> \o Part(2, b + 1)
              [] e.kind = "assign" -> <<Word(e.sym.base), Sign("=")>> \o Part(1, 0)
              [] e.kind = "call"   -> <<Word(e.sym.base), Sign("(")>>
                                      \o Separated([k \in DOMAIN e.kids |-> Part(k, 0)]) \o <<Sign(")")>>
              [] e.kind = "block"  -> <<Sign("{")>> \o Body \o <<Sign("}")>>
              [] e.kind = "if"     -> <<Sign("if")>> \o Part(1, 0) \o Part(2, 0)
                                      \o (IF Len(e.kids) = 3 THEN <<Sign("else")>> \o Part(3, 0) ELSE <<>>)
              [] e.kind = "while"  -> <<Sign("while")>> \o Part(1, 0) \o Part(2, 0)
              [] e.kind = "loop"   -> <<Sign("loop")>> \o Part(1, 0)
              [] OTHER             -> <<Sign(e.kind)>> \o (IF e.kids = <<>> THEN <<>> ELSE Part(1, 0))
    IN  IF Tightness(e) < tight THEN <<Sign("(")>> \o text \o <<Sign(")")>> ELSE text

(* A statement, before the rest of its block. *)
PrintedStmt(s, rest, terse) ==
    LET e     == PrintedExpr(s.kids[1], 0, terse)
        block == s.kids[1].kind \in {"block", "if", "while", "loop"}
    IN  CASE s.kind = "let" ->
               <<Sign("let")>> \o (IF s.mut THEN <<Sign("mut")>> ELSE <<>>) \o <<Word(s.sym.base)>>
               \o (IF s.ann = "none" THEN <<>> ELSE <<Sign(":")>> \o TypeText(s.ann))
               \o <<Sign("=")>> \o e \o <<Sign(";")>> \o rest
          [] s.kind # "let" /\ terse /\ block /\ rest # <<>> /\ rest[1].kind # "-" -> e \o rest
          [] OTHER -> e \o <<Sign(";")>> \o rest

PrintedFn(fn, terse) ==
    <<Sign("fn"), Word(fn.name.base), Sign("(")>>
    \o Separated([k \in DOMAIN fn.params |->
                    <<Word(fn.params[k].base), Sign(":")>> \o TypeText(fn.ptys[k])])
    \o <<Sign(")")>> \o (IF fn.ret = "unit" THEN <<>> ELSE <<Sign("->")>> \o TypeText(fn.ret))
    \o PrintedExpr(fn.body, 0, terse)

Printed(prog, terse) ==
    Append(FlattenSeq([k \in DOMAIN prog |-> PrintedFn(prog[k], terse)]), Sign("eof"))

(* The tokens that are not mere punctuation. *)
Significant(ts) ==
    SelectSeq(ts, LAMBDA t : t.kind \notin {"(", ")", "{", "}", ";", ",", ":", "->", "eof"})
=============================================================================
