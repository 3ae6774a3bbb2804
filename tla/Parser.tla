------------------------------- MODULE Parser -------------------------------
(***************************************************************************)
(* src/compiler/src/parser/parser.cpp: recursive descent over the tokens.  *)
(* One step per iteration of the loop of parse(); below it every parse     *)
(* function maps the state of the parser, a record of pos_, the reported   *)
(* diagnostics and what was parsed, to the one it leaves.                  *)
(***************************************************************************)
EXTENDS Grammar, FiniteSets

CONSTANTS SourceTexts       \* what may be parsed: tokens that end with Eof, and the
                      \* program they were written for (<<>> if for none)

VARIABLES tokens, written,
          pos, decls,
          errs,       \* the diagnostics: code and position
          turn        \* flips with every turn of the loop of parse()
parserVars == <<tokens, written, pos, decls, errs, turn>>

State(p, es, out) == [pos |-> p, errs |-> es, out |-> out]
Nothing == Ident("")

At(s)        == tokens[s.pos].kind
Lexeme(s)    == tokens[s.pos].text
Give(s, out) == [s EXCEPT !.out = out]

Error(s, code)   == [s EXCEPT !.errs = @ \cup {<<code, s.pos>>}]
Advance(s)       == IF At(s) = "eof" THEN s ELSE [s EXCEPT !.pos = @ + 1]
Consume(s, kind) == IF At(s) = kind THEN Advance(s) ELSE Error(s, "E0100")
Match(s, kind)   == IF At(s) = kind THEN Advance(s) ELSE s

(* The next token of one of these kinds, or the end. *)
Skip(s, kinds) ==
    [s EXCEPT !.pos = CHOOSE k \in s.pos..Len(tokens) :
        /\ tokens[k].kind \in kinds \cup {"eof"}
        /\ \A j \in s.pos..(k - 1) : tokens[j].kind \notin kinds \cup {"eof"}]
SkipToStmt(s) == Match(Skip(s, {";", "}", "fn", "let", "return"}), ";")

(* Mutant: the decl boundary is where the parser is. *)
SkipToDeclHere(s) == s

SkipToDecl(s) == Skip(s, {"fn"})

TypeOf(s) ==
    CASE At(s) \in {"i32", "i64", "bool", "char"} -> Give(Advance(s), At(s))
      [] At(s) = "(" -> Give(Consume(Advance(s), ")"), "unit")
      [] OTHER -> Give(Error(s, "E0102"), "unknown")

-----------------------------------------------------------------------------
(* Expressions, from the loosest binary operators to the tightest. *)
Levels == <<{"||"}, {"&&"}, {"==", "!="}, {"<", ">", "<=", ">="}, {"+", "-"}, {"*", "/", "%"}>>
ErrorExpr == [Literal(ImmI64(0)) EXCEPT !.ty = "unknown"]
BlockLike == {"block", "if", "while", "loop"}

(* The functions that call each other, by name: the state of the parser,    *)
(* and the level of an operator or what a list has so far.                  *)
RECURSIVE Parse(_, _, _)
Expr(s) == Parse("assign_expr", s, <<>>)

AssignExpr(s) ==
    LET l == Parse("binary_expr", s, 1)
        r == Expr(Advance(l))
    IN  CASE At(l) # "="           -> l
          [] l.out.kind = "ident"  -> Give(r, [Op("assign", <<r.out>>) EXCEPT !.sym = l.out.sym])
          [] OTHER -> [r EXCEPT !.errs = @ \cup {<<"E0104", l.pos>>}, !.out = ErrorExpr]

(* Mutant: an operand of the right side may hold the same operators. *)
OperatorsRight(n, s) ==
    IF At(s) \notin Levels[n] THEN s
    ELSE LET r == Parse("binary_expr", Advance(s), n) IN Give(r, Binary(At(s), s.out, r.out))

(* parse_or_expr to parse_mul_expr: an operand, then operators of the level *)
(* with an operand each.                                                    *)
Operators(n, s) ==
    IF At(s) \notin Levels[n] THEN s
    ELSE LET r == Parse("binary_expr", Advance(s), n + 1)
         IN  Parse("operators", Give(r, Binary(At(s), s.out, r.out)), n)
BinaryExpr(n, s) ==
    IF n > Len(Levels) THEN Parse("unary_expr", s, <<>>)
    ELSE Parse("operators", Parse("binary_expr", s, n + 1), n)

CallArgs(s, args) ==
    LET a    == Expr(s)
        more == Match(a, ",")
    IN  CASE At(s) = ")" -> Give(s, args)
          [] At(a) = ","  -> Parse("call_args", more, Append(args, a.out))
          [] OTHER        -> Give(a, Append(args, a.out))

(* break and return: a value unless the statement ends here. *)
LeavingExpr(s, kind) ==
    LET e == Expr(s)
    IN  IF At(s) \in {";", "}"} THEN Give(s, Op(kind, <<>>)) ELSE Give(e, Op(kind, <<e.out>>))

BlockExpr(s) == Parse("stmts", Consume(s, "{"), <<>>)
WhileExpr(s) ==
    LET c == Expr(Advance(s))
        b == BlockExpr(c)
    IN  Give(b, While(c.out, b.out))
LoopExpr(s) == LET b == BlockExpr(Advance(s)) IN Give(b, Loop(b.out))
IfExpr(s) ==
    LET c == Expr(Advance(s))
        t == BlockExpr(c)
        e == IF At(Advance(t)) = "if" THEN Parse("if_expr", Advance(t), <<>>)
             ELSE BlockExpr(Advance(t))
    IN  IF At(t) = "else" THEN Give(e, IfThenElse(c.out, t.out, e.out))
        ELSE Give(t, If(c.out, t.out))

PrimaryExpr(s) ==
    LET next == Advance(s)
    IN  CASE At(s) = "literal" -> Give(next, Literal(tokens[s.pos].val))
          [] At(s) = "name" ->
               IF At(next) # "(" THEN Give(next, Ident(Lexeme(s)))
               ELSE LET a == Parse("call_args", Advance(next), <<>>)
                    IN  Give(Consume(a, ")"), CallFn(Lexeme(s), a.out))
          [] At(s) = "(" -> IF At(next) = ")" THEN Give(Advance(next), Literal(ImmUnit))
                            ELSE Consume(Expr(next), ")")
          [] At(s) = "{"        -> BlockExpr(s)
          [] At(s) = "if"       -> Parse("if_expr", s, <<>>)
          [] At(s) = "while"    -> WhileExpr(s)
          [] At(s) = "loop"     -> LoopExpr(s)
          [] At(s) \in {"return", "break"} -> LeavingExpr(next, At(s))
          [] At(s) = "continue" -> Give(next, Continue)
          [] OTHER              -> Give(Advance(Error(s, "E0105")), ErrorExpr)

UnaryExpr(s) ==
    LET e == Parse("unary_expr", Advance(s), <<>>)
    IN  IF At(s) \in {"-", "!"} THEN Give(e, Unary(At(s), e.out)) ELSE PrimaryExpr(s)

-----------------------------------------------------------------------------
LetStmt(s) ==
    LET name == Match(Advance(s), "mut")
        type == Consume(name, "name")
        ann  == IF At(type) = ":" THEN TypeOf(Advance(type)) ELSE Give(type, "none")
        init == Expr(Consume(ann, "="))
    IN  Give(Consume(init, ";"), Let(Lexeme(name), At(Advance(s)) = "mut", ann.out, init.out))

MoreStmts(s, stmts) == Parse("stmts", s, Append(stmts, s.out))

(* Mutant: a boundary is looked for after every expression statement. *)
StmtsSkipping(s, stmts) ==
    LET e == Expr(s)
    IN  CASE At(s) \in {"}", "eof"} -> Give(Consume(s, "}"), Block(stmts))
          [] At(s) = "let" -> MoreStmts(LetStmt(s), stmts)
          [] At(s) # "let" /\ At(e) = "}" -> Give(Advance(e), BlockTail(stmts, e.out))
          [] OTHER -> MoreStmts(Give(SkipToStmt(e), Stmt(e.out)), stmts)

(* The loop of parse_block(). *)
Stmts(s, stmts) ==
    LET e == Expr(s)
    IN  CASE At(s) \in {"}", "eof"} -> Give(Consume(s, "}"), Block(stmts))
          [] At(s) = "let" -> MoreStmts(LetStmt(s), stmts)
          [] At(s) \notin {"}", "eof", "let"} ->
               CASE At(e) = ";" -> MoreStmts(Give(Advance(e), Stmt(e.out)), stmts)
                 [] At(e) = "}" -> Give(Advance(e), BlockTail(stmts, e.out))
                 [] At(e) \notin {";", "}"} /\ e.out.kind \in BlockLike ->
                      MoreStmts(Give(e, Stmt(e.out)), stmts)
                 [] OTHER -> Parse("stmts", SkipToStmt(Error(e, "E0103")), stmts)

Parse(name, s, arg) ==
    CASE name = "assign_expr" -> AssignExpr(s)
      [] name = "binary_expr" -> BinaryExpr(arg, s)
      [] name = "operators"   -> Operators(arg, s)
      [] name = "unary_expr"  -> UnaryExpr(s)
      [] name = "call_args"   -> CallArgs(s, arg)
      [] name = "if_expr"     -> IfExpr(s)
      [] name = "stmts"       -> Stmts(s, arg)

RECURSIVE ParamList(_, _)
ParamList(s, params) ==
    LET type == TypeOf(Consume(Consume(s, "name"), ":"))
        all  == Append(params, [name |-> Lexeme(s), type |-> type.out])
        more == Match(type, ",")
    IN  IF At(type) = "," /\ At(more) # ")" THEN ParamList(more, all) ELSE Give(more, all)

ParseFnDecl(s) ==
    LET name   == Advance(s)
        open   == Consume(Consume(name, "name"), "(")
        params == IF At(open) = ")" THEN Give(open, <<>>) ELSE ParamList(open, <<>>)
        close  == Consume(params, ")")
        ret    == IF At(close) = "->" THEN TypeOf(Advance(close)) ELSE Give(close, "unit")
        body   == BlockExpr(ret)
    IN  Give(body, FnDecl(Lexeme(name),
                          [k \in DOMAIN params.out |-> Name(params.out[k].name)],
                          [k \in DOMAIN params.out |-> params.out[k].type], ret.out, body.out))

-----------------------------------------------------------------------------
Here == State(pos, errs, Nothing)
Finished == tokens[pos].kind = "eof"

Init == /\ \E text \in SourceTexts : tokens = text.tokens /\ written = text.written
        /\ pos = 1 /\ decls = <<>> /\ errs = {} /\ turn = 0

ParseFn == /\ At(Here) = "fn"
           /\ LET f == ParseFnDecl(Here)
              IN  pos' = f.pos /\ errs' = f.errs /\ decls' = Append(decls, f.out)
           /\ turn' = 1 - turn
           /\ UNCHANGED <<tokens, written>>

SkipOther == /\ At(Here) \notin {"fn", "eof"}
             /\ LET s == SkipToDecl(Error(Here, "E0101")) IN pos' = s.pos /\ errs' = s.errs
             /\ turn' = 1 - turn
             /\ UNCHANGED <<tokens, written, decls>>

Next == ParseFn \/ SkipOther

(* The loop goes on turning, whether or not a turn gets anywhere. *)
Turns == ~Finished /\ turn' = 1 - turn
Spec  == Init /\ [][Next]_parserVars /\ WF_turn(Turns)

-----------------------------------------------------------------------------
(* parse() comes to an end on every sequence of tokens: each turn of its    *)
(* loop, and of the loops below it, consumes one.                           *)
EventuallyParsed == <>Finished

(* The tree of a program is parsed back from its text: the ladder from      *)
(* parse_or_expr to parse_primary_expr groups the operators as their        *)
(* precedence and associativity say, statements, tails and branches end     *)
(* where the text ends them, and nothing is reported.                       *)
RoundTrip == Finished /\ written # <<>> => decls = written /\ errs = {}

(* What is accepted is understood completely: the functions parsed without  *)
(* a diagnostic have every name, literal, operator and keyword of the text, *)
(* in its order.                                                            *)
NothingDropped ==
    Finished /\ errs = {} => Significant(Printed(decls, FALSE)) = Significant(tokens)
=============================================================================
