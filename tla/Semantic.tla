----------------------------- MODULE Semantic -----------------------------
(***************************************************************************)
(* The semantic analysis, src/compiler/src/semantic/semantic_analyzer.cpp: *)
(* name resolution over a stack of scopes, types, moves and the placement  *)
(* of break and continue.  The visitor is modelled as a recursive function *)
(* that threads an environment through the tree and returns the tree with  *)
(* every resolved_type filled in; diagnostics are the set of their codes.  *)
(*                                                                         *)
(* env.scopes is SymbolTable::scopes_, env.brk current_loop_break_type_    *)
(* (<<>> when empty), env.ret current_return_type_.  The type of a result  *)
(* is last_expr_type_ after the visit.  All function types are the one     *)
(* type "fn"; a function symbol carries its signature.                     *)
(***************************************************************************)
EXTENDS Ast, FiniteSets

Numeric == {"i32", "i64"}
Copy    == {"i32", "i64", "bool", "char", "unit"}     \* Type::is_copy

Unknown(t) == t = "unknown"
Compatible(a, b) == Unknown(a) \/ Unknown(b) \/ a = b
(* The guard of most diagnostics: an unknown type is never reported again. *)
Mismatch(t, want) == ~Unknown(t) /\ t \notin want

VarSym(ty, mut)  == [ty |-> ty, fn |-> FALSE, mut |-> mut, moved |-> FALSE,
                     params |-> <<>>, ret |-> "unknown"]
FnSym(ptys, ret) == [ty |-> "fn", fn |-> TRUE, mut |-> FALSE, moved |-> FALSE,
                     params |-> ptys, ret |-> ret]

Scope(isFn, isLoop) == [vars |-> [x \in {} |-> VarSym("unknown", FALSE)],
                        fn |-> isFn, loop |-> isLoop]

PushScope(env, isFn, isLoop) == [env EXCEPT !.scopes = Append(@, Scope(isFn, isLoop))]
PopScope(env) == [env EXCEPT !.scopes = SubSeq(@, 1, Len(@) - 1)]

Error(env, code, bad) == IF bad THEN [env EXCEPT !.errs = @ \cup {code}] ELSE env

(* SymbolTable::declare: fails on a second declaration in the same scope. *)
Declare(env, x, sym, code) ==
    LET top == Len(env.scopes)
        old == env.scopes[top].vars
    IN  IF x \in DOMAIN old THEN Error(env, code, TRUE)
        ELSE [env EXCEPT !.scopes[top].vars =
                [y \in DOMAIN old \cup {x} |-> IF y = x THEN sym ELSE old[y]]]

(* SymbolTable::lookup walks the scopes from the innermost outwards. *)
Holders(env, x) == {d \in DOMAIN env.scopes : x \in DOMAIN env.scopes[d].vars}
Known(env, x)   == Holders(env, x) # {}
(* Mutant: the scopes are walked from the outside. *)
HolderOutermost(env, x) == CHOOSE d \in Holders(env, x) : \A e \in Holders(env, x) : e >= d
Holder(env, x)  == CHOOSE d \in Holders(env, x) : \A e \in Holders(env, x) : e <= d
Lookup(env, x)  == env.scopes[Holder(env, x)].vars[x]
MarkMoved(env, x) == [env EXCEPT !.scopes[Holder(env, x)].vars[x].moved = TRUE]

(* SymbolTable::in_loop_scope: the search stops at a function scope. *)
InLoop(env) == \E d \in DOMAIN env.scopes :
                  /\ env.scopes[d].loop
                  /\ \A e \in DOMAIN env.scopes : e > d => ~env.scopes[e].fn

Typed(n, kids, ty, env) ==
    [ty |-> ty, node |-> [n EXCEPT !.ty = ty, !.kids = kids], env |-> env]

Arithmetic == {"+", "-", "*", "/", "%"}
Logical    == {"&&", "||"}

(* visit(BinaryExpr) with check_arithmetic_op and check_comparison_op. *)
BinaryType(op, l, r) ==
    IF op \notin Arithmetic THEN "bool"
    ELSE IF {l, r} \subseteq Numeric /\ l = r THEN l ELSE "unknown"
BinaryErrors(op, l, r) ==
    IF op \in Logical
    THEN {c \in {"E0210"} : Mismatch(l, {"bool"}) \/ Mismatch(r, {"bool"})}
    ELSE IF Unknown(l) \/ Unknown(r) THEN {}
    ELSE IF op \in Arithmetic
         THEN IF {l, r} \subseteq Numeric THEN {c \in {"E0212"} : l # r} ELSE {"E0211"}
         ELSE {c \in {"E0213"} : l # r}

UnaryWants(op) == IF op = "-" THEN Numeric ELSE {"bool"}
UnaryType(op, t) ==
    IF Mismatch(t, UnaryWants(op)) THEN "unknown" ELSE IF op = "-" THEN t ELSE "bool"

LiteralType(v) == CASE v.k = "i64" -> "i32"     \* IntLiteralExpr::is_i64 is never set
                    [] v.k = "bool" -> "bool" [] v.k = "char" -> "char"
                    [] v.k = "unit" -> "unit"

VisitIdent(n, env) ==
    IF ~Known(env, n.sym) THEN Typed(n, <<>>, "unknown", Error(env, "E0205", TRUE))
    ELSE LET sym == Lookup(env, n.sym)
         IN  IF sym.moved THEN Typed(n, <<>>, "unknown", Error(env, "E0206", TRUE))
             ELSE Typed(n, <<>>, sym.ty,
                        IF sym.ty \in Copy THEN env ELSE MarkMoved(env, n.sym))

FinishAssign(n, v) ==
    IF ~Known(v.env, n.sym) THEN Typed(n, <<v.node>>, "unknown", Error(v.env, "E0205", TRUE))
    ELSE LET sym == Lookup(v.env, n.sym)
         IN  IF ~sym.mut THEN Typed(n, <<v.node>>, "unknown", Error(v.env, "E0208", TRUE))
             ELSE Typed(n, <<v.node>>, sym.ty,
                        Error(v.env, "E0209", ~Compatible(v.ty, sym.ty)))

FinishLet(n, v) ==
    LET ty  == IF n.ann = "none" THEN v.ty ELSE n.ann
        env == Error(v.env, "E0203", n.ann # "none" /\ ~Compatible(v.ty, n.ann))
    IN  Typed(n, <<v.node>>, v.ty, Declare(env, n.sym, VarSym(ty, n.mut), "E0204"))

RECURSIVE Visit(_, _), VisitAll(_, _)

(* accept() on each of ns in turn: the annotated nodes, their types and the *)
(* environment after the last.                                              *)
VisitAll(ns, env) ==
    IF ns = <<>> THEN [nodes |-> <<>>, tys |-> <<>>, env |-> env]
    ELSE LET h == Visit(Head(ns), env)
             t == VisitAll(Tail(ns), h.env)
         IN  [nodes |-> <<h.node>> \o t.nodes, tys |-> <<h.ty>> \o t.tys, env |-> t.env]

VisitBlock(n, env) ==
    LET all == VisitAll(n.kids, PushScope(env, FALSE, FALSE))
    IN  Typed(n, all.nodes,
              IF n.tail THEN all.tys[Len(all.tys)] ELSE "unit", PopScope(all.env))

VisitCall(n, env) ==
    IF ~Known(env, n.sym) THEN Typed(n, n.kids, "unknown", Error(env, "E0215", TRUE))
    ELSE IF ~Lookup(env, n.sym).fn THEN Typed(n, n.kids, "unknown", Error(env, "E0216", TRUE))
    ELSE LET sig == Lookup(env, n.sym)
             all == VisitAll(n.kids, Error(env, "E0217", Len(n.kids) # Len(sig.params)))
             bad == \E i \in DOMAIN n.kids \cap DOMAIN sig.params :
                        ~Compatible(all.tys[i], sig.params[i])
         IN  Typed(n, all.nodes, sig.ret, Error(all.env, "E0218", bad))

VisitIf(n, env) ==
    LET all  == VisitAll(n.kids, env)
        ty(i) == all.tys[i]
        env1 == Error(all.env, "E0219", Mismatch(ty(1), {"bool"}))
    IN  IF Len(n.kids) = 2 THEN Typed(n, all.nodes, "unit", env1)
        ELSE Typed(n, all.nodes, IF Unknown(ty(2)) THEN ty(3) ELSE ty(2),
                   Error(env1, "E0220", ~Compatible(ty(2), ty(3))))

(* The body of a loop, in a loop scope of its own. *)
LoopBody(body, env, brk) ==
    Visit(body, PushScope([env EXCEPT !.brk = brk], FALSE, TRUE))

(* Mutant: the type of the breaks around is saved before the condition. *)
VisitWhileEarly(n, env) ==
    LET c == Visit(n.kids[1], env)
        b == LoopBody(n.kids[2], Error(c.env, "E0221", Mismatch(c.ty, {"bool"})), <<"unit">>)
    IN  Typed(n, <<c.node, b.node>>, "unit", [PopScope(b.env) EXCEPT !.brk = env.brk])

(* A break in the condition leaves the loop around, and fixes its type.     *)
VisitWhile(n, env) ==
    LET c == Visit(n.kids[1], env)
        b == LoopBody(n.kids[2], Error(c.env, "E0221", Mismatch(c.ty, {"bool"})), <<"unit">>)
    IN  Typed(n, <<c.node, b.node>>, "unit", [PopScope(b.env) EXCEPT !.brk = c.env.brk])

(* Mutant: the type of the breaks around is not put back. *)
VisitLoopForgets(n, env) ==
    LET b == LoopBody(n.kids[1], env, <<>>)
    IN  Typed(n, <<b.node>>, IF b.env.brk = <<>> THEN "unit" ELSE b.env.brk[1], PopScope(b.env))

VisitLoop(n, env) ==
    LET b == LoopBody(n.kids[1], env, <<>>)
    IN  Typed(n, <<b.node>>, IF b.env.brk = <<>> THEN "unit" ELSE b.env.brk[1],
              [PopScope(b.env) EXCEPT !.brk = env.brk])

(* visit(BreakExpr): the first break of a loop fixes its type. *)
VisitBreak(n, env) ==
    IF ~InLoop(env) THEN Typed(n, n.kids, "unknown", Error(env, "E0222", TRUE))
    ELSE LET all == VisitAll(n.kids, env)
             ty  == IF n.kids = <<>> THEN "unit" ELSE all.tys[1]
             brk == all.env.brk
         IN  Typed(n, all.nodes, "unknown",
                   IF brk = <<>> THEN [all.env EXCEPT !.brk = <<ty>>]
                   ELSE Error(all.env, "E0223", ~Compatible(ty, brk[1])))

VisitReturn(n, env) ==
    LET all == VisitAll(n.kids, env)
        ty  == IF n.kids = <<>> THEN "unit" ELSE all.tys[1]
    IN  Typed(n, all.nodes, "unknown", Error(all.env, "E0225", ~Compatible(ty, env.ret)))

VisitOperator(n, env) ==
    LET all == VisitAll(n.kids, env)
        op  == n.sym.base
        ty(i) == all.tys[i]
    IN  IF n.kind = "unary"
        THEN Typed(n, all.nodes, UnaryType(op, ty(1)),
                   Error(all.env, "E0214", Mismatch(ty(1), UnaryWants(op))))
        ELSE Typed(n, all.nodes, BinaryType(op, ty(1), ty(2)),
                   [all.env EXCEPT !.errs = @ \cup BinaryErrors(op, ty(1), ty(2))])

Visit(n, env) ==
    CASE n.kind = "literal"  -> Typed(n, <<>>, LiteralType(n.val), env)
      [] n.kind = "ident"    -> VisitIdent(n, env)
      [] n.kind \in {"unary", "binary"} -> VisitOperator(n, env)
      [] n.kind = "assign"   -> FinishAssign(n, Visit(n.kids[1], env))
      [] n.kind = "let"      -> FinishLet(n, Visit(n.kids[1], env))
      [] n.kind = "exprstmt" -> LET e == Visit(n.kids[1], env)
                                IN  Typed(n, <<e.node>>, e.ty, e.env)
      [] n.kind = "block"    -> VisitBlock(n, env)
      [] n.kind = "call"     -> VisitCall(n, env)
      [] n.kind = "if"       -> VisitIf(n, env)
      [] n.kind = "while"    -> VisitWhile(n, env)
      [] n.kind = "loop"     -> VisitLoop(n, env)
      [] n.kind = "break"    -> VisitBreak(n, env)
      [] n.kind = "continue" -> Typed(n, <<>>, "unknown", Error(env, "E0224", ~InLoop(env)))
      [] n.kind = "return"   -> VisitReturn(n, env)

-----------------------------------------------------------------------------
(* check_fn_decl. *)
RECURSIVE DeclareParams(_, _, _)
DeclareParams(fn, k, env) ==
    IF k > Len(fn.params) THEN env
    ELSE DeclareParams(fn, k + 1,
            Declare(env, fn.params[k], VarSym(fn.ptys[k], FALSE), "E0201"))

(* Mutant: the scope of the function stays open. *)
CheckFnDeclOpen(fn, env) ==
    LET b == Visit(fn.body, DeclareParams(fn, 1, PushScope([env EXCEPT !.ret = fn.ret], TRUE, FALSE)))
        bad == fn.ret \notin {"unit", "unknown"} /\ ~Compatible(b.ty, fn.ret)
    IN  [fn |-> [fn EXCEPT !.body = b.node],
         env |-> [Error(b.env, "E0202", bad) EXCEPT !.ret = env.ret]]

CheckFnDecl(fn, env) ==
    LET b == Visit(fn.body, DeclareParams(fn, 1, PushScope([env EXCEPT !.ret = fn.ret], TRUE, FALSE)))
        bad == fn.ret \notin {"unit", "unknown"} /\ ~Compatible(b.ty, fn.ret)
    IN  [fn |-> [fn EXCEPT !.body = b.node],
         env |-> [PopScope(Error(b.env, "E0202", bad)) EXCEPT !.ret = env.ret]]

(* collect_fn_signatures: all functions are declared before any is checked. *)
RECURSIVE CollectSignatures(_, _, _)
CollectSignatures(prog, k, env) ==
    IF k > Len(prog) THEN env
    ELSE CollectSignatures(prog, k + 1,
            Declare(env, prog[k].name, FnSym(prog[k].ptys, prog[k].ret), "E0200"))

RECURSIVE CheckFns(_, _, _)
CheckFns(prog, k, env) ==
    IF k > Len(prog) THEN [prog |-> <<>>, env |-> env]
    ELSE LET r == CheckFnDecl(prog[k], env)
             t == CheckFns(prog, k + 1, r.env)
         IN  [prog |-> <<r.fn>> \o t.prog, env |-> t.env]

(* SemanticAnalyzer::analyze: the annotated program and the diagnostics. *)
Analyze(prog) ==
    LET env0 == PushScope([scopes |-> <<>>, brk |-> <<>>, ret |-> "unknown", errs |-> {}],
                          FALSE, FALSE)
        r    == CheckFns(prog, 1, CollectSignatures(prog, 1, env0))
    IN  [prog |-> r.prog, errs |-> r.env.errs]
=============================================================================
