------------------------------- MODULE Ast -------------------------------
(***************************************************************************)
(* The syntax tree the parser builds (src/compiler/include/ast/ast.hpp),   *)
(* one uniform record per node: `kids` are the operands in the order every *)
(* visitor walks them, `sym` the name, operator or callee, `val` the value *)
(* of a literal, `ty` Expr::resolved_type ("?" until analysed), `tail` is  *)
(* set on a block that ends in a tail expression, `mut` and `ann` are the  *)
(* mutability and annotation of a let.                                     *)
(***************************************************************************)
EXTENDS IR

Tree(kind, kids, sym, val) ==
    [kind |-> kind, kids |-> kids, sym |-> sym, val |-> val,
     ty |-> "?", tail |-> FALSE, mut |-> FALSE, ann |-> "none"]
Op(kind, kids) == Tree(kind, kids, Name(kind), ImmUnit)

Literal(v)      == Tree("literal", <<>>, Name("literal"), v)
Ident(x)        == Tree("ident", <<>>, Name(x), ImmUnit)
Unary(op, e)    == Tree("unary", <<e>>, Name(op), ImmUnit)
Binary(op, l, r) == Tree("binary", <<l, r>>, Name(op), ImmUnit)
CallFn(f, args) == Tree("call", args, Name(f), ImmUnit)
AssignTo(x, e)  == Tree("assign", <<e>>, Name(x), ImmUnit)
Let(x, mut, ann, e) ==
    [Tree("let", <<e>>, Name(x), ImmUnit) EXCEPT !.mut = mut, !.ann = ann]
Stmt(e)         == Op("exprstmt", <<e>>)
Block(stmts)    == Op("block", stmts)
BlockTail(stmts, e) == [Op("block", Append(stmts, e)) EXCEPT !.tail = TRUE]
If(c, t)        == Op("if", <<c, t>>)
IfThenElse(c, t, e) == Op("if", <<c, t, e>>)
While(c, b)     == Op("while", <<c, b>>)
Loop(b)         == Op("loop", <<b>>)
Break           == Op("break", <<>>)
BreakWith(e)    == Op("break", <<e>>)
Continue        == Op("continue", <<>>)
ReturnUnit      == Op("return", <<>>)
ReturnWith(e)   == Op("return", <<e>>)

FnDecl(f, params, ptys, ret, body) ==
    [name |-> Name(f), params |-> params, ptys |-> ptys, ret |-> ret, body |-> body]

(* The table of the nodes of a tree, operands before the node that has them, *)
(* with every operand replaced by its position; the root is last.            *)
RECURSIVE Table(_, _), Tables(_, _)
Table(t, base) ==
    LET ks == Tables(t.kids, base)
    IN  Append(ks.nodes, [t EXCEPT !.kids = ks.roots])
Tables(ts, base) ==
    IF ts = <<>> THEN [nodes |-> <<>>, roots |-> <<>>]
    ELSE LET h == Table(Head(ts), base)
             r == Tables(Tail(ts), base + Len(h))
         IN  [nodes |-> h \o r.nodes, roots |-> <<base + Len(h)>> \o r.roots]

Tabulated(fn) ==
    LET nodes == Table(fn.body, 0)
    IN  [name |-> fn.name, params |-> fn.params, ret |-> fn.ret,
         nodes |-> nodes, body |-> Len(nodes)]
=============================================================================
