------------------------------- MODULE Typing -------------------------------
(***************************************************************************)
(* Which programs of the language are well typed, said without any state:  *)
(* Types(n, ..) is the set of types the expression n can have, empty when  *)
(* it has none.  What jumps away can have every type.  An annotated tree   *)
(* is held to the types it carries, except where it says "unknown".        *)
(*                                                                         *)
(* g maps the names in scope to variables and functions, own are the names *)
(* of the block at hand, brk is the type a break must have ("none" outside *)
(* of loops) and ret the one of a return.                                  *)
(***************************************************************************)
EXTENDS Ast, FiniteSets

AllTypes == {"i32", "i64", "bool", "char", "unit"}
Numbers  == {"i32", "i64"}

Var(ty, mut) == [fn |-> FALSE, ty |-> ty, mut |-> mut]
With(g, x, v) == [y \in DOMAIN g \cup {x} |-> IF y = x THEN v ELSE g[y]]
Only(t, cond) == IF cond THEN {t} ELSE {}
Any(cond)     == IF cond THEN AllTypes ELSE {}
Fits(n, tys)  == IF n.ty \in AllTypes THEN tys \cap {n.ty} ELSE tys

(* A break that leaves the loop whose body this is. *)
RECURSIVE Leaves(_)
Leaves(n) ==
    CASE n.kind = "break" -> TRUE
      [] n.kind = "loop"  -> FALSE
      [] n.kind = "while" -> Leaves(n.kids[1])
      [] OTHER -> \E k \in DOMAIN n.kids : Leaves(n.kids[k])

RECURSIVE Types(_, _, _, _), Sequence(_, _, _, _, _)

(* The statements of a block from the first of ns on: a let may give its    *)
(* name any type its initializer can have.                                  *)
Sequence(ns, g, own, brk, ret) ==
    LET n    == Head(ns)
        tys  == Types(n.kids[1], g, brk, ret)
        vars == IF n.ann = "none" THEN tys ELSE {n.ann} \cap tys
    IN  CASE ns = <<>> -> {"unit"}
          [] ns # <<>> /\ n.kind = "let" ->
               IF n.sym \in own THEN {}
               ELSE UNION {Sequence(Tail(ns), With(g, n.sym, Var(t, n.mut)), own \cup {n.sym}, brk, ret)
                             : t \in vars}
          [] ns # <<>> /\ n.kind = "exprstmt" ->
               IF tys = {} THEN {} ELSE Sequence(Tail(ns), g, own, brk, ret)
          [] OTHER -> Types(n, g, brk, ret)

OperatorTypes(op, l, r) ==
    CASE op \in {"+", "-", "*", "/", "%"} -> Numbers \cap l \cap r
      [] op \in {"&&", "||"} -> {"bool"} \cap l \cap r
      [] OTHER -> Only("bool", l \cap r # {})

Types(n, g, brk, ret) ==
    LET T(k)   == Types(n.kids[k], g, brk, ret)
        inLoop(t) == Types(n.kids[Len(n.kids)], g, t, ret)
        known  == n.sym \in DOMAIN g
    IN  Fits(n,
          CASE n.kind = "literal"  -> {IF n.val.k = "i64" THEN "i32" ELSE n.val.k}
            [] n.kind = "ident"    -> IF known THEN {g[n.sym].ty} \ {"fn"} ELSE {}
            [] n.kind = "unary"    -> T(1) \cap (IF n.sym.base = "-" THEN Numbers ELSE {"bool"})
            [] n.kind = "binary"   -> OperatorTypes(n.sym.base, T(1), T(2))
            [] n.kind = "assign"   -> IF known /\ g[n.sym].mut THEN {g[n.sym].ty} \cap T(1) ELSE {}
            [] n.kind = "block"    -> Sequence(n.kids, g, {}, brk, ret)
            [] n.kind = "call"     ->
                 IF ~known \/ ~g[n.sym].fn THEN {}
                 ELSE Only(g[n.sym].ret, /\ Len(g[n.sym].params) = Len(n.kids)
                                         /\ \A k \in DOMAIN n.kids : g[n.sym].params[k] \in T(k))
            [] n.kind = "if"       ->
                 IF "bool" \notin T(1) THEN {}
                 ELSE IF Len(n.kids) = 2 THEN Only("unit", T(2) # {}) ELSE T(2) \cap T(3)
            [] n.kind = "while"    -> Only("unit", "bool" \in T(1) /\ inLoop("unit") # {})
            [] n.kind = "loop"     ->
                 IF Leaves(n.kids[1]) THEN {t \in AllTypes : inLoop(t) # {}}
                 ELSE Only("unit", inLoop("unit") # {})
            [] n.kind = "break"    -> Any(brk # "none" /\ IF n.kids = <<>> THEN brk = "unit" ELSE brk \in T(1))
            [] n.kind = "continue" -> Any(brk # "none")
            [] n.kind = "return"   -> Any(IF n.kids = <<>> THEN ret = "unit" ELSE ret \in T(1)))

-----------------------------------------------------------------------------
NoRepeats(s) == Cardinality({s[k] : k \in DOMAIN s}) = Len(s)

Globals(prog) ==
    [x \in {prog[k].name : k \in DOMAIN prog} |->
        LET f == prog[CHOOSE k \in DOMAIN prog : prog[k].name = x]
        IN  [fn |-> TRUE, ty |-> "fn", mut |-> FALSE, params |-> f.ptys, ret |-> f.ret]]

Parameters(fn) ==
    [x \in {fn.params[k] : k \in DOMAIN fn.params} |->
        Var(fn.ptys[CHOOSE k \in DOMAIN fn.params : fn.params[k] = x], FALSE)]

FunctionTyped(fn, g) ==
    LET names == Parameters(fn)
        inner == [y \in DOMAIN g \cup DOMAIN names |-> IF y \in DOMAIN names THEN names[y] ELSE g[y]]
        tys   == Types(fn.body, inner, "none", fn.ret)
    IN  /\ NoRepeats(fn.params)
        /\ IF fn.ret = "unit" THEN tys # {} ELSE fn.ret \in tys

WellTyped(prog) ==
    /\ NoRepeats([k \in DOMAIN prog |-> prog[k].name])
    /\ \A k \in DOMAIN prog : FunctionTyped(prog[k], Globals(prog))
=============================================================================
