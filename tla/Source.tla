------------------------------- MODULE Source -------------------------------
(***************************************************************************)
(* What a program of the language means, as a reader of its source takes   *)
(* it: an evaluator over the syntax tree the analysis accepted.  A name    *)
(* belongs to the innermost block that declares it (the scopes of          *)
(* src/compiler/src/semantic/semantic_analyzer.cpp), operands are          *)
(* evaluated from left to right, both sides of `&&` and `||` too, numbers  *)
(* have the width of the processor's, division is Euclidean.               *)
(*                                                                         *)
(* A state carries the scopes of the function at hand (the innermost       *)
(* last), the value of the expression evaluated last, what is under way    *)
(* (`sig`: "go", "break", "continue", "return", "trap" or "tired") and the *)
(* fuel left.                                                              *)
(***************************************************************************)
EXTENDS IR, Processor, TLC

CONSTANT Fuel    \* bound: the expressions evaluated before giving up

Unit == 0
Going(st)    == st.sig = "go"
Give(st, n)  == [st EXCEPT !.val = n]
Signal(st, s) == [st EXCEPT !.sig = s]
Empty == [x \in {} |-> Unit]

Open(st)  == [st EXCEPT !.scopes = Append(@, Empty)]
Close(st, outer) == [st EXCEPT !.scopes = SubSeq(@, 1, outer)]
Declare(st, x, n) == [st EXCEPT !.scopes[Len(st.scopes)] = (x :> n) @@ @]

(* The innermost scope that has x. *)
Home(st, x) ==
    LET have == {d \in DOMAIN st.scopes : x \in DOMAIN st.scopes[d]}
    IN  CHOOSE d \in have : \A e \in have : e <= d
ValueOf(st, x) == st.scopes[Home(st, x)][x]
Update(st, x, n) == [st EXCEPT !.scopes[Home(st, x)][x] = n]

(* Division as the documentation has it (src/docs/Architecture.md:201-203): *)
(* Euclidean, the remainder is not negative.                                *)
Abs(n)          == IF n < 0 THEN -n ELSE n
Remainder(a, c) == a % Abs(c)
Share(a, c)     == LET q == (a - Remainder(a, c)) \div Abs(c) IN IF c < 0 THEN -q ELSE q

Result(op, a, c) ==
    CASE op = "/" -> Share(a, c) [] op = "%" -> Remainder(a, c) [] OTHER -> Alu(op, a, c)

(* What cannot be divided ends the program. *)
Operate(st, op, a, c) ==
    IF op \in {"/", "%"} /\ IDivFaults(a, c) THEN Signal(st, "trap") ELSE Give(st, Result(op, a, c))
Negate(st, op, a) == Give(st, IF op = "-" THEN Bits(-a) ELSE Flag(a = 0))

RECURSIVE Eval(_, _, _, _), EvalAll(_, _, _, _), Repeat(_, _, _, _)

(* The operands of a node in turn, as long as control goes on: their values *)
(* in `vals`.                                                               *)
EvalAll(prog, fn, kids, st) ==
    IF kids = <<>> THEN [vals |-> <<>>, st |-> st]
    ELSE LET h == Eval(prog, fn, Head(kids), st)
         IN  IF ~Going(h) THEN [vals |-> <<>>, st |-> h]
             ELSE LET t == EvalAll(prog, fn, Tail(kids), h)
                  IN  [vals |-> <<h.val>> \o t.vals, st |-> t.st]

(* A loop: `cond` is 0 for a loop without condition. *)
Repeat(prog, fn, loop, st) ==
    LET kids == fn.nodes[loop].kids
        c    == IF Len(kids) = 1 THEN Give(st, 1) ELSE Eval(prog, fn, kids[1], st)
    IN  IF ~Going(c) THEN c
        ELSE IF c.val = 0 THEN Give(c, Unit)
        ELSE LET b == Eval(prog, fn, kids[Len(kids)], c)
             IN  CASE b.sig = "break" -> Signal(b, "go")
                   [] b.sig \in {"go", "continue"} -> Repeat(prog, fn, loop, Signal(b, "go"))
                   [] OTHER -> b

(* A call runs in scopes of its own; a return ends it. *)
Invoke(prog, f, vals, st) ==
    LET callee == CHOOSE g \in {prog[k] : k \in DOMAIN prog} : g.name = f
        names  == {callee.params[p] : p \in DOMAIN callee.params}
        args   == [x \in names |-> vals[CHOOSE p \in DOMAIN callee.params : callee.params[p] = x]]
        r      == Eval(prog, callee, callee.body, [st EXCEPT !.scopes = <<args>>])
    IN  [r EXCEPT !.scopes = st.scopes, !.sig = IF @ = "return" THEN "go" ELSE @]

Eval(prog, fn, n, st0) ==
    LET node == fn.nodes[n]
        st   == [st0 EXCEPT !.fuel = @ - 1]
        all  == EvalAll(prog, fn, node.kids, st)
        last == IF all.vals = <<>> THEN Unit ELSE all.vals[Len(all.vals)]
        After(next) == IF Going(all.st) THEN next ELSE all.st
    IN  IF st.fuel = 0 THEN Signal(st, "tired")
        ELSE CASE node.kind = "literal"  -> Give(st, node.val.v)
               [] node.kind = "ident"    -> Give(st, ValueOf(st, node.sym))
               [] node.kind = "unary"    -> After(Negate(all.st, node.sym.base, last))
               [] node.kind = "binary"   -> After(Operate(all.st, node.sym.base, all.vals[1], last))
               [] node.kind = "call"     -> After(Invoke(prog, node.sym, all.vals, all.st))
               [] node.kind = "assign"   -> After(Give(Update(all.st, node.sym, last), last))
               [] node.kind = "let"      -> After(Declare(all.st, node.sym, last))
               [] node.kind = "exprstmt" -> all.st
               [] node.kind = "block"    ->
                    LET in == EvalAll(prog, fn, node.kids, Open(st)).st
                    IN  Close(IF Going(in) /\ ~node.tail THEN Give(in, Unit) ELSE in, Len(st.scopes))
               [] node.kind = "if"       ->
                    LET c == Eval(prog, fn, node.kids[1], st)
                    IN  IF ~Going(c) THEN c
                        ELSE IF c.val # 0
                        THEN LET t == Eval(prog, fn, node.kids[2], c)
                             IN  IF Going(t) /\ Len(node.kids) = 2 THEN Give(t, Unit) ELSE t
                        ELSE IF Len(node.kids) = 3 THEN Eval(prog, fn, node.kids[3], c)
                        ELSE Give(c, Unit)
               [] node.kind \in {"while", "loop"} -> Repeat(prog, fn, n, st)
               [] node.kind \in {"break", "return"} -> After(Signal(Give(all.st, last), node.kind))
               [] node.kind = "continue" -> Signal(st, "continue")

(* main called with `input` for its parameter: how it ends and with what.   *)
Meaning(prog, input) ==
    LET main == CHOOSE g \in {prog[k] : k \in DOMAIN prog} : g.name = Name("main")
        r    == Invoke(prog, main.name, [p \in DOMAIN main.params |-> input],
                       [scopes |-> <<>>, val |-> Unit, sig |-> "go", fuel |-> Fuel])
    IN  [sig |-> r.sig, val |-> IF main.ret = "unit" THEN Unit ELSE r.val]
=============================================================================
