-------------------------- MODULE LoweringChecks --------------------------
(***************************************************************************)
(* Properties of the functions the builder hands over, stated over the     *)
(* control flow of their instructions (module IRCheck).                    *)
(***************************************************************************)
EXTENDS IRBuilder

Check == INSTANCE IRCheck

(* Whether a loop is at or below a node of fn. *)
HasLoop(fn) == Finds(fn, NodesOf(fn, {"while", "loop"}), OperandsOf(fn))

(* visit(BreakExpr) can count on the reference it holds into loop_stack_    *)
(* when no loop is inside the value of the break.                           *)
ReferenceHolds(fn) ==
    \A n \in DOMAIN fn.nodes :
        fn.nodes[n].kind = "break" => \A k \in DOMAIN fn.nodes[n].kids : ~HasLoop(fn)[fn.nodes[n].kids[k]]

(* A name is bound when every use of it is below a parameter list or behind *)
(* a `let` of an enclosing block that declares it.  The analysis accepts one *)
(* more: a function named as a value, which the builder would load as if it  *)
(* were a local.                                                             *)
LetsBefore(fn, n, k) ==
    LET node == fn.nodes[n]
    IN  IF node.kind # "block" THEN {}
        ELSE {fn.nodes[node.kids[j]].sym : j \in {i \in 1..(k - 1) : fn.nodes[node.kids[i]].kind = "let"}}
Reads(fn, x) ==
    Finds(fn, {n \in NodesOf(fn, {"ident"}) : fn.nodes[n].sym = x},
              {e \in OperandsOf(fn) : x \notin LetsBefore(fn, e[1], e[2])})
NamesBound(fn) ==
    \A n \in NodesOf(fn, {"ident"}) :
        LET x == fn.nodes[n].sym
        IN  Reads(fn, x)[fn.body] => x \in Range(fn.params)

Finished(P(_)) == \A f \in DOMAIN module : ReferenceHolds(program[f]) => P(module[f])

(* IRDesign.md:55-56: temporaries are write-once, each TempId is the dst of *)
(* one instruction.                                                         *)
TempsWrittenOnce == Finished(Check!WrittenOnce)

(* Constant folding (passes.cpp:60-123) sweeps the block list once with one *)
(* map for the whole function: a temporary must be defined in the list      *)
(* before it is used, although merge blocks precede else blocks there.      *)
DefsPrecedeUses == Finished(Check!DefinedInListOrder)

(* Code generation reads a temporary from its stack slot (codegen.cpp): on  *)
(* every path that can be executed the slot was written before.             *)
TempsDefinedOnEveryPath == Finished(Check!DefinedOnEveryPath)

(* The same for variables and for the __if_result_N and __loop_result_N     *)
(* slots through which branches and breaks pass their values.               *)
SlotsStoredOnEveryPath ==
    \A f \in DOMAIN module :
        ReferenceHolds(program[f]) /\ NamesBound(program[f]) => Check!StoredOnEveryPath(module[f])

(* Every accepted program is lowered to the end, without an exception, as   *)
(* long as no break reads a reference that no longer holds.                 *)
LoweringEnds == (\A f \in DOMAIN program : ReferenceHolds(program[f])) => EventuallyDone
=============================================================================
