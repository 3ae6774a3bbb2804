----------------------------- MODULE Analysis -----------------------------
(***************************************************************************)
(* SemanticAnalyzer::analyze, one step per declaration: the signatures of  *)
(* all functions are collected, then the functions are checked one by one  *)
(* with the analyzer's state (env, see module Semantic) handed from one to *)
(* the next.                                                               *)
(***************************************************************************)
EXTENDS Semantic, SequencesExt

CONSTANT Sources    \* the programs that may be analyzed

VARIABLES program,
          collected,   \* the signatures declared so far
          checked,     \* the functions checked so far, annotated
          env,
          done
analysisVars == <<program, collected, checked, env, done>>

Fresh == [scopes |-> <<>>, brk |-> <<>>, ret |-> "unknown", errs |-> {}]

Init == /\ program \in Sources
        /\ collected = 0 /\ checked = <<>> /\ done = FALSE
        /\ env = PushScope(Fresh, FALSE, FALSE)

CollectSignature ==
    /\ collected < Len(program)
    /\ LET fn == program[collected + 1]
       IN  env' = Declare(env, fn.name, FnSym(fn.ptys, fn.ret), "E0200")
    /\ collected' = collected + 1
    /\ UNCHANGED <<program, checked, done>>

CheckFn ==
    /\ collected = Len(program) /\ Len(checked) < Len(program)
    /\ LET r == CheckFnDecl(program[Len(checked) + 1], env)
       IN  env' = r.env /\ checked' = Append(checked, r.fn)
    /\ UNCHANGED <<program, collected, done>>

Finish ==
    /\ Len(checked) = Len(program) /\ ~done
    /\ env' = PopScope(env)
    /\ done' = TRUE
    /\ UNCHANGED <<program, collected, checked>>

Next == CollectSignature \/ CheckFn \/ Finish
Spec == Init /\ [][Next]_analysisVars

-----------------------------------------------------------------------------
(* A declaration leaves the analyzer as it found it: the scopes it opened   *)
(* are closed, the types of its loops and of its return forgotten, and of   *)
(* the functions declared before, of the same name too, no more has changed *)
(* than that they are moved.                                                *)
Signature(s) == [s EXCEPT !.moved = FALSE]
LeavesNoTrace ==
    [][~done' =>
        /\ env'.brk = env.brk /\ env'.ret = env.ret /\ env.errs \subseteq env'.errs
        /\ Len(env'.scopes) = Len(env.scopes)
        /\ \A x \in DOMAIN env.scopes[1].vars :
              Signature(env'.scopes[1].vars[x]) = Signature(env.scopes[1].vars[x])]_analysisVars

(* No order of the functions makes an error of a program: the analysis of   *)
(* the functions in the opposite order accepts the same programs, also when *)
(* they call each other and take each other's names as values: the          *)
(* signatures are collected so that mutual recursion needs no forward       *)
(* declarations (src/docs/Architecture.md:83-85).                           *)
Accepts(prog) == Analyze(prog).errs = {}
OrderIgnored  == done => ((env.errs = {}) <=> Accepts(Reverse(program)))

(* src/tests/test_semantic.cpp:138-144, "mutual recursion fails if forward  *)
(* declaration missing": of two functions that call each other, the first   *)
(* calls the second before it is declared, which is an error.               *)
RECURSIVE Calls(_, _)
Calls(n, f) == \/ n.kind = "call" /\ n.sym = f
               \/ \E k \in DOMAIN n.kids : Calls(n.kids[k], f)
MutualRecursionFails ==
    \A k, l \in DOMAIN program :
        /\ done /\ k < l
        /\ Calls(program[k].body, program[l].name) /\ Calls(program[l].body, program[k].name)
        => env.errs # {}

-----------------------------------------------------------------------------
Ty == INSTANCE Typing

(* The name of a function, used otherwise than to call it. *)
RECURSIVE Takes(_, _)
Takes(n, names) == \/ n.kind = "ident" /\ n.sym \in names
                   \/ \E k \in DOMAIN n.kids : Takes(n.kids[k], names)
Functions == {program[k].name : k \in DOMAIN program}
FirstOrder == \A k \in DOMAIN program : ~Takes(program[k].body, Functions)

(* What is accepted is well typed, and every node has been given a type it  *)
(* has: the later phases are told what to reserve space for by these types. *)
AcceptedIsTyped == done /\ env.errs = {} /\ FirstOrder => Ty!WellTyped(checked)

(* What is well typed is accepted: no diagnostic is given without a cause.  *)
TypedIsAccepted == done /\ FirstOrder /\ Ty!WellTyped(program) => env.errs = {}
=============================================================================
