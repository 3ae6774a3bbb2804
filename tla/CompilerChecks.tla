-------------------------- MODULE CompilerChecks --------------------------
(***************************************************************************)
(* Properties of optimized modules: what the generated code does           *)
(* (module Machine), and that the pass manager ends.                       *)
(***************************************************************************)
EXTENDS Compiler, Programs

CONSTANTS
    Arguments,   \* what a function may be called with
    Fuel         \* the steps a call is followed for

Mach  == INSTANCE Machine WITH Garbage <- 3

(* The same result, the same calls with the same arguments, the same trap.  *)
(* A call that did not end within Fuel steps is not compared.               *)
SameOutcome(old, new) == old.end = "out of fuel" \/ new = old
(* ... where a trap may be lost, but nothing else.                          *)
NoWorseOutcome(old, new) == old.end = "trap" \/ SameOutcome(old, new)

Keeps(Same(_, _), old, new) ==
    \A f \in DOMAIN old : \A n \in Arguments :
        Same(Mach!Outcome(old[f], n, Fuel), Mach!Outcome(new[f], n, Fuel))

Applying(passes) == Done /\ Opt!Running /\ Opt!Pipeline[next] \in passes

(* Folding with one constant map for the whole function, the identities and *)
(* the bypassing of jumps change nothing a caller can observe, traps of     *)
(* divisions included (passes.cpp:56-196, 295-326).  Nothing of the kind    *)
(* holds of strength reduction, which makes `x + k` of `x * 2^k`            *)
(* (passes.cpp:212).                                                        *)
RewritesKeepMeaning ==
    [][Applying({"constant-folding", "algebraic-simplification", "cf-simplification"})
         => Keeps(SameOutcome, module, module')]_module

(* Dead code elimination (passes.cpp:228-286) computes its set of used      *)
(* temporaries once and before it removes anything; all it may change is    *)
(* that an unused division no longer traps.                                 *)
DeadCodeKeepsMeaning ==
    [][Applying({"dead-code-elimination"}) => Keeps(NoWorseOutcome, module, module')]_module

(* The pass manager ends, by itself or with the divide error that folding   *)
(* runs into (Architecture.md:164-165: it "iterates until all passes return *)
(* `false`").                                                               *)
OptimizerEnds == <>(stopped # "no")
=============================================================================
