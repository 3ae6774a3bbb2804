--------------------------- MODULE PassManager ---------------------------
(***************************************************************************)
(* PassManager::run of src/compiler/src/optimizer/passes.cpp: the passes   *)
(* in their fixed order, again and again until a whole sweep reports no    *)
(* change.  The count of changing passes it returns only decides whether a *)
(* line is logged and is left out.                                         *)
(***************************************************************************)
EXTENDS Optimizer

VARIABLES
    code,        \* the ir::Module, its functions
    next,        \* the next pass of this sweep
    anyChanged,  \* any_changed
    stopped      \* "no", "fixed_point" or "crashed"

(* passes_, as default_pipeline() fills it. *)
Pipeline == <<"constant-folding", "algebraic-simplification", "strength-reduction",
              "dead-code-elimination", "cf-simplification">>

Start == next = 1 /\ anyChanged = FALSE /\ stopped = "no"

Running == stopped = "no" /\ next \in DOMAIN Pipeline

(* Mutant: only the last pass of a sweep decides whether there is another.  *)
RunPassForgets ==
    /\ Running /\ ~Crashes(Pipeline[next], code)
    /\ LET result == Apply(Pipeline[next], code)
       IN  code' = result.module /\ anyChanged' = result.changed
    /\ next' = next + 1
    /\ UNCHANGED stopped

RunPass ==
    /\ Running /\ ~Crashes(Pipeline[next], code)
    /\ LET result == Apply(Pipeline[next], code)
       IN  code' = result.module /\ anyChanged' = (anyChanged \/ result.changed)
    /\ next' = next + 1
    /\ UNCHANGED stopped

Crash ==
    /\ Running /\ Crashes(Pipeline[next], code)
    /\ stopped' = "crashed"
    /\ UNCHANGED <<code, next, anyChanged>>

Sweep ==
    /\ stopped = "no" /\ next = Len(Pipeline) + 1 /\ anyChanged
    /\ next' = 1 /\ anyChanged' = FALSE
    /\ UNCHANGED <<code, stopped>>

Stop ==
    /\ stopped = "no" /\ next = Len(Pipeline) + 1 /\ ~anyChanged
    /\ stopped' = "fixed_point"
    /\ UNCHANGED <<code, next, anyChanged>>

Next == RunPass \/ Crash \/ Sweep \/ Stop
=============================================================================
