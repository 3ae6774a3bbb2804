------------------------------ MODULE EndToEnd ------------------------------
(***************************************************************************)
(* From the accepted source to the running program, as the driver          *)
(* (src/compiler/src/driver/driver.cpp:90-136) puts the phases together:   *)
(* the lowering, at -O1 the pass manager, the generated code, and the      *)
(* process it runs as; against what the source means (module Source).      *)
(***************************************************************************)
EXTENDS Compiler, Execution, Programs

CONSTANTS Fuel,
          MaxCode,       \* bound: blocks of a function, instructions of a block
          OptLevels      \* the values of CompilerOptions::opt_level

VARIABLE optLevel

Src == INSTANCE Source

allVars == <<compVars, optLevel, runVars>>

E2EInit == CompInit /\ Idle /\ optLevel \in OptLevels

(* The module is final once the pass manager, if it runs at all, is done. *)
Generated == Done /\ (optLevel = 0 \/ stopped = "fixed_point")

Compiling == /\ Lower \/ (optLevel > 0 /\ (RunPass \/ Crash \/ Sweep \/ Stop))
             /\ UNCHANGED <<optLevel, runVars>>
Executing == Generated /\ Run /\ UNCHANGED <<compVars, optLevel>>

E2ENext == Compiling \/ Executing

E2ESpec == E2EInit /\ [][E2ENext]_allVars

(* A started process runs on: control moves until it ends, unless it is at  *)
(* a jump to itself.  As for the pass manager, only the position is named.  *)
Circling == /\ pc.stage = "at" /\ Instr0.tag = "jump"
            /\ pc.k = 1 /\ Instr0.to[1] = pc.b
Positions == [f : 0..MaxCode, b : 0..MaxCode, k : 0..MaxCode, stage : {"start", "enter", "at", "back"}]
Moving == /\ Generated /\ end = "no" /\ ~Circling
          /\ pc' \in Positions /\ end' \in {"no", "exited", "trap", "overflow"}

FairE2ESpec == E2ESpec /\ WF_<<pc, end>>(Moving)

-----------------------------------------------------------------------------
Ended == end \in {"exited", "trap"}

(* A process that ends has computed what the source means, also where the   *)
(* same name, slot or register is used by several activations.  The         *)
(* optimizer may remove a division nobody reads together with its trap, and *)
(* nothing else.                                                            *)
ComputesItsMeaning ==
    Ended =>
        LET meant == Src!Meaning(program, input)
        IN  \/ end = "trap" /\ meant.sig = "trap"
            \/ end = "exited" /\ meant.sig = "go" /\ rax = meant.val
            \/ end = "exited" /\ meant.sig = "trap" /\ optLevel > 0

(* The process of a program that comes to an end comes to an end, or runs   *)
(* out of stack: no loop or recursion is entered that the source leaves.    *)
Launched == frames # <<>> /\ activations = <<>> /\ pc.stage = "enter"
EndsLikeItsSource ==
    [](Launched /\ Src!Meaning(program, input).sig # "tired" => <>(end # "no"))
=============================================================================
