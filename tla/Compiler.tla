----------------------------- MODULE Compiler -----------------------------
(***************************************************************************)
(* The middle of the compiler as the driver runs it                        *)
(* (src/compiler/src/driver/driver.cpp): the module IRBuilder::lower       *)
(* returns is handed to the pass manager, which rewrites it in place.      *)
(***************************************************************************)
EXTENDS LoweringChecks, Processor

VARIABLES next, anyChanged, stopped

optVars == <<next, anyChanged, stopped>>
compVars == <<vars, optVars>>

Opt == INSTANCE PassManager WITH code <- module

ASSUME WidthAssumption == Width \in Nat \ {0}

CompInit == Init /\ Opt!Start

Lower == Next /\ UNCHANGED optVars

UnchangedBuilder == UNCHANGED <<program, status, fnVars, stack, lastValue, loopVars>>

RunPass == Done /\ Opt!RunPass /\ UnchangedBuilder
Crash   == Done /\ Opt!Crash /\ UnchangedBuilder
Sweep   == Done /\ Opt!Sweep /\ UnchangedBuilder
Stop    == Done /\ Opt!Stop /\ UnchangedBuilder

CompNext == Lower \/ RunPass \/ Crash \/ Sweep \/ Stop

CompSpec == CompInit /\ [][CompNext]_compVars

(* The program keeps running: lowering goes on, and the pass manager moves  *)
(* to its next pass, to its next sweep or out of its loop.  Of a step of    *)
(* the manager this names the position only; what it does to the module is  *)
(* CompNext's to say.                                                       *)
Advance == /\ Done /\ stopped = "no"
           /\ next' \in 1..(Len(Opt!Pipeline) + 1)
           /\ stopped' \in {"no", "crashed", "fixed_point"}

FairCompSpec == CompSpec /\ WF_compVars(Lower) /\ WF_<<next, stopped>>(Advance)

-----------------------------------------------------------------------------
(* Whatever the passes remove or rewrite between them, a value that is      *)
(* still read is still computed before, on every path that can be executed, *)
(* and control never runs off a block or to a label that does not exist.    *)
(* (Where a break reads a freed buffer, ReferenceHolds, only the latter.)   *)
OptimizedCodeIsWellFormed ==
    Done => \A f \in DOMAIN module :
               /\ ReferenceHolds(program[f]) => Check!DefinedOnEveryPath(module[f])
               /\ \A b \in DOMAIN module[f].blocks :
                     /\ IsTerminated(module[f].blocks[b])
                     /\ TargetsOf(module[f].blocks[b]) \subseteq DOMAIN module[f].blocks

(* Constant folding rewrites operands without reporting a change.  Still,   *)
(* when the manager stops after a quiet sweep no pass would change anything *)
(* (Architecture.md:153-154, "until no pass makes progress").               *)
FixedPointReached ==
    stopped = "fixed_point" =>
        \A p \in DOMAIN Opt!Pipeline : Opt!Apply(Opt!Pipeline[p], module).module = module
=============================================================================
