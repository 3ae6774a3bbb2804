----------------------------- MODULE IRCheck -----------------------------
(***************************************************************************)
(* What the later phases rely on about one lowered function: the           *)
(* assumptions of src/compiler/src/optimizer/passes.cpp and codegen.cpp,   *)
(* stated over the control flow the instructions really have.  A record fn *)
(* has the fields name, params, blocks and temps of ir::Function.          *)
(***************************************************************************)
EXTENDS IR

Labels(fn) == DOMAIN fn.blocks
At(fn, p)  == fn.blocks[p[1]].instrs[p[2]]
Positions(fn) == UNION {{b} \X DOMAIN fn.blocks[b].instrs : b \in Labels(fn)}

(* Control leaves a block at its first terminator; what follows is dead. *)
Exits(fn, b)    == {k \in DOMAIN fn.blocks[b].instrs : fn.blocks[b].instrs[k].tag \in Terminators}
Live(fn, p)     == \A k \in Exits(fn, p[1]) : p[2] <= k
FlowTo(fn, b)   == UNION {Targets(At(fn, <<b, k>>)) : k \in {j \in Exits(fn, b) : Live(fn, <<b, j>>)}}

(* The blocks entered from the entry block along paths whose earlier blocks *)
(* all lie outside `avoid`: no such path need be longer than the function.  *)
EnteredAvoiding(fn, avoid) ==
    LET entered[n \in 0..Len(fn.blocks)] ==
            IF n = 0 THEN {1}
            ELSE LET before == entered[n - 1]
                 IN  before \cup UNION {FlowTo(fn, b) : b \in before \ avoid}
    IN  entered[Len(fn.blocks)]
Reachable(fn) == EnteredAvoiding(fn, {})

(* Every path from the entry to p passes one of the positions in `ps`. *)
PassedBefore(fn, p, ps) ==
    \/ \E q \in ps : q[1] = p[1] /\ q[2] < p[2]
    \/ p[1] \notin EnteredAvoiding(fn, {q[1] : q \in {r \in ps : Live(fn, r)}})

LiveUses(fn) == {p \in Positions(fn) : Live(fn, p) /\ p[1] \in Reachable(fn)}
DefsOf(fn, t) == {p \in Positions(fn) : At(fn, p).dst = t}
StoresTo(fn, x) == {p \in Positions(fn) : At(fn, p).tag = "store" /\ At(fn, p).sym = x}

(* Control cannot run off the end of a block. *)
AllTerminated(fn) == \A b \in Labels(fn) : IsTerminated(fn.blocks[b])

TargetsExist(fn) == \A p \in Positions(fn) : Targets(At(fn, p)) \subseteq Labels(fn)

WrittenOnce(fn) ==
    \A p, q \in Positions(fn) : At(fn, p).dst = At(fn, q).dst /\ At(fn, p).dst # NoTemp => p = q

(* The definition of a temporary comes before its uses in the order of the  *)
(* block list, which is the order constant folding sweeps the function in.  *)
DefinedInListOrder(fn) ==
    \A p \in Positions(fn) : \A t \in Uses(At(fn, p)) :
        \E q \in DefsOf(fn, t) : q[1] < p[1] \/ (q[1] = p[1] /\ q[2] < p[2])

(* ... and on every path that can be executed. *)
DefinedOnEveryPath(fn) ==
    \A p \in LiveUses(fn) : \A t \in Uses(At(fn, p)) : PassedBefore(fn, p, DefsOf(fn, t))

(* A local or result slot is stored to on every path to a load of it. *)
StoredOnEveryPath(fn) ==
    \A p \in LiveUses(fn) :
        LET x == At(fn, p).sym
        IN  At(fn, p).tag = "load" /\ (\A i \in DOMAIN fn.params : fn.params[i] # x)
              => PassedBefore(fn, p, StoresTo(fn, x))
=============================================================================
