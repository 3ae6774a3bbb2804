------------------------------- MODULE Frame -------------------------------
(***************************************************************************)
(* CodeGenerator::build_frame of src/compiler/src/codegen/codegen.cpp:     *)
(* where in the stack frame of a function its variables and temporaries    *)
(* live.  Slots are claimed in the order of first appearance, eight bytes  *)
(* each, downwards from rbp.                                               *)
(***************************************************************************)
EXTENDS IR, FiniteSets

(* Where a slot is claimed: <<0, j>> for the j-th local, <<b, k>> for the   *)
(* k-th instruction of block b, in this order.                              *)
Earlier(p, q) == p[1] < q[1] \/ (p[1] = q[1] /\ p[2] < q[2])
Places(fn)    == UNION {{b} \X DOMAIN fn.blocks[b].instrs : b \in DOMAIN fn.blocks}
InstrAt(fn, p) == fn.blocks[p[1]].instrs[p[2]]

(* Mutant: the names that only instructions know get no slot. *)
VarClaimsOfLocals(fn) == [p \in {0} \X DOMAIN fn.locals |-> fn.locals[p[2]]]

(* Locals first, in the order they were declared; the result slot of an     *)
(* `if` or a loop is no local and is found by the instructions that use it. *)
VarClaims(fn) ==
    [p \in ({0} \X DOMAIN fn.locals) \cup {q \in Places(fn) : InstrAt(fn, q).tag \in {"load", "store"}} |->
        IF p[1] = 0 THEN fn.locals[p[2]] ELSE InstrAt(fn, p).sym]

(* Every instruction with a dst writes a temporary. *)
TempClaims(fn) == [p \in {q \in Places(fn) : InstrAt(fn, q).dst # NoTemp} |-> InstrAt(fn, p).dst]

(* claim_var_slot and claim_temp_slot: only the first claim of a name       *)
(* counts, and it takes the next slot.                                      *)
FirstClaim(claims, x) ==
    CHOOSE p \in DOMAIN claims :
        claims[p] = x /\ \A q \in DOMAIN claims : claims[q] = x => ~Earlier(q, p)
SlotNumbers(claims) ==
    LET first == [x \in Range(claims) |-> FirstClaim(claims, x)]
    IN  [x \in Range(claims) |-> Cardinality({y \in Range(claims) : ~Earlier(first[x], first[y])})]

(* frame_size: a multiple of 16 is moved off it. *)
FrameSize(slots) == LET raw == 8 * slots IN IF raw % 16 = 0 THEN raw + 8 ELSE raw

(* Mutant: the temporaries start where the variables do. *)
LayoutOverlaid(fn) ==
    LET vars  == SlotNumbers(VarClaims(fn))
        temps == SlotNumbers(TempClaims(fn))
    IN  [vars  |-> [x \in DOMAIN vars |-> -8 * vars[x]],
         temps |-> [t \in DOMAIN temps |-> -8 * temps[t]],
         size  |-> FrameSize(Cardinality(DOMAIN vars) + Cardinality(DOMAIN temps))]

(* FrameLayout: offsets from rbp, and frame_size. *)
Layout(fn) ==
    LET vars  == SlotNumbers(VarClaims(fn))
        temps == SlotNumbers(TempClaims(fn))
        above == Cardinality(DOMAIN vars)
    IN  [vars  |-> [x \in DOMAIN vars |-> -8 * vars[x]],
         temps |-> [t \in DOMAIN temps |-> -8 * (above + temps[t])],
         size  |-> FrameSize(above + Cardinality(DOMAIN temps))]

(* FrameLayout::var_offset and temp_offset: 0 for what has no slot. *)
Offset(slots, x) == IF x \in DOMAIN slots THEN slots[x] ELSE 0
=============================================================================
