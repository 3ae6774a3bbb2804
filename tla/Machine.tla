----------------------------- MODULE Machine -----------------------------
(***************************************************************************)
(* What the assembly that src/compiler/src/codegen/codegen.cpp emits for a *)
(* function does when it is called.  Every temporary and every variable    *)
(* has its own slot in the frame, so memory is a function of their names;  *)
(* a slot that was never written holds `Garbage`.  Blocks are laid out one *)
(* after the other: code that runs off the end of a block goes on in the   *)
(* next one.  A callee is known by the calls it received; what it returns  *)
(* depends on its first argument.                                          *)
(***************************************************************************)
EXTENDS IR, Processor, TLC

CONSTANT Garbage

Stored(slots, x) == IF x \in DOMAIN slots THEN slots[x] ELSE Garbage
Load(st, v)      == IF v.k = "temp" THEN Stored(st.temps, v.v) ELSE v.v     \* emit_load

Callee(args) == IF args = <<>> THEN 1 ELSE Bits(args[1] + 1)

-----------------------------------------------------------------------------
Put(st, t, n)  == [st EXCEPT !.temps = (t :> n) @@ @, !.at.k = @ + 1]
Goto(st, l)    == [st EXCEPT !.at = [b |-> l, k |-> 1]]
Stop(st, how, n) == [st EXCEPT !.end = how, !.result = n]

(* emit_instruction. *)
Execute(i, st) ==
    LET A == Load(st, i.args[1])
        C == Load(st, i.args[2])
    IN  CASE i.tag = "assign" -> Put(st, i.dst, A)
          [] i.tag = "binop"  -> IF i.sym.base \in {"/", "%"} /\ IDivFaults(A, C)
                                 THEN Stop(st, "trap", 0) ELSE Put(st, i.dst, Alu(i.sym.base, A, C))
          [] i.tag = "unop"   -> Put(st, i.dst, IF i.sym.base = "-" THEN Bits(-A) ELSE Flag(A = 0))
          [] i.tag = "load"   -> Put(st, i.dst, Stored(st.vars, i.sym))
          [] i.tag = "store"  -> [st EXCEPT !.vars = (i.sym :> A) @@ @, !.at.k = @ + 1]
          [] i.tag = "call"   ->
               LET passed == [a \in 1..(IF Len(i.args) < MaxRegArgs THEN Len(i.args) ELSE MaxRegArgs)
                                |-> Load(st, i.args[a])]
                   called == [st EXCEPT !.calls = Append(@, <<i.sym, passed>>)]
               IN  IF i.dst = NoTemp THEN [called EXCEPT !.at.k = @ + 1]
                   ELSE Put(called, i.dst, Callee(passed))
          [] i.tag = "branch" -> Goto(st, i.to[IF A # 0 THEN 1 ELSE 2])
          [] i.tag = "jump"   -> Goto(st, i.to[1])
          [] i.tag = "return" -> Stop(st, "returned", IF i.args = <<>> THEN 0 ELSE A)

Step(fn, st) ==
    LET instrs == fn.blocks[st.at.b].instrs
    IN  IF st.at.k <= Len(instrs) THEN Execute(instrs[st.at.k], st)
        ELSE IF st.at.b < Len(fn.blocks) THEN Goto(st, st.at.b + 1)
        ELSE Stop(st, "ran off the code", 0)

RECURSIVE Run(_, _, _)
Run(fn, st, fuel) ==
    IF st.end # "running" THEN [end |-> st.end, result |-> st.result, calls |-> st.calls]
    ELSE IF fuel = 0 THEN [end |-> "out of fuel", result |-> 0, calls |-> <<>>]
    ELSE Run(fn, Step(fn, st), fuel - 1)

(* emit_function: the parameters that came in registers are stored. *)
Call0(fn, input) ==
    [at |-> [b |-> 1, k |-> 1], temps |-> [t \in {} |-> 0], calls |-> <<>>,
     vars |-> [x \in {fn.params[p] : p \in {q \in DOMAIN fn.params : q <= MaxRegArgs}} |-> input],
     end |-> "running", result |-> 0]

(* What a call of fn with `input` for every parameter does in `fuel` steps. *)
Outcome(fn, input, fuel) == Run(fn, Call0(fn, input), fuel)
=============================================================================
