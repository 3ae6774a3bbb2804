----------------------------- MODULE Execution -----------------------------
(***************************************************************************)
(* The program that src/compiler/src/codegen/codegen.cpp writes, running:  *)
(* the instructions of emit_function and emit_instruction on a stack in    *)
(* memory, started by the entry point of driver.cpp:150-161.  A step is    *)
(* one IR instruction, or what is emitted at the entry of a function or    *)
(* behind a call.                                                          *)
(*                                                                         *)
(* Memory is a function of byte addresses; the stack grows down from 0, a  *)
(* multiple of 16.  What a frame held is still there when the next one     *)
(* takes its place.  `activations` is no part of the program: it records   *)
(* for every call what was stored under which name.                        *)
(***************************************************************************)
EXTENDS Frame, Processor, IRModule

CONSTANTS StartValues,      \* what the argument registers may hold at the start
          StackSize    \* bound: the bytes the stack may take

VARIABLES
    frames,       \* current_frame_ of each function
    pc,           \* [f, b, k, stage]: function, block, instruction
    rsp, rbp, rax,
    args,         \* the argument registers rdi, rsi, rdx, rcx, r8, r9
    mem,          \* the words of the stack that were written
    input,        \* what they held at the start
    end,          \* how the process ended: "no", "exited", "trap", "overflow"
    activations   \* ghost: [f, base, ret, rbp, vars, temps], innermost last

registers == <<pc, rsp, rbp, rax, args>>
runVars   == <<frames, registers, mem, input, end, activations>>

(* A place in the code: "enter" before the prologue, "at" an instruction,   *)
(* "back" behind its call.                                                  *)
Place(f, b, k, stage) == [f |-> f, b |-> b, k |-> k, stage |-> stage]
Start == Place(0, 0, 0, "start")          \* _start, after its call

Word(n)    == [n |-> n, to |-> Start]
Garbage    == Word(3)                     \* whatever an unwritten word holds
Read(a)    == IF a \in DOMAIN mem THEN mem[a] ELSE Garbage
Put(g, x, v)  == [y \in DOMAIN g \cup {x} |-> IF y = x THEN v ELSE g[y]]
Written(a, w) == Put(mem, a, w)

ThisFn == module[pc.f]
Instrs == ThisFn.blocks[pc.b].instrs
Instr0 == Instrs[pc.k]
Layout0 == frames[pc.f]
VarAddress(x)  == rbp + Offset(Layout0.vars, x)
TempAddress(t) == rbp + Offset(Layout0.temps, t)

(* emit_load *)
Loaded(v) == IF v.k = "temp" THEN Read(TempAddress(v.v)).n ELSE v.v

Running(stage) == end = "no" /\ pc.stage = stage
AtInstr(tags)  == Running("at") /\ pc.k <= Len(Instrs) /\ Instr0.tag \in tags

Callee(f) == CHOOSE g \in DOMAIN module : module[g].name = f
Current == activations[Len(activations)]

(* Ghost: the activation at hand stored n under its name for a variable or  *)
(* a temporary.                                                             *)
RememberVar(x, n) ==
    activations' = [activations EXCEPT ![Len(activations)].vars = Put(@, x, n)]
RememberTemp(t, n) ==
    activations' = [activations EXCEPT ![Len(activations)].temps = Put(@, t, n)]

Proceed == pc' = Place(pc.f, pc.b, pc.k + 1, "at")
Goto(l) == pc' = Place(pc.f, l, 1, "at")

-----------------------------------------------------------------------------
Idle ==
    /\ frames = <<>> /\ pc = Start /\ rsp = 0 /\ rbp = 0 /\ rax = 0
    /\ args = [r \in 1..MaxRegArgs |-> 0] /\ mem = [a \in {} |-> Garbage]
    /\ input = 0 /\ end = "no" /\ activations = <<>>

(* _start: rbp is cleared and main is called. *)
Launch ==
    /\ frames = <<>> /\ end = "no"
    /\ frames' = [f \in DOMAIN module |-> Layout(module[f])]
    /\ input' \in StartValues
    /\ args' = [r \in 1..MaxRegArgs |-> input']
    /\ rbp' = 0 /\ rsp' = -8
    /\ mem' = Written(-8, [n |-> 0, to |-> Start])
    /\ pc' = Place(Callee(Name("main")), 1, 1, "enter")
    /\ UNCHANGED <<rax, end, activations>>

(* Where the prologue stores the parameters that came in registers. *)
ParamSlots(fn, base) ==
    [p \in {q \in DOMAIN fn.params : q <= MaxRegArgs} |->
        base + Offset(Layout0.vars, fn.params[p])]

(* push rbp; mov rbp, rsp; sub rsp, frame_size; the parameters are stored. *)
Enter ==
    /\ Running("enter")
    /\ LET base  == rsp - 8
           slots == ParamSlots(ThisFn, base)
           names == {ThisFn.params[p] : p \in DOMAIN slots}
           saved == Written(base, Word(rbp))
       IN  /\ base - Layout0.size >= -StackSize
           /\ rbp' = base
           /\ rsp' = base - Layout0.size
           /\ mem' = [a \in DOMAIN saved \cup Range(slots) |->
                         IF a \in Range(slots)
                         THEN Word(args[CHOOSE p \in DOMAIN slots : slots[p] = a])
                         ELSE saved[a]]
           /\ activations' = Append(activations,
                [f |-> pc.f, base |-> base, ret |-> mem[rsp].to, rbp |-> rbp,
                 vars |-> [x \in names |-> args[CHOOSE p \in DOMAIN slots : ThisFn.params[p] = x]],
                 temps |-> [t \in {} |-> 0]])
    /\ pc' = [pc EXCEPT !.stage = "at"]
    /\ UNCHANGED <<frames, rax, args, input, end>>

(* The stack segment ends. *)
Overflow ==
    /\ Running("enter")
    /\ rsp - 8 - Layout0.size < -StackSize
    /\ end' = "overflow"
    /\ UNCHANGED <<frames, registers, mem, input, activations>>

(* A result goes through rax into the slot of the temporary. *)
StoreTemp(t, n) ==
    /\ rax' = n
    /\ mem' = Written(TempAddress(t), Word(n))
    /\ RememberTemp(t, n)
    /\ Proceed
    /\ UNCHANGED <<frames, rsp, rbp, args, input, end>>

Operand(k) == Loaded(Instr0.args[k])
Dividing   == Instr0.sym.base \in {"/", "%"}

Assigns  == AtInstr({"assign"}) /\ StoreTemp(Instr0.dst, Operand(1))
Loads    == AtInstr({"load"}) /\ StoreTemp(Instr0.dst, Read(VarAddress(Instr0.sym)).n)
Computes ==
    \/ AtInstr({"unop"})
       /\ StoreTemp(Instr0.dst, IF Instr0.sym.base = "-" THEN Bits(-Operand(1)) ELSE Flag(Operand(1) = 0))
    \/ AtInstr({"binop"}) /\ ~(Dividing /\ IDivFaults(Operand(1), Operand(2)))
       /\ StoreTemp(Instr0.dst, Alu(Instr0.sym.base, Operand(1), Operand(2)))

(* idiv raises a divide error; nothing handles the signal. *)
Trap ==
    /\ AtInstr({"binop"}) /\ Dividing /\ IDivFaults(Operand(1), Operand(2))
    /\ end' = "trap"
    /\ UNCHANGED <<frames, registers, mem, input, activations>>

(* Mutant: the operands of the mov are swapped. *)
StoresSwapped ==
    /\ AtInstr({"store"})
    /\ rax' = Read(VarAddress(Instr0.sym)).n
    /\ RememberVar(Instr0.sym, Operand(1))
    /\ Proceed
    /\ UNCHANGED <<frames, rsp, rbp, args, mem, input, end>>

Stores ==
    /\ AtInstr({"store"})
    /\ rax' = Operand(1)
    /\ mem' = Written(VarAddress(Instr0.sym), Word(Operand(1)))
    /\ RememberVar(Instr0.sym, Operand(1))
    /\ Proceed
    /\ UNCHANGED <<frames, rsp, rbp, args, input, end>>

(* The first six arguments go to registers; call pushes the return address. *)
Calls ==
    /\ AtInstr({"call"})
    /\ args' = [r \in 1..MaxRegArgs |-> IF r <= Len(Instr0.args) THEN Operand(r) ELSE args[r]]
    /\ rsp' = rsp - 8
    /\ mem' = Written(rsp - 8, [n |-> 0, to |-> [pc EXCEPT !.stage = "back"]])
    /\ pc' = Place(Callee(Instr0.sym), 1, 1, "enter")
    /\ UNCHANGED <<frames, rbp, rax, end, input, activations>>

Back ==
    /\ Running("back")
    /\ IF Instr0.dst # NoTemp THEN StoreTemp(Instr0.dst, rax)
       ELSE Proceed /\ UNCHANGED <<frames, rsp, rbp, rax, args, mem, end, input, activations>>

Branches ==
    /\ AtInstr({"branch"})
    /\ rax' = Operand(1)
    /\ Goto(Instr0.to[IF Operand(1) # 0 THEN 1 ELSE 2])
    /\ UNCHANGED <<frames, rsp, rbp, args, mem, end, input, activations>>

Jumps ==
    /\ AtInstr({"jump"})
    /\ Goto(Instr0.to[1])
    /\ UNCHANGED <<frames, rsp, rbp, rax, args, mem, end, input, activations>>

(* leave; ret *)
Returns ==
    /\ AtInstr({"return"})
    /\ rax' = IF Instr0.args = <<>> THEN 0 ELSE Operand(1)
    /\ rbp' = Read(rbp).n
    /\ rsp' = rbp + 16
    /\ pc' = Read(rbp + 8).to
    /\ activations' = SubSeq(activations, 1, Len(activations) - 1)
    /\ UNCHANGED <<frames, args, mem, input, end>>

(* _start: the result of main is the exit status. *)
Exit ==
    /\ frames # <<>> /\ Running("start")
    /\ end' = "exited"
    /\ UNCHANGED <<frames, registers, mem, input, activations>>

Run == \/ Launch \/ Enter \/ Overflow \/ Assigns \/ Loads \/ Computes \/ Trap \/ Stores
       \/ Calls \/ Back \/ Branches \/ Jumps \/ Returns \/ Exit

-----------------------------------------------------------------------------
(* What code the generator is given: functions whose control stays inside,  *)
(* whose parameters are among their locals, and whose calls have something  *)
(* to call; one of them is main (the start code calls it).                  *)
Executable ==
    /\ module \in Seq(Function)
    /\ \E f \in DOMAIN module : module[f].name = Name("main")
    /\ \A f \in DOMAIN module :
          /\ module[f].blocks # <<>> /\ Range(module[f].params) \subseteq Range(module[f].locals)
          /\ \A b \in DOMAIN module[f].blocks :
                /\ IsTerminated(module[f].blocks[b])
                /\ TargetsOf(module[f].blocks[b]) \subseteq DOMAIN module[f].blocks
                /\ \A i \in Range(module[f].blocks[b].instrs) :
                      i.tag = "call" => \E g \in DOMAIN module : module[g].name = i.sym

(* The process of such code, from before it is launched. *)
ExecSpec == Idle /\ Executable /\ [][Run /\ UNCHANGED module]_<<module, runVars>>

-----------------------------------------------------------------------------
(* What an activation stored under a name is what its slot holds, in the    *)
(* innermost frame and in those of all its callers: slots do not overlap,   *)
(* no frame reaches into another, and the saved rbp and return address of   *)
(* each are intact (codegen.cpp:119-169, 358-369).                          *)
FrameIntact(a) ==
    /\ \A x \in DOMAIN a.vars : Read(a.base + Offset(frames[a.f].vars, x)).n = a.vars[x]
    /\ \A t \in DOMAIN a.temps : Read(a.base + Offset(frames[a.f].temps, t)).n = a.temps[t]
    /\ Read(a.base).n = a.rbp /\ Read(a.base + 8).to = a.ret
FramesIntact == \A d \in DOMAIN activations : FrameIntact(activations[d])

(* `leave` and `ret` end an activation in the place its call came from, on  *)
(* the stack its caller had.                                                *)
ReturnsToCaller ==
    [][Len(activations') < Len(activations) =>
         /\ pc' = Current.ret /\ rbp' = Current.rbp
         /\ Len(activations) > 1 =>
              LET caller == activations[Len(activations) - 1]
              IN  rbp' = caller.base /\ rsp' = caller.base - frames[caller.f].size]_runVars

(* Control stays among the instructions of the block it is in, and none of  *)
(* them reads a name that was not stored in its own activation: no result   *)
(* hangs on what an earlier frame left behind.                              *)
ReadsOnlyItsOwn ==
    pc.stage = "at" =>
        /\ pc.k <= Len(Instrs)
        /\ \A t \in Uses(Instr0) : t \in DOMAIN Current.temps
        /\ Instr0.tag = "load" => Instr0.sym \in DOMAIN Current.vars
=============================================================================
