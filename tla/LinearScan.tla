----------------------------- MODULE LinearScan -----------------------------
(***************************************************************************)
(* LinearScanAllocator of src/compiler/src/codegen/codegen.cpp: allocate() *)
(* as a state machine, one step per turn of its two loops, over any number *)
(* of calls on one allocator.  free_regs_, active_ and next_spill_offset_  *)
(* are members and survive a call; the result map and the sorted copy do   *)
(* not.                                                                    *)
(***************************************************************************)
EXTENDS Integers, Sequences, FiniteSets

CONSTANTS Registers,   \* k_allocatable_regs, in order: a sequence
          Requests,    \* the sets of intervals allocate() is called with
          MaxCalls     \* bound: calls on one allocator

(* One interval per temporary, and it does not end before it starts. *)
Interval == [id : Nat, start : Nat, end : Nat]
ASSUME RegistersDistinct ==
    /\ Registers \in Seq(STRING)
    /\ \A a, b \in DOMAIN Registers : Registers[a] = Registers[b] => a = b
ASSUME RequestsWellFormed ==
    \A r \in Requests : /\ r \subseteq Interval /\ IsFiniteSet(r)
                        /\ \A i, j \in r : i.id = j.id => i = j
                        /\ \A i \in r : i.start <= i.end
ASSUME MaxCallsAssumption == MaxCalls \in Nat

VARIABLES
    freeRegs,    \* free_regs_, taken from and given back to its end
    active,      \* active_: pairs of an interval's id and its register; while
                 \* the inner loop runs, those it has not come to
    newActive,   \* new_active, empty outside of the inner loop
    spillOffset, \* next_spill_offset_
    request,     \* the intervals of the call at hand
    todo,        \* ... those without a location
    now,         \* ... and the one the outer loop is at, if it is at one
    result,      \* the map that is returned, by interval
    calls        \* the calls made so far

call == <<request, result, calls>>
vars == <<freeRegs, active, newActive, spillOffset, todo, now, call>>

RegisterNames == {Registers[r] : r \in DOMAIN Registers}
Entry    == [id : Nat, reg : RegisterNames]
Reg(r)   == [kind |-> "register", reg |-> r, offset |-> 0]
Slot(n)  == [kind |-> "spill", reg |-> "", offset |-> n]
IsLocation(p) == \/ p = Reg(p.reg) /\ p.reg \in RegisterNames
                 \/ p = Slot(p.offset) /\ p.offset \in Int /\ p.offset < 0

Init == /\ freeRegs = Registers
        /\ active = <<>> /\ newActive = <<>>
        /\ spillOffset = -8
        /\ request = {} /\ todo = {} /\ now = {}
        /\ result = [i \in {} |-> 0]
        /\ calls = 0

(* A call of allocate(). *)
Begin(intervals) ==
    /\ todo = {} /\ calls < MaxCalls
    /\ request' = intervals
    /\ todo' = intervals
    /\ result' = [i \in {} |-> 0]
    /\ calls' = calls + 1
    /\ UNCHANGED <<freeRegs, active, newActive, spillOffset, now>>

(* std::sort by start leaves the order of equal starts open. *)
TakeUp(i) ==
    /\ now = {} /\ i \in todo
    /\ \A j \in todo : i.start <= j.start
    /\ now' = {i}
    /\ UNCHANGED <<freeRegs, active, newActive, spillOffset, todo, call>>

(* Mutant: an interval that ends where another starts is given up. *)
KeptStrictly(e, i) == \E j \in request : j.id = e.id /\ j.end > i.start

(* Mutant: nothing expires, which is what expire_old() would do. *)
KeptForGood(e, i) == TRUE

(* An entry of active_ stays when the interval with its id, looked up among *)
(* those of the present call, is still live where i starts.                 *)
Kept(e, i) == \E j \in request : j.id = e.id /\ j.end >= i.start

(* Mutant: the register of an expired entry is forgotten. *)
Forgotten(e) == freeRegs

GivenBack(e) == Append(freeRegs, e.reg)

(* One turn of the inner loop: an entry is kept, or expires.                *)
Keep(i) ==
    /\ now = {i} /\ active # <<>> /\ Kept(Head(active), i)
    /\ newActive' = Append(newActive, Head(active))
    /\ active' = Tail(active)
    /\ UNCHANGED <<freeRegs, spillOffset, todo, now, call>>

Expire(i) ==
    /\ now = {i} /\ active # <<>> /\ ~Kept(Head(active), i)
    /\ freeRegs' = GivenBack(Head(active))
    /\ active' = Tail(active)
    /\ UNCHANGED <<newActive, spillOffset, todo, now, call>>

Assign(i, place) ==
    /\ now = {i} /\ active = <<>>
    /\ result' = [j \in DOMAIN result \cup {i} |-> IF j = i THEN place ELSE result[j]]
    /\ todo' = todo \ {i} /\ now' = {}
    /\ newActive' = <<>>
    /\ UNCHANGED <<request, calls>>

(* The register given back last is the first to be taken. *)
TakeRegister(i) ==
    LET last == Len(freeRegs)
    IN  /\ freeRegs # <<>>
        /\ freeRegs' = SubSeq(freeRegs, 1, last - 1)
        /\ active' = Append(newActive, [id |-> i.id, reg |-> freeRegs[last]])
        /\ Assign(i, Reg(freeRegs[last]))
        /\ UNCHANGED spillOffset

(* Mutant: slots grow towards the return address. *)
NextSpillUpwards == spillOffset + 8

(* next_spill() *)
NextSpill == spillOffset - 8

(* spill_at_interval: with or without active intervals it is the new one    *)
(* that goes to the stack.                                                  *)
Spill(i) ==
    /\ freeRegs = <<>>
    /\ active' = newActive
    /\ spillOffset' = NextSpill
    /\ Assign(i, Slot(spillOffset))
    /\ UNCHANGED freeRegs

Next == \/ \E r \in Requests : Begin(r)
        \/ \E i \in todo : TakeUp(i) \/ Keep(i) \/ Expire(i) \/ TakeRegister(i) \/ Spill(i)

Spec == Init /\ [][Next]_vars

-----------------------------------------------------------------------------
IntervalsAsked == UNION Requests
Promise == INSTANCE RegisterAssignment
               WITH Intervals <- IntervalsAsked, assigned <- result

TypeOK ==
    /\ freeRegs \in Seq(RegisterNames)
    /\ active \in Seq(Entry) /\ newActive \in Seq(Entry)
    /\ spillOffset \in Int
    /\ request \in Requests \cup {{}}
    /\ todo \in SUBSET request
    /\ now \in SUBSET todo
    /\ DOMAIN result = request \ todo
    /\ \A i \in DOMAIN result : IsLocation(result[i])
    /\ calls \in 0..MaxCalls

(* Architecture.md:193-194 calls the class the full linear scan algorithm,  *)
(* a drop-in replacement for slots: intervals that overlap get different    *)
(* registers or slots, in every call on one allocator and in whatever order *)
(* equal starts are sorted (codegen.cpp:67-106).                            *)
NoSharedLocation == Promise!Spec

(* The registers are neither lost nor doubled by expiry, assignment and     *)
(* what is left over of earlier calls: each is either free or held by one   *)
(* entry, at every turn of the inner loop (codegen.cpp:80-101).             *)
Places(r) == {<<"free", k>> : k \in {n \in DOMAIN freeRegs : freeRegs[n] = r}}
             \cup {<<"active", k>> : k \in {n \in DOMAIN active : active[n].reg = r}}
             \cup {<<"kept", k>> : k \in {n \in DOMAIN newActive : newActive[n].reg = r}}
RegistersConserved == \A r \in RegisterNames : Cardinality(Places(r)) = 1

(* An interval goes to the stack only when as many intervals as there are   *)
(* registers overlap it and hold one; so of the first function, while no    *)
(* entries of an earlier one are left in active_ (codegen.cpp:91-92).       *)
Pressure(i) == {j \in DOMAIN result : /\ result[j].kind = "register"
                                      /\ Promise!Overlap(i, j)}
SpilledUnderPressure ==
    \A i \in DOMAIN result : result[i].kind = "spill" => Cardinality(Pressure(i)) >= Len(Registers)
FirstFunctionUsesAllRegisters == calls <= 1 => SpilledUnderPressure
=============================================================================
