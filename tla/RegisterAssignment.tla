------------------------- MODULE RegisterAssignment -------------------------
(***************************************************************************)
(* What a register allocator promises: every live interval of a function   *)
(* gets a location, a register or a stack slot, for good, and two          *)
(* intervals that are live at the same time never share one.               *)
(***************************************************************************)
EXTENDS Integers

CONSTANT Intervals     \* what may be asked for: records [id, start, end]

VARIABLE assigned      \* the location of each interval of the function at hand

Nothing == [i \in {} |-> 0]

Overlap(i, j) == i.start <= j.end /\ j.start <= i.end

Init == assigned = Nothing

Place(i) ==
    /\ i \in (DOMAIN assigned') \ DOMAIN assigned
    /\ assigned' = [j \in DOMAIN assigned \cup {i} |->
                        IF j = i THEN assigned'[i] ELSE assigned[j]]
    /\ \A j \in DOMAIN assigned : Overlap(i, j) => assigned[j] # assigned'[i]

(* The next function begins with nothing assigned. *)
NextFunction == assigned' = Nothing

Next == NextFunction \/ \E i \in Intervals : Place(i)

Spec == Init /\ [][Next]_assigned
=============================================================================
