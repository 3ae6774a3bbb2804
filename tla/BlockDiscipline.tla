------------------------- MODULE BlockDiscipline -------------------------
(***************************************************************************)
(* What the block structure of a function under construction promises,     *)
(* whatever tree is lowered: blocks are allocated in order, at most three  *)
(* at a time; one block is open and all code goes into it; it is closed,   *)
(* with a terminator, the moment another allocated block is opened; a      *)
(* closed block is never opened again; and when the function is handed     *)
(* over, no allocated block was forgotten.                                 *)
(***************************************************************************)
EXTENDS Integers

VARIABLES
    allocated,  \* the blocks allocated so far are 1..allocated
    open,       \* the block being filled, as a set of at most one
    closed      \* the blocks that were filled and left

vars == <<allocated, open, closed>>

AtRest == allocated = 0 /\ open = {} /\ closed = {}

Init == AtRest

Start == AtRest /\ allocated' = 1 /\ open' = {1} /\ closed' = {}

(* Leave the open block for one that was never open, allocating on the way. *)
Move == \E n \in 0..3 :
          /\ open # {}
          /\ allocated' = allocated + n
          /\ \E b \in (1..(allocated + n)) \ (open \cup closed) : open' = {b}
          /\ closed' = closed \cup open

Finish == /\ open # {} /\ 1..allocated = open \cup closed
          /\ allocated' = 0 /\ open' = {} /\ closed' = {}

Next == Start \/ Move \/ Finish

Spec == Init /\ [][Next]_vars
=============================================================================
