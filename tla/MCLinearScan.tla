---------------------------- MODULE MCLinearScan ----------------------------
(* Every set of up to three intervals over a small function, two registers,  *)
(* two functions after the other: expiry at the point where another begins, *)
(* equal starts, spills, and entries of the first function met again in the *)
(* second under the same temporaries.                                       *)
EXTENDS LinearScan
CONSTANTS Temps, Points
Spans == {s \in Points \X Points : s[1] <= s[2]}
AllRequests ==
    UNION {{{[id |-> t, start |-> f[t][1], end |-> f[t][2]] : t \in ids} : f \in [ids -> Spans]} :
             ids \in SUBSET Temps}
MCRequests  == AllRequests
MCRegisters == <<"rbx", "r12">>
=============================================================================
