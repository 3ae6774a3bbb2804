----------------------------- MODULE MCEndToEnd -----------------------------
(* The programs of Examples, compiled with and without optimization and     *)
(* run; and one whose compiled form does something else than a test of the  *)
(* repository says.                                                         *)
EXTENDS EndToEnd, Examples
MCPrograms == Inputs(Whole)
MCInputs == {-1, 0, 1, 2, 4}

(* let x = 1; { let x = 2; } x *)
Shadowing == Inputs({<<MainOf(BlockTail(<<Let("x", FALSE, "none", Lit(1)),
                         Stmt(Block(<<Let("x", FALSE, "none", Lit(2))>>))>>, X))>>})
=============================================================================
