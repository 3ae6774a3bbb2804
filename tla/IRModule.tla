----------------------------- MODULE IRModule -----------------------------
(***************************************************************************)
(* The ir::Module that the phases hand on and that the emitted program is  *)
(* made of (src/compiler/src/driver/driver.cpp:97-136).                    *)
(***************************************************************************)
VARIABLE module     \* Module::functions, those lowered so far
=============================================================================
