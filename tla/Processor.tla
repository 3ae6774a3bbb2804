----------------------------- MODULE Processor -----------------------------
(***************************************************************************)
(* The arithmetic of the instructions that CodeGenerator::emit_instruction *)
(* of src/compiler/src/codegen/codegen.cpp emits, on registers of Width    *)
(* bits.                                                                   *)
(***************************************************************************)
EXTENDS Integers

CONSTANT Width

Min64   == -(2 ^ (Width - 1))
Bits(n) == ((n - Min64) % (2 ^ Width)) + Min64

MaxRegArgs == 6                                   \* k_max_reg_args

Flag(p)          == IF p THEN 1 ELSE 0

(* The two results of `idiv`. *)
Quotient(a, c) ==
    LET m == (IF a < 0 THEN -a ELSE a) \div (IF c < 0 THEN -c ELSE c)
    IN  IF (a < 0) = (c < 0) THEN m ELSE -m
IDivFaults(a, c) == c = 0 \/ (a = Min64 /\ c = -1)

Alu(op, a, c) ==
    CASE op = "+"  -> Bits(a + c)
      [] op = "-"  -> Bits(a - c)
      [] op = "*"  -> Bits(a * c)
      [] op = "/"  -> Quotient(a, c)
      [] op = "%"  -> a - c * Quotient(a, c)
      [] op = "==" -> Flag(a = c)
      [] op = "!=" -> Flag(a # c)
      [] op = "<"  -> Flag(a < c)
      [] op = "<=" -> Flag(a <= c)
      [] op = ">"  -> Flag(a > c)
      [] op = ">=" -> Flag(a >= c)
      [] op = "&&" -> Flag(a # 0 /\ c # 0)
      [] op = "||" -> Flag(a # 0 \/ c # 0)
=============================================================================
