----------------------------- MODULE IntegerMath -----------------------------
(***************************************************************************)
(* The integer operations of Rust's u64 that the programs use and TLA+     *)
(* does not have.                                                          *)
(***************************************************************************)
EXTENDS Integers

Lesser(a, b)  == IF a <= b THEN a ELSE b        \* a.min(b)
Greater(a, b) == IF a >= b THEN a ELSE b        \* a.max(b)

saturating_sub(a, b) == IF a >= b THEN a - b ELSE 0
==============================================================================
