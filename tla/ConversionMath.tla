---------------------------- MODULE ConversionMath ----------------------------
(***************************************************************************)
(* The arithmetic of the conversion vault                                  *)
(* (src/programs/conversion-vault/src/instructions/convert.rs).            *)
(***************************************************************************)
EXTENDS Integers

CONSTANT CONVERSION_RATE             \* faction tokens to a PROFIT (100)

ASSUME RateAssumption == CONVERSION_RATE \in Nat \ {0}

Faction == {"CRIME", "FRAUD"}

\* What the vault pays for an amount; 0 when it refuses.
compute_output(input, output, amount_in) ==
  IF input \in Faction /\ output = "PROFIT" THEN amount_in \div CONVERSION_RATE
  ELSE IF input = "PROFIT" /\ output \in Faction THEN amount_in * CONVERSION_RATE
  ELSE 0
================================================================================
