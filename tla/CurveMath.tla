------------------------------- MODULE CurveMath -------------------------------
(***************************************************************************)
(* The linear price curve of the bonding-curve program                     *)
(* (src/programs/bonding_curve/src/math.rs): the price of a token rises    *)
(* from P_START to P_END while TOTAL_FOR_SALE tokens are sold.  Tokens out *)
(* are rounded down, SOL is rounded up; both are exact integer arithmetic, *)
(* without the u128 overflow errors the deployed constants cannot reach.   *)
(*                                                                         *)
(* A definition named X_Something, just before X, is X with a mistake the  *)
(* properties are meant to catch; nothing uses it.                         *)
(***************************************************************************)
EXTENDS IntegerMath

CONSTANTS
  P_START, P_END,        \* lamports for a whole token, at the ends of the curve
  TOTAL_FOR_SALE,        \* tokens on the curve, in base units
  TOKEN_DECIMAL_FACTOR,  \* base units in a whole token
  PRECISION              \* scale of the intermediate results

ASSUME CurveAssumption ==
  /\ P_START \in Nat \ {0}
  /\ P_END \in Nat
  /\ P_START < P_END
  /\ TOTAL_FOR_SALE \in Nat \ {0}
  /\ TOKEN_DECIMAL_FACTOR \in Nat \ {0}
  /\ PRECISION \in Nat \ {0}

isqrt(n) == CHOOSE r \in 0..n : r * r <= n /\ n < (r + 1) * (r + 1)

CeilDiv(a, b) == (a + b - 1) \div b

calculate_tokens_out_RoundsUp(s, sold) ==
  LET b_num == P_END - P_START
      coef == P_START * TOTAL_FOR_SALE + b_num * sold
      discriminant ==
        coef * coef + 2 * b_num * s * TOKEN_DECIMAL_FACTOR * TOTAL_FOR_SALE
  IN  Lesser(CeilDiv(isqrt(discriminant) - coef, b_num), TOTAL_FOR_SALE - sold)

calculate_tokens_out_FactorTwoLost(s, sold) ==
  LET b_num == P_END - P_START
      coef == P_START * TOTAL_FOR_SALE + b_num * sold
      discriminant ==
        coef * coef + b_num * s * TOKEN_DECIMAL_FACTOR * TOTAL_FOR_SALE
  IN  Lesser((isqrt(discriminant) - coef) \div b_num, TOTAL_FOR_SALE - sold)

\* Tokens for s lamports when sold of them are gone: the positive root of the
\* integral's quadratic, and never more than remain.
calculate_tokens_out(s, sold) ==
  LET b_num == P_END - P_START
      coef == P_START * TOTAL_FOR_SALE + b_num * sold
      discriminant ==
        coef * coef + 2 * b_num * s * TOKEN_DECIMAL_FACTOR * TOTAL_FOR_SALE
  IN  Lesser((isqrt(discriminant) - coef) \div b_num, TOTAL_FOR_SALE - sold)

\* What n tokens cost from the position sold on: the area under the curve.
calculate_sol_for_tokens(sold, n) ==
  LET two_total == 2 * TOTAL_FOR_SALE
      product == n * (2 * sold + n)
      term1 == P_START * PRECISION * n
      term2 == (P_END - P_START)
                 * (product \div two_total) * PRECISION
               + ((P_END - P_START) * (product % two_total) * PRECISION)
                 \div two_total
  IN  CeilDiv(term1 + term2, PRECISION * TOKEN_DECIMAL_FACTOR)
================================================================================
