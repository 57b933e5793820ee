------------------------------- MODULE AmmMath -------------------------------
(***************************************************************************)
(* The AMM's swap arithmetic (amm/src/helpers/math.rs): the fee is taken   *)
(* off the input, the output follows the constant-product formula, and     *)
(* every division rounds down.                                             *)
(*                                                                         *)
(* A pool is a record [sol, token] of positive reserves.  The u128         *)
(* intermediates cannot overflow for u64 reserves and inputs, so the       *)
(* integers are unbounded here.                                            *)
(***************************************************************************)
EXTENDS IntegerMath

BPS_DENOMINATOR == 10000
SOL_POOL_FEE_BPS == 100

calculate_effective_input(amount_in, fee_bps) ==
  (amount_in * (BPS_DENOMINATOR - fee_bps)) \div BPS_DENOMINATOR

calculate_swap_output(reserve_in, reserve_out, effective_input) ==
  (reserve_out * effective_input) \div (reserve_in + effective_input)

verify_k_invariant(in_before, out_before, in_after, out_after) ==
  in_after * out_after >= in_before * out_before

\* What a swap of amount_in pays out, and whether the AMM accepts it: the
\* input, the input net of the fee and the output all have to be positive, and
\* k may not decrease.
SwapOutput(amount_in, reserve_in, reserve_out) ==
  calculate_swap_output(reserve_in, reserve_out,
                        calculate_effective_input(amount_in, SOL_POOL_FEE_BPS))

SwapAccepted(amount_in, reserve_in, reserve_out) ==
  LET amount_out == SwapOutput(amount_in, reserve_in, reserve_out)
  IN /\ amount_in > 0
     /\ calculate_effective_input(amount_in, SOL_POOL_FEE_BPS) > 0
     /\ amount_out > 0
     /\ verify_k_invariant(reserve_in, reserve_out,
                           reserve_in + amount_in, reserve_out - amount_out)
==============================================================================
