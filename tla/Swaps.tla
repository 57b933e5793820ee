-------------------------------- MODULE Swaps --------------------------------
(***************************************************************************)
(* The instructions a trade is made of, as functions of the ledger they    *)
(* run on: the taxed swaps of the tax program with the AMM swap they call, *)
(* the conversion vault, and the wrapping of SOL around them.              *)
(*                                                                         *)
(* A ledger is a record                                                    *)
(*   pools    the reserves [sol, token] of each faction's SOL pool         *)
(*   taxes    the rates [buy, sell] of each faction, from EpochState       *)
(*   fees     the SOL the tax has brought staking, carnage and treasury    *)
(*   swaps    how many taxed swaps there have been (history)               *)
(*   vault    the conversion vault's holdings                              *)
(*   wallet   the balances of the transaction's signer                     *)
(*   ok       FALSE once an instruction has failed                         *)
(* A transaction is a sequence of instructions and takes effect as a whole *)
(* or not at all.  Rent and network fees are left out.                     *)
(*                                                                         *)
(* A definition named X_Something, just before X, is X with a mistake the  *)
(* properties are meant to catch; nothing uses it.                         *)
(***************************************************************************)
EXTENDS AmmMath, ConversionMath, SequencesExt

Token == Faction \cup {"SOL", "PROFIT"}
Account == Token \cup {"WSOL"}       \* a wallet's balances

MINIMUM_OUTPUT_FLOOR_BPS == 5000

(***************************************************************************)
(* Tax arithmetic (tax_math.rs).                                           *)
(***************************************************************************)
calculate_tax(amount, tax_bps) == (amount * tax_bps) \div BPS_DENOMINATOR

split_distribution_Twice(total) ==   \* the 24% taken of what staking left
  LET staking == (total * 71) \div 100
      carnage == ((total - staking) * 24) \div 100
  IN IF total < 4
     THEN [staking |-> total, carnage |-> 0, treasury |-> 0]
     ELSE [staking |-> staking, carnage |-> carnage,
           treasury |-> total - staking - carnage]

\* 71% to staking, 24% to carnage, the rest to the treasury; a tax of less than
\* four lamports goes to staking undivided.
split_distribution(total) ==
  LET staking == (total * 71) \div 100
      carnage == (total * 24) \div 100
  IN IF total < 4
     THEN [staking |-> total, carnage |-> 0, treasury |-> 0]
     ELSE [staking |-> staking, carnage |-> carnage,
           treasury |-> total - staking - carnage]

calculate_output_floor(reserve_in, reserve_out, amount_in) ==
  IF reserve_in = 0 \/ reserve_out = 0 \/ amount_in = 0
  THEN 0
  ELSE (((reserve_out * amount_in) \div (reserve_in + amount_in))
          * MINIMUM_OUTPUT_FLOOR_BPS) \div BPS_DENOMINATOR

CeilDiv(a, b) == (a + b - 1) \div b

(***************************************************************************)
(* The instructions.                                                       *)
(***************************************************************************)
Failed(l) == [l EXCEPT !.ok = FALSE]

CollectTax(l, tax) ==
  LET share == split_distribution(tax)
  IN [l EXCEPT !.fees = [d \in DOMAIN @ |-> @[d] + share[d]],
               !.swaps = @ + 1]

\* The tax comes out of the payment, in native SOL; the rest is swapped from
\* the wallet's wrapped SOL.
swap_sol_buy(l, token, amount_in, minimum_output) ==
  LET pool        == l.pools[token]
      tax         == calculate_tax(amount_in, l.taxes[token].buy)
      sol_to_swap == amount_in - tax
      amount_out  == SwapOutput(sol_to_swap, pool.sol, pool.token)
  IN IF /\ sol_to_swap > 0
        /\ minimum_output >= calculate_output_floor(pool.sol, pool.token, sol_to_swap)
        /\ l.wallet["SOL"] >= tax
        /\ l.wallet["WSOL"] >= sol_to_swap
        /\ SwapAccepted(sol_to_swap, pool.sol, pool.token)
        /\ amount_out >= minimum_output
     THEN [CollectTax(l, tax) EXCEPT
             !.pools[token] = [sol |-> @.sol + sol_to_swap, token |-> @.token - amount_out],
             !.wallet["SOL"] = @ - tax, !.wallet["WSOL"] = @ - sol_to_swap,
             !.wallet[token] = @ + amount_out]
     ELSE Failed(l)

swap_sol_sell_GrossMinimum(l, token, amount_in, minimum_output) ==
  LET pool         == l.pools[token]   \* the minimum is compared before the tax
      gross_output == SwapOutput(amount_in, pool.token, pool.sol)
      tax          == calculate_tax(gross_output, l.taxes[token].sell)
  IN IF /\ minimum_output >= calculate_output_floor(pool.token, pool.sol, amount_in)
        /\ l.wallet[token] >= amount_in
        /\ SwapAccepted(amount_in, pool.token, pool.sol)
        /\ gross_output >= minimum_output
        /\ gross_output > tax
     THEN [CollectTax(l, tax) EXCEPT
             !.pools[token] = [sol |-> @.sol - gross_output, token |-> @.token + amount_in],
             !.wallet[token] = @ - amount_in, !.wallet["WSOL"] = @ + gross_output - tax]
     ELSE Failed(l)

\* The AMM is asked for the gross output that leaves the minimum after tax; the
\* tax comes out of the proceeds, and what is left is checked once more.
swap_sol_sell(l, token, amount_in, minimum_output) ==
  LET pool        == l.pools[token]
      tax_bps     == l.taxes[token].sell
      gross_floor == IF minimum_output > 0 /\ tax_bps < BPS_DENOMINATOR
                     THEN CeilDiv(minimum_output * BPS_DENOMINATOR, BPS_DENOMINATOR - tax_bps)
                     ELSE 0
      gross_output == SwapOutput(amount_in, pool.token, pool.sol)
      tax          == calculate_tax(gross_output, tax_bps)
      net_output   == gross_output - tax
  IN IF /\ minimum_output >= calculate_output_floor(pool.token, pool.sol, amount_in)
        /\ l.wallet[token] >= amount_in
        /\ SwapAccepted(amount_in, pool.token, pool.sol)
        /\ gross_output >= gross_floor
        /\ net_output > 0
        /\ net_output >= minimum_output
     THEN [CollectTax(l, tax) EXCEPT
             !.pools[token] = [sol |-> @.sol - gross_output, token |-> @.token + amount_in],
             !.wallet[token] = @ - amount_in, !.wallet["WSOL"] = @ + net_output]
     ELSE Failed(l)

\* Exact for an amount; without one, what has come in since pre_balance, or the
\* whole balance when that is 0.
EffectiveAmount(balance, amount_in, pre_balance) ==
  IF amount_in > 0 THEN amount_in ELSE balance - pre_balance

convert_v2(l, input, output, amount_in, minimum_output, pre_balance) ==
  LET amount     == EffectiveAmount(l.wallet[input], amount_in, pre_balance)
      amount_out == compute_output(input, output, amount)
  IN IF /\ amount > 0
        /\ amount_out > 0
        /\ amount_out >= minimum_output
        /\ l.wallet[input] >= amount
        /\ l.vault[output] >= amount_out
     THEN [l EXCEPT !.vault[input] = @ + amount, !.vault[output] = @ - amount_out,
                    !.wallet[input] = @ - amount, !.wallet[output] = @ + amount_out]
     ELSE Failed(l)

\* The token and system programs' part: wrap SOL before a purchase, unwrap all
\* of it by closing the account.
wrap(l, amount) ==
  IF l.wallet["SOL"] >= amount
  THEN [l EXCEPT !.wallet["SOL"] = @ - amount, !.wallet["WSOL"] = @ + amount]
  ELSE Failed(l)

unwrap(l) ==
  [l EXCEPT !.wallet["SOL"] = @ + l.wallet["WSOL"], !.wallet["WSOL"] = 0]

Apply(l, ix) ==
  IF ~l.ok THEN l
  ELSE CASE ix.op = "wrap"   -> wrap(l, ix.amount)
         [] ix.op = "unwrap" -> unwrap(l)
         [] ix.op = "buy"    -> swap_sol_buy(l, ix.to, ix.amount, ix.minimum)
         [] ix.op = "sell"   -> swap_sol_sell(l, ix.from, ix.amount, ix.minimum)
         [] OTHER            -> convert_v2(l, ix.from, ix.to, ix.amount, ix.minimum, 0)

\* One instruction after the other; after a failure none has an effect.
Execute(l, instructions) ==
  LET after[n \in 0..Len(instructions)] ==
        IF n = 0 THEN [l EXCEPT !.ok = TRUE] ELSE Apply(after[n - 1], instructions[n])
  IN after[Len(instructions)]
==============================================================================
