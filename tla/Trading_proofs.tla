----------------------------- MODULE Trading_proofs -----------------------------
(***************************************************************************)
(* Theorems about a trade, for any pools, rates, amounts and settings: how *)
(* a tax is shared, that the two minimums a sale is held to agree, that    *)
(* conversions gain nothing and that no taxed swap drains a pool; from the *)
(* swap form to the programs, what every transaction leaves; and that a    *)
(* trade that lands brings what the user agreed to.                        *)
(***************************************************************************)
EXTENDS Trading, Arithmetic_proofs, SequenceTheorems

--------------------------------------------------------------------------------
(* Instructions. *)

\* Every lamport of a tax goes to one of the three, and each gets its percentage
\* to within two lamports, the micro-tax case included (split_distribution).
THEOREM SplitIsFair ==
  ASSUME NEW total \in Nat
  PROVE  LET share == split_distribution(total)
         IN  /\ share.staking \in Nat /\ share.carnage \in Nat /\ share.treasury \in Nat
             /\ share.staking + share.carnage + share.treasury = total
             /\ 100 * share.staking - 71 * total \in -200..200
             /\ 100 * share.carnage - 24 * total \in -200..200
             /\ 100 * share.treasury - 5 * total \in -200..200
<1> DEFINE s == (total * 71) \div 100
           c == (total * 24) \div 100
<1>1. s \in Nat /\ 100 * s <= 71 * total /\ 71 * total < 100 * s + 100
  OBVIOUS
<1>2. c \in Nat /\ 100 * c <= 24 * total /\ 24 * total < 100 * c + 100
  OBVIOUS
<1>3. split_distribution(total) =
        IF total < 4 THEN [staking |-> total, carnage |-> 0, treasury |-> 0]
        ELSE [staking |-> s, carnage |-> c, treasury |-> total - s - c]
  BY DEF split_distribution
<1> HIDE DEF s, c
<1>4. CASE total < 4
  BY <1>3, <1>4
<1>5. CASE total >= 4
  <2>1. total - s - c \in Nat
    BY <1>1, <1>2
  <2>2. split_distribution(total)
          = [staking |-> s, carnage |-> c, treasury |-> total - s - c]
    BY <1>3, <1>5
  <2> QED BY <1>1, <1>2, <2>1, <2>2
<1> QED BY <1>4, <1>5

\* A quotient rounded up times its divisor is at least the dividend.
LEMMA CeilDivCovers ==
  ASSUME NEW n \in Nat, NEW d \in Nat \ {0}
  PROVE  /\ CeilDiv(n, d) \in Nat
         /\ n <= d * CeilDiv(n, d)
<1> DEFINE m == n + d - 1
<1>1. m \in Nat
  OBVIOUS
<1>2. m \div d \in Nat /\ m < d * (m \div d) + d
  BY <1>1, DivNat, DivBounds
<1>3. d * (m \div d) \in Nat
  BY <1>2, ProductNat
<1> QED BY <1>2, <1>3 DEF CeilDiv

\* The tax on an amount is at most its rate of it.
LEMMA TaxBound ==
  ASSUME NEW a \in Nat, NEW bps \in 0..BPS_DENOMINATOR
  PROVE  /\ calculate_tax(a, bps) \in Nat
         /\ calculate_tax(a, bps) <= a
         /\ 10000 * calculate_tax(a, bps) <= a * bps
<1>1. a * bps \in Nat /\ a * bps <= a * 10000
  <2>1. PICK r \in Nat : 10000 = bps + r
    <3>1. 10000 - bps \in Nat /\ 10000 = bps + (10000 - bps)
      BY DEF BPS_DENOMINATOR
    <3> QED BY <3>1
  <2>2. bps \in Nat
    BY DEF BPS_DENOMINATOR
  <2>3. a * (bps + r) = a * bps + a * r
    BY <2>2
  <2> QED BY <2>1, <2>2, <2>3, ProductNat
<1> DEFINE p == a * bps
<1>2. calculate_tax(a, bps) = p \div 10000
  BY DEF calculate_tax, BPS_DENOMINATOR
<1> HIDE DEF p
<1>3. p \in Nat /\ p <= a * 10000
  BY <1>1 DEF p
<1>4. p \div 10000 \in Nat /\ 10000 * (p \div 10000) <= p
  BY <1>3
<1> QED BY <1>2, <1>3, <1>4 DEF p

\* The tax on an amount is part of it.
LEMMA TaxIsPart ==
  ASSUME NEW a \in Nat, NEW bps \in 0..BPS_DENOMINATOR
  PROVE  calculate_tax(a, bps) \in Nat /\ calculate_tax(a, bps) <= a
  BY TaxBound

\* The gross output the AMM is asked for leaves at least the user's minimum when
\* the tax has been taken: the check after the swap refuses nothing the AMM has
\* accepted (swap_sol_sell).
THEOREM GrossFloorSuffices ==
  ASSUME NEW minimum \in Nat, NEW bps \in 0..(BPS_DENOMINATOR - 1),
         NEW gross \in Nat,
         gross >= CeilDiv(minimum * BPS_DENOMINATOR, BPS_DENOMINATOR - bps)
  PROVE  gross - calculate_tax(gross, bps) >= minimum
<1> DEFINE keep == 10000 - bps
           floor == CeilDiv(minimum * 10000, keep)
<1>1. keep \in Nat \ {0} /\ bps \in Nat /\ keep + bps = 10000
  BY DEF BPS_DENOMINATOR
<1>2. floor \in Nat /\ minimum * 10000 <= keep * floor
  <2>1. minimum * 10000 \in Nat
    OBVIOUS
  <2> HIDE DEF keep
  <2> QED BY <1>1, <2>1, CeilDivCovers
<1>3. gross >= floor
  BY DEF BPS_DENOMINATOR
<1> HIDE DEF keep, floor
<1>4. keep * floor <= keep * gross
  <2>1. PICK r \in Nat : gross = floor + r
    <3>1. gross - floor \in Nat /\ gross = floor + (gross - floor)
      BY <1>2, <1>3
    <3> QED BY <3>1
  <2>2. keep * (floor + r) = keep * floor + keep * r
    BY <1>1, <1>2
  <2>3. keep * r \in Nat /\ keep * floor \in Nat
    BY <1>1, <1>2, ProductNat
  <2> QED BY <2>1, <2>2, <2>3
<1>5. keep * gross + gross * bps = 10000 * gross
  <2>1. (keep + bps) * gross = keep * gross + gross * bps
    BY <1>1
  <2> QED BY <1>1, <2>1
<1>6. /\ calculate_tax(gross, bps) \in Nat
      /\ 10000 * calculate_tax(gross, bps) <= gross * bps
  <2>1. bps \in 0..BPS_DENOMINATOR
    BY DEF BPS_DENOMINATOR
  <2> QED BY <2>1, TaxBound
<1>7. keep * floor \in Nat /\ keep * gross \in Nat /\ gross * bps \in Nat
  BY <1>1, <1>2, ProductNat
<1> QED BY <1>2, <1>4, <1>5, <1>6, <1>7

\* Converting to PROFIT and back, or from PROFIT and back, never yields more than
\* one began with, and the second yields all of it (compute_output).
THEOREM ConversionGainsNothing ==
  ASSUME NEW f \in Faction, NEW n \in Nat
  PROVE  /\ compute_output("PROFIT", f, compute_output(f, "PROFIT", n)) <= n
         /\ compute_output(f, "PROFIT", compute_output("PROFIT", f, n)) = n
<1>1. CONVERSION_RATE \in Nat \ {0}
  BY RateAssumption
<1>2. f # "PROFIT"
  BY DEF Faction
<1>3. /\ \A a : compute_output(f, "PROFIT", a) = a \div CONVERSION_RATE
      /\ \A a : compute_output("PROFIT", f, a) = a * CONVERSION_RATE
  BY <1>2 DEF compute_output, Faction
<1>4. (n \div CONVERSION_RATE) * CONVERSION_RATE <= n
  <2>1. n \div CONVERSION_RATE \in Nat
        /\ CONVERSION_RATE * (n \div CONVERSION_RATE) <= n
    BY <1>1, DivNat, DivBounds
  <2> QED BY <1>1, <2>1
<1>5. (n * CONVERSION_RATE) \div CONVERSION_RATE = n
  <2> DEFINE p == n * CONVERSION_RATE
             q == p \div CONVERSION_RATE
  <2>1. p \in Nat
    BY <1>1, ProductNat
  <2>2. q \in Nat /\ CONVERSION_RATE * q <= p /\ p < CONVERSION_RATE * q + CONVERSION_RATE
    BY <1>1, <2>1, DivNat, DivBounds
  <2> HIDE DEF q
  <2>3. ~(q >= n + 1)
    <3> SUFFICES ASSUME q >= n + 1 PROVE FALSE
      OBVIOUS
    <3>1. PICK r \in Nat : q = n + 1 + r
      <4>1. q - (n + 1) \in Nat /\ q = n + 1 + (q - (n + 1))
        BY <2>2
      <4> QED BY <4>1
    <3>2. CONVERSION_RATE * (n + 1 + r)
            = n * CONVERSION_RATE + CONVERSION_RATE + CONVERSION_RATE * r
      BY <1>1
    <3>3. CONVERSION_RATE * r \in Nat
      BY <1>1, ProductNat
    <3> QED BY <1>1, <2>1, <2>2, <3>1, <3>2, <3>3
  <2>4. ~(q + 1 <= n)
    <3> SUFFICES ASSUME q + 1 <= n PROVE FALSE
      OBVIOUS
    <3>1. PICK r \in Nat : n = q + 1 + r
      <4>1. n - (q + 1) \in Nat /\ n = q + 1 + (n - (q + 1))
        BY <2>2
      <4> QED BY <4>1
    <3>2. (q + 1 + r) * CONVERSION_RATE
            = CONVERSION_RATE * q + CONVERSION_RATE + CONVERSION_RATE * r
      BY <1>1, <2>2
    <3>3. CONVERSION_RATE * r \in Nat /\ CONVERSION_RATE * q \in Nat
      BY <1>1, <2>2, ProductNat
    <3>4. p = CONVERSION_RATE * q + CONVERSION_RATE + CONVERSION_RATE * r
      BY <3>1, <3>2
    <3> QED BY <1>1, <2>1, <2>2, <3>3, <3>4
  <2> QED BY <2>2, <2>3, <2>4 DEF q
<1> QED BY <1>3, <1>4, <1>5

Reserves == [sol : Nat \ {0}, token : Nat \ {0}]

\* The ledgers that swaps run on: positive reserves, natural balances, tax rates
\* of at most the whole amount.
Ledger ==
  [pools  : [Faction -> Reserves],
   taxes  : [Faction -> [buy : 0..BPS_DENOMINATOR, sell : 0..BPS_DENOMINATOR]],
   fees   : [staking : Nat, carnage : Nat, treasury : Nat],
   swaps  : Nat,
   vault  : [Token -> Nat],
   wallet : [Account -> Nat],
   ok     : BOOLEAN]

\* What the wallet, the pool of t and the destinations of the tax hold in SOL.
SolAround(l, t) ==
  l.wallet["SOL"] + l.wallet["WSOL"] + l.pools[t].sol
    + l.fees.staking + l.fees.carnage + l.fees.treasury

\* The product of t's reserves.
K(l, t) == l.pools[t].sol * l.pools[t].token

\* Collecting a tax adds all of it to the destinations and touches nothing else
\* but the count of swaps.
LEMMA CollectTaxAdds ==
  ASSUME NEW l \in Ledger, NEW tax \in Nat
  PROVE  LET after == CollectTax(l, tax)
         IN  /\ after \in Ledger
             /\ after.pools = l.pools /\ after.wallet = l.wallet
             /\ after.fees.staking + after.fees.carnage + after.fees.treasury
                  = l.fees.staking + l.fees.carnage + l.fees.treasury + tax
<1> DEFINE share == split_distribution(tax)
<1>1. /\ share.staking \in Nat /\ share.carnage \in Nat /\ share.treasury \in Nat
      /\ share.staking + share.carnage + share.treasury = tax
  BY SplitIsFair
<1> HIDE DEF share
<1> DEFINE fees == [d \in {"staking", "carnage", "treasury"} |-> l.fees[d] + share[d]]
<1>2. l.fees \in [staking : Nat, carnage : Nat, treasury : Nat]
  BY DEF Ledger
<1>3. /\ fees \in [staking : Nat, carnage : Nat, treasury : Nat]
      /\ fees.staking + fees.carnage + fees.treasury
           = l.fees.staking + l.fees.carnage + l.fees.treasury + tax
  BY <1>1, <1>2
<1>4. [d \in DOMAIN l.fees |-> l.fees[d] + share[d]] = fees
  BY <1>2
<1> HIDE DEF fees
<1>5. CollectTax(l, tax) = [l EXCEPT !.fees = fees, !.swaps = @ + 1]
  BY <1>4 DEF CollectTax, share
<1> DEFINE after == CollectTax(l, tax)
<1>6. after \in Ledger /\ after.fees = fees
  <2>1. l.swaps \in Nat /\ l.swaps + 1 \in Nat
    BY DEF Ledger
  <2>2. after = [pools |-> l.pools, taxes |-> l.taxes, fees |-> fees,
                 swaps |-> l.swaps + 1, vault |-> l.vault, wallet |-> l.wallet,
                 ok |-> l.ok]
    BY <1>5 DEF Ledger
  <2> HIDE DEF after
  <2> QED BY <1>3, <2>1, <2>2 DEF Ledger
<1>7. after.pools = l.pools /\ after.wallet = l.wallet
  BY <1>5 DEF Ledger
<1> QED BY <1>3, <1>6, <1>7

\* Balances of an account, by name.
LEMMA WalletNat ==
  ASSUME NEW l \in Ledger, NEW t \in Faction
  PROVE  /\ l.wallet["SOL"] \in Nat /\ l.wallet["WSOL"] \in Nat /\ l.wallet[t] \in Nat
         /\ l.pools[t] \in Reserves
         /\ l.taxes[t] \in [buy : 0..BPS_DENOMINATOR, sell : 0..BPS_DENOMINATOR]
         /\ t # "SOL" /\ t # "WSOL"
  BY DEF Ledger, Account, Token, Faction

\* A purchase leaves a sound ledger, creates or loses no SOL, and does not lower
\* the product of the reserves, of which neither is emptied (swap_sol_buy).
THEOREM PurchaseKeepsPool ==
  ASSUME NEW l \in Ledger, NEW t \in Faction, NEW amount \in Nat, NEW minimum \in Nat
  PROVE  LET after == swap_sol_buy(l, t, amount, minimum)
         IN  /\ after \in Ledger
             /\ SolAround(after, t) = SolAround(l, t)
             /\ K(after, t) >= K(l, t)
<1> DEFINE pool == l.pools[t]
           tax == calculate_tax(amount, l.taxes[t].buy)
           sol == amount - tax
           out == SwapOutput(sol, pool.sol, pool.token)
           paid == CollectTax(l, tax)
           new == [sol |-> pool.sol + sol, token |-> pool.token - out]
           purse == [l.wallet EXCEPT !["SOL"] = @ - tax, !["WSOL"] = @ - sol,
                                     ![t] = @ + out]
           accepted == /\ sol > 0 /\ l.wallet["SOL"] >= tax /\ l.wallet["WSOL"] >= sol
           after == swap_sol_buy(l, t, amount, minimum)
<1>1. /\ pool \in Reserves
      /\ l.taxes[t].buy \in 0..BPS_DENOMINATOR
      /\ l.wallet["SOL"] \in Nat /\ l.wallet["WSOL"] \in Nat /\ l.wallet[t] \in Nat
      /\ t # "SOL" /\ t # "WSOL"
  BY WalletNat
<1>2. tax \in Nat /\ sol \in Nat /\ sol + tax = amount
  <2>1. tax \in Nat /\ tax <= amount
    BY <1>1, TaxIsPart
  <2> HIDE DEF tax
  <2> QED BY <2>1
<1>3. /\ paid \in Ledger /\ paid.pools = l.pools /\ paid.wallet = l.wallet
      /\ paid.fees.staking + paid.fees.carnage + paid.fees.treasury
           = l.fees.staking + l.fees.carnage + l.fees.treasury + tax
  BY <1>2, CollectTaxAdds
<1>4. out \in Nat /\ out < pool.token
      /\ (pool.sol + sol) * (pool.token - out) >= pool.sol * pool.token
  <2>1. pool.sol \in Nat \ {0} /\ pool.token \in Nat \ {0}
    BY <1>1 DEF Reserves
  <2> QED BY <1>2, <2>1, SwapOutputNat, SwapLeavesReserve, SwapKeepsK
          DEF verify_k_invariant
<1>5. \/ after = Failed(l)
      \/ accepted /\ after = [paid EXCEPT !.pools[t] = new, !.wallet = purse]
  <2>1. paid.pools[t] = pool /\ paid.wallet = l.wallet
    BY <1>3
  <2> HIDE DEF paid
  <2> QED BY <2>1 DEF swap_sol_buy, paid
<1> HIDE DEF pool, tax, sol, out, paid, after
<1>6. CASE after = Failed(l)
  <2>1. after \in Ledger /\ after.pools = l.pools /\ after.wallet = l.wallet
        /\ after.fees = l.fees
    BY <1>6 DEF Failed, Ledger
  <2>2. K(l, t) \in Nat
    BY <1>1, ProductNat DEF K, pool, Reserves
  <2> QED BY <2>1, <2>2 DEF SolAround, K, after
<1>7. CASE accepted /\ after = [paid EXCEPT !.pools[t] = new, !.wallet = purse]
  <2>1. new \in Reserves
    BY <1>1, <1>2, <1>4 DEF Reserves
  <2>2. /\ purse \in [Account -> Nat]
        /\ purse["SOL"] = l.wallet["SOL"] - tax
        /\ purse["WSOL"] = l.wallet["WSOL"] - sol
    <3>1. l.wallet \in [Account -> Nat] /\ {"SOL", "WSOL", t} \subseteq Account
      BY DEF Ledger, Account, Token
    <3> QED BY <1>1, <1>2, <1>4, <1>7, <3>1
  <2> HIDE DEF new, purse
  <2>3. /\ after \in Ledger
        /\ after.pools[t] = new /\ after.wallet = purse /\ after.fees = paid.fees
    BY <1>3, <1>7, <2>1, <2>2 DEF Ledger
  <2>4. l.fees.staking \in Nat /\ l.fees.carnage \in Nat /\ l.fees.treasury \in Nat
        /\ paid.fees.staking \in Nat /\ paid.fees.carnage \in Nat
        /\ paid.fees.treasury \in Nat
    BY <1>3 DEF Ledger
  <2>5. SolAround(after, t) = SolAround(l, t)
    <3>1. new.sol = pool.sol + sol /\ pool.sol \in Nat
      BY <1>1 DEF new, Reserves
    <3>2. SolAround(l, t) = l.wallet["SOL"] + l.wallet["WSOL"] + pool.sol
                              + l.fees.staking + l.fees.carnage + l.fees.treasury
      BY DEF SolAround, pool
    <3>3. SolAround(after, t) = purse["SOL"] + purse["WSOL"] + new.sol
                                  + paid.fees.staking + paid.fees.carnage
                                  + paid.fees.treasury
      BY <2>3 DEF SolAround
    <3>4. purse["SOL"] + purse["WSOL"] + new.sol
            = l.wallet["SOL"] + l.wallet["WSOL"] + pool.sol - tax
      BY <1>1, <1>2, <2>2, <3>1
    <3>5. paid.fees.staking + paid.fees.carnage + paid.fees.treasury
            = l.fees.staking + l.fees.carnage + l.fees.treasury + tax
      BY <1>3
    <3>6. /\ purse["SOL"] \in Int /\ purse["WSOL"] \in Int /\ new.sol \in Int
          /\ l.wallet["SOL"] \in Int /\ l.wallet["WSOL"] \in Int /\ pool.sol \in Int
          /\ tax \in Int
      BY <1>1, <1>2, <2>2, <3>1
    <3> QED BY <2>4, <3>2, <3>3, <3>4, <3>5, <3>6
  <2>6. K(after, t) >= K(l, t)
    BY <1>4, <2>3 DEF K, new, pool
  <2> QED BY <2>3, <2>5, <2>6 DEF after
<1> QED BY <1>5, <1>6, <1>7

\* So does a sale (swap_sol_sell).
THEOREM SaleKeepsPool ==
  ASSUME NEW l \in Ledger, NEW t \in Faction, NEW amount \in Nat, NEW minimum \in Nat
  PROVE  LET after == swap_sol_sell(l, t, amount, minimum)
         IN  /\ after \in Ledger
             /\ SolAround(after, t) = SolAround(l, t)
             /\ K(after, t) >= K(l, t)
<1> DEFINE pool == l.pools[t]
           out == SwapOutput(amount, pool.token, pool.sol)
           tax == calculate_tax(out, l.taxes[t].sell)
           net == out - tax
           paid == CollectTax(l, tax)
           new == [sol |-> pool.sol - out, token |-> pool.token + amount]
           purse == [l.wallet EXCEPT ![t] = @ - amount, !["WSOL"] = @ + net]
           after == swap_sol_sell(l, t, amount, minimum)
<1>1. /\ pool \in Reserves
      /\ l.taxes[t].sell \in 0..BPS_DENOMINATOR
      /\ l.wallet["SOL"] \in Nat /\ l.wallet["WSOL"] \in Nat /\ l.wallet[t] \in Nat
      /\ t # "SOL" /\ t # "WSOL"
  BY WalletNat
<1>2. out \in Nat /\ out < pool.sol
      /\ (pool.token + amount) * (pool.sol - out) >= pool.token * pool.sol
  <2>1. pool.sol \in Nat \ {0} /\ pool.token \in Nat \ {0}
    BY <1>1 DEF Reserves
  <2> QED BY <2>1, SwapOutputNat, SwapLeavesReserve, SwapKeepsK
          DEF verify_k_invariant
<1>3. tax \in Nat /\ net \in Nat /\ net + tax = out
  <2> HIDE DEF out
  <2>1. tax \in Nat /\ tax <= out
    BY <1>1, <1>2, TaxIsPart
  <2> HIDE DEF tax
  <2> QED BY <1>2, <2>1
<1>4. /\ paid \in Ledger /\ paid.pools = l.pools /\ paid.wallet = l.wallet
      /\ paid.fees.staking + paid.fees.carnage + paid.fees.treasury
           = l.fees.staking + l.fees.carnage + l.fees.treasury + tax
  BY <1>3, CollectTaxAdds
<1>5. \/ after = Failed(l)
      \/ /\ l.wallet[t] >= amount
         /\ after = [paid EXCEPT !.pools[t] = new, !.wallet = purse]
  <2>1. paid.pools[t] = pool /\ paid.wallet = l.wallet
    BY <1>4
  <2> HIDE DEF paid
  <2> QED BY <2>1 DEF swap_sol_sell, paid
<1> HIDE DEF pool, out, tax, net, paid, after
<1>6. CASE after = Failed(l)
  <2>1. after \in Ledger /\ after.pools = l.pools /\ after.wallet = l.wallet
        /\ after.fees = l.fees
    BY <1>6 DEF Failed, Ledger
  <2>2. K(l, t) \in Nat
    BY <1>1, ProductNat DEF K, pool, Reserves
  <2> QED BY <2>1, <2>2 DEF SolAround, K, after
<1>7. CASE /\ l.wallet[t] >= amount
           /\ after = [paid EXCEPT !.pools[t] = new, !.wallet = purse]
  <2>1. new \in Reserves
    BY <1>1, <1>2 DEF Reserves
  <2>2. /\ purse \in [Account -> Nat]
        /\ purse["SOL"] = l.wallet["SOL"]
        /\ purse["WSOL"] = l.wallet["WSOL"] + net
    <3>1. l.wallet \in [Account -> Nat] /\ {"SOL", "WSOL", t} \subseteq Account
      BY DEF Ledger, Account, Token
    <3> QED BY <1>1, <1>3, <1>7, <3>1
  <2> HIDE DEF new, purse
  <2>3. /\ after \in Ledger
        /\ after.pools[t] = new /\ after.wallet = purse /\ after.fees = paid.fees
    BY <1>4, <1>7, <2>1, <2>2 DEF Ledger
  <2>4. l.fees.staking \in Nat /\ l.fees.carnage \in Nat /\ l.fees.treasury \in Nat
        /\ paid.fees.staking \in Nat /\ paid.fees.carnage \in Nat
        /\ paid.fees.treasury \in Nat
    BY <1>4 DEF Ledger
  <2>5. SolAround(after, t) = SolAround(l, t)
    <3>1. new.sol = pool.sol - out /\ pool.sol \in Nat
      BY <1>1 DEF new, Reserves
    <3>2. SolAround(l, t) = l.wallet["SOL"] + l.wallet["WSOL"] + pool.sol
                              + l.fees.staking + l.fees.carnage + l.fees.treasury
      BY DEF SolAround, pool
    <3>3. SolAround(after, t) = purse["SOL"] + purse["WSOL"] + new.sol
                                  + paid.fees.staking + paid.fees.carnage
                                  + paid.fees.treasury
      BY <2>3 DEF SolAround
    <3> QED BY <1>1, <1>2, <1>3, <1>4, <2>2, <2>3, <2>4, <3>1, <3>2, <3>3
  <2>6. K(after, t) >= K(l, t)
    <3>1. new.sol * new.token = (pool.token + amount) * (pool.sol - out)
      <4>1. pool.token + amount \in Nat /\ pool.sol - out \in Nat
        BY <1>1, <1>2 DEF Reserves
      <4> QED BY <4>1 DEF new
    <3>2. pool.sol * pool.token = pool.token * pool.sol
      BY <1>1 DEF Reserves
    <3> QED BY <1>2, <2>3, <3>1, <3>2 DEF K, pool
  <2> QED BY <2>3, <2>5, <2>6 DEF after
<1> QED BY <1>5, <1>6, <1>7

--------------------------------------------------------------------------------
(* Transactions. *)

Instruction ==
  [op : {"wrap"}, amount : Nat]
    \cup [op : {"unwrap"}]
    \cup [op : {"buy"}, from : {"SOL"}, to : Faction, amount : Nat, minimum : Nat]
    \cup [op : {"sell"}, from : Faction, to : {"SOL"}, amount : Nat, minimum : Nat]
    \cup [op : {"convert"}, from : Token, to : Token, amount : Nat, minimum : Nat]

\* TaxSharesAreFair, of a ledger.
FairShare(share, percent, l) ==
  LET error == 100 * share - percent * (l.fees.staking + l.fees.carnage + l.fees.treasury)
  IN -200 * l.swaps <= error /\ error <= 200 * l.swaps

Fair(l) ==
  /\ FairShare(l.fees.staking, 71, l)
  /\ FairShare(l.fees.carnage, 24, l)
  /\ FairShare(l.fees.treasury, 5, l)

\* A transaction runs its instructions one after the other.
LEMMA ExecuteRuns ==
  ASSUME NEW l, NEW ixs, Len(ixs) \in Nat
  PROVE  \E run : /\ run[0] = [l EXCEPT !.ok = TRUE]
                  /\ \A n \in 1..Len(ixs) : run[n] = Apply(run[n - 1], ixs[n])
                  /\ Execute(l, ixs) = run[Len(ixs)]
<1> DEFINE base == [l EXCEPT !.ok = TRUE]
           step(g, n) == IF n = 0 THEN base ELSE Apply(g[n - 1], ixs[n])
           Runs(g, m) == g = [n \in 0..m |-> step(g, n)]
           Q == {m \in Nat : m <= Len(ixs) => \E g : Runs(g, m)}
           len == Len(ixs)
<1>0. len \in Nat
  OBVIOUS
<1>1. 0 \in Q
  <2> DEFINE g == [n \in 0..0 |-> base]
  <2>1. Runs(g, 0)
    OBVIOUS
  <2> QED BY <2>1
<1>2. ASSUME NEW m \in Nat, m \in Q PROVE m + 1 \in Q
  <2> SUFFICES ASSUME m + 1 <= len PROVE \E g : Runs(g, m + 1)
    BY <1>0
  <2>1. PICK g : Runs(g, m)
    BY <1>0, <1>2
  <2> DEFINE h == [n \in 0..(m + 1) |-> IF n = m + 1 THEN Apply(g[m], ixs[m + 1]) ELSE g[n]]
  <2>2. ASSUME NEW n \in 0..(m + 1) PROVE h[n] = step(h, n)
    <3>1. CASE n = m + 1
      <4>1. n # 0 /\ n - 1 = m /\ m \in 0..(m + 1) /\ m # m + 1
        BY <3>1
      <4> QED BY <3>1, <4>1
    <3>2. CASE n \in 0..m
      <4>a. n # m + 1
        BY <3>2
      <4>b. g[n] = step(g, n)
        BY <2>1, <3>2, Zenon
      <4>1. h[n] = g[n] /\ g[n] = step(g, n)
        BY <4>a, <4>b
      <4>2. n # 0 => h[n - 1] = g[n - 1]
        BY <3>2
      <4> QED BY <4>1, <4>2
    <3> QED BY <3>1, <3>2
  <2>3. Runs(h, m + 1)
    BY <2>2
  <2> QED BY <2>3
<1>3. Nat \subseteq Q
  <2> HIDE DEF Q
  <2> QED BY <1>1, <1>2, NatSetInduction
<1>4. \E g : Runs(g, len)
  BY <1>0, <1>3
<1> DEFINE run == CHOOSE g : Runs(g, len)
<1>5. Runs(run, len)
  BY <1>4
<1>6. Execute(l, ixs) = run[len]
  BY DEF Execute
<1>7. run[0] = base /\ \A n \in 1..len : run[n] = Apply(run[n - 1], ixs[n])
  <2> HIDE DEF run, base
  <2>1. \A n \in 0..len : run[n] = step(run, n)
    BY <1>5
  <2> QED BY <1>0, <2>1
<1> QED BY <1>6, <1>7

\* What holds at the start, and after each instruction of what held before it,
\* holds at the end.
LEMMA ExecuteEndsIn ==
  ASSUME NEW l, NEW ixs, Len(ixs) \in Nat, NEW G,
         [l EXCEPT !.ok = TRUE] \in G[0],
         \A n \in 1..Len(ixs) : \A m \in G[n - 1] : Apply(m, ixs[n]) \in G[n]
  PROVE  Execute(l, ixs) \in G[Len(ixs)]
<1>1. PICK run : /\ run[0] = [l EXCEPT !.ok = TRUE]
                 /\ \A n \in 1..Len(ixs) : run[n] = Apply(run[n - 1], ixs[n])
                 /\ Execute(l, ixs) = run[Len(ixs)]
  BY ExecuteRuns
<1> DEFINE Q == {m \in Nat : m <= Len(ixs) => run[m] \in G[m]}
<1>2. 0 \in Q
  BY <1>1
<1>3. ASSUME NEW m \in Nat, m \in Q PROVE m + 1 \in Q
  <2> SUFFICES ASSUME m + 1 <= Len(ixs) PROVE run[m + 1] \in G[m + 1]
    OBVIOUS
  <2>1. m + 1 \in 1..Len(ixs) /\ (m + 1) - 1 = m /\ run[m] \in G[m]
    BY <1>3
  <2> QED BY <1>1, <2>1
<1>4. Nat \subseteq Q
  <2> HIDE DEF Q
  <2> QED BY <1>2, <1>3, NatSetInduction
<1> QED BY <1>1, <1>4

\* What an instruction does with the ledger of a transaction that has not failed.
LEMMA CollectTaxFair ==
  ASSUME NEW l \in Ledger, Fair(l), NEW tax \in Nat
  PROVE  Fair(CollectTax(l, tax))
<1> DEFINE share == split_distribution(tax)
           after == CollectTax(l, tax)
<1>1. /\ share.staking \in Nat /\ share.carnage \in Nat /\ share.treasury \in Nat
      /\ share.staking + share.carnage + share.treasury = tax
      /\ 100 * share.staking - 71 * tax \in -200..200
      /\ 100 * share.carnage - 24 * tax \in -200..200
      /\ 100 * share.treasury - 5 * tax \in -200..200
  BY SplitIsFair
<1>2. l.fees \in [staking : Nat, carnage : Nat, treasury : Nat] /\ l.swaps \in Nat
  BY DEF Ledger
<1>3. /\ after.fees.staking = l.fees.staking + share.staking
      /\ after.fees.carnage = l.fees.carnage + share.carnage
      /\ after.fees.treasury = l.fees.treasury + share.treasury
      /\ after.swaps = l.swaps + 1
  <2>1. after = [l EXCEPT !.fees = [d \in DOMAIN @ |-> @[d] + share[d]], !.swaps = @ + 1]
    BY DEF CollectTax
  <2> HIDE DEF after, share
  <2>2. after.fees = [d \in DOMAIN l.fees |-> l.fees[d] + share[d]] /\ after.swaps = l.swaps + 1
    BY <2>1 DEF Ledger
  <2>3. DOMAIN l.fees = {"staking", "carnage", "treasury"}
    BY <1>2
  <2> QED BY <2>2, <2>3
<1> HIDE DEF after, share
<1>4. tax = share.staking + share.carnage + share.treasury
  BY <1>1
<1>5. l.fees.staking \in Nat /\ l.fees.carnage \in Nat /\ l.fees.treasury \in Nat
  BY <1>2
<1>6. FairShare(after.fees.staking, 71, after)
  BY <1>1, <1>2, <1>3, <1>5 DEF Fair, FairShare
<1>7. FairShare(after.fees.carnage, 24, after)
  BY <1>1, <1>2, <1>3, <1>5 DEF Fair, FairShare
<1>8. FairShare(after.fees.treasury, 5, after)
  BY <1>1, <1>2, <1>3, <1>5 DEF Fair, FairShare
<1> QED BY <1>6, <1>7, <1>8 DEF Fair, after

LEMMA FairByFees ==
  ASSUME NEW l, NEW m, l.fees = m.fees, l.swaps = m.swaps, Fair(l)
  PROVE  Fair(m)
BY DEF Fair, FairShare

LEMMA FailedKeeps ==
  ASSUME NEW l \in Ledger
  PROVE  /\ Failed(l) \in Ledger /\ ~Failed(l).ok
         /\ Failed(l).fees = l.fees /\ Failed(l).swaps = l.swaps
BY DEF Failed, Ledger

LEMMA PurchaseFair ==
  ASSUME NEW l \in Ledger, Fair(l), NEW t \in Faction, NEW amount \in Nat, NEW minimum \in Nat
  PROVE  Fair(swap_sol_buy(l, t, amount, minimum))
<1> DEFINE pool == l.pools[t]
           tax == calculate_tax(amount, l.taxes[t].buy)
           sol == amount - tax
           out == SwapOutput(sol, pool.sol, pool.token)
           paid == CollectTax(l, tax)
           new == [sol |-> pool.sol + sol, token |-> pool.token - out]
           purse == [l.wallet EXCEPT !["SOL"] = @ - tax, !["WSOL"] = @ - sol,
                                     ![t] = @ + out]
           after == swap_sol_buy(l, t, amount, minimum)
<1>1. tax \in Nat
  <2>1. l.taxes[t].buy \in 0..BPS_DENOMINATOR
    BY WalletNat
  <2> QED BY <2>1, TaxIsPart
<1>2. paid \in Ledger /\ Fair(paid)
  BY <1>1, CollectTaxAdds, CollectTaxFair
<1>3. \/ after = Failed(l)
      \/ after = [paid EXCEPT !.pools[t] = new, !.wallet = purse]
  <2>1. paid.pools = l.pools /\ paid.wallet = l.wallet
    BY <1>1, CollectTaxAdds
  <2> HIDE DEF paid
  <2> QED BY <2>1 DEF swap_sol_buy, paid
<1> HIDE DEF tax, paid, after, new, purse
<1>4. CASE after = Failed(l)
  BY <1>4, FailedKeeps, FairByFees DEF after
<1>5. CASE after = [paid EXCEPT !.pools[t] = new, !.wallet = purse]
  <2>1. after.fees = paid.fees /\ after.swaps = paid.swaps
    BY <1>2, <1>5 DEF Ledger
  <2> QED BY <1>2, <2>1, FairByFees, Zenon DEF after
<1> QED BY <1>3, <1>4, <1>5 DEF after

LEMMA SaleFair ==
  ASSUME NEW l \in Ledger, Fair(l), NEW t \in Faction, NEW amount \in Nat, NEW minimum \in Nat
  PROVE  Fair(swap_sol_sell(l, t, amount, minimum))
<1> DEFINE pool == l.pools[t]
           out == SwapOutput(amount, pool.token, pool.sol)
           tax == calculate_tax(out, l.taxes[t].sell)
           net == out - tax
           paid == CollectTax(l, tax)
           new == [sol |-> pool.sol - out, token |-> pool.token + amount]
           purse == [l.wallet EXCEPT ![t] = @ - amount, !["WSOL"] = @ + net]
           after == swap_sol_sell(l, t, amount, minimum)
<1>1. tax \in Nat
  <2>1. l.taxes[t].sell \in 0..BPS_DENOMINATOR /\ l.pools[t] \in Reserves
    BY WalletNat
  <2>2. out \in Nat
    BY <2>1, SwapOutputNat DEF Reserves
  <2> HIDE DEF out
  <2> QED BY <2>1, <2>2, TaxIsPart
<1>2. paid \in Ledger /\ Fair(paid)
  BY <1>1, CollectTaxAdds, CollectTaxFair
<1>3. \/ after = Failed(l)
      \/ after = [paid EXCEPT !.pools[t] = new, !.wallet = purse]
  <2>1. paid.pools = l.pools /\ paid.wallet = l.wallet
    BY <1>1, CollectTaxAdds
  <2> HIDE DEF paid
  <2> QED BY <2>1 DEF swap_sol_sell, paid
<1> HIDE DEF tax, paid, after, new, purse
<1>4. CASE after = Failed(l)
  BY <1>4, FailedKeeps, FairByFees DEF after
<1>5. CASE after = [paid EXCEPT !.pools[t] = new, !.wallet = purse]
  <2>1. after.fees = paid.fees /\ after.swaps = paid.swaps
    BY <1>2, <1>5 DEF Ledger
  <2> QED BY <1>2, <2>1, FairByFees, Zenon DEF after
<1> QED BY <1>3, <1>4, <1>5 DEF after

\* A conversion touches neither taxes nor wrapped SOL.
Untouched(l, m) ==
  /\ m \in Ledger /\ m.fees = l.fees /\ m.swaps = l.swaps
  /\ m.ok => m.wallet["WSOL"] = l.wallet["WSOL"]

LEMMA ConversionKeeps ==
  ASSUME NEW l \in Ledger, NEW x \in Token, NEW y \in Token, NEW amount \in Nat, NEW minimum \in Nat
  PROVE  Untouched(l, convert_v2(l, x, y, amount, minimum, 0))
<1> DEFINE given == EffectiveAmount(l.wallet[x], amount, 0)
           out == compute_output(x, y, given)
           coffer == [l.vault EXCEPT ![x] = @ + given, ![y] = @ - out]
           purse == [l.wallet EXCEPT ![x] = @ - given, ![y] = @ + out]
           after == convert_v2(l, x, y, amount, minimum, 0)
<1>1. l.wallet \in [Account -> Nat] /\ l.vault \in [Token -> Nat]
      /\ x \in Account /\ y \in Account /\ x # "WSOL" /\ y # "WSOL" /\ "WSOL" \in Account
  BY DEF Ledger, Account, Token, Faction
<1>2. given \in Nat
  BY <1>1 DEF EffectiveAmount
<1> HIDE DEF given
<1>3. out \in Nat /\ (out > 0 => x # y)
  <2>1. CONVERSION_RATE \in Nat \ {0}
    BY RateAssumption
  <2>2. given \div CONVERSION_RATE \in Nat /\ given * CONVERSION_RATE \in Nat
    BY <1>2, <2>1, DivNat, ProductNat
  <2>3. "PROFIT" \notin Faction
    BY DEF Faction
  <2> QED BY <2>2, <2>3 DEF compute_output
<1> HIDE DEF out
<1>4. \/ after = Failed(l)
      \/ /\ out > 0 /\ l.wallet[x] >= given /\ l.vault[y] >= out
         /\ after = [l EXCEPT !.vault[x] = @ + given, !.vault[y] = @ - out,
                              !.wallet[x] = @ - given, !.wallet[y] = @ + out]
  BY DEF convert_v2, given, out
<1> HIDE DEF after
<1>5. CASE after = Failed(l)
  BY <1>5, FailedKeeps DEF after, Untouched
<1>6. CASE /\ out > 0 /\ l.wallet[x] >= given /\ l.vault[y] >= out
           /\ after = [l EXCEPT !.vault[x] = @ + given, !.vault[y] = @ - out,
                                !.wallet[x] = @ - given, !.wallet[y] = @ + out]
  <2>1. after = [l EXCEPT !.vault = coffer, !.wallet = purse]
    BY <1>6 DEF Ledger
  <2>2. coffer \in [Token -> Nat] /\ purse \in [Account -> Nat] /\ purse["WSOL"] = l.wallet["WSOL"]
    BY <1>1, <1>2, <1>3, <1>6
  <2> HIDE DEF coffer, purse
  <2>3. after \in Ledger /\ after.fees = l.fees /\ after.swaps = l.swaps /\ after.wallet = purse
    BY <2>1, <2>2 DEF Ledger
  <2> QED BY <2>2, <2>3 DEF after, Untouched
<1> QED BY <1>4, <1>5, <1>6

LEMMA WrapKeeps ==
  ASSUME NEW l \in Ledger, NEW amount \in Nat
  PROVE  LET after == wrap(l, amount)
         IN  after \in Ledger /\ after.fees = l.fees /\ after.swaps = l.swaps
<1> DEFINE purse == [l.wallet EXCEPT !["SOL"] = @ - amount, !["WSOL"] = @ + amount]
           after == wrap(l, amount)
<1>1. l.wallet \in [Account -> Nat] /\ "SOL" \in Account /\ "WSOL" \in Account
  BY DEF Ledger, Account, Token
<1>2. \/ after = Failed(l)
      \/ /\ l.wallet["SOL"] >= amount
         /\ after = [l EXCEPT !.wallet["SOL"] = @ - amount, !.wallet["WSOL"] = @ + amount]
  BY DEF wrap
<1> HIDE DEF after
<1>3. CASE after = Failed(l)
  BY <1>3, FailedKeeps DEF after
<1>4. CASE /\ l.wallet["SOL"] >= amount
           /\ after = [l EXCEPT !.wallet["SOL"] = @ - amount, !.wallet["WSOL"] = @ + amount]
  <2>1. after = [l EXCEPT !.wallet = purse]
    BY <1>4 DEF Ledger
  <2>2. purse \in [Account -> Nat]
    BY <1>1, <1>4
  <2> HIDE DEF purse
  <2> QED BY <2>1, <2>2 DEF Ledger, after
<1> QED BY <1>2, <1>3, <1>4

LEMMA UnwrapKeeps ==
  ASSUME NEW l \in Ledger
  PROVE  LET after == unwrap(l)
         IN  /\ after \in Ledger /\ after.fees = l.fees /\ after.swaps = l.swaps
             /\ after.wallet["WSOL"] = 0
<1> DEFINE purse == [l.wallet EXCEPT !["SOL"] = @ + l.wallet["WSOL"], !["WSOL"] = 0]
           after == unwrap(l)
<1>1. l.wallet \in [Account -> Nat] /\ "SOL" \in Account /\ "WSOL" \in Account
  BY DEF Ledger, Account, Token
<1>2. after = [l EXCEPT !.wallet = purse]
  BY DEF unwrap, Ledger
<1>3. purse \in [Account -> Nat] /\ purse["WSOL"] = 0
  BY <1>1
<1> HIDE DEF purse, after
<1> QED BY <1>2, <1>3 DEF Ledger, after

\* Any instruction leaves a sound ledger and fair shares; only wrapping and swaps
\* leave more in the wrapped-SOL account, and closing it leaves nothing.
LEMMA ApplyKeeps ==
  ASSUME NEW l \in Ledger, Fair(l), NEW ix \in Instruction
  PROVE  LET after == Apply(l, ix)
         IN  /\ after \in Ledger /\ Fair(after)
             /\ ~l.ok => after = l
             /\ l.ok /\ ix.op = "unwrap" => after.wallet["WSOL"] = 0
             /\ l.ok /\ ix.op = "convert" /\ after.ok => after.wallet["WSOL"] = l.wallet["WSOL"]
<1>1. CASE ~l.ok
  <2>1. Apply(l, ix) = l
    BY <1>1 DEF Apply
  <2> QED BY <1>1, <2>1
<1>2. CASE l.ok /\ ix \in [op : {"wrap"}, amount : Nat]
  <2>1. ix.op = "wrap" /\ ix.amount \in Nat
    BY <1>2
  <2>2. Apply(l, ix) = wrap(l, ix.amount)
    BY <1>2, <2>1 DEF Apply
  <2>3. LET after == wrap(l, ix.amount)
        IN  after \in Ledger /\ after.fees = l.fees /\ after.swaps = l.swaps
    BY <2>1, WrapKeeps
  <2>4. Fair(wrap(l, ix.amount))
    BY <2>3, FairByFees, Zenon
  <2> QED BY <1>2, <2>1, <2>2, <2>3, <2>4
<1>3. CASE l.ok /\ ix \in [op : {"unwrap"}]
  <2>1. ix.op = "unwrap"
    BY <1>3
  <2>2. Apply(l, ix) = unwrap(l)
    BY <1>3, <2>1 DEF Apply
  <2>3. /\ unwrap(l) \in Ledger /\ unwrap(l).fees = l.fees /\ unwrap(l).swaps = l.swaps
        /\ unwrap(l).wallet["WSOL"] = 0
    BY UnwrapKeeps
  <2>4. Fair(unwrap(l))
    BY <2>3, FairByFees, Zenon
  <2> QED BY <1>3, <2>1, <2>2, <2>3, <2>4
<1>4. CASE l.ok /\ ix \in [op : {"buy"}, from : {"SOL"}, to : Faction, amount : Nat, minimum : Nat]
  <2>1. ix.op = "buy" /\ ix.to \in Faction /\ ix.amount \in Nat /\ ix.minimum \in Nat
    BY <1>4
  <2>2. Apply(l, ix) = swap_sol_buy(l, ix.to, ix.amount, ix.minimum)
    BY <1>4, <2>1 DEF Apply
  <2>3. swap_sol_buy(l, ix.to, ix.amount, ix.minimum) \in Ledger
    BY <2>1, PurchaseKeepsPool
  <2>4. Fair(swap_sol_buy(l, ix.to, ix.amount, ix.minimum))
    BY <2>1, PurchaseFair
  <2> QED BY <1>4, <2>1, <2>2, <2>3, <2>4
<1>5. CASE l.ok /\ ix \in [op : {"sell"}, from : Faction, to : {"SOL"}, amount : Nat, minimum : Nat]
  <2>1. ix.op = "sell" /\ ix.from \in Faction /\ ix.amount \in Nat /\ ix.minimum \in Nat
    BY <1>5
  <2>2. Apply(l, ix) = swap_sol_sell(l, ix.from, ix.amount, ix.minimum)
    BY <1>5, <2>1 DEF Apply
  <2>3. swap_sol_sell(l, ix.from, ix.amount, ix.minimum) \in Ledger
    BY <2>1, SaleKeepsPool
  <2>4. Fair(swap_sol_sell(l, ix.from, ix.amount, ix.minimum))
    BY <2>1, SaleFair
  <2> QED BY <1>5, <2>1, <2>2, <2>3, <2>4
<1>6. CASE l.ok /\ ix \in [op : {"convert"}, from : Token, to : Token, amount : Nat, minimum : Nat]
  <2>1. ix.op = "convert" /\ ix.from \in Token /\ ix.to \in Token /\ ix.amount \in Nat
        /\ ix.minimum \in Nat
    BY <1>6
  <2> DEFINE after == convert_v2(l, ix.from, ix.to, ix.amount, ix.minimum, 0)
  <2>2. Apply(l, ix) = after
    BY <1>6, <2>1 DEF Apply
  <2>3. /\ after \in Ledger /\ after.fees = l.fees /\ after.swaps = l.swaps
        /\ after.ok => after.wallet["WSOL"] = l.wallet["WSOL"]
    <3>1. Untouched(l, after)
      BY <2>1, ConversionKeeps, Zenon
    <3> HIDE DEF after
    <3> QED BY <3>1 DEF Untouched
  <2> HIDE DEF after
  <2>4. Fair(after)
    BY <2>3, FairByFees, Zenon
  <2> QED BY <1>6, <2>1, <2>2, <2>3, <2>4
<1> QED BY <1>1, <1>2, <1>3, <1>4, <1>5, <1>6 DEF Instruction

\* Every wrapping and every swap is followed by a closing of the wrapped-SOL
\* account.
Tidy(ixs) ==
  \A i \in 1..Len(ixs) : ixs[i].op \in {"wrap", "buy", "sell"} =>
    \E j \in i..Len(ixs) : ixs[j].op = "unwrap"

LEMMA StartKeeps ==
  ASSUME NEW l \in Ledger
  PROVE  /\ [l EXCEPT !.ok = TRUE] \in Ledger
         /\ [l EXCEPT !.ok = TRUE].wallet = l.wallet
         /\ [l EXCEPT !.ok = TRUE].fees = l.fees /\ [l EXCEPT !.ok = TRUE].swaps = l.swaps
BY DEF Ledger

\* A transaction leaves a sound ledger and fair shares.
LEMMA ExecuteKeeps ==
  ASSUME NEW l \in Ledger, Fair(l), NEW ixs \in Seq(Instruction)
  PROVE  Execute(l, ixs) \in Ledger /\ Fair(Execute(l, ixs))
<1> DEFINE Sound == {m \in Ledger : Fair(m)}
           G == [n \in 0..Len(ixs) |-> Sound]
<1>1. Len(ixs) \in Nat /\ \A n \in 1..Len(ixs) : ixs[n] \in Instruction
  OBVIOUS
<1>2. [l EXCEPT !.ok = TRUE] \in Sound
  BY StartKeeps, FairByFees, Zenon
<1>3. ASSUME NEW n \in 1..Len(ixs), NEW m \in Sound PROVE Apply(m, ixs[n]) \in Sound
  <2>1. m \in Ledger /\ Fair(m) /\ ixs[n] \in Instruction
    BY <1>1
  <2>2. Apply(m, ixs[n]) \in Ledger /\ Fair(Apply(m, ixs[n]))
    BY <2>1, ApplyKeeps, Zenon
  <2> QED BY <2>2
<1> HIDE DEF Sound
<1>4. G[0] = Sound /\ G[Len(ixs)] = Sound /\ \A n \in 1..Len(ixs) : G[n] = Sound /\ G[n - 1] = Sound
  BY <1>1
<1> HIDE DEF G
<1>5. [l EXCEPT !.ok = TRUE] \in G[0]
  BY <1>2, <1>4
<1>6. \A n \in 1..Len(ixs) : \A m \in G[n - 1] : Apply(m, ixs[n]) \in G[n]
  BY <1>3, <1>4
<1>7. Execute(l, ixs) \in G[Len(ixs)]
  BY <1>1, <1>5, <1>6, ExecuteEndsIn
<1> QED BY <1>4, <1>7 DEF Sound

\* A tidy one that succeeds leaves no wrapped SOL.
LEMMA TidyLeavesNone ==
  ASSUME NEW l \in Ledger, Fair(l), l.wallet["WSOL"] = 0,
         NEW ixs \in Seq(Instruction), Tidy(ixs), Execute(l, ixs).ok
  PROVE  Execute(l, ixs).wallet["WSOL"] = 0
<1> DEFINE Filled(n) == \E i \in 1..n : /\ ixs[i].op \in {"wrap", "buy", "sell"}
                                         /\ \A j \in i..n : ixs[j].op # "unwrap"
           Good(m, n) == m.ok => m.wallet["WSOL"] = 0 \/ Filled(n)
           G == [n \in 0..Len(ixs) |-> {m \in Ledger : Fair(m) /\ Good(m, n)}]
<1>1. Len(ixs) \in Nat /\ \A n \in 1..Len(ixs) : ixs[n] \in Instruction
  OBVIOUS
<1>2. [l EXCEPT !.ok = TRUE] \in G[0]
  <2>1. [l EXCEPT !.ok = TRUE] \in Ledger /\ [l EXCEPT !.ok = TRUE].wallet["WSOL"] = 0
    BY StartKeeps
  <2>2. Fair([l EXCEPT !.ok = TRUE])
    BY StartKeeps, FairByFees, Zenon
  <2> DEFINE start == [l EXCEPT !.ok = TRUE]
  <2> HIDE DEF start
  <2>3. start \in {m \in Ledger : Fair(m) /\ Good(m, 0)}
    <3>1. start \in Ledger /\ Fair(start) /\ start.wallet["WSOL"] = 0
      BY <2>1, <2>2 DEF start
    <3> QED BY <3>1
  <2>4. G[0] = {m \in Ledger : Fair(m) /\ Good(m, 0)}
    BY <1>1
  <2> QED BY <2>3, <2>4 DEF start
<1>3. ASSUME NEW n \in 1..Len(ixs), NEW m \in G[n - 1] PROVE Apply(m, ixs[n]) \in G[n]
  <2> DEFINE a == Apply(m, ixs[n])
  <2>1. n - 1 \in 0..Len(ixs) /\ n \in 0..Len(ixs) /\ n \in Nat
    BY <1>1
  <2>2. m \in Ledger /\ Fair(m) /\ Good(m, n - 1) /\ ixs[n] \in Instruction
    BY <1>1, <2>1
  <2>3. /\ a \in Ledger /\ Fair(a)
        /\ ~m.ok => a = m
        /\ m.ok /\ ixs[n].op = "unwrap" => a.wallet["WSOL"] = 0
        /\ m.ok /\ ixs[n].op = "convert" /\ a.ok => a.wallet["WSOL"] = m.wallet["WSOL"]
    BY <2>2, ApplyKeeps, Zenon
  <2>4. ixs[n].op \in {"wrap", "unwrap", "buy", "sell", "convert"}
    BY <2>2 DEF Instruction
  <2> HIDE DEF a
  <2>5. Good(a, n)
    <3> SUFFICES ASSUME a.ok PROVE a.wallet["WSOL"] = 0 \/ Filled(n)
      OBVIOUS
    <3>1. m.ok
      BY <2>3
    <3>2. CASE ixs[n].op = "unwrap"
      BY <2>3, <3>1, <3>2
    <3>3. CASE ixs[n].op \in {"wrap", "buy", "sell"}
      <4>1. n \in 1..n /\ \A j \in n..n : ixs[j].op # "unwrap"
        BY <2>1, <3>3
      <4> QED BY <3>3, <4>1
    <3>4. CASE ixs[n].op = "convert"
      <4>1. a.wallet["WSOL"] = m.wallet["WSOL"] /\ (m.wallet["WSOL"] = 0 \/ Filled(n - 1))
        BY <2>2, <2>3, <3>1, <3>4
      <4>2. Filled(n - 1) => Filled(n)
        <5> SUFFICES ASSUME NEW i \in 1..(n - 1), ixs[i].op \in {"wrap", "buy", "sell"},
                            \A j \in i..(n - 1) : ixs[j].op # "unwrap"
                     PROVE  Filled(n)
          OBVIOUS
        <5>1. i \in 1..n /\ \A j \in i..n : j \in i..(n - 1) \/ j = n
          BY <2>1
        <5>2. \A j \in i..n : ixs[j].op # "unwrap"
          BY <3>4, <5>1
        <5> QED BY <5>1, <5>2
      <4> QED BY <4>1, <4>2
    <3> QED BY <2>4, <3>2, <3>3, <3>4
  <2> HIDE DEF Good
  <2> QED BY <2>1, <2>3, <2>5 DEF a
<1>4. Execute(l, ixs) \in G[Len(ixs)]
  <2> HIDE DEF G
  <2> QED BY <1>1, <1>2, <1>3, ExecuteEndsIn
<1>5. Good(Execute(l, ixs), Len(ixs))
  <2> HIDE DEF Good
  <2> QED BY <1>1, <1>4
<1>6. ~Filled(Len(ixs))
  BY DEF Tidy
<1> QED BY <1>5, <1>6

--------------------------------------------------------------------------------
(* Routes. *)

LedgerView ==
  [pools : [Faction -> Reserves],
   taxes : [Faction -> [buy : 0..BPS_DENOMINATOR, sell : 0..BPS_DENOMINATOR]]]

Hop == {s \in [from : Token, to : Token, input : Nat, output : Nat, tax : 0..BPS_DENOMINATOR] :
          <<s.from, s.to>> \in ROUTE_GRAPH}

SinglePath(r) ==
  /\ r.split = 0
  /\ Len(r.steps) \in {1, 2}
  /\ Len(r.steps) = 1 => r.steps[1].from = r.from /\ r.steps[1].to = r.to

\* The two legs of a split, both from and to SOL and PROFIT over a faction's token.
SplitPath(r) ==
  /\ r.split # 0
  /\ Len(r.steps) = 4
  /\ "PROFIT" \in {r.from, r.to}
  /\ \A i \in {1, 3} : r.steps[i].from = r.from /\ r.steps[i].to \in Faction
  /\ \A i \in {2, 4} : r.steps[i].from \in Faction /\ r.steps[i].to = r.to

RouteOK(r) ==
  /\ r.steps \in Seq(Hop)
  /\ r.from \in Token /\ r.to \in Token
  /\ r.output \in Nat \ {0} /\ r.minimum \in 0..r.output
  /\ SinglePath(r) \/ SplitPath(r)

LEMMA RouteGraph ==
  /\ \A p \in ROUTE_GRAPH : p[1] \in Token /\ p[2] \in Token
  /\ \A a, b : <<a, b>> \in ROUTE_GRAPH =>
       /\ a \in Token /\ b \in Token
       /\ "PROFIT" \notin {a, b} =>
            \/ a = "SOL" /\ b \in Faction
            \/ a # "SOL" /\ a \in Faction /\ b = "SOL"
  /\ \A f \in Faction : <<"SOL", f>> \in ROUTE_GRAPH /\ <<f, "SOL">> \in ROUTE_GRAPH
                        /\ <<"PROFIT", f>> \in ROUTE_GRAPH /\ <<f, "PROFIT">> \in ROUTE_GRAPH
<1>1. \A f \in Faction : f # "SOL" /\ f # "PROFIT"
  BY DEF Faction
<1> QED BY <1>1 DEF ROUTE_GRAPH, Token

\* A part in ten thousand of a natural number is one, and at most that number.
LEMMA PartOf ==
  ASSUME NEW a \in Nat, NEW bps \in 0..BPS_DENOMINATOR
  PROVE  (a * bps) \div BPS_DENOMINATOR \in 0..a
<1>1. calculate_tax(a, bps) \in Nat /\ calculate_tax(a, bps) <= a
  BY TaxIsPart
<1> QED BY <1>1 DEF calculate_tax

LEMMA AfterSlippageNat ==
  ASSUME NEW a \in Nat, NEW bps \in 0..BPS_DENOMINATOR
  PROVE  AfterSlippage(a, bps) \in 0..a
<1>1. BPS_DENOMINATOR - bps \in 0..BPS_DENOMINATOR
  BY DEF BPS_DENOMINATOR
<1> QED BY <1>1, PartOf DEF AfterSlippage

LEMMA SwapQuoteNat ==
  ASSUME NEW x \in Nat \ {0}, NEW y \in Nat \ {0}, NEW amount \in Nat
  PROVE  calculateSwapOutput(x, y, calculateEffectiveInput(amount, SOL_POOL_FEE_BPS)) \in Nat
<1> DEFINE e == calculateEffectiveInput(amount, SOL_POOL_FEE_BPS)
<1>1. e \in Nat
  <2>1. BPS_DENOMINATOR - SOL_POOL_FEE_BPS \in 0..BPS_DENOMINATOR
    BY DEF BPS_DENOMINATOR, SOL_POOL_FEE_BPS
  <2> QED BY <2>1, PartOf DEF calculateEffectiveInput
<1> HIDE DEF e
<1>2. y * e \in Nat /\ x + e \in Nat \ {0}
  BY <1>1, ProductNat
<1>3. (y * e) \div (x + e) \in Nat
  BY <1>2, DivNat
<1>4. calculateSwapOutput(x, y, e) = (y * e) \div (x + e)
  BY <1>2 DEF calculateSwapOutput
<1> QED BY <1>3, <1>4 DEF e

\* What the application quotes is a natural number, of a step of the route graph.
LEMMA QuoteStepHop ==
  ASSUME NEW view \in LedgerView, NEW from, NEW to, <<from, to>> \in ROUTE_GRAPH,
         NEW amount \in Nat
  PROVE  /\ quoteStep(view, from, to, amount) \in Hop
         /\ quoteStep(view, from, to, amount).from = from
         /\ quoteStep(view, from, to, amount).to = to
<1> DEFINE step(tax, output) == [from |-> from, to |-> to, input |-> amount,
                                 output |-> output, tax |-> tax]
<1>1. from \in Token /\ to \in Token
  BY RouteGraph
<1>2. ASSUME NEW tax \in 0..BPS_DENOMINATOR, NEW output \in Nat
      PROVE  step(tax, output) \in Hop /\ step(tax, output).from = from /\ step(tax, output).to = to
  BY <1>1, <1>2 DEF Hop
<1>3. CASE "PROFIT" \in {from, to}
  <2>1. quoteStep(view, from, to, amount) = step(0, quoteVaultConvert(amount, from = "PROFIT"))
    BY <1>3 DEF quoteStep
  <2>2. quoteVaultConvert(amount, from = "PROFIT") \in Nat
    BY RateAssumption, DivNat, ProductNat DEF quoteVaultConvert
  <2>3. 0 \in 0..BPS_DENOMINATOR
    BY DEF BPS_DENOMINATOR
  <2> HIDE DEF step
  <2> QED BY <1>2, <2>1, <2>2, <2>3
<1>4. CASE "PROFIT" \notin {from, to} /\ from = "SOL"
  <2> DEFINE tax == view.taxes[to].buy
             net == amount - calculateTax(amount, tax)
             out == quoteSolBuy(amount, view.pools[to], tax)
  <2>1. to \in Faction
    BY <1>4, RouteGraph
  <2>2. /\ view.pools[to].sol \in Nat \ {0} /\ view.pools[to].token \in Nat \ {0}
        /\ tax \in 0..BPS_DENOMINATOR
    BY <2>1 DEF LedgerView, Reserves
  <2>3. net \in Nat
    <3> HIDE DEF tax
    <3>1. calculateTax(amount, tax) \in 0..amount
      BY <2>2, PartOf DEF calculateTax
    <3> QED BY <3>1
  <2>4. quoteStep(view, from, to, amount) = step(tax, out)
    BY <1>4 DEF quoteStep
  <2> HIDE DEF tax, net
  <2>5. out \in Nat
    BY <2>2, <2>3, SwapQuoteNat DEF quoteSolBuy, net
  <2> HIDE DEF step, out
  <2> QED BY <1>2, <2>2, <2>4, <2>5
<1>5. CASE "PROFIT" \notin {from, to} /\ from # "SOL"
  <2> DEFINE tax == view.taxes[from].sell
             gross == calculateSwapOutput(view.pools[from].token, view.pools[from].sol,
                        calculateEffectiveInput(amount, SOL_POOL_FEE_BPS))
             out == quoteSolSell(amount, view.pools[from], tax)
  <2>1. from \in Faction
    BY <1>5, RouteGraph
  <2>2. /\ view.pools[from].sol \in Nat \ {0} /\ view.pools[from].token \in Nat \ {0}
        /\ tax \in 0..BPS_DENOMINATOR
    BY <2>1 DEF LedgerView, Reserves
  <2>3. quoteStep(view, from, to, amount) = step(tax, out)
    BY <1>5 DEF quoteStep
  <2>4. gross \in Nat
    BY <2>2, SwapQuoteNat
  <2>5. out = gross - calculateTax(gross, tax)
    BY DEF quoteSolSell
  <2> HIDE DEF tax, gross, out
  <2>6. calculateTax(gross, tax) \in 0..gross
    BY <2>2, <2>4, PartOf DEF calculateTax
  <2>7. out \in Nat
    BY <2>4, <2>5, <2>6
  <2> HIDE DEF step
  <2> QED BY <1>2, <2>2, <2>3, <2>7
<1> QED BY <1>3, <1>4, <1>5

\* The steps of a path of the graph.
LEMMA QuoteStepsOne ==
  ASSUME NEW view \in LedgerView, NEW a, NEW b, <<a, b>> \in ROUTE_GRAPH, NEW amount \in Nat
  PROVE  LET steps == quoteSteps(view, <<a, b>>, amount)
         IN  /\ steps \in Seq(Hop) /\ Len(steps) = 1
             /\ steps[1].from = a /\ steps[1].to = b
<1> DEFINE s == quoteStep(view, a, b, amount)
<1>1. s \in Hop /\ s.from = a /\ s.to = b
  BY QuoteStepHop
<1>2. quoteSteps(view, <<a, b>>, amount) = <<s>>
  BY DEF quoteSteps
<1> HIDE DEF s
<1> QED BY <1>1, <1>2

TwoHops(steps, a, v, b) ==
  /\ steps \in Seq(Hop) /\ Len(steps) = 2
  /\ steps[1].from = a /\ steps[1].to = v /\ steps[2].from = v /\ steps[2].to = b

LEMMA QuoteStepsTwo ==
  ASSUME NEW view \in LedgerView, NEW a, NEW v, NEW b,
         <<a, v>> \in ROUTE_GRAPH, <<v, b>> \in ROUTE_GRAPH, NEW amount \in Nat
  PROVE  TwoHops(quoteSteps(view, <<a, v, b>>, amount), a, v, b)
<1> DEFINE s == quoteStep(view, a, v, amount)
           u == quoteStep(view, v, b, s.output)
<1>1. s \in Hop /\ s.from = a /\ s.to = v
  BY QuoteStepHop
<1>2. s.output \in Nat
  BY <1>1 DEF Hop
<1>3. quoteSteps(view, <<a, v, b>>, amount) = <<s, u>>
  BY DEF quoteSteps
<1>4. u \in Hop /\ u.from = v /\ u.to = b
  <2> DEFINE n == s.output
  <2>1. n \in Nat
    BY <1>2
  <2> HIDE DEF n
  <2>2. /\ quoteStep(view, v, b, n) \in Hop
        /\ quoteStep(view, v, b, n).from = v /\ quoteStep(view, v, b, n).to = b
    BY <2>1, QuoteStepHop
  <2> QED BY <2>2 DEF n
<1> HIDE DEF s, u
<1>5. <<s, u>> \in Seq(Hop) /\ Len(<<s, u>>) = 2 /\ <<s, u>>[1] = s /\ <<s, u>>[2] = u
  BY <1>1, <1>4
<1>6. TwoHops(<<s, u>>, a, v, b)
  BY <1>1, <1>4, <1>5 DEF TwoHops
<1> QED BY <1>3, <1>6, Zenon

\* A route without a split has output and goes from its first token to its last.
LEMMA RouteOfOK ==
  ASSUME NEW steps \in Seq(Hop), NEW from \in Token, NEW to \in Token, NEW amount,
         NEW output \in Nat \ {0}, NEW slippageBps \in 0..BPS_DENOMINATOR, NEW split,
         LET r == RouteOf(steps, from, to, amount, output, slippageBps, split)
         IN  SinglePath(r) \/ SplitPath(r)
  PROVE  LET r == RouteOf(steps, from, to, amount, output, slippageBps, split)
         IN  RouteOK(r) /\ r.from = from /\ r.to = to
<1> DEFINE r == RouteOf(steps, from, to, amount, output, slippageBps, split)
<1>1. /\ r.steps = steps /\ r.from = from /\ r.to = to /\ r.output = output
      /\ r.minimum = AfterSlippage(output, slippageBps)
  BY DEF RouteOf
<1>2. AfterSlippage(output, slippageBps) \in 0..output
  BY AfterSlippageNat
<1> HIDE DEF r
<1> QED BY <1>1, <1>2 DEF RouteOK, r

LEMMA SingleRoutesOK ==
  ASSUME NEW view \in LedgerView, NEW from \in Token, NEW to \in Token, NEW amount \in Nat,
         NEW slippageBps \in 0..BPS_DENOMINATOR,
         NEW r \in computeRoutes(view, from, to, amount, slippageBps)
  PROVE  RouteOK(r) /\ r.from = from /\ r.to = to
<1> DEFINE steps(path) == quoteSteps(view, path, amount)
           route(path) == RouteOf(steps(path), from, to, amount,
                                  steps(path)[Len(steps(path))].output, slippageBps, 0)
<1>1. PICK path \in enumeratePaths(from, to) : r = route(path)
  BY DEF computeRoutes
<1>2. \A i \in DOMAIN r.steps : r.steps[i].output > 0
  BY DEF computeRoutes
<1>3. PICK s : /\ s \in Seq(Hop) /\ Len(s) \in {1, 2}
               /\ Len(s) = 1 => s[1].from = from /\ s[1].to = to
               /\ s = quoteSteps(view, path, amount)
  <2>1. \/ path = <<from, to>> /\ <<from, to>> \in ROUTE_GRAPH
        \/ \E v : /\ path = <<from, v, to>>
                  /\ <<from, v>> \in ROUTE_GRAPH /\ <<v, to>> \in ROUTE_GRAPH
    BY <1>1 DEF enumeratePaths
  <2>2. CASE path = <<from, to>> /\ <<from, to>> \in ROUTE_GRAPH
    BY <2>2, QuoteStepsOne
  <2>3. CASE \E v : /\ path = <<from, v, to>>
                    /\ <<from, v>> \in ROUTE_GRAPH /\ <<v, to>> \in ROUTE_GRAPH
    <3>1. PICK v : /\ path = <<from, v, to>>
                   /\ <<from, v>> \in ROUTE_GRAPH /\ <<v, to>> \in ROUTE_GRAPH
      BY <2>3
    <3> DEFINE q == quoteSteps(view, path, amount)
    <3>2. TwoHops(q, from, v, to)
      BY <3>1, QuoteStepsTwo, Zenon
    <3> HIDE DEF q
    <3>3. /\ q \in Seq(Hop) /\ Len(q) \in {1, 2}
          /\ Len(q) = 1 => q[1].from = from /\ q[1].to = to
      BY <3>2 DEF TwoHops
    <3> QED BY <3>3, Zenon DEF q
  <2> QED BY <2>1, <2>2, <2>3
<1>4. /\ r.steps = s /\ r.split = 0 /\ r.from = from /\ r.to = to
      /\ r = RouteOf(s, from, to, amount, s[Len(s)].output, slippageBps, 0)
  BY <1>1, <1>3 DEF RouteOf
<1> HIDE DEF steps, route
<1> DEFINE n == Len(s)
<1>5. s[n].output \in Nat \ {0}
  <2>1. n \in DOMAIN s /\ s[n] \in Hop
    BY <1>3
  <2>2. s[n].output > 0 /\ s[n].output \in Nat
    BY <1>2, <1>4, <2>1 DEF Hop
  <2> QED BY <2>2
<1>6. SinglePath(r)
  BY <1>3, <1>4 DEF SinglePath
<1> HIDE DEF n
<1> QED BY <1>3, <1>4, <1>5, <1>6, RouteOfOK DEF n

\* A finite set of natural numbers has a greatest one.
LEMMA FiniteMaximum ==
  ASSUME NEW S, IsFiniteSet(S), S \subseteq Nat, S # {}
  PROVE  Max(S) \in S /\ \A y \in S : Max(S) >= y
<1> DEFINE Q == {s \in SUBSET S : s # {} => \E x \in s : \A y \in s : x >= y}
<1>1. {} \in Q
  OBVIOUS
<1>2. ASSUME NEW s \in SUBSET S, NEW x \in S \ s, s \in Q PROVE s \union {x} \in Q
  <2> SUFFICES \E m \in s \union {x} : \A y \in s \union {x} : m >= y
    OBVIOUS
  <2>1. CASE s = {}
    BY <2>1
  <2>2. CASE s # {}
    <3>1. PICK m \in s : \A y \in s : m >= y
      BY <1>2, <2>2
    <3>2. m \in Nat /\ x \in Nat /\ \A y \in s : y \in Nat
      OBVIOUS
    <3>3. CASE m >= x
      BY <3>1, <3>3
    <3>4. CASE x > m
      BY <3>1, <3>2, <3>4
    <3> QED BY <3>2, <3>3, <3>4
  <2> QED BY <2>1, <2>2
<1>3. S \in Q
  <2> HIDE DEF Q
  <2> QED BY <1>1, <1>2, SubsetInduction
<1> QED BY <1>3 DEF Max

LEMMA FiveFinite ==
  ASSUME NEW a, NEW b, NEW c, NEW d, NEW e
  PROVE  IsFiniteSet({a, b, c, d, e})
<1>1. IsFiniteSet({a})
  BY FS_Singleton
<1>2. IsFiniteSet({a} \union {b})
  BY <1>1, FS_AddElement
<1>3. IsFiniteSet(({a} \union {b}) \union {c})
  BY <1>2, FS_AddElement
<1>4. IsFiniteSet((({a} \union {b}) \union {c}) \union {d})
  BY <1>3, FS_AddElement
<1>5. IsFiniteSet(((({a} \union {b}) \union {c}) \union {d}) \union {e})
  BY <1>4, FS_AddElement
<1>6. ((({a} \union {b}) \union {c}) \union {d}) \union {e} = {a, b, c, d, e}
  OBVIOUS
<1> QED BY <1>5, <1>6

LEMMA OutputsFinite ==
  ASSUME NEW view, NEW from, NEW to, NEW amount, NEW slippageBps
  PROVE  IsFiniteSet({r.output : r \in computeRoutes(view, from, to, amount, slippageBps)})
<1> DEFINE outputs == {r.output : r \in computeRoutes(view, from, to, amount, slippageBps)}
           last(path) == LET s == quoteSteps(view, path, amount) IN s[Len(s)].output
           five == {last(<<from, to>>), last(<<from, "CRIME", to>>), last(<<from, "FRAUD", to>>),
                    last(<<from, "SOL", to>>), last(<<from, "PROFIT", to>>)}
<1>1. \A path \in enumeratePaths(from, to) : last(path) \in five
  <2>1. \A path \in enumeratePaths(from, to) :
          path = <<from, to>> \/ \E v \in Token : path = <<from, v, to>>
    BY DEF enumeratePaths
  <2>2. \A v \in Token : v \in {"CRIME", "FRAUD", "SOL", "PROFIT"}
    BY DEF Token, Faction
  <2> HIDE DEF last
  <2> QED BY <2>1, <2>2
<1>2. \A r \in computeRoutes(view, from, to, amount, slippageBps) :
        \E path \in enumeratePaths(from, to) : r.output = last(path)
  BY DEF computeRoutes, RouteOf
<1>3. IsFiniteSet(five)
  <2> HIDE DEF last
  <2> QED BY FiveFinite
<1>4. outputs \in SUBSET five
  <2> HIDE DEF last, five
  <2> QED BY <1>1, <1>2
<1> HIDE DEF five, outputs
<1>5. IsFiniteSet(outputs)
  BY <1>3, <1>4, FS_Subset
<1> QED BY <1>5 DEF outputs

\* A ratio is chosen only if it brings something.
LEMMA SplitGains ==
  ASSUME NEW view \in LedgerView, NEW from \in Token, NEW to \in Token, NEW amount \in Nat,
         NEW slippageBps \in 0..BPS_DENOMINATOR,
         NEW p \in computeOptimalSplit(view, from, to, amount, slippageBps),
         SplitOutput(view, from, to, amount, p) \in Nat
  PROVE  p \in 1..99 /\ SplitOutput(view, from, to, amount, p) \in Nat \ {0}
<1> DEFINE single == {r.output : r \in computeRoutes(view, from, to, amount, slippageBps)}
           out == SplitOutput(view, from, to, amount, p)
           m == Max(single)
<1>1. /\ p \in SPLIT_RATIOS /\ single # {}
      /\ GainBps(out, m) >= SPLIT_THRESHOLD_BPS
  BY DEF computeOptimalSplit
<1>2. single \subseteq Nat \ {0}
  BY SingleRoutesOK DEF RouteOK
<1>3. IsFiniteSet(single)
  BY OutputsFinite
<1> HIDE DEF single, out
<1>4. m \in Nat \ {0}
  BY <1>1, <1>2, <1>3, FiniteMaximum
<1> HIDE DEF m
<1> DEFINE a == (out - m) * BPS_DENOMINATOR
<1>5. out \in Nat /\ a \in Int /\ (out < m => a < 0)
  BY <1>4 DEF out, BPS_DENOMINATOR
<1>6. a \div m >= 0
  BY <1>1, <1>4, <1>5, DivInt, RatioAssumption DEF GainBps
<1>7. out >= m
  <2> HIDE DEF a
  <2> SUFFICES ASSUME a < 0 PROVE FALSE
    BY <1>4, <1>5
  <2>1. a \div m \in Nat /\ m * (a \div m) <= a
    BY <1>4, <1>5, <1>6, DivInt
  <2>2. m * (a \div m) \in Nat
    BY <1>4, <2>1, ProductNat
  <2> QED BY <1>5, <2>1, <2>2
<1> QED BY <1>1, <1>4, <1>5, <1>7, RatioAssumption DEF out

LEMMA SplitStepsFour ==
  ASSUME NEW view \in LedgerView, NEW from, NEW to, isSplitEligible(from, to),
         NEW amount \in Nat, NEW p \in 1..99
  PROVE  \E a, b : /\ SplitSteps(view, from, to, amount, p) = a \o b
                   /\ TwoHops(a, from, "CRIME", to) /\ TwoHops(b, from, "FRAUD", to)
<1> DEFINE inputA == (amount * p) \div 100
           inputB == amount - inputA
           a == quoteSteps(view, <<from, "CRIME", to>>, inputA)
           b == quoteSteps(view, <<from, "FRAUD", to>>, inputB)
<1>1. inputA \in Nat /\ inputB \in Nat
  <2>1. amount * p \in Nat /\ amount * p <= 100 * amount
    <3>1. amount * (100 - p) \in Nat
      BY ProductNat
    <3>2. amount * p \in Nat /\ amount * (100 - p) = 100 * amount - amount * p
      BY ProductNat
    <3> QED BY <3>1, <3>2
  <2> DEFINE product == amount * p
  <2> HIDE DEF product
  <2>2. product \div 100 \in Nat /\ product \div 100 <= amount
    BY <2>1 DEF product
  <2> QED BY <2>2 DEF product
<1>2. \A f \in {"CRIME", "FRAUD"} : <<from, f>> \in ROUTE_GRAPH /\ <<f, to>> \in ROUTE_GRAPH
  BY RouteGraph DEF isSplitEligible, Faction
<1> HIDE DEF inputA, inputB
<1>3. TwoHops(a, from, "CRIME", to) /\ TwoHops(b, from, "FRAUD", to)
  BY <1>1, <1>2, QuoteStepsTwo, Zenon
<1>4. SplitSteps(view, from, to, amount, p) = a \o b
  BY DEF SplitSteps, inputA, inputB
<1> QED BY <1>3, <1>4, Zenon

Four(S, a, b, s) ==
  /\ s \in Seq(S) /\ Len(s) = 4 /\ \A i \in 1..4 : s[i] \in S
  /\ s[1] = a[1] /\ s[2] = a[2] /\ s[3] = b[1] /\ s[4] = b[2]

LEMMA JoinedPairs ==
  ASSUME NEW S, NEW a \in Seq(S), NEW b \in Seq(S), Len(a) = 2, Len(b) = 2, NEW s, s = a \o b
  PROVE  Four(S, a, b, s)
<1>1. /\ s \in Seq(S) /\ Len(s) = Len(a) + Len(b)
      /\ \A i \in 1..Len(a) : s[i] = a[i] /\ a[i] \in S
      /\ \A i \in 1..Len(b) : s[Len(a) + i] = b[i] /\ b[i] \in S
  <2>1. Join(S, a, b, s)
    BY Joined, Zenon
  <2> QED BY <2>1, Zenon DEF Join
<1>2. s[1] = a[1] /\ s[2] = a[2] /\ s[2 + 1] = b[1] /\ s[2 + 2] = b[2]
  <2>1. 1 \in 1..2 /\ 2 \in 1..2
    OBVIOUS
  <2> QED BY <1>1, <2>1, Zenon
<1>3. s[1] \in S /\ s[2] \in S /\ s[3] \in S /\ s[4] \in S
  BY <1>1, <1>2
<1>4. \A i \in 1..4 : i = 1 \/ i = 2 \/ i = 3 \/ i = 4
  OBVIOUS
<1> QED BY <1>1, <1>2, <1>3, <1>4 DEF Four

LEMMA SplitRouteOK ==
  ASSUME NEW view \in LedgerView, NEW from \in Token, NEW to \in Token,
         isSplitEligible(from, to), NEW amount \in Nat, NEW slippageBps \in 0..BPS_DENOMINATOR,
         NEW p \in computeOptimalSplit(view, from, to, amount, slippageBps)
  PROVE  LET r == buildSplitRoute(view, from, to, amount, p, slippageBps)
         IN  RouteOK(r) /\ r.from = from /\ r.to = to
<1> DEFINE out == SplitOutput(view, from, to, amount, p)
<1>1. p \in 1..99
  BY RatioAssumption DEF computeOptimalSplit
<1>2. PICK a, b : /\ SplitSteps(view, from, to, amount, p) = a \o b
                  /\ TwoHops(a, from, "CRIME", to) /\ TwoHops(b, from, "FRAUD", to)
  BY <1>1, SplitStepsFour, Zenon
<1>3. PICK steps : steps = SplitSteps(view, from, to, amount, p)
  OBVIOUS
<1> DEFINE r == RouteOf(steps, from, to, amount, out, slippageBps, p)
<1>4. Four(Hop, a, b, steps)
  <2>1. a \in Seq(Hop) /\ Len(a) = 2 /\ b \in Seq(Hop) /\ Len(b) = 2
    BY <1>2 DEF TwoHops
  <2>2. steps = a \o b
    BY <1>2, <1>3
  <2> QED BY <2>1, <2>2, JoinedPairs, Zenon
<1>5. out \in Nat
  <2>1. steps[2] \in Hop /\ steps[4] \in Hop
    BY <1>4 DEF Four
  <2>2. steps[2].output \in Nat /\ steps[4].output \in Nat
    BY <2>1 DEF Hop
  <2> QED BY <1>3, <2>2 DEF SplitOutput
<1> HIDE DEF out
<1>6. out \in Nat \ {0}
  BY <1>5, SplitGains DEF out
<1>7. SplitPath(r)
  <2>1. r.steps = steps /\ r.from = from /\ r.to = to /\ r.split = p
    BY DEF RouteOf
  <2>2. /\ steps[1].from = from /\ steps[1].to \in Faction
        /\ steps[2].from \in Faction /\ steps[2].to = to
        /\ steps[3].from = from /\ steps[3].to \in Faction
        /\ steps[4].from \in Faction /\ steps[4].to = to
    BY <1>2, <1>4 DEF TwoHops, Faction, Four
  <2>3. Len(steps) = 4 /\ p # 0 /\ "PROFIT" \in {from, to}
    BY <1>1, <1>4 DEF Four, isSplitEligible
  <2> HIDE DEF r
  <2> QED BY <2>1, <2>2, <2>3 DEF SplitPath
<1>8. RouteOK(r) /\ r.from = from /\ r.to = to
  BY <1>4, <1>6, <1>7, RouteOfOK DEF Four
<1>9. buildSplitRoute(view, from, to, amount, p, slippageBps) = r
  BY <1>3 DEF buildSplitRoute, out
<1> HIDE DEF r
<1> QED BY <1>8, <1>9

\* Every route the application computes is sound.
LEMMA RoutesOK ==
  ASSUME NEW view \in LedgerView, NEW from \in Token, NEW to \in Token, NEW amount \in Nat,
         NEW slippageBps \in 0..BPS_DENOMINATOR,
         NEW r \in AllRoutes(view, from, to, amount, slippageBps)
  PROVE  RouteOK(r) /\ r.from = from /\ r.to = to
<1>1. CASE r \in computeRoutes(view, from, to, amount, slippageBps)
  BY <1>1, SingleRoutesOK
<1>2. CASE r \notin computeRoutes(view, from, to, amount, slippageBps)
  <2>1. /\ isSplitEligible(from, to)
        /\ \E p \in computeOptimalSplit(view, from, to, amount, slippageBps) :
             r = buildSplitRoute(view, from, to, amount, p, slippageBps)
    BY <1>2 DEF AllRoutes
  <2> QED BY <2>1, SplitRouteOK
<1> QED BY <1>1, <1>2

\* The form selects one of them, or none.
LEMMA SelectedRoute ==
  ASSUME NEW routes, NEW previous, NEW r \in selectedRoutes(routes, previous)
  PROVE  r \in routes \/ r = NoRoute
BY DEF selectedRoutes, Best

--------------------------------------------------------------------------------
(* Instructions. *)

\* What a step becomes: instructions the programs take, every opening of the
\* wrapped-SOL account followed by its closing.
Sound(ixs) == ixs \in Seq(Instruction) /\ Tidy(ixs)

LEMMA StepSound ==
  ASSUME NEW from, NEW to, <<from, to>> \in ROUTE_GRAPH, NEW amount \in Nat,
         NEW minimum \in Nat, NEW taxBps \in 0..BPS_DENOMINATOR, NEW isMultiHopStep \in BOOLEAN
  PROVE  Sound(buildStepTransaction(from, to, amount, minimum, taxBps, isMultiHopStep))
<1> DEFINE ixs == buildStepTransaction(from, to, amount, minimum, taxBps, isMultiHopStep)
           net == amount - calculateTax(amount, taxBps)
<1>1. net \in Nat
  <2>1. calculateTax(amount, taxBps) \in 0..amount
    BY PartOf DEF calculateTax
  <2> QED BY <2>1
<1>2. unwrapIx \in Instruction /\ unwrapIx.op = "unwrap"
  BY DEF unwrapIx, Instruction
<1> HIDE DEF net
<1>3. CASE "PROFIT" \in {from, to}
  <2> DEFINE n == IF isMultiHopStep THEN 0 ELSE amount
             c == stepIx("convert", from, to, n, minimum)
  <2>1. from \in Token /\ to \in Token
    BY RouteGraph
  <2>2. n \in Nat
    OBVIOUS
  <2>3. ixs = <<c>>
    BY <1>3 DEF buildStepTransaction, buildVaultConvertTransaction
  <2> HIDE DEF ixs, n
  <2>4. c \in Instruction /\ c.op = "convert"
    BY <2>1, <2>2 DEF stepIx, Instruction
  <2> HIDE DEF c
  <2>5. <<c>> \in Seq(Instruction) /\ Tidy(<<c>>)
    BY <2>4 DEF Tidy
  <2> QED BY <2>3, <2>5 DEF Sound, ixs
<1>4. CASE "PROFIT" \notin {from, to} /\ from = "SOL"
  <2> DEFINE w == wrapIx(net)
             b == stepIx("buy", "SOL", to, amount, minimum)
             u == unwrapIx
  <2>1. to \in Faction
    BY <1>4, RouteGraph
  <2>2. ixs = <<w, b, u>>
    BY <1>4 DEF buildStepTransaction, buildSolBuyTransaction, net
  <2>3. w \in Instruction
    BY <1>1 DEF wrapIx, Instruction
  <2>4. b \in Instruction
    BY <2>1 DEF stepIx, Instruction
  <2> HIDE DEF ixs, w, b
  <2>5. u \in Instruction /\ u.op = "unwrap"
    BY <1>2
  <2> HIDE DEF u
  <2>6. <<w, b, u>> \in Seq(Instruction) /\ Tidy(<<w, b, u>>)
    BY <2>3, <2>4, <2>5 DEF Tidy
  <2> QED BY <2>2, <2>6 DEF Sound, ixs
<1>5. CASE "PROFIT" \notin {from, to} /\ from # "SOL"
  <2> DEFINE b == stepIx("sell", from, "SOL", amount, minimum)
             u == unwrapIx
  <2>1. from \in Faction
    BY <1>5, RouteGraph
  <2>2. ixs = <<b, u>>
    BY <1>5 DEF buildStepTransaction, buildSolSellTransaction
  <2>3. b \in Instruction
    BY <2>1 DEF stepIx, Instruction
  <2> HIDE DEF ixs, b
  <2>4. u \in Instruction /\ u.op = "unwrap"
    BY <1>2
  <2> HIDE DEF u
  <2>5. <<b, u>> \in Seq(Instruction) /\ Tidy(<<b, u>>)
    BY <2>3, <2>4 DEF Tidy
  <2> QED BY <2>2, <2>5 DEF Sound, ixs
<1> QED BY <1>3, <1>4, <1>5

LEMMA JoinSound ==
  ASSUME NEW a, Sound(a), NEW b, Sound(b)
  PROVE  Sound(a \o b)
<1> DEFINE s == a \o b
<1>1. Join(Instruction, a, b, s)
  BY Joined, Zenon DEF Sound
<1>2. Tidy(a) /\ Tidy(b)
  BY DEF Sound
<1> HIDE DEF s
<1>3. ASSUME NEW i \in 1..Len(s), s[i].op \in {"wrap", "buy", "sell"}
      PROVE  \E j \in i..Len(s) : s[j].op = "unwrap"
  <2>1. CASE i \in 1..Len(a)
    <3>1. a[i].op \in {"wrap", "buy", "sell"}
      BY <1>1, <1>3, <2>1 DEF Join
    <3>2. PICK j \in i..Len(a) : a[j].op = "unwrap"
      BY <1>2, <2>1, <3>1 DEF Tidy
    <3>3. j \in 1..Len(a) /\ j \in i..Len(s)
      BY <1>1, <2>1 DEF Join
    <3>4. s[j].op = "unwrap"
      BY <1>1, <3>2, <3>3 DEF Join
    <3> QED BY <3>3, <3>4
  <2>2. CASE i \notin 1..Len(a)
    <3> DEFINE k == i - Len(a)
    <3>1. k \in 1..Len(b) /\ Len(a) + k = i
      BY <1>1, <2>2 DEF Join
    <3>2. b[k].op \in {"wrap", "buy", "sell"}
      BY <1>1, <1>3, <3>1 DEF Join
    <3>3. PICK j \in k..Len(b) : b[j].op = "unwrap"
      BY <1>2, <3>1, <3>2 DEF Tidy
    <3>4. j \in 1..Len(b) /\ Len(a) + j \in i..Len(s)
      BY <1>1, <3>1 DEF Join
    <3>5. s[Len(a) + j].op = "unwrap"
      BY <1>1, <3>3, <3>4 DEF Join
    <3> QED BY <3>4, <3>5
  <2> QED BY <2>1, <2>2
<1>4. s \in Seq(Instruction) /\ Tidy(s)
  BY <1>1, <1>3 DEF Join, Tidy
<1> QED BY <1>4 DEF Sound, s

\* Sound parts make a sound whole.
LEMMA FlattenSound ==
  ASSUME NEW parts, Len(parts) \in Nat \ {0}, \A i \in 1..Len(parts) : Sound(parts[i])
  PROVE  Sound(FlattenSeq(parts))
<1>1. PICK run : FlattenRun(parts, run)
  BY FlattenRuns, Zenon
<1> DEFINE P == {m \in Nat : m + 1 <= Len(parts) => Sound(run[m + 1])}
<1>2. 0 \in P
  BY <1>1 DEF FlattenRun
<1>3. ASSUME NEW m \in Nat, m \in P PROVE m + 1 \in P
  <2> SUFFICES ASSUME (m + 1) + 1 <= Len(parts) PROVE Sound(run[(m + 1) + 1])
    OBVIOUS
  <2> DEFINE n == (m + 1) + 1
  <2>1. n \in 2..Len(parts) /\ n \in 1..Len(parts) /\ n - 1 = m + 1 /\ m + 1 <= Len(parts)
    OBVIOUS
  <2>2. run[n] = run[m + 1] \o parts[n]
    BY <1>1, <2>1 DEF FlattenRun
  <2>3. Sound(run[m + 1]) /\ Sound(parts[n])
    BY <1>3, <2>1
  <2> HIDE DEF n
  <2>4. Sound(run[m + 1] \o parts[n])
    BY <2>3, JoinSound
  <2> QED BY <2>2, <2>4 DEF n
<1>4. Nat \subseteq P
  <2> HIDE DEF P
  <2> QED BY <1>2, <1>3, NatSetInduction
<1>5. Sound(run[Len(parts)])
  <2>1. Len(parts) - 1 \in Nat /\ (Len(parts) - 1) + 1 = Len(parts)
    OBVIOUS
  <2> QED BY <1>4, <2>1
<1> QED BY <1>1, <1>5 DEF FlattenRun

\* The place of i among the members of a set of numbers.
Rank(kept, i) == Cardinality({j \in kept : j <= i})

LEMMA RankBounds ==
  ASSUME NEW L \in Nat, NEW kept, kept \subseteq 1..L
  PROVE  /\ IsFiniteSet(kept) /\ Cardinality(kept) \in Nat
         /\ \A i \in kept : Rank(kept, i) \in 1..Cardinality(kept)
         /\ \A i, j \in kept : i <= j => Rank(kept, i) <= Rank(kept, j)
         /\ \A i, j \in kept : Rank(kept, i) = Rank(kept, j) => i = j
<1> DEFINE upto(i) == {j \in kept : j <= i}
<1>0. \A j \in kept : j \in Nat /\ 1 <= j /\ j <= L
  OBVIOUS
<1>1. IsFiniteSet(kept)
  <2>1. IsFiniteSet(1..L)
    BY FS_Interval
  <2> QED BY <2>1, FS_Subset
<1>2. Cardinality(kept) \in Nat
  BY <1>1, FS_CardinalityType
<1>3. ASSUME NEW i \in kept
      PROVE  IsFiniteSet(upto(i)) /\ Rank(kept, i) \in Nat /\ Rank(kept, i) <= Cardinality(kept)
  <2>1. upto(i) \in SUBSET kept
    OBVIOUS
  <2>2. Rank(kept, i) = Cardinality(upto(i))
    BY DEF Rank
  <2> HIDE DEF upto
  <2> QED BY <1>1, <2>1, <2>2, FS_Subset, FS_CardinalityType
<1>4. ASSUME NEW i \in kept PROVE Rank(kept, i) # 0
  <2>1. i \in upto(i)
    OBVIOUS
  <2>2. Rank(kept, i) = Cardinality(upto(i))
    BY DEF Rank
  <2> HIDE DEF upto
  <2> QED BY <1>3, <2>1, <2>2, FS_EmptySet
<1>5. ASSUME NEW i \in kept, NEW j \in kept, i <= j
      PROVE  /\ Rank(kept, i) <= Rank(kept, j)
             /\ Rank(kept, i) = Rank(kept, j) => upto(i) = upto(j)
  <2>1. upto(i) \in SUBSET upto(j)
    <3>1. \A k \in kept : k <= i => k <= j
      BY <1>0, <1>5
    <3> QED BY <3>1
  <2>2. Rank(kept, i) = Cardinality(upto(i)) /\ Rank(kept, j) = Cardinality(upto(j))
    BY DEF Rank
  <2>3. IsFiniteSet(upto(j))
    BY <1>3
  <2> HIDE DEF upto
  <2> QED BY <2>1, <2>2, <2>3, FS_Subset
<1>6. ASSUME NEW i \in kept, NEW j \in kept, Rank(kept, i) = Rank(kept, j), i <= j PROVE i = j
  <2>1. j \in upto(j) /\ upto(i) = upto(j)
    BY <1>5, <1>6
  <2>2. j <= i
    BY <2>1
  <2> QED BY <1>6, <2>2
<1>7. ASSUME NEW i \in kept, NEW j \in kept, Rank(kept, i) = Rank(kept, j) PROVE i = j
  <2>1. i <= j \/ j <= i
    OBVIOUS
  <2> QED BY <1>6, <1>7, <2>1
<1>8. ASSUME NEW i \in kept PROVE Rank(kept, i) \in 1..Cardinality(kept)
  <2>1. Rank(kept, i) \in Nat /\ Rank(kept, i) <= Cardinality(kept) /\ Rank(kept, i) # 0
    BY <1>3, <1>4
  <2> QED BY <1>2, <2>1
<1> QED BY <1>1, <1>2, <1>5, <1>7, <1>8

\* Every place is someone's.
LEMMA RankReached ==
  ASSUME NEW L \in Nat, NEW kept, kept \subseteq 1..L, NEW n \in 1..Cardinality(kept)
  PROVE  \E i \in kept : Rank(kept, i) = n
<1> DEFINE upto(i) == {j \in kept : j <= i}
           Reached(m) == \A k \in 1..Cardinality(upto(m)) : \E i \in kept : Rank(kept, i) = k
           Q == {m \in Nat : Reached(m)}
<1>0. IsFiniteSet(kept) /\ \A j \in kept : j \in Nat /\ 1 <= j /\ j <= L
  <2>1. IsFiniteSet(1..L)
    BY FS_Interval
  <2>2. IsFiniteSet(kept)
    BY <2>1, FS_Subset
  <2> QED BY <2>2
<1>1. 0 \in Q
  <2>1. upto(0) = {}
    <3>1. \A j \in kept : ~ (j <= 0)
      BY <1>0
    <3> QED BY <3>1
  <2>2. Cardinality(upto(0)) = 0
    BY <2>1, FS_EmptySet
  <2> QED BY <2>2
<1>2. ASSUME NEW m \in Nat, m \in Q PROVE m + 1 \in Q
  <2>1. CASE m + 1 \notin kept
    <3>1. upto(m + 1) = upto(m)
      <4>1. \A j \in kept : j <= m + 1 <=> j <= m
        BY <1>0, <2>1
      <4> QED BY <4>1
    <3> HIDE DEF upto
    <3> QED BY <1>2, <3>1
  <2>2. CASE m + 1 \in kept
    <3>1. upto(m + 1) = upto(m) \cup {m + 1} /\ m + 1 \notin upto(m) /\ upto(m) \in SUBSET kept
      <4>1. \A j \in kept : j <= m + 1 <=> j <= m \/ j = m + 1
        BY <1>0
      <4>2. ~ (m + 1 <= m) /\ m + 1 <= m + 1
        OBVIOUS
      <4> QED BY <2>2, <4>1, <4>2
    <3>2. Rank(kept, m + 1) = Cardinality(upto(m + 1))
      BY DEF Rank
    <3> HIDE DEF upto
    <3>3. IsFiniteSet(upto(m))
      BY <1>0, <3>1, FS_Subset
    <3>4. Cardinality(upto(m + 1)) = Cardinality(upto(m)) + 1
      BY <3>1, <3>3, FS_AddElement
    <3>5. Cardinality(upto(m)) \in Nat
      BY <3>3, FS_CardinalityType
    <3>6. ASSUME NEW k \in 1..Cardinality(upto(m + 1)) PROVE \E i \in kept : Rank(kept, i) = k
      <4>1. k \in 1..Cardinality(upto(m)) \/ k = Cardinality(upto(m)) + 1
        BY <3>4, <3>5
      <4> QED BY <1>2, <2>2, <3>2, <3>4, <4>1
    <3> QED BY <3>6
  <2> QED BY <2>1, <2>2
<1>3. Nat \subseteq Q
  <2> HIDE DEF Q
  <2> QED BY <1>1, <1>2, NatSetInduction
<1>4. upto(L) = kept
  BY <1>0
<1>5. Reached(L)
  <2> HIDE DEF Reached
  <2> QED BY <1>3
<1> HIDE DEF upto
<1> QED BY <1>4, <1>5

\* Dropping all closings but the last leaves a sound transaction sound.
LEMMA AtomicSound ==
  ASSUME NEW ixs, Sound(ixs)
  PROVE  Sound(processInstructionsForAtomic(ixs))
<1> DEFINE len == Len(ixs)
           closes == {i \in DOMAIN ixs : ixs[i].op = "unwrap"}
           kept == {i \in DOMAIN ixs : i \in closes => \A j \in closes : j <= i}
           size == Cardinality(kept)
           at(n) == CHOOSE i \in kept : Rank(kept, i) = n
           result == [n \in 1..size |-> ixs[at(n)]]
<1>1. /\ ixs \in Seq(Instruction) /\ len \in Nat /\ DOMAIN ixs = 1..len
      /\ \A i \in 1..len : ixs[i] \in Instruction
  BY DEF Sound
<1>2. processInstructionsForAtomic(ixs) = result
  BY DEF processInstructionsForAtomic, Rank
<1>3. kept \subseteq 1..len
  BY <1>1
<1>4. size \in Nat
  <2> HIDE DEF kept
  <2> QED BY <1>1, <1>3, RankBounds
<1>5. \A n \in 1..size : at(n) \in kept /\ Rank(kept, at(n)) = n
  <2> HIDE DEF kept
  <2>1. \A n \in 1..size : \E i \in kept : Rank(kept, i) = n
    BY <1>1, <1>3, RankReached
  <2> QED BY <2>1
<1>6. result \in Seq(Instruction) /\ Len(result) = size
  <2>1. \A n \in 1..size : ixs[at(n)] \in Instruction
    <3> HIDE DEF kept, at, size
    <3> QED BY <1>1, <1>3, <1>5
  <2> HIDE DEF kept, at, size
  <2> QED BY <1>4, <2>1
<1>7. ASSUME NEW n \in 1..size, result[n].op \in {"wrap", "buy", "sell"}
      PROVE  \E m \in n..size : result[m].op = "unwrap"
  <2> DEFINE i == at(n)
  <2>1. i \in kept /\ Rank(kept, i) = n /\ result[n] = ixs[i] /\ i \in 1..len
    <3> HIDE DEF kept, at, size
    <3> QED BY <1>3, <1>5
  <2>2. PICK j \in i..len : ixs[j].op = "unwrap"
    BY <1>7, <2>1 DEF Sound, Tidy
  <2>3. j \in closes /\ IsFiniteSet(closes) /\ closes \subseteq Nat /\ closes \subseteq 1..len
    <3>1. j \in 1..len
      BY <2>1
    <3>2. closes \in SUBSET (1..len)
      BY <1>1
    <3>3. IsFiniteSet(1..len)
      BY <1>1, FS_Interval
    <3>4. j \in closes
      BY <1>1, <2>2, <3>1
    <3> HIDE DEF closes
    <3>5. IsFiniteSet(closes)
      BY <3>2, <3>3, FS_Subset
    <3>6. closes \subseteq 1..len /\ closes \subseteq Nat
      BY <3>2
    <3> QED BY <3>4, <3>5, <3>6
  <2> DEFINE last == Max(closes)
  <2>4. last \in closes /\ \A k \in closes : k <= last
    <3> HIDE DEF closes
    <3> QED BY <2>3, FiniteMaximum
  <2>5. last \in kept /\ ixs[last].op = "unwrap" /\ i <= last
    <3> HIDE DEF last
    <3>1. last \in kept /\ ixs[last].op = "unwrap"
      BY <2>4
    <3>2. j <= last /\ last \in Nat
      BY <2>3, <2>4
    <3> QED BY <2>1, <3>1, <3>2
  <2> DEFINE m == Rank(kept, last)
  <2> HIDE DEF kept, last, closes, result, at, size
  <2>6. m \in 1..size /\ n <= m
    <3>1. /\ \A k \in kept : Rank(kept, k) \in 1..Cardinality(kept)
          /\ \A k, l \in kept : k <= l => Rank(kept, k) <= Rank(kept, l)
      BY <1>1, <1>3, RankBounds
    <3> QED BY <2>1, <2>5, <3>1 DEF size
  <2>7. at(m) = last
    <3>1. at(m) \in kept /\ Rank(kept, at(m)) = Rank(kept, last)
      BY <1>5, <2>6
    <3> QED BY <1>1, <1>3, <2>5, <3>1, RankBounds
  <2>8. result[m] = ixs[last]
    BY <2>6, <2>7 DEF result
  <2> HIDE DEF m
  <2> QED BY <2>5, <2>6, <2>8
<1>8. Tidy(result)
  <2> HIDE DEF result
  <2> QED BY <1>6, <1>7 DEF Tidy
<1> QED BY <1>2, <1>6, <1>8 DEF Sound

\* The slippage worked back from a route is one.
LEMMA SlippageOf ==
  ASSUME NEW output \in Nat \ {0}, NEW minimum \in 0..output
  PROVE  ((output - minimum) * BPS_DENOMINATOR) \div output \in 0..BPS_DENOMINATOR
<1> DEFINE x == (output - minimum) * BPS_DENOMINATOR
           q == x \div output
           k == q - (BPS_DENOMINATOR + 1)
<1>1. x \in Nat /\ x <= output * BPS_DENOMINATOR
  BY DEF BPS_DENOMINATOR
<1> HIDE DEF x
<1>2. q \in Nat /\ output * q <= x
  BY <1>1, DivNat, DivBounds
<1> HIDE DEF q
<1>3. q <= BPS_DENOMINATOR
  <2> SUFFICES ASSUME k \in Nat PROVE FALSE
    BY <1>2 DEF BPS_DENOMINATOR
  <2>1. q = BPS_DENOMINATOR + 1 + k
    BY <1>2 DEF BPS_DENOMINATOR
  <2> HIDE DEF k
  <2>2. output * q = output * BPS_DENOMINATOR + output + output * k
    BY <2>1 DEF BPS_DENOMINATOR
  <2>3. output * k \in Nat /\ output * BPS_DENOMINATOR \in Nat
    BY ProductNat DEF BPS_DENOMINATOR
  <2> QED BY <1>1, <1>2, <2>2, <2>3
<1>4. q \in 0..BPS_DENOMINATOR
  BY <1>2, <1>3 DEF BPS_DENOMINATOR
<1> QED BY <1>4 DEF q, x

\* What is sent of a sound route is sound.
LEMMA AtomicRouteSound ==
  ASSUME NEW r, RouteOK(r)
  PROVE  Sound(buildAtomicRoute(r))
<1> DEFINE slippageBps == ((r.output - r.minimum) * BPS_DENOMINATOR) \div r.output
           minimum(i) == AfterSlippage(r.steps[i].output, slippageBps)
           input(i) == IF FirstInLeg(r, i) THEN r.steps[i].input
                       ELSE IF IsVault(r.steps[i - 1]) THEN r.steps[i - 1].output
                       ELSE minimum(i - 1)
           part(i) == buildStepTransaction(r.steps[i].from, r.steps[i].to, input(i), minimum(i),
                                           r.steps[i].tax, ~FirstInLeg(r, i))
           parts == [i \in DOMAIN r.steps |-> part(i)]
           n == Len(r.steps)
<1>1. /\ r.steps \in Seq(Hop) /\ n \in Nat \ {0} /\ DOMAIN r.steps = 1..n
      /\ \A i \in 1..n : r.steps[i] \in Hop
  <2>1. r.steps \in Seq(Hop)
    BY DEF RouteOK
  <2>2. n # 0
    BY DEF RouteOK, SinglePath, SplitPath
  <2> QED BY <2>1, <2>2, Elements
<1>2. \A i \in 1..n : /\ r.steps[i].input \in Nat /\ r.steps[i].output \in Nat
                      /\ r.steps[i].tax \in 0..BPS_DENOMINATOR
                      /\ <<r.steps[i].from, r.steps[i].to>> \in ROUTE_GRAPH
  BY <1>1 DEF Hop
<1>3. slippageBps \in 0..BPS_DENOMINATOR
  BY SlippageOf DEF RouteOK
<1> HIDE DEF slippageBps, n
<1>4. \A i \in 1..n : minimum(i) \in Nat
  <2> TAKE i \in 1..n
  <2>1. AfterSlippage(r.steps[i].output, slippageBps) \in 0..r.steps[i].output
    BY <1>2, <1>3, AfterSlippageNat
  <2> QED BY <1>2, <2>1
<1> HIDE DEF minimum
<1>5. \A i \in 1..n : input(i) \in Nat
  <2> TAKE i \in 1..n
  <2>1. CASE FirstInLeg(r, i)
    BY <1>2, <2>1
  <2>2. CASE ~FirstInLeg(r, i)
    <3>1. i # 1
      BY <2>2 DEF FirstInLeg
    <3>2. i - 1 \in 1..n
      BY <1>1, <3>1
    <3>3. r.steps[i - 1].output \in Nat /\ minimum(i - 1) \in Nat
      BY <1>2, <1>4, <3>2
    <3> QED BY <2>2, <3>3
  <2> QED BY <2>1, <2>2
<1> HIDE DEF input
<1>6. \A i \in 1..n : Sound(part(i))
  <2> TAKE i \in 1..n
  <2> DEFINE multi == ~FirstInLeg(r, i)
  <2>1. multi \in BOOLEAN
    OBVIOUS
  <2> HIDE DEF multi
  <2>2. /\ input(i) \in Nat /\ minimum(i) \in Nat /\ r.steps[i].tax \in 0..BPS_DENOMINATOR
        /\ <<r.steps[i].from, r.steps[i].to>> \in ROUTE_GRAPH
    BY <1>2, <1>4, <1>5
  <2>3. Sound(buildStepTransaction(r.steps[i].from, r.steps[i].to, input(i), minimum(i),
                                   r.steps[i].tax, multi))
    BY <2>1, <2>2, StepSound, Zenon
  <2> QED BY <2>3 DEF multi
<1>7. Len(parts) = n /\ \A i \in 1..n : parts[i] = part(i)
  <2> HIDE DEF part
  <2> QED BY <1>1
<1>8. buildAtomicRoute(r) = processInstructionsForAtomic(FlattenSeq(parts))
  BY DEF buildAtomicRoute, slippageBps, minimum, input
<1> HIDE DEF part, parts
<1>9. Len(parts) \in Nat \ {0} /\ \A i \in 1..Len(parts) : Sound(parts[i])
  BY <1>1, <1>6, <1>7
<1> QED BY <1>8, <1>9, FlattenSound, AtomicSound

LEMMA FloorNat ==
  ASSUME NEW x \in Nat, NEW y \in Nat, NEW a \in Nat
  PROVE  calculate_output_floor(x, y, a) \in Nat
<1>1. CASE x = 0 \/ y = 0 \/ a = 0
  BY <1>1 DEF calculate_output_floor
<1>2. CASE ~ (x = 0 \/ y = 0 \/ a = 0)
  <2> DEFINE q == (y * a) \div (x + a)
  <2>1. q \in Nat
    BY <1>2, ProductNat, DivNat
  <2>2. calculate_output_floor(x, y, a) = (q * MINIMUM_OUTPUT_FLOOR_BPS) \div BPS_DENOMINATOR
    BY <1>2 DEF calculate_output_floor
  <2> HIDE DEF q
  <2> QED BY <2>1, <2>2 DEF MINIMUM_OUTPUT_FLOOR_BPS, BPS_DENOMINATOR
<1> QED BY <1>1, <1>2

--------------------------------------------------------------------------------
(* The inductive invariant: the ledger is sound, has shared its taxes fairly    *)
(* and holds no wrapped SOL; what the form shows is a sound route, for the pair *)
(* it shows if there is a quote; and what is under way is tidy.                 *)

FormOK ==
  /\ form = [from |-> form.from, to |-> form.to, amount |-> form.amount,
             route |-> form.route, quote |-> form.quote, status |-> form.status]
  /\ form.from \in Token /\ form.to \in Token /\ form.amount \in Nat
  /\ form.route # NoRoute => RouteOK(form.route)
  /\ form.quote # NoQuote =>
       /\ form.quote \in Nat
       /\ form.route # NoRoute /\ form.route.from = form.from /\ form.route.to = form.to

LedgerOK == ledger \in Ledger /\ Fair(ledger) /\ NoSolStaysWrapped

OrdersOK == \A order \in inflight : Sound(order.instructions)

TradingInv == LedgerOK /\ seen \in LedgerView /\ FormOK /\ OrdersOK

LEMMA FairIsFair == Fair(ledger) <=> TaxSharesAreFair
BY DEF Fair, FairShare, TaxSharesAreFair, Near

LEMMA EpochTaxesTyped ==
  ASSUME NEW t \in Faction
  PROVE  EpochTaxes(t) \in [Faction -> [buy : 0..BPS_DENOMINATOR, sell : 0..BPS_DENOMINATOR]]
BY TradingAssumption DEF EpochTaxes

LEMMA TradingInit == Init => TradingInv
<1> SUFFICES ASSUME Init PROVE TradingInv
  OBVIOUS
<1>1. EpochTaxes("CRIME") \in [Faction -> [buy : 0..BPS_DENOMINATOR, sell : 0..BPS_DENOMINATOR]]
  BY EpochTaxesTyped DEF Faction
<1>2. /\ ledger.pools = Pools /\ ledger.taxes = EpochTaxes("CRIME") /\ ledger.wallet = Holdings
      /\ ledger.fees.staking = 0 /\ ledger.fees.carnage = 0 /\ ledger.fees.treasury = 0
      /\ ledger.swaps = 0
  BY DEF Init
<1>3. Pools \in [Faction -> Reserves]
  BY TradingAssumption DEF Reserves
<1>4. ledger \in Ledger
  BY <1>1, <1>3, TradingAssumption DEF Init, Ledger
<1>5. Fair(ledger)
  BY <1>2 DEF Fair, FairShare
<1>6. NoSolStaysWrapped
  BY <1>2, TradingAssumption DEF NoSolStaysWrapped
<1>7. seen \in LedgerView
  <2>1. seen = [pools |-> ledger.pools, taxes |-> ledger.taxes]
    BY DEF Init, View
  <2> QED BY <1>1, <1>2, <1>3, <2>1 DEF LedgerView
<1>8. FormOK
  <2>1. PICK p \in Pairs : form = Cleared(p[1], p[2], NoRoute)
    BY DEF Init
  <2>2. p[1] \in Token /\ p[2] \in Token
    BY TradingAssumption
  <2> QED BY <2>1, <2>2 DEF FormOK, Cleared
<1>9. OrdersOK
  BY DEF Init, OrdersOK
<1> QED BY <1>4, <1>5, <1>6, <1>7, <1>8, <1>9 DEF TradingInv, LedgerOK

\* The form.
LEMMA FormStep ==
  ASSUME TradingInv,
         \/ \E a \in Amounts[form.from] : setInputAmount(a)
         \/ \E p \in Pairs : setTokens(p[1], p[2])
         \/ computeAllRoutes
         \/ selectRoute
         \/ pollTransactionConfirmation
         \/ resetForm
  PROVE  FormOK' /\ UNCHANGED <<ledger, seen, inflight>>
<1> USE DEF TradingInv
<1>0. SlippageBps \in 0..BPS_DENOMINATOR
  BY TradingAssumption
<1>1. ASSUME NEW r, RouteOK(r) PROVE r # NoRoute
  BY <1>1 DEF RouteOK, NoRoute, RouteOf
<1>2. ASSUME NEW a \in Amounts[form.from], setInputAmount(a) PROVE FormOK'
  <2>1. a \in Nat
    BY TradingAssumption DEF FormOK
  <2> QED BY <1>2, <2>1 DEF setInputAmount, FormOK
<1>3. ASSUME NEW p \in Pairs, setTokens(p[1], p[2]) PROVE FormOK'
  <2>1. p[1] \in Token /\ p[2] \in Token
    BY TradingAssumption
  <2> QED BY <1>3, <2>1 DEF setTokens, FormOK, Cleared
<1>4. ASSUME computeAllRoutes PROVE FormOK'
  <2> DEFINE routes == AllRoutes(seen, form.from, form.to, form.amount, SlippageBps)
  <2>1. PICK r \in selectedRoutes(routes, form.route) :
          form' = [form EXCEPT !.route = r, !.quote = IF r = NoRoute THEN NoQuote ELSE r.minimum]
    BY <1>4 DEF computeAllRoutes
  <2>2. r # NoRoute => r \in routes
    <3> HIDE DEF routes
    <3> QED BY SelectedRoute
  <2>3. r # NoRoute => RouteOK(r) /\ r.from = form.from /\ r.to = form.to
    BY <1>0, <2>2, RoutesOK DEF FormOK
  <2>4. r # NoRoute => r.minimum \in Nat
    BY <2>3 DEF RouteOK
  <2> HIDE DEF routes
  <2> QED BY <2>1, <2>3, <2>4 DEF FormOK
<1>5. ASSUME selectRoute PROVE FormOK'
  <2>1. PICK r \in AllRoutes(seen, form.from, form.to, form.amount, SlippageBps) :
          form' = [form EXCEPT !.route = r, !.quote = r.minimum]
    BY <1>5 DEF selectRoute
  <2>2. RouteOK(r) /\ r.from = form.from /\ r.to = form.to /\ r # NoRoute
    BY <1>0, <1>1, RoutesOK DEF FormOK
  <2>3. r.minimum \in Nat
    BY <2>2 DEF RouteOK
  <2> QED BY <2>1, <2>2, <2>3 DEF FormOK
<1>6. ASSUME pollTransactionConfirmation PROVE FormOK'
  BY <1>6 DEF pollTransactionConfirmation, FormOK
<1>7. ASSUME resetForm PROVE FormOK'
  BY <1>7 DEF resetForm, FormOK, Cleared
<1>8. UNCHANGED <<ledger, seen, inflight>>
  BY DEF setInputAmount, setTokens, computeAllRoutes, selectRoute,
         pollTransactionConfirmation, resetForm
<1> QED BY <1>2, <1>3, <1>4, <1>5, <1>6, <1>7, <1>8

LEMMA SendStep == TradingInv /\ Send => FormOK' /\ OrdersOK' /\ UNCHANGED <<ledger, seen>>
<1> SUFFICES ASSUME TradingInv, Send PROVE FormOK' /\ OrdersOK' /\ UNCHANGED <<ledger, seen>>
  OBVIOUS
<1> USE DEF TradingInv
<1>1. FormOK'
  BY DEF Send, FormOK
<1>2. CanSend(form) /\ form.route # NoRoute /\ RouteOK(form.route)
  BY DEF Send, CanSend, FormOK
<1>3. Sound(Order(form).instructions)
  <2>1. CASE IsDirect(form.route)
    <3> DEFINE from == form.from
               to == form.to
               taxBps == IF from = "SOL" THEN seen.taxes[to].buy ELSE 0
    <3>1. form.quote \in Nat /\ form.amount \in Nat
          /\ form.route.from = from /\ form.route.to = to
      BY <1>2, <2>1 DEF CanSend, FormOK
    <3>2. <<from, to>> \in ROUTE_GRAPH
      <4>1. form.route.steps[1].from = from /\ form.route.steps[1].to = to
        BY <1>2, <2>1, <3>1 DEF RouteOK, SinglePath, SplitPath, IsDirect
      <4>2. form.route.steps[1] \in Hop
        <5>1. form.route.steps \in Seq(Hop) /\ Len(form.route.steps) = 1
          BY <1>2, <2>1 DEF RouteOK, IsDirect
        <5> QED BY <5>1, Elements
      <4> QED BY <4>1, <4>2 DEF Hop
    <3>3. taxBps \in 0..BPS_DENOMINATOR
      <4>1. CASE from = "SOL"
        <5>1. to \in Faction
          BY <3>2, <4>1 DEF ROUTE_GRAPH, Faction
        <5> QED BY <4>1, <5>1 DEF LedgerView
      <4>2. CASE from # "SOL"
        BY <4>2 DEF BPS_DENOMINATOR
      <4> QED BY <4>1, <4>2
    <3>4. Order(form).instructions
            = buildStepTransaction(from, to, form.amount, form.quote, taxBps, FALSE)
      BY <2>1 DEF Order, executeSwap
    <3> HIDE DEF from, to, taxBps
    <3> QED BY <3>1, <3>2, <3>3, <3>4, StepSound
  <2>2. CASE ~IsDirect(form.route)
    <3>1. Order(form).instructions = buildAtomicRoute(form.route)
      BY <2>2 DEF Order, executeRoute
    <3> QED BY <1>2, <3>1, AtomicRouteSound
  <2> QED BY <2>1, <2>2
<1>4. OrdersOK'
  <2>1. inflight' = inflight \cup {Order(form)}
    BY DEF Send
  <2> QED BY <1>3, <2>1 DEF OrdersOK
<1> QED BY <1>1, <1>4 DEF Send

LEMMA LandStep == TradingInv /\ Land => LedgerOK' /\ OrdersOK' /\ UNCHANGED <<seen, form>>
<1> SUFFICES ASSUME TradingInv, Land PROVE LedgerOK' /\ OrdersOK' /\ UNCHANGED <<seen, form>>
  OBVIOUS
<1> USE DEF TradingInv
<1>1. PICK order \in inflight :
        LET after == Execute(ledger, order.instructions)
        IN  /\ ledger' = IF after.ok THEN after ELSE ledger
            /\ inflight' = inflight \ {order}
            /\ UNCHANGED <<seen, form>>
  BY DEF Land
<1> DEFINE after == Execute(ledger, order.instructions)
<1>2. order.instructions \in Seq(Instruction) /\ Tidy(order.instructions)
  BY DEF OrdersOK, Sound
<1>3. after \in Ledger /\ Fair(after)
  BY <1>2, ExecuteKeeps DEF LedgerOK
<1>4. after.ok => after.wallet["WSOL"] = 0
  BY <1>2, TidyLeavesNone DEF LedgerOK, NoSolStaysWrapped
<1>5. ledger' = IF after.ok THEN after ELSE ledger
  BY <1>1
<1> HIDE DEF after
<1>6. LedgerOK'
  <2>1. CASE after.ok
    BY <1>3, <1>4, <1>5, <2>1 DEF LedgerOK, NoSolStaysWrapped
  <2>2. CASE ~after.ok
    BY <1>5, <2>2 DEF LedgerOK, NoSolStaysWrapped
  <2> QED BY <2>1, <2>2
<1> QED BY <1>1, <1>6 DEF OrdersOK

LEMMA RivalStep == TradingInv /\ RivalTrade => LedgerOK' /\ UNCHANGED <<seen, form, inflight>>
<1> SUFFICES ASSUME TradingInv, RivalTrade PROVE LedgerOK' /\ UNCHANGED <<seen, form, inflight>>
  OBVIOUS
<1> USE DEF TradingInv
<1> DEFINE before == [ledger EXCEPT !.wallet = [a \in Account |-> RivalAmount]]
<1>1. PICK trade \in RivalTrades :
        LET after == Execute(before, <<RivalInstruction(trade[1], trade[2])>>)
        IN  ledger' = [after EXCEPT !.wallet = ledger.wallet]
  BY DEF RivalTrade
<1> DEFINE ix == RivalInstruction(trade[1], trade[2])
           after == Execute(before, <<ix>>)
<1>2. RivalAmount \in Nat /\ trade[1] \in Faction /\ trade[2] \in BOOLEAN
  BY TradingAssumption
<1>3. before \in Ledger /\ Fair(before)
  <2>1. before \in Ledger /\ before.fees = ledger.fees /\ before.swaps = ledger.swaps
    BY <1>2 DEF LedgerOK, Ledger
  <2>2. Fair(ledger)
    BY DEF LedgerOK
  <2> HIDE DEF before
  <2>3. Fair(before)
    BY <2>1, <2>2, FairByFees, Zenon
  <2> QED BY <2>1, <2>3
<1>4. ix \in Instruction
  <2> DEFINE t == trade[1]
             pool == ledger.pools[t]
             sol == RivalAmount - calculate_tax(RivalAmount, ledger.taxes[t].buy)
             bought == calculate_output_floor(pool.sol, pool.token, sol)
             sold == calculate_output_floor(pool.token, pool.sol, RivalAmount)
  <2>1. pool \in Reserves /\ ledger.taxes[t].buy \in 0..BPS_DENOMINATOR
    BY <1>2, WalletNat DEF LedgerOK
  <2>2. sol \in Nat
    <3>1. calculate_tax(RivalAmount, ledger.taxes[t].buy) \in Nat
          /\ calculate_tax(RivalAmount, ledger.taxes[t].buy) <= RivalAmount
      BY <1>2, <2>1, TaxIsPart
    <3> QED BY <1>2, <3>1
  <2> HIDE DEF sol
  <2>3. bought \in Nat /\ sold \in Nat
    BY <1>2, <2>1, <2>2, FloorNat DEF Reserves
  <2>4. ix = IF trade[2] THEN stepIx("buy", "SOL", t, RivalAmount, bought)
                         ELSE stepIx("sell", t, "SOL", RivalAmount, sold)
    BY DEF RivalInstruction, sol
  <2> HIDE DEF bought, sold, ix
  <2> QED BY <1>2, <2>3, <2>4 DEF stepIx, Instruction
<1> HIDE DEF ix, before
<1>5. <<ix>> \in Seq(Instruction)
  BY <1>4
<1>6. after \in Ledger /\ Fair(after)
  BY <1>3, <1>5, ExecuteKeeps
<1>7. ledger' = [after EXCEPT !.wallet = ledger.wallet]
  BY <1>1 DEF ix
<1> HIDE DEF after
<1>8. /\ ledger' \in Ledger /\ ledger'.fees = after.fees /\ ledger'.swaps = after.swaps
      /\ ledger'.wallet = ledger.wallet
  BY <1>6, <1>7 DEF LedgerOK, Ledger
<1>9. Fair(ledger')
  BY <1>6, <1>8, FairByFees, Zenon
<1>10. LedgerOK'
  BY <1>8, <1>9 DEF LedgerOK, NoSolStaysWrapped
<1> QED BY <1>10 DEF RivalTrade

LEMMA EpochStep == TradingInv /\ NewEpoch => LedgerOK' /\ UNCHANGED <<seen, form, inflight>>
<1> SUFFICES ASSUME TradingInv, NewEpoch PROVE LedgerOK' /\ UNCHANGED <<seen, form, inflight>>
  OBVIOUS
<1> USE DEF TradingInv
<1>1. PICK t \in Faction : ledger' = [ledger EXCEPT !.taxes = EpochTaxes(t)]
  BY DEF NewEpoch
<1>2. EpochTaxes(t) \in [Faction -> [buy : 0..BPS_DENOMINATOR, sell : 0..BPS_DENOMINATOR]]
  BY EpochTaxesTyped
<1>3. /\ ledger' \in Ledger /\ ledger'.fees = ledger.fees /\ ledger'.swaps = ledger.swaps
      /\ ledger'.wallet = ledger.wallet
  BY <1>1, <1>2 DEF LedgerOK, Ledger
<1>4. Fair(ledger')
  BY <1>3, FairByFees, Zenon DEF LedgerOK
<1> QED BY <1>3, <1>4 DEF LedgerOK, NoSolStaysWrapped, NewEpoch

LEMMA TradingStep == TradingInv /\ [Next]_vars => TradingInv'
<1> SUFFICES ASSUME TradingInv, [Next]_vars PROVE TradingInv'
  OBVIOUS
<1>0. ASSUME UNCHANGED <<ledger, seen, form, inflight>> PROVE TradingInv'
  BY <1>0 DEF TradingInv, LedgerOK, NoSolStaysWrapped, FormOK, OrdersOK
<1>1. CASE \/ \E a \in Amounts[form.from] : setInputAmount(a)
           \/ \E p \in Pairs : setTokens(p[1], p[2])
           \/ computeAllRoutes \/ selectRoute \/ pollTransactionConfirmation \/ resetForm
  <2>1. FormOK' /\ UNCHANGED <<ledger, seen, inflight>>
    BY <1>1, FormStep
  <2> QED BY <2>1 DEF TradingInv, LedgerOK, NoSolStaysWrapped, OrdersOK
<1>2. CASE Observe
  <2>1. View(ledger) \in LedgerView
    BY DEF TradingInv, LedgerOK, Ledger, View, LedgerView
  <2> QED BY <1>2, <2>1 DEF Observe, TradingInv, LedgerOK, NoSolStaysWrapped, FormOK, OrdersOK
<1>3. CASE Send
  <2>1. FormOK' /\ OrdersOK' /\ UNCHANGED <<ledger, seen>>
    BY <1>3, SendStep
  <2> QED BY <2>1 DEF TradingInv, LedgerOK, NoSolStaysWrapped
<1>4. CASE Land
  <2>1. LedgerOK' /\ OrdersOK' /\ UNCHANGED <<seen, form>>
    BY <1>4, LandStep
  <2> QED BY <2>1 DEF TradingInv, FormOK
<1>5. CASE Expire
  BY <1>5 DEF Expire, TradingInv, LedgerOK, NoSolStaysWrapped, FormOK, OrdersOK
<1>6. CASE RivalTrade
  <2>1. LedgerOK' /\ UNCHANGED <<seen, form, inflight>>
    BY <1>6, RivalStep
  <2> QED BY <2>1 DEF TradingInv, FormOK, OrdersOK
<1>7. CASE NewEpoch
  <2>1. LedgerOK' /\ UNCHANGED <<seen, form, inflight>>
    BY <1>7, EpochStep
  <2> QED BY <2>1 DEF TradingInv, FormOK, OrdersOK
<1>8. CASE UNCHANGED vars
  BY <1>0, <1>8 DEF vars
<1> QED BY <1>1, <1>2, <1>3, <1>4, <1>5, <1>6, <1>7, <1>8 DEF Next

LEMMA TradingAlways == Spec => []TradingInv
<1>1. Init => TradingInv
  BY TradingInit
<1>2. TradingInv /\ [Next]_vars => TradingInv'
  BY TradingStep
<1> QED BY <1>1, <1>2, PTL DEF Spec

\* However trades, rates and late transactions interleave, staking, the carnage
\* fund and the treasury have 71, 24 and 5 percent of all the tax, to within two
\* lamports a swap (split_distribution).
THEOREM TaxesAlwaysSharedFairly == Spec => []TaxSharesAreFair
<1>1. TradingInv => TaxSharesAreFair
  BY FairIsFair DEF TradingInv, LedgerOK
<1> QED BY <1>1, TradingAlways, PTL

\* No transaction leaves SOL wrapped, whatever route it takes
\* (processInstructionsForAtomic).
THEOREM NoSolEverStaysWrapped == Spec => []NoSolStaysWrapped
<1>1. TradingInv => NoSolStaysWrapped
  BY DEF TradingInv, LedgerOK
<1> QED BY <1>1, TradingAlways, PTL

--------------------------------------------------------------------------------
(* What a transaction costs and brings. *)

\* What the wallet has of a token, wrapped SOL counted as SOL.
Worth(l, a) == l.wallet[a] + IF a = "SOL" THEN l.wallet["WSOL"] ELSE 0

Trades == {"buy", "sell", "convert"}

\* What an instruction that succeeds brings of a token, at least.
Gain(ix, a) ==
  (IF ix.op \in Trades /\ ix.to = a THEN ix.minimum ELSE 0)
    - (IF ix.op \in Trades /\ ix.from = a THEN ix.amount ELSE 0)

\* A conversion without an amount takes all there is.
Measured(ix, a) == ix.op = "convert" /\ ix.from = a => ix.amount > 0

LEMMA GainInt ==
  ASSUME NEW ix \in Instruction, NEW a
  PROVE  /\ Gain(ix, a) \in Int
         /\ ix.op \notin Trades => Gain(ix, a) = 0
<1>1. ix.op \in Trades => ix.amount \in Nat /\ ix.minimum \in Nat
  BY DEF Instruction, Trades
<1> QED BY <1>1 DEF Gain

LEMMA WorthNat ==
  ASSUME NEW l \in Ledger, NEW a \in Token
  PROVE  Worth(l, a) \in Nat /\ l.wallet[a] \in Nat /\ l.wallet["WSOL"] \in Nat /\ a # "WSOL"
BY DEF Ledger, Account, Token, Faction, Worth

LEMMA PurchaseGains ==
  ASSUME NEW l \in Ledger, NEW t \in Faction, NEW amount \in Nat, NEW minimum \in Nat,
         NEW a \in Token, swap_sol_buy(l, t, amount, minimum).ok
  PROVE  Worth(swap_sol_buy(l, t, amount, minimum), a)
           >= Worth(l, a) + ((IF t = a THEN minimum ELSE 0) - (IF "SOL" = a THEN amount ELSE 0))
<1> DEFINE pool == l.pools[t]
           tax == calculate_tax(amount, l.taxes[t].buy)
           sol == amount - tax
           out == SwapOutput(sol, pool.sol, pool.token)
           paid == CollectTax(l, tax)
           new == [sol |-> pool.sol + sol, token |-> pool.token - out]
           purse == [l.wallet EXCEPT !["SOL"] = @ - tax, !["WSOL"] = @ - sol,
                                     ![t] = @ + out]
           after == swap_sol_buy(l, t, amount, minimum)
<1>1. /\ pool \in Reserves
      /\ l.taxes[t].buy \in 0..BPS_DENOMINATOR
      /\ t # "SOL" /\ t # "WSOL"
  BY WalletNat
<1>2. tax \in Nat /\ sol \in Nat /\ sol + tax = amount
  <2>1. tax \in Nat /\ tax <= amount
    BY <1>1, TaxIsPart
  <2> HIDE DEF tax
  <2> QED BY <2>1
<1>3. paid \in Ledger /\ paid.pools = l.pools /\ paid.wallet = l.wallet
  BY <1>2, CollectTaxAdds
<1>4. out \in Nat
  <2>1. pool.sol \in Nat \ {0} /\ pool.token \in Nat
    BY <1>1 DEF Reserves
  <2> QED BY <1>2, <2>1, SwapOutputNat
<1>5. \/ after = Failed(l)
      \/ out >= minimum /\ after = [paid EXCEPT !.pools[t] = new, !.wallet = purse]
  <2>1. paid.pools[t] = pool /\ paid.wallet = l.wallet
    BY <1>3
  <2> HIDE DEF paid
  <2> QED BY <2>1 DEF swap_sol_buy, paid
<1> HIDE DEF pool, tax, sol, out, paid, after
<1>6. out >= minimum /\ after = [paid EXCEPT !.pools[t] = new, !.wallet = purse]
  <2>1. after # Failed(l)
    BY FailedKeeps DEF after
  <2> QED BY <1>5, <2>1
<1>7. after.wallet = purse
  <2> HIDE DEF new, purse
  <2> QED BY <1>3, <1>6 DEF Ledger
<1>8. l.wallet \in [Account -> Nat] /\ {"SOL", "WSOL", t, a} \subseteq Account
  BY DEF Ledger, Account, Token
<1>9. Worth(l, a) \in Nat /\ l.wallet[a] \in Nat /\ l.wallet["WSOL"] \in Nat /\ a # "WSOL"
  BY WorthNat
<1>10. /\ purse["SOL"] = l.wallet["SOL"] - tax
       /\ purse["WSOL"] = l.wallet["WSOL"] - sol
       /\ purse[t] = l.wallet[t] + out
       /\ a # t /\ a # "SOL" => purse[a] = l.wallet[a]
  BY <1>1, <1>8, <1>9
<1> HIDE DEF purse
<1>11. CASE a = "SOL"
  BY <1>1, <1>2, <1>7, <1>9, <1>10, <1>11 DEF Worth, after
<1>12. CASE a = t
  BY <1>1, <1>4, <1>6, <1>7, <1>9, <1>10, <1>12 DEF Worth, after
<1>13. CASE a # t /\ a # "SOL"
  BY <1>7, <1>9, <1>10, <1>13 DEF Worth, after
<1> QED BY <1>11, <1>12, <1>13

LEMMA SaleGains ==
  ASSUME NEW l \in Ledger, NEW t \in Faction, NEW amount \in Nat, NEW minimum \in Nat,
         NEW a \in Token, swap_sol_sell(l, t, amount, minimum).ok
  PROVE  Worth(swap_sol_sell(l, t, amount, minimum), a)
           >= Worth(l, a) + ((IF "SOL" = a THEN minimum ELSE 0) - (IF t = a THEN amount ELSE 0))
<1> DEFINE pool == l.pools[t]
           out == SwapOutput(amount, pool.token, pool.sol)
           tax == calculate_tax(out, l.taxes[t].sell)
           net == out - tax
           paid == CollectTax(l, tax)
           new == [sol |-> pool.sol - out, token |-> pool.token + amount]
           purse == [l.wallet EXCEPT ![t] = @ - amount, !["WSOL"] = @ + net]
           after == swap_sol_sell(l, t, amount, minimum)
<1>1. /\ pool \in Reserves
      /\ l.taxes[t].sell \in 0..BPS_DENOMINATOR
      /\ t # "SOL" /\ t # "WSOL"
  BY WalletNat
<1>2. out \in Nat
  <2>1. pool.sol \in Nat \ {0} /\ pool.token \in Nat \ {0}
    BY <1>1 DEF Reserves
  <2> QED BY <2>1, SwapOutputNat
<1>3. tax \in Nat /\ net \in Nat /\ net + tax = out
  <2> HIDE DEF out
  <2>1. tax \in Nat /\ tax <= out
    BY <1>1, <1>2, TaxIsPart
  <2> HIDE DEF tax
  <2> QED BY <1>2, <2>1
<1>4. paid \in Ledger /\ paid.pools = l.pools /\ paid.wallet = l.wallet
  BY <1>3, CollectTaxAdds
<1>5. \/ after = Failed(l)
      \/ net >= minimum /\ after = [paid EXCEPT !.pools[t] = new, !.wallet = purse]
  <2>1. paid.pools[t] = pool /\ paid.wallet = l.wallet
    BY <1>4
  <2> HIDE DEF paid
  <2> QED BY <2>1 DEF swap_sol_sell, paid
<1> HIDE DEF pool, out, tax, net, paid, after
<1>6. net >= minimum /\ after = [paid EXCEPT !.pools[t] = new, !.wallet = purse]
  <2>1. after # Failed(l)
    BY FailedKeeps DEF after
  <2> QED BY <1>5, <2>1
<1>7. after.wallet = purse
  <2> HIDE DEF new, purse
  <2> QED BY <1>4, <1>6 DEF Ledger
<1>8. l.wallet \in [Account -> Nat] /\ {"SOL", "WSOL", t, a} \subseteq Account
  BY DEF Ledger, Account, Token
<1>9. Worth(l, a) \in Nat /\ l.wallet[a] \in Nat /\ l.wallet["WSOL"] \in Nat /\ a # "WSOL"
  BY WorthNat
<1>10. /\ purse[t] = l.wallet[t] - amount
       /\ purse["WSOL"] = l.wallet["WSOL"] + net
       /\ a # t => purse[a] = l.wallet[a]
  BY <1>1, <1>8, <1>9
<1> HIDE DEF purse
<1>11. CASE a = "SOL"
  BY <1>1, <1>3, <1>6, <1>7, <1>9, <1>10, <1>11 DEF Worth, after
<1>12. CASE a = t
  BY <1>1, <1>7, <1>9, <1>10, <1>12 DEF Worth, after
<1>13. CASE a # t /\ a # "SOL"
  BY <1>7, <1>9, <1>10, <1>13 DEF Worth, after
<1> QED BY <1>11, <1>12, <1>13

LEMMA ConversionGains ==
  ASSUME NEW l \in Ledger, NEW x \in Token, NEW y \in Token, NEW amount \in Nat,
         NEW minimum \in Nat, NEW a \in Token, x = a => amount > 0,
         convert_v2(l, x, y, amount, minimum, 0).ok
  PROVE  Worth(convert_v2(l, x, y, amount, minimum, 0), a)
           >= Worth(l, a) + ((IF y = a THEN minimum ELSE 0) - (IF x = a THEN amount ELSE 0))
<1> DEFINE given == EffectiveAmount(l.wallet[x], amount, 0)
           out == compute_output(x, y, given)
           coffer == [l.vault EXCEPT ![x] = @ + given, ![y] = @ - out]
           purse == [l.wallet EXCEPT ![x] = @ - given, ![y] = @ + out]
           after == convert_v2(l, x, y, amount, minimum, 0)
<1>1. l.wallet \in [Account -> Nat]
      /\ x \in Account /\ y \in Account /\ a \in Account
      /\ x # "WSOL" /\ y # "WSOL" /\ a # "WSOL" /\ "WSOL" \in Account
  BY DEF Ledger, Account, Token, Faction
<1>2. given \in Nat /\ (x = a => given = amount)
  BY <1>1 DEF EffectiveAmount
<1> HIDE DEF given
<1>3. out \in Nat /\ (out > 0 => x # y /\ x # "SOL" /\ y # "SOL")
  <2>1. CONVERSION_RATE \in Nat \ {0}
    BY RateAssumption
  <2>2. given \div CONVERSION_RATE \in Nat /\ given * CONVERSION_RATE \in Nat
    BY <1>2, <2>1, DivNat, ProductNat
  <2>3. "PROFIT" \notin Faction /\ "SOL" \notin Faction
    BY DEF Faction
  <2> QED BY <2>2, <2>3 DEF compute_output
<1> HIDE DEF out
<1>4. \/ after = Failed(l)
      \/ /\ out > 0 /\ out >= minimum
         /\ after = [l EXCEPT !.vault[x] = @ + given, !.vault[y] = @ - out,
                              !.wallet[x] = @ - given, !.wallet[y] = @ + out]
  BY DEF convert_v2, given, out
<1> HIDE DEF after
<1>5. /\ out > 0 /\ out >= minimum
      /\ after = [l EXCEPT !.vault[x] = @ + given, !.vault[y] = @ - out,
                           !.wallet[x] = @ - given, !.wallet[y] = @ + out]
  <2>1. after # Failed(l)
    BY FailedKeeps DEF after
  <2> QED BY <1>4, <2>1
<1>6. after.wallet = purse
  BY <1>5 DEF Ledger
<1>7. /\ purse[x] = l.wallet[x] - given /\ purse[y] = l.wallet[y] + out
      /\ purse["WSOL"] = l.wallet["WSOL"]
      /\ a # x /\ a # y => purse[a] = l.wallet[a]
  BY <1>1, <1>3, <1>5
<1>8. l.wallet[a] \in Nat /\ l.wallet["WSOL"] \in Nat /\ l.wallet[x] \in Nat /\ l.wallet[y] \in Nat
  BY <1>1
<1> HIDE DEF purse
<1>9. CASE a = x
  BY <1>2, <1>3, <1>5, <1>6, <1>7, <1>8, <1>9 DEF Worth, after
<1>10. CASE a = y
  BY <1>3, <1>5, <1>6, <1>7, <1>8, <1>10 DEF Worth, after
<1>11. CASE a # x /\ a # y
  BY <1>6, <1>7, <1>8, <1>11 DEF Worth, after
<1> QED BY <1>9, <1>10, <1>11

LEMMA WrappingGains ==
  ASSUME NEW l \in Ledger, NEW a \in Token
  PROVE  /\ \A amount \in Nat : wrap(l, amount).ok => Worth(wrap(l, amount), a) >= Worth(l, a)
         /\ Worth(unwrap(l), a) >= Worth(l, a)
<1>1. l.wallet \in [Account -> Nat] /\ {"SOL", "WSOL", a} \subseteq Account /\ a # "WSOL"
  BY DEF Ledger, Account, Token, Faction
<1>2. l.wallet[a] \in Nat /\ l.wallet["SOL"] \in Nat /\ l.wallet["WSOL"] \in Nat
  BY <1>1
<1>3. ASSUME NEW amount \in Nat, wrap(l, amount).ok PROVE Worth(wrap(l, amount), a) >= Worth(l, a)
  <2> DEFINE purse == [l.wallet EXCEPT !["SOL"] = @ - amount, !["WSOL"] = @ + amount]
             after == wrap(l, amount)
  <2>1. \/ after = Failed(l)
        \/ after = [l EXCEPT !.wallet["SOL"] = @ - amount, !.wallet["WSOL"] = @ + amount]
    BY DEF wrap
  <2>2. after # Failed(l)
    BY <1>3, FailedKeeps
  <2> HIDE DEF after
  <2>3. after.wallet = purse
    BY <2>1, <2>2 DEF Ledger
  <2>4. /\ purse["SOL"] = l.wallet["SOL"] - amount /\ purse["WSOL"] = l.wallet["WSOL"] + amount
        /\ a # "SOL" => purse[a] = l.wallet[a]
    BY <1>1
  <2> HIDE DEF purse
  <2> QED BY <1>2, <2>3, <2>4 DEF Worth, after
<1>4. Worth(unwrap(l), a) >= Worth(l, a)
  <2> DEFINE purse == [l.wallet EXCEPT !["SOL"] = @ + l.wallet["WSOL"], !["WSOL"] = 0]
  <2>1. unwrap(l).wallet = purse
    BY DEF unwrap, Ledger
  <2>2. /\ purse["SOL"] = l.wallet["SOL"] + l.wallet["WSOL"] /\ purse["WSOL"] = 0
        /\ a # "SOL" => purse[a] = l.wallet[a]
    BY <1>1
  <2> HIDE DEF purse
  <2> QED BY <1>2, <2>1, <2>2 DEF Worth
<1> QED BY <1>3, <1>4

LEMMA ApplyGains ==
  ASSUME NEW l \in Ledger, NEW ix \in Instruction, NEW a \in Token, Measured(ix, a),
         Apply(l, ix).ok
  PROVE  l.ok /\ Worth(Apply(l, ix), a) >= Worth(l, a) + Gain(ix, a)
<1>0. l.ok
  BY DEF Apply
<1>a. Worth(l, a) \in Nat
  BY WorthNat
<1>1. CASE ix \in [op : {"wrap"}, amount : Nat]
  <2>1. ix.op = "wrap" /\ ix.amount \in Nat
    BY <1>1
  <2>2. Apply(l, ix) = wrap(l, ix.amount)
    BY <1>0, <2>1 DEF Apply
  <2>3. Gain(ix, a) = 0
    BY <2>1, GainInt DEF Trades
  <2>4. Worth(wrap(l, ix.amount), a) >= Worth(l, a)
    BY <2>1, <2>2, WrappingGains
  <2> QED BY <1>0, <1>a, <2>2, <2>3, <2>4
<1>2. CASE ix \in [op : {"unwrap"}]
  <2>1. ix.op = "unwrap"
    BY <1>2
  <2>2. Apply(l, ix) = unwrap(l)
    BY <1>0, <2>1 DEF Apply
  <2>3. Gain(ix, a) = 0
    BY <2>1, GainInt DEF Trades
  <2>4. Worth(unwrap(l), a) >= Worth(l, a)
    BY WrappingGains
  <2> QED BY <1>0, <1>a, <2>2, <2>3, <2>4
<1>3. CASE ix \in [op : {"buy"}, from : {"SOL"}, to : Faction, amount : Nat, minimum : Nat]
  <2>1. ix.op = "buy" /\ ix.from = "SOL" /\ ix.to \in Faction /\ ix.amount \in Nat /\ ix.minimum \in Nat
    BY <1>3
  <2>2. Apply(l, ix) = swap_sol_buy(l, ix.to, ix.amount, ix.minimum)
    BY <1>0, <2>1 DEF Apply
  <2>3. Gain(ix, a) = (IF ix.to = a THEN ix.minimum ELSE 0) - (IF "SOL" = a THEN ix.amount ELSE 0)
    BY <2>1 DEF Gain, Trades
  <2> QED BY <1>0, <2>1, <2>2, <2>3, PurchaseGains
<1>4. CASE ix \in [op : {"sell"}, from : Faction, to : {"SOL"}, amount : Nat, minimum : Nat]
  <2>1. ix.op = "sell" /\ ix.to = "SOL" /\ ix.from \in Faction /\ ix.amount \in Nat /\ ix.minimum \in Nat
    BY <1>4
  <2>2. Apply(l, ix) = swap_sol_sell(l, ix.from, ix.amount, ix.minimum)
    BY <1>0, <2>1 DEF Apply
  <2>3. Gain(ix, a) = (IF "SOL" = a THEN ix.minimum ELSE 0) - (IF ix.from = a THEN ix.amount ELSE 0)
    BY <2>1 DEF Gain, Trades
  <2> QED BY <1>0, <2>1, <2>2, <2>3, SaleGains
<1>5. CASE ix \in [op : {"convert"}, from : Token, to : Token, amount : Nat, minimum : Nat]
  <2>1. ix.op = "convert" /\ ix.from \in Token /\ ix.to \in Token /\ ix.amount \in Nat
        /\ ix.minimum \in Nat
    BY <1>5
  <2>2. Apply(l, ix) = convert_v2(l, ix.from, ix.to, ix.amount, ix.minimum, 0)
    BY <1>0, <2>1 DEF Apply
  <2>3. Gain(ix, a) = (IF ix.to = a THEN ix.minimum ELSE 0) - (IF ix.from = a THEN ix.amount ELSE 0)
    BY <2>1 DEF Gain, Trades
  <2>4. ix.from = a => ix.amount > 0
    BY <2>1 DEF Measured
  <2> QED BY <1>0, <2>1, <2>2, <2>3, <2>4, ConversionGains
<1> QED BY <1>1, <1>2, <1>3, <1>4, <1>5 DEF Instruction

\* A tally of what a transaction costs and brings of a token; g in all.
Tally(ixs, a, g, tally) ==
  /\ \A n \in 0..Len(ixs) : tally[n] \in Int
  /\ tally[0] = 0 /\ tally[Len(ixs)] = g
  /\ \A n \in 1..Len(ixs) : Measured(ixs[n], a) /\ tally[n] = tally[n - 1] + Gain(ixs[n], a)

Brings(ixs, a, g) == \E tally : Tally(ixs, a, g, tally)

\* A transaction that succeeds brings at least what its tally says.
LEMMA ExecuteBrings ==
  ASSUME NEW l \in Ledger, Fair(l), NEW ixs \in Seq(Instruction), NEW a \in Token,
         NEW g, Brings(ixs, a, g), Execute(l, ixs).ok
  PROVE  Worth(Execute(l, ixs), a) >= Worth(l, a) + g
<1>1. PICK tally : Tally(ixs, a, g, tally)
  BY DEF Brings
<1> DEFINE Good(m, n) == m.ok => Worth(m, a) >= Worth(l, a) + tally[n]
           G == [n \in 0..Len(ixs) |-> {m \in Ledger : Fair(m) /\ Good(m, n)}]
           start == [l EXCEPT !.ok = TRUE]
<1>2. Len(ixs) \in Nat /\ \A n \in 1..Len(ixs) : ixs[n] \in Instruction
  OBVIOUS
<1>3. start \in G[0]
  <2>1. start \in Ledger /\ start.wallet = l.wallet
    BY StartKeeps
  <2>2. Fair(start)
    BY StartKeeps, FairByFees, Zenon
  <2> HIDE DEF start
  <2>3. Worth(start, a) = Worth(l, a) /\ Worth(l, a) \in Nat /\ tally[0] = 0
    BY <1>1, <2>1, WorthNat DEF Worth, Tally
  <2>4. Good(start, 0)
    BY <2>3
  <2> HIDE DEF Good
  <2> QED BY <1>2, <2>1, <2>2, <2>4
<1>4. ASSUME NEW n \in 1..Len(ixs), NEW m \in G[n - 1] PROVE Apply(m, ixs[n]) \in G[n]
  <2> DEFINE b == Apply(m, ixs[n])
  <2>1. n - 1 \in 0..Len(ixs) /\ n \in 0..Len(ixs)
    BY <1>2
  <2>2. m \in Ledger /\ Fair(m) /\ Good(m, n - 1) /\ ixs[n] \in Instruction
    BY <1>2, <2>1
  <2>3. b \in Ledger /\ Fair(b)
    BY <2>2, ApplyKeeps, Zenon
  <2>4. /\ tally[n - 1] \in Int /\ Gain(ixs[n], a) \in Int /\ Measured(ixs[n], a)
        /\ tally[n] = tally[n - 1] + Gain(ixs[n], a)
    BY <1>1, <2>1, <2>2, GainInt DEF Tally
  <2>5. b.ok => m.ok /\ Worth(b, a) >= Worth(m, a) + Gain(ixs[n], a)
    BY <2>2, <2>4, ApplyGains, Zenon
  <2>6. Worth(m, a) \in Nat /\ Worth(b, a) \in Nat /\ Worth(l, a) \in Nat
    BY <2>2, <2>3, WorthNat, Zenon
  <2> HIDE DEF b
  <2>7. Good(b, n)
    BY <2>2, <2>4, <2>5, <2>6
  <2> HIDE DEF Good
  <2> QED BY <2>1, <2>3, <2>7 DEF b
<1>5. Execute(l, ixs) \in G[Len(ixs)]
  <2> HIDE DEF G, start
  <2> QED BY <1>2, <1>3, <1>4, ExecuteEndsIn DEF start
<1>6. Good(Execute(l, ixs), Len(ixs))
  <2> HIDE DEF Good
  <2> QED BY <1>2, <1>5
<1> QED BY <1>1, <1>6 DEF Tally

LEMMA BringsJoin ==
  ASSUME NEW p \in Seq(Instruction), NEW q \in Seq(Instruction), NEW a,
         NEW g, Brings(p, a, g), NEW h, Brings(q, a, h)
  PROVE  Brings(p \o q, a, g + h)
<1>1. PICK tp : Tally(p, a, g, tp)
  BY DEF Brings
<1>2. PICK tq : Tally(q, a, h, tq)
  BY DEF Brings
<1>3. PICK s : s = p \o q
  OBVIOUS
<1>4. Join(Instruction, p, q, s)
  BY <1>3, Joined, Zenon
<1>5. /\ Len(p) \in Nat /\ Len(q) \in Nat /\ Len(s) = Len(p) + Len(q)
      /\ \A i \in 1..Len(p) : s[i] = p[i]
      /\ \A i \in 1..Len(q) : s[Len(p) + i] = q[i]
  BY <1>4 DEF Join
<1> DEFINE len == Len(p)
           t == [n \in 0..Len(s) |-> IF n <= len THEN tp[n] ELSE g + tq[n - len]]
<1>6. g \in Int /\ h \in Int /\ tq[0] = 0 /\ tp[len] = g /\ tq[Len(q)] = h /\ tp[0] = 0
  BY <1>1, <1>2, <1>5 DEF Tally
<1>7. \A n \in 0..Len(s) : t[n] \in Int
  <2> TAKE n \in 0..Len(s)
  <2>1. CASE n <= len
    BY <1>1, <1>5, <2>1 DEF Tally
  <2>2. CASE ~(n <= len)
    <3>1. n - len \in 0..Len(q)
      BY <1>5, <2>2
    <3> QED BY <1>2, <1>6, <2>2, <3>1 DEF Tally
  <2> QED BY <2>1, <2>2
<1>8. \A n \in 0..Len(q) : t[len + n] = g + tq[n] /\ tq[n] \in Int
  <2> TAKE n \in 0..Len(q)
  <2>1. tq[n] \in Int /\ len + n \in 0..Len(s) /\ (len + n) - len = n
    BY <1>2, <1>5 DEF Tally
  <2>2. CASE n = 0
    BY <1>5, <1>6, <2>1, <2>2
  <2>3. CASE n # 0
    <3>1. ~(len + n <= len)
      BY <1>5, <2>3
    <3> QED BY <2>1, <3>1
  <2> QED BY <2>2, <2>3
<1>9. t[0] = 0 /\ t[Len(s)] = g + h
  <2>1. Len(q) \in 0..Len(q) /\ 0 \in 0..Len(s) /\ 0 <= len
    BY <1>5
  <2> QED BY <1>5, <1>6, <1>8, <2>1
<1>10. \A n \in 1..Len(s) : Measured(s[n], a) /\ t[n] = t[n - 1] + Gain(s[n], a)
  <2> TAKE n \in 1..Len(s)
  <2>1. CASE n <= len
    <3>1. n \in 1..len /\ n \in 0..Len(s) /\ n - 1 \in 0..Len(s) /\ n - 1 <= len
      BY <1>5, <2>1
    <3>2. t[n] = tp[n] /\ t[n - 1] = tp[n - 1] /\ s[n] = p[n]
      BY <1>5, <2>1, <3>1
    <3> QED BY <1>1, <3>1, <3>2 DEF Tally
  <2>2. CASE ~(n <= len)
    <3> DEFINE k == n - len
    <3>1. k \in 1..Len(q) /\ k \in 0..Len(q) /\ k - 1 \in 0..Len(q)
          /\ len + k = n /\ len + (k - 1) = n - 1
      BY <1>5, <2>2
    <3> HIDE DEF k
    <3>2. t[n] = g + tq[k] /\ t[n - 1] = g + tq[k - 1] /\ tq[k] \in Int /\ tq[k - 1] \in Int
          /\ s[n] = q[k]
      <4> HIDE DEF t
      <4> QED BY <1>5, <1>8, <3>1
    <3>3. Measured(q[k], a) /\ tq[k] = tq[k - 1] + Gain(q[k], a)
      BY <1>2, <3>1 DEF Tally
    <3>4. q[k] \in Instruction
      BY <3>1
    <3>5. Gain(q[k], a) \in Int
      BY <3>4, GainInt
    <3> HIDE DEF t
    <3> QED BY <1>6, <3>2, <3>3, <3>5
  <2> QED BY <2>1, <2>2
<1> HIDE DEF t, len
<1>11. Tally(s, a, g + h, t)
  BY <1>7, <1>9, <1>10 DEF Tally
<1> QED BY <1>3, <1>11 DEF Brings

\* What the parts bring, the whole does.
LEMMA FlattenBrings ==
  ASSUME NEW parts, Len(parts) \in Nat \ {0}, NEW a, NEW total,
         \A i \in 1..Len(parts) : Sound(parts[i]),
         Brings(parts[1], a, total[1]),
         \A i \in 2..Len(parts) : Brings(parts[i], a, total[i] - total[i - 1]),
         \A i \in 1..Len(parts) : total[i] \in Int
  PROVE  Brings(FlattenSeq(parts), a, total[Len(parts)])
<1>1. PICK run : FlattenRun(parts, run)
  BY FlattenRuns, Zenon
<1> DEFINE P == {m \in Nat : m + 1 <= Len(parts) =>
                    Sound(run[m + 1]) /\ Brings(run[m + 1], a, total[m + 1])}
<1>2. 0 \in P
  BY <1>1 DEF FlattenRun
<1>3. ASSUME NEW m \in Nat, m \in P PROVE m + 1 \in P
  <2> DEFINE n == (m + 1) + 1
  <2> SUFFICES ASSUME n <= Len(parts) PROVE Sound(run[n]) /\ Brings(run[n], a, total[n])
    OBVIOUS
  <2>1. n \in 2..Len(parts) /\ n \in 1..Len(parts) /\ n - 1 = m + 1 /\ m + 1 \in 1..Len(parts)
    OBVIOUS
  <2>2. run[n] = run[m + 1] \o parts[n]
    BY <1>1, <2>1 DEF FlattenRun
  <2>3. Sound(run[m + 1]) /\ Sound(parts[n]) /\ Brings(run[m + 1], a, total[m + 1])
    BY <1>3, <2>1
  <2>4. total[n] \in Int /\ total[m + 1] \in Int /\ Brings(parts[n], a, total[n] - total[m + 1])
    BY <2>1
  <2> HIDE DEF n
  <2>5. Sound(run[n])
    BY <2>2, <2>3, JoinSound
  <2>6. run[m + 1] \in Seq(Instruction) /\ parts[n] \in Seq(Instruction)
    BY <2>3 DEF Sound
  <2>7. Brings(run[m + 1] \o parts[n], a, total[m + 1] + (total[n] - total[m + 1]))
    BY <2>3, <2>4, <2>6, BringsJoin
  <2>8. total[m + 1] + (total[n] - total[m + 1]) = total[n]
    BY <2>4
  <2> QED BY <2>2, <2>5, <2>7, <2>8
<1>4. Nat \subseteq P
  <2> HIDE DEF P
  <2> QED BY <1>2, <1>3, NatSetInduction
<1>5. Brings(run[Len(parts)], a, total[Len(parts)])
  <2>1. Len(parts) - 1 \in Nat /\ (Len(parts) - 1) + 1 = Len(parts)
    OBVIOUS
  <2> QED BY <1>4, <2>1
<1> QED BY <1>1, <1>5 DEF FlattenRun

\* How many members of a set of numbers are at most m.
LEMMA RankStep ==
  ASSUME NEW L \in Nat, NEW kept, kept \subseteq 1..L
  PROVE  /\ Rank(kept, 0) = 0 /\ Rank(kept, L) = Cardinality(kept)
         /\ \A m \in Nat : /\ Rank(kept, m) \in Nat
                           /\ Rank(kept, m + 1) = Rank(kept, m) + IF m + 1 \in kept THEN 1 ELSE 0
<1> DEFINE upto(i) == {j \in kept : j <= i}
<1>0. IsFiniteSet(kept) /\ \A j \in kept : j \in Nat /\ 1 <= j /\ j <= L
  <2>1. IsFiniteSet(1..L)
    BY FS_Interval
  <2>2. IsFiniteSet(kept)
    BY <2>1, FS_Subset
  <2> QED BY <2>2
<1>1. Rank(kept, 0) = 0
  <2>1. upto(0) = {}
    <3>1. \A j \in kept : ~ (j <= 0)
      BY <1>0
    <3> QED BY <3>1
  <2> QED BY <2>1, FS_EmptySet DEF Rank
<1>2. Rank(kept, L) = Cardinality(kept)
  <2>1. upto(L) = kept
    BY <1>0
  <2> QED BY <2>1 DEF Rank
<1>3. ASSUME NEW m \in Nat
      PROVE  /\ Rank(kept, m) \in Nat
             /\ Rank(kept, m + 1) = Rank(kept, m) + IF m + 1 \in kept THEN 1 ELSE 0
  <2>0. Rank(kept, m) = Cardinality(upto(m)) /\ Rank(kept, m + 1) = Cardinality(upto(m + 1))
    BY DEF Rank
  <2>a. IsFiniteSet(upto(m)) /\ Cardinality(upto(m)) \in Nat
    <3>1. upto(m) \in SUBSET kept
      OBVIOUS
    <3> HIDE DEF upto
    <3> QED BY <1>0, <3>1, FS_Subset, FS_CardinalityType
  <2>1. CASE m + 1 \notin kept
    <3>1. upto(m + 1) = upto(m)
      <4>1. \A j \in kept : j <= m + 1 <=> j <= m
        BY <1>0, <2>1
      <4> QED BY <4>1
    <3> HIDE DEF upto
    <3> QED BY <2>0, <2>a, <2>1, <3>1
  <2>2. CASE m + 1 \in kept
    <3>1. upto(m + 1) = upto(m) \cup {m + 1} /\ m + 1 \notin upto(m)
      <4>1. \A j \in kept : j <= m + 1 <=> j <= m \/ j = m + 1
        BY <1>0
      <4>2. ~ (m + 1 <= m) /\ m + 1 <= m + 1
        OBVIOUS
      <4> QED BY <2>2, <4>1, <4>2
    <3> HIDE DEF upto
    <3>2. Cardinality(upto(m + 1)) = Cardinality(upto(m)) + 1
      BY <2>a, <3>1, FS_AddElement
    <3> QED BY <2>0, <2>a, <2>2, <3>2
  <2> QED BY <2>1, <2>2
<1> QED BY <1>1, <1>2, <1>3

\* Dropping closings of the wrapped-SOL account changes no tally.
LEMMA AtomicBrings ==
  ASSUME NEW ixs \in Seq(Instruction), NEW a, NEW g, Brings(ixs, a, g)
  PROVE  Brings(processInstructionsForAtomic(ixs), a, g)
<1> DEFINE len == Len(ixs)
           closes == {i \in DOMAIN ixs : ixs[i].op = "unwrap"}
           kept == {i \in DOMAIN ixs : i \in closes => \A j \in closes : j <= i}
           size == Cardinality(kept)
           at(n) == CHOOSE i \in kept : Rank(kept, i) = n
           result == [n \in 1..size |-> ixs[at(n)]]
<1>0. PICK tally : Tally(ixs, a, g, tally)
  BY DEF Brings
<1>1. len \in Nat /\ DOMAIN ixs = 1..len /\ \A i \in 1..len : ixs[i] \in Instruction
  BY Elements
<1>2. processInstructionsForAtomic(ixs) = result
  BY DEF processInstructionsForAtomic, Rank
<1>3. kept \subseteq 1..len
  BY <1>1
<1>4. \A i \in 1..len : i \notin kept => ixs[i].op = "unwrap"
  BY <1>1
<1> HIDE DEF closes, kept
<1>5. /\ size \in Nat
      /\ \A i \in kept : Rank(kept, i) \in 1..size
      /\ \A i, j \in kept : Rank(kept, i) = Rank(kept, j) => i = j
  BY <1>1, <1>3, RankBounds
<1>6. \A n \in 1..size : at(n) \in kept /\ Rank(kept, at(n)) = n
  <2>1. \A n \in 1..size : \E i \in kept : Rank(kept, i) = n
    BY <1>1, <1>3, RankReached
  <2> QED BY <2>1
<1>7. \A i \in kept : at(Rank(kept, i)) = i
  <2> TAKE i \in kept
  <2>1. Rank(kept, i) \in 1..size
    BY <1>5
  <2>2. at(Rank(kept, i)) \in kept /\ Rank(kept, at(Rank(kept, i))) = Rank(kept, i)
    BY <1>6, <2>1
  <2> HIDE DEF at
  <2> QED BY <1>5, <2>2
<1> HIDE DEF at
<1> DEFINE t == [n \in 0..size |-> IF n = 0 THEN 0 ELSE tally[at(n)]]
           Q == {m \in Nat : m <= len => tally[m] = t[Rank(kept, m)]}
<1>8. /\ Rank(kept, 0) = 0 /\ Rank(kept, len) = size
      /\ \A m \in Nat : /\ Rank(kept, m) \in Nat
                        /\ Rank(kept, m + 1) = Rank(kept, m) + IF m + 1 \in kept THEN 1 ELSE 0
  BY <1>1, <1>3, RankStep
<1> HIDE DEF size
<1>9. 0 \in Q
  <2>1. tally[0] = 0
    BY <1>0 DEF Tally
  <2>2. t[0] = 0
    BY <1>5
  <2> QED BY <1>8, <2>1, <2>2
<1>10. ASSUME NEW m \in Nat, m \in Q PROVE m + 1 \in Q
  <2> SUFFICES ASSUME m + 1 <= len PROVE tally[m + 1] = t[Rank(kept, m + 1)]
    OBVIOUS
  <2>1. m + 1 \in 1..len /\ m \in 0..len /\ (m + 1) - 1 = m
    BY <1>1
  <2>2. CASE m + 1 \notin kept
    <3>1. ixs[m + 1].op \notin Trades /\ ixs[m + 1] \in Instruction
      BY <1>1, <1>4, <2>1, <2>2 DEF Trades
    <3>2. Gain(ixs[m + 1], a) = 0
      BY <3>1, GainInt
    <3>3. tally[m + 1] = tally[m] + 0 /\ tally[m] \in Int
      BY <1>0, <2>1, <3>2 DEF Tally
    <3>4. Rank(kept, m + 1) = Rank(kept, m)
      BY <1>8, <2>2
    <3> HIDE DEF t
    <3> QED BY <1>10, <2>1, <3>3, <3>4
  <2>3. CASE m + 1 \in kept
    <3>1. Rank(kept, m + 1) \in 1..size /\ at(Rank(kept, m + 1)) = m + 1
      BY <1>5, <1>7, <2>3
    <3> QED BY <1>5, <3>1
  <2> QED BY <2>2, <2>3
<1>11. \A m \in 0..len : tally[m] = t[Rank(kept, m)]
  <2>1. Nat \subseteq Q
    <3> HIDE DEF Q
    <3> QED BY <1>9, <1>10, NatSetInduction
  <2> QED BY <1>1, <2>1
<1>12. Len(result) = size
  BY <1>5
<1>13. \A n \in 0..size : t[n] \in Int
  <2> TAKE n \in 0..size
  <2>1. CASE n = 0
    BY <2>1
  <2>2. CASE n # 0
    <3>1. n \in 1..size
      BY <1>5, <2>2
    <3>2. at(n) \in 0..len
      <4>1. PICK i \in kept : i = at(n)
        BY <1>6, <3>1
      <4>2. i \in 0..len
        BY <1>1, <1>3
      <4> QED BY <4>1, <4>2
    <3> QED BY <1>0, <2>2, <3>2 DEF Tally
  <2> QED BY <2>1, <2>2
<1>14. t[0] = 0 /\ t[size] = g
  <2>1. t[0] = 0
    BY <1>5
  <2>2. len \in 0..len /\ tally[len] = g
    BY <1>0, <1>1 DEF Tally
  <2> HIDE DEF t
  <2> QED BY <1>8, <1>11, <2>1, <2>2
<1>15. \A n \in 1..size : Measured(result[n], a) /\ t[n] = t[n - 1] + Gain(result[n], a)
  <2> TAKE n \in 1..size
  <2>1. PICK i \in kept : i = at(n) /\ Rank(kept, i) = n
    BY <1>6
  <2>2. i \in 1..len /\ i - 1 \in 0..len /\ i \in 0..len /\ i - 1 \in Nat /\ (i - 1) + 1 = i
    BY <1>1, <1>3
  <2>3. result[n] = ixs[i]
    BY <2>1
  <2>4. Measured(ixs[i], a) /\ tally[i] = tally[i - 1] + Gain(ixs[i], a)
    BY <1>0, <2>2 DEF Tally
  <2>5. Rank(kept, i - 1) \in Nat /\ n = Rank(kept, i - 1) + 1
    <3>1. Rank(kept, (i - 1) + 1) = Rank(kept, i - 1) + 1
      BY <1>8, <2>2
    <3> QED BY <1>8, <2>1, <2>2, <3>1
  <2>6. tally[i] = t[n] /\ tally[i - 1] = t[n - 1]
    <3>1. Rank(kept, i - 1) = n - 1
      BY <2>5
    <3> HIDE DEF t
    <3> QED BY <1>11, <2>1, <2>2, <3>1
  <2> HIDE DEF t, result
  <2> QED BY <2>3, <2>4, <2>6
<1> HIDE DEF t, result
<1>16. Tally(result, a, g, t)
  BY <1>12, <1>13, <1>14, <1>15 DEF Tally
<1> QED BY <1>2, <1>16 DEF Brings

--------------------------------------------------------------------------------
(* What the instructions of a step and of a route bring. *)

StepGain(from, to, amount, minimum, a) ==
  (IF to = a THEN minimum ELSE 0) - (IF from = a THEN amount ELSE 0)

\* Sequences built an element at a time.
LEMMA ConcatIsAppend ==
  ASSUME NEW S, NEW s \in Seq(S), NEW x \in S
  PROVE  s \o <<x>> = Append(s, x)
<1>1. PICK r : r = s \o <<x>>
  OBVIOUS
<1>2. <<x>> \in Seq(S) /\ Len(<<x>>) = 1 /\ <<x>>[1] = x
  OBVIOUS
<1>3. Join(S, s, <<x>>, r)
  BY <1>1, <1>2, Joined, Zenon
<1>4. /\ r \in Seq(S) /\ Len(s) \in Nat /\ Len(r) = Len(s) + 1
      /\ \A i \in 1..Len(s) : r[i] = s[i]
      /\ r[Len(s) + 1] = x
  <2>1. 1 \in 1..Len(<<x>>)
    BY <1>2
  <2> QED BY <1>2, <1>3, <2>1 DEF Join
<1>5. PICK t : t = Append(s, x)
  OBVIOUS
<1>6. t \in Seq(S) /\ Len(t) = Len(s) + 1 /\ (\A i \in 1..Len(s) : t[i] = s[i]) /\ t[Len(s) + 1] = x
  BY <1>5
<1>7. \A i \in 1..Len(r) : r[i] = t[i]
  BY <1>4, <1>6
<1>8. r = t
  BY <1>4, <1>6, <1>7, SeqEqual
<1> QED BY <1>1, <1>5, <1>8

LEMMA ConcatSmall ==
  ASSUME NEW S, NEW x \in S, NEW y \in S, NEW z \in S
  PROVE  <<x>> \o <<y>> = <<x, y>> /\ <<x, y>> \o <<z>> = <<x, y, z>>
<1>1. PICK a : a = Append(<<x>>, y)
  OBVIOUS
<1>2. PICK b : b = Append(<<x, y>>, z)
  OBVIOUS
<1>3. /\ <<x>> \in Seq(S) /\ <<x, y>> \in Seq(S) /\ <<x, y, z>> \in Seq(S)
      /\ Len(<<x>>) = 1 /\ Len(<<x, y>>) = 2 /\ Len(<<x, y, z>>) = 3
      /\ <<x, y>>[1] = x /\ <<x, y>>[2] = y
      /\ <<x, y, z>>[1] = x /\ <<x, y, z>>[2] = y /\ <<x, y, z>>[3] = z
  OBVIOUS
<1>4. a \in Seq(S) /\ Len(a) = 2 /\ a[1] = x /\ a[2] = y
  BY <1>1, <1>3
<1>5. b \in Seq(S) /\ Len(b) = 3 /\ b[1] = x /\ b[2] = y /\ b[3] = z
  BY <1>2, <1>3
<1>6. a = <<x, y>>
  <2>1. \A i \in 1..2 : a[i] = <<x, y>>[i]
    <3>1. \A i \in 1..2 : i = 1 \/ i = 2
      OBVIOUS
    <3> QED BY <1>3, <1>4, <3>1
  <2> QED BY <1>3, <1>4, <2>1, SeqEqual
<1>7. b = <<x, y, z>>
  <2>1. \A i \in 1..3 : b[i] = <<x, y, z>>[i]
    <3>1. \A i \in 1..3 : i = 1 \/ i = 2 \/ i = 3
      OBVIOUS
    <3> QED BY <1>3, <1>5, <3>1
  <2> QED BY <1>3, <1>5, <2>1, SeqEqual
<1>8. <<x>> \o <<y>> = Append(<<x>>, y) /\ <<x, y>> \o <<z>> = Append(<<x, y>>, z)
  BY <1>3, ConcatIsAppend
<1> QED BY <1>1, <1>2, <1>6, <1>7, <1>8

LEMMA TallyOne ==
  ASSUME NEW x \in Instruction, NEW a, Measured(x, a)
  PROVE  Brings(<<x>>, a, Gain(x, a))
<1> DEFINE t == [n \in 0..1 |-> IF n = 0 THEN 0 ELSE Gain(x, a)]
<1>1. Gain(x, a) \in Int
  BY GainInt
<1>2. Len(<<x>>) = 1 /\ <<x>>[1] = x
  OBVIOUS
<1>3. t[0] = 0 /\ t[1] = Gain(x, a)
  OBVIOUS
<1> HIDE DEF t
<1>4. Tally(<<x>>, a, Gain(x, a), t)
  BY <1>1, <1>2, <1>3 DEF Tally
<1> QED BY <1>4 DEF Brings

LEMMA StepBrings ==
  ASSUME NEW from, NEW to, <<from, to>> \in ROUTE_GRAPH, NEW amount \in Nat,
         NEW minimum \in Nat, NEW taxBps \in 0..BPS_DENOMINATOR, NEW isMultiHopStep \in BOOLEAN,
         NEW a, a = from => ~isMultiHopStep /\ amount > 0
  PROVE  Brings(buildStepTransaction(from, to, amount, minimum, taxBps, isMultiHopStep), a,
                StepGain(from, to, amount, minimum, a))
<1> DEFINE ixs == buildStepTransaction(from, to, amount, minimum, taxBps, isMultiHopStep)
           net == amount - calculateTax(amount, taxBps)
           gain == StepGain(from, to, amount, minimum, a)
<1>0. gain \in Int
  BY DEF StepGain
<1>1. net \in Nat
  <2>1. calculateTax(amount, taxBps) \in 0..amount
    BY PartOf DEF calculateTax
  <2> QED BY <2>1
<1> HIDE DEF net
<1>2. Brings(<<unwrapIx>>, a, 0)
  <2>1. unwrapIx \in Instruction /\ unwrapIx.op = "unwrap"
    BY DEF unwrapIx, Instruction
  <2>2. Gain(unwrapIx, a) = 0 /\ Measured(unwrapIx, a)
    BY <2>1, GainInt DEF Trades, Measured
  <2> QED BY <2>1, <2>2, TallyOne
<1>u. <<unwrapIx>> \in Seq(Instruction)
  BY DEF unwrapIx, Instruction
<1>3. CASE "PROFIT" \in {from, to}
  <2> DEFINE n == IF isMultiHopStep THEN 0 ELSE amount
             c == stepIx("convert", from, to, n, minimum)
  <2>1. from \in Token /\ to \in Token /\ n \in Nat
    BY RouteGraph
  <2>2. ixs = <<c>>
    BY <1>3 DEF buildStepTransaction, buildVaultConvertTransaction
  <2>3. a = from => n = amount /\ n > 0
    OBVIOUS
  <2> HIDE DEF ixs, n
  <2>4. c \in Instruction /\ c.op = "convert" /\ c.from = from /\ c.to = to /\ c.amount = n
        /\ c.minimum = minimum
    BY <2>1 DEF stepIx, Instruction
  <2> HIDE DEF c
  <2>5. Measured(c, a) /\ Gain(c, a) = gain
    BY <2>3, <2>4 DEF Measured, Gain, Trades, StepGain
  <2>6. Brings(<<c>>, a, gain)
    BY <2>4, <2>5, TallyOne
  <2> QED BY <2>2, <2>6 DEF ixs
<1>4. CASE "PROFIT" \notin {from, to} /\ from = "SOL"
  <2> DEFINE w == wrapIx(net)
             b == stepIx("buy", "SOL", to, amount, minimum)
  <2>1. to \in Faction
    BY <1>4, RouteGraph
  <2>2. ixs = <<w, b, unwrapIx>>
    BY <1>4 DEF buildStepTransaction, buildSolBuyTransaction, net
  <2>3. w \in Instruction /\ w.op = "wrap"
    BY <1>1 DEF wrapIx, Instruction
  <2>4. b \in Instruction /\ b.op = "buy" /\ b.from = from /\ b.to = to /\ b.amount = amount
        /\ b.minimum = minimum
    BY <1>4, <2>1 DEF stepIx, Instruction
  <2> HIDE DEF ixs, w, b
  <2>5. Measured(w, a) /\ Gain(w, a) = 0
    BY <2>3, GainInt DEF Measured, Trades
  <2>6. Measured(b, a) /\ Gain(b, a) = gain
    BY <2>4 DEF Measured, Gain, Trades, StepGain
  <2>7. Brings(<<w>>, a, 0) /\ Brings(<<b>>, a, gain)
    BY <2>3, <2>4, <2>5, <2>6, TallyOne
  <2>8. <<w>> \in Seq(Instruction) /\ <<b>> \in Seq(Instruction)
    BY <2>3, <2>4
  <2> HIDE DEF gain
  <2>9. Brings(<<w>> \o <<b>>, a, 0 + gain)
    BY <2>7, <2>8, BringsJoin, Zenon
  <2>10. <<w>> \o <<b>> \in Seq(Instruction)
    BY <2>8
  <2>11. Brings((<<w>> \o <<b>>) \o <<unwrapIx>>, a, (0 + gain) + 0)
    BY <1>2, <1>u, <2>9, <2>10, BringsJoin, Zenon
  <2>u. unwrapIx \in Instruction
    BY DEF unwrapIx, Instruction
  <2>12. (<<w>> \o <<b>>) \o <<unwrapIx>> = <<w, b, unwrapIx>>
    BY <2>3, <2>4, <2>u, ConcatSmall
  <2>13. (0 + gain) + 0 = gain
    BY <1>0 DEF gain
  <2> QED BY <2>2, <2>11, <2>12, <2>13 DEF ixs, gain
<1>5. CASE "PROFIT" \notin {from, to} /\ from # "SOL"
  <2> DEFINE b == stepIx("sell", from, "SOL", amount, minimum)
  <2>1. from \in Faction /\ to = "SOL"
    BY <1>5, RouteGraph
  <2>2. ixs = <<b, unwrapIx>>
    BY <1>5 DEF buildStepTransaction, buildSolSellTransaction
  <2>3. b \in Instruction /\ b.op = "sell" /\ b.from = from /\ b.to = to /\ b.amount = amount
        /\ b.minimum = minimum
    BY <2>1 DEF stepIx, Instruction
  <2> HIDE DEF ixs, b
  <2>4. Measured(b, a) /\ Gain(b, a) = gain
    BY <2>3 DEF Measured, Gain, Trades, StepGain
  <2>5. Brings(<<b>>, a, gain) /\ <<b>> \in Seq(Instruction)
    BY <2>3, <2>4, TallyOne
  <2> HIDE DEF gain
  <2>6. Brings(<<b>> \o <<unwrapIx>>, a, gain + 0)
    BY <1>2, <1>u, <2>5, BringsJoin, Zenon
  <2>u. unwrapIx \in Instruction
    BY DEF unwrapIx, Instruction
  <2>7. <<b>> \o <<unwrapIx>> = <<b, unwrapIx>>
    BY <2>3, <2>u, ConcatSmall
  <2>8. gain + 0 = gain
    BY <1>0 DEF gain
  <2> QED BY <2>2, <2>6, <2>7, <2>8 DEF ixs, gain
<1> QED BY <1>3, <1>4, <1>5

\* The minimum worked back from a route's slippage is at least the route's; two
\* parts of it lose at most a unit by rounding.
LEMMA SlippageCovers ==
  ASSUME NEW output \in Nat \ {0}, NEW minimum \in 0..output
  PROVE  LET s == ((output - minimum) * BPS_DENOMINATOR) \div output
         IN  /\ AfterSlippage(output, s) >= minimum
             /\ \A x, y \in Nat : x + y = output =>
                  AfterSlippage(x, s) + AfterSlippage(y, s) >= minimum - 1
<1> DEFINE lost == (output - minimum) * BPS_DENOMINATOR
           s == lost \div output
           c == BPS_DENOMINATOR - s
<1>1. s \in 0..BPS_DENOMINATOR /\ lost \in Nat
  <2>1. s \in 0..BPS_DENOMINATOR
    BY SlippageOf
  <2>2. output - minimum \in Nat /\ BPS_DENOMINATOR \in Nat
    BY DEF BPS_DENOMINATOR
  <2> QED BY <2>1, <2>2, ProductNat
<1>2. output * s <= lost
  <2> HIDE DEF lost
  <2> QED BY <1>1, DivBounds
<1>3. lost = output * BPS_DENOMINATOR - minimum * BPS_DENOMINATOR
  BY DEF BPS_DENOMINATOR
<1> HIDE DEF s, lost
<1>4. c \in Nat
  BY <1>1 DEF BPS_DENOMINATOR
<1>5. output * c >= minimum * BPS_DENOMINATOR
  <2>1. output * c = output * BPS_DENOMINATOR - output * s
    BY <1>1 DEF BPS_DENOMINATOR
  <2>2. output * BPS_DENOMINATOR \in Nat /\ minimum * BPS_DENOMINATOR \in Nat /\ output * s \in Nat
    BY <1>1, ProductNat DEF BPS_DENOMINATOR
  <2> QED BY <1>2, <1>3, <2>1, <2>2
<1>6. \A z \in Nat : /\ AfterSlippage(z, s) \in Nat /\ z * c \in Nat
                     /\ z * c < 10000 * AfterSlippage(z, s) + 10000
  <2> TAKE z \in Nat
  <2>1. AfterSlippage(z, s) = (z * c) \div 10000
    BY DEF AfterSlippage, BPS_DENOMINATOR
  <2>2. z * c \in Nat
    BY <1>4, ProductNat
  <2> DEFINE p == z * c
  <2> HIDE DEF p
  <2>3. p \div 10000 \in Nat /\ p < 10000 * (p \div 10000) + 10000
    BY <2>2 DEF p
  <2> QED BY <2>1, <2>2, <2>3 DEF p
<1>7. AfterSlippage(output, s) >= minimum
  <2>1. output * c >= 10000 * minimum
    BY <1>5 DEF BPS_DENOMINATOR
  <2> HIDE DEF c
  <2> QED BY <1>6, <2>1
<1>8. ASSUME NEW x \in Nat, NEW y \in Nat, x + y = output
      PROVE  AfterSlippage(x, s) + AfterSlippage(y, s) >= minimum - 1
  <2>1. x * c + y * c >= 10000 * minimum
    <3>1. x * c + y * c = output * c
      <4> HIDE DEF c
      <4> QED BY <1>4, <1>8
    <3> QED BY <1>5, <3>1 DEF BPS_DENOMINATOR
  <2> HIDE DEF c
  <2> QED BY <1>6, <2>1
<1> QED BY <1>7, <1>8 DEF s, lost

\* A leg of two hops over another token.
LegAt(r, i) ==
  /\ r.steps[i].from = r.from /\ r.steps[i].to = r.steps[i + 1].from
  /\ r.steps[i + 1].to = r.to
  /\ r.steps[i].to \notin {r.from, r.to}

\* What a route tells of what it takes and brings.
DirectTerms(r) ==
  /\ r.split = 0 /\ Len(r.steps) = 1
  /\ r.steps[1].from = r.from /\ r.steps[1].to = r.to
  /\ r.steps[1].input = r.input /\ r.steps[1].output = r.output

DetourTerms(r) ==
  /\ r.split = 0 /\ Len(r.steps) = 2
  /\ LegAt(r, 1)
  /\ r.steps[1].input = r.input /\ r.steps[2].output = r.output

SplitTerms(r) ==
  /\ r.split # 0 /\ Len(r.steps) = 4
  /\ LegAt(r, 1) /\ LegAt(r, 3)
  /\ r.steps[1].input > 0 /\ r.steps[3].input > 0
  /\ r.steps[1].input + r.steps[3].input = r.input
  /\ r.steps[2].output + r.steps[4].output = r.output

RouteTerms(r) ==
  /\ RouteOK(r) /\ r.from # r.to /\ r.input \in Nat \ {0}
  /\ DirectTerms(r) \/ DetourTerms(r) \/ SplitTerms(r)

\* The transaction of a route takes the route's input and brings its minimum, less
\* a unit for the rounding of a split.
LEMMA RouteBrings ==
  ASSUME NEW r, RouteTerms(r)
  PROVE  /\ Brings(buildAtomicRoute(r), r.from, -r.input)
         /\ \E g \in Int : /\ g >= r.minimum - (IF r.split = 0 THEN 0 ELSE 1)
                           /\ Brings(buildAtomicRoute(r), r.to, g)
<1> DEFINE slippageBps == ((r.output - r.minimum) * BPS_DENOMINATOR) \div r.output
           minimum(i) == AfterSlippage(r.steps[i].output, slippageBps)
           input(i) == IF FirstInLeg(r, i) THEN r.steps[i].input
                       ELSE IF IsVault(r.steps[i - 1]) THEN r.steps[i - 1].output
                       ELSE minimum(i - 1)
           part(i) == buildStepTransaction(r.steps[i].from, r.steps[i].to, input(i), minimum(i),
                                           r.steps[i].tax, ~FirstInLeg(r, i))
           parts == [i \in DOMAIN r.steps |-> part(i)]
           n == Len(r.steps)
<1>1. /\ r.steps \in Seq(Hop) /\ n \in Nat \ {0} /\ DOMAIN r.steps = 1..n
      /\ \A i \in 1..n : r.steps[i] \in Hop
  <2>1. r.steps \in Seq(Hop)
    BY DEF RouteOK, RouteTerms
  <2>2. n # 0
    BY DEF RouteTerms, DirectTerms, DetourTerms, SplitTerms
  <2> QED BY <2>1, <2>2, Elements
<1>2. \A i \in 1..n : /\ r.steps[i].input \in Nat /\ r.steps[i].output \in Nat
                      /\ r.steps[i].tax \in 0..BPS_DENOMINATOR
                      /\ <<r.steps[i].from, r.steps[i].to>> \in ROUTE_GRAPH
  BY <1>1 DEF Hop
<1>o. r.output \in Nat \ {0} /\ r.minimum \in 0..r.output
  BY DEF RouteTerms, RouteOK
<1>3. /\ slippageBps \in 0..BPS_DENOMINATOR
      /\ AfterSlippage(r.output, slippageBps) >= r.minimum
      /\ \A x, y \in Nat : x + y = r.output =>
           AfterSlippage(x, slippageBps) + AfterSlippage(y, slippageBps) >= r.minimum - 1
  BY <1>o, SlippageOf, SlippageCovers
<1> HIDE DEF slippageBps, n
<1>4. \A i \in 1..n : minimum(i) \in Nat
  <2> TAKE i \in 1..n
  <2>1. AfterSlippage(r.steps[i].output, slippageBps) \in 0..r.steps[i].output
    BY <1>2, <1>3, AfterSlippageNat
  <2> QED BY <1>2, <2>1
<1>m. \A i \in 1..n : minimum(i) = AfterSlippage(r.steps[i].output, slippageBps)
  OBVIOUS
<1> HIDE DEF minimum
<1>5. \A i \in 1..n : input(i) \in Nat
  <2> TAKE i \in 1..n
  <2>1. CASE FirstInLeg(r, i)
    BY <1>2, <2>1
  <2>2. CASE ~FirstInLeg(r, i)
    <3>1. i # 1
      BY <2>2 DEF FirstInLeg
    <3>2. i - 1 \in 1..n
      BY <1>1, <3>1
    <3>3. r.steps[i - 1].output \in Nat /\ minimum(i - 1) \in Nat
      BY <1>2, <1>4, <3>2
    <3> QED BY <2>2, <3>3
  <2> QED BY <2>1, <2>2
<1>i. \A i \in 1..n : FirstInLeg(r, i) => input(i) = r.steps[i].input
  OBVIOUS
<1> HIDE DEF input
<1>6. ASSUME NEW i \in 1..n
      PROVE  /\ Sound(part(i))
             /\ \A a : (a = r.steps[i].from => FirstInLeg(r, i) /\ r.steps[i].input > 0) =>
                  Brings(part(i), a,
                         StepGain(r.steps[i].from, r.steps[i].to, input(i), minimum(i), a))
  <2> DEFINE multi == ~FirstInLeg(r, i)
  <2>1. multi \in BOOLEAN
    OBVIOUS
  <2>x. FirstInLeg(r, i) <=> ~multi
    OBVIOUS
  <2> HIDE DEF multi
  <2>2. /\ input(i) \in Nat /\ minimum(i) \in Nat /\ r.steps[i].tax \in 0..BPS_DENOMINATOR
        /\ <<r.steps[i].from, r.steps[i].to>> \in ROUTE_GRAPH
    BY <1>2, <1>4, <1>5
  <2>3. Sound(buildStepTransaction(r.steps[i].from, r.steps[i].to, input(i), minimum(i),
                                   r.steps[i].tax, multi))
    BY <2>1, <2>2, StepSound, Zenon
  <2>4. ASSUME NEW a, a = r.steps[i].from => FirstInLeg(r, i) /\ r.steps[i].input > 0
        PROVE  Brings(buildStepTransaction(r.steps[i].from, r.steps[i].to, input(i), minimum(i),
                                   r.steps[i].tax, multi), a,
                      StepGain(r.steps[i].from, r.steps[i].to, input(i), minimum(i), a))
    <3>1. a = r.steps[i].from => ~multi /\ input(i) > 0
      BY <1>i, <2>4, <2>x
    <3> QED BY <2>1, <2>2, <3>1, StepBrings, Zenon
  <2> QED BY <2>3, <2>4 DEF multi
<1>7. Len(parts) = n /\ \A i \in 1..n : parts[i] = part(i)
  <2> HIDE DEF part
  <2> QED BY <1>1
<1>8. buildAtomicRoute(r) = processInstructionsForAtomic(FlattenSeq(parts))
  BY DEF buildAtomicRoute, slippageBps, minimum, input
<1> HIDE DEF part, parts
<1>9. Len(parts) \in Nat \ {0} /\ \A i \in 1..Len(parts) : Sound(parts[i])
  BY <1>1, <1>6, <1>7
<1>10. FlattenSeq(parts) \in Seq(Instruction)
  BY <1>9, FlattenSound DEF Sound
<1>11. ASSUME NEW a, NEW total, \A i \in 1..n : total[i] \in Int,
              Brings(parts[1], a, total[1]),
              \A i \in 2..n : Brings(parts[i], a, total[i] - total[i - 1])
       PROVE  Brings(buildAtomicRoute(r), a, total[n])
  <2>1. Brings(FlattenSeq(parts), a, total[n])
    BY <1>7, <1>9, <1>11, FlattenBrings
  <2> QED BY <1>8, <1>10, <2>1, AtomicBrings
<1>12. r.from # r.to /\ r.input \in Nat \ {0}
  BY DEF RouteTerms
<1> DEFINE gain(i, a) == StepGain(r.steps[i].from, r.steps[i].to, input(i), minimum(i), a)
<1>13. ASSUME NEW i \in 1..n, NEW a,
              a = r.steps[i].from => FirstInLeg(r, i) /\ r.steps[i].input > 0
       PROVE  Brings(parts[i], a, gain(i, a))
  BY <1>6, <1>7, <1>13
<1>14. CASE DirectTerms(r)
  <2>1. /\ n = 1 /\ r.split = 0 /\ FirstInLeg(r, 1) /\ 1 \in 1..n
        /\ r.steps[1].from = r.from /\ r.steps[1].to = r.to
        /\ r.steps[1].input = r.input /\ r.steps[1].output = r.output
    BY <1>14 DEF DirectTerms, FirstInLeg, n
  <2>2. input(1) = r.input /\ minimum(1) \in Nat /\ minimum(1) >= r.minimum
    BY <1>3, <1>4, <1>i, <1>m, <2>1
  <2>3. gain(1, r.from) = -r.input /\ gain(1, r.to) = minimum(1)
    BY <1>12, <2>1, <2>2 DEF StepGain
  <2>4. Brings(parts[1], r.from, -r.input) /\ Brings(parts[1], r.to, minimum(1))
    <3>1. Brings(parts[1], r.from, gain(1, r.from))
      BY <1>12, <1>13, <2>1
    <3>2. Brings(parts[1], r.to, gain(1, r.to))
      BY <1>12, <1>13, <2>1
    <3> QED BY <2>3, <3>1, <3>2
  <2>5. \A i \in 2..n : FALSE
    BY <2>1
  <2>6. ASSUME NEW a, NEW g \in Int, Brings(parts[1], a, g) PROVE Brings(buildAtomicRoute(r), a, g)
    <3> DEFINE total == [i \in 1..1 |-> g]
    <3>1. total[1] = g
      OBVIOUS
    <3> HIDE DEF total
    <3>2. Brings(buildAtomicRoute(r), a, total[n])
      BY <1>11, <2>1, <2>5, <2>6, <3>1
    <3> QED BY <2>1, <3>1, <3>2
  <2>7. -r.input \in Int /\ minimum(1) \in Int
    BY <1>12, <2>2
  <2> QED BY <1>o, <2>1, <2>2, <2>4, <2>6, <2>7
<1>15. CASE DetourTerms(r)
  <2>1. /\ n = 2 /\ r.split = 0 /\ FirstInLeg(r, 1) /\ 1 \in 1..n /\ 2 \in 1..n
        /\ r.steps[1].from = r.from /\ r.steps[1].to = r.steps[2].from /\ r.steps[2].to = r.to
        /\ r.steps[1].to # r.from /\ r.steps[1].to # r.to
        /\ r.steps[1].input = r.input /\ r.steps[2].output = r.output
    BY <1>15 DEF DetourTerms, LegAt, FirstInLeg, n
  <2>2. /\ input(1) = r.input /\ input(2) \in Nat /\ minimum(1) \in Nat
        /\ minimum(2) \in Nat /\ minimum(2) >= r.minimum
    BY <1>3, <1>4, <1>5, <1>i, <1>m, <2>1
  <2>3. gain(1, r.from) = -r.input /\ gain(2, r.from) = 0 /\ gain(1, r.to) = 0
        /\ gain(2, r.to) = minimum(2)
    BY <1>12, <2>1, <2>2 DEF StepGain
  <2>4. Brings(parts[1], r.from, -r.input) /\ Brings(parts[2], r.from, 0)
        /\ Brings(parts[1], r.to, 0) /\ Brings(parts[2], r.to, minimum(2))
    <3>1. Brings(parts[1], r.from, gain(1, r.from)) /\ Brings(parts[1], r.to, gain(1, r.to))
      BY <1>12, <1>13, <2>1
    <3>2. Brings(parts[2], r.from, gain(2, r.from)) /\ Brings(parts[2], r.to, gain(2, r.to))
      BY <1>12, <1>13, <2>1
    <3> HIDE DEF gain
    <3> QED BY <2>3, <3>1, <3>2
  <2>5. ASSUME NEW a, NEW g \in Int, NEW h \in Int, Brings(parts[1], a, g), Brings(parts[2], a, h)
        PROVE  Brings(buildAtomicRoute(r), a, g + h)
    <3> DEFINE total == [i \in 1..2 |-> IF i = 1 THEN g ELSE g + h]
    <3>1. total[1] = g /\ total[2] = g + h /\ total[2] - total[1] = h
      OBVIOUS
    <3> HIDE DEF total
    <3>2. \A i \in 2..n : i = 2 /\ i - 1 = 1
      BY <2>1
    <3>3. \A i \in 1..n : total[i] \in Int
      BY <2>1, <3>1
    <3>4. \A i \in 2..n : Brings(parts[i], a, total[i] - total[i - 1])
      BY <2>5, <3>1, <3>2
    <3>5. Brings(buildAtomicRoute(r), a, total[n])
      BY <1>11, <2>5, <3>1, <3>3, <3>4
    <3> QED BY <2>1, <3>1, <3>5
  <2>6. -r.input \in Int /\ minimum(2) \in Int /\ -r.input + 0 = -r.input
        /\ 0 + minimum(2) = minimum(2)
    BY <1>12, <2>2
  <2>7. Brings(buildAtomicRoute(r), r.from, -r.input) /\ Brings(buildAtomicRoute(r), r.to, minimum(2))
    <3>1. Brings(buildAtomicRoute(r), r.from, -r.input + 0)
      BY <2>4, <2>5, <2>6
    <3>2. Brings(buildAtomicRoute(r), r.to, 0 + minimum(2))
      BY <2>4, <2>5, <2>6
    <3> QED BY <2>6, <3>1, <3>2
  <2> QED BY <1>o, <2>1, <2>2, <2>6, <2>7
<1>16. CASE SplitTerms(r)
  <2>1. /\ n = 4 /\ r.split # 0 /\ 1 \in 1..n /\ 2 \in 1..n /\ 3 \in 1..n /\ 4 \in 1..n
        /\ r.steps[1].from = r.from /\ r.steps[1].to = r.steps[2].from /\ r.steps[2].to = r.to
        /\ r.steps[1].to # r.from /\ r.steps[1].to # r.to
        /\ r.steps[3].from = r.from /\ r.steps[3].to = r.steps[4].from /\ r.steps[4].to = r.to
        /\ r.steps[3].to # r.from /\ r.steps[3].to # r.to
        /\ r.steps[1].input > 0 /\ r.steps[3].input > 0
        /\ r.steps[1].input + r.steps[3].input = r.input
        /\ r.steps[2].output + r.steps[4].output = r.output
    BY <1>16 DEF SplitTerms, LegAt, n
  <2>f. FirstInLeg(r, 1) /\ FirstInLeg(r, 3)
    BY <2>1 DEF FirstInLeg
  <2>2. /\ input(1) = r.steps[1].input /\ input(3) = r.steps[3].input
        /\ input(1) \in Nat /\ input(2) \in Nat /\ input(3) \in Nat /\ input(4) \in Nat
        /\ minimum(1) \in Nat /\ minimum(2) \in Nat /\ minimum(3) \in Nat /\ minimum(4) \in Nat
    BY <1>4, <1>5, <1>i, <2>1, <2>f
  <2>m. minimum(2) + minimum(4) >= r.minimum - 1
    <3>1. r.steps[2].output \in Nat /\ r.steps[4].output \in Nat
      BY <1>2, <2>1
    <3> QED BY <1>3, <1>m, <2>1, <3>1
  <2>3. /\ gain(1, r.from) = -input(1) /\ gain(2, r.from) = 0
        /\ gain(3, r.from) = -input(3) /\ gain(4, r.from) = 0
        /\ gain(1, r.to) = 0 /\ gain(2, r.to) = minimum(2)
        /\ gain(3, r.to) = 0 /\ gain(4, r.to) = minimum(4)
    BY <1>12, <2>1, <2>2 DEF StepGain
  <2>4. /\ Brings(parts[1], r.from, -input(1)) /\ Brings(parts[2], r.from, 0)
        /\ Brings(parts[3], r.from, -input(3)) /\ Brings(parts[4], r.from, 0)
        /\ Brings(parts[1], r.to, 0) /\ Brings(parts[2], r.to, minimum(2))
        /\ Brings(parts[3], r.to, 0) /\ Brings(parts[4], r.to, minimum(4))
    <3>1. Brings(parts[1], r.from, gain(1, r.from)) /\ Brings(parts[1], r.to, gain(1, r.to))
      BY <1>12, <1>13, <2>1, <2>f
    <3>2. Brings(parts[2], r.from, gain(2, r.from)) /\ Brings(parts[2], r.to, gain(2, r.to))
      BY <1>12, <1>13, <2>1
    <3>3. Brings(parts[3], r.from, gain(3, r.from)) /\ Brings(parts[3], r.to, gain(3, r.to))
      BY <1>12, <1>13, <2>1, <2>f
    <3>4. Brings(parts[4], r.from, gain(4, r.from)) /\ Brings(parts[4], r.to, gain(4, r.to))
      BY <1>12, <1>13, <2>1
    <3> HIDE DEF gain
    <3> QED BY <2>3, <3>1, <3>2, <3>3, <3>4
  <2>5. ASSUME NEW a, NEW g \in Int, NEW h \in Int, NEW j \in Int, NEW k \in Int,
               Brings(parts[1], a, g), Brings(parts[2], a, h),
               Brings(parts[3], a, j), Brings(parts[4], a, k)
        PROVE  Brings(buildAtomicRoute(r), a, g + h + j + k)
    <3> DEFINE total == [i \in 1..4 |-> IF i = 1 THEN g ELSE IF i = 2 THEN g + h
                                        ELSE IF i = 3 THEN g + h + j ELSE g + h + j + k]
    <3>1. /\ total[1] = g /\ total[2] = g + h /\ total[3] = g + h + j /\ total[4] = g + h + j + k
          /\ total[2] - total[1] = h /\ total[3] - total[2] = j /\ total[4] - total[3] = k
      OBVIOUS
    <3> HIDE DEF total
    <3>2. \A i \in 2..n : (i = 2 /\ i - 1 = 1) \/ (i = 3 /\ i - 1 = 2) \/ (i = 4 /\ i - 1 = 3)
      <4>1. n = 4
        BY <2>1
      <4> HIDE DEF n
      <4> QED BY <4>1
    <3>3. \A i \in 1..n : total[i] \in Int
      BY <2>1, <3>1
    <3>4. \A i \in 2..n : Brings(parts[i], a, total[i] - total[i - 1])
      BY <2>5, <3>1, <3>2
    <3>5. Brings(buildAtomicRoute(r), a, total[n])
      BY <1>11, <2>5, <3>1, <3>3, <3>4
    <3> QED BY <2>1, <3>1, <3>5
  <2>6. /\ -input(1) \in Int /\ -input(3) \in Int /\ minimum(2) \in Int /\ minimum(4) \in Int
        /\ -input(1) + 0 + -input(3) + 0 = -r.input
        /\ 0 + minimum(2) + 0 + minimum(4) = minimum(2) + minimum(4)
    BY <1>12, <2>1, <2>2
  <2>7. /\ Brings(buildAtomicRoute(r), r.from, -r.input)
        /\ Brings(buildAtomicRoute(r), r.to, minimum(2) + minimum(4))
    <3>1. Brings(buildAtomicRoute(r), r.from, -input(1) + 0 + -input(3) + 0)
      BY <2>4, <2>5, <2>6
    <3>2. Brings(buildAtomicRoute(r), r.to, 0 + minimum(2) + 0 + minimum(4))
      BY <2>4, <2>5, <2>6
    <3> QED BY <2>6, <3>1, <3>2
  <2> QED BY <1>o, <2>1, <2>m, <2>6, <2>7
<1> QED BY <1>14, <1>15, <1>16 DEF RouteTerms

\* What the quotes of a path take.
LEMMA QuoteInput ==
  ASSUME NEW view, NEW from, NEW to, NEW amount
  PROVE  quoteStep(view, from, to, amount).input = amount
BY DEF quoteStep

LEMMA GraphIrreflexive == \A a, b : <<a, b>> \in ROUTE_GRAPH => a # b
<1>1. "SOL" \notin Faction /\ "PROFIT" \notin Faction
  BY DEF Faction
<1> QED BY <1>1 DEF ROUTE_GRAPH

Takes(steps, amount) == steps[1].input = amount

LEMMA PathInput ==
  ASSUME NEW view, NEW a, NEW v, NEW b, NEW amount
  PROVE  /\ Takes(quoteSteps(view, <<a, b>>, amount), amount)
         /\ Takes(quoteSteps(view, <<a, v, b>>, amount), amount)
<1>1. quoteSteps(view, <<a, b>>, amount) = <<quoteStep(view, a, b, amount)>>
  BY DEF quoteSteps
<1> DEFINE s == quoteStep(view, a, v, amount)
           u == quoteStep(view, v, b, s.output)
<1>2. quoteSteps(view, <<a, v, b>>, amount) = <<s, u>>
  BY DEF quoteSteps
<1>3. s.input = amount /\ quoteStep(view, a, b, amount).input = amount
  BY QuoteInput
<1> HIDE DEF s, u
<1>4. <<s, u>>[1] = s
  OBVIOUS
<1> QED BY <1>1, <1>2, <1>3, <1>4 DEF Takes

LEMMA SingleRoutesTerms ==
  ASSUME NEW view \in LedgerView, NEW from \in Token, NEW to \in Token, from # to,
         NEW amount \in Nat \ {0}, NEW slippageBps \in 0..BPS_DENOMINATOR,
         NEW r \in computeRoutes(view, from, to, amount, slippageBps)
  PROVE  RouteTerms(r)
<1>0. RouteOK(r) /\ r.from = from /\ r.to = to
  BY SingleRoutesOK
<1> DEFINE steps(path) == quoteSteps(view, path, amount)
           route(path) == RouteOf(steps(path), from, to, amount,
                                  steps(path)[Len(steps(path))].output, slippageBps, 0)
<1>1. PICK path \in enumeratePaths(from, to) : r = route(path)
  BY DEF computeRoutes
<1>2. PICK s : s = quoteSteps(view, path, amount)
  OBVIOUS
<1>3. r = RouteOf(s, from, to, amount, s[Len(s)].output, slippageBps, 0)
  BY <1>1, <1>2
<1> HIDE DEF route, steps
<1>4. r.steps = s /\ r.split = 0 /\ r.input = amount /\ r.output = s[Len(s)].output
  BY <1>3 DEF RouteOf
<1>5. \/ path = <<from, to>> /\ <<from, to>> \in ROUTE_GRAPH
      \/ \E v : /\ path = <<from, v, to>> /\ v # to
                /\ <<from, v>> \in ROUTE_GRAPH /\ <<v, to>> \in ROUTE_GRAPH
  BY <1>1 DEF enumeratePaths
<1>6. CASE path = <<from, to>> /\ <<from, to>> \in ROUTE_GRAPH
  <2>1. Len(s) = 1 /\ s[1].from = from /\ s[1].to = to
    BY <1>2, <1>6, QuoteStepsOne
  <2>2. s[1].input = amount
    <3>1. Takes(quoteSteps(view, <<from, to>>, amount), amount)
      BY PathInput, Zenon
    <3> QED BY <1>2, <1>6, <3>1 DEF Takes
  <2>3. DirectTerms(r)
    BY <1>0, <1>4, <2>1, <2>2 DEF DirectTerms
  <2> QED BY <1>0, <1>4, <2>3 DEF RouteTerms
<1>7. CASE \E v : /\ path = <<from, v, to>> /\ v # to
                  /\ <<from, v>> \in ROUTE_GRAPH /\ <<v, to>> \in ROUTE_GRAPH
  <2>1. PICK v : /\ path = <<from, v, to>> /\ v # to
                 /\ <<from, v>> \in ROUTE_GRAPH /\ <<v, to>> \in ROUTE_GRAPH
    BY <1>7
  <2>2. TwoHops(s, from, v, to)
    BY <1>2, <2>1, QuoteStepsTwo, Zenon
  <2>3. s[1].input = amount
    <3>1. Takes(quoteSteps(view, <<from, v, to>>, amount), amount)
      BY PathInput, Zenon
    <3> QED BY <1>2, <2>1, <3>1 DEF Takes
  <2>4. v # from
    BY <2>1, GraphIrreflexive
  <2>5. Len(s) = 2 /\ s[1].from = from /\ s[1].to = v /\ s[1 + 1].from = v /\ s[1 + 1].to = to
    BY <2>2 DEF TwoHops
  <2>6. LegAt(r, 1)
    BY <1>0, <1>4, <2>1, <2>4, <2>5 DEF LegAt
  <2>7. DetourTerms(r)
    BY <1>0, <1>4, <2>3, <2>5, <2>6 DEF DetourTerms
  <2> QED BY <1>0, <1>4, <2>7 DEF RouteTerms
<1> QED BY <1>5, <1>6, <1>7

LEMMA SplitRouteTerms ==
  ASSUME NEW view \in LedgerView, NEW from \in Token, NEW to \in Token, from # to,
         isSplitEligible(from, to), NEW amount \in Nat \ {0},
         NEW slippageBps \in 0..BPS_DENOMINATOR,
         NEW p \in computeOptimalSplit(view, from, to, amount, slippageBps)
  PROVE  RouteTerms(buildSplitRoute(view, from, to, amount, p, slippageBps))
<1> DEFINE inputA == (amount * p) \div 100
           inputB == amount - inputA
           out == SplitOutput(view, from, to, amount, p)
<1>1. p \in 1..99 /\ inputA \in 1..(amount - 1)
  BY RatioAssumption DEF computeOptimalSplit
<1> HIDE DEF inputA
<1>2. inputA \in Nat /\ inputA > 0 /\ inputB \in Nat /\ inputB > 0 /\ inputA + inputB = amount
  BY <1>1
<1> HIDE DEF inputB
<1>3. PICK a : a = quoteSteps(view, <<from, "CRIME", to>>, inputA)
  OBVIOUS
<1>4. PICK b : b = quoteSteps(view, <<from, "FRAUD", to>>, inputB)
  OBVIOUS
<1>5. PICK steps : steps = SplitSteps(view, from, to, amount, p)
  OBVIOUS
<1>6. steps = a \o b
  BY <1>3, <1>4, <1>5 DEF SplitSteps, inputA, inputB
<1>7. \A f \in {"CRIME", "FRAUD"} : <<from, f>> \in ROUTE_GRAPH /\ <<f, to>> \in ROUTE_GRAPH
  BY RouteGraph DEF isSplitEligible, Faction
<1>8. TwoHops(a, from, "CRIME", to) /\ TwoHops(b, from, "FRAUD", to)
  BY <1>2, <1>3, <1>4, <1>7, QuoteStepsTwo, Zenon
<1>9. a[1].input = inputA /\ b[1].input = inputB
  <2>1. /\ Takes(quoteSteps(view, <<from, "CRIME", to>>, inputA), inputA)
        /\ Takes(quoteSteps(view, <<from, "FRAUD", to>>, inputB), inputB)
    BY PathInput, Zenon
  <2> QED BY <1>3, <1>4, <2>1 DEF Takes
<1>10. Four(Hop, a, b, steps)
  <2>1. a \in Seq(Hop) /\ Len(a) = 2 /\ b \in Seq(Hop) /\ Len(b) = 2
    BY <1>8 DEF TwoHops
  <2> QED BY <1>6, <2>1, JoinedPairs, Zenon
<1>11. out = steps[2].output + steps[4].output
  BY <1>5 DEF SplitOutput
<1> HIDE DEF out
<1>12. PICK r : r = buildSplitRoute(view, from, to, amount, p, slippageBps)
  OBVIOUS
<1>13. RouteOK(r) /\ r.from = from /\ r.to = to
  <2>1. /\ RouteOK(buildSplitRoute(view, from, to, amount, p, slippageBps))
        /\ buildSplitRoute(view, from, to, amount, p, slippageBps).from = from
        /\ buildSplitRoute(view, from, to, amount, p, slippageBps).to = to
    BY SplitRouteOK
  <2> QED BY <1>12, <2>1
<1>14. r.steps = steps /\ r.split = p /\ r.input = amount /\ r.output = out
  BY <1>5, <1>12 DEF buildSplitRoute, RouteOf, out
<1>15. from \notin Faction /\ to \notin Faction
  BY DEF isSplitEligible, Faction
<1>16. /\ Len(steps) = 4
       /\ steps[1].from = from /\ steps[1].to = "CRIME" /\ steps[1 + 1].from = "CRIME"
       /\ steps[1 + 1].to = to
       /\ steps[3].from = from /\ steps[3].to = "FRAUD" /\ steps[3 + 1].from = "FRAUD"
       /\ steps[3 + 1].to = to
       /\ steps[1].input = inputA /\ steps[3].input = inputB
  BY <1>8, <1>9, <1>10 DEF TwoHops, Four
<1>17. LegAt(r, 1) /\ LegAt(r, 3)
  BY <1>13, <1>14, <1>15, <1>16 DEF LegAt, Faction
<1>18. SplitTerms(r)
  <2>1. p # 0
    BY <1>1
  <2> QED BY <1>2, <1>11, <1>14, <1>16, <1>17, <2>1 DEF SplitTerms
<1>19. RouteTerms(r)
  BY <1>13, <1>14, <1>18 DEF RouteTerms
<1> QED BY <1>12, <1>19

LEMMA RoutesTerms ==
  ASSUME NEW view \in LedgerView, NEW from \in Token, NEW to \in Token, from # to,
         NEW amount \in Nat \ {0}, NEW slippageBps \in 0..BPS_DENOMINATOR,
         NEW r \in AllRoutes(view, from, to, amount, slippageBps)
  PROVE  RouteTerms(r)
<1>1. CASE r \in computeRoutes(view, from, to, amount, slippageBps)
  BY <1>1, SingleRoutesTerms
<1>2. CASE r \notin computeRoutes(view, from, to, amount, slippageBps)
  <2>1. /\ isSplitEligible(from, to)
        /\ \E p \in computeOptimalSplit(view, from, to, amount, slippageBps) :
             r = buildSplitRoute(view, from, to, amount, p, slippageBps)
    BY <1>2 DEF AllRoutes
  <2> QED BY <2>1, SplitRouteTerms
<1> QED BY <1>1, <1>2

--------------------------------------------------------------------------------
(* The terms of what is sent. *)

OrderTerms(order) ==
  LET t == order.terms
  IN /\ t.from \in Token /\ t.to \in Token /\ t.amount \in Nat /\ t.minimum \in Nat
     /\ t.legs \in {1, 2}
     /\ Brings(order.instructions, t.from, -t.amount)
     /\ \E g \in Int : g >= t.minimum - (t.legs - 1) /\ Brings(order.instructions, t.to, g)

\* The form shows two tokens and keeps a route that knows its terms; so does every
\* transaction under way.
TermsInv ==
  /\ form.from # form.to
  /\ form.route # NoRoute => RouteTerms(form.route)
  /\ \A order \in inflight : OrderTerms(order)

LEMMA SentTerms ==
  ASSUME TradingInv, TermsInv, CanSend(form)
  PROVE  OrderTerms(Order(form))
<1> USE DEF TradingInv
<1>1. /\ form.route # NoRoute /\ RouteTerms(form.route) /\ RouteOK(form.route)
      /\ form.amount \in Nat /\ form.amount > 0 /\ form.from # form.to
      /\ form.from \in Token /\ form.to \in Token
  BY DEF CanSend, TermsInv, FormOK
<1>2. CASE IsDirect(form.route)
  <2> DEFINE from == form.from
             to == form.to
             taxBps == IF from = "SOL" THEN seen.taxes[to].buy ELSE 0
             ixs == buildStepTransaction(from, to, form.amount, form.quote, taxBps, FALSE)
  <2>1. form.quote \in Nat /\ form.route.from = from /\ form.route.to = to
    BY <1>1, <1>2 DEF CanSend, FormOK
  <2>2. <<from, to>> \in ROUTE_GRAPH
    <3>1. form.route.steps[1].from = from /\ form.route.steps[1].to = to
      BY <1>1, <1>2, <2>1 DEF RouteOK, SinglePath, SplitPath, IsDirect
    <3>2. form.route.steps[1] \in Hop
      <4>1. form.route.steps \in Seq(Hop) /\ Len(form.route.steps) = 1
        BY <1>1, <1>2 DEF RouteOK, IsDirect
      <4> QED BY <4>1, Elements
    <3> QED BY <3>1, <3>2 DEF Hop
  <2>3. taxBps \in 0..BPS_DENOMINATOR
    <3>1. CASE from = "SOL"
      <4>1. to \in Faction
        BY <2>2, <3>1 DEF ROUTE_GRAPH, Faction
      <4> QED BY <3>1, <4>1 DEF LedgerView
    <3>2. CASE from # "SOL"
      BY <3>2 DEF BPS_DENOMINATOR
    <3> QED BY <3>1, <3>2
  <2>4. Order(form).instructions = ixs /\ Order(form).terms = Terms(from, to, form.amount, form.quote, 1)
    BY <1>2 DEF Order, executeSwap
  <2> HIDE DEF taxBps
  <2>5. \A a : Brings(ixs, a, StepGain(from, to, form.amount, form.quote, a))
    BY <1>1, <2>1, <2>2, <2>3, StepBrings
  <2>6. StepGain(from, to, form.amount, form.quote, from) = -form.amount
        /\ StepGain(from, to, form.amount, form.quote, to) = form.quote
    BY <1>1, <2>1 DEF StepGain
  <2> HIDE DEF ixs
  <2>7. Brings(ixs, from, -form.amount) /\ Brings(ixs, to, form.quote)
    BY <2>5, <2>6
  <2>8. form.quote \in Int /\ form.quote >= form.quote - (1 - 1)
    BY <2>1
  <2> DEFINE order == Order(form)
  <2>9. /\ order.terms.from = from /\ order.terms.to = to /\ order.terms.amount = form.amount
        /\ order.terms.minimum = form.quote /\ order.terms.legs = 1
    BY <2>4 DEF Terms
  <2> HIDE DEF order
  <2> QED BY <1>1, <2>1, <2>4, <2>7, <2>8, <2>9 DEF OrderTerms, order
<1>3. CASE ~IsDirect(form.route)
  <2>1. PICK r : r = form.route
    OBVIOUS
  <2>2. /\ Order(form).instructions = buildAtomicRoute(r)
        /\ Order(form).terms = Terms(r.from, r.to, r.input, r.minimum,
                                     IF r.split = 0 THEN 1 ELSE 2)
    BY <1>3, <2>1 DEF Order, executeRoute
  <2>3. RouteTerms(r)
    BY <1>1, <2>1
  <2>4. r.from \in Token /\ r.to \in Token /\ r.input \in Nat /\ r.minimum \in Nat
    BY <2>3 DEF RouteTerms, RouteOK
  <2>5. /\ Brings(buildAtomicRoute(r), r.from, -r.input)
        /\ \E g \in Int : /\ g >= r.minimum - (IF r.split = 0 THEN 0 ELSE 1)
                          /\ Brings(buildAtomicRoute(r), r.to, g)
    BY <2>3, RouteBrings
  <2>6. PICK legs : legs = IF r.split = 0 THEN 1 ELSE 2
    OBVIOUS
  <2>7. legs \in {1, 2} /\ legs - 1 = IF r.split = 0 THEN 0 ELSE 1
    BY <2>6
  <2> DEFINE order == Order(form)
  <2>8. /\ order.terms.from = r.from /\ order.terms.to = r.to /\ order.terms.amount = r.input
        /\ order.terms.minimum = r.minimum /\ order.terms.legs = legs
    BY <2>2, <2>6 DEF Terms
  <2> HIDE DEF order
  <2> QED BY <2>2, <2>4, <2>5, <2>7, <2>8 DEF OrderTerms, order
<1> QED BY <1>2, <1>3

LEMMA TermsInit == Init => TermsInv
<1> SUFFICES ASSUME Init PROVE TermsInv
  OBVIOUS
<1>1. PICK p \in Pairs : form = Cleared(p[1], p[2], NoRoute)
  BY DEF Init
<1>2. p[1] # p[2]
  BY TradingAssumption
<1> QED BY <1>1, <1>2 DEF TermsInv, Cleared, Init

LEMMA TermsStep == TradingInv /\ TermsInv /\ [Next]_vars => TermsInv'
<1> SUFFICES ASSUME TradingInv, TermsInv, [Next]_vars PROVE TermsInv'
  OBVIOUS
<1> USE DEF TermsInv
<1>0. /\ SlippageBps \in 0..BPS_DENOMINATOR /\ seen \in LedgerView
      /\ form.from \in Token /\ form.to \in Token /\ form.amount \in Nat
  BY TradingAssumption DEF TradingInv, FormOK
<1>f. form = [from |-> form.from, to |-> form.to, amount |-> form.amount,
              route |-> form.route, quote |-> form.quote, status |-> form.status]
  BY DEF TradingInv, FormOK
<1>r. ASSUME form.amount > 0, NEW r \in AllRoutes(seen, form.from, form.to, form.amount, SlippageBps)
      PROVE  RouteTerms(r)
  BY <1>0, <1>r, RoutesTerms
<1>1. ASSUME NEW a \in Amounts[form.from], setInputAmount(a) PROVE TermsInv'
  BY <1>1, <1>f DEF setInputAmount
<1>2. ASSUME NEW p \in Pairs, setTokens(p[1], p[2]) PROVE TermsInv'
  <2>1. p[1] # p[2]
    BY TradingAssumption
  <2> QED BY <1>2, <2>1 DEF setTokens, Cleared
<1>3. CASE computeAllRoutes
  <2> DEFINE routes == AllRoutes(seen, form.from, form.to, form.amount, SlippageBps)
  <2>1. PICK r \in selectedRoutes(routes, form.route) :
          form' = [form EXCEPT !.route = r, !.quote = IF r = NoRoute THEN NoQuote ELSE r.minimum]
    BY <1>3 DEF computeAllRoutes
  <2>2. r # NoRoute => r \in routes
    <3> HIDE DEF routes
    <3> QED BY SelectedRoute
  <2>3. r # NoRoute => RouteTerms(r)
    BY <1>3, <1>r, <2>2 DEF computeAllRoutes
  <2>4. form'.from = form.from /\ form'.to = form.to /\ form'.route = r
    BY <1>f, <2>1
  <2> QED BY <1>3, <2>3, <2>4 DEF computeAllRoutes
<1>4. CASE selectRoute
  <2>1. PICK r \in AllRoutes(seen, form.from, form.to, form.amount, SlippageBps) :
          form' = [form EXCEPT !.route = r, !.quote = r.minimum]
    BY <1>4 DEF selectRoute
  <2>2. RouteTerms(r)
    BY <1>4, <1>r DEF selectRoute
  <2>3. form'.from = form.from /\ form'.to = form.to /\ form'.route = r
    BY <1>f, <2>1
  <2> QED BY <1>4, <2>2, <2>3 DEF selectRoute
<1>5. CASE Observe
  BY <1>5 DEF Observe
<1>6. CASE Send
  <2>1. OrderTerms(Order(form))
    BY <1>6, SentTerms DEF Send
  <2>2. inflight' = inflight \cup {Order(form)}
    BY <1>6 DEF Send
  <2>3. form'.from = form.from /\ form'.to = form.to /\ form'.route = form.route
    BY <1>6, <1>f DEF Send
  <2> QED BY <2>1, <2>2, <2>3
<1>7. CASE pollTransactionConfirmation
  BY <1>7, <1>f DEF pollTransactionConfirmation
<1>8. CASE resetForm
  BY <1>8 DEF resetForm, Cleared
<1>9. CASE Land \/ Expire
  <2>1. inflight' \subseteq inflight /\ form' = form
    BY <1>9 DEF Land, Expire
  <2> QED BY <2>1
<1>10. CASE RivalTrade \/ NewEpoch \/ UNCHANGED vars
  BY <1>10 DEF RivalTrade, NewEpoch, vars
<1> QED BY <1>1, <1>2, <1>3, <1>4, <1>5, <1>6, <1>7, <1>8, <1>9, <1>10 DEF Next

\* A transaction that lands keeps its terms.
LEMMA LandingKeepsTerms ==
  ASSUME TradingInv, TermsInv, NEW order \in inflight,
         NEW after, after = Execute(ledger, order.instructions), after.ok
  PROVE  /\ ledger.wallet[order.terms.from] - after.wallet[order.terms.from]
              <= order.terms.amount
         /\ after.wallet[order.terms.to] - ledger.wallet[order.terms.to]
              >= order.terms.minimum - (order.terms.legs - 1)
<1>1. /\ ledger \in Ledger /\ Fair(ledger) /\ ledger.wallet["WSOL"] = 0
      /\ Sound(order.instructions)
  BY DEF TradingInv, LedgerOK, NoSolStaysWrapped, OrdersOK
<1>2. order.instructions \in Seq(Instruction) /\ Tidy(order.instructions)
  BY <1>1 DEF Sound
<1>3. after \in Ledger /\ after.wallet["WSOL"] = 0
  BY <1>1, <1>2, ExecuteKeeps, TidyLeavesNone
<1>4. ASSUME NEW a \in Token
      PROVE  Worth(ledger, a) = ledger.wallet[a] /\ Worth(after, a) = after.wallet[a]
             /\ ledger.wallet[a] \in Nat /\ after.wallet[a] \in Nat
  BY <1>1, <1>3, WorthNat DEF Worth
<1>5. OrderTerms(order)
  BY DEF TermsInv
<1> DEFINE t == order.terms
<1>6. /\ t.from \in Token /\ t.to \in Token /\ t.amount \in Nat /\ t.minimum \in Nat
      /\ t.legs \in {1, 2} /\ Brings(order.instructions, t.from, -t.amount)
  BY <1>5 DEF OrderTerms
<1>7. PICK g \in Int : g >= t.minimum - (t.legs - 1) /\ Brings(order.instructions, t.to, g)
  BY <1>5 DEF OrderTerms
<1> HIDE DEF t
<1>8. Worth(after, t.from) >= Worth(ledger, t.from) + (-t.amount)
  BY <1>1, <1>2, <1>6, ExecuteBrings
<1>9. Worth(after, t.to) >= Worth(ledger, t.to) + g
  BY <1>1, <1>2, <1>6, <1>7, ExecuteBrings
<1>10. ledger.wallet[t.from] - after.wallet[t.from] <= t.amount
  BY <1>4, <1>6, <1>8
<1>11. after.wallet[t.to] - ledger.wallet[t.to] >= t.minimum - (t.legs - 1)
  <2>1. t.minimum - (t.legs - 1) \in Int
    BY <1>6
  <2> HIDE DEF t
  <2> QED BY <1>4, <1>6, <1>7, <1>9, <2>1
<1> QED BY <1>10, <1>11 DEF t

LEMMA TermsOfStep ==
  ASSUME TradingInv, TermsInv, [Next]_vars, NEW order \in inflight \ inflight', ledger' # ledger
  PROVE  /\ ledger.wallet[order.terms.from] - ledger'.wallet[order.terms.from]
              <= order.terms.amount
         /\ ledger'.wallet[order.terms.to] - ledger.wallet[order.terms.to]
              >= order.terms.minimum - (order.terms.legs - 1)
<1>1. Land
  BY DEF Next, vars, setInputAmount, setTokens, computeAllRoutes, selectRoute, Observe, Send,
         pollTransactionConfirmation, resetForm, Expire, RivalTrade, NewEpoch
<1>2. PICK o \in inflight :
        LET after == Execute(ledger, o.instructions)
        IN  ledger' = (IF after.ok THEN after ELSE ledger) /\ inflight' = inflight \ {o}
  BY <1>1 DEF Land
<1>3. o = order
  BY <1>2
<1>4. PICK after : after = Execute(ledger, order.instructions)
  OBVIOUS
<1>5. after.ok /\ ledger' = after
  BY <1>2, <1>3, <1>4
<1> QED BY <1>4, <1>5, LandingKeepsTerms

\* A transaction that lands takes no more than the user agreed to and brings the
\* minimum shown, for every pool, rate and amount, whatever came in between
\* (executeRoute, swap_sol_buy, swap_sol_sell, convert_v2, buildAtomicRoute).
THEOREM RoutesAlwaysKeepTheirTerms == Spec => RoutesKeepTheirTerms
<1>1. Init => TermsInv
  BY TermsInit
<1>2. TradingInv /\ TermsInv /\ [Next]_vars => TermsInv'
  BY TermsStep
<1>3. TradingInv /\ TermsInv /\ [Next]_vars =>
        [\A order \in inflight \ inflight' :
           ledger' # ledger =>
             /\ ledger.wallet[order.terms.from] - ledger'.wallet[order.terms.from]
                  <= order.terms.amount
             /\ ledger'.wallet[order.terms.to] - ledger.wallet[order.terms.to]
                  >= order.terms.minimum - (order.terms.legs - 1)]_vars
  BY TermsOfStep
<1>4. Spec => []TermsInv
  BY <1>1, <1>2, TradingAlways, PTL DEF Spec
<1> QED BY <1>3, <1>4, TradingAlways, PTL DEF Spec, RoutesKeepTheirTerms
=================================================================================
