------------------------------ MODULE SwapRoutes ------------------------------
(***************************************************************************)
(* How the web application prices a trade and turns it into a transaction: *)
(* the quote engine, the route engine with its split router, and the       *)
(* transaction builders (app/lib/swap).                                    *)
(*                                                                         *)
(* A view is what the application last saw of the chain: the pools and the *)
(* tax rates.  A step is [from, to, input, output, tax]; a route is        *)
(* [steps, from, to, input, output, minimum, split], where split is the    *)
(* percentage sent through CRIME, or 0 for a route that is not split.      *)
(*                                                                         *)
(* A definition named X_Something, just before X, is X with a mistake the  *)
(* properties are meant to catch; nothing uses it.                         *)
(***************************************************************************)
EXTENDS Swaps

CONSTANTS
  SPLIT_RATIOS,                      \* the percentages the split router tries (1..99)
  SPLIT_THRESHOLD_BPS,               \* least gain that makes a split worth while (50)
  FLICKER_THRESHOLD_BPS              \* least gain that changes the selection (10)

ASSUME RatioAssumption == SPLIT_RATIOS \subseteq 1..99 /\ SPLIT_THRESHOLD_BPS \in Nat

ROUTE_GRAPH == ({"SOL"} \X Faction) \cup (Faction \X {"SOL"})
                 \cup ({"PROFIT"} \X Faction) \cup (Faction \X {"PROFIT"})

IsVault(step) == "PROFIT" \in {step.from, step.to}

(***************************************************************************)
(* The quote engine.                                                       *)
(***************************************************************************)
calculateEffectiveInput(amountIn, feeBps) ==
  (amountIn * (BPS_DENOMINATOR - feeBps)) \div BPS_DENOMINATOR

calculateSwapOutput(reserveIn, reserveOut, effectiveInput) ==
  IF reserveIn + effectiveInput = 0 THEN 0
  ELSE (reserveOut * effectiveInput) \div (reserveIn + effectiveInput)

calculateTax(amount, taxBps) == (amount * taxBps) \div BPS_DENOMINATOR

quoteSolBuy(amount, pool, taxBps) ==
  calculateSwapOutput(pool.sol, pool.token,
    calculateEffectiveInput(amount - calculateTax(amount, taxBps), SOL_POOL_FEE_BPS))

quoteSolSell(amount, pool, taxBps) ==
  LET gross == calculateSwapOutput(pool.token, pool.sol,
                 calculateEffectiveInput(amount, SOL_POOL_FEE_BPS))
  IN gross - calculateTax(gross, taxBps)

quoteVaultConvert(amount, isProfitInput) ==
  IF isProfitInput THEN amount * CONVERSION_RATE ELSE amount \div CONVERSION_RATE

(***************************************************************************)
(* The route engine.                                                       *)
(***************************************************************************)
quoteStep(view, from, to, amount) ==
  LET step(tax, output) == [from |-> from, to |-> to, input |-> amount,
                            output |-> output, tax |-> tax]
  IN IF "PROFIT" \in {from, to}
       THEN step(0, quoteVaultConvert(amount, from = "PROFIT"))
     ELSE IF from = "SOL"
       THEN step(view.taxes[to].buy, quoteSolBuy(amount, view.pools[to], view.taxes[to].buy))
     ELSE step(view.taxes[from].sell,
               quoteSolSell(amount, view.pools[from], view.taxes[from].sell))

\* The direct pair, and every detour over one other token.
enumeratePaths(from, to) ==
  {<<from, to>> : e \in ROUTE_GRAPH \cap {<<from, to>>}}
    \cup {<<from, via, to>> : via \in {t \in Token \ {to} :
                                         {<<from, t>>, <<t, to>>} \subseteq ROUTE_GRAPH}}

\* The output of a step is the input of the next.
quoteSteps(view, path, amount) ==
  LET first == quoteStep(view, path[1], path[2], amount)
  IN IF Len(path) = 2 THEN <<first>>
     ELSE <<first, quoteStep(view, path[2], path[3], first.output)>>

AfterSlippage(amount, slippageBps) ==
  (amount * (BPS_DENOMINATOR - slippageBps)) \div BPS_DENOMINATOR

RouteOf(steps, from, to, amount, output, slippageBps, split) ==
  [steps |-> steps, from |-> from, to |-> to, input |-> amount, output |-> output,
   minimum |-> AfterSlippage(output, slippageBps), split |-> split]

computeRoutes(view, from, to, amount, slippageBps) ==
  {r \in {LET steps == quoteSteps(view, path, amount)
          IN RouteOf(steps, from, to, amount, steps[Len(steps)].output, slippageBps, 0)
            : path \in enumeratePaths(from, to)} :
     \A i \in DOMAIN r.steps : r.steps[i].output > 0}

isSplitEligible(from, to) == {from, to} = {"SOL", "PROFIT"}

\* The two legs of a split, CRIME's first.
SplitSteps(view, from, to, amount, ratio) ==
  LET inputA == (amount * ratio) \div 100
  IN quoteSteps(view, <<from, "CRIME", to>>, inputA)
       \o quoteSteps(view, <<from, "FRAUD", to>>, amount - inputA)

SplitOutput(view, from, to, amount, ratio) ==
  LET steps == SplitSteps(view, from, to, amount, ratio)
  IN steps[2].output + steps[4].output

GainBps(better, worse) == ((better - worse) * BPS_DENOMINATOR) \div worse

\* The best ratio of the grid, the lowest of equals, if it beats the best
\* single path by the threshold.
computeOptimalSplit(view, from, to, amount, slippageBps) ==
  LET single == {r.output : r \in computeRoutes(view, from, to, amount, slippageBps)}
      usable == {p \in SPLIT_RATIOS : (amount * p) \div 100 \in 1..(amount - 1)}
      output(p) == SplitOutput(view, from, to, amount, p)
      best   == {p \in usable : \A q \in usable : \/ output(p) > output(q)
                                                  \/ output(p) = output(q) /\ p <= q}
  IN {p \in best : /\ single # {}
                   /\ GainBps(output(p), Max(single)) >= SPLIT_THRESHOLD_BPS}

buildSplitRoute(view, from, to, amount, ratio, slippageBps) ==
  RouteOf(SplitSteps(view, from, to, amount, ratio), from, to, amount,
          SplitOutput(view, from, to, amount, ratio), slippageBps, ratio)

AllRoutes(view, from, to, amount, slippageBps) ==
  computeRoutes(view, from, to, amount, slippageBps)
    \cup (IF isSplitEligible(from, to)
          THEN {buildSplitRoute(view, from, to, amount, p, slippageBps)
                  : p \in computeOptimalSplit(view, from, to, amount, slippageBps)}
          ELSE {})

\* What tells routes apart: the tokens they pass and the split.
label(r) == <<r.from, [i \in DOMAIN r.steps |-> r.steps[i].to], r.split>>

Best(routes) == {r \in routes : \A q \in routes : q.output <= r.output}

\* The selection stays on its route, requoted, until another is better by more
\* than the threshold.
NoRoute == RouteOf(<<>>, "SOL", "SOL", 0, 0, 0, 0)

selectedRoutes(routes, previous) ==
  LET same == {r \in routes : previous # NoRoute /\ label(r) = label(previous)}
  IN IF routes = {} THEN {NoRoute}
     ELSE IF same = {} THEN Best(routes)
     ELSE {IF GainBps(b.output, m.output) > FLICKER_THRESHOLD_BPS THEN b ELSE m
             : b \in Best(routes), m \in same}

(***************************************************************************)
(* The builders.  A conversion without an amount converts all there is:    *)
(* the application's IDL knows no pre_balance, which is taken as 0.        *)
(***************************************************************************)
wrapIx(amount) == [op |-> "wrap", amount |-> amount]
unwrapIx       == [op |-> "unwrap"]
stepIx(op, from, to, amount, minimum) ==
  [op |-> op, from |-> from, to |-> to, amount |-> amount, minimum |-> minimum]

buildSolBuyTransaction(to, amount, minimum, taxBps) ==
  <<wrapIx(amount - calculateTax(amount, taxBps)), stepIx("buy", "SOL", to, amount, minimum),
    unwrapIx>>

buildSolSellTransaction(from, amount, minimum) ==
  <<stepIx("sell", from, "SOL", amount, minimum), unwrapIx>>

buildVaultConvertTransaction(from, to, amount, minimum) ==
  <<stepIx("convert", from, to, amount, minimum)>>

buildStepTransaction(from, to, amount, minimum, taxBps, isMultiHopStep) ==
  IF "PROFIT" \in {from, to}
    THEN buildVaultConvertTransaction(from, to, IF isMultiHopStep THEN 0 ELSE amount, minimum)
  ELSE IF from = "SOL" THEN buildSolBuyTransaction(to, amount, minimum, taxBps)
  ELSE buildSolSellTransaction(from, amount, minimum)

processInstructionsForAtomic_KeepFirst(instructions) ==  \* the first one
  LET closes == {i \in DOMAIN instructions : instructions[i].op = "unwrap"}
      kept   == {i \in DOMAIN instructions : i \in closes => \A j \in closes : j >= i}
  IN [n \in 1..Cardinality(kept) |->
        instructions[CHOOSE i \in kept : Cardinality({j \in kept : j <= i}) = n]]

\* Only the last closing of the wrapped-SOL account stays.
processInstructionsForAtomic(instructions) ==
  LET closes == {i \in DOMAIN instructions : instructions[i].op = "unwrap"}
      kept   == {i \in DOMAIN instructions : i \in closes => \A j \in closes : j <= i}
  IN [n \in 1..Cardinality(kept) |->
        instructions[CHOOSE i \in kept : Cardinality({j \in kept : j <= i}) = n]]

FirstInLeg_RouteOnly(r, i) == i = 1  \* the second leg runs on from the first

\* The slippage is worked back from the route; a leg of a split starts where a
\* step takes the route's input.
FirstInLeg(r, i) == i = 1 \/ (r.split # 0 /\ r.steps[i].from = r.from)

\* Within a leg a step is given what the one before it guarantees: a swap its
\* minimum, a conversion all of its output.
buildAtomicRoute(r) ==
  LET slippageBps == ((r.output - r.minimum) * BPS_DENOMINATOR) \div r.output
      minimum(i) == AfterSlippage(r.steps[i].output, slippageBps)
      input(i)   == IF FirstInLeg(r, i) THEN r.steps[i].input
                    ELSE IF IsVault(r.steps[i - 1]) THEN r.steps[i - 1].output
                    ELSE minimum(i - 1)
  IN processInstructionsForAtomic(
       FlattenSeq([i \in DOMAIN r.steps |->
         buildStepTransaction(r.steps[i].from, r.steps[i].to, input(i), minimum(i),
                              r.steps[i].tax, ~FirstInLeg(r, i))]))
==============================================================================
