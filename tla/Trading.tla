------------------------------- MODULE Trading -------------------------------
(***************************************************************************)
(* A trade from the swap form of the web application to the programs.  The *)
(* form prices what is typed against the state it last saw and sends a     *)
(* transaction; meanwhile others trade, an epoch brings new tax rates, and *)
(* the transaction lands late, after the form has given it up, or never.   *)
(* One wallet uses the form, with smart routing on (the default).          *)
(***************************************************************************)
EXTENDS SwapRoutes

CONSTANTS
  Pairs,                             \* the pairs the user trades: <<from, to>>
  Amounts,                           \* the amounts the user types, of each token
  Holdings,                          \* the user's first wallet
  Pools,                             \* the first reserves [sol, token] of each pool
  VaultSeed,                         \* the conversion vault's holdings
  LOW_TAX_BPS, HIGH_TAX_BPS,         \* the rates of an epoch
  SlippageBps,                       \* the user's setting
  RivalTrades, RivalAmount,          \* what others trade: <<token, is it a purchase>>;
                                     \* and how much at a time
  MaxSent, MaxRivals, MaxEpochs      \* bounds

ASSUME TradingAssumption ==
  /\ Pairs \subseteq Token \X Token /\ \A p \in Pairs : p[1] # p[2]
  /\ Amounts \in [Token -> SUBSET (Nat \ {0})]
  /\ RivalTrades \subseteq Faction \X BOOLEAN
  /\ LOW_TAX_BPS \in 0..BPS_DENOMINATOR /\ HIGH_TAX_BPS \in 0..BPS_DENOMINATOR
  /\ SlippageBps \in 0..BPS_DENOMINATOR
  /\ Holdings \in [Account -> Nat] /\ Holdings["WSOL"] = 0
  /\ Pools \in [Faction -> [sol : Nat \ {0}, token : Nat \ {0}]]
  /\ VaultSeed \in [Token -> Nat]
  /\ {RivalAmount, MaxSent} \subseteq Nat

VARIABLES
  ledger,                            \* the chain, with the user's wallet
  seen,                              \* the pools and rates the application last read
  form,                              \* [from, to, amount, route, quote, status]
  inflight,                          \* what is sent: [id, instructions, terms]
  results,                           \* what became of each transaction
  counts                             \* sent transactions, trades of others, epochs

vars == <<ledger, seen, form, inflight, results, counts>>

\* The rates of an epoch whose cheap side is t: to buy it is cheap, to sell it
\* dear, and the other way about for the other faction.
EpochTaxes(cheap) ==
  [t \in Faction |-> IF t = cheap THEN [buy |-> LOW_TAX_BPS, sell |-> HIGH_TAX_BPS]
                                  ELSE [buy |-> HIGH_TAX_BPS, sell |-> LOW_TAX_BPS]]

View(l) == [pools |-> l.pools, taxes |-> l.taxes]

NoQuote == -1

\* Without an amount there is no quote; the route selected before stays.
Cleared(from, to, route) ==
  [from |-> from, to |-> to, amount |-> 0, route |-> route, quote |-> NoQuote,
   status |-> "idle"]

Init ==
  /\ ledger = [pools |-> Pools, taxes |-> EpochTaxes("CRIME"),
               fees |-> [staking |-> 0, carnage |-> 0, treasury |-> 0], swaps |-> 0,
               vault |-> VaultSeed, wallet |-> Holdings, ok |-> TRUE]
  /\ seen = View(ledger)
  /\ \E p \in Pairs : form = Cleared(p[1], p[2], NoRoute)
  /\ inflight = {}
  /\ results = [n \in 1..MaxSent |-> "none"]
  /\ counts = [sent |-> 0, rivals |-> 0, epochs |-> 0]

-----------------------------------------------------------------------------
(* The form. *)

\* The session ends with its last transaction (a bound).
Editable == form.status # "confirming" /\ counts.sent < MaxSent

\* The quote on the screen stays until the debounce timer fires.
setInputAmount(a) ==
  /\ Editable
  /\ form' = [form EXCEPT !.amount = a, !.status = "idle"]
  /\ UNCHANGED <<ledger, seen, inflight, results, counts>>

setTokens(from, to) ==
  /\ Editable
  /\ form' = Cleared(from, to, form.route)
  /\ UNCHANGED <<ledger, seen, inflight, results, counts>>

\* The debounce timer, or the refresh every thirty seconds.
computeAllRoutes ==
  /\ form.amount > 0
  /\ counts.sent < MaxSent
  /\ \E r \in selectedRoutes(AllRoutes(seen, form.from, form.to, form.amount, SlippageBps),
                             form.route) :
       form' = [form EXCEPT !.route = r, !.quote = IF r = NoRoute THEN NoQuote ELSE r.minimum]
  /\ UNCHANGED <<ledger, seen, inflight, results, counts>>

selectRoute ==
  /\ Editable
  /\ form.amount > 0 /\ form.route # NoRoute
  /\ \E r \in AllRoutes(seen, form.from, form.to, form.amount, SlippageBps) :
       form' = [form EXCEPT !.route = r, !.quote = r.minimum]
  /\ UNCHANGED <<ledger, seen, inflight, results, counts>>

\* The application's stores catch up with the chain.
Observe ==
  /\ seen # View(ledger)
  /\ counts.sent < MaxSent
  /\ seen' = View(ledger)
  /\ UNCHANGED <<ledger, form, inflight, results, counts>>

\* The direct swap takes the amount typed and the minimum quoted; a longer
\* route is sent as it was computed, whatever the form shows by then.  terms are
\* what the user was shown with it.
Terms(from, to, amount, minimum, legs) ==
  [from |-> from, to |-> to, amount |-> amount, minimum |-> minimum, legs |-> legs]

executeSwap(f) ==
  [id |-> counts.sent + 1, terms |-> Terms(f.from, f.to, f.amount, f.quote, 1),
   instructions |-> buildStepTransaction(f.from, f.to, f.amount, f.quote,
                      IF f.from = "SOL" THEN seen.taxes[f.to].buy ELSE 0, FALSE)]

executeRoute(f) ==
  [id |-> counts.sent + 1,
   terms |-> Terms(f.route.from, f.route.to, f.route.input, f.route.minimum,
                   IF f.route.split = 0 THEN 1 ELSE 2),
   instructions |-> buildAtomicRoute(f.route)]

IsDirect(r) == Len(r.steps) = 1

CanSend(f) ==
  /\ f.status \notin {"confirming", "confirmed"}
  /\ f.amount > 0
  /\ f.route # NoRoute
  /\ IsDirect(f.route) => f.quote # NoQuote

Order(f) == IF IsDirect(f.route) THEN executeSwap(f) ELSE executeRoute(f)

Send ==
  /\ CanSend(form)
  /\ counts.sent < MaxSent
  /\ inflight' = inflight \cup {Order(form)}
  /\ counts' = [counts EXCEPT !.sent = @ + 1]
  /\ form' = [form EXCEPT !.status = "confirming"]
  /\ UNCHANGED <<ledger, seen, results>>

\* Polling saw the transaction confirmed, or its error, or stopped: at ninety
\* seconds or when the blockhash had expired.  It may have landed all the same.
pollTransactionConfirmation ==
  /\ form.status = "confirming"
  /\ \/ results[counts.sent] = "landed" /\ form' = [form EXCEPT !.status = "confirmed"]
     \/ form' = [form EXCEPT !.status = "failed"]
  /\ UNCHANGED <<ledger, seen, inflight, results, counts>>

resetForm ==
  /\ form.status \in {"confirmed", "failed"}
  /\ counts.sent < MaxSent
  /\ form' = Cleared(form.from, form.to, form.route)
  /\ UNCHANGED <<ledger, seen, inflight, results, counts>>

-----------------------------------------------------------------------------
(* The chain. *)

Land ==
  \E order \in inflight :
    LET after == Execute(ledger, order.instructions)
    IN /\ ledger' = IF after.ok THEN after ELSE ledger
       /\ inflight' = inflight \ {order}
       /\ results' = [results EXCEPT ![order.id] = IF after.ok THEN "landed" ELSE "error"]
       /\ UNCHANGED <<seen, form, counts>>

Expire ==
  \E order \in inflight :
    /\ inflight' = inflight \ {order}
    /\ UNCHANGED <<ledger, seen, form, results, counts>>

\* Someone else buys or sells, with no more protection than the floor demands.
RivalInstruction(t, isBuy) ==
  LET pool == ledger.pools[t]
      sol  == RivalAmount - calculate_tax(RivalAmount, ledger.taxes[t].buy)
  IN IF isBuy
     THEN stepIx("buy", "SOL", t, RivalAmount,
                 calculate_output_floor(pool.sol, pool.token, sol))
     ELSE stepIx("sell", t, "SOL", RivalAmount,
                 calculate_output_floor(pool.token, pool.sol, RivalAmount))

Ongoing == counts.sent < MaxSent \/ inflight # {}

RivalTrade ==
  /\ counts.rivals < MaxRivals
  /\ Ongoing
  /\ \E trade \in RivalTrades :
       LET after == Execute([ledger EXCEPT !.wallet = [a \in Account |-> RivalAmount]],
                            <<RivalInstruction(trade[1], trade[2])>>)
       IN after.ok /\ ledger' = [after EXCEPT !.wallet = ledger.wallet]
  /\ counts' = [counts EXCEPT !.rivals = @ + 1]
  /\ UNCHANGED <<seen, form, inflight, results>>

NewEpoch ==
  /\ counts.epochs < MaxEpochs
  /\ Ongoing
  /\ \E t \in Faction :
       /\ EpochTaxes(t) # ledger.taxes
       /\ ledger' = [ledger EXCEPT !.taxes = EpochTaxes(t)]
  /\ counts' = [counts EXCEPT !.epochs = @ + 1]
  /\ UNCHANGED <<seen, form, inflight, results>>

Next ==
  \/ \E a \in Amounts[form.from] : setInputAmount(a)
  \/ \E p \in Pairs : setTokens(p[1], p[2])
  \/ computeAllRoutes
  \/ selectRoute
  \/ Observe
  \/ Send
  \/ pollTransactionConfirmation
  \/ resetForm
  \/ Land
  \/ Expire
  \/ RivalTrade
  \/ NewEpoch

Spec == Init /\ [][Next]_vars

-----------------------------------------------------------------------------
(* Properties. *)

\* Each destination has its share of all the tax ever taken, to within a
\* lamport or two per swap, however small the swaps: 71% of it staking, 24% the
\* carnage fund, 5% the treasury (split_distribution, CollectTax).
Near(share, percent, total) ==
  LET error == 100 * share - percent * total
  IN -200 * ledger.swaps <= error /\ error <= 200 * ledger.swaps

TaxSharesAreFair ==
  LET fees  == ledger.fees
      total == fees.staking + fees.carnage + fees.treasury
  IN /\ Near(fees.staking, 71, total)
     /\ Near(fees.carnage, 24, total)
     /\ Near(fees.treasury, 5, total)

\* A transaction that lands takes no more of the input than the user agreed to
\* and brings at least the minimum shown, whatever trades and rates came in
\* between (executeRoute, swap_sol_buy, swap_sol_sell, convert_v2; the minimums of
\* buildAtomicRoute).  A split may fall short by the rounding of its two legs.
RoutesKeepTheirTerms ==
  [][\A order \in inflight \ inflight' :
       ledger' # ledger =>
         /\ ledger.wallet[order.terms.from] - ledger'.wallet[order.terms.from]
              <= order.terms.amount
         /\ ledger'.wallet[order.terms.to] - ledger.wallet[order.terms.to]
              >= order.terms.minimum - (order.terms.legs - 1)]_vars

\* If nothing has changed since the form computed its route, what it would send
\* succeeds: the application's arithmetic (quoteStep), minimums and instructions
\* (buildAtomicRoute) agree with the programs.  A route over SOL is the
\* exception: its second swap is given the first one's minimum and still asked
\* for the full quote less slippage, so that only the curve's slope makes up for
\* the difference.
IsFresh(f) ==
  /\ f.route \in AllRoutes(View(ledger), f.from, f.to, f.amount, SlippageBps)
  /\ f.quote = f.route.minimum

FreshRoutesLand ==
  /\ CanSend(form)
  /\ IsFresh(form)
  /\ form.amount <= ledger.wallet[form.from]
  /\ form.route.steps[1].to # "SOL" \/ IsDirect(form.route)
  => Execute(ledger, Order(form).instructions).ok

\* Every transaction leaves the wrapped-SOL account closed: the instructions of
\* several steps share it, and the one closing that is kept comes last
\* (processInstructionsForAtomic).
NoSolStaysWrapped == ledger.wallet["WSOL"] = 0

\* A route leaves the user's other holdings alone: a conversion on the way takes
\* what the step before it brought in (buildStepTransaction, convert_v2).
OnlyDepositsAreConverted ==
  [][\A order \in inflight \ inflight' :
       \A t \in Token \ {order.terms.from, order.terms.to} :
         ledger'.wallet[t] >= ledger.wallet[t]]_vars
==============================================================================
