# A verification of the Dr. Fraudsworth protocol

The repository is a token protocol on Solana. Two tax tokens, CRIME and FRAUD,
are first sold along bonding curves and then trade against SOL in two pools.
Every epoch a verifiable random number (VRF) decides which of them is cheap to
buy, what the tax rates are, and now and then whether the protocol's own fund
performs a *Carnage*: it burns or sells the tokens it holds and buys others. Part
of the taxes is paid to the stakers of a third token, PROFIT, which a vault
converts from and to CRIME and FRAUD at a fixed rate. A client, the crank, drives
the epochs; scripts deploy the protocol and graduate the curves; a web application
trades, shows the state and keeps price candles.

This directory holds TLA+ models of the programs and of the clients whose control
flow matters, model-checking configurations for TLC, and proofs checked by TLAPS.
The models follow the code; where a comment of the code says otherwise, that is
listed under [Divergences](#5-divergences).

    tlc -config MCPrograms.cfg MCPrograms.tla           (likewise the others)
    tlapm EpochProgram_proofs.tla                       (likewise the others)

## 1. Inventory

| Component | State | Operations | Modelled |
|---|---|---|---|
| Epoch program `programs/epoch-program` | `EpochState`: epoch, VRF request, taxes, Carnage request | `initialize_epoch_state`, `trigger_epoch_transition`, `retry_epoch_vrf`, `consume_randomness` | `EpochProgram` |
| Carnage fund, same program | `CarnageFundState`, SOL vault, wrapped-SOL account, two token vaults | `initialize_carnage_fund`, `execute_carnage`, `execute_carnage_atomic`, `expire_carnage` | `EpochProgram` |
| VRF derivation, same program | none | `derive_taxes`, `is_carnage_triggered`, `get_carnage_action`, `get_carnage_target` | `VrfDerivation` |
| AMM `programs/amm` | pool reserves, lock, fee, admin | `initialize_pool`, `swap_sol_pool`, admin handover | arithmetic `AmmMath`, swaps `Swaps`, opening `Graduation`; not the admin |
| Tax program `programs/tax-program` | a wrapped-SOL intermediary | `swap_sol_buy`, `swap_sol_sell`, `swap_exempt` | `Swaps`, `EpochProgram` |
| Staking `programs/staking` | `StakePool`, one `UserStake` per user, two vaults | `stake`, `unstake`, `claim`, `deposit_rewards`, `update_cumulative` | `Staking` |
| Bonding curve `programs/bonding_curve` | two `CurveState`s with SOL, token and tax vaults | fifteen instructions: set-up, purchase, sale, failure, refunds, graduation | `CurveMath`, `BondingCurve` |
| Conversion vault `programs/conversion-vault` | three token vaults | `initialize`, `convert`, `convert_v2` | `ConversionMath`; seeding `Deployment`, conversions during a launch `Graduation`, in routes `Swaps` |
| Transfer hook `programs/transfer-hook` | whitelist and its authority | the check on each transfer; add, hand over, burn | `TransferHook`, in the launch |
| Deployment script `scripts/deploy/initialize.ts` | memory only | some thirty idempotent tasks | `Deployment` |
| Graduation script `scripts/graduation/graduate.ts` | a checkpoint file | the checkpointed steps from filled curves to open pools | `Graduation` |
| Governance script `scripts/deploy/transfer-authority.ts` | none | hands the authorities to a multisig | the whitelist's and the curves', `Graduation` |
| Epoch crank `scripts/crank/crank-runner.ts`, `scripts/vrf/lib/vrf-flow.ts` | its place in the cycle, its randomness key, breaker and cap | the loop and the transactions of an epoch, recoveries, sweeps | `Crank` |
| Swap form `app/hooks/useSwap.ts`, `useRoutes.ts`, `app/lib/swap` | the form, quotes, routes | quote, route, split, build, send, confirm | `SwapRoutes`, `Trading` |
| Indexer `app/app/api/webhooks/helius`, `app/db`, `scripts/backfill-candles.ts` | Postgres tables | the webhook, the backfill | `Indexer` |
| Live state `app/lib/protocol-store.ts`, `ws-subscriber.ts`, `ProtocolStateProvider.tsx` | an in-memory store, tabs | seed, subscriptions, polls, webhook, event streams | `LiveState` |
| Event-stream slots `app/lib/sse-connections.ts` | counts by address and in all | acquire, release, auto-release, reset | `SseConnections` |
| Test programs, other scripts, rest of the web application, SDK, docs site | none of the protocol's | | not modelled |

How they interact:

- Anyone may call any instruction of the epoch program. The **crank** is a client
  that keeps calling; the program must be correct whoever calls what and when.
- `trigger_epoch_transition` binds a **Switchboard** randomness account that must
  have been committed in this slot or the one before; `consume_randomness` reads
  its value, which can be read only in the slot in which it is revealed.
- `consume_randomness` calls **staking**'s `update_cumulative` to finalise the
  epoch's rewards. If staking refuses, the whole transaction fails.
- A Carnage trades through the **tax program**'s `swap_exempt`, which trades
  through the **AMM**. Every transfer of a token runs the **transfer hook**.
- A taxed swap reads the rates from `EpochState` and splits its tax among the
  staking escrow (71 %), the Carnage fund's SOL vault (24 %) and the treasury.
- The **deployment script** mints the supplies, seeds vaults and curves, lists
  every vault with the transfer hook and starts the curves. From then on anybody may
  **convert**, while the curves still sell. When both **bonding
  curves** fill, the **graduation script** opens the pools with what they raised;
  when either fails, holders of both are refunded.
- The **swap form** quotes against the state it last saw and sends one
  transaction of wrapping, taxed swaps, conversions and unwrapping.
- Helius posts landed transactions to the **indexer**, and account changes to the
  **live state**, whose streams carry it to the browsers.

What is hard in it. A Solana transaction is atomic, so nothing interleaves
*inside* an instruction. The difficulty lies between transactions. A decision
taken in one (the action of a Carnage, the slot of a request, a quote, the look of
a script at the chain) is acted upon in a later one, after anybody's transactions
in between. Deadlines race with late calls; a revealed value is lost unless it is
consumed in its slot; rounding accumulates over any number of operations; one
program's refusal undoes another's progress. The clients crash between a
transaction and the note they take of it, give up transactions that land after
all, and are told of things twice, late, or in another order.

What makes each component correct:

- *Epoch program*: a request is always answerable in the end; the epoch program
  and staking agree on what is final; epochs keep to the clock's boundaries;
  rates and cheap side change together and only when an epoch is finalised.
- *Carnage fund*: a result pays for at most one execution and none is cancelled
  before its deadline; the record of the holdings equals the vaults; spending is
  capped; the SOL vault keeps its rent.
- *Staking*: claims never exceed the escrow; nobody loses rewards by somebody
  else's action; stake leaves only after the cooldown and never leaves dust.
- *AMM and tax program*: the product of the reserves does not fall; the shares
  of a tax add up and arrive.
- *Bonding curve*: the vault always covers the curve's integral; refunds and
  graduation exclude each other; the order of refunds does not matter.
- *Conversion vault*: no conversion, or chain of them, gains value.
- *Launch scripts*: however often they die, every token is where it belongs, the
  pools open with what the curves raised, and the launch ends.
- *Crank*: epochs go on, accounts are reclaimed, and it stops only for faults.
- *Swap form*: what lands keeps the terms the user agreed to; what is fresh lands.
- *Indexer, live state, slots*: what is delivered in time is stored; candles are
  those of their trades; every tab shows the chain in the end; no slot is lost.

`PROJECT.json` lists the hazards at their lines, with the properties that cover
them.

## 2. Modules

| Module | What it is |
|---|---|
| `EpochLifecycle` | abstract specification of the epoch program: epochs requested and finalised in turn, at most one Carnage waiting |
| `EpochProgram` | the epoch program and the Carnage fund, with the clock, Switchboard and deposits as environment |
| `VrfDerivation` | the functions from VRF bytes to rates and Carnage decision |
| `AmmMath` | `calculate_effective_input`, `calculate_swap_output`, and when a swap is accepted |
| `IntegerMath` | minimum, maximum, saturating subtraction |
| `Staking` | the staking program |
| `CurveMath`, `BondingCurve` | the price curve; the bonding-curve program on both curves |
| `ConversionMath` | `compute_output` of the conversion vault |
| `TransferHook` | the whitelist and the check on transfers |
| `Deployment` | the deployment script over `BondingCurve` and `TransferHook` |
| `Graduation` | the graduation script and the users, over `Deployment`: the whole launch |
| `Crank` | instances of the crank, a rival, and what they see of the epoch program |
| `Swaps` | taxed swaps, conversions and wrapping as functions of a ledger |
| `SwapRoutes` | the web application's quotes, routes and transaction builders, over `Swaps` |
| `Trading` | the swap form, the chain it trades on, others' trades and epochs |
| `Indexer`, `LiveState`, `SseConnections` | the web server's data: rows and candles; the store and its tabs; the slots of streams |
| `MCPrograms` | constants for TLC, and the safety runs of `EpochProgram` and `Staking` joined in one |
| `MC*` | constants for TLC; `MCWeb` also joins the last three modules above, `MCLaunch` has the parts of its run |
| `Arithmetic_proofs` | what the other proofs share: quotients and products, induction, sequences, sums, the AMM's formula |
| `EpochProgram_proofs`, `Staking_proofs`, `BondingCurve_proofs`, `Graduation_proofs`, `Crank_proofs` | theorems about the modules they are named for |
| `Trading_proofs` | theorems about `Swaps` and `Trading` |
| `Web_proofs` | theorems about `SseConnections`, `LiveState` and `Indexer` |

Conventions. Variables and definitions carry the names of the code's fields and
functions. An instruction is one action: its `require!`s and account constraints
are conjuncts, and a failed transaction is no step. A step of a client is one
transaction, one look at the chain or one database call, so that others run in
between. A definition named `X_Something`, just above `X`, is `X` with a plausible
mistake: it documents which mistake a property is able to find, and nothing uses
it.

### EpochProgram

| Action | Code |
|---|---|
| `TriggerEpochTransition`, `CommitAndTrigger` | `trigger_epoch_transition` alone, or after the commit in one transaction, as the crank sends it |
| `RetryEpochVrf`, `CommitAndRetry` | `retry_epoch_vrf`, likewise |
| `ConsumeRandomness` | `consume_randomness` alone, with or without its optional `carnage_state` account |
| `RevealAndConsume` | the clients' transaction of reveal and consume |
| `RevealConsumeAndExecute` | the crank's transaction of reveal, consume and `execute_carnage_atomic`, all or nothing |
| `execute_carnage` | the fallback, between the lock and the deadline |
| `execute_carnage_atomic` | the instruction alone: no lock, no deadline, a success without effect if nothing is pending |
| `expire_carnage` | the same |
| `Commit`, `Reveal` | Switchboard instructions sent alone |
| `Tick`, `Deposit` | slots pass; the fund's share of a tax arrives |

`execute_carnage_core` is modelled from the burn or sale through wrapping and
purchase to the bookkeeping, with the AMM's formula and rejections, so that a
Carnage may fail; its two callers differ in the slippage floor. `Carnage` is the
pair of action and target: `Decided(vrf)` is the one a result chooses, `Pending`
the one on record.

Abstractions:

- *Slots.* `slot` is the clock; several transactions may share a slot. Only
  differences of slots matter, so the models use short epochs and timeouts in
  the order of the deployed values (lock < deadline = timeout < epoch).
- *Randomness accounts* keep the age of the seed, up to two slots, and whether
  the value is unrevealed, readable now, or past. That is all `get_value` and the
  freshness checks can tell apart. At the start all accounts are used up.
- *VRF bytes.* A result is eight bytes, of which TLC draws samples on both sides
  of every threshold; the proofs cover all.
- *Pools.* Trading changes the pools between any two executions, so the reserves
  a Carnage meets are an input. A sale and a purchase in the same pool see each
  other.
- *Staking* appears as `finalized_epoch`, the stake pool's `last_update_epoch`,
  with the refusal of an epoch already seen (`UpdateCumulative`): the part of
  `update_cumulative` the epoch program depends on. The names differ from those of
  `Staking` so that a module can extend both.

Assumptions about the environment: a client does not commit again an account
that a request is bound to (the crank makes a fresh one when it has to retry);
one commit yields one reveal; the SOL vault is funded with its rent at
deployment; nobody sends tokens or wrapped SOL to the fund's accounts. Account
validation, event logs and compute limits are left out, as are the overflow
errors of 64-bit sums, which need amounts beyond any token's supply.
`force_carnage` exists in development builds only and is not modelled.

### Staking

One action per instruction (`stake`, `unstake`, `claim`, `deposit_rewards`,
`update_cumulative`) and a clock (`TimePasses`). A `UserStake` record is the account;
`update_rewards` is the checkpoint all user operations begin with, with the
program's rounding. `unstake` computes the amount (all of it if dust would
remain), checks the cooldown and forfeits the unclaimed rewards to the pool. The
minimum stake locked at initialisation is the pool's dead stake. `PRECISION` is a
constant, so that a small one makes the rounding visible. `profit_wallet` is the
users' own token accounts; `last_claim_at` is the one auxiliary variable, the
time of a user's last claim, which the code forgets when the user leaves.

### BondingCurve, CurveMath

| Action | Code |
|---|---|
| `initialize_bc_admin`, `transfer_bc_admin`, `burn_bc_admin` | the same |
| `initialize_curve`, `fund_curve`, `start_curve` | the same, for either token |
| `purchase`, `sell` | the same, with slippage bounds, wallet cap, minimum, sale tax and the payment that fills a curve |
| `mark_failed`, `consolidate_for_refund`, `claim_refund` | the same; anybody may send the first two |
| `prepare_transition`, `withdraw_graduated_sol`, `distribute_tax_escrow`, `close_token_vault` | the same |
| `Tick` | slots pass |

`CurveMath` has the two integrals with their rounding, tokens down and SOL up, and
the integer square root the first is solved with. SOL in users' wallets is without
limit, and a sale needs nothing but tokens. `HoldingsChange` is the program's
environment: users' tokens move outside the curves too. The counters kept for
display are left out. The histories `withdrawn`, `distributed`, `refunded`,
`burned`, `funded` and `sales` are for the properties.

### TransferHook, Deployment, Graduation

`Deployment` is the full mode of `initialize.ts` as the sequence of its tasks. Each
is an action that looks at the chain and acts, or skips, or ends the run;
`script` is what the process holds in memory, gone when it dies, and `chain` what
it finds besides the curves and the whitelist. The deployer has two token accounts
of each mint, the one that was minted to and the empty one a later run may create.
`launchGate` is the operator's answer to the script's question.

`Graduation` adds the second script with its checkpoint file and the AMM pools. A
process dies between any transaction and the write that records it. `StartGraduation`
is the operator, who follows the stages in order and gives the script an amount by
hand (`OverrideSol`) only after it has complained that it lost it.
`transferAuthorities` hands the whitelist and the curves to the multisig. The last
step before the authorities, `seedConversionVault`, goes through the three vaults
one transaction at a time and fills those it finds empty.

`UserConverts` is `convert`: it is open to anybody from the moment the deployment
has initialised and listed the vaults, whatever the curves are doing. `VaultBalance`
is what the scripts put into a vault plus what conversions brought or took
(`converted`); `emptied` records which vaults conversions have drained. With the
deployed numbers a vault of 250 million CRIME or FRAUD can be drained (into 2.5
million PROFIT, or out of it), the vault of PROFIT cannot. Trades in the pools are
left out: when they open, no curve can be traded or refunded any more.
Assumed: the deployer's wallet has SOL for fees; swaps, stakes and Carnages name
listed vaults.

### Crank

A process goes through `startup`, `loop` and the stages of `advanceEpochWithVRF`:
create an account, commit and trigger, reveal and consume, and, for a stale request
it finds, reveal, consume or wait for the timeout and retry with a fresh account.
Errors count towards the breaker, sweeps close accounts nobody uses, a spending cap
may halt a process at any cycle, and a process is restarted when it died. Instances
share a wallet and the stored key. A rival stands for any other cranker: it
commits, retries and consumes. Of the program the cranks see whether a request is
pending, to which account it is bound, and whether it is late; `EpochProgram` says
what the transactions do there. An oracle of a commitment answers or is dead.
A call that throws has changed nothing (`CallFails`), or its transaction landed all
the same (`LandsThenThrows`): an account that nobody knows of, a request that its
crank does not wait for, a consumption that looks refused. Either is one fault.

### Swaps, SwapRoutes, Trading

`Swaps` gives each instruction of a trade as a function of the ledger: both taxed
swaps with floors, rates and shares over the AMM's formula, `convert_v2` in its
three modes, wrapping and unwrapping. A transaction is the fold of its
instructions. `SwapRoutes` is what the application computes: quotes, the routes of
its graph, the split over both factions, and the instructions it builds.
`Trading` is the form (typing, choosing, debounced recomputation, sending,
polling, giving up), a chain on which rivals trade and epochs begin, and
transactions that land late or expire. One wallet uses the form, with smart
routing on. Rent and network fees are left out.

### Indexer, LiveState, SseConnections

`Indexer`: `Helius` delivers at least once (`POST`, `Resend`) and a request is a
sequence of database calls, each a step, any of which may fail; `Stop` kills a
process with its requests. A trade's candles at several resolutions are upserted
in any order. The upserts that remain when one of them has failed are taken to be
over before the next call. The backfill shares the tables.

`LiveState`: the content of an account is the slot of its last change.
Subscriptions deliver in order until they drop; the poll answers as of when it was
asked; webhooks come in any order and more than once; the seed reads accounts
first and the slot later. A tab has a stream, or waits to reconnect, and polls the
chain itself when it heard nothing for thirty seconds.

`SseConnections`: a stream takes a slot of its address and of the server; it gives
it back when it ends or when its timer fires, whichever comes first, and when both
happen twice.

## 3. Runs

A passing run takes between half a minute and three minutes.
`CHECK_DEADLOCK FALSE`, because bounded clocks, counters of faults and sessions end
the behaviours: a launch that is over, an indexer without further transactions and
a form that has sent its last transaction may stop.

| Run | Question | Instance |
|---|---|---|
| `programs` (742,826 states), part `time` | Do epochs, requests, rates and the Carnage window stay in order, and is the program an `EpochLifecycle`? | epoch 4 slots, timeout and deadline 2, lock 1, genesis slot 1, 13 slots, 3 epochs, two randomness accounts, two results, no SOL beyond the rent |
| part `carnage` | Is the fund's bookkeeping right through sequences of burns, sales and purchases of both tokens? | the same slots and epochs, each epoch triggered at its boundary and answered in that slot, one account, three results (sell for either token, burn), two states per pool, a deposit just above the cap |
| part `staking` | Does the escrow cover all claims, whoever comes and goes? | two interchangeable users, precision 10, minimum stake 2, amounts 1 and 3, rewards 5 and 7, cooldown 2, at most 12 deposited, 2 epochs |
| `epoch_live` (127,270) | Is every request answered, every Carnage resolved, every epoch reached? | `FairSpec`; epoch 2 slots, timeout and deadline 1, 8 slots, two accounts, 2 epochs or a skip beyond, two results that give the same rates, a vault with one lamport to spend |
| `launch` (282,947), part `crashes` | Does every launch end, with every token and lamport accounted for, whatever dies? | two users, four tokens per curve, price from 1 to 3, precision 10, sale tax 15 %, rent, buffer and fee 1, deadline 1 slot, no grace, 2 slots; one death, one sale, purchases of one size, no conversion |
| part `conversions` | The same, while users convert | the same curves, vaults of 2 CRIME, 2 FRAUD and 5 PROFIT, two tokens to a PROFIT; two conversions, no sale, purchases of one size, a death only after conversions have emptied a vault, and not during graduation |
| part `trades` | Do roundings stay within their bounds over long alternations? | the same curve, CRIME only: purchases of 2, 3 and 5, up to three sales of 1 or 2 tokens, no death |
| `crank` (255,053) | Does the crank go on, reclaim its accounts, and stop only for faults? | one process, a rival, five accounts, threshold 2, sweep interval 2, two faults, one death or shutdown, one transaction of the rival |
| `trading` (748,798) | Does what lands keep its terms, and what is fresh land? | four pairs (a route over the vault, one over SOL, splits, direct ones), pools of 10000/20000 and 10000/18000, trades of a tenth of a pool, splits of 25, 50 and 75 %, taxes 3 and 14 %, slippage 5 %, two transactions, one rival trade, one epoch |
| `web_app` (276,652) | Do rows and candles follow the chain, tabs the store, and slots the streams? | a purchase, then a Carnage and a sale, posts of one transaction, candles of 1 and 2 seconds, 2 seconds, a request and a backfill, one mishap; one account, 2 changes, one tab, one failure, hidden once; four streams of two addresses, 2 slots each and 3 in all, one reset |
| `epoch_proceeds`, `epoch_rates`, `launch_overpay`, `launch_refunds`, `trading_holdings`, `web_candles` | Is what a comment or a document says true? No: see [Divergences](#5-divergences) | as the passing run of the same system, or smaller |

The parts of a run share nothing but TLC's start-up: a behaviour is in one of them
from its first state to its last.

Why these bounds are enough for the interesting cases:

- Thirteen slots with epochs of four let the crank miss a boundary entirely, a
  Carnage survive into the next epoch and be armed again, and a request time out
  twice. Two accounts are needed for a retry to replace an account whose reveal
  was lost, and for the old one to be revealed after all.
- Three epochs are enough for buy, then sell or burn, then a Carnage against what
  that bought; the two pool states make a sale worth more or less than the cap,
  and one of them gives a purchase of a token few of which are left.
- In `epoch_live` the vault's single lamport buys so little that the AMM refuses
  the swap. So the crank's transaction is refused with results that arm a
  Carnage, requests time out and are replaced. The last epoch begins early enough
  for its Carnage to go stale while the clock still runs, so that an expiry that
  came too late would be seen.
- `MaxSlot` stops oracle calls and deposits, not the timers: the clock runs on
  while a request or a Carnage is timed, so that no bound hides an expiry or
  makes a liveness property fail.
- The conjuncts with which `MCPrograms` narrows the steps of part `carnage` leave out
  delays that part `time` has in full: what the fund does depends on the clock only
  through the lock, the deadline and the epoch.
- In part `staking`, precision 10 does not divide the rewards by the totals that occur,
  the two amounts lie on both sides of the minimum, and three time units are one
  more than the cooldown.
- In `launch`, prices, tax, rent and buffer are of the size of a token, so that
  every rounding shows; two users of at most three of four tokens have to share a
  curve, fill it together or let it fail; the deadline passes with one curve full
  and the other not; and the death may hit either script between any transaction
  and its record. Two conversions are CRIME to PROFIT to FRAUD, the way to hold
  more of a curve's token than the curve sold; as in the deployment, what is left
  for the pools (3) is more than a vault's share (2), and a vault of CRIME or FRAUD
  can be emptied. Three sales, with purchases of odd sizes before, between and after
  them, add up three roundings of the same curve.
- In `crank`, two faults and one race are enough to lose a commit, an oracle and a
  retry one after the other, to leave a request behind whose sender saw an error,
  and to reach the breaker; five accounts are more than a process and its
  successor hold at a time.
- In `trading`, a tenth of a pool moves the price beyond the slippage when a rival
  trades before; the two pools have different prices, so that splits pay; two
  transactions are a retry of what was given up and landed after all; one epoch
  swaps the rates.
- In `web_app`, the backfill is the second worker on the tables; trades at two
  prices, in one second or in two and possibly counted twice, give candles that
  agree by chance neither in range nor in volume; two changes of an account are
  enough for a replay to be older than the seed. The three modules share no
  variable, so `MCWeb` explores each by itself and adds their states up.

### Fairness

`FairSpec` (epoch program) assumes weak fairness of the clock, of the crank's three
transactions (commit and trigger; commit and retry; reveal, consume and execute)
and of `expire_carnage`, which anybody may send. The justification is the crank's
loop (`scripts/crank/crank-runner.ts`): it runs for ever, checks whether an epoch is
due, and recovers a stale request by waiting for the timeout and retrying with a
fresh account. No fairness is assumed of a reveal sent alone, of deposits or of
the executions sent alone. Weak fairness of the third transaction, quantified
over the results, means that the oracle answers and does not for ever draw results whose
Carnage the pools refuse: with only such results, `RequestsAreAnswered` fails,
because the refused swap takes the consumption of the randomness back with it.

`FairLaunchSpec` assumes that time passes while a curve is open; that somebody fails
a curve that missed its deadline, opens the refunds, and holders claim (all
permissionless, and everyone's own interest); and that a script that runs goes on
and the operator runs the graduation of full curves again when it has stopped.
Nobody has to buy, sell, convert, or start the deployment.

`FairCrankSpec` assumes that boundaries and timeouts pass, that a supervisor
restarts a process that ended (`railway-crank.toml`: ten times, more often than the
model lets it end), and that a process takes its next step. Nothing is assumed of
oracles, calls or the rival but that there are boundedly many faults.

`MCWeb`'s `LiveFairness` assumes that the supervisor starts the server, that the
poll's timer fires and is answered (failures are bounded), that a subscription hands
on what it received, and that a visible tab reconnects and receives, as the
browser's `EventSource` and the provider's retry timer do. Webhooks and
subscriptions promise nothing.

## 4. Properties

`PROJECT.json` ties each property to the hazards it guards against.

`EpochProgram`:

- `PendingMatchesStaking`: a request is outstanding exactly while staking is
  behind. Hence `update_cumulative` never refuses inside `consume_randomness`,
  which would block the protocol for good.
- `ActionMatchesHoldings`: the action of a pending Carnage, chosen earlier, still
  fits the holdings. `HoldingsAreInVault`: the token vaults hold what the record
  says.
- `CarnageIsNotCancelled`: never a Carnage lost before its deadline.
- `RentIsKept`, `SpendingIsCapped`: the SOL vault at its limits.
- `TaxesFollowCheapSide`: each of the four rates is in the band, low or high, that
  goes with the cheap side. (That they are the two recorded rates is a comment's
  claim and false: `epoch_rates`.)
- `EpochFollowsClock`: epoch, start slot and request slot agree with the clock.
- `ImplementsLifecycle`: refinement of `EpochLifecycle`, in which a Carnage is
  executed only while one waits, and none waits but by a finalisation: a result pays
  for at most one execution.
- `RequestsAreAnswered`, `CarnagesAreResolved`, `EpochsAdvance`: liveness.

`Staking`:

- `EscrowCoversClaims`: what all users can claim, with what waits for
  distribution, never exceeds the escrow above its rent.
- `StakeIsBacked`: the stake vault holds the sum of the balances and the dead stake.
- `RewardsAreNotTaken`: a user's claimable rewards shrink only by the user's own
  claim or forfeit.
- `CooldownIsKept`, `NoDustAfterUnstake`: as their names say, at the boundaries.

The launch (`BondingCurve`, `Graduation`):

- `CurveTypeOK`: no balance or total underflows.
- `GraduationExcludesRefund`: a graduated curve has a graduated partner, and
  neither was refunded.
- `VaultMatchesTrades`: vault and escrow hold what the recorded trades say, less
  what was withdrawn, refunded and distributed, each once.
- `TradesFollowCurve`: a tradable curve's vault covers the integral up to a
  lamport for each sale (`RoundingIsBounded`), and a purchase that leaves the curve
  open pays at most for one token more than it delivers (`PurchasesArePriced`). The
  purchase that fills a curve does pay more: `launch_overpay`.
- `RefundsShareAlike`: no claim lowers the SOL left for each outstanding token.
- `TokensArePlaced`: the supply is minted once, and the scripts give each vault,
  curve and pool its share once and in full, however often they die and whatever
  users convert. Only a vault that conversions have emptied is seeded again. (It
  speaks of what scripts place; a supply in an account that later runs do not find
  counts as the deployer's.)
- `PoolsOpenAtCurveValue`: a pool opens with what its own curve raised, unless the
  operator overrode it.
- `LaunchResolves`: once both curves have started, both pools open, or a curve
  fails and every holder of both is refunded. Conversions make two exceptions, which
  the property states: a holder with more tokens than the curve has outstanding is
  refused (`launch_refunds`), and the operator may lack the tokens for a pool or a
  vault once conversions have made the scripts seed a vault twice (`OutOfTokens`).

`Crank`:

- `BreakersNeedFaults`: the breaker trips only if there were as many faults and
  races as it tolerates. (It does not hold of two instances with different keys,
  whose sweeps close each other's accounts.)
- `EpochsKeepAdvancing`: a boundary is followed by an epoch and a request by its
  consumption, unless all instances have stopped.
- `RandomnessIsReclaimed`: an account nobody will use is closed or adopted.

`Trading`:

- `TaxSharesAreFair`: the destinations have their percentages of all taxes, up to
  two lamports for each swap.
- `RoutesKeepTheirTerms`: what lands takes at most the agreed input and brings at
  least the minimum shown.
- `FreshRoutesLand`: if nothing has changed since the route was computed, the
  transaction succeeds: the application's arithmetic agrees with the programs'.
- `NoSolStaysWrapped`: every transaction leaves the wrapped-SOL account closed.

The web server:

- `IndexerInv`: a candle's high and low are those of the trades of its pool and
  period that were counted (`HighLowTrackTrades`); however workers interleave,
  nothing is counted oftener than it was taken up (`CountsAreBounded`), which may be
  more than once (`web_candles`); without failures, resolutions agree with one
  another (`ResolutionsAgree`).
- `EventsAreStored`: what Helius need not deliver any more has its rows, unless it
  was too late or the database failed.
- `LiveInv`: a tab that has received what was sent shows the store
  (`StreamsCarryTheStore`), and no replay takes an account back before the seed
  (`NothingBeforeTheSeed`).
- `WebTabsCatchUp`: when the chain stops changing, the store of a seeded server and
  every visible tab show it in the end.
- `SlotsInv`: no slot is in use without a stream that will give it back.

Each is accompanied by at least one mistake in the code that breaks it
(`PROJECT.json`, `mutants`), which TLC finds on the same instance.

## 5. Divergences

Six runs show, as counterexamples, comments and documents that the code does not
fulfil. None of them contradicts a property above.

1. `epoch_proceeds`. `helpers/carnage_execution.rs:267-269` says that adding the
   sale's proceeds to the purchase avoids stranding them. The sum is capped, and
   what exceeds the cap stays in the wrapped-SOL account, which no later
   execution reads. `HoldingsAreInVault` therefore speaks of the token vaults.
2. `epoch_rates`. `state/epoch_state.rs:74-99` calls `low_tax_bps` and
   `high_tax_bps` the rates that are applied, and each of the four rates one or the
   other. `derive_taxes` draws the rates of the two tokens one by one, and the two
   fields are the least and the greatest of the four (`consume_randomness.rs:205-216`).
   The indexer relies on the comment: it fills the four rates of an epoch's row from
   the two fields (`helius/route.ts:783-805`). In the run CRIME sells at 400 and
   FRAUD buys at 200 basis points, FRAUD sells at 1100, CRIME buys at 1300.
3. `launch_overpay`. `purchase.rs:155-156` says that the buyer who takes the last
   tokens of a curve pays only for those. `calculate_tokens_out` has capped its
   result already (`math.rs:106-107`), so the branch that computes the smaller price
   (`purchase.rs:158-165`) is never taken and that buyer pays all that was offered:
   in the run 9 for the last token. The excess stays in the curve's vault and goes
   into the pool, or to all holders if the other curve fails.
4. `launch_refunds`. `Docs/Bonding_Curve_Spec.md:1663` says that all holders of
   both tokens can claim, and its solvency proof (`:1930`) takes what users hold for
   what the curve has outstanding. The conversion vault breaks that: it is seeded
   before the curves start and open to anybody at any time (`convert.rs:116-174`).
   Who turns CRIME into PROFIT and PROFIT into FRAUD holds FRAUD that the curve did
   not sell; the last claims of a failed launch then exceed `tokens_sold` and are
   refused (`claim_refund.rs:198-201`). In the run the FRAUD curve sold nothing.
5. `trading_holdings`. `multi-hop-builder.ts:137-138` says that a vault step after
   another converts "whatever the preceding AMM step deposited in the same leg".
   It is sent with amount 0 and without a balance from before, which converts the
   user's entire balance, what was held before included.
6. `web_candles`. `helius/route.ts:64-68` lists candles under "Idempotency". The
   upsert finds a candle by its key and adds the trade to it whether or not the
   trade's row was there (`candle-aggregator.ts:124`), so a post that is delivered
   again, and a backfill of what the webhook has seen, count their trades again.

What follows was met while modelling; the models describe it as the code has it,
and no run is spent on it.

*Epoch program*

- `state/epoch_state.rs:133-134` says that a Carnage expires once the slot is beyond
  `carnage_deadline_slot`. `execute_carnage_atomic` does not look at the deadline
  (`execute_carnage_atomic.rs:202`): until somebody expires the Carnage, it can still
  be executed on that path, and `CarnageIsNotCancelled` says nothing of it.
- `state/epoch_state.rs:142` calls `last_carnage_epoch` the last epoch when Carnage
  was triggered. It records the epoch when the Carnage is *executed*
  (`carnage_execution.rs:374`), which may be the next one, whose randomness is not
  known yet.

*Deployment and graduation*

- Once conversions have emptied a vault, a run of the deployment seeds it again
  from what is meant for the pool, and the last step of graduation tries to, with
  nothing left after the pools (`graduate.ts`, `seedConversionVault`): the exception
  `OutOfTokens` of `LaunchResolves`.
- `initialize.ts:19-21` promises that a run after a partial completion skips what
  is there. A run that died after it minted the supply and before it seeded the
  vaults leaves the supply in an account that later runs do not find (`:765`):
  they create an empty one and fail at the first vault. `LaunchResolves` therefore
  begins when the curves have started.
- `graduate.ts:10-12` describes the checkpoint as safe to resume from. The amount
  withdrawn is a balance difference saved after the transaction; dying in between
  loses it, and the pool cannot be created until the operator gives it by hand.
- `initialize.ts` announces near its end that graduation "burns whitelist
  authority (IRREVERSIBLE)"; graduation skips that step, and the authority goes to
  the multisig.
- A run that dies between minting a token and writing its metadata leaves a mint
  without metadata, because the next run sees the mint and skips both.
- If the script dies between starting CRIME and starting FRAUD and CRIME sells out
  meanwhile, the funding step sees an empty vault and ends every later run.
- `state.rs:61` speaks of 1000 SOL where `TARGET_SOL` is 500.
- `RefundPanel.tsx` overestimates a refund after the first claim, and nothing in
  the application sends the consolidation that refunds wait for.

*Crank*

- A halted crank does not exit: the health server keeps the process alive
  (`crank-runner.ts:98-99` speaks of exiting), so that the supervisor does not
  restart it.
- Instances with different keys close each other's accounts in their sweeps, also
  one that a pending request is bound to; so may the sweep after a crash.
- The recovery that looks for "07DC" in an error cannot match the "0x7dc" that the
  RPC reports.

*Swap form*

- After an edit the selected route lives until the debounce timer fires. A
  click before sends the old route, and a direct swap sends the new amount with the
  old minimum (`useSwap.ts:865-892`, `SwapStation.tsx:160-164`), protected only by
  the program's floor.
- `multi-hop-builder.ts:61` describes a result for transactions that were not
  confirmed; polling throws instead, though the transaction may land.
- A route over SOL (CRIME to SOL to FRAUD) applies the slippage twice and needs the
  SOL of its second step beforehand. A split may bring one unit less than its
  minimum.
- `idl/types` has `convert_v2` with two arguments, the program takes three.

*Indexer*

- `schema.ts:28` calls the signature a swap's "natural idempotency key"; of the
  swaps of a split route, one transaction, only the first has a row
  (`route.ts:692`).
- `event-parser.ts:306` says that `EpochTransitionTriggered` and `TaxesUpdated` come
  in one transaction. They come in two (`trigger_epoch_transition.rs:259`): the
  first stores the epoch with rates of zero, the second changes nothing
  (`route.ts:785`).
- `route.ts:511-512` answers database errors with 500 so that Helius retries; an
  error inside the loop is caught and answered with 200 (`:486`).
- `candle-aggregator.ts:15-18` says that the latest trade sets the close and the
  first the open. The backfill walks the history newest first
  (`backfill-candles.ts:391`).
- `schema.ts:113` says that there is one Carnage per epoch; one executed late and
  the one of the epoch it is executed in have the same number, and the second has
  no row (`route.ts:908`). What a Carnage burned is guessed from the latest row,
  which is wrong when rows come late.
- Posts delivered after more than five minutes are skipped, though retries last
  for a day.

*Live state*

- `route.ts:241` is to store the lamports of the Carnage vault; it stores the
  change of the balance (`:584`).
- `useVisibility.ts:8-9` says that hidden tabs stop polling; the provider's timer
  runs on and starts the polling again (`ProtocolStateProvider.tsx:303`).
- `ProtocolStateProvider.tsx:154-155` polls to keep data fresh; answers are ignored
  for every account of which decoded data has come once (`:184`).
- `sse/protocol/route.ts:54` is to prevent a double release; the auto-release has
  a flag of its own (`sse-connections.ts:95`), so a stream that outlives its timer
  releases a second slot, another stream's. Comments there speak of thirty
  minutes, the timer has five.
- A server whose seed failed never starts its polls and subscriptions
  (`instrumentation.ts:16-28`): hence the premise of `WebTabsCatchUp`. A late
  webhook or poll may show an older state until the next poll.

## 6. Proofs

The theorems hold for all values of the constants that satisfy the named
`ASSUME`s: epochs of at least one slot, natural-number timings and amounts,
positive prices and reserves, tax rates and a slippage of at most 100 %, a wallet
without wrapped SOL to begin with, finitely many users who stake (the chain has
finitely many accounts), a server that handles finitely many requests at a time, and
any sets of accounts, buyers, streams, tabs, results and deposits. TLC evaluates these
assumptions in every run.

*Induction and sums.* The theorems about sums over users and about sequences of
instructions of any length need induction. `Arithmetic_proofs` has it as facts
about sets instead of predicates: a set that has the empty set and, with a set,
what one more element makes of it, has every finite set (`SubsetInduction`), and
likewise for numbers (`NatSetInduction`). Both follow from the minimum principle
of well-founded relations. `SumCounts` shows that a sum of
natural numbers, as the folds of the community modules compute it, counts the
pairs of an index and a unit of its value; from there `SumUpdate`, `SumMonotone`
and `SumLinear` say what a sum does when one entry, or every entry, changes, and
`SumByParts` that it is the sum of the sums over its parts.

*The fund.* Type correctness is not inductive by itself: that no balance turns
negative needs to know that the vault holds what is burned or sold, which needs
the record to agree with the vaults, which needs the action of the pending
Carnage to fit the holdings. So one invariant carries all of it,

    FundInv == EpochTypeOK /\ HeldTokenKnown /\ ActionMatchesHoldings /\ HoldingsAreInVault

with `HeldTokenKnown` (a positive amount is held of a known token). Under it the
steps are lemmas of their own: `SaleTyped`, `SpendingBounds`, `BoughtTyped` and
`DisposalTyped` about the arithmetic of an execution, then one lemma per group of
actions for types (`TickTyped` ... `BundleTyped`) and holdings (`ConsumeHoldings`,
`ExecuteHoldings`), joined in `TypeStep` and `HoldingsStep`. Results: `TypeCorrect`,
`ActionAlwaysMatchesHoldings`, `HoldingsAlwaysInVault`, and from the same
invariant `RentAlwaysKept` and `SpendingAlwaysCapped`. `SaleTyped` rests on
`SwapKeepsK`, that the AMM's output formula never lowers the product of the
reserves, and `SwapLeavesReserve`, that it never empties a pool.

*The epochs.* `EpochInv` joins `PendingMatchesStaking` with
`finalized_epoch <= current_epoch`. Result: `PendingAlwaysMatchesStaking`.
`Refinement` follows: `LifecycleUntouched`,
`TriggerIsRequest`, `ConsumeIsFinalize`, `BundleIsFinalizeAndExecute` and
`ExecutionIsExecute` map each action to a step of `EpochLifecycle` or a stutter.
`CarnageNeverCancelled` holds of every step, and `EpochAlwaysFollowsClock` needs
`ClockInv`, that the genesis slot is in the past. `TaxesAlwaysFollowCheapSide`:
whatever the bytes are, `derive_taxes` yields rates of the bands that go with the
side it chose (`DerivedTaxes`), and a step either leaves side and rates alone or sets
them together (`TaxesAreSet`). That a result pays for at most one execution is
`Refinement`: in the abstract specification an execution needs a Carnage that waits,
takes it away, and only a finalisation makes one wait.

*Staking, an account at a time.* `StakingInv` is the type of the reward accounting
with `CheckpointsAreBehind` (no account is ahead of the pool's reward per token,
and without stake there is nothing to claim), `UnopenedIsNew` (an account nobody
opened is blank, so that its first stake is a checkpoint like any other) and
`CooldownOnRecord` (the account remembers the user's last claim until its
cooldown is over). The distribution raises the reward per token, so a
checkpoint can only gain: `RewardsNeverTaken`. A full exit clears the recorded
time, which is sound because it waits for the cooldown: `CooldownAlwaysKept`.
`NeverDustAfterUnstake` is the boundary of `UnstakeAmount`.

*Staking, all accounts together.* `EscrowCoversClaims` is not inductive: claims are
rounded down account by account, and a later checkpoint may pay what an earlier
rounding withheld. So the escrow is measured against what it owes before rounding,

    PRECISION * (escrow_vault - ESCROW_RENT) >= PRECISION * pending_rewards + SumFunction(Debts)

in units of 1/`PRECISION` lamport (`EscrowCoversDebts` in `SolvencyInv`, with
`StakeIsBacked`). A user's own instruction changes one entry of the sum. A
distribution changes every entry by the user's stake times the rise of the reward
per token; these add up to at most the rewards distributed, because the stakes add
up to less than the total they were divided by (`DistributionKeepsSolvency`, the
step that ties the two sums together). Results: `StakeAlwaysBacked`,
`EscrowAlwaysCoversClaims` and the full `StakingTyped`.

*The curves.* The proofs about `CurveMath` show that the integer square root is one
(`IsqrtProperty`) and bound what a purchase delivers (`TokensOutBounded`). The
invariant of `BondingCurve_proofs`,

    CurveInv == CurveTypeOK /\ Books /\ Stage /\ GraduateTogether /\ RefundsNeedFailure

(of both curves) has the books of vault and escrow, what each stage of a curve
implies of them, and that graduation is of both curves and refunds follow a
failure: a balance stays natural because the books bound what a sale, a refund or
a withdrawal takes, and the books hold because each amount leaves on one path.
One lemma per instruction keeps it. Results: `CurveTypeCorrect`,
`VaultAlwaysMatchesTrades`, `GraduationNeverRefunds` and, of every step,
`RefundsAlwaysShareAlike`. `CurveExtra` adds what the launch needs: until a
curve starts, its vault holds what the admin put there, and what it raised is
withdrawn once.

*The launch.* `Graduation_proofs` maps every step of the launch, the scripts' and
their deaths included, to a step of the curves or a stutter
(`LaunchImplementsCurves`); a conversion is to the curves a change of holdings
(`HoldingsChange`), which their proofs have to survive, so none of them may take
what users hold for what a curve has sold. Their invariants carry over to the launch
(`LaunchesAreSafe`). That tokens are placed needs the order of the plan, because
the deployer's account is spent from in that order: no curve exists before every
vault is seeded (`SeedingComesFirst`, of the sequence of tasks). `LaunchInv` is

    CurveInv /\ CurveExtra /\ LaunchTyped /\ SeedingInv /\ (\A t \in Mint : Placed(t)) /\ AmountsInv

`SeedingInv` says what a script that has come to a task knows of the vaults, also
after a death and another run: each is `Stocked`, that is it has tokens, or
conversions have emptied it. Scripts only add to vaults (`VaultsGrow`) and a
conversion that takes the last token is on record (`ConversionMoves`), so what is
stocked stays so (`SeedsLast`), and only an emptied vault is seeded again
(`ReseedsVault`), for which `Placed` makes its one exemption. `Placed` accounts
for each mint's supply over the deployer, vaults, curve, stake and pool; a step is
one of a few moves of tokens (`ScriptMoves`, `OpensPool`), each of which keeps it.
`AmountsInv` follows the SOL of a withdrawal from the process's memory through the
checkpoint file to the pool, so that a death loses the amount but never falsifies
it. Results: `TokensAlwaysPlaced` and `PoolsAlwaysOpenAtCurveValue`.

*Swaps.* Of the functions a trade is made of, for all amounts and rates:
`SplitIsFair`, `GrossFloorSuffices` (a sale's two floors never disagree),
`ConversionGainsNothing`, and `PurchaseKeepsPool` and `SaleKeepsPool` (SOL is
conserved over payer, pool and destinations, the ledger stays sound, the product
of the reserves does not fall). They rest on `SwapKeepsK`.

*Trading.* A transaction is a fold of its instructions over the ledger.
`ApplyKeeps` shows that each instruction, failed or not, leaves a sound ledger
whose destinations have their shares; `ExecuteEndsIn` takes a property from
instruction to instruction through a transaction of any length. That no SOL stays
wrapped is a property of what the application builds: an instruction list is
*tidy* if whatever fills the wrapped-SOL account is followed by a closing, and a
tidy transaction that succeeds leaves none (`TidyLeavesNone`). Each step builds a
tidy list (`StepSound`); joining the lists of a route and keeping only the last
closing of an atomic transaction keeps it so (`FlattenSound`, `AtomicSound`): the
filter drops closings only, never the last one, and leaves the order alone
(`RankBounds`, `RankReached`). For that the routes have to be known: whatever the
pools, the routes the application offers lead over one, two or twice two steps of
the graph (`RouteOK`, `SingleRoutesOK`, `SplitRouteOK`). The invariant is

    TradingInv == LedgerOK /\ seen \in LedgerView /\ FormOK /\ OrdersOK

the ledger's two properties, a sound route on the form, and tidy transactions under
way, however old they are. Results: `TaxesAlwaysSharedFairly`,
`NoSolEverStaysWrapped`.

*What a trade brings.* `RoutesKeepTheirTerms` compares the ledgers before and after
a whole transaction. `Gain` is what one instruction brings of a token at least, if
it succeeds: its minimum of what it buys, less the amount of what it gives, whatever
the pools and rates are by then (`ApplyGains`). A transaction *brings* g of a token
if some running total of the gains of its instructions ends at g or more (`Brings`,
`Tally`); a transaction that succeeds has then raised the wallet by g
(`ExecuteBrings`), wrapped SOL counted as SOL, and there is none before or after.
A total survives joining the lists of a route and dropping closings
(`FlattenBrings`, `AtomicBrings`). It remains that the minimums of the steps add up
to the terms shown: a step that follows another is given that one's minimum, so
that nothing of the token between them is counted on twice (`RouteBrings`), and the
slippage of two legs, rounded down each, is within one unit of the whole
(`SlippageCovers`). The invariant is `TermsInv` on top of `TradingInv`: the route
on the form belongs to the pair on the form, and each transaction under way brings
what was agreed, however old it is. It needs that the form never has the same token
on both sides (`TradingAssumption`, the pairs of `VALID_PAIRS`). Result:
`RoutesAlwaysKeepTheirTerms`.

*The crank.* That a breaker needs faults says that there is no path of the crank's
own making to an error: it depends on what the crank knows at each step, and on
which accounts are open then.

    CrankInv == ChainTyped /\ (types of the processes) /\ (Relies, Accounts, Counted of each)

`Relies`: where the crank acts on a request it has read, the request is still as
it was read, or there is *slack*: a fault, or a transaction of another, that no
consecutive error stands for yet. `Accounts`: the account that it is about to
commit or to reveal is open, above all the retry's, which is not the one its own
clean-up closes. `Counted`: consecutive errors never outnumber faults and races.
One lemma per action keeps it; an error is counted only with slack (`ThrowKeeps`),
a rival's transaction, a failed call, or one that throws although it landed, makes
slack (`RivalKeeps`, `FaultKeeps`, `LateThrowKeeps`), and everything else needs
none. The theorem `BreakersAlwaysNeedFaults` is about one process (`Instance =
{p}`), any accounts, thresholds and numbers of faults, races and deaths: with two
processes of different keys the property is false, since their sweeps close each
other's accounts.

*The web server.* `SlotsInv` is inductive as it stands: a release lowers a count by
one or leaves it at zero, and ends at most one holder of its address
(`ReleasedHolds`), also when the holder's timer had fired before. Result:
`SlotsNeverLeak`. `LiveInv` is not, and needs

    LiveIInv == LiveTyped /\ Connected /\ Rising /\ StreamsCarryTheStore

`Connected`: only a seeded server has subscriptions, and only a serving one
streams. `Rising`: whatever is on its way to the store, in a subscription, in the
answer to a poll or past the watermark, is not from before the seed. What a tab
shows in the end is a fold of what its stream still carries over its view;
`ShownReceived` and `ShownAppended` are the two ends of that queue, and with
`SetFollows` give `StreamsAlwaysCarryTheStore`.

*The indexer.* `EventsAreStored` speaks of a quiet server only; while requests run,
the invariant says where everything is that is neither due nor stored:

    DeliveryInv == ChainTyped /\ WorkTyped /\ NothingIsForgotten

`NothingIsForgotten`: as long as no database call failed, a landed transaction
Helius need not deliver is handled (its rows are there, or it was skipped), or it is
promised, that is in the batch of a request that has not answered and there either
in the payload or with a call to come for every row it lacks. `CallsOfRequest` shows
that the calls of a transaction are one for each row; every step of a worker drops
a call it has made (`DroppedCall`), and a request answers only when all that it
promised is handled (`AnswerStep`), or hands it back (`ResendStep`, `StopStep`). Rows
are never deleted and time only makes more transactions late, so what is handled
stays so (`HandledStays`). The event lists are flattened sequences: `FlattenGathers`
of `Arithmetic_proofs` says that these have what their parts have. Result:
`EventsAlwaysStored`.

Of the candles, `IndexerInv` compares sums over trades with rows that are added to
trade by trade and resolution by resolution, in any order. The invariant is

    CandlesInv == Clock /\ (\A w \in Worker : Busy(w)) /\ Rows /\ Credits
                  /\ \A key \in DOMAIN candles : Columns(key)

The credit of a trade at a resolution is the number of times its transaction was
taken up, less the workers that have its upsert still to make. A call is of one
trade (`Sound`) and no two upserts of a worker are of the same (`Apart`), so
taking a transaction up changes no credit (`TakeUpCandles`: one attempt more, one
worker more), an upsert gives one credit to one trade (`OneCreditMore`), and a
failed call or a killed worker gives credit without an upsert. Hence `Columns`: a
candle counts at most the credits of the trades of its period (as many as it was
delivered: the theorem bounds what interleavings do, and does not make candles
idempotent), its volume is at most theirs, both exactly if nothing was lost, and
its high and low are among the prices of those counted and bound them. `Credits`
says that only trades with credit are counted, and all of them if nothing was
lost. From there `CountsAreBounded` follows since credit is at most attempts;
`ResolutionsAgree`, since on a quiet server credits are the same at every
resolution, periods are nested (`Nested`) and a sum is that of its parts
(`SumByParts`). Sums are those of the community modules: they are counts of units
(`SumNat`), so that induction over trades is induction over a finite set. Result:
`CandlesAlwaysTrackTrades`.

Model-checked only:

- All liveness: the prover has no rules for it.
- `TradesFollowCurve`: its slack depends on the scale of the square root, that is on
  the constants of the code, which the theorems leave open.
- `FreshRoutesLand`: of any constants it is false. With amounts of a few units the
  roundings of two steps outweigh the slippage, and a conversion vault may be empty;
  it is a statement about amounts like those of the run.

## 7. Not modelled, and the plan

Left out for good: account validation by Anchor, event logs, compute budgets;
`force_carnage` and the devnet variants of constants; the test programs; the
remaining scripts (building, verifying, metadata, end-to-end tests), which are
one-off input and output; the pages of the web application that show state and
send single instructions; the SDK, the documentation site and the generated
interface descriptions, which have no behaviour.

Left out of modelled parts: of the AMM the admin key, which nothing reads once the
pools are open; of the governance script the upgrade and metadata authorities; of
the deployment script the partial mode; of the swap form typing the output side,
flipping the pair, smart routing off, price impact, rent and network fees (the
conversion vault's delta mode is modelled, though nothing sends it); of the crank
balances, alerts and the health server; of the launch trades in the pools it has
opened; of the web server payload checks, authentication, posts without a slot
(which would pass the watermark; Helius sends none, `helius/route.ts:567-578`),
rate limits, charts, supply and staker figures.

What would be worth adding, by importance:

1. `Protocol`: `EpochProgram` and `Staking` composed through `update_cumulative`
   and `deposit_rewards`, replacing the two stand-ins. Property: the rewards of an
   epoch are distributed once, in that epoch.
2. `Crank` against `EpochProgram` itself, so that the fairness assumed of the
   three transactions becomes a theorem about the loop; two instances.
3. `Trading` with the Carnage's exempt swaps among the rivals.

Of proofs: from which amounts on `FreshRoutesLand` holds.
