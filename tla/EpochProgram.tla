----------------------------- MODULE EpochProgram -----------------------------
(***************************************************************************)
(* The epoch program (src/programs/epoch-program): the clockwork of the    *)
(* protocol.  An epoch transition commits to a VRF randomness account;     *)
(* consuming the revealed randomness sets the tax rates, finalises the     *)
(* staking rewards of the epoch and may arm a Carnage, which disposes of   *)
(* the tokens the Carnage fund holds and buys others with its SOL.         *)
(*                                                                         *)
(* Every instruction is an action: a Solana transaction is atomic, so its  *)
(* requirements are conjuncts and a failed one changes nothing.  All the   *)
(* instructions are permissionless, hence taken in any order.  Variables   *)
(* have the names of the account fields they stand for.                    *)
(*                                                                         *)
(* A definition named X_Something, just before X, is X with a mistake the  *)
(* properties are meant to catch; nothing uses it.                         *)
(***************************************************************************)
EXTENDS VrfDerivation, AmmMath

CONSTANTS
  SLOTS_PER_EPOCH,        \* slots from one epoch boundary to the next
  VRF_TIMEOUT_SLOTS,      \* slots after which a VRF request may be replaced
  CARNAGE_DEADLINE_SLOTS, \* slots a pending Carnage stays executable
  CARNAGE_LOCK_SLOTS,     \* slots reserved to the atomic path
  TRIGGER_BOUNTY,         \* lamports paid for an epoch transition
  RENT_EXEMPT_MIN,        \* lamports the SOL vault has to keep
  MAX_CARNAGE_SWAP,       \* lamports a Carnage may spend on its buy
  GenesisSlot,            \* slot of initialize_epoch_state
  RandomnessAccount,      \* Switchboard accounts the clients create
  NoAccount,              \* Pubkey::default()
  VrfSample,              \* the VRF results an oracle may reveal
  Reserves,               \* the pool reserves a Carnage may meet
  Deposits                \* the amounts the SOL vault may be credited

\* Bounds of the model: after MaxSlot there are no oracle calls, deposits or
\* retries beyond what a request in flight needs, and the clock ticks only while
\* a timer runs; no epoch is triggered from MaxEpoch on; no deposit takes the
\* vault beyond MaxSolVault.
CONSTANTS MaxSlot, MaxEpoch, MaxSolVault

ASSUME TimingAssumption ==
  /\ SLOTS_PER_EPOCH \in Nat \ {0}
  /\ VRF_TIMEOUT_SLOTS \in Nat
  /\ CARNAGE_LOCK_SLOTS \in Nat
  /\ CARNAGE_DEADLINE_SLOTS \in Nat
  /\ GenesisSlot \in Nat

ASSUME LamportAssumption ==
  /\ TRIGGER_BOUNTY \in Nat
  /\ RENT_EXEMPT_MIN \in Nat
  /\ MAX_CARNAGE_SWAP \in Nat
  /\ Deposits \subseteq Nat

ASSUME EnvironmentAssumption ==
  /\ NoAccount \notin RandomnessAccount
  /\ VrfSample \subseteq VrfResult
  /\ Reserves \subseteq [sol : Nat \ {0}, token : Nat \ {0}]

ASSUME BoundAssumption ==
  /\ MaxSlot \in Nat
  /\ MaxEpoch \in Nat
  /\ MaxSolVault \in Nat

VARIABLES
  slot,                   \* the Clock sysvar
  \* EpochState: epoch and VRF request
  current_epoch, epoch_start_slot,
  vrf_request_slot, vrf_pending, taxes_confirmed, pending_randomness_account,
  \* EpochState: taxes
  cheap_side, tax_bps, low_tax_bps, high_tax_bps,
  \* EpochState: Carnage request
  carnage_pending, carnage_action, carnage_target,
  carnage_deadline_slot, carnage_lock_slot, last_carnage_epoch,
  \* CarnageFundState and the fund's accounts
  held_token, held_amount, total_sol_spent, total_burned,
  total_triggers, last_trigger_epoch,
  sol_vault, carnage_wsol, token_vault,
  \* StakePool.last_update_epoch, written through update_cumulative
  finalized_epoch,
  \* Switchboard randomness accounts
  randomness

epochVars   == <<current_epoch, epoch_start_slot>>
requestVars == <<vrf_request_slot, pending_randomness_account>>
vrfVars     == <<vrf_pending, taxes_confirmed>>
taxVars     == <<cheap_side, tax_bps, low_tax_bps, high_tax_bps>>
armVars     == <<carnage_target, carnage_deadline_slot, carnage_lock_slot>>
pendingVars == <<carnage_pending, carnage_action>>
fundVars    == <<held_token, held_amount, total_sol_spent, total_burned,
                 total_triggers, last_trigger_epoch, last_carnage_epoch,
                 carnage_wsol, token_vault>>

vars == <<slot, epochVars, requestVars, vrfVars, taxVars, armVars, pendingVars,
          fundVars, sol_vault, finalized_epoch, randomness>>

------------------------------------------------------------------------------
(***************************************************************************)
(* Switchboard On-Demand, as the program and its clients use it: an        *)
(* account is committed, which seeds it; the oracle reveals its value once;*)
(* get_value returns the value in the slot of the reveal only.  The age of *)
(* the seed matters up to one slot, so it is capped at two.                *)
(***************************************************************************)
Randomness == [age : 0..2, value : {"none", "now", "past"}]

Committed == [age |-> 0, value |-> "none"]
IsFresh_PreviousSlotOnly(r) == r.age = 1
IsFresh(r) == r.age <= 1
ValueReadable(r) == r.value = "now"
Older(r) == [age   |-> Lesser(r.age + 1, 2),
             value |-> IF r.value = "now" THEN "past" ELSE r.value]

\* A client does not commit an account again while a request is bound to it.
Committable(a) == ~ (vrf_pending /\ a = pending_randomness_account)
Revealable(a) == randomness[a].value = "none"

BeforeHorizon == slot <= MaxSlot

------------------------------------------------------------------------------
expected_epoch_RoundedUp(at) ==
  (saturating_sub(at, GenesisSlot) + SLOTS_PER_EPOCH - 1) \div SLOTS_PER_EPOCH
expected_epoch(at) == saturating_sub(at, GenesisSlot) \div SLOTS_PER_EPOCH
start_slot(epoch)  == GenesisSlot + epoch * SLOTS_PER_EPOCH

\* initialize_carnage_fund; the deployment funds the SOL vault's rent.
InitCarnageFund ==
  /\ held_token = NoToken
  /\ held_amount = 0
  /\ total_sol_spent = 0
  /\ total_burned = [t \in Token |-> 0]
  /\ total_triggers = 0
  /\ last_trigger_epoch = 0
  /\ sol_vault = RENT_EXEMPT_MIN
  /\ carnage_wsol = 0
  /\ token_vault = [t \in Token |-> 0]

\* initialize_epoch_state: the genesis taxes make CRIME the cheap side.
Init ==
  /\ slot = GenesisSlot
  /\ current_epoch = 0
  /\ epoch_start_slot = GenesisSlot
  /\ cheap_side = "CRIME"
  /\ low_tax_bps = 300
  /\ high_tax_bps = 1400
  /\ tax_bps = [t \in Token |-> IF t = "CRIME" THEN [buy |-> 300,  sell |-> 1400]
                                               ELSE [buy |-> 1400, sell |-> 300]]
  /\ vrf_request_slot = 0
  /\ vrf_pending = FALSE
  /\ taxes_confirmed = TRUE
  /\ pending_randomness_account = NoAccount
  /\ carnage_pending = FALSE
  /\ carnage_target = "CRIME"
  /\ carnage_action = "None"
  /\ carnage_deadline_slot = 0
  /\ carnage_lock_slot = 0
  /\ last_carnage_epoch = 0
  /\ InitCarnageFund
  /\ finalized_epoch = 0
  /\ randomness = [a \in RandomnessAccount |-> [age |-> 2, value |-> "past"]]

------------------------------------------------------------------------------
(***************************************************************************)
(* The environment: the clock, the oracle, and the tax revenue that flows  *)
(* into the fund's SOL vault.                                              *)
(***************************************************************************)
RequestTimedOut == saturating_sub(slot, vrf_request_slot) > VRF_TIMEOUT_SLOTS
CarnageStale == slot > carnage_deadline_slot

TimerRuns ==
  \/ carnage_pending /\ ~CarnageStale
  \/ vrf_pending /\ ~RequestTimedOut

Tick ==
  /\ slot < MaxSlot \/ TimerRuns
  /\ slot' = slot + 1
  /\ randomness' = [a \in RandomnessAccount |-> Older(randomness[a])]
  /\ UNCHANGED <<epochVars, requestVars, vrfVars, taxVars, armVars, pendingVars,
                 fundVars, sol_vault, finalized_epoch>>

OnlyRandomness ==
  UNCHANGED <<slot, epochVars, requestVars, vrfVars, taxVars, armVars,
              pendingVars, fundVars, sol_vault, finalized_epoch>>

Commit(a) ==
  /\ BeforeHorizon
  /\ Committable(a)
  /\ randomness' = [randomness EXCEPT ![a] = Committed]
  /\ OnlyRandomness

Reveal(a) ==
  /\ BeforeHorizon
  /\ Revealable(a)
  /\ randomness' = [randomness EXCEPT ![a].value = "now"]
  /\ OnlyRandomness

Deposit(lamports) ==
  /\ BeforeHorizon
  /\ sol_vault + lamports <= MaxSolVault
  /\ sol_vault' = sol_vault + lamports
  /\ UNCHANGED <<slot, epochVars, requestVars, vrfVars, taxVars, armVars,
                 pendingVars, fundVars, finalized_epoch, randomness>>

------------------------------------------------------------------------------
(***************************************************************************)
(* trigger_epoch_transition, given the randomness account as the           *)
(* instruction reads it.  The bounty is paid when the vault can spare it   *)
(* and keep its rent.                                                      *)
(***************************************************************************)
BountyPaid_ForgetsRent == sol_vault >= TRIGGER_BOUNTY
BountyPaid == sol_vault >= TRIGGER_BOUNTY + RENT_EXEMPT_MIN

trigger_epoch_transition(a, r) ==
  /\ current_epoch < MaxEpoch
  /\ expected_epoch(slot) > current_epoch
  /\ ~vrf_pending
  /\ IsFresh(r)
  /\ ~ValueReadable(r)
  /\ current_epoch' = expected_epoch(slot)
  /\ epoch_start_slot' = start_slot(expected_epoch(slot))
  /\ vrf_request_slot' = slot
  /\ vrf_pending' = TRUE
  /\ taxes_confirmed' = FALSE
  /\ pending_randomness_account' = a
  /\ sol_vault' = sol_vault - (IF BountyPaid THEN TRIGGER_BOUNTY ELSE 0)
  /\ UNCHANGED <<slot, taxVars, armVars, pendingVars, fundVars, finalized_epoch>>

\* retry_epoch_vrf: replaces a request the oracle left unanswered.
retry_epoch_vrf(a, r) ==
  /\ vrf_pending
  /\ RequestTimedOut
  /\ IsFresh(r)
  /\ ~ValueReadable(r)
  /\ vrf_request_slot' = slot
  /\ pending_randomness_account' = a
  /\ UNCHANGED <<slot, epochVars, vrfVars, taxVars, armVars, pendingVars,
                 fundVars, sol_vault, finalized_epoch>>

------------------------------------------------------------------------------
(***************************************************************************)
(* consume_randomness.  A stale Carnage is dropped, the taxes are set,     *)
(* staking is told that the epoch is final (which it refuses for an epoch  *)
(* it has already seen), and a Carnage may be armed if the caller passed   *)
(* the optional carnage_state account.                                     *)
(***************************************************************************)
SetTaxes(vrf) ==
  LET config == derive_taxes(vrf, cheap_side)
  IN /\ cheap_side' = config.cheap_side
     /\ tax_bps' = config.tax_bps
     /\ low_tax_bps' = lowest_rate(config.tax_bps)
     /\ high_tax_bps' = highest_rate(config.tax_bps)

UpdateCumulative_Increments(epoch) ==
  /\ epoch > finalized_epoch
  /\ finalized_epoch' = finalized_epoch + 1

UpdateCumulative_Consecutive(epoch) ==
  /\ epoch = finalized_epoch + 1
  /\ finalized_epoch' = epoch

UpdateCumulative(epoch) ==
  /\ epoch > finalized_epoch
  /\ finalized_epoch' = epoch

\* A Carnage is a record: what becomes of the holdings, and what is bought.
Carnage == [action : CarnageAction, target : Token]

Decided_ByHeldToken(vrf) ==
  [action |-> get_carnage_action(vrf, held_token # NoToken),
   target |-> get_carnage_target(vrf)]

Decided(vrf) ==
  [action |-> get_carnage_action(vrf, held_amount > 0),
   target |-> get_carnage_target(vrf)]

OpenWindow(target) ==
  /\ carnage_target' = target
  /\ carnage_deadline_slot' = slot + CARNAGE_DEADLINE_SLOTS
  /\ carnage_lock_slot' = slot + CARNAGE_LOCK_SLOTS

ArmCarnage(carnage) ==
  /\ carnage_pending' = TRUE
  /\ carnage_action' = carnage.action
  /\ OpenWindow(carnage.target)

DropStaleCarnage_DropsAny ==
  /\ carnage_pending' = FALSE
  /\ carnage_action' = "None"
  /\ UNCHANGED armVars

DropStaleCarnage ==
  /\ carnage_pending' = (carnage_pending /\ ~CarnageStale)
  /\ carnage_action' = IF carnage_pending /\ CarnageStale THEN "None" ELSE carnage_action
  /\ UNCHANGED armVars

\* Everything but the Carnage.
FinalizeEpoch(a, r, vrf) ==
  /\ vrf_pending
  /\ a = pending_randomness_account
  /\ ValueReadable(r)
  /\ SetTaxes(vrf)
  /\ vrf_pending' = FALSE
  /\ taxes_confirmed' = TRUE
  /\ UpdateCumulative(current_epoch)
  /\ UNCHANGED <<slot, epochVars, requestVars>>

consume_randomness(a, r, vrf, with_carnage_state) ==
  /\ FinalizeEpoch(a, r, vrf)
  /\ IF with_carnage_state /\ is_carnage_triggered(vrf)
       THEN ArmCarnage(Decided(vrf))
       ELSE DropStaleCarnage
  /\ UNCHANGED <<fundVars, sol_vault>>

------------------------------------------------------------------------------
(***************************************************************************)
(* execute_carnage_core.  The holdings are burned or sold; the SOL the     *)
(* vault can spare, at most MAX_CARNAGE_SWAP, together with the proceeds   *)
(* of the sale, again at most MAX_CARNAGE_SWAP, buys the target token.     *)
(*                                                                         *)
(* Trading moves the pools at any time between two executions, so the      *)
(* reserves an execution meets are an input.  It trades through            *)
(* swap_exempt, which takes no tax and sets no minimum output.             *)
(***************************************************************************)
CARNAGE_SLIPPAGE_BPS_ATOMIC == 8500
CARNAGE_SLIPPAGE_BPS_FALLBACK == 7500

Disposes(carnage, action) == carnage.action = action /\ held_amount > 0

SaleAccepted(carnage, pools) ==
  Disposes(carnage, "Sell") =>
    SwapAccepted(held_amount, pools[held_token].token, pools[held_token].sol)

SolFromSale(carnage, pools) ==
  IF Disposes(carnage, "Sell")
    THEN SwapOutput(held_amount, pools[held_token].token, pools[held_token].sol)
    ELSE 0

\* The target's pool as the buy meets it: after the sale, if that was the same.
TargetPool(carnage, pools) ==
  LET pool == pools[carnage.target]
  IN IF Disposes(carnage, "Sell") /\ carnage.target = held_token
       THEN [sol   |-> pool.sol - SolFromSale(carnage, pools),
             token |-> pool.token + held_amount]
       ELSE pool

AvailableSol == saturating_sub(sol_vault, RENT_EXEMPT_MIN)
SwapAmount == Lesser(AvailableSol, MAX_CARNAGE_SWAP)
BuyAmount_Uncapped(sale) == SwapAmount + sale
BuyAmount(sale) == Lesser(SwapAmount + sale, MAX_CARNAGE_SWAP)
WrapAmount_SkippedAfterSale(sale) == IF sale > 0 THEN 0 ELSE BuyAmount(sale)
WrapAmount(sale) == saturating_sub(BuyAmount(sale), sale)

\* The floor is a fraction of the fee-less output at the reserves read just
\* before the swap.
MinOutput(buy, pool, slippage_bps) ==
  (((pool.token * buy) \div (pool.sol + buy)) * slippage_bps) \div 10000

BuyAccepted(buy, pool, slippage_bps) ==
  buy > 0 =>
    /\ SwapAccepted(buy, pool.sol, pool.token)
    /\ SwapOutput(buy, pool.sol, pool.token) >= MinOutput(buy, pool, slippage_bps)

TokensBought(buy, pool) ==
  IF buy > 0 THEN SwapOutput(buy, pool.sol, pool.token) ELSE 0

DisposedVault_BurnOnly(carnage) ==
  [t \in Token |-> IF t = held_token /\ Disposes(carnage, "Burn")
                     THEN token_vault[t] - held_amount
                     ELSE token_vault[t]]

\* What the token vaults hold once the holdings are burned or sold.
DisposedVault(carnage) ==
  [t \in Token |->
     IF t = held_token /\ (Disposes(carnage, "Burn") \/ Disposes(carnage, "Sell"))
       THEN token_vault[t] - held_amount
       ELSE token_vault[t]]

execute_carnage_core(carnage, pools, slippage_bps) ==
  LET sale   == SolFromSale(carnage, pools)
      buy    == BuyAmount(sale)
      pool   == TargetPool(carnage, pools)
      bought == TokensBought(buy, pool)
  IN /\ SaleAccepted(carnage, pools)
     /\ BuyAccepted(buy, pool, slippage_bps)
     /\ held_token' = carnage.target
     /\ held_amount' = bought
     /\ token_vault' = [DisposedVault(carnage) EXCEPT ![carnage.target] = @ + bought]
     /\ sol_vault' = sol_vault - WrapAmount(sale)
     /\ carnage_wsol' = carnage_wsol + sale + WrapAmount(sale) - buy
     /\ total_burned' = [t \in Token |-> total_burned[t] +
          IF t = held_token /\ Disposes(carnage, "Burn") THEN held_amount ELSE 0]
     /\ total_sol_spent' = total_sol_spent + buy
     /\ total_triggers' = total_triggers + 1
     /\ last_trigger_epoch' = current_epoch
     /\ carnage_pending' = FALSE
     /\ carnage_action' = "None"
     /\ last_carnage_epoch' = current_epoch

\* The Carnage on record.
Pending == [action |-> carnage_action, target |-> carnage_target]

ExecutePending(pools, slippage_bps) ==
  /\ execute_carnage_core(Pending, pools, slippage_bps)
  /\ UNCHANGED <<slot, epochVars, requestVars, vrfVars, taxVars, armVars,
                 finalized_epoch, randomness>>

execute_carnage_NotPending(pools) ==
  /\ ~CarnageStale
  /\ slot > carnage_lock_slot
  /\ ExecutePending(pools, CARNAGE_SLIPPAGE_BPS_FALLBACK)

\* execute_carnage, the fallback: only between the lock and the deadline.
execute_carnage(pools) ==
  /\ carnage_pending
  /\ ~CarnageStale
  /\ slot > carnage_lock_slot
  /\ ExecutePending(pools, CARNAGE_SLIPPAGE_BPS_FALLBACK)

\* execute_carnage_atomic succeeds without effect when no Carnage is pending,
\* so that clients may append it to every consume_randomness.
execute_carnage_atomic(pools) ==
  IF carnage_pending
    THEN ExecutePending(pools, CARNAGE_SLIPPAGE_BPS_ATOMIC)
    ELSE UNCHANGED vars

expire_carnage_AtDeadlineOnly ==
  /\ carnage_pending
  /\ slot = carnage_deadline_slot + 1
  /\ carnage_pending' = FALSE
  /\ carnage_action' = "None"
  /\ UNCHANGED <<slot, epochVars, requestVars, vrfVars, taxVars, armVars,
                 fundVars, sol_vault, finalized_epoch, randomness>>

expire_carnage ==
  /\ carnage_pending
  /\ CarnageStale
  /\ carnage_pending' = FALSE
  /\ carnage_action' = "None"
  /\ UNCHANGED <<slot, epochVars, requestVars, vrfVars, taxVars, armVars,
                 fundVars, sol_vault, finalized_epoch, randomness>>

------------------------------------------------------------------------------
(***************************************************************************)
(* Transactions.  An instruction is sent alone, or after the Switchboard   *)
(* instruction it depends on, in one transaction (scripts/vrf/lib).        *)
(***************************************************************************)
TriggerEpochTransition(a) ==
  /\ trigger_epoch_transition(a, randomness[a])
  /\ UNCHANGED randomness

CommitAndTrigger(a) ==
  /\ Committable(a)
  /\ trigger_epoch_transition(a, Committed)
  /\ randomness' = [randomness EXCEPT ![a] = Committed]

RetryEpochVrf(a) ==
  /\ BeforeHorizon
  /\ retry_epoch_vrf(a, randomness[a])
  /\ UNCHANGED randomness

CommitAndRetry(a) ==
  /\ Committable(a)
  /\ retry_epoch_vrf(a, Committed)
  /\ BeforeHorizon \/ ~Revealable(pending_randomness_account)
  /\ randomness' = [randomness EXCEPT ![a] = Committed]

ConsumeRandomness(a, vrf, with_carnage_state) ==
  /\ consume_randomness(a, randomness[a], vrf, with_carnage_state)
  /\ UNCHANGED randomness

RevealAndConsume(a, vrf) ==
  LET r == [randomness[a] EXCEPT !.value = "now"]
  IN /\ Revealable(a)
     /\ consume_randomness(a, r, vrf, TRUE)
     /\ randomness' = [randomness EXCEPT ![a] = r]

\* The crank's transaction: reveal, consume and execute_carnage_atomic, which
\* finds the Carnage just decided or else one left pending before.  If the
\* execution is refused, the reveal and the consumption are undone with it.
RevealConsumeAndExecute(a, vrf, pools) ==
  LET r == [randomness[a] EXCEPT !.value = "now"]
      decided == is_carnage_triggered(vrf)
      left    == carnage_pending /\ ~CarnageStale
  IN /\ Revealable(a)
     /\ randomness' = [randomness EXCEPT ![a] = r]
     /\ \/ /\ ~decided /\ ~left
           /\ consume_randomness(a, r, vrf, TRUE)
        \/ /\ ~decided /\ left
           /\ FinalizeEpoch(a, r, vrf)
           /\ execute_carnage_core(Pending, pools, CARNAGE_SLIPPAGE_BPS_ATOMIC)
           /\ UNCHANGED armVars
        \/ /\ decided
           /\ FinalizeEpoch(a, r, vrf)
           /\ execute_carnage_core(Decided(vrf), pools, CARNAGE_SLIPPAGE_BPS_ATOMIC)
           /\ OpenWindow(get_carnage_target(vrf))

Pools == [Token -> Reserves]

Next ==
  \/ Tick
  \/ \E a \in RandomnessAccount :
       \/ Commit(a)
       \/ Reveal(a)
       \/ TriggerEpochTransition(a)
       \/ CommitAndTrigger(a)
       \/ RetryEpochVrf(a)
       \/ CommitAndRetry(a)
  \/ \E a \in RandomnessAccount, vrf \in VrfSample :
       \/ RevealAndConsume(a, vrf)
       \/ \E with_carnage_state \in BOOLEAN :
            ConsumeRandomness(a, vrf, with_carnage_state)
       \/ \E pools \in Pools : RevealConsumeAndExecute(a, vrf, pools)
  \/ \E pools \in Pools : execute_carnage(pools) \/ execute_carnage_atomic(pools)
  \/ expire_carnage
  \/ \E lamports \in Deposits : Deposit(lamports)

Spec == Init /\ [][Next]_vars

\* The crank keeps calling: it reveals, consumes and executes in one transaction,
\* replaces requests that timed out and moves the epoch on; the oracle does not
\* draw forever results whose Carnage the pools refuse; anyone may expire a Carnage.
Fairness ==
  /\ WF_vars(Tick)
  /\ WF_vars(\E a \in RandomnessAccount : CommitAndTrigger(a))
  /\ WF_vars(\E a \in RandomnessAccount : CommitAndRetry(a))
  /\ WF_vars(\E a \in RandomnessAccount, vrf \in VrfSample, pools \in Pools :
               RevealConsumeAndExecute(a, vrf, pools))
  /\ WF_vars(expire_carnage)

FairSpec == Spec /\ Fairness

------------------------------------------------------------------------------
EpochTypeOK ==
  /\ slot \in Nat
  /\ current_epoch \in Nat
  /\ epoch_start_slot \in Nat
  /\ vrf_request_slot \in Nat
  /\ vrf_pending \in BOOLEAN
  /\ taxes_confirmed \in BOOLEAN
  /\ pending_randomness_account \in RandomnessAccount \cup {NoAccount}
  /\ cheap_side \in Token
  /\ tax_bps \in [Token -> [buy : Rate, sell : Rate]]
  /\ low_tax_bps \in Rate
  /\ high_tax_bps \in Rate
  /\ carnage_pending \in BOOLEAN
  /\ carnage_action \in CarnageAction
  /\ carnage_target \in Token
  /\ carnage_deadline_slot \in Nat
  /\ carnage_lock_slot \in Nat
  /\ last_carnage_epoch \in Nat
  /\ held_token \in Token \cup {NoToken}
  /\ held_amount \in Nat
  /\ total_sol_spent \in Nat
  /\ total_burned \in [Token -> Nat]
  /\ total_triggers \in Nat
  /\ last_trigger_epoch \in Nat
  /\ sol_vault \in Nat
  /\ carnage_wsol \in Nat
  /\ token_vault \in [Token -> Nat]
  /\ finalized_epoch \in Nat
  /\ randomness \in [RandomnessAccount -> Randomness]

\* A request is outstanding exactly while staking has not been told of the
\* current epoch: the update_cumulative call inside consume_randomness is never
\* refused, which would block the protocol for good, and no epoch is finalised
\* twice.
PendingMatchesStaking ==
  /\ vrf_pending <=> finalized_epoch < current_epoch
  /\ ~vrf_pending => finalized_epoch = current_epoch
  /\ taxes_confirmed <=> ~vrf_pending

\* The action of a pending Carnage, fixed when it was armed, still fits what the
\* fund holds when it is executed: a Burn or a Sell finds tokens, and a plain buy
\* finds none, so that it does not overwrite the record of tokens left behind.
ActionMatchesHoldings ==
  carnage_pending => (carnage_action = "None" <=> held_amount = 0)

\* The token vaults hold what the fund's record says, and nothing else: no
\* execution leaves tokens in a vault that no later one can reach.
HoldingsAreInVault ==
  \A t \in Token : token_vault[t] = IF t = held_token THEN held_amount ELSE 0

\* Neither a bounty nor a Carnage takes the SOL vault below its rent.
RentIsKept == sol_vault >= RENT_EXEMPT_MIN

\* At any time, the cheap side's buy and the other side's sell are in the low
\* band, and the reverse in the high band.  (How the four rates relate to the two
\* summary fields is RatesAreLowOrHigh, below.)
TaxesFollowCheapSide ==
  \A t \in Token :
    IF t = cheap_side
      THEN tax_bps[t].buy \in LowRates /\ tax_bps[t].sell \in HighRates
      ELSE tax_bps[t].buy \in HighRates /\ tax_bps[t].sell \in LowRates

\* The epoch on record began in the past, at a boundary, and an outstanding
\* request was made in it, however many boundaries the crank missed.
EpochFollowsClock ==
  /\ epoch_start_slot = start_slot(current_epoch)
  /\ epoch_start_slot <= slot
  /\ vrf_pending => epoch_start_slot <= vrf_request_slot /\ vrf_request_slot <= slot

\* A pending Carnage ends by execution or after its deadline: neither the next
\* epoch's transition nor a result that arms none cancels it.
CarnageIsNotCancelled ==
  [][carnage_pending /\ ~carnage_pending' =>
       \/ total_triggers' = total_triggers + 1
       \/ slot > carnage_deadline_slot]_vars

\* A Carnage spends at most MAX_CARNAGE_SWAP, its sale included, and takes no
\* more from the SOL vault than it spends.
SpendingIsCapped ==
  [][LET spent == total_sol_spent' - total_sol_spent
     IN total_triggers' # total_triggers =>
          /\ spent <= MAX_CARNAGE_SWAP
          /\ sol_vault - sol_vault' <= spent]_vars

\* Every VRF request is consumed in the end, though the oracle may let a request
\* die and the crank has to replace it.
RequestsAreAnswered == vrf_pending ~> ~vrf_pending

\* A Carnage pending in an epoch is executed or expires, or the next epoch is
\* finalised, where the same is true of it or of the one that supersedes it.
CarnagesAreResolved ==
  \A epoch \in 1..expected_epoch(MaxSlot) :
    (carnage_pending /\ finalized_epoch = epoch)
      ~> (~carnage_pending \/ finalized_epoch # epoch)

\* The epoch on record catches up with the clock.
EpochsAdvance ==
  \A epoch \in 1..MaxEpoch :
    expected_epoch(slot) >= epoch ~> current_epoch >= epoch

\* The program implements the lifecycle: epochs are requested and finalised in
\* turn, rates move only when an epoch is finalised, and no Carnage that was not
\* armed, or was executed already, is executed.
Lifecycle == INSTANCE EpochLifecycle WITH
  epoch <- current_epoch, finalized <- finalized_epoch, rates <- tax_bps,
  carnage <- carnage_pending, executions <- total_triggers

ImplementsLifecycle == Lifecycle!Spec

------------------------------------------------------------------------------
(***************************************************************************)
(* What comments of the program say and its code does not do.              *)
(***************************************************************************)

\* A Carnage buys "with the full available amount instead of stranding sell
\* proceeds": no wrapped SOL stays behind (helpers/carnage_execution.rs).
NoProceedsStranded == carnage_wsol = 0

\* low_tax_bps is "applied to cheap side buys and expensive side sells" and
\* high_tax_bps to the reverse; CRIME's buy rate is, "if CRIME cheap: low_tax_bps,
\* if FRAUD cheap: high_tax_bps", and so on (state/epoch_state.rs).  The indexer
\* fills in the rates of an epoch's row in just this way.  But the tokens' rates
\* are drawn one by one, and the two fields are their minimum and maximum.
RatesAreLowOrHigh ==
  \A t \in Token :
    tax_bps[t] = IF t = cheap_side THEN [buy |-> low_tax_bps,  sell |-> high_tax_bps]
                                   ELSE [buy |-> high_tax_bps, sell |-> low_tax_bps]
==============================================================================
